----------------------------- MODULE CdcRxProofs -----------------------------
(***************************************************************************)
(* Terminal input: what the V5F reads is what the host sent, in order and  *)
(* with nothing missing, for any number of slots, ring size, packet length *)
(* and index width.                                                        *)
(***************************************************************************)
EXTENDS CdcRx, CdcRingProofs

(* The i'th byte in the ring and the i'th slot held. *)
Byte(i) == data[At(Advance(tail, i))]
Nth(i) == (deal + i) % Slots

(* The first byte that hasn't been copied to the ring yet. *)
From == IF remain = 0 THEN sent + 1 ELSE slot[deal].first + pos

(* The slots: the NAK comes early enough, and load is where the held ones end. *)
SlotsKept ==
    /\ remain < Slots /\ (~nak => remain + 1 < Slots)
    /\ load = Nth(remain)
    /\ remain = 0 => pos = 0
    /\ remain # 0 => pos <= slot[deal].len

(* The held packets are in the order sent. *)
SlotsInOrder ==
    /\ \A i \in 0..remain - 1 : slot[Nth(i)].first + slot[Nth(i)].len <= sent + 1
    /\ \A i, j \in 0..remain - 1 :
           i < j => slot[Nth(i)].first + slot[Nth(i)].len <= slot[Nth(j)].first
    /\ From <= sent + 1

(* The ring is in order, above what was read and below what is still in slots. *)
RingInOrder ==
    /\ \A i, j \in 0..Waiting - 1 : i < j => Byte(i) < Byte(j)
    /\ \A i \in 0..Waiting - 1 : /\ Byte(i) < From
                                 /\ Byte(i) > read \/ (v5f = "free" /\ i = 0)
    /\ read < From

(* What each side may still do with the ring. *)
Places ==
    /\ v5f = "free" => seen = tail /\ Waiting > 0 /\ Byte(0) = read
    /\ v5f = "drop" => Count(seen, tail) <= Waiting
    /\ bridge = "publish" =>
         /\ remain # 0 /\ n \in 1..Uncopied /\ n <= Space(head, tail)
         /\ \A i \in 0..n - 1 : data[At(Advance(head, i))] = slot[deal].first + pos + i

RxInv == TypeOK /\ SlotsKept /\ SlotsInOrder /\ RingInOrder /\ Places /\ NothingLost

-----------------------------------------------------------------------------
LEMMA RxTypes ==
    ASSUME TypeOK
    PROVE  /\ head \in Index /\ tail \in Index /\ seen \in Index
           /\ data \in [Place -> Nat]
           /\ slot \in [0..Slots - 1 -> [first : Nat, len : 0..PacketSize]]
           /\ load \in 0..Slots - 1 /\ deal \in 0..Slots - 1 /\ remain \in Nat
           /\ pos \in 0..PacketSize /\ nak \in BOOLEAN /\ stop \in BOOLEAN
           /\ n \in 0..PacketSize
           /\ sent \in Nat /\ read \in Nat /\ gone \subseteq Nat
           /\ Waiting \in Nat /\ Waiting <= RingSize /\ RingSize < IndexLimit
           /\ RingSize \in Nat /\ RingSize > 0 /\ IndexLimit \in Nat
           /\ Space(head, tail) = RingSize - Waiting
           /\ PacketSize \in Nat /\ PacketSize > 0 /\ Slots \in Nat /\ Slots > 2
<1>1. /\ head \in Index /\ tail \in Index /\ seen \in Index
      /\ load \in 0..Slots - 1 /\ deal \in 0..Slots - 1
      /\ nak \in BOOLEAN /\ stop \in BOOLEAN /\ sent \in Nat /\ read \in Nat
  BY DEF TypeOK
<1>2. Waiting \in Index BY <1>1, CountCases DEF Waiting
<1>3. Waiting \in Nat BY <1>2, RingFacts DEF Index
<1>4. Space(head, tail) = RingSize - Waiting BY DEF Space, Waiting
<1> QED BY <1>1, <1>3, <1>4, RingFacts, RxAssumption DEF TypeOK

LEMMA RxNumbers ==
    ASSUME TypeOK
    PROVE  /\ pos \in Nat /\ sent \in Nat /\ read \in Nat /\ remain \in Nat /\ Waiting \in Nat
           /\ deal \in Nat /\ deal < Slots /\ deal \in 0..Slots - 1
           /\ Slots \in Nat /\ Slots > 0 /\ PacketSize \in Nat
<1>1. pos \in 0..PacketSize /\ PacketSize \in Nat BY RxTypes
<1>2. deal \in 0..Slots - 1 /\ Slots \in Nat /\ Slots > 2 BY RxTypes
<1>3. sent \in Nat /\ read \in Nat /\ remain \in Nat /\ Waiting \in Nat BY RxTypes
<1> QED BY <1>1, <1>2, <1>3

(* The places of the ring from the tail on: the bytes that wait, then the room. *)
LEMMA RxPlaces ==
    ASSUME TypeOK
    PROVE  /\ \A i \in 0..RingSize - 1 : /\ Advance(tail, i) \in Index
                                         /\ At(Advance(tail, i)) \in Place
           /\ \A i, j \in 0..RingSize - 1 :
                  i < j => At(Advance(tail, i)) # At(Advance(tail, j))
           /\ \A k \in 0..RingSize - Waiting - 1 :
                  Advance(head, k) = Advance(tail, Waiting + k)
<1>1. /\ head \in Index /\ tail \in Index /\ Waiting \in Nat /\ Waiting <= RingSize
      /\ RingSize \in Nat /\ IndexLimit \in Nat /\ RingSize < IndexLimit
  BY RxTypes
<1>2. ASSUME NEW i \in 0..RingSize - 1
      PROVE  /\ Advance(tail, i) \in Index
             /\ At(Advance(tail, i)) \in Place
  <2>1. i \in Nat /\ i < IndexLimit BY <1>1
  <2>2. Advance(tail, i) \in Index BY <1>1, <2>1, AdvanceCases
  <2> QED BY <2>2, AtIsAPlace
<1>3. ASSUME NEW i \in 0..RingSize - 1, NEW j \in 0..RingSize - 1, i < j
      PROVE  At(Advance(tail, i)) # At(Advance(tail, j))
  <2>1. i \in Nat /\ j \in Nat /\ j - i < RingSize /\ j < IndexLimit BY <1>1
  <2> QED BY <1>1, <1>3, <2>1, PlacesDiffer
<1>4. ASSUME NEW k \in 0..RingSize - Waiting - 1
      PROVE  Advance(head, k) = Advance(tail, Waiting + k)
  <2>1. k \in Nat /\ Waiting + k < IndexLimit BY <1>1
  <2>2. Advance(Advance(tail, Waiting), k) = Advance(tail, Waiting + k)
    BY <1>1, <2>1, AdvanceAdds
  <2>3. Advance(tail, Waiting) = head BY <1>1, AdvanceCount DEF Waiting
  <2> QED BY <2>2, <2>3
<1> QED BY <1>2, <1>3, <1>4

(* The room for m bytes past the head: each has a place, no two the same one,
   and none the place of a byte that waits. *)
LEMMA Room ==
    ASSUME TypeOK, NEW m \in Nat, m <= RingSize - Waiting
    PROVE  /\ \A i \in 0..m - 1 : /\ Advance(head, i) = Advance(tail, Waiting + i)
                                 /\ At(Advance(head, i)) \in Place
           /\ \A i, j \in 0..m - 1 : At(Advance(head, i)) = At(Advance(head, j)) => i = j
           /\ \A i \in 0..Waiting - 1 : /\ At(Advance(tail, i)) \in Place
                                       /\ \A k \in 0..m - 1 :
                                              At(Advance(tail, i)) # At(Advance(head, k))
<1>1. RingSize \in Nat /\ Waiting \in Nat /\ Waiting <= RingSize BY RxTypes
<1>2. \A i \in 0..m - 1 : /\ Waiting + i \in 0..RingSize - 1
                           /\ i \in 0..RingSize - Waiting - 1
  BY <1>1
<1>3. \A i \in 0..m - 1 : Advance(head, i) = Advance(tail, Waiting + i)
  BY <1>2, RxPlaces
<1>4. \A i \in 0..m - 1 : At(Advance(tail, Waiting + i)) \in Place BY <1>2, RxPlaces
<1>5. ASSUME NEW i \in 0..m - 1, NEW j \in 0..m - 1, i < j
      PROVE  At(Advance(head, i)) # At(Advance(head, j))
  <2>1. Waiting + i < Waiting + j BY <1>1, <1>5
  <2> QED BY <1>2, <1>3, <2>1, RxPlaces
<1>6. \A i, j \in 0..m - 1 : i < j \/ j < i \/ i = j OBVIOUS
<1>7. ASSUME NEW i \in 0..Waiting - 1
      PROVE  /\ At(Advance(tail, i)) \in Place
             /\ \A k \in 0..m - 1 : At(Advance(tail, i)) # At(Advance(head, k))
  <2>1. i \in 0..RingSize - 1 BY <1>1
  <2>2. \A k \in 0..m - 1 : i < Waiting + k BY <1>1
  <2> QED BY <1>2, <1>3, <2>1, <2>2, RxPlaces
<1> QED BY <1>3, <1>4, <1>5, <1>6, <1>7

(* The slots, counted from the one to be dealt with. *)
LEMMA SlotPlaces ==
    ASSUME TypeOK
    PROVE  /\ Nth(0) = deal
           /\ \A i \in Nat : Nth(i) \in 0..Slots - 1
           /\ \A i \in 0..remain - 1 : Nth(i) \in 0..Slots - 1
           /\ \A i \in Nat : NextSlot(Nth(i)) = Nth(i + 1)
           /\ \A i \in Nat : (NextSlot(deal) + i) % Slots = Nth(i + 1)
           /\ \A i, j \in 0..Slots - 1 : i < j => Nth(i) # Nth(j)
<1>1. deal \in Nat /\ deal < Slots /\ Slots \in Nat /\ Slots > 0 BY RxNumbers
<1>2. Nth(0) = deal
  <2>1. deal + 0 = deal BY <1>1
  <2> QED BY <1>1, <2>1, ModBounds DEF Nth
<1>3. ASSUME NEW i \in Nat
      PROVE  /\ Nth(i) \in 0..Slots - 1
             /\ NextSlot(Nth(i)) = Nth(i + 1)
             /\ (NextSlot(deal) + i) % Slots = Nth(i + 1)
  <2>1. deal + i \in Nat BY <1>1
  <2>2. Nth(i) \in 0..Slots - 1 BY <1>1, <2>1, ModBounds DEF Nth
  <2>3. (((deal + i) % Slots) + 1) % Slots = (deal + i + 1) % Slots BY <1>1, <2>1, ModAdds
  <2>4. deal + i + 1 = deal + (i + 1) /\ deal + 1 + i = deal + (i + 1)
        /\ deal + 1 \in Nat BY <1>1
  <2>5. (((deal + 1) % Slots) + i) % Slots = (deal + 1 + i) % Slots BY <1>1, <2>4, ModAdds
  <2> QED BY <2>2, <2>3, <2>4, <2>5 DEF Nth, NextSlot
<1>4. ASSUME NEW i \in 0..Slots - 1, NEW j \in 0..Slots - 1, i < j
      PROVE  Nth(i) # Nth(j)
  <2>1. /\ deal + i \in Nat /\ deal + j \in Nat /\ deal + i < deal + j
        /\ (deal + j) - (deal + i) < Slots
    BY <1>1, <1>4
  <2> QED BY <1>1, <2>1, ModUnique DEF Nth
<1>5. \A i \in 0..remain - 1 : i \in Nat BY RxTypes
<1> QED BY <1>2, <1>3, <1>4, <1>5

(* A byte is left in the slots when a held packet has it and it wasn't copied. *)
LEMMA LeftIs ==
    ASSUME NEW b
    PROVE  b \in Left <=> /\ \E i \in 0..remain - 1 : b \in Bytes(slot[Nth(i)])
                          /\ remain # 0 => b \notin {slot[deal].first + i : i \in 0..pos - 1}
<1>1. Held = {Nth(i) : i \in 0..remain - 1} BY DEF Held, Nth
<1>2. b \in UNION {Bytes(slot[s]) : s \in Held}
        <=> \E i \in 0..remain - 1 : b \in Bytes(slot[Nth(i)])
  BY <1>1
<1>3. CASE remain = 0 BY <1>2, <1>3 DEF Left
<1>4. CASE remain # 0 BY <1>2, <1>4 DEF Left
<1> QED BY <1>3, <1>4

LEMMA LeftIsNext ==
    ASSUME NEW b
    PROVE  b \in Left' <=> /\ \E i \in 0..remain' - 1 : b \in Bytes(slot'[Nth(i)'])
                           /\ remain' # 0
                                => b \notin {slot'[deal'].first + i : i \in 0..pos' - 1}
<1>1. Held' = {Nth(i)' : i \in 0..remain' - 1} BY DEF Held, Nth
<1>2. b \in UNION {Bytes(slot'[s]) : s \in Held'}
        <=> \E i \in 0..remain' - 1 : b \in Bytes(slot'[Nth(i)'])
  BY <1>1
<1>3. CASE remain' = 0 BY <1>2, <1>3 DEF Left, Bytes
<1>4. CASE remain' # 0 BY <1>2, <1>4 DEF Left, Bytes
<1> QED BY <1>3, <1>4

LEMMA PacketTypes ==
    ASSUME TypeOK
    PROVE  \A s \in 0..Slots - 1 : /\ slot[s].first \in Nat
                                   /\ slot[s].len \in Nat /\ slot[s].len <= PacketSize
<1>1. SUFFICES ASSUME NEW s \in 0..Slots - 1
               PROVE  /\ slot[s].first \in Nat
                      /\ slot[s].len \in Nat /\ slot[s].len <= PacketSize
  OBVIOUS
<1>2. slot[s] \in [first : Nat, len : 0..PacketSize] BY RxTypes
<1>3. slot[s].first \in Nat /\ slot[s].len \in 0..PacketSize BY <1>2
<1> QED BY <1>3, RxAssumption

LEMMA BytesOf ==
    ASSUME NEW p, p.first \in Nat, p.len \in Nat, NEW b
    PROVE  b \in Bytes(p) <=> b \in Nat /\ p.first <= b /\ b < p.first + p.len
<1>1. ASSUME b \in Bytes(p) PROVE b \in Nat /\ p.first <= b /\ b < p.first + p.len
  BY <1>1 DEF Bytes
<1>2. ASSUME b \in Nat, p.first <= b, b < p.first + p.len PROVE b \in Bytes(p)
  <2>1. b - p.first \in 0..p.len - 1 /\ p.first + (b - p.first) = b BY <1>2
  <2> QED BY <2>1 DEF Bytes
<1> QED BY <1>1, <1>2

(* What is left in the slots is what From says, or later. *)
LEMMA LeftFrom ==
    ASSUME TypeOK, SlotsKept, SlotsInOrder, NEW b \in Left
    PROVE  b \in Nat /\ b >= From /\ remain # 0
<1>1. PICK i \in 0..remain - 1 : b \in Bytes(slot[Nth(i)]) BY LeftIs
<1>2. remain \in Nat /\ remain # 0 /\ i \in Nat /\ remain < Slots /\ Slots \in Nat
  BY RxTypes DEF SlotsKept
<1>3. /\ Nth(i) \in 0..Slots - 1 /\ deal \in 0..Slots - 1 /\ Nth(0) = deal
  BY <1>2, SlotPlaces, RxTypes
<1>4. /\ slot[Nth(i)].first \in Nat /\ slot[Nth(i)].len \in Nat
      /\ slot[deal].first \in Nat /\ slot[deal].len \in Nat
  BY <1>3, PacketTypes
<1>5. b \in Nat /\ slot[Nth(i)].first <= b BY <1>1, <1>4, BytesOf
<1>6. From = slot[deal].first + pos /\ pos \in Nat /\ pos <= slot[deal].len
  BY <1>2, RxTypes DEF From, SlotsKept
<1>7. CASE i = 0
  <2>1. b \notin {slot[deal].first + k : k \in 0..pos - 1} BY <1>2, LeftIs
  <2>2. slot[deal].first <= b BY <1>3, <1>5, <1>7
  <2>3. b < slot[deal].first + pos => b - slot[deal].first \in 0..pos - 1
                                      /\ slot[deal].first + (b - slot[deal].first) = b
    BY <1>4, <1>5, <1>6, <2>2
  <2>4. ~(b < slot[deal].first + pos) BY <2>1, <2>3
  <2> QED BY <1>2, <1>4, <1>5, <1>6, <2>4
<1>8. CASE i # 0
  <2>1. 0 \in 0..remain - 1 /\ 0 < i BY <1>2, <1>8
  <2>2. slot[deal].first + slot[deal].len <= slot[Nth(i)].first
    BY <1>3, <2>1 DEF SlotsInOrder
  <2> QED BY <1>2, <1>4, <1>5, <1>6, <2>2
<1> QED BY <1>7, <1>8

-----------------------------------------------------------------------------
LEMMA RxInitInv == Init => RxInv
<1> SUFFICES ASSUME Init PROVE RxInv OBVIOUS
<1>1. /\ PacketSize \in Nat /\ Slots \in Nat /\ Slots > 2 /\ 0 \in Index
      /\ RingSize \in Nat
  BY RxAssumption, RingFacts DEF Index
<1>2. Waiting = 0
  <2>1. Count(0, 0) = 0 - 0 BY <1>1, CountCases
  <2> QED BY <2>1 DEF Init, Waiting
<1>3. TypeOK
  <2>1. {head, tail, seen} \subseteq Index /\ data \in [Place -> Nat] BY <1>1 DEF Init
  <2>2. slot \in [0..Slots - 1 -> [first : Nat, len : 0..PacketSize]]
    <3>1. Freed \in [first : Nat, len : 0..PacketSize] BY <1>1 DEF Freed
    <3> QED BY <3>1 DEF Init
  <2>3. /\ {load, deal} \subseteq 0..Slots - 1 /\ remain \in 0..Slots
        /\ pos \in 0..PacketSize /\ n \in 0..PacketSize
    BY <1>1 DEF Init
  <2>4. {nak, stop} \subseteq BOOLEAN BY DEF Init
  <2>5. /\ bridge \in {"poll", "loop", "publish"}
        /\ v5f \in {"open", "drop", "idle", "free"}
        /\ {sent, read} \subseteq Nat /\ gone \subseteq Nat
    BY DEF Init
  <2>6. Waiting <= RingSize BY <1>1, <1>2
  <2> QED BY <2>1, <2>2, <2>3, <2>4, <2>5, <2>6 DEF TypeOK
<1>4. SlotsKept
  <2>1. Nth(0) = 0 BY <1>3, SlotPlaces DEF Init
  <2> QED BY <1>1, <2>1 DEF Init, SlotsKept
<1>5. From = 1 BY DEF Init, From
<1>6. SlotsInOrder BY <1>5 DEF Init, SlotsInOrder
<1>7. RingInOrder BY <1>2, <1>5 DEF Init, RingInOrder
<1>8. Places BY DEF Init, Places
<1>9. NothingLost BY DEF Init, NothingLost
<1> QED BY <1>3, <1>4, <1>6, <1>7, <1>8, <1>9 DEF RxInv

(* The interrupt takes a packet into the slot after the held ones. *)
LEMMA ReceiveStep ==
    ASSUME RxInv, NEW l \in 0..PacketSize, Receive(l)
    PROVE  RxInv'
<1> USE DEF RxInv, ring, work, reader
<1>1. /\ UNCHANGED <<ring, deal, pos, work, reader, gone>>
      /\ bridge = "poll" /\ ~nak
      /\ slot' = [slot EXCEPT ![load] = [first |-> sent + 1, len |-> l]]
      /\ load' = NextSlot(load) /\ remain' = remain + 1
      /\ nak' = (remain' >= Slots - 2) /\ stop' = (stop \/ nak')
      /\ sent' = sent + l
  BY DEF Receive
<1>2. /\ l \in Nat /\ sent \in Nat /\ remain \in Nat /\ Slots \in Nat /\ remain + 1 < Slots
      /\ PacketSize \in Nat /\ pos \in Nat /\ read \in Nat /\ Slots > 2
      /\ deal \in 0..Slots - 1 /\ Waiting \in Nat
  BY <1>1, RxTypes DEF SlotsKept
<1>3. load = Nth(remain) /\ load \in 0..Slots - 1 BY RxTypes DEF SlotsKept
<1>4. \A i \in 0..remain - 1 : Nth(i) # load
  <2>1. \A i \in 0..remain - 1 : i \in 0..Slots - 1 /\ i < remain BY <1>2
  <2>2. remain \in 0..Slots - 1 BY <1>2
  <2> QED BY <1>3, <2>1, <2>2, SlotPlaces
<1>5. /\ slot'[load] = [first |-> sent + 1, len |-> l]
      /\ \A s \in 0..Slots - 1 : s # load => slot'[s] = slot[s]
  BY <1>1, <1>3, RxTypes
<1>6. \A i \in 0..remain - 1 : slot'[Nth(i)] = slot[Nth(i)]
  <2>1. \A i \in 0..remain - 1 : Nth(i) \in 0..Slots - 1 BY SlotPlaces
  <2> QED BY <1>4, <1>5, <2>1
<1>7. \A i : Nth(i)' = Nth(i) BY <1>1 DEF Nth
<1>8. TypeOK'
  <2>1. Waiting' = Waiting BY <1>1 DEF Waiting
  <2>2. [first |-> sent + 1, len |-> l] \in [first : Nat, len : 0..PacketSize] BY <1>2
  <2>3. slot' \in [0..Slots - 1 -> [first : Nat, len : 0..PacketSize]]
    BY <1>1, <2>2, RxTypes
  <2>4. load' \in 0..Slots - 1
    <3>1. load' = Nth(remain + 1) BY <1>1, <1>2, <1>3, SlotPlaces
    <3> QED BY <3>1, <1>2, SlotPlaces
  <2>5. nak' \in BOOLEAN /\ stop' \in BOOLEAN BY <1>1 DEF TypeOK
  <2>6. remain' \in 0..Slots /\ sent' \in Nat BY <1>1, <1>2
  <2> QED BY <1>1, <2>1, <2>3, <2>4, <2>5, <2>6 DEF TypeOK
<1>9. SlotsKept'
  <2>1. remain' < Slots BY <1>1, <1>2
  <2>2. ~nak' => remain' + 1 < Slots
    <3>1. SUFFICES ASSUME ~nak' PROVE remain' + 1 < Slots OBVIOUS
    <3>2. ~(remain' >= Slots - 2) BY <1>1, <3>1
    <3> QED BY <1>1, <1>2, <3>2
  <2>3. load' = Nth(remain') BY <1>1, <1>2, <1>3, SlotPlaces
  <2>4. remain' # 0 BY <1>1, <1>2
  <2>5. pos' <= slot'[deal'].len
    <3>1. CASE remain = 0
      <4>1. pos = 0 /\ load = deal BY <1>3, <3>1, SlotPlaces DEF SlotsKept
      <4> QED BY <1>1, <1>2, <1>5, <4>1
    <3>2. CASE remain # 0
      <4>1. 0 \in 0..remain - 1 BY <1>2, <3>2
      <4>2. slot'[deal] = slot[deal] BY <4>1, <1>6, SlotPlaces
      <4> QED BY <1>1, <3>2, <4>2 DEF SlotsKept
    <3> QED BY <3>1, <3>2
  <2> QED BY <1>7, <2>1, <2>2, <2>3, <2>4, <2>5 DEF SlotsKept
<1>10. From' = From
  <2>1. From' = slot'[deal].first + pos BY <1>1, <1>2 DEF From
  <2>2. CASE remain = 0
    <3>1. pos = 0 /\ load = deal BY <1>3, <2>2, SlotPlaces DEF SlotsKept
    <3> QED BY <1>2, <1>5, <2>1, <2>2, <3>1 DEF From
  <2>3. CASE remain # 0
    <3>1. 0 \in 0..remain - 1 BY <1>2, <2>3
    <3>2. slot'[deal] = slot[deal] BY <3>1, <1>6, SlotPlaces
    <3> QED BY <2>1, <2>3, <3>2 DEF From
  <2> QED BY <2>2, <2>3
<1>11. \A i \in 0..remain - 1 : /\ slot[Nth(i)].first \in Nat /\ slot[Nth(i)].len \in Nat
                                /\ slot[Nth(i)].first + slot[Nth(i)].len <= sent + 1
  <2>1. \A i \in 0..remain - 1 : Nth(i) \in 0..Slots - 1 BY SlotPlaces
  <2> QED BY <2>1, PacketTypes DEF SlotsInOrder
<1>12. slot'[Nth(remain)].first = sent + 1 /\ slot'[Nth(remain)].len = l BY <1>3, <1>5
<1>13. SlotsInOrder'
  <2>1. ASSUME NEW i \in 0..remain' - 1
        PROVE  slot'[Nth(i)].first + slot'[Nth(i)].len <= sent' + 1
    <3>1. CASE i = remain BY <1>1, <1>2, <1>12, <3>1
    <3>2. CASE i \in 0..remain - 1 BY <1>1, <1>2, <1>6, <1>11, <3>2
    <3> QED BY <1>1, <1>2, <3>1, <3>2
  <2>2. ASSUME NEW i \in 0..remain' - 1, NEW j \in 0..remain' - 1, i < j
        PROVE  slot'[Nth(i)].first + slot'[Nth(i)].len <= slot'[Nth(j)].first
    <3>1. i \in 0..remain - 1 BY <1>1, <1>2, <2>2
    <3>2. CASE j = remain BY <1>6, <1>11, <1>12, <3>1, <3>2
    <3>3. CASE j \in 0..remain - 1 BY <1>6, <2>2, <3>1, <3>3 DEF SlotsInOrder
    <3> QED BY <1>1, <1>2, <3>2, <3>3
  <2>3. From \in Int
    <3>1. slot[deal].first \in Nat BY <1>2, PacketTypes
    <3> QED BY <1>2, <3>1 DEF From
  <2>4. From' <= sent' + 1 BY <1>1, <1>2, <1>10, <2>3 DEF SlotsInOrder
  <2> QED BY <1>7, <2>1, <2>2, <2>4 DEF SlotsInOrder
<1>14. Waiting' = Waiting /\ \A i : Byte(i)' = Byte(i) BY <1>1 DEF Waiting, Byte
<1>15. RingInOrder' BY <1>1, <1>10, <1>14 DEF RingInOrder
<1>16. Places' BY <1>1, <1>14 DEF Places, Byte
<1>17. NothingLost'
  <2>1. SUFFICES ASSUME NEW b \in 1..sent'
                 PROVE  b <= read \/ b \in gone \/ b \in InRing \/ b \in Left'
    <3>1. InRing' = InRing BY <1>1, <1>14 DEF InRing
    <3> QED BY <1>1, <2>1, <3>1 DEF NothingLost
  <2>3. b \in Left' <=> /\ \E i \in 0..remain' - 1 : b \in Bytes(slot'[Nth(i)])
                        /\ remain' # 0 => b \notin {slot'[deal].first + i : i \in 0..pos - 1}
    <3>1. b \in Left' <=> /\ \E i \in 0..remain' - 1 : b \in Bytes(slot'[Nth(i)'])
                          /\ remain' # 0
                               => b \notin {slot'[deal'].first + i : i \in 0..pos' - 1}
      BY LeftIsNext
    <3> QED BY <1>1, <1>7, <3>1
  <2>4. CASE b \in 1..sent
    <3>1. CASE b \in Left
      <4>1. PICK i \in 0..remain - 1 : b \in Bytes(slot[Nth(i)]) BY <3>1, LeftIs
      <4>2. remain # 0 /\ 0 \in 0..remain - 1 BY <1>2, <4>1
      <4>3. b \notin {slot[deal].first + k : k \in 0..pos - 1} BY <3>1, <4>2, LeftIs
      <4>4. slot'[deal] = slot[deal] BY <4>2, <1>6, SlotPlaces
      <4>5. i \in 0..remain' - 1 BY <1>1, <1>2
      <4> QED BY <2>3, <4>1, <4>3, <4>4, <4>5, <1>6
    <3> QED BY <2>4, <3>1 DEF NothingLost
  <2>5. CASE b \notin 1..sent
    <3>1. b \in Nat /\ sent + 1 <= b /\ b < sent + 1 + l BY <1>1, <1>2, <2>5
    <3>2. b \in Bytes(slot'[Nth(remain)])
      <4> DEFINE p == slot'[Nth(remain)]
      <4>1. p.first \in Nat /\ p.len \in Nat /\ p.first <= b /\ b < p.first + p.len
        BY <1>2, <1>12, <3>1
      <4> HIDE DEF p
      <4>2. b \in Bytes(p) BY <3>1, <4>1, BytesOf
      <4> QED BY <4>2 DEF p
    <3>3. remain \in 0..remain' - 1 BY <1>1, <1>2
    <3>4. b \notin {slot'[deal].first + k : k \in 0..pos - 1}
      <4>1. slot'[deal].first + pos <= sent + 1
        BY <1>1, <1>2, <1>10 DEF From, SlotsInOrder
      <4>2. slot'[deal].first \in Nat BY <1>1, <1>2, <1>8, PacketTypes, RxTypes DEF TypeOK
      <4> QED BY <1>2, <3>1, <4>1, <4>2
    <3> QED BY <2>3, <3>2, <3>3, <3>4
  <2> QED BY <2>4, <2>5
<1> QED BY <1>8, <1>9, <1>13, <1>15, <1>16, <1>17

(* Steps of the bridge that only change where it is. *)
LEMMA LoopStep ==
    ASSUME RxInv, UNCHANGED <<ring, slots, n, reader, sent, gone>>,
           bridge' \in {"poll", "loop"} \/ bridge' = bridge
    PROVE  RxInv'
<1> USE DEF RxInv, ring, slots, reader
<1>1. Waiting' = Waiting /\ (\A i : Byte(i)' = Byte(i)) /\ (\A i : Nth(i)' = Nth(i))
  BY DEF Waiting, Byte, Nth
<1>2. From' = From BY DEF From
<1>3. TypeOK' BY <1>1 DEF TypeOK
<1>4. SlotsKept' BY <1>1 DEF SlotsKept
<1>5. SlotsInOrder' BY <1>1, <1>2 DEF SlotsInOrder
<1>6. RingInOrder' BY <1>1, <1>2 DEF RingInOrder
<1>7. Places' BY <1>1 DEF Places, Uncopied, Byte
<1>8. NothingLost' BY <1>1 DEF NothingLost, InRing, Left, Held, Bytes
<1> QED BY <1>3, <1>4, <1>5, <1>6, <1>7, <1>8

(* The driver's reset drops what the slots hold, and nothing else. *)
LEMMA ParaInitStep == RxInv /\ ParaInit => RxInv'
<1> SUFFICES ASSUME RxInv, ParaInit PROVE RxInv' OBVIOUS
<1> USE DEF RxInv, ring, work, reader
<1>1. /\ UNCHANGED <<ring, work, reader, sent>>
      /\ bridge = "poll"
      /\ load' = 0 /\ deal' = 0 /\ remain' = 0 /\ pos' = 0
      /\ nak' = FALSE /\ stop' = FALSE
      /\ slot' = [s \in 0..Slots - 1 |-> Freed]
      /\ gone' = gone \cup Left
  BY DEF ParaInit
<1>2. /\ Slots \in Nat /\ Slots > 2 /\ PacketSize \in Nat /\ Waiting \in Nat
      /\ sent \in Nat /\ read \in Nat /\ data \in [Place -> Nat]
      /\ Waiting <= RingSize /\ RingSize \in Nat
  BY RxTypes
<1>3. Waiting' = Waiting /\ (\A i : Byte(i)' = Byte(i)) BY <1>1 DEF Waiting, Byte
<1>4. Left \subseteq Nat BY LeftFrom
<1>5. TypeOK'
  <2>1. slot' \in [0..Slots - 1 -> [first : Nat, len : 0..PacketSize]]
    <3>1. Freed \in [first : Nat, len : 0..PacketSize] BY <1>2 DEF Freed
    <3> QED BY <1>1, <3>1
  <2>2. /\ {load', deal'} \subseteq 0..Slots - 1 /\ remain' \in 0..Slots
        /\ pos' \in 0..PacketSize
    BY <1>1, <1>2
  <2>3. {nak', stop'} \subseteq BOOLEAN BY <1>1
  <2>4. gone' \subseteq Nat BY <1>1, <1>4 DEF TypeOK
  <2> QED BY <1>1, <1>3, <2>1, <2>2, <2>3, <2>4 DEF TypeOK
<1>6. SlotsKept'
  <2>1. Nth(0)' = 0
    <3>1. (0 + 0) % Slots = 0 BY <1>2, ModBounds
    <3> QED BY <1>1, <3>1 DEF Nth
  <2>2. remain' < Slots /\ remain' + 1 < Slots BY <1>1, <1>2
  <2>3. load' = Nth(remain)'
    <3>1. Nth(remain)' = Nth(0)' BY <1>1 DEF Nth
    <3> QED BY <1>1, <2>1, <3>1
  <2> QED BY <1>1, <2>2, <2>3 DEF SlotsKept
<1>7. From' = sent + 1 BY <1>1 DEF From
<1>8. SlotsInOrder'
  <2>1. 0..remain' - 1 = {} /\ From' <= sent' + 1 BY <1>1, <1>2, <1>7
  <2> QED BY <2>1 DEF SlotsInOrder
<1>9. From <= sent + 1 /\ From \in Int
  <2>1. slot[deal].first \in Nat BY PacketTypes, RxTypes
  <2>2. sent \in Nat /\ pos \in Int
    <3>1. pos \in 0..PacketSize /\ PacketSize \in Nat BY RxTypes
    <3> QED BY <3>1, RxTypes
  <2>3. From \in Int BY <2>1, <2>2 DEF From
  <2> QED BY <2>3 DEF SlotsInOrder
<1>10. RingInOrder'
  <2>1. \A i \in 0..Waiting - 1 : Byte(i) \in Nat
    <3>1. \A i \in 0..Waiting - 1 : i \in 0..RingSize - 1 BY <1>2
    <3>2. \A i \in 0..Waiting - 1 : At(Advance(tail, i)) \in Place BY <3>1, RxPlaces
    <3> QED BY <1>2, <3>2 DEF Byte
  <2>2. \A i \in 0..Waiting - 1 : Byte(i) < From' BY <1>2, <1>7, <1>9, <2>1 DEF RingInOrder
  <2>3. read < From' BY <1>2, <1>7, <1>9 DEF RingInOrder
  <2> QED BY <1>1, <1>3, <2>2, <2>3 DEF RingInOrder
<1>11. Places' BY <1>1, <1>3 DEF Places, Byte
<1>12. NothingLost'
  <2>1. InRing' = InRing BY <1>1, <1>3 DEF InRing
  <2> QED BY <1>1, <2>1 DEF NothingLost
<1> QED BY <1>5, <1>6, <1>8, <1>10, <1>11, <1>12

(* Bytes of the slot go where there is room: what waits stays as it is. *)
LEMMA CopyStep == RxInv /\ Copy => RxInv'
<1> SUFFICES ASSUME RxInv, Copy PROVE RxInv' OBVIOUS
<1> USE DEF RxInv, slots, reader
<1>1. /\ UNCHANGED <<head, tail, slots, reader, sent, gone>>
      /\ remain # 0 /\ Uncopied > 0 /\ Space(head, tail) # 0
      /\ n' = Smaller(Uncopied, Space(head, tail))
      /\ data' = [p \in Place |->
                     IF \E i \in 0..n' - 1 : p = At(Advance(head, i))
                     THEN slot[deal].first + pos +
                          (CHOOSE i \in 0..n' - 1 : p = At(Advance(head, i)))
                     ELSE data[p]]
      /\ bridge' = "publish"
  BY DEF Copy
<1>2. /\ Space(head, tail) = RingSize - Waiting /\ RingSize \in Nat /\ Waiting \in Nat
      /\ Waiting <= RingSize /\ PacketSize \in Nat /\ pos \in Nat
      /\ data \in [Place -> Nat] /\ deal \in 0..Slots - 1
  BY RxTypes
<1>3. /\ slot[deal].first \in Nat /\ slot[deal].len \in Nat /\ slot[deal].len <= PacketSize
  BY <1>2, PacketTypes
<1>4. Uncopied \in Int /\ Uncopied <= PacketSize BY <1>2, <1>3 DEF Uncopied
<1>5. n' \in 1..Uncopied /\ n' <= Space(head, tail) /\ n' \in 0..PacketSize
  BY <1>1, <1>2, <1>4 DEF Smaller
<1>6. n' \in Nat /\ n' <= RingSize - Waiting
  <2>1. n' \in Nat BY <1>2, <1>5
  <2>2. n' <= Space(head, tail) /\ Space(head, tail) = RingSize - Waiting BY <1>2, <1>5
  <2> QED BY <2>1, <2>2
<1>7. /\ \A i \in 0..n' - 1 : At(Advance(head, i)) \in Place
      /\ \A i, j \in 0..n' - 1 : At(Advance(head, i)) = At(Advance(head, j)) => i = j
      /\ \A i \in 0..Waiting - 1 : /\ At(Advance(tail, i)) \in Place
                                  /\ \A k \in 0..n' - 1 :
                                         At(Advance(tail, i)) # At(Advance(head, k))
  BY <1>6, Room
<1>8. \A i \in 0..n' - 1 : data'[At(Advance(head, i))] = slot[deal].first + pos + i
  <2>1. SUFFICES ASSUME NEW i \in 0..n' - 1
                 PROVE  data'[At(Advance(head, i))] = slot[deal].first + pos + i
    OBVIOUS
  <2> DEFINE p == At(Advance(head, i))
             c == CHOOSE k \in 0..n' - 1 : p = At(Advance(head, k))
  <2>2. p \in Place BY <1>7
  <2>3. c \in 0..n' - 1 /\ p = At(Advance(head, c)) BY <2>1
  <2>4. c = i BY <1>7, <2>3
  <2>5. data'[p] = slot[deal].first + pos + c BY <1>1, <2>1, <2>2
  <2> QED BY <2>4, <2>5
<1>9. \A i \in 0..Waiting - 1 : data'[At(Advance(tail, i))] = data[At(Advance(tail, i))]
  <2>1. SUFFICES ASSUME NEW i \in 0..Waiting - 1
                 PROVE  data'[At(Advance(tail, i))] = data[At(Advance(tail, i))]
    OBVIOUS
  <2>2. At(Advance(tail, i)) \in Place BY <1>7
  <2>3. \A k \in 0..n' - 1 : At(Advance(tail, i)) # At(Advance(head, k)) BY <1>7
  <2> QED BY <1>1, <2>2, <2>3
<1>10. data' \in [Place -> Nat]
  <2>1. SUFFICES ASSUME NEW p \in Place
                 PROVE  (IF \E i \in 0..n' - 1 : p = At(Advance(head, i))
                         THEN slot[deal].first + pos +
                              (CHOOSE i \in 0..n' - 1 : p = At(Advance(head, i)))
                         ELSE data[p]) \in Nat
    BY <1>1
  <2>2. CASE \E i \in 0..n' - 1 : p = At(Advance(head, i))
    <3> DEFINE c == CHOOSE i \in 0..n' - 1 : p = At(Advance(head, i))
    <3>1. c \in 0..n' - 1 BY <2>2
    <3>2. c \in Nat BY <3>1
    <3> QED BY <1>2, <1>3, <2>2, <3>2
  <2>3. CASE ~ \E i \in 0..n' - 1 : p = At(Advance(head, i)) BY <1>2, <2>3
  <2> QED BY <2>2, <2>3
<1>11. Waiting' = Waiting /\ Uncopied' = Uncopied /\ From' = From
       /\ (\A i : Nth(i)' = Nth(i))
  BY <1>1 DEF Waiting, Uncopied, From, Nth
<1>12. \A i \in 0..Waiting - 1 : Byte(i)' = Byte(i) BY <1>1, <1>9 DEF Byte
<1>13. TypeOK' BY <1>1, <1>5, <1>10, <1>11 DEF TypeOK
<1>14. SlotsKept' BY <1>1, <1>11 DEF SlotsKept
<1>15. SlotsInOrder' BY <1>1, <1>11 DEF SlotsInOrder
<1>16. RingInOrder' BY <1>1, <1>11, <1>12 DEF RingInOrder
<1>17. Places'
  <2>1. Waiting > 0 => Byte(0)' = Byte(0)
    <3>1. Waiting > 0 => 0 \in 0..Waiting - 1 BY <1>2
    <3> QED BY <3>1, <1>12
  <2>2. \A i \in 0..n' - 1 : data'[At(Advance(head', i))] = slot'[deal'].first + pos' + i
    BY <1>1, <1>8
  <2>3. n' \in 1..Uncopied' /\ n' <= Space(head', tail') BY <1>1, <1>5, <1>11
  <2> QED BY <1>1, <1>11, <2>1, <2>2, <2>3 DEF Places
<1>18. NothingLost'
  <2>1. InRing' = InRing
    <3>1. tail' = tail /\ Waiting' = Waiting BY <1>1, <1>11
    <3>2. \A i \in 0..Waiting - 1 : data'[At(Advance(tail, i))] = data[At(Advance(tail, i))]
          BY <1>9, <3>1
    <3> QED BY <3>1, <3>2 DEF InRing
  <2>2. Left' = Left BY <1>1 DEF Left, Held, Bytes
  <2> QED BY <1>1, <2>1, <2>2 DEF NothingLost
<1> QED BY <1>13, <1>14, <1>15, <1>16, <1>17, <1>18

(* slot_release: the next held packet is the one to deal with, and only what
   was left of the released one is no longer in the slots. *)
LEMMA Released ==
    ASSUME RxInv, Release, remain # 0, UNCHANGED <<load, sent>>
    PROVE  /\ slot' \in [0..Slots - 1 -> [first : Nat, len : 0..PacketSize]]
           /\ deal' \in 0..Slots - 1 /\ remain' \in 0..Slots /\ pos' = 0
           /\ {nak', stop'} \subseteq BOOLEAN
           /\ SlotsKept' /\ SlotsInOrder'
           /\ slot[deal].first + slot[deal].len <= From' /\ From' \in Nat
           /\ \A b \in Left : b >= slot[deal].first + slot[deal].len => b \in Left'
<1> USE DEF RxInv
<1>1. /\ deal' = NextSlot(deal) /\ remain' = remain - 1 /\ pos' = 0
      /\ slot' = [slot EXCEPT ![deal] = Freed]
      /\ IF stop /\ remain' < 2 THEN nak' = FALSE /\ stop' = FALSE
                                ELSE UNCHANGED <<nak, stop>>
  BY DEF Release
<1>2. /\ Slots \in Nat /\ Slots > 2 /\ remain \in Nat /\ remain < Slots
      /\ remain' \in Nat /\ remain' = remain - 1 /\ deal \in 0..Slots - 1
      /\ sent \in Nat /\ PacketSize \in Nat
      /\ load = Nth(remain)
  <2>1. /\ Slots \in Nat /\ Slots > 2 /\ remain \in Nat /\ deal \in 0..Slots - 1
        /\ sent \in Nat /\ PacketSize \in Nat
        BY RxTypes
  <2>2. remain < Slots /\ load = Nth(remain) BY DEF SlotsKept
  <2>3. remain' \in Nat BY <1>1, <2>1
  <2> QED BY <1>1, <2>1, <2>2, <2>3
<1>3. /\ Nth(0) = deal
      /\ \A i \in Nat : Nth(i) \in 0..Slots - 1
      /\ \A i \in Nat : Nth(i)' = Nth(i + 1)
  <2>1. \A i : Nth(i)' = (NextSlot(deal) + i) % Slots BY <1>1 DEF Nth
  <2> QED BY <2>1, SlotPlaces
<1>4. deal' \in 0..Slots - 1
  <2>1. deal' = Nth(1)
    <3>1. NextSlot(Nth(0)) = Nth(0 + 1) BY SlotPlaces
    <3> QED BY <1>1, <1>3, <3>1
  <2> QED BY <1>3, <2>1
<1>5. ASSUME NEW i \in 0..remain' - 1
      PROVE  /\ i \in Nat /\ i + 1 \in 0..remain - 1
             /\ Nth(i + 1) \in 0..Slots - 1 /\ Nth(i)' = Nth(i + 1)
             /\ slot'[Nth(i)'] = slot[Nth(i + 1)]
  <2>1. i \in Nat /\ i + 1 \in 0..remain - 1 BY <1>2
  <2>2. i + 1 \in 0..Slots - 1 /\ 0 \in 0..Slots - 1 /\ 0 < i + 1 BY <1>2, <2>1
  <2>3. Nth(i + 1) # deal BY <1>3, <2>2, SlotPlaces
  <2>4. Nth(i + 1) \in 0..Slots - 1 /\ Nth(i)' = Nth(i + 1) BY <1>3, <2>1
  <2>5. slot'[Nth(i + 1)] = slot[Nth(i + 1)] BY <1>1, <2>3, <2>4, RxTypes
  <2> QED BY <2>1, <2>4, <2>5
<1>6. slot' \in [0..Slots - 1 -> [first : Nat, len : 0..PacketSize]]
  <2>1. Freed \in [first : Nat, len : 0..PacketSize] BY <1>2 DEF Freed
  <2> QED BY <1>1, <2>1, RxTypes
<1>7. {nak', stop'} \subseteq BOOLEAN
  <2>1. nak \in BOOLEAN /\ stop \in BOOLEAN BY RxTypes
  <2> QED BY <1>1, <2>1
<1>8. SlotsKept'
  <2>1. remain' < Slots BY <1>2
  <2>2. ~nak' => remain' + 1 < Slots
    <3>1. CASE stop /\ remain' < 2 BY <1>2, <3>1
    <3>2. CASE ~(stop /\ remain' < 2)
      <4>1. nak' = nak BY <1>1, <3>2
      <4> QED BY <1>2, <4>1 DEF SlotsKept
    <3> QED BY <3>1, <3>2
  <2>3. load' = Nth(remain)'
    <3>1. Nth(remain)' = (deal' + remain') % Slots BY DEF Nth
    <3>2. (NextSlot(deal) + remain') % Slots = Nth(remain' + 1) BY <1>2, SlotPlaces
    <3> QED BY <1>1, <1>2, <3>1, <3>2
  <2>4. remain' # 0 => pos' <= slot'[deal'].len
    <3>1. SUFFICES ASSUME remain' # 0 PROVE 0 <= slot'[deal'].len BY <1>1
    <3>2. slot'[deal'] \in [first : Nat, len : 0..PacketSize] BY <1>4, <1>6
    <3>3. slot'[deal'].len \in 0..PacketSize BY <3>2
    <3> QED BY <3>3, <1>2
  <2> QED BY <1>1, <2>1, <2>2, <2>3, <2>4 DEF SlotsKept
<1>9. slot[deal].first + slot[deal].len <= From' /\ From' \in Nat /\ From' <= sent + 1
  <2>1. slot[deal].first \in Nat /\ slot[deal].len \in Nat BY <1>2, PacketTypes
  <2>2. 0 \in 0..remain - 1 BY <1>2
  <2>3. CASE remain' = 0
    <3>1. From' = sent + 1 BY <2>3 DEF From
    <3>2. slot[Nth(0)].first + slot[Nth(0)].len <= sent + 1 BY <2>2 DEF SlotsInOrder
    <3> QED BY <1>2, <1>3, <3>1, <3>2
  <2>4. CASE remain' # 0
    <3>1. 0 \in 0..remain' - 1 /\ 1 \in 0..remain - 1 /\ 0 + 1 = 1 /\ 0 < 1 BY <1>2, <2>4
    <3>2. slot'[Nth(0)'] = slot[Nth(1)] /\ Nth(1) \in 0..Slots - 1 /\ Nth(0)' = Nth(1)
      BY <1>5, <3>1
    <3>3. deal' = Nth(1)
      <4>1. NextSlot(Nth(0)) = Nth(0 + 1) BY SlotPlaces
      <4> QED BY <1>1, <1>3, <4>1
    <3>4. From' = slot[Nth(1)].first + 0 BY <1>1, <2>4, <3>2, <3>3 DEF From
    <3>5. slot[Nth(1)].first \in Nat /\ slot[Nth(1)].len \in Nat BY <3>2, PacketTypes
    <3>6. /\ slot[deal].first + slot[deal].len <= slot[Nth(1)].first
          /\ slot[Nth(1)].first + slot[Nth(1)].len <= sent + 1
      BY <1>3, <2>2, <3>1 DEF SlotsInOrder
    <3> QED BY <1>2, <3>4, <3>5, <3>6
  <2> QED BY <2>3, <2>4
<1>10. SlotsInOrder'
  <2>1. \A i \in 0..remain' - 1 :
            slot'[Nth(i)'].first + slot'[Nth(i)'].len <= sent' + 1
    BY <1>5 DEF SlotsInOrder
  <2>2. ASSUME NEW i \in 0..remain' - 1, NEW j \in 0..remain' - 1, i < j
        PROVE  slot'[Nth(i)'].first + slot'[Nth(i)'].len <= slot'[Nth(j)'].first
    <3>1. i + 1 < j + 1 BY <1>5, <2>2
    <3> QED BY <1>5, <3>1 DEF SlotsInOrder
  <2> QED BY <1>9, <2>1, <2>2 DEF SlotsInOrder
<1>11. ASSUME NEW b \in Left, b >= slot[deal].first + slot[deal].len
       PROVE  b \in Left'
  <2>1. PICK i \in 0..remain - 1 : b \in Bytes(slot[Nth(i)]) BY LeftIs
  <2>2. slot[deal].first \in Nat /\ slot[deal].len \in Nat BY <1>2, PacketTypes
  <2>3. b \in Nat BY LeftFrom
  <2>4. i # 0
    <3>1. SUFFICES ASSUME i = 0 PROVE FALSE OBVIOUS
    <3>2. b \in Bytes(slot[deal]) BY <1>3, <2>1, <3>1
    <3>3. b < slot[deal].first + slot[deal].len BY <2>2, <3>2, BytesOf
    <3> QED BY <1>11, <2>2, <2>3, <3>3
  <2> DEFINE k == i - 1
  <2>5. k \in 0..remain' - 1 /\ k + 1 = i BY <1>2, <2>4
  <2>6. b \in Bytes(slot'[Nth(k)'])
    <3>1. slot'[Nth(k)'] = slot[Nth(k + 1)] BY <1>5, <2>5
    <3> QED BY <2>1, <2>5, <3>1
  <2>7. 0..pos' - 1 = {} BY <1>1
  <2>8. b \notin {slot'[deal'].first + m : m \in 0..pos' - 1} BY <2>7
  <2> HIDE DEF k
  <2> QED BY <2>5, <2>6, <2>8, LeftIsNext
<1> QED BY <1>1, <1>2, <1>4, <1>6, <1>7, <1>8, <1>9, <1>10, <1>11

(* The head moves over the bytes copied: the ring holds them after what it held. *)
LEMMA RingGrows ==
    ASSUME RxInv, bridge = "publish",
           head' = Advance(head, n), UNCHANGED <<tail, data>>
    PROVE  /\ head' \in Index /\ Waiting' = Waiting + n /\ Waiting' <= RingSize
           /\ \A i \in 0..Waiting - 1 : Byte(i)' = Byte(i)
           /\ \A i : \A k \in 0..n - 1 :
                  i = Waiting + k => Byte(i)' = slot[deal].first + pos + k
<1> USE DEF RxInv
<1>1. /\ n \in Nat /\ n > 0 /\ n <= RingSize - Waiting
      /\ head \in Index /\ tail \in Index /\ Waiting \in Nat /\ RingSize \in Nat
      /\ RingSize < IndexLimit /\ IndexLimit \in Nat
      /\ \A k \in 0..n - 1 : data[At(Advance(head, k))] = slot[deal].first + pos + k
  <2>1. n \in 1..Uncopied /\ n <= Space(head, tail) BY DEF Places
  <2>2. n \in 0..PacketSize /\ PacketSize \in Nat BY RxTypes
  <2>3. n \in Nat BY <2>2
  <2>4. n > 0 BY <2>1
  <2>5. n <= RingSize - Waiting BY <2>1, RxTypes
  <2> QED BY <2>3, <2>4, <2>5, RxTypes DEF Places
<1>2. head' \in Index
  <2>1. n < IndexLimit BY <1>1
  <2> QED BY <1>1, <2>1, AdvanceCases
<1>3. Waiting' = Waiting + n
  <2>1. Count(head, tail) + n < IndexLimit BY <1>1 DEF Waiting
  <2>2. Count(Advance(head, n), tail) = Count(head, tail) + n BY <1>1, <2>1, CountGrows
  <2> QED BY <2>2 DEF Waiting
<1>4. \A i : Byte(i)' = data[At(Advance(tail, i))] BY DEF Byte
<1>5. \A k \in 0..n - 1 : Advance(head, k) = Advance(tail, Waiting + k) BY <1>1, Room
<1>6. Waiting' <= RingSize BY <1>1, <1>3
<1>7. ASSUME NEW i, NEW k \in 0..n - 1, i = Waiting + k
      PROVE  Byte(i)' = slot[deal].first + pos + k
  BY <1>1, <1>4, <1>5, <1>7
<1> QED BY <1>2, <1>3, <1>4, <1>6, <1>7 DEF Byte

LEMMA FromTypes ==
    ASSUME RxInv
    PROVE  /\ From \in Nat
           /\ slot[deal].first \in Nat /\ slot[deal].len \in Nat
           /\ remain # 0 => From = slot[deal].first + pos
           /\ \A i \in 0..Waiting - 1 : Byte(i) \in Nat
<1>1. TypeOK BY DEF RxInv
<1>2. slot[deal].first \in Nat /\ slot[deal].len \in Nat BY <1>1, PacketTypes, RxTypes
<1>3. pos \in Nat /\ sent \in Nat BY <1>1, RxTypes
<1>4. From \in Nat BY <1>2, <1>3 DEF From
<1>5. ASSUME NEW i \in 0..Waiting - 1 PROVE Byte(i) \in Nat
  <2>1. Waiting \in Nat /\ RingSize \in Nat /\ Waiting <= RingSize BY <1>1, RxTypes
  <2>2. i \in 0..RingSize - 1 BY <2>1
  <2>3. At(Advance(tail, i)) \in Place BY <1>1, <2>2, RxPlaces
  <2> QED BY <1>1, <2>3, RxTypes DEF Byte
<1> QED BY <1>2, <1>4, <1>5 DEF From

LEMMA PublishStep == RxInv /\ Publish => RxInv'
<1> SUFFICES ASSUME RxInv, Publish PROVE RxInv' OBVIOUS
<1>1. /\ UNCHANGED <<tail, data, load, reader, sent, gone>>
      /\ bridge = "publish" /\ head' = Advance(head, n) /\ n' = 0
      /\ bridge' \in {"poll", "loop"}
      /\ \/ /\ n < Uncopied /\ pos' = pos + n
            /\ UNCHANGED <<slot, deal, remain, nak, stop>>
         \/ ~(n < Uncopied) /\ Release
  BY DEF Publish
<1> DEFINE f == slot[deal].first + pos
<1>2. /\ remain # 0 /\ n \in 1..Uncopied /\ n \in Nat /\ n > 0 /\ remain \in Nat
      /\ n \in 0..PacketSize
  <2>1. remain # 0 /\ n \in 1..Uncopied BY <1>1 DEF RxInv, Places
  <2>2. n \in 0..PacketSize /\ PacketSize \in Nat /\ remain \in Nat BY RxTypes DEF RxInv
  <2> QED BY <2>1, <2>2
<1>3. /\ Waiting \in Nat /\ pos \in Nat /\ From = f /\ f \in Nat /\ read \in Nat
      /\ slot[deal].first \in Nat /\ slot[deal].len \in Nat
      /\ pos <= slot[deal].len /\ sent \in Nat /\ deal \in 0..Slots - 1 /\ PacketSize \in Nat
      /\ slot[deal].len <= PacketSize
      /\ \A i \in 0..Waiting - 1 : Byte(i) \in Nat
  <2>1. TypeOK BY DEF RxInv
  <2>2. /\ Waiting \in Nat /\ pos \in Nat /\ read \in Nat /\ sent \in Nat
        /\ deal \in 0..Slots - 1 /\ PacketSize \in Nat
        BY <2>1, RxNumbers
  <2>3. slot[deal].first \in Nat /\ slot[deal].len \in Nat /\ slot[deal].len <= PacketSize
        BY <2>1, <2>2, PacketTypes
  <2>4. From = f /\ \A i \in 0..Waiting - 1 : Byte(i) \in Nat BY <1>2, FromTypes
  <2>5. pos <= slot[deal].len BY <1>2 DEF RxInv, SlotsKept
  <2> QED BY <2>2, <2>3, <2>4, <2>5
<1>4. /\ head' \in Index /\ Waiting' = Waiting + n /\ Waiting' <= RingSize
      /\ \A i \in 0..Waiting - 1 : Byte(i)' = Byte(i)
      /\ \A i : \A k \in 0..n - 1 : i = Waiting + k => Byte(i)' = f + k
  BY <1>1, RingGrows
<1>5. f + n <= slot[deal].first + slot[deal].len BY <1>2, <1>3 DEF Uncopied
<1>6. /\ slot' \in [0..Slots - 1 -> [first : Nat, len : 0..PacketSize]]
      /\ deal' \in 0..Slots - 1 /\ remain' \in 0..Slots /\ pos' \in 0..PacketSize
      /\ {nak', stop'} \subseteq BOOLEAN
      /\ SlotsKept' /\ SlotsInOrder'
      /\ f + n <= From' /\ From' \in Nat
      /\ \A b \in Left : b >= f + n => b \in Left'
  <2>1. CASE n < Uncopied /\ pos' = pos + n /\ UNCHANGED <<slot, deal, remain, nak, stop>>
    <3>1. pos' <= slot[deal].len /\ pos' \in 0..PacketSize BY <1>2, <1>3, <2>1 DEF Uncopied
    <3>2. From' = f + n BY <1>2, <1>3, <2>1 DEF From
    <3>3. \A i : Nth(i)' = Nth(i) BY <2>1 DEF Nth
    <3>4. SlotsKept' BY <1>1, <1>2, <2>1, <3>1, <3>3 DEF RxInv, SlotsKept
    <3>5. From' <= sent + 1
      <4>1. slot[deal].first + slot[deal].len <= sent + 1
        <5>1. 0 \in 0..remain - 1 /\ Nth(0) = deal BY <1>2, SlotPlaces DEF RxInv
        <5> QED BY <5>1 DEF RxInv, SlotsInOrder
      <4> QED BY <1>2, <1>3, <1>5, <3>2, <4>1
    <3>6. SlotsInOrder' BY <1>1, <2>1, <3>3, <3>5 DEF RxInv, SlotsInOrder
    <3>7. f + n <= From' /\ From' \in Nat BY <1>2, <1>3, <3>2
    <3>8. ASSUME NEW b \in Left, b >= f + n PROVE b \in Left'
      <4>1. PICK i \in 0..remain - 1 : b \in Bytes(slot[Nth(i)]) BY LeftIs
      <4>2. i \in 0..remain' - 1 /\ b \in Bytes(slot'[Nth(i)']) BY <2>1, <3>3, <4>1
      <4>3. b \in Nat BY LeftFrom DEF RxInv
      <4>4. ASSUME NEW m \in 0..pos' - 1 PROVE b # slot'[deal'].first + m
        <5>1. m < pos + n BY <1>2, <1>3, <2>1, <4>4
        <5> QED BY <1>2, <1>3, <2>1, <3>8, <4>3, <5>1
      <4> QED BY <4>2, <4>4, LeftIsNext
    <3> QED BY <2>1, <3>1, <3>4, <3>6, <3>7, <3>8, RxTypes DEF RxInv, TypeOK
  <2>2. CASE ~(n < Uncopied) /\ Release
    <3>1. /\ slot' \in [0..Slots - 1 -> [first : Nat, len : 0..PacketSize]]
          /\ deal' \in 0..Slots - 1 /\ remain' \in 0..Slots /\ pos' = 0
          /\ {nak', stop'} \subseteq BOOLEAN
          /\ SlotsKept' /\ SlotsInOrder'
          /\ slot[deal].first + slot[deal].len <= From' /\ From' \in Nat
          /\ \A b \in Left : b >= slot[deal].first + slot[deal].len => b \in Left'
      BY <1>1, <1>2, <2>2, Released
    <3>2. f + n = slot[deal].first + slot[deal].len BY <1>2, <1>3, <2>2 DEF Uncopied
    <3>3. pos' \in 0..PacketSize BY <1>3, <3>1
    <3> QED BY <3>1, <3>2, <3>3
  <2> QED BY <1>1, <2>1, <2>2
<1> HIDE DEF f
<1>7. TypeOK'
  <2>1. {head', tail', seen'} \subseteq Index BY <1>1, <1>4, RxTypes DEF RxInv, reader
  <2>2. n' \in 0..PacketSize BY <1>1, <1>3
  <2> QED BY <1>1, <1>4, <1>6, <2>1, <2>2 DEF RxInv, TypeOK, reader
<1>8. ASSUME NEW i \in 0..Waiting' - 1
      PROVE  \/ i \in 0..Waiting - 1
             \/ \E k \in 0..n - 1 : i = Waiting + k
  <2>1. i \in Nat /\ i < Waiting + n BY <1>2, <1>3, <1>4
  <2>2. CASE i >= Waiting
    <3>1. i - Waiting \in 0..n - 1 /\ i = Waiting + (i - Waiting) BY <1>2, <1>3, <2>1, <2>2
    <3> QED BY <3>1
  <2> QED BY <1>3, <2>1, <2>2
<1>9. RingInOrder'
  <2>1. ASSUME NEW i \in 0..Waiting' - 1, NEW j \in 0..Waiting' - 1, i < j
        PROVE  Byte(i)' < Byte(j)'
    <3>1. CASE j \in 0..Waiting - 1
      <4>1. i \in 0..Waiting - 1 BY <1>3, <2>1, <3>1
      <4> QED BY <1>4, <2>1, <3>1, <4>1 DEF RxInv, RingInOrder
    <3>2. ASSUME NEW k \in 0..n - 1, j = Waiting + k PROVE Byte(i)' < Byte(j)'
      <4>1. CASE i \in 0..Waiting - 1
        <5>1. Byte(i) < f BY <1>3, <4>1 DEF RxInv, RingInOrder
        <5>2. Byte(i) \in Nat /\ Byte(i)' = Byte(i) /\ Byte(j)' = f + k
          BY <1>3, <1>4, <3>2, <4>1
        <5> QED BY <1>3, <5>1, <5>2
      <4>2. ASSUME NEW m \in 0..n - 1, i = Waiting + m PROVE Byte(i)' < Byte(j)'
        <5>1. m < k BY <1>3, <2>1, <3>2, <4>2
        <5>2. Byte(i)' = f + m /\ Byte(j)' = f + k BY <1>4, <3>2, <4>2
        <5> QED BY <1>3, <5>1, <5>2
      <4> QED BY <1>8, <4>1, <4>2
    <3> QED BY <1>8, <3>1, <3>2
  <2>2. ASSUME NEW i \in 0..Waiting' - 1
        PROVE  /\ Byte(i)' < From'
               /\ Byte(i)' > read' \/ (v5f' = "free" /\ i = 0)
    <3>1. CASE i \in 0..Waiting - 1
      <4>1. Byte(i) < f /\ (Byte(i) > read \/ (v5f = "free" /\ i = 0))
        BY <1>3, <3>1 DEF RxInv, RingInOrder
      <4>2. Byte(i) \in Nat /\ Byte(i)' = Byte(i) BY <1>3, <1>4, <3>1
      <4>3. Byte(i) < From' BY <1>2, <1>3, <1>6, <4>1, <4>2
      <4> QED BY <1>1, <4>1, <4>2, <4>3 DEF reader
    <3>2. ASSUME NEW k \in 0..n - 1, i = Waiting + k
          PROVE  Byte(i)' < From' /\ Byte(i)' > read'
      <4>1. Byte(i)' = f + k BY <1>4, <3>2
      <4>2. read < f BY <1>3 DEF RxInv, RingInOrder
      <4>3. read' = read BY <1>1 DEF reader
      <4>4. f + k < From' BY <1>2, <1>3, <1>6
      <4> QED BY <1>3, <4>1, <4>2, <4>3, <4>4
    <3> QED BY <1>8, <3>1, <3>2
  <2>3. read' < From'
    <3>1. read < f BY <1>3 DEF RxInv, RingInOrder
    <3>2. read' = read BY <1>1 DEF reader
    <3> QED BY <1>2, <1>3, <1>6, <3>1, <3>2
  <2> QED BY <2>1, <2>2, <2>3 DEF RingInOrder
<1>10. Places'
  <2>1. v5f' = "free" => seen' = tail' /\ Waiting' > 0 /\ Byte(0)' = read'
    <3>1. SUFFICES ASSUME v5f = "free"
                   PROVE  seen = tail /\ Waiting' > 0 /\ Byte(0)' = read
      BY <1>1 DEF reader
    <3>2. seen = tail /\ Waiting > 0 /\ Byte(0) = read BY <3>1 DEF RxInv, Places
    <3>3. 0 \in 0..Waiting - 1 BY <1>3, <3>2
    <3> QED BY <1>2, <1>3, <1>4, <3>2, <3>3
  <2>2. v5f' = "drop" => Count(seen', tail') <= Waiting'
    <3>1. SUFFICES ASSUME v5f = "drop" PROVE Count(seen, tail) <= Waiting'
      BY <1>1 DEF reader
    <3>2. Count(seen, tail) <= Waiting BY <3>1 DEF RxInv, Places
    <3>3. Count(seen, tail) \in Nat
      <4>1. Count(seen, tail) \in Index BY CountCases, RxTypes DEF RxInv
      <4> QED BY <4>1, RingFacts DEF Index
    <3> QED BY <1>2, <1>3, <1>4, <3>2, <3>3
  <2>3. bridge' # "publish" BY <1>1
  <2> QED BY <2>1, <2>2, <2>3 DEF Places
<1>11. NothingLost'
  <2>1. SUFFICES ASSUME NEW b \in 1..sent
                 PROVE  b <= read \/ b \in gone \/ b \in InRing' \/ b \in Left'
    BY <1>1 DEF NothingLost, reader
  <2>2. InRing' = {Byte(i)' : i \in 0..Waiting' - 1} BY DEF InRing, Byte
  <2>3. ASSUME b \in InRing PROVE b \in InRing'
    <3>1. PICK i \in 0..Waiting - 1 : b = Byte(i) BY <2>3 DEF InRing, Byte
    <3>2. i \in 0..Waiting' - 1 BY <1>2, <1>3, <1>4
    <3>3. b = Byte(i)' BY <1>4, <3>1
    <3> QED BY <2>2, <3>2, <3>3
  <2>4. ASSUME b \in Left, ~(b >= f + n) PROVE b \in InRing'
    <3>1. b \in Nat /\ b >= f BY <1>3, <2>4, LeftFrom DEF RxInv
    <3> DEFINE k == b - f
    <3>2. k \in 0..n - 1 /\ f + k = b BY <1>2, <1>3, <2>4, <3>1
    <3>3. PICK i : i = Waiting + k OBVIOUS
    <3>4. Byte(i)' = b BY <1>4, <3>2, <3>3
    <3>5. i \in 0..Waiting' - 1 BY <1>2, <1>3, <1>4, <3>2, <3>3
    <3> QED BY <2>2, <3>4, <3>5
  <2> QED BY <1>6, <2>1, <2>3, <2>4 DEF RxInv, NothingLost
<1> QED BY <1>6, <1>7, <1>9, <1>10, <1>11 DEF RxInv

LEMMA SkipStep == RxInv /\ Skip => RxInv'
<1> SUFFICES ASSUME RxInv, Skip PROVE RxInv' OBVIOUS
<1>1. /\ UNCHANGED <<ring, load, work, reader, sent, gone>>
      /\ bridge = "loop" /\ remain # 0 /\ Uncopied = 0 /\ Release
  BY DEF Skip
<1>2. /\ From \in Nat /\ From = slot[deal].first + pos /\ pos \in Nat
      /\ slot[deal].first \in Nat /\ slot[deal].len \in Nat
      /\ read \in Nat /\ PacketSize \in Nat
      /\ \A i \in 0..Waiting - 1 : Byte(i) \in Nat
  BY <1>1, FromTypes, RxTypes DEF RxInv
<1>3. From = slot[deal].first + slot[deal].len BY <1>1, <1>2 DEF Uncopied
<1>4. /\ slot' \in [0..Slots - 1 -> [first : Nat, len : 0..PacketSize]]
      /\ deal' \in 0..Slots - 1 /\ remain' \in 0..Slots /\ pos' = 0
      /\ {nak', stop'} \subseteq BOOLEAN
      /\ SlotsKept' /\ SlotsInOrder'
      /\ From <= From' /\ From' \in Nat
      /\ \A b \in Left : b >= From => b \in Left'
  BY <1>1, <1>3, Released
<1>5. Waiting' = Waiting /\ \A i : Byte(i)' = Byte(i) BY <1>1 DEF Waiting, Byte, ring
<1>6. TypeOK'
  <2>1. pos' \in 0..PacketSize BY <1>2, <1>4
  <2> QED BY <1>1, <1>4, <1>5, <2>1 DEF RxInv, TypeOK, ring, work, reader
<1>7. RingInOrder'
  <2>1. \A i \in 0..Waiting - 1 : Byte(i) < From' BY <1>2, <1>4 DEF RxInv, RingInOrder
  <2>2. read < From' BY <1>2, <1>4 DEF RxInv, RingInOrder
  <2> QED BY <1>1, <1>5, <2>1, <2>2 DEF RxInv, RingInOrder, reader
<1>8. Places'
  <2>1. bridge' # "publish" BY <1>1 DEF work
  <2> QED BY <1>1, <1>5, <2>1 DEF RxInv, Places, reader, ring
<1>9. NothingLost'
  <2>1. InRing' = InRing BY <1>1 DEF InRing, Waiting, ring
  <2>2. \A b \in Left : b \in Left' BY <1>4, LeftFrom DEF RxInv
  <2> QED BY <1>1, <2>1, <2>2 DEF RxInv, NothingLost, reader
<1> QED BY <1>4, <1>6, <1>7, <1>8, <1>9 DEF RxInv

(* The tail moves over c of the bytes that wait. *)
LEMMA TailMoves ==
    ASSUME RxInv, NEW c \in 0..Waiting, v5f = "free" => c > 0,
           tail' = Advance(tail, c), seen' = 0, v5f' = "idle",
           UNCHANGED <<head, data, slots, work, read, sent>>,
           gone \subseteq gone', gone' \subseteq Nat,
           \A i \in 0..c - 1 : Byte(i) <= read \/ Byte(i) \in gone'
    PROVE  RxInv'
<1> USE DEF slots, work
<1>1. /\ head \in Index /\ tail \in Index /\ Waiting \in Nat /\ Waiting <= RingSize
      /\ RingSize \in Nat /\ IndexLimit \in Nat /\ RingSize < IndexLimit
      /\ Space(head, tail) = RingSize - Waiting
      /\ n \in 0..PacketSize /\ PacketSize \in Nat
  BY RxTypes DEF RxInv
<1>2. c \in Nat /\ c <= Waiting /\ c < IndexLimit BY <1>1
<1>3. tail' \in Index BY <1>1, <1>2, AdvanceCases
<1>4. Waiting' = Waiting - c
  <2>1. Count(head, Advance(tail, c)) = Count(head, tail) - c
    BY <1>1, <1>2, CountShrinks DEF Waiting
  <2> QED BY <2>1 DEF Waiting
<1>5. Waiting' \in Nat /\ Waiting' <= Waiting BY <1>1, <1>2, <1>4
<1>6. ASSUME NEW i \in 0..Waiting' - 1
      PROVE  i \in Nat /\ c + i \in 0..Waiting - 1 /\ Byte(i)' = Byte(c + i)
  <2>1. i \in Nat /\ c + i \in 0..Waiting - 1 /\ c + i < IndexLimit
    BY <1>1, <1>2, <1>4
  <2>2. Advance(Advance(tail, c), i) = Advance(tail, c + i) BY <1>1, <1>2, <2>1, AdvanceAdds
  <2> QED BY <2>1, <2>2 DEF Byte
<1>7. /\ From' = From /\ SlotsKept' /\ SlotsInOrder' BY DEF RxInv, From, SlotsKept, SlotsInOrder, Nth
<1>8. TypeOK'
  <2>1. seen' \in Index BY RingFacts DEF Index
  <2>2. {head', tail', seen'} \subseteq Index BY <1>1, <1>3, <2>1
  <2>3. Waiting' <= RingSize BY <1>1, <1>5
  <2> QED BY <2>2, <2>3 DEF RxInv, TypeOK
<1>9. RingInOrder'
  <2>1. ASSUME NEW i \in 0..Waiting' - 1, NEW j \in 0..Waiting' - 1, i < j
        PROVE  Byte(i)' < Byte(j)'
    <3>1. c + i < c + j BY <1>2, <1>6, <2>1
    <3> QED BY <1>6, <3>1 DEF RxInv, RingInOrder
  <2>2. ASSUME NEW i \in 0..Waiting' - 1
        PROVE  Byte(i)' < From' /\ Byte(i)' > read'
    <3>1. c + i = 0 => v5f # "free" BY <1>2, <1>6
    <3> QED BY <1>6, <1>7, <3>1 DEF RxInv, RingInOrder
  <2>3. read' < From' BY <1>7 DEF RxInv, RingInOrder
  <2> QED BY <2>1, <2>2, <2>3 DEF RingInOrder
<1>10. Places'
  <2>1. SUFFICES ASSUME bridge = "publish"
                 PROVE  /\ remain # 0 /\ n \in 1..Uncopied
                        /\ n <= Space(head, tail')
                        /\ \A i \in 0..n - 1 :
                               data[At(Advance(head, i))] = slot[deal].first + pos + i
    BY DEF Places, Uncopied
  <2>2. /\ remain # 0 /\ n \in 1..Uncopied /\ n <= Space(head, tail)
        /\ \A i \in 0..n - 1 : data[At(Advance(head, i))] = slot[deal].first + pos + i
    BY <2>1 DEF RxInv, Places
  <2>3. Space(head, tail') = RingSize - Waiting' BY DEF Space, Waiting
  <2>4. n \in Nat BY <1>1
  <2>5. n <= Space(head, tail')
    <3>1. n <= RingSize - Waiting BY <1>1, <2>2
    <3>2. \A w \in Nat : w <= Waiting => n <= RingSize - w BY <1>1, <2>4, <3>1
    <3>3. n <= RingSize - Waiting' BY <1>5, <3>2
    <3> QED BY <2>3, <3>3
  <2> QED BY <2>2, <2>5
<1>11. NothingLost'
  <2>1. SUFFICES ASSUME NEW b \in 1..sent
                 PROVE  b <= read \/ b \in gone' \/ b \in InRing' \/ b \in Left'
    BY DEF NothingLost
  <2>2. InRing' = {Byte(i)' : i \in 0..Waiting' - 1} BY DEF InRing, Byte
  <2>3. Left' = Left BY DEF Left, Held, Bytes
  <2>4. ASSUME b \in InRing PROVE b <= read \/ b \in gone' \/ b \in InRing'
    <3>1. PICK i \in 0..Waiting - 1 : b = Byte(i) BY <2>4 DEF InRing, Byte
    <3>2. CASE i < c
      <4>1. i \in 0..c - 1 BY <1>1, <1>2, <3>2
      <4> QED BY <3>1, <4>1
    <3>3. CASE i >= c
      <4> DEFINE k == i - c
      <4>1. k \in 0..Waiting' - 1 /\ c + k = i BY <1>1, <1>2, <1>4, <3>3
      <4>2. Byte(k)' = b BY <1>6, <3>1, <4>1
      <4> QED BY <2>2, <4>1, <4>2
    <3> QED BY <1>1, <1>2, <3>2, <3>3
  <2> QED BY <2>1, <2>3, <2>4 DEF RxInv, NothingLost
<1> QED BY <1>7, <1>8, <1>9, <1>10, <1>11 DEF RxInv

LEMMA OpenDropsStep == RxInv /\ OpenDrops => RxInv'
<1> SUFFICES ASSUME RxInv, OpenDrops PROVE RxInv' OBVIOUS
<1> DEFINE c == Count(seen, tail)
<1>1. /\ UNCHANGED <<head, data, slots, work, read, sent>>
      /\ v5f = "drop" /\ tail' = seen /\ seen' = 0 /\ v5f' = "idle"
      /\ gone' = gone \cup {Byte(i) : i \in 0..c - 1}
  BY DEF OpenDrops, Byte
<1>2. seen \in Index /\ tail \in Index /\ Waiting \in Nat /\ gone \subseteq Nat
  BY RxTypes DEF RxInv
<1>3. c \in 0..Waiting
  <2>1. c \in Index BY <1>2, CountCases
  <2>2. c \in Nat BY <2>1, RingFacts DEF Index
  <2>3. c <= Waiting BY <1>1 DEF RxInv, Places
  <2> QED BY <1>2, <2>2, <2>3
<1>4. tail' = Advance(tail, c) BY <1>1, <1>2, AdvanceCount
<1> HIDE DEF c
<1>5. \A i \in 0..c - 1 : Byte(i) \in Nat
  <2>1. \A i \in 0..c - 1 : i \in 0..Waiting - 1 BY <1>2, <1>3
  <2> QED BY <2>1, FromTypes
<1>6. gone' \subseteq Nat BY <1>1, <1>2, <1>5
<1> QED BY <1>1, <1>3, <1>4, <1>6, TailMoves

LEMMA FreeStep == RxInv /\ Free => RxInv'
<1> SUFFICES ASSUME RxInv, Free PROVE RxInv' OBVIOUS
<1>1. /\ UNCHANGED <<head, data, slots, work, read, sent, gone>>
      /\ v5f = "free" /\ tail' = Advance(seen, 1) /\ seen' = 0 /\ v5f' = "idle"
  BY DEF Free
<1>2. seen = tail /\ Waiting > 0 /\ Byte(0) = read BY <1>1 DEF RxInv, Places
<1>3. Waiting \in Nat /\ gone \subseteq Nat /\ read \in Nat BY RxTypes DEF RxInv
<1>4. 1 \in 0..Waiting BY <1>2, <1>3
<1>5. \A i \in 0..1 - 1 : Byte(i) <= read BY <1>2, <1>3
<1> QED BY <1>1, <1>2, <1>3, <1>4, <1>5, TailMoves

LEMMA OpenReadsStep == RxInv /\ OpenReads => RxInv'
<1> SUFFICES ASSUME RxInv, OpenReads PROVE RxInv' OBVIOUS
<1> USE DEF RxInv, ring, slots, work
<1>1. /\ UNCHANGED <<ring, slots, work, read, sent, gone>>
      /\ v5f = "open" /\ seen' = head /\ v5f' = "drop"
  BY DEF OpenReads
<1>2. Waiting' = Waiting /\ (\A i : Byte(i)' = Byte(i)) /\ (\A i : Nth(i)' = Nth(i))
  BY <1>1 DEF Waiting, Byte, Nth
<1>3. From' = From BY <1>1 DEF From
<1>4. TypeOK' BY <1>1, <1>2 DEF TypeOK
<1>5. SlotsKept' BY <1>1, <1>2 DEF SlotsKept
<1>6. SlotsInOrder' BY <1>1, <1>2, <1>3 DEF SlotsInOrder
<1>7. RingInOrder' BY <1>1, <1>2, <1>3 DEF RingInOrder
<1>8. Places'
  <2>1. Count(seen', tail') = Waiting' BY <1>1 DEF Waiting
  <2>2. Waiting \in Nat BY RxTypes
  <2> QED BY <1>1, <1>2, <2>1, <2>2 DEF Places, Uncopied
<1>9. NothingLost' BY <1>1, <1>2 DEF NothingLost, InRing, Left, Held, Bytes
<1> QED BY <1>4, <1>5, <1>6, <1>7, <1>8, <1>9

(* The byte serial_getc takes is the next, and what lies between was dropped. *)
LEMMA GetIsNext ==
    ASSUME RxInv, Get
    PROVE  /\ read' = Byte(0) /\ read' > read
           /\ (read + 1)..(read' - 1) \subseteq gone
<1> USE DEF RxInv
<1>1. /\ v5f = "idle" /\ Waiting # 0 /\ read' = data[At(tail)] /\ tail \in Index
      /\ Waiting \in Nat /\ read \in Nat /\ sent \in Nat
  BY RxTypes DEF Get
<1>2. read' = Byte(0) BY <1>1, AdvanceZero DEF Byte
<1>3. 0 \in 0..Waiting - 1 BY <1>1
<1>4. Byte(0) \in Nat /\ Byte(0) < From /\ From \in Nat /\ From <= sent + 1
  BY <1>3, FromTypes DEF RingInOrder, SlotsInOrder
<1>5. Byte(0) > read BY <1>1, <1>3 DEF RingInOrder
<1>6. ASSUME NEW b \in (read + 1)..(Byte(0) - 1) PROVE b \in gone
  <2>1. b \in Nat /\ b > read /\ b < Byte(0) /\ b \in 1..sent BY <1>1, <1>4
  <2>2. b \notin InRing
    <3>1. SUFFICES ASSUME NEW i \in 0..Waiting - 1, b = Byte(i) PROVE FALSE
      BY DEF InRing, Byte
    <3>2. i = 0 \/ 0 < i BY <1>1
    <3>3. Byte(0) <= Byte(i) BY <1>3, <1>4, <3>1, <3>2, FromTypes DEF RingInOrder
    <3> QED BY <1>4, <2>1, <3>1, <3>3
  <2>3. b \notin Left
    <3>1. SUFFICES ASSUME b \in Left PROVE FALSE OBVIOUS
    <3>2. b >= From BY <3>1, LeftFrom
    <3> QED BY <1>4, <2>1, <3>2
  <2>4. ~(b <= read) BY <1>1, <2>1
  <2> QED BY <2>1, <2>2, <2>3, <2>4 DEF NothingLost
<1> QED BY <1>2, <1>5, <1>6

LEMMA GetStep == RxInv /\ Get => RxInv'
<1> SUFFICES ASSUME RxInv, Get PROVE RxInv' OBVIOUS
<1> USE DEF RxInv, ring, slots, work
<1>1. /\ UNCHANGED <<ring, slots, work, sent, gone>>
      /\ v5f = "idle" /\ Waiting # 0 /\ seen' = tail /\ v5f' = "free"
  BY DEF Get
<1>2. read' = Byte(0) /\ read' > read BY GetIsNext
<1>3. /\ Waiting \in Nat /\ Waiting > 0 /\ tail \in Index /\ read \in Nat
      /\ 0 \in 0..Waiting - 1
      /\ Byte(0) \in Nat /\ \A i \in 0..Waiting - 1 : Byte(i) \in Nat
  <2>1. Waiting \in Nat /\ Waiting > 0 /\ tail \in Index /\ read \in Nat BY <1>1, RxTypes
  <2>2. 0 \in 0..Waiting - 1 BY <2>1
  <2> QED BY <2>1, <2>2, FromTypes
<1>4. Waiting' = Waiting /\ (\A i : Byte(i)' = Byte(i)) /\ (\A i : Nth(i)' = Nth(i))
  BY <1>1 DEF Waiting, Byte, Nth
<1>5. From' = From BY <1>1 DEF From
<1>6. TypeOK' BY <1>1, <1>2, <1>3, <1>4 DEF TypeOK
<1>7. SlotsKept' BY <1>1, <1>4 DEF SlotsKept
<1>8. SlotsInOrder' BY <1>1, <1>4, <1>5 DEF SlotsInOrder
<1>9. RingInOrder'
  <2>1. \A i \in 0..Waiting - 1 : i = 0 \/ Byte(i) > Byte(0)
    <3>1. \A i \in 0..Waiting - 1 : i = 0 \/ 0 < i BY <1>3
    <3> QED BY <1>3, <3>1 DEF RingInOrder
  <2>2. Byte(0) < From BY <1>3 DEF RingInOrder
  <2> QED BY <1>1, <1>2, <1>4, <1>5, <2>1, <2>2 DEF RingInOrder
<1>10. Places' BY <1>1, <1>2, <1>3, <1>4 DEF Places, Uncopied
<1>11. NothingLost'
  <2>1. SUFFICES ASSUME NEW b \in 1..sent
                 PROVE  b <= read' \/ b \in gone \/ b \in InRing \/ b \in Left
    BY <1>1, <1>4 DEF NothingLost, InRing, Left, Held, Bytes
  <2>2. b <= read => b <= read' BY <1>2, <1>3
  <2> QED BY <2>2 DEF NothingLost
<1> QED BY <1>6, <1>7, <1>8, <1>9, <1>10, <1>11

LEMMA RxStep == RxInv /\ [Next]_vars => RxInv'
<1> SUFFICES ASSUME RxInv, [Next]_vars PROVE RxInv' OBVIOUS
<1>1. CASE \E l \in 0..PacketSize : Receive(l) BY <1>1, ReceiveStep
<1>2. CASE ParaInit BY <1>2, ParaInitStep
<1>3. CASE Begin BY <1>3, LoopStep DEF Begin
<1>4. CASE Copy BY <1>4, CopyStep
<1>5. CASE Publish BY <1>5, PublishStep
<1>6. CASE Skip BY <1>6, SkipStep
<1>7. CASE End BY <1>7, LoopStep DEF End
<1>8. CASE OpenReads BY <1>8, OpenReadsStep
<1>9. CASE OpenDrops BY <1>9, OpenDropsStep
<1>10. CASE Get BY <1>10, GetStep
<1>11. CASE Free BY <1>11, FreeStep
<1>12. CASE UNCHANGED vars BY <1>12, LoopStep DEF vars, work
<1> QED BY <1>1, <1>2, <1>3, <1>4, <1>5, <1>6, <1>7, <1>8, <1>9, <1>10, <1>11, <1>12
        DEF Next, Poll, Serial

-----------------------------------------------------------------------------
(* The ring and the slots hold what the host sent in order, each byte once: the
   invariant the promises below rest on (the endpoint 2 interrupt, host_to_ring
   and serial_getc together). *)
THEOREM CdcRxInv == Spec => []RxInv
<1>1. Init => RxInv BY RxInitInv
<1>2. RxInv /\ [Next]_vars => RxInv' BY RxStep
<1> QED BY <1>1, <1>2, PTL DEF Spec

(* The ring never holds more than its size and the slots never overflow: the
   NAK comes early enough (ch32h417_usbfs_device.c's EP2 branch), and
   host_to_ring copies no more than there is room for. *)
THEOREM CdcRxTypeOK == Spec => []TypeOK
<1>1. RxInv => TypeOK BY DEF RxInv
<1> QED BY <1>1, CdcRxInv, PTL

(* A byte the host sent is in a slot, in the ring or read, unless it was
   dropped with the slots or by serial_open (cdc_bridge.c's "nothing is lost"). *)
THEOREM CdcRxNothingLost == Spec => []NothingLost
<1>1. RxInv => NothingLost BY DEF RxInv
<1> QED BY <1>1, CdcRxInv, PTL

(* serial_getc reads the host's bytes in the order sent, each once, and none is
   missing but those dropped. *)
THEOREM CdcRxInOrder == Spec => InOrder
<1>1. RxInv /\ [Next]_vars => [read' # read => /\ read' > read
                                              /\ (read + 1)..(read' - 1) \subseteq gone]_vars
  <2> SUFFICES ASSUME RxInv, [Next]_vars, read' # read
               PROVE  read' > read /\ (read + 1)..(read' - 1) \subseteq gone
    OBVIOUS
  <2>1. Get
    BY DEF Next, vars, Receive, ParaInit, Poll, Begin, Copy, Publish, Release, Skip, End,
           Serial, OpenReads, OpenDrops, Free, reader
  <2> QED BY <2>1, GetIsNext
<1> QED BY <1>1, CdcRxInv, PTL DEF Spec, InOrder
=============================================================================
