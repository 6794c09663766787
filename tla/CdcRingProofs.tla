---------------------------- MODULE CdcRingProofs ----------------------------
(***************************************************************************)
(* The index arithmetic of the shared rings, for any size and any wrap:    *)
(* what is ahead of an index, and that places in the ring do not collide   *)
(* as long as there is room.                                               *)
(***************************************************************************)
EXTENDS CdcRing, Integers, TLAPS

LEMMA RingFacts ==
    /\ RingSize \in Nat /\ RingSize > 0 /\ IndexLimit \in Nat /\ IndexLimit > RingSize
    /\ IndexLimit % RingSize = 0
BY RingAssumption

(* Remainders. *)
LEMMA ModBounds ==
    ASSUME NEW a \in Nat, NEW m \in Nat, m > 0
    PROVE  a % m \in 0..m - 1 /\ (a < m => a % m = a)
OBVIOUS

LEMMA ModOnce ==
    ASSUME NEW a \in Nat, NEW m \in Nat, m > 0, m <= a, a < 2 * m
    PROVE  a % m = a - m
OBVIOUS

(* An index moved on, with the wrap written out. *)
LEMMA AdvanceCases ==
    ASSUME NEW i \in Index, NEW n \in Nat, n < IndexLimit
    PROVE  /\ Advance(i, n) \in Index
           /\ Advance(i, n) = IF i + n < IndexLimit THEN i + n ELSE i + n - IndexLimit
<1>1. i \in Nat /\ i < IndexLimit /\ IndexLimit > 0 /\ IndexLimit \in Nat
  BY RingFacts DEF Index
<1>2. i + n \in Nat /\ i + n < 2 * IndexLimit BY <1>1
<1>3. CASE i + n < IndexLimit
  <2>1. (i + n) % IndexLimit = i + n BY <1>1, <1>2, <1>3, ModBounds
  <2> QED BY <2>1, <1>1, <1>2, <1>3 DEF Advance, Index
<1>4. CASE IndexLimit <= i + n
  <2>1. (i + n) % IndexLimit = i + n - IndexLimit BY <1>1, <1>2, <1>4, ModOnce
  <2> QED BY <2>1, <1>1, <1>2, <1>4 DEF Advance, Index
<1> QED BY <1>1, <1>2, <1>3, <1>4

(* What lies between two indices, with the wrap written out. *)
LEMMA CountCases ==
    ASSUME NEW h \in Index, NEW t \in Index
    PROVE  /\ Count(h, t) \in Index
           /\ Count(h, t) = IF h >= t THEN h - t ELSE h + IndexLimit - t
<1>1. /\ h \in Nat /\ h < IndexLimit /\ t \in Nat /\ t < IndexLimit
      /\ IndexLimit > 0 /\ IndexLimit \in Nat
  BY RingFacts DEF Index
<1>2. h + IndexLimit - t \in Nat /\ h + IndexLimit - t < 2 * IndexLimit BY <1>1
<1>3. CASE h >= t
  <2>1. (h + IndexLimit - t) % IndexLimit = h + IndexLimit - t - IndexLimit
    BY <1>1, <1>2, <1>3, ModOnce
  <2> QED BY <2>1, <1>1, <1>2, <1>3 DEF Count, Index
<1>4. CASE h < t
  <2>1. (h + IndexLimit - t) % IndexLimit = h + IndexLimit - t
    BY <1>1, <1>2, <1>4, ModBounds
  <2> QED BY <2>1, <1>1, <1>2, <1>4 DEF Count, Index
<1> QED BY <1>1, <1>3, <1>4

LEMMA AdvanceAdds ==
    ASSUME NEW i \in Index, NEW a \in Nat, NEW b \in Nat, a + b < IndexLimit
    PROVE  Advance(Advance(i, a), b) = Advance(i, a + b)
<1>1. i \in Nat /\ i < IndexLimit /\ IndexLimit \in Nat BY RingFacts DEF Index
<1>2. a < IndexLimit /\ b < IndexLimit /\ a + b \in Nat BY <1>1
<1>3. /\ Advance(i, a) \in Index
      /\ Advance(i, a) = IF i + a < IndexLimit THEN i + a ELSE i + a - IndexLimit
  BY <1>2, AdvanceCases
<1>4. Advance(i, a + b)
          = IF i + (a + b) < IndexLimit THEN i + (a + b) ELSE i + (a + b) - IndexLimit
  BY <1>2, AdvanceCases
<1>5. Advance(Advance(i, a), b)
          = IF Advance(i, a) + b < IndexLimit THEN Advance(i, a) + b
            ELSE Advance(i, a) + b - IndexLimit
  BY <1>2, <1>3, AdvanceCases
<1> QED BY <1>1, <1>3, <1>4, <1>5

LEMMA AdvanceZero ==
    ASSUME NEW i \in Index
    PROVE  Advance(i, 0) = i
<1>1. i \in Nat /\ i < IndexLimit /\ IndexLimit \in Nat /\ IndexLimit > 0
  BY RingFacts DEF Index
<1> QED BY <1>1, AdvanceCases

LEMMA CountAdvance ==
    ASSUME NEW i \in Index, NEW a \in Nat, a < IndexLimit
    PROVE  Count(Advance(i, a), i) = a
<1>1. i \in Nat /\ i < IndexLimit /\ IndexLimit \in Nat BY RingFacts DEF Index
<1>2. /\ Advance(i, a) \in Index
      /\ Advance(i, a) = IF i + a < IndexLimit THEN i + a ELSE i + a - IndexLimit
  BY AdvanceCases
<1>3. Count(Advance(i, a), i)
         = IF Advance(i, a) >= i THEN Advance(i, a) - i ELSE Advance(i, a) + IndexLimit - i
  BY <1>2, CountCases
<1> QED BY <1>1, <1>2, <1>3

LEMMA AdvanceCount ==
    ASSUME NEW h \in Index, NEW t \in Index
    PROVE  Advance(t, Count(h, t)) = h
<1>1. /\ h \in Nat /\ h < IndexLimit /\ t \in Nat /\ t < IndexLimit
      /\ IndexLimit \in Nat
  BY RingFacts DEF Index
<1>2. /\ Count(h, t) \in Index
      /\ Count(h, t) = IF h >= t THEN h - t ELSE h + IndexLimit - t
  BY CountCases
<1>3. Count(h, t) \in Nat /\ Count(h, t) < IndexLimit BY <1>1, <1>2 DEF Index
<1>4. Advance(t, Count(h, t))
         = IF t + Count(h, t) < IndexLimit THEN t + Count(h, t) ELSE t + Count(h, t) - IndexLimit
  BY <1>3, AdvanceCases
<1> QED BY <1>1, <1>2, <1>4

(* The producer moves the head on: that many bytes more. *)
LEMMA CountGrows ==
    ASSUME NEW h \in Index, NEW t \in Index, NEW k \in Nat, Count(h, t) + k < IndexLimit
    PROVE  Count(Advance(h, k), t) = Count(h, t) + k
<1>1. Count(h, t) \in Nat BY CountCases DEF Index
<1>2. Advance(Advance(t, Count(h, t)), k) = Advance(t, Count(h, t) + k)
  BY <1>1, AdvanceAdds
<1>3. Advance(h, k) = Advance(t, Count(h, t) + k) BY <1>2, AdvanceCount
<1>4. Count(h, t) + k \in Nat BY <1>1
<1> QED BY <1>3, <1>4, CountAdvance

(* The consumer moves the tail on: that many bytes fewer. *)
LEMMA CountShrinks ==
    ASSUME NEW h \in Index, NEW t \in Index, NEW k \in Nat, k <= Count(h, t)
    PROVE  Count(h, Advance(t, k)) = Count(h, t) - k
<1>1. Count(h, t) \in Index BY CountCases
<1>2. Count(h, t) \in Nat /\ Count(h, t) < IndexLimit /\ IndexLimit \in Nat
  BY <1>1, RingFacts DEF Index
<1>3. /\ k < IndexLimit /\ Count(h, t) - k \in Nat /\ Count(h, t) - k < IndexLimit
      /\ k + (Count(h, t) - k) = Count(h, t)
  BY <1>2
<1>4. Advance(t, k) \in Index BY <1>3, AdvanceCases
<1>5. Advance(Advance(t, k), Count(h, t) - k) = Advance(t, Count(h, t))
  BY <1>2, <1>3, AdvanceAdds
<1>6. Advance(Advance(t, k), Count(h, t) - k) = h BY <1>5, AdvanceCount
<1>7. Count(Advance(Advance(t, k), Count(h, t) - k), Advance(t, k)) = Count(h, t) - k
  BY <1>3, <1>4, CountAdvance
<1> QED BY <1>6, <1>7

(* The places in the ring: At of an index, and no two of them the same. *)
LEMMA AtIsAPlace ==
    ASSUME NEW i \in Index
    PROVE  At(i) \in Place
<1>1. i \in Nat BY RingFacts DEF Index
<1> QED BY <1>1, RingFacts, ModBounds DEF At, Place

(* Quotients. *)
LEMMA Divides ==
    ASSUME NEW a \in Nat, NEW m \in Nat, m > 0
    PROVE  \E q \in Nat : a = m * q + (a % m)
<1>1. a \in Int /\ m \in Int OBVIOUS
<1>2. a \div m \in Nat OBVIOUS
<1>3. a = m * (a \div m) + (a % m) BY <1>1, Z3
<1> QED BY <1>2, <1>3

LEMMA ModOf ==
    ASSUME NEW a \in Nat, NEW m \in Nat, m > 0, NEW q \in Nat, NEW r \in Nat, r < m,
           a = m * q + r
    PROVE  a % m = r
OBVIOUS

(* Two multiples of m less than m apart are the same. *)
LEMMA Multiples ==
    ASSUME NEW m \in Nat, m > 0, NEW p \in Nat, NEW q \in Nat, p # q
    PROVE  m * q - m * p >= m \/ m * p - m * q >= m
<1>1. CASE q >= p + 1
  <2>1. PICK d \in Nat : q = p + 1 + d
    <3>1. q - (p + 1) \in Nat /\ q = p + 1 + (q - (p + 1)) BY <1>1
    <3> QED BY <3>1
  <2>2. m * q = m * p + m + m * d BY <2>1
  <2>3. m * d >= 0 /\ m * d \in Nat /\ m * p \in Nat OBVIOUS
  <2> QED BY <2>2, <2>3
<1>2. CASE p >= q + 1
  <2>1. PICK d \in Nat : p = q + 1 + d
    <3>1. p - (q + 1) \in Nat /\ p = q + 1 + (p - (q + 1)) BY <1>2
    <3> QED BY <3>1
  <2>2. m * p = m * q + m + m * d BY <2>1
  <2>3. m * d >= 0 /\ m * d \in Nat /\ m * q \in Nat OBVIOUS
  <2> QED BY <2>2, <2>3
<1> QED BY <1>1, <1>2

LEMMA ModUnique ==
    ASSUME NEW m \in Nat, m > 0, NEW a \in Nat, NEW b \in Nat, a < b, b - a < m
    PROVE  a % m # b % m
<1>1. PICK p \in Nat : a = m * p + (a % m) BY Divides
<1>2. PICK q \in Nat : b = m * q + (b % m) BY Divides
<1>3. SUFFICES ASSUME a % m = b % m PROVE FALSE OBVIOUS
<1>4. a % m \in Nat BY ModBounds
<1>5. m * p \in Nat /\ m * q \in Nat OBVIOUS
<1>6. b - a = m * q - m * p BY <1>1, <1>2, <1>3, <1>4, <1>5
<1>7. p # q BY <1>6
<1>8. m * q - m * p >= m \/ m * p - m * q >= m BY <1>7, Multiples
<1> QED BY <1>5, <1>6, <1>8

LEMMA ModWraps ==
    ASSUME NEW m \in Nat, m > 0, NEW l \in Nat, l % m = 0, NEW a \in Nat, a >= l
    PROVE  (a - l) % m = a % m
<1>1. PICK p \in Nat : l = m * p + (l % m) BY Divides
<1>2. a - l \in Nat OBVIOUS
<1>3. PICK q \in Nat : a - l = m * q + ((a - l) % m) BY <1>2, Divides
<1>4. (a - l) % m \in Nat /\ (a - l) % m < m BY <1>2, ModBounds
<1>5. m * p \in Nat /\ m * q \in Nat /\ p + q \in Nat OBVIOUS
<1>6. m * (p + q) = m * p + m * q OBVIOUS
<1>7. a = m * (p + q) + ((a - l) % m) BY <1>1, <1>3, <1>4, <1>5, <1>6
<1> QED BY <1>4, <1>5, <1>7, ModOf

LEMMA ModAdds ==
    ASSUME NEW m \in Nat, m > 0, NEW a \in Nat, NEW b \in Nat
    PROVE  ((a % m) + b) % m = (a + b) % m
<1>1. PICK p \in Nat : a = m * p + (a % m) BY Divides
<1>2. a % m \in Nat /\ m * p \in Nat BY ModBounds
<1>3. (m * p) % m = 0
  <2>1. m * p = m * p + 0 /\ 0 < m BY <1>2
  <2> QED BY <1>2, <2>1, ModOf
<1>4. a + b \in Nat /\ a + b >= m * p /\ (a + b) - m * p = (a % m) + b BY <1>1, <1>2
<1>5. ((a + b) - m * p) % m = (a + b) % m BY <1>2, <1>3, <1>4, ModWraps
<1> QED BY <1>4, <1>5

(* The byte n on from an index has its place, wherever the index wraps. *)
LEMMA AtAdvance ==
    ASSUME NEW i \in Index, NEW n \in Nat, n < IndexLimit
    PROVE  At(Advance(i, n)) = (i + n) % RingSize
<1>1. i \in Nat /\ i < IndexLimit /\ IndexLimit \in Nat BY RingFacts DEF Index
<1>2. Advance(i, n) = IF i + n < IndexLimit THEN i + n ELSE i + n - IndexLimit
  BY AdvanceCases
<1>3. CASE i + n < IndexLimit
  BY <1>2, <1>3 DEF At
<1>4. CASE i + n >= IndexLimit
  <2>1. Advance(i, n) = (i + n) - IndexLimit BY <1>1, <1>2, <1>4
  <2>2. ((i + n) - IndexLimit) % RingSize = (i + n) % RingSize
  <3>1. i + n \in Nat BY <1>1
    <3> QED BY <3>1, <1>4, RingFacts, ModWraps
  <2> QED BY <2>1, <2>2 DEF At
<1> QED BY <1>1, <1>3, <1>4

(* Two bytes less than a ring apart are in different places. *)
LEMMA PlacesDiffer ==
    ASSUME NEW i \in Index, NEW a \in Nat, NEW b \in Nat, a < b, b - a < RingSize,
           b < IndexLimit
    PROVE  At(Advance(i, a)) # At(Advance(i, b))
<1>1. i \in Nat /\ IndexLimit \in Nat BY RingFacts DEF Index
<1>2. a < IndexLimit BY <1>1
<1>3. At(Advance(i, a)) = (i + a) % RingSize BY <1>2, AtAdvance
<1>4. At(Advance(i, b)) = (i + b) % RingSize BY AtAdvance
<1>5. /\ i + a \in Nat /\ i + b \in Nat /\ i + a < i + b
      /\ (i + b) - (i + a) < RingSize
  BY <1>1, RingFacts
<1>6. (i + a) % RingSize # (i + b) % RingSize BY <1>5, RingFacts, ModUnique
<1> QED BY <1>3, <1>4, <1>6
=============================================================================
