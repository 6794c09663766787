------------------------------ MODULE CdcRing -------------------------------
(***************************************************************************)
(* The index arithmetic of the byte rings the two cores share              *)
(* (Common/cdc_shared.h): free-running 32-bit indices, head moved by the   *)
(* producer and tail by the consumer, each byte at its index's low bits.   *)
(***************************************************************************)
EXTENDS Naturals

CONSTANTS RingSize,     \* bytes in a ring (CDC_RING_SIZE)
          IndexLimit    \* where an index wraps (2^32)

ASSUME RingAssumption == /\ RingSize \in Nat \ {0}
                         /\ IndexLimit \in Nat
                         /\ IndexLimit > RingSize
                         /\ IndexLimit % RingSize = 0

Index == 0..IndexLimit - 1
Place == 0..RingSize - 1

Advance(i, n) == (i + n) % IndexLimit
At(i) == i % RingSize

(* cdc_ring_count and cdc_ring_space; count is mod 2^32. *)
CountNoWrap(head, tail) == IF head >= tail THEN head - tail ELSE 0  \* mutant
Count(head, tail) == (head + IndexLimit - tail) % IndexLimit
Space(head, tail) == RingSize - Count(head, tail)
=============================================================================
