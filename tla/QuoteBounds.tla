---------------------------- MODULE QuoteBounds ----------------------------
(* What the ring of the agent and the receiver that reads it have in common. *)
EXTENDS Integers

CONSTANTS
  Capacity, \* settings.quote_buffer_capacity, checked to be positive
  MaxSeq,   \* bound: no sequence number above it is given out
  None

ASSUME CapacityAssumption == Capacity \in Nat \ {0}
ASSUME MaxSeqAssumption == MaxSeq \in Nat
=============================================================================
