-------------------------- MODULE MCQuoteSequence --------------------------
(* A ring of two or three slots, batches up to twice its size, two readers. *)
EXTENDS QuoteSequence

CONSTANTS a, b, MaxAsked, MaxBatch

MCQuotes == {a, b}
\* Neighbouring quotes differ, so that a swapped or shifted answer shows.
MCPushes == {[i \in 1 .. n |-> IF (i + k) % 2 = 0 THEN a ELSE b] : n \in 1 .. MaxBatch, k \in 0 .. 1}
MCReads == [seq : 1 .. MaxAsked, limit : 1 .. 2, wait : BOOLEAN]
=============================================================================
