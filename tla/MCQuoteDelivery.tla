-------------------------- MODULE MCQuoteDelivery --------------------------
(* A window of two quotes that a slow receiver loses sight of, twice over. *)
EXTENDS QuoteDelivery
=============================================================================
