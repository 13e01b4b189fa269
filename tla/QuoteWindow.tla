---------------------------- MODULE QuoteWindow ----------------------------
(***************************************************************************)
(* What the agent's sequenced quote cache promises, without its ring, its  *)
(* lock or its condition variable: the last Capacity quotes are kept under *)
(* consecutive sequence numbers, and every call is answered from the whole *)
(* window as it stands at one instant between the call and its answer.     *)
(* QuoteSequence implements this specification.                            *)
(***************************************************************************)
EXTENDS Integers, Sequences

CONSTANTS
  Capacity, \* the number of quotes kept
  Readers,  \* the HTTP worker threads
  Requests, \* what a reader may ask: records with fields seq, limit and wait
  Batches,  \* what one XtData callback may push: non-empty sequences of quotes
  MaxSeq,   \* bound: no sequence number above it is given out
  None

VARIABLES
  next,   \* the sequence number the next quote will get
  window, \* the quotes kept, a function on consecutive sequence numbers
  asked,  \* reader -> the request it waits an answer for, or None
  reply   \* reader -> the last answer it got, or None

vars == <<next, window, asked, reply>>

\* The sequence numbers kept once `end` numbers have been given out.
KeptAfter(end) == {s \in 1 .. end : s > end - Capacity}

\* Every answer carries the bounds of the window it was taken from.
Answered(kind, data, to) ==
  [kind |-> kind, data |-> data, next |-> to,
   oldest |-> IF next = 1 THEN None ELSE IF next > Capacity THEN next - Capacity ELSE 1,
   latest |-> IF next = 1 THEN None ELSE next - 1]

\* The answer to q: nothing has the requested number yet; or the consecutive
\* quotes from it on, at most `limit` of them; or it is outside the window.
AnswerTo(q) ==
  LET end == IF q.seq + q.limit < next THEN q.seq + q.limit - 1 ELSE next - 1 IN
  IF q.seq = next THEN Answered("empty", <<>>, q.seq)
  ELSE IF q.seq \in KeptAfter(next - 1)
    THEN Answered("records", [i \in 1 .. end - q.seq + 1 |-> window[q.seq + i - 1]], end + 1)
    ELSE Answered("out_of_range", <<>>, q.seq)

Init ==
  /\ next = 1
  /\ window = [s \in KeptAfter(0) |-> None]
  /\ asked = [r \in Readers |-> None]
  /\ reply = [r \in Readers |-> None]

AppendBatch(b) ==
  LET end == next + Len(b) - 1 IN
  /\ end <= MaxSeq
  /\ next' = end + 1
  /\ window' = [s \in KeptAfter(end) |-> IF s < next THEN window[s] ELSE b[s - next + 1]]
  /\ UNCHANGED <<asked, reply>>

Ask(r, q) ==
  /\ asked[r] = None
  /\ asked' = [asked EXCEPT ![r] = q]
  /\ reply' = [reply EXCEPT ![r] = None]
  /\ UNCHANGED <<next, window>>

Answer(r) ==
  /\ asked[r] # None
  /\ reply' = [reply EXCEPT ![r] = AnswerTo(asked[r])]
  /\ asked' = [asked EXCEPT ![r] = None]
  /\ UNCHANGED <<next, window>>

Next ==
  \/ \E b \in Batches : AppendBatch(b)
  \/ \E r \in Readers : Answer(r) \/ \E q \in Requests : Ask(r, q)

Spec == Init /\ [][Next]_vars
=============================================================================
