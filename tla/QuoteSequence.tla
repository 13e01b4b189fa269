--------------------------- MODULE QuoteSequence ---------------------------
(***************************************************************************)
(* qmt_agent/quote_sequence.py: the ring of sequenced quotes that XtData's *)
(* callback threads append to and HTTP worker threads long-poll.           *)
(*                                                                         *)
(* One lock protects the ring, and Condition.wait releases it.  The code   *)
(* between two points where a thread may lose the lock is one action: a    *)
(* whole batch is one AppendBatch, and a reader runs from taking the lock  *)
(* to either its answer or its wait.  A reader's deadline is the flag      *)
(* late, which Tick may raise at any time after the call.  The ring's      *)
(* names differ from QuoteDelivery's, as QuoteProofs is about both.        *)
(***************************************************************************)
EXTENDS Integers, Sequences, QuoteBounds

CONSTANTS
  Readers,  \* the HTTP worker threads
  Quotes,   \* the payloads
  Reads,    \* records [seq, limit, wait]: wait says whether wait_ms > 0
  Pushes    \* what one XtData callback may push: non-empty sequences of quotes

ASSUME ReadsAssumption == Reads \subseteq [seq : Nat \ {0}, limit : Nat \ {0}, wait : BOOLEAN]
ASSUME PushesAssumption == Pushes \subseteq Seq(Quotes) /\ <<>> \notin Pushes
ASSUME NoneAssumption == None \notin Reads \cup [seq : Nat \ {0}, quote : Quotes]

VARIABLES
  records, \* _records: slot -> the record last written there, or None
  ringSeq, \* _next_seq
  size,    \* _size
  pc,      \* reader -> "idle", "entering" (wants the lock) or "waiting" (in Condition.wait)
  request, \* reader -> the arguments of its call, or None
  late,    \* reader -> whether its deadline has passed
  outcome  \* reader -> what its last call returned or raised, or None

ringVars == <<records, ringSeq, size, pc, request, late, outcome>>

Slots == 0 .. Capacity - 1

Slot(seq) == (seq - 1) % Capacity

\* _bounds_unlocked: both None while the ring is empty.
Oldest == IF size = 0 THEN None ELSE ringSeq - size
Latest == IF size = 0 THEN None ELSE ringSeq - 1

RingInit ==
  /\ records = [i \in Slots |-> None]
  /\ ringSeq = 1
  /\ size = 0
  /\ pc = [r \in Readers |-> "idle"]
  /\ request = [r \in Readers |-> None]
  /\ late = [r \in Readers |-> FALSE]
  /\ outcome = [r \in Readers |-> None]

\* The numbers of batch b that land in slot i, while it is appended.
Landing(b, i) == {s \in ringSeq .. ringSeq + Len(b) - 1 : Slot(s) = i}

\* Mutant: a slot keeps the first record of a batch that wraps round the ring.
WrittenFirst(b) ==
  [i \in Slots |->
     IF Landing(b, i) = {} THEN records[i]
     ELSE LET s == CHOOSE t \in Landing(b, i) : \A u \in Landing(b, i) : t <= u
          IN [seq |-> s, quote |-> b[s - ringSeq + 1]]]

\* The slots after the loop: each holds the last record the loop put there.
Written(b) ==
  [i \in Slots |->
     IF Landing(b, i) = {} THEN records[i]
     ELSE LET s == CHOOSE t \in Landing(b, i) : \A u \in Landing(b, i) : u <= t
          IN [seq |-> s, quote |-> b[s - ringSeq + 1]]]

\* Mutant: notify instead of notify_all.
NotifiedOne ==
  LET waiting == {r \in Readers : pc[r] = "waiting"}
  IN IF waiting = {} THEN pc ELSE [pc EXCEPT ![CHOOSE r \in waiting : TRUE] = "entering"]

\* notify_all: every waiting reader will want the lock again.
Notified == [r \in Readers |-> IF pc[r] = "waiting" THEN "entering" ELSE pc[r]]

\* Mutant: the size is not capped by the capacity.
AppendUncapped(b) ==
  /\ ringSeq + Len(b) - 1 <= MaxSeq
  /\ records' = Written(b)
  /\ ringSeq' = ringSeq + Len(b)
  /\ size' = size + Len(b)
  /\ pc' = Notified
  /\ UNCHANGED <<request, late, outcome>>

AppendBatch(b) ==
  /\ ringSeq + Len(b) - 1 <= MaxSeq
  /\ records' = Written(b)
  /\ ringSeq' = ringSeq + Len(b)
  /\ size' = IF size + Len(b) < Capacity THEN size + Len(b) ELSE Capacity
  /\ pc' = Notified
  /\ UNCHANGED <<request, late, outcome>>

\* A call of read: the deadline is computed, then the lock is asked for.
Read(r, q) ==
  /\ pc[r] = "idle"
  /\ pc' = [pc EXCEPT ![r] = "entering"]
  /\ request' = [request EXCEPT ![r] = q]
  /\ late' = [late EXCEPT ![r] = FALSE]
  /\ outcome' = [outcome EXCEPT ![r] = None]
  /\ UNCHANGED <<records, ringSeq, size>>

\* The deadline of a long poll passes.
Tick(r) ==
  /\ pc[r] # "idle" /\ request[r].wait /\ ~late[r]
  /\ late' = [late EXCEPT ![r] = TRUE]
  /\ UNCHANGED <<records, ringSeq, size, pc, request, outcome>>

\* Condition.wait returns because its timeout has run out.
TimeOut(r) ==
  /\ pc[r] = "waiting" /\ late[r]
  /\ pc' = [pc EXCEPT ![r] = "entering"]
  /\ UNCHANGED <<records, ringSeq, size, request, late, outcome>>

\* Mutant: every turn of the loop waits anew, without looking at the deadline.
MustWaitAnew(r) == request[r].wait /\ request[r].seq = ringSeq

\* The condition of the while loop, and no time left being its break.
MustWait(r) == request[r].wait /\ request[r].seq = ringSeq /\ ~late[r]

Wait(r) ==
  /\ pc[r] = "entering" /\ MustWait(r)
  /\ pc' = [pc EXCEPT ![r] = "waiting"]
  /\ UNCHANGED <<records, ringSeq, size, request, late, outcome>>

\* Mutant: the oldest number kept is refused.
OutOfRangeEarly(q) == size = 0 \/ q.seq <= ringSeq - size \/ q.seq > ringSeq - 1

OutOfRange(q) == size = 0 \/ q.seq < ringSeq - size \/ q.seq > ringSeq - 1

\* The last number of the answered window.
End(q) == IF q.seq + q.limit - 1 < ringSeq - 1 THEN q.seq + q.limit - 1 ELSE ringSeq - 1

\* The check of every slot the answer copies.
Consistent(q) == \A s \in q.seq .. End(q) : records[Slot(s)] # None /\ records[Slot(s)].seq = s

Response(kind, data, to) ==
  [kind |-> kind, data |-> data, next |-> to, oldest |-> Oldest, latest |-> Latest]

\* What read returns or raises once it stops waiting.
Result(q) ==
  IF q.seq = ringSeq THEN Response("empty", <<>>, q.seq)
  ELSE IF OutOfRange(q) THEN Response("out_of_range", <<>>, q.seq)
  ELSE IF ~Consistent(q) THEN Response("inconsistent", <<>>, q.seq)
  ELSE Response("records",
                [i \in 1 .. End(q) - q.seq + 1 |-> records[Slot(q.seq + i - 1)].quote],
                End(q) + 1)

ReturnRead(r) ==
  /\ pc[r] = "entering" /\ ~MustWait(r)
  /\ outcome' = [outcome EXCEPT ![r] = Result(request[r])]
  /\ pc' = [pc EXCEPT ![r] = "idle"]
  /\ request' = [request EXCEPT ![r] = None]
  /\ late' = [late EXCEPT ![r] = FALSE]
  /\ UNCHANGED <<records, ringSeq, size>>

Reader(r) == Wait(r) \/ ReturnRead(r) \/ TimeOut(r)

RingNext ==
  \/ \E b \in Pushes : AppendBatch(b)
  \/ \E r \in Readers : Reader(r) \/ Tick(r) \/ \E q \in Reads : Read(r, q)

RingSpec == RingInit /\ [][RingNext]_ringVars

\* Threads get to run and time passes; nobody has to call read or append.
FairRing == RingSpec /\ \A r \in Readers : WF_ringVars(Reader(r)) /\ WF_ringVars(Tick(r))
-----------------------------------------------------------------------------
RecordType == [seq : Nat \ {0}, quote : Quotes]

\* The variables have the types the code declares.
RingTypeOK ==
  /\ records \in [Slots -> RecordType \cup {None}]
  /\ ringSeq \in 1 .. MaxSeq + 1
  /\ size \in 0 .. Capacity
  /\ pc \in [Readers -> {"idle", "entering", "waiting"}]
  /\ request \in [Readers -> Reads \cup {None}]
  /\ \A r \in Readers : pc[r] = "idle" <=> request[r] = None
  /\ late \in [Readers -> BOOLEAN]
  /\ outcome = [r \in Readers |-> outcome[r]]

\* The comment in read (quote_sequence.py:121): every number between the bounds
\* finds its own record in its slot, however often the ring has wrapped and
\* however large the batches were, so read never raises its RuntimeError; and
\* the bounds leave out no quote that has not been overwritten.
RingCurrent ==
  /\ size = IF ringSeq - 1 < Capacity THEN ringSeq - 1 ELSE Capacity
  /\ \A s \in ringSeq - size .. ringSeq - 1 :
       records[Slot(s)] # None /\ records[Slot(s)].seq = s

\* No wake-up is lost: a reader that sleeps in Condition.wait has nothing to
\* read, so an append that gives it something has also woken it.
NoLostWakeup == \A r \in Readers : pc[r] = "waiting" => request[r].seq = ringSeq

\* A long poll ends: every call is answered once its deadline has passed, also
\* when the quotes it waits for never come or have already been overwritten.
EveryReadReturns == \A r \in Readers : pc[r] # "idle" ~> pc[r] = "idle"

\* Seen from outside, the ring is a sliding window, and each call is answered
\* from one instant of it (QuoteWindow).
KeptQuotes == [s \in ringSeq - size .. ringSeq - 1 |-> records[Slot(s)].quote]

Window == INSTANCE QuoteWindow WITH Requests <- Reads, Batches <- Pushes,
  next <- ringSeq, window <- KeptQuotes, asked <- request, reply <- outcome

ImplementsWindow == Window!Spec
=============================================================================
