---------------------------- MODULE QuoteProofs ----------------------------
(***************************************************************************)
(* The agent's ring never mixes up records, never loses a wake-up and is a *)
(* sliding window to its callers; the receiver that reads this window      *)
(* gives each quote to the platform once, in order and after it is stored, *)
(* and passes over none in silence.  For every capacity, set of readers,   *)
(* batch size and start_seq, and any number of failed calls, restarts of   *)
(* the agent and crashes of the platform.                                  *)
(***************************************************************************)
EXTENDS QuoteSequence, QuoteDelivery, TLAPS

-----------------------------------------------------------------------------
(* Arithmetic of the slots. *)

LEMMA MultipleBelow ==
  ASSUME NEW n \in Nat \ {0}, NEW k \in Int, -n < n * k, n * k < n
  PROVE k = 0
  <1>1. CASE k >= 1
    BY <1>1
  <1>2. CASE k <= -1
    BY <1>2
  <1> QED
    BY <1>1, <1>2

LEMMA SlotType == ASSUME NEW s \in Nat \ {0} PROVE Slot(s) \in Slots
  BY CapacityAssumption DEF Slot, Slots

\* Two numbers less than a ring apart never share a slot.
LEMMA SlotInjective ==
  ASSUME NEW s \in Nat \ {0}, NEW t \in Nat \ {0}, s <= t, t - s < Capacity, Slot(s) = Slot(t)
  PROVE s = t
  <1> DEFINE p == (s - 1) \div Capacity
             q == (t - 1) \div Capacity
  <1>1. p \in Int /\ q \in Int
    BY CapacityAssumption
  <1>2. s - 1 = Capacity * p + Slot(s)
    BY CapacityAssumption DEF Slot
  <1>3. t - 1 = Capacity * q + Slot(t)
    BY CapacityAssumption DEF Slot
  <1> HIDE DEF p, q
  <1>4. Slot(s) \in Int
    BY SlotType DEF Slots
  <1>5. t - s = Capacity * (q - p)
    BY <1>1, <1>2, <1>3, <1>4, CapacityAssumption
  <1>6. q - p = 0
    BY <1>1, <1>5, MultipleBelow, CapacityAssumption
  <1> QED
    BY <1>1, <1>5, <1>6, CapacityAssumption

\* Every slot is hit by one of any Capacity consecutive numbers.
LEMMA SlotHit ==
  ASSUME NEW e \in Nat, NEW i \in Slots
  PROVE LET s == e - ((e - 1 - i) % Capacity)
        IN s \in Int /\ s <= e /\ e - s < Capacity /\ (s - 1) % Capacity = i
  <1> DEFINE m == (e - 1 - i) % Capacity
             q == (e - 1 - i) \div Capacity
             s == e - m
             p == (s - 1) \div Capacity
             j == (s - 1) % Capacity
  <1>1. m \in 0 .. Capacity - 1 /\ q \in Int /\ e - 1 - i = Capacity * q + m
    BY CapacityAssumption DEF Slots
  <1>2. s \in Int /\ s <= e /\ e - s < Capacity
    BY <1>1, CapacityAssumption
  <1>3. j \in 0 .. Capacity - 1 /\ p \in Int /\ s - 1 = Capacity * p + j
    BY <1>2, CapacityAssumption
  <1> HIDE DEF m, q, p, j
  <1>4. j - i = Capacity * (q - p)
    BY <1>1, <1>3, CapacityAssumption DEF Slots
  <1>5. q - p = 0
    BY <1>1, <1>3, <1>4, MultipleBelow, CapacityAssumption DEF Slots
  <1>6. j = i
    BY <1>1, <1>3, <1>4, <1>5, CapacityAssumption DEF Slots
  <1> QED
    BY <1>2, <1>6 DEF j, s, m

-----------------------------------------------------------------------------
(* The inductive invariant. *)

RingInv == RingTypeOK /\ RingCurrent /\ NoLostWakeup

LEMMA BatchType ==
  ASSUME NEW b \in Pushes
  PROVE /\ Len(b) \in Nat \ {0}
        /\ \A i \in 1 .. Len(b) : b[i] \in Quotes
  BY PushesAssumption

\* The slot of a number that survives the batch gets that number's record.
LEMMA WrittenNew ==
  ASSUME RingTypeOK, NEW b \in Pushes, NEW s \in ringSeq .. ringSeq + Len(b) - 1,
         ringSeq + Len(b) - 1 - s < Capacity
  PROVE Written(b)[Slot(s)] = [seq |-> s, quote |-> b[s - ringSeq + 1]]
  <1> DEFINE L == Landing(b, Slot(s))
  <1>1. ringSeq \in Nat \ {0} /\ Len(b) \in Nat \ {0} /\ s \in Nat \ {0}
    BY BatchType, MaxSeqAssumption DEF RingTypeOK
  <1>2. Slot(s) \in Slots
    BY <1>1, SlotType
  <1>3. s \in L
    BY DEF Landing
  <1>4. ASSUME NEW u \in L PROVE u <= s
    <2>1. u \in Nat \ {0} /\ u <= ringSeq + Len(b) - 1 /\ Slot(u) = Slot(s)
      BY <1>1 DEF Landing
    <2> QED
      BY <1>1, <2>1, SlotInjective, CapacityAssumption
  <1>5. ASSUME NEW t \in L, \A u \in L : u <= t PROVE t = s
    BY <1>1, <1>3, <1>4, <1>5 DEF Landing
  <1>6. (CHOOSE t \in L : \A u \in L : u <= t) = s
    BY <1>3, <1>4, <1>5
  <1> QED
    BY <1>2, <1>3, <1>6 DEF Written

\* The slot of a kept number that the batch leaves alone keeps its record.
LEMMA WrittenOld ==
  ASSUME RingTypeOK, NEW b \in Pushes, NEW s \in 1 .. ringSeq - 1,
         ringSeq + Len(b) - 1 - s < Capacity
  PROVE Written(b)[Slot(s)] = records[Slot(s)]
  <1>1. ringSeq \in Nat \ {0} /\ Len(b) \in Nat \ {0} /\ s \in Nat \ {0}
    BY BatchType, MaxSeqAssumption DEF RingTypeOK
  <1>2. Slot(s) \in Slots
    BY <1>1, SlotType
  <1>3. ASSUME NEW u \in Landing(b, Slot(s)) PROVE FALSE
    <2>1. u \in Nat \ {0} /\ u >= ringSeq /\ u <= ringSeq + Len(b) - 1 /\ Slot(u) = Slot(s)
      BY <1>1 DEF Landing
    <2> QED
      BY <1>1, <2>1, SlotInjective, CapacityAssumption
  <1> QED
    BY <1>2, <1>3 DEF Written

LEMMA WrittenType ==
  ASSUME RingTypeOK, NEW b \in Pushes
  PROVE Written(b) \in [Slots -> RecordType \cup {None}]
  <1>1. ringSeq \in Nat \ {0} /\ Len(b) \in Nat \ {0}
    BY BatchType, MaxSeqAssumption DEF RingTypeOK
  <1> SUFFICES ASSUME NEW i \in Slots, Landing(b, i) # {}
               PROVE Written(b)[i] \in RecordType
    BY DEF Written, RingTypeOK
  <1> DEFINE e == ringSeq + Len(b) - 1
             s == e - ((e - 1 - i) % Capacity)
  <1>2. e \in Nat
    BY <1>1
  <1>3. s \in Int /\ s <= e /\ e - s < Capacity /\ Slot(s) = i
    BY <1>2, SlotHit DEF Slot
  <1>4. PICK u \in Landing(b, i) : TRUE
    OBVIOUS
  <1>5. u \in Nat \ {0} /\ ringSeq <= u /\ u <= e /\ Slot(u) = i
    BY <1>1 DEF Landing
  <1> HIDE DEF s
  <1>6. s >= ringSeq
    <2>1. CASE s < u
      <3>1. SUFFICES FALSE
        OBVIOUS
      <3> DEFINE k == (u - 1) \div Capacity
                 h == (s - 1) \div Capacity
      <3>2. k \in Int /\ h \in Int /\ u - 1 = Capacity * k + i /\ s - 1 = Capacity * h + i
        BY <1>3, <1>5, CapacityAssumption DEF Slot
      <3> HIDE DEF k, h
      <3>3. u - s = Capacity * (k - h)
        BY <1>3, <1>5, <3>2, CapacityAssumption DEF Slots
      <3>4. k - h = 0
        BY <1>2, <1>3, <1>5, <2>1, <3>2, <3>3, MultipleBelow, CapacityAssumption
      <3> QED
        BY <1>3, <1>5, <2>1, <3>3, <3>4, CapacityAssumption
    <2> QED
      BY <1>1, <1>3, <1>5, <2>1
  <1>7. Written(b)[Slot(s)] = [seq |-> s, quote |-> b[s - ringSeq + 1]]
    BY <1>1, <1>3, <1>6, WrittenNew
  <1>8. b[s - ringSeq + 1] \in Quotes
    BY <1>1, <1>3, <1>6, BatchType
  <1> QED
    BY <1>1, <1>3, <1>6, <1>7, <1>8 DEF RecordType

LEMMA InitRing == RingInit => RingInv
  BY CapacityAssumption, MaxSeqAssumption
  DEF RingInit, RingInv, RingTypeOK, RingCurrent, NoLostWakeup, Slots

LEMMA AppendRingInv == ASSUME RingInv, NEW b \in Pushes, AppendBatch(b) PROVE RingInv'
  <1> USE DEF RingInv
  <1>1. ringSeq \in Nat \ {0} /\ size \in Nat /\ Len(b) \in Nat \ {0}
    BY BatchType, CapacityAssumption, MaxSeqAssumption DEF RingTypeOK
  <1>2. records' = Written(b) /\ ringSeq' = ringSeq + Len(b)
    BY DEF AppendBatch
  <1>3. size' = IF ringSeq' - 1 < Capacity THEN ringSeq' - 1 ELSE Capacity
    BY <1>1, CapacityAssumption DEF AppendBatch, RingCurrent
  <1>4. RingTypeOK'
    <2>1. records' \in [Slots -> RecordType \cup {None}]
      BY <1>2, WrittenType
    <2>2. ringSeq' \in 1 .. MaxSeq + 1 /\ size' \in 0 .. Capacity
      BY <1>1, <1>3, CapacityAssumption, MaxSeqAssumption DEF AppendBatch
    <2>3. pc' \in [Readers -> {"idle", "entering", "waiting"}]
      BY DEF AppendBatch, Notified, RingTypeOK
    <2>4. \A r \in Readers : pc'[r] = "idle" <=> pc[r] = "idle"
      BY DEF AppendBatch, Notified, RingTypeOK
    <2> QED
      BY <2>1, <2>2, <2>3, <2>4 DEF AppendBatch, RingTypeOK
  <1>5. RingCurrent'
    <2> SUFFICES ASSUME NEW s \in ringSeq' - size' .. ringSeq' - 1
                 PROVE records'[Slot(s)] # None /\ records'[Slot(s)].seq = s
      BY <1>3 DEF RingCurrent, Slot
    <2>1. s \in Nat \ {0} /\ ringSeq + Len(b) - 1 - s < Capacity /\ s <= ringSeq + Len(b) - 1
      BY <1>1, <1>2, <1>3, CapacityAssumption
    <2>2. CASE s >= ringSeq
      <3>1. records'[Slot(s)] = [seq |-> s, quote |-> b[s - ringSeq + 1]]
        BY <1>1, <1>2, <2>1, <2>2, WrittenNew
      <3>2. s - ringSeq + 1 \in 1 .. Len(b)
        BY <1>1, <2>1, <2>2
      <3>3. b[s - ringSeq + 1] \in Quotes
        BY <3>2, BatchType
      <3> QED
        BY <2>1, <3>1, <3>3, NoneAssumption
    <2>3. CASE s < ringSeq
      <3>1. records'[Slot(s)] = records[Slot(s)]
        BY <1>1, <1>2, <2>1, <2>3, WrittenOld
      <3>2. s \in ringSeq - size .. ringSeq - 1
        BY <1>1, <2>1, <2>3, CapacityAssumption DEF RingCurrent
      <3> QED
        BY <3>1, <3>2 DEF RingCurrent
    <2> QED
      BY <1>1, <2>1, <2>2, <2>3
  <1>6. NoLostWakeup'
    BY DEF NoLostWakeup, AppendBatch, Notified, RingTypeOK
  <1> QED
    BY <1>4, <1>5, <1>6

\* A reader's steps leave the ring alone.
LEMMA ReaderRingInv ==
  ASSUME RingInv, NEW r \in Readers,
         Reader(r) \/ Tick(r) \/ \E q \in Reads : Read(r, q)
  PROVE RingInv'
  <1> USE DEF RingInv
  <1>1. UNCHANGED <<records, ringSeq, size>>
    BY DEF Reader, Wait, ReturnRead, TimeOut, Tick, Read
  <1>2. RingTypeOK'
    <2>1. CASE Wait(r)
      BY <2>1 DEF Wait, RingTypeOK
    <2>2. CASE ReturnRead(r)
      BY <2>2 DEF ReturnRead, RingTypeOK
    <2>3. CASE TimeOut(r)
      BY <2>3 DEF TimeOut, RingTypeOK
    <2>4. CASE Tick(r)
      BY <2>4 DEF Tick, RingTypeOK
    <2>5. ASSUME NEW q \in Reads, Read(r, q) PROVE RingTypeOK'
      BY <2>5, NoneAssumption DEF Read, RingTypeOK
    <2> QED
      BY <2>1, <2>2, <2>3, <2>4, <2>5 DEF Reader
  <1>3. RingCurrent'
    BY <1>1 DEF RingCurrent, Slot
  <1>4. NoLostWakeup'
    BY DEF NoLostWakeup, Reader, Wait, MustWait, ReturnRead, TimeOut, Tick, Read, RingTypeOK
  <1> QED
    BY <1>2, <1>3, <1>4

LEMMA NextRing == RingInv /\ [RingNext]_ringVars => RingInv'
  <1> SUFFICES ASSUME RingInv, [RingNext]_ringVars PROVE RingInv'
    OBVIOUS
  <1>1. ASSUME NEW b \in Pushes, AppendBatch(b) PROVE RingInv'
    BY <1>1, AppendRingInv
  <1>2. ASSUME NEW r \in Readers, Reader(r) \/ Tick(r) \/ \E q \in Reads : Read(r, q)
        PROVE RingInv'
    BY <1>2, ReaderRingInv
  <1>3. CASE UNCHANGED ringVars
    BY <1>3 DEF ringVars, RingInv, RingTypeOK, RingCurrent, NoLostWakeup, Slot
  <1> QED
    BY <1>1, <1>2, <1>3 DEF RingNext

\* The invariant holds in every behaviour of the agent's quote cache.
THEOREM RingInvariance == RingSpec => []RingInv
  BY InitRing, NextRing, PTL DEF RingSpec

\* Every variable of quote_sequence.py keeps its type, the size its capacity.
THEOREM RingTypeCorrect == RingSpec => []RingTypeOK
  BY RingInvariance, PTL DEF RingInv

\* read never raises its "inconsistent" RuntimeError (quote_sequence.py:121).
THEOREM RingIsCurrent == RingSpec => []RingCurrent
  BY RingInvariance, PTL DEF RingInv

\* notify_all under the lock never misses a sleeping reader.
THEOREM NoWakeupLost == RingSpec => []NoLostWakeup
  BY RingInvariance, PTL DEF RingInv

-----------------------------------------------------------------------------
(* The ring implements the sliding window. *)

LEMMA InitWindow == RingInit => Window!Init
  BY DEF RingInit, Window!Init, KeptQuotes, Window!KeptAfter

\* The numbers between the bounds are those the window keeps.
LEMMA KeptRange ==
  ASSUME RingInv
  PROVE ringSeq - size .. ringSeq - 1 = Window!KeptAfter(ringSeq - 1)
  BY CapacityAssumption, MaxSeqAssumption DEF RingInv, RingTypeOK, RingCurrent, Window!KeptAfter

LEMMA AppendWindow ==
  ASSUME RingInv, RingInv', NEW b \in Pushes, AppendBatch(b)
  PROVE Window!AppendBatch(b)
  <1> DEFINE end == ringSeq + Len(b) - 1
  <1>1. /\ ringSeq \in Nat \ {0} /\ size \in Nat /\ Len(b) \in Nat \ {0}
        /\ ringSeq' = ringSeq + Len(b) /\ records' = Written(b) /\ RingTypeOK
    BY BatchType, CapacityAssumption, MaxSeqAssumption DEF RingInv, RingTypeOK, AppendBatch
  <1>2. ringSeq' - size' .. ringSeq' - 1 = Window!KeptAfter(end)
    <2>1. size' = IF end < Capacity THEN end ELSE Capacity
      BY <1>1 DEF RingInv, RingCurrent
    <2>2. ringSeq' - 1 = end /\ end \in Nat /\ Capacity \in Nat
      BY <1>1, CapacityAssumption
    <2> HIDE DEF end
    <2>3. \A s \in Int : s \in ringSeq' - size' .. ringSeq' - 1 <=> s \in Window!KeptAfter(end)
      BY <1>1, <2>1, <2>2 DEF Window!KeptAfter
    <2> QED
      BY <2>3 DEF Window!KeptAfter
  <1>3. ASSUME NEW s \in Window!KeptAfter(end)
        PROVE records'[Slot(s)].quote = IF s < ringSeq THEN KeptQuotes[s] ELSE b[s - ringSeq + 1]
    <2>1. s \in 1 .. end /\ end - s < Capacity
      BY <1>1, CapacityAssumption DEF Window!KeptAfter
    <2>2. CASE s >= ringSeq
      <3>1. s \in ringSeq .. end
        BY <1>1, <2>1, <2>2
      <3>2. records'[Slot(s)] = [seq |-> s, quote |-> b[s - ringSeq + 1]]
        BY <1>1, <2>1, <3>1, WrittenNew
      <3> QED
        BY <1>1, <2>1, <2>2, <3>2
    <2>3. CASE s < ringSeq
      <3>1. records'[Slot(s)] = records[Slot(s)]
        BY <1>1, <2>1, <2>3, WrittenOld
      <3>2. s \in ringSeq - size .. ringSeq - 1
        BY <1>1, <2>1, <2>3, CapacityAssumption DEF RingInv, RingCurrent
      <3> QED
        BY <1>1, <2>1, <2>3, <3>1, <3>2 DEF KeptQuotes
    <2> QED
      BY <1>1, <2>1, <2>2, <2>3
  <1>4. KeptQuotes' = [s \in Window!KeptAfter(end) |->
                         IF s < ringSeq THEN KeptQuotes[s] ELSE b[s - ringSeq + 1]]
    BY <1>2, <1>3 DEF KeptQuotes, Slot
  <1> QED
    BY <1>1, <1>4 DEF AppendBatch, Window!AppendBatch

\* An answer read from the ring under the lock is the window's answer.
LEMMA ResultIsAnswer ==
  ASSUME RingInv, NEW q \in Reads
  PROVE Result(q) = Window!AnswerTo(q)
  <1>1. /\ ringSeq \in Nat \ {0} /\ size \in Nat
        /\ size = IF ringSeq - 1 < Capacity THEN ringSeq - 1 ELSE Capacity
        /\ q.seq \in Nat \ {0} /\ q.limit \in Nat \ {0}
    BY CapacityAssumption, MaxSeqAssumption, ReadsAssumption DEF RingInv, RingTypeOK, RingCurrent
  <1>2. ASSUME NEW kind, NEW data, NEW to
        PROVE Response(kind, data, to) = Window!Answered(kind, data, to)
    BY <1>1, CapacityAssumption DEF Response, Oldest, Latest, Window!Answered
  <1>3. CASE q.seq = ringSeq
    BY <1>2, <1>3 DEF Result, Window!AnswerTo
  <1>4. CASE q.seq # ringSeq /\ OutOfRange(q)
    <2>1. q.seq \notin Window!KeptAfter(ringSeq - 1)
      BY <1>1, <1>4, CapacityAssumption DEF OutOfRange, Window!KeptAfter
    <2> QED
      BY <1>2, <1>4, <2>1 DEF Result, Window!AnswerTo
  <1>5. CASE q.seq # ringSeq /\ ~OutOfRange(q)
    <2>1. q.seq \in Window!KeptAfter(ringSeq - 1)
      BY <1>1, <1>5, CapacityAssumption DEF OutOfRange, Window!KeptAfter
    <2>2. End(q) = IF q.seq + q.limit < ringSeq THEN q.seq + q.limit - 1 ELSE ringSeq - 1
      BY <1>1 DEF End
    <2>3. /\ ringSeq - size <= q.seq /\ End(q) <= ringSeq - 1
          /\ End(q) \in Nat
      BY <1>1, <1>5, <2>2 DEF OutOfRange
    <2>4. Consistent(q)
      BY <1>1, <2>3 DEF Consistent, RingInv, RingCurrent
    <2>5. [i \in 1 .. End(q) - q.seq + 1 |-> records[Slot(q.seq + i - 1)].quote]
          = [i \in 1 .. End(q) - q.seq + 1 |-> KeptQuotes[q.seq + i - 1]]
      <3>1. ASSUME NEW i \in 1 .. End(q) - q.seq + 1
            PROVE q.seq + i - 1 \in ringSeq - size .. ringSeq - 1
        BY <1>1, <2>3
      <3>2. ASSUME NEW i \in 1 .. End(q) - q.seq + 1
            PROVE records[Slot(q.seq + i - 1)].quote = KeptQuotes[q.seq + i - 1]
        BY <3>1 DEF KeptQuotes
      <3> QED
        BY <3>2
    <2> QED
      BY <1>2, <1>5, <2>1, <2>2, <2>4, <2>5 DEF Result, Window!AnswerTo
  <1> QED
    BY <1>3, <1>4, <1>5

LEMMA NextWindow == RingInv /\ RingInv' /\ [RingNext]_ringVars => [Window!Next]_(Window!vars)
  <1> SUFFICES ASSUME RingInv, RingInv', [RingNext]_ringVars
               PROVE Window!Next \/ UNCHANGED Window!vars
    OBVIOUS
  <1>1. ASSUME NEW b \in Pushes, AppendBatch(b) PROVE Window!Next
    BY <1>1, AppendWindow DEF Window!Next
  <1>2. ASSUME NEW r \in Readers, ReturnRead(r) PROVE Window!Next
    <2>1. request[r] \in Reads /\ request[r] # None
      BY <1>2 DEF RingInv, RingTypeOK, ReturnRead
    <2>2. outcome' = [outcome EXCEPT ![r] = Window!AnswerTo(request[r])]
      BY <1>2, <2>1, ResultIsAnswer DEF ReturnRead
    <2>3. KeptQuotes' = KeptQuotes
      BY <1>2 DEF ReturnRead, KeptQuotes, Slot
    <2>4. Window!Answer(r)
      BY <1>2, <2>1, <2>2, <2>3 DEF ReturnRead, Window!Answer
    <2> QED
      BY <2>4 DEF Window!Next
  <1>3. ASSUME NEW r \in Readers, NEW q \in Reads, Read(r, q) PROVE Window!Next
    <2>1. request[r] = None
      BY <1>3 DEF RingInv, RingTypeOK, Read
    <2>2. KeptQuotes' = KeptQuotes
      BY <1>3 DEF Read, KeptQuotes, Slot
    <2>3. Window!Ask(r, q)
      BY <1>3, <2>1, <2>2 DEF Read, Window!Ask
    <2> QED
      BY <2>3 DEF Window!Next
  <1>4. ASSUME NEW r \in Readers, Wait(r) \/ TimeOut(r) \/ Tick(r) PROVE UNCHANGED Window!vars
    BY <1>4 DEF Wait, TimeOut, Tick, Window!vars, KeptQuotes, Slot
  <1>5. CASE UNCHANGED ringVars
    BY <1>5 DEF ringVars, Window!vars, KeptQuotes, Slot
  <1> QED
    BY <1>1, <1>2, <1>3, <1>4, <1>5 DEF RingNext, Reader

\* The ring, its lock and its condition variable implement the sliding window.
THEOREM WindowRefinement == RingSpec => ImplementsWindow
  <1>1. RingSpec => Window!Init /\ [][Window!Next]_(Window!vars)
    BY InitWindow, NextWindow, RingInvariance, PTL DEF RingSpec
  <1> QED
    BY <1>1 DEF ImplementsWindow, Window!Spec

-----------------------------------------------------------------------------
(* The inductive invariant. *)

Asked == asked["receiver"]
Storing == phase \in {"tick", "bar", "returning"}

\* The agent's window has each quote under its number; only a call that waits has a
\* request, and what is being stored is the answer to it.
AgentInv ==
  /\ DOMAIN asked = {"receiver"} /\ DOMAIN reply = {"receiver"}
  /\ \A s \in Agent!KeptAfter(next - 1) : window[s] = TableOf(s)
  /\ Asked # None => Calling /\ Answer = None
  /\ Storing => Answer # None /\ Answer.kind \in {"records", "empty"}

\* What an answer is at any time, and what it still says of the agent that gave it.
GoodAnswer(a) ==
  /\ a.kind \in {"records", "empty", "out_of_range"}
  /\ a.next \in Seqs /\ a.data \in Seq(Tables) /\ a.next - Len(a.data) >= 1
  /\ a.kind = "records" <=> a.data # <<>>
  /\ \A i \in 1 .. Len(a.data) : a.data[i] = TableOf(a.next - Len(a.data) + i - 1)
  /\ a.latest # None => a.latest \in 1 .. MaxSeq /\ a.oldest \in 1 .. a.latest
AnswerInv ==
  Answer # None =>
    /\ GoodAnswer(Answer) /\ base <= source
    /\ source = epoch => /\ Answer.kind # "out_of_range" => Answer.next <= next
                         /\ Answer.latest # None => Answer.latest < next

\* Whether something from the incarnation that answered last is known.
Has == \E x \in Known : x.epoch = source

\* Requests and answers lie at or above next_seq, as far as next_seq is a number of the
\* incarnation that is asked.
OrderInv ==
  /\ \A x \in Known : base <= x.epoch /\ x.epoch <= source
  /\ \A x \in Known : x.epoch = source => x.seq < nextSeq
  /\ ReturnedOnceInOrder
  /\ Has /\ source = epoch => nextSeq <= next
  /\ Has /\ source = epoch /\ Asked # None => nextSeq <= Asked.seq /\ Asked.seq <= next
  /\ Has /\ phase # "idle" /\ Answer # None =>
       /\ Answer.kind # "out_of_range" => nextSeq <= FirstSeq
       /\ Answer.kind = "out_of_range" /\ Answer.latest # None => nextSeq < Answer.oldest

\* While the agent is the one the receiver began with, next_seq has not passed it, an
\* empty answer is one to the first request, and what is below next_seq is known.
PassedInv ==
  epoch = base =>
    /\ nextSeq = StartSeq \/ nextSeq <= next
    /\ Asked # None => IF phase = "asking" THEN Asked.seq = nextSeq ELSE Asked.seq < next
    /\ phase # "idle" /\ Answer # None /\ Answer.kind = "empty" => Answer.next = nextSeq
    /\ \A s \in StartSeq .. nextSeq - 1 : \E x \in Known : x.seq = s

\* What is returned is stored, and what is about to be.
IsStored(t) == RowsFor(t) \subseteq buffer[t] \cup disk[t]
StoredInv ==
  /\ ReturnedIsStored
  /\ phase = "bar" => IsStored("tick")
  /\ phase = "returning" => IsStored("tick") /\ IsStored("bar")

IndInv == TypeOK /\ AgentInv /\ AnswerInv /\ OrderInv /\ PassedInv /\ StoredInv

-----------------------------------------------------------------------------
(* The agent's answers. *)

LEMMA Bounds ==
  /\ Capacity \in Nat \ {0} /\ BatchSize \in Nat \ {0} /\ StartSeq \in Seqs /\ MaxSeq \in Nat \ {0}
  /\ MaxEpoch \in Nat \ {0}
  BY CapacityAssumption, BoundsAssumption DEF Seqs

LEMMA TableOfType == ASSUME NEW s \in Nat PROVE TableOf(s) \in Tables
  BY DEF TableOf, Tables

\* The answer to a request for q.seq is right about what it holds, and an answer of the
\* bounds tells the receiver that it has fallen behind.
LEMMA AnswerToIsGood ==
  ASSUME TypeOK, AgentInv, NEW q \in Requests
  PROVE  LET a == Agent!AnswerTo(q) IN
         /\ GoodAnswer(a)
         /\ a.kind # "out_of_range" => a.next <= next /\ a.next - Len(a.data) = q.seq
         /\ a.latest # None => a.latest < next
         /\ a.kind = "empty" => q.seq = next /\ a.next = q.seq
         /\ a.kind = "out_of_range" /\ q.seq <= next /\ a.latest # None => q.seq < a.oldest
  <1> DEFINE a == Agent!AnswerTo(q)
             end == IF q.seq + q.limit < next THEN q.seq + q.limit - 1 ELSE next - 1
             data == [i \in 1 .. end - q.seq + 1 |-> window[q.seq + i - 1]]
             oldest == IF next = 1 THEN None ELSE IF next > Capacity THEN next - Capacity ELSE 1
             latest == IF next = 1 THEN None ELSE next - 1
  <1>1. /\ q.seq \in Seqs /\ q.seq \in Nat \ {0} /\ q.limit = BatchSize /\ next \in Seqs /\ next \in Nat \ {0}
        /\ MaxSeq \in Nat \ {0} /\ BatchSize \in Nat \ {0} /\ Capacity \in Nat \ {0}
    BY Bounds DEF Requests, Seqs, TypeOK
  <1>2. latest # None => latest \in 1 .. MaxSeq /\ oldest \in 1 .. latest /\ latest < next
    BY <1>1 DEF Seqs
  <1>3. CASE q.seq = next
    <2>1. a = [kind |-> "empty", data |-> <<>>, next |-> q.seq, oldest |-> oldest, latest |-> latest]
      BY <1>3 DEF Agent!AnswerTo, Agent!Answered
    <2> QED
      BY <1>1, <1>2, <1>3, <2>1 DEF GoodAnswer
  <1>4. CASE q.seq # next /\ q.seq \in Agent!KeptAfter(next - 1)
    <2>1. a = [kind |-> "records", data |-> data, next |-> end + 1, oldest |-> oldest, latest |-> latest]
      BY <1>4 DEF Agent!AnswerTo, Agent!Answered
    <2>2. q.seq \in 1 .. next - 1 /\ q.seq > next - 1 - Capacity
      BY <1>4 DEF Agent!KeptAfter
    <2>3. end \in q.seq .. next - 1
      BY <1>1, <2>2
    <2>4. \A i \in 1 .. end - q.seq + 1 : data[i] = TableOf(q.seq + i - 1) /\ data[i] \in Tables
      <3> TAKE i \in 1 .. end - q.seq + 1
      <3>1. q.seq + i - 1 \in Agent!KeptAfter(next - 1) /\ q.seq + i - 1 \in Nat
        BY <1>1, <2>2, <2>3 DEF Agent!KeptAfter
      <3>2. data[i] = window[q.seq + i - 1]
        OBVIOUS
      <3>3. window[q.seq + i - 1] = TableOf(q.seq + i - 1)
        BY <3>1 DEF AgentInv
      <3> QED
        BY <3>1, <3>2, <3>3, TableOfType
    <2>5. data \in Seq(Tables) /\ Len(data) = end - q.seq + 1 /\ data # <<>>
      <3> DEFINE n == end - q.seq + 1
      <3>1. n \in Nat \ {0}
        BY <1>1, <2>3
      <3>2. data = [i \in 1 .. n |-> data[i]] /\ \A i \in 1 .. n : data[i] \in Tables
        BY <2>4
      <3> HIDE DEF n, data
      <3>3. data \in Seq(Tables) /\ Len(data) = n
        BY <3>1, <3>2
      <3> QED
        BY <3>1, <3>3 DEF n
    <2>6. a.kind = "records" /\ a.data = data /\ a.next = end + 1 /\ a.oldest = oldest /\ a.latest = latest
      BY <2>1
    <2> HIDE DEF a, data, end, oldest, latest
    <2>7. a.next \in Seqs /\ a.next <= next /\ a.next - Len(a.data) = q.seq
      <3>1. q.seq \in Int /\ next \in Int /\ end \in Int /\ q.seq >= 1 /\ next \in Seqs
        BY <1>1, <2>3 DEF Seqs
      <3>2. Len(a.data) = end - q.seq + 1 /\ a.next = end + 1
        BY <2>5, <2>6
      <3>3. q.seq <= end /\ end <= next - 1
        BY <2>3, <3>1
      <3>4. a.next - Len(a.data) = q.seq /\ a.next <= next /\ a.next >= 1 /\ a.next \in Int
        BY ONLY <3>1, <3>2, <3>3
      <3>5. next <= MaxSeq + 1 /\ MaxSeq \in Int
        BY <3>1, Bounds DEF Seqs
      <3>6. a.next \in Seqs
        BY ONLY <3>1, <3>4, <3>5 DEF Seqs
      <3> QED
        BY <3>4, <3>6
    <2>8. \A i \in 1 .. Len(a.data) : a.data[i] = TableOf(a.next - Len(a.data) + i - 1)
      BY <2>4, <2>5, <2>6, <2>7
    <2>9. a.data \in Seq(Tables) /\ a.data # <<>>
      BY <2>5, <2>6
    <2>10. a.latest # None => a.latest \in 1 .. MaxSeq /\ a.oldest \in 1 .. a.latest /\ a.latest < next
      BY <1>2, <2>6
    <2>11. a.next - Len(a.data) >= 1
      BY <1>1, <2>7
    <2>12. GoodAnswer(a)
      BY <2>6, <2>7, <2>8, <2>9, <2>10, <2>11 DEF GoodAnswer
    <2> QED
      BY <2>6, <2>7, <2>10, <2>12 DEF a
  <1>5. CASE q.seq # next /\ q.seq \notin Agent!KeptAfter(next - 1)
    <2>1. a = [kind |-> "out_of_range", data |-> <<>>, next |-> q.seq, oldest |-> oldest, latest |-> latest]
      BY <1>5 DEF Agent!AnswerTo, Agent!Answered
    <2>2. q.seq <= next => q.seq < next - Capacity
      BY <1>1, <1>5 DEF Agent!KeptAfter
    <2>3. q.seq <= next /\ latest # None => q.seq < oldest
      BY <1>1, <2>2
    <2> QED
      BY <1>1, <1>2, <2>1, <2>3 DEF GoodAnswer
  <1> QED
    BY <1>3, <1>4, <1>5

\* A batch that begins with the next number's table goes on with its number's tables.
LEMMA BatchTables ==
  ASSUME NEW b \in Batches, NEW n \in Nat \ {0}, b[1] = TableOf(n)
  PROVE  /\ Len(b) \in Nat \ {0}
         /\ \A i \in 1 .. Len(b) : b[i] = TableOf(n + i - 1)
  <1>1. PICK m \in 1 .. MaxPush, k \in 0 .. 1 : b = [i \in 1 .. m |-> TableOf(i + k)]
    BY DEF Batches
  <1>2. m \in Nat \ {0} /\ Len(b) = m
    BY <1>1, BoundsAssumption
  <1>3. n % 2 = (1 + k) % 2
    BY <1>1, <1>2 DEF TableOf
  <1>4. ASSUME NEW i \in 1 .. m PROVE (n + i - 1) % 2 = (i + k) % 2
    BY <1>1, <1>2, <1>3
  <1> QED
    BY <1>1, <1>2, <1>4 DEF TableOf

-----------------------------------------------------------------------------
(* What a step leaves alone. *)

LEMMA SameAnswer ==
  ASSUME UNCHANGED <<reply, source>>
  PROVE  /\ Answer' = Answer /\ FirstSeq' = FirstSeq /\ Rows' = Rows
         /\ \A t : RowsFor(t)' = RowsFor(t)
  BY DEF Answer, FirstSeq, Rows, RowsFor

LEMMA SameKnown ==
  ASSUME UNCHANGED <<returned, skipped>>
  PROVE  Known' = Known /\ ReturnedOnceInOrder' = ReturnedOnceInOrder
  BY DEF Known, ReturnedOnceInOrder

LEMMA SameHas == ASSUME UNCHANGED <<returned, skipped, source>> PROVE Has' = Has
  BY SameKnown DEF Has

\* The types that comparisons rest on.
LEMMA Types ==
  ASSUME TypeOK
  PROVE  /\ next \in Nat \ {0} /\ nextSeq \in Nat \ {0} /\ {epoch, base, source} \subseteq Nat \ {0}
         /\ base <= epoch /\ source <= epoch
         /\ Asked # None => Asked \in Requests /\ Asked.seq \in Nat \ {0} /\ Asked.seq \in Seqs
         /\ Known \subseteq RowType /\ \A x \in Known : x.epoch \in Nat /\ x.seq \in Nat
  <1>1. Known \subseteq RowType
    BY DEF TypeOK, Known
  <1> QED
    BY <1>1, Bounds DEF TypeOK, Seqs, Requests, RowType, Asked

\* What the store had it has.
LEMMA StoredGrows ==
  ASSUME StoredInv, UNCHANGED returned, \A t \in Tables : buffer[t] \cup disk[t] \subseteq buffer'[t] \cup disk'[t]
  PROVE  ReturnedIsStored'
  BY DEF StoredInv, ReturnedIsStored, TableOf, Tables

\* A row of an answer is typed.
LEMMA RowsType ==
  ASSUME TypeOK, AnswerInv, Answer # None
  PROVE  /\ FirstSeq \in Nat \ {0} /\ Len(Answer.data) \in Nat /\ Answer.next = FirstSeq + Len(Answer.data)
         /\ Rows \in Seq(RowType) /\ Len(Rows) = Len(Answer.data)
         /\ \A i \in 1 .. Len(Rows) : /\ Rows[i].epoch = source /\ Rows[i].seq = FirstSeq + i - 1
                                      /\ Rows[i] \in RowsFor(TableOf(FirstSeq + i - 1))
         /\ \A t \in Tables : RowsFor(t) \subseteq RowType
  <1>1. GoodAnswer(Answer) /\ MaxSeq \in Nat \ {0} /\ MaxEpoch \in Nat \ {0}
    BY Bounds DEF AnswerInv
  <1>2. /\ Answer.data \in Seq(Tables) /\ Len(Answer.data) \in Nat
        /\ Answer.next \in Nat \ {0} /\ Answer.next <= MaxSeq + 1
    BY <1>1 DEF GoodAnswer, Seqs
  <1>3. FirstSeq \in Nat \ {0} /\ Answer.next = FirstSeq + Len(Answer.data)
    BY <1>1, <1>2 DEF GoodAnswer, FirstSeq
  <1>4. source \in 1 .. MaxEpoch
    BY <1>1 DEF TypeOK
  <1>5. ASSUME NEW i \in 1 .. Len(Answer.data)
        PROVE  [epoch |-> source, seq |-> FirstSeq + i - 1] \in RowType
    <2>1. FirstSeq + i - 1 \in 1 .. MaxSeq
      BY <1>1, <1>2, <1>3, <1>5
    <2> QED
      BY <1>4, <2>1 DEF RowType
  <1>6. Rows \in Seq(RowType) /\ Len(Rows) = Len(Answer.data)
    <2> DEFINE n == Len(Answer.data)
    <2>1. Rows = [i \in 1 .. n |-> [epoch |-> source, seq |-> FirstSeq + i - 1]]
      BY DEF Rows
    <2> HIDE DEF n
    <2> QED
      BY <1>2, <1>5, <2>1 DEF n
  <1>7. \A i \in 1 .. Len(Answer.data) : Answer.data[i] = TableOf(FirstSeq + i - 1)
    BY <1>1 DEF GoodAnswer, FirstSeq
  <1>8. ASSUME NEW i \in 1 .. Len(Rows)
        PROVE  /\ Rows[i].epoch = source /\ Rows[i].seq = FirstSeq + i - 1
               /\ Rows[i] \in RowsFor(TableOf(FirstSeq + i - 1))
    <2>1. i \in 1 .. Len(Answer.data) /\ Answer.data[i] = TableOf(FirstSeq + i - 1)
      BY <1>6, <1>7, <1>8
    <2>2. Rows[i] = [epoch |-> source, seq |-> FirstSeq + i - 1] /\ i \in DOMAIN Rows
      BY <2>1 DEF Rows
    <2> QED
      BY <2>1, <2>2 DEF RowsFor
  <1>9. \A t \in Tables : RowsFor(t) \subseteq RowType
    BY <1>6 DEF RowsFor
  <1> QED
    BY <1>2, <1>3, <1>6, <1>8, <1>9

-----------------------------------------------------------------------------
(* The steps of the agent. *)

LEMMA PushInv == ASSUME IndInv, Push PROVE IndInv'
  <1>1. PICK b \in Batches : b[1] = TableOf(next) /\ Agent!AppendBatch(b)
    BY DEF Push
  <1>2. /\ UNCHANGED <<asked, reply, epoch, nextSeq, phase, offset, buffer, disk, returned, skipped, base, source, faults>>
        /\ next \in Seqs /\ next \in Nat \ {0} /\ MaxSeq \in Nat \ {0} /\ Capacity \in Nat \ {0}
    BY <1>1, Bounds DEF Push, Agent!AppendBatch, store, ghosts, IndInv, TypeOK, Seqs
  <1>3. /\ Len(b) \in Nat \ {0} /\ \A i \in 1 .. Len(b) : b[i] = TableOf(next + i - 1)
    BY <1>1, <1>2, BatchTables
  <1>4. /\ next' = next + Len(b) /\ next' - 1 <= MaxSeq
        /\ window' = [s \in Agent!KeptAfter(next' - 1) |-> IF s < next THEN window[s] ELSE b[s - next + 1]]
    BY <1>1, <1>2, <1>3 DEF Agent!AppendBatch
  <1>5. next' \in Seqs /\ next <= next'
    BY <1>2, <1>3, <1>4 DEF Seqs
  <1>6. Answer' = Answer /\ FirstSeq' = FirstSeq /\ (\A t : RowsFor(t)' = RowsFor(t)) /\ Known' = Known
        /\ ReturnedOnceInOrder' = ReturnedOnceInOrder /\ Has' = Has /\ Asked' = Asked
    BY <1>2, SameAnswer, SameKnown, SameHas DEF Asked
  <1>7. TypeOK'
    BY <1>2, <1>5 DEF IndInv, TypeOK, Seqs, Requests
  <1>8. AgentInv'
    <2>1. ASSUME NEW s \in Agent!KeptAfter(next' - 1) PROVE window'[s] = TableOf(s)
      <3>1. s \in Nat \ {0} /\ s <= next' - 1 /\ s > next' - 1 - Capacity
        BY <1>2, <1>3, <1>4 DEF Agent!KeptAfter
      <3>2. CASE s < next
        BY <1>2, <1>3, <1>4, <3>1, <3>2 DEF IndInv, AgentInv, Agent!KeptAfter
      <3>3. CASE s >= next
        <4>1. s - next + 1 \in 1 .. Len(b) /\ next + (s - next + 1) - 1 = s
          BY <1>2, <1>3, <1>4, <3>1, <3>3
        <4>2. b[s - next + 1] = TableOf(s)
          BY <1>3, <4>1
        <4> QED
          BY <1>2, <1>4, <3>1, <3>3, <4>2
      <3> QED
        BY <1>2, <3>1, <3>2, <3>3
    <2> QED
      BY <1>2, <1>6, <2>1 DEF IndInv, AgentInv, Calling, Storing
  <1>9. AnswerInv'
    BY <1>2, <1>5, <1>6 DEF IndInv, AnswerInv, GoodAnswer, Seqs
  <1>10. OrderInv'
    <2>1. Has /\ source = epoch => nextSeq <= next'
      BY <1>2, <1>4, <1>5, Types DEF IndInv, OrderInv
    <2>2. Has /\ source = epoch /\ Asked # None => nextSeq <= Asked.seq /\ Asked.seq <= next'
      BY <1>2, <1>4, <1>5, Types DEF IndInv, OrderInv
    <2> QED
      BY <1>2, <1>6, <2>1, <2>2 DEF IndInv, OrderInv
  <1>11. PassedInv'
    <2>1. epoch = base => nextSeq = StartSeq \/ nextSeq <= next'
      BY <1>2, <1>4, <1>5, Types DEF IndInv, PassedInv
    <2>2. epoch = base /\ Asked # None => IF phase = "asking" THEN Asked.seq = nextSeq ELSE Asked.seq < next'
      BY <1>2, <1>4, <1>5, Types DEF IndInv, PassedInv
    <2> QED
      BY <1>2, <1>6, <2>1, <2>2 DEF IndInv, PassedInv
  <1>12. StoredInv'
    BY <1>2, <1>6 DEF IndInv, StoredInv, ReturnedIsStored, IsStored
  <1> QED
    BY <1>7, <1>8, <1>9, <1>10, <1>11, <1>12 DEF IndInv

LEMMA ServeInv == ASSUME IndInv, Serve PROVE IndInv'
  <1>1. /\ UNCHANGED <<next, window, epoch, nextSeq, phase, offset, buffer, disk, returned, skipped, base, faults>>
        /\ source' = epoch /\ Asked # None /\ Asked \in Requests
        /\ Asked' = None /\ Answer' = Agent!AnswerTo(Asked)
        /\ DOMAIN asked' = {"receiver"} /\ DOMAIN reply' = {"receiver"}
    BY DEF Serve, Agent!Answer, store, Asked, Answer, IndInv, AgentInv, TypeOK
  <1> DEFINE a == Agent!AnswerTo(Asked)
  <1>2. /\ GoodAnswer(a)
        /\ a.kind # "out_of_range" => a.next <= next /\ a.next - Len(a.data) = Asked.seq
        /\ a.latest # None => a.latest < next
        /\ a.kind = "empty" => Asked.seq = next /\ a.next = Asked.seq
        /\ a.kind = "out_of_range" /\ Asked.seq <= next /\ a.latest # None => Asked.seq < a.oldest
    BY <1>1, AnswerToIsGood DEF IndInv
  <1> HIDE DEF a
  <1>3. Calling /\ Answer' = a
    BY <1>1 DEF IndInv, AgentInv, a
  <1>4. Known' = Known /\ ReturnedOnceInOrder' = ReturnedOnceInOrder /\ FirstSeq' = a.next - Len(a.data)
    BY <1>1, <1>3, SameKnown DEF FirstSeq
  <1>5. /\ source <= epoch /\ base <= epoch /\ source \in Nat /\ epoch \in Nat /\ base \in Nat
        /\ next \in Nat /\ nextSeq \in Nat /\ Asked.seq \in Nat
    BY <1>1, Bounds DEF IndInv, TypeOK, Seqs, Requests
  <1>6. TypeOK'
    BY <1>1, <1>5 DEF IndInv, TypeOK, Requests, Asked, Seqs
  <1>7. AgentInv'
    BY <1>1, <1>3 DEF IndInv, AgentInv, Calling, Storing
  <1>8. AnswerInv'
    BY <1>1, <1>2, <1>3, <1>5 DEF IndInv, AnswerInv, GoodAnswer, Seqs
  <1>9. \A x \in Known : base <= x.epoch /\ x.epoch <= source /\ x.epoch \in Nat
    BY Types DEF IndInv, OrderInv
  <1>10. Has' => Has /\ source = epoch
    BY <1>1, <1>4, <1>5, <1>9 DEF Has
  <1>11. OrderInv'
    <2>1. \A x \in Known' : base' <= x.epoch /\ x.epoch <= source'
      BY <1>1, <1>4, <1>5, <1>9
    <2>2. \A x \in Known' : x.epoch = source' => x.seq < nextSeq'
      BY <1>1, <1>4, <1>5, <1>9 DEF IndInv, OrderInv
    <2>3. Has' => nextSeq <= Asked.seq /\ Asked.seq <= next
      BY <1>1, <1>10 DEF IndInv, OrderInv
    <2>4. Has' /\ a.kind # "out_of_range" => nextSeq <= FirstSeq'
      BY <1>2, <1>4, <2>3
    <2>5. Has' /\ a.kind = "out_of_range" /\ a.latest # None => nextSeq < a.oldest
      <3>1. a.latest # None => a.oldest \in Nat
        BY <1>2 DEF GoodAnswer
      <3> QED
        BY <1>2, <1>5, <2>3, <3>1
    <2>6. Has' => nextSeq <= next
      BY <1>5, <2>3
    <2> QED
      BY <1>1, <1>3, <1>4, <2>1, <2>2, <2>4, <2>5, <2>6 DEF IndInv, OrderInv
  <1>12. PassedInv'
    BY <1>1, <1>2, <1>3, <1>4, <1>5 DEF IndInv, PassedInv, Calling
  <1>13. StoredInv'
    BY <1>1, <1>3 DEF IndInv, StoredInv, ReturnedIsStored, Calling
  <1> QED
    BY <1>6, <1>7, <1>8, <1>11, <1>12, <1>13 DEF IndInv

LEMMA RestartAgentInv == ASSUME IndInv, RestartAgent PROVE IndInv'
  <1>1. /\ UNCHANGED <<reply, nextSeq, offset, buffer, disk, returned, skipped, base, source, faults>>
        /\ epoch < MaxEpoch /\ epoch' = epoch + 1 /\ next' = 1 /\ Asked' = None
        /\ phase' \in {"idle", phase} /\ DOMAIN asked' = {"receiver"} /\ DOMAIN reply' = {"receiver"}
    BY DEF RestartAgent, store, ghosts, Asked, IndInv, AgentInv
  <1>2. /\ Answer' = Answer /\ FirstSeq' = FirstSeq /\ (\A t : RowsFor(t)' = RowsFor(t)) /\ Known' = Known
        /\ ReturnedOnceInOrder' = ReturnedOnceInOrder /\ Has' = Has
    BY <1>1, SameAnswer, SameKnown, SameHas
  <1>3. source < epoch' /\ base < epoch'
    BY <1>1, Types DEF IndInv
  <1>4. TypeOK'
    BY <1>1, Bounds DEF IndInv, TypeOK, Seqs, Asked
  <1>5. AgentInv'
    <2>1. Agent!KeptAfter(next' - 1) = {}
      BY <1>1 DEF Agent!KeptAfter
    <2>2. Storing' => Storing
      BY <1>1 DEF Storing
    <2> QED
      BY <1>1, <1>2, <2>1, <2>2 DEF IndInv, AgentInv
  <1>6. AnswerInv'
    BY <1>1, <1>2, <1>3, Types DEF IndInv, AnswerInv, GoodAnswer, Seqs
  <1>7. OrderInv'
    BY <1>1, <1>2, <1>3, Types DEF IndInv, OrderInv
  <1>8. PassedInv'
    BY <1>1, <1>3, Types DEF IndInv, PassedInv
  <1>9. StoredInv'
    BY <1>1, <1>2 DEF IndInv, StoredInv, ReturnedIsStored, IsStored
  <1> QED
    BY <1>4, <1>5, <1>6, <1>7, <1>8, <1>9 DEF IndInv

-----------------------------------------------------------------------------
(* The steps of a call. *)

\* A request at or above next_seq, and within the window if the agent is the same.
LEMMA AskInv ==
  ASSUME IndInv, NEW seq \in Seqs, NEW wait \in BOOLEAN, Request(seq, wait),
         UNCHANGED <<epoch, nextSeq, store, ghosts, faults>>,
         phase' \in {"asking", "probing"}, offset' \in Nat \ {0},
         Has /\ source = epoch => nextSeq <= seq /\ seq <= next,
         epoch = base => IF phase' = "asking" THEN seq = nextSeq ELSE seq < next
  PROVE  IndInv'
  <1> DEFINE q == [seq |-> seq, limit |-> BatchSize, wait |-> wait]
  <1>1. /\ UNCHANGED <<next, window, epoch, nextSeq, buffer, disk, returned, skipped, base, source, faults>>
        /\ Asked' = q /\ Answer' = None
        /\ DOMAIN asked' = {"receiver"} /\ DOMAIN reply' = {"receiver"}
    BY DEF Request, Agent!Ask, store, ghosts, Asked, Answer, IndInv, AgentInv
  <1>2. Known' = Known /\ ReturnedOnceInOrder' = ReturnedOnceInOrder /\ Has' = Has
    BY <1>1, SameKnown, SameHas
  <1>3. q \in Requests /\ q.seq = seq
    BY DEF Requests
  <1> HIDE DEF q
  <1>4. TypeOK'
    BY <1>1, <1>3 DEF IndInv, TypeOK, Seqs, Requests, Asked
  <1>5. AgentInv'
    BY <1>1 DEF IndInv, AgentInv, Calling, Storing
  <1>6. AnswerInv'
    BY <1>1 DEF AnswerInv
  <1>7. OrderInv'
    BY <1>1, <1>2, <1>3 DEF IndInv, OrderInv
  <1>8. PassedInv'
    BY <1>1, <1>2, <1>3 DEF IndInv, PassedInv
  <1>9. StoredInv'
    BY <1>1 DEF IndInv, StoredInv, ReturnedIsStored
  <1> QED
    BY <1>4, <1>5, <1>6, <1>7, <1>8, <1>9 DEF IndInv

LEMMA ReceiveInv == ASSUME IndInv, Receive PROVE IndInv'
  <1>1. nextSeq \in Seqs
    BY Bounds DEF IndInv, TypeOK, Seqs
  <1>2. Has /\ source = epoch => nextSeq <= nextSeq /\ nextSeq <= next
    BY Types DEF IndInv, OrderInv
  <1>3. Request(nextSeq, TRUE) /\ UNCHANGED <<epoch, nextSeq, store, ghosts, faults>>
    BY DEF Receive
  <1>4. phase' = "asking" /\ offset' = 1
    BY DEF Receive
  <1>5. /\ phase' \in {"asking", "probing"} /\ offset' \in Nat \ {0} /\ TRUE \in BOOLEAN
        /\ epoch = base => IF phase' = "asking" THEN nextSeq = nextSeq ELSE nextSeq < next
    BY <1>4
  <1> QED
    BY <1>1, <1>2, <1>3, <1>5, AskInv

\* A candidate in the bounds of an answer lies ahead of next_seq.
LEMMA Candidate ==
  ASSUME IndInv, Answer # None, Calling, Answer.kind = "out_of_range", Answer.latest # None,
         NEW seq \in Nat \ {0}, seq <= Answer.latest, seq >= Answer.oldest - 1
  PROVE  /\ seq \in Seqs
         /\ Has /\ source = epoch => nextSeq <= seq /\ seq <= next
         /\ epoch = base => seq < next
  <1>1. /\ Answer.latest \in Nat /\ Answer.latest <= MaxSeq /\ Answer.oldest \in Nat /\ MaxSeq \in Nat
        /\ source = epoch => Answer.latest < next
        /\ base <= source
    BY Bounds DEF IndInv, AnswerInv, GoodAnswer
  <1>2. seq \in Seqs
    BY <1>1 DEF Seqs
  <1>3. Has => nextSeq < Answer.oldest
    BY DEF IndInv, OrderInv, Calling
  <1>4. epoch = base => source = epoch
    BY <1>1, Types DEF IndInv
  <1> QED
    BY <1>1, <1>2, <1>3, <1>4, Types DEF IndInv

LEMMA FirstProbeInv == ASSUME IndInv, FirstProbe PROVE IndInv'
  <1> DEFINE seq == Greatest(1, Answer.oldest - 1)
  <1>1. Answer # None /\ Calling /\ Answer.kind = "out_of_range" /\ Answer.latest # None
    BY DEF FirstProbe, Calling, IsCaughtUp
  <1>2. Answer.latest \in Nat \ {0} /\ Answer.oldest \in 1 .. Answer.latest
    BY <1>1 DEF IndInv, AnswerInv, GoodAnswer
  <1>3. seq \in Nat \ {0} /\ seq <= Answer.latest /\ seq >= Answer.oldest - 1
    BY <1>2 DEF Greatest
  <1>4. Request(seq, FALSE) /\ UNCHANGED <<epoch, nextSeq, store, ghosts, faults>>
    BY DEF FirstProbe
  <1>5. phase' = "probing" /\ offset' = 1
    BY DEF FirstProbe
  <1> HIDE DEF seq
  <1>6. /\ seq \in Seqs
        /\ Has /\ source = epoch => nextSeq <= seq /\ seq <= next
        /\ epoch = base => seq < next
    BY <1>1, <1>3, Candidate
  <1>7. /\ FALSE \in BOOLEAN /\ phase' \in {"asking", "probing"} /\ offset' \in Nat \ {0}
        /\ epoch = base => IF phase' = "asking" THEN seq = nextSeq ELSE seq < next
    BY <1>5, <1>6
  <1> QED
    BY <1>4, <1>6, <1>7, AskInv

LEMMA NextProbeInv == ASSUME IndInv, NextProbe PROVE IndInv'
  <1> DEFINE seq == Least(Answer.latest, Answer.oldest + offset)
  <1>1. Answer # None /\ Calling /\ Answer.kind = "out_of_range" /\ Answer.latest # None
    BY DEF NextProbe, Calling
  <1>2. Answer.latest \in Nat \ {0} /\ Answer.oldest \in 1 .. Answer.latest /\ offset \in Nat \ {0}
    BY <1>1 DEF IndInv, AnswerInv, GoodAnswer, TypeOK
  <1>3. seq \in Nat \ {0} /\ seq <= Answer.latest /\ seq >= Answer.oldest - 1
    BY <1>2 DEF Least
  <1>4. Request(seq, FALSE) /\ UNCHANGED <<epoch, nextSeq, store, ghosts, faults>>
    BY DEF NextProbe
  <1>5. phase' = "probing" /\ offset' = offset * 2
    BY DEF NextProbe
  <1> HIDE DEF seq
  <1>6. /\ seq \in Seqs
        /\ Has /\ source = epoch => nextSeq <= seq /\ seq <= next
        /\ epoch = base => seq < next
    BY <1>1, <1>3, Candidate
  <1>7. /\ FALSE \in BOOLEAN /\ phase' \in {"asking", "probing"} /\ offset' \in Nat \ {0}
        /\ epoch = base => IF phase' = "asking" THEN seq = nextSeq ELSE seq < next
    BY <1>2, <1>5, <1>6
  <1> QED
    BY <1>4, <1>6, <1>7, AskInv

\* A call ends without an answer that counts; what it has stored so far stays.
LEMMA EndedInv ==
  ASSUME IndInv, UNCHANGED <<next, window, epoch, nextSeq, offset, disk, ghosts>>, phase' = "idle",
         \/ UNCHANGED <<asked, reply>> /\ Asked = None
         \/ asked' = [asked EXCEPT !["receiver"] = None] /\ reply' = [reply EXCEPT !["receiver"] = None],
         buffer' \in [Tables -> SUBSET RowType], \A t \in Tables : buffer[t] \subseteq buffer'[t]
  PROVE  IndInv'
  <1>1. /\ UNCHANGED <<next, window, epoch, nextSeq, offset, disk, returned, skipped, base, source>>
        /\ Asked' = None /\ DOMAIN asked' = {"receiver"} /\ DOMAIN reply' = {"receiver"}
        /\ Answer' = None \/ Answer' = Answer
    BY DEF ghosts, Asked, Answer, IndInv, AgentInv
  <1>2. Known' = Known /\ ReturnedOnceInOrder' = ReturnedOnceInOrder /\ Has' = Has
    BY <1>1, SameKnown, SameHas
  <1>3. TypeOK'
    BY <1>1 DEF IndInv, TypeOK, Seqs, Asked
  <1>4. AgentInv'
    BY <1>1 DEF IndInv, AgentInv, Storing
  <1>5. AnswerInv'
    BY <1>1 DEF IndInv, AnswerInv, GoodAnswer, Seqs
  <1>6. OrderInv'
    BY <1>1, <1>2 DEF IndInv, OrderInv
  <1>7. PassedInv'
    BY <1>1, <1>2 DEF IndInv, PassedInv
  <1>8. StoredInv'
    BY <1>1, StoredGrows DEF IndInv, StoredInv
  <1> QED
    BY <1>3, <1>4, <1>5, <1>6, <1>7, <1>8 DEF IndInv

LEMMA ReturnEmptyInv == ASSUME IndInv, ReturnEmpty PROVE IndInv'
  BY EndedInv DEF ReturnEmpty, agent, store, IndInv, AgentInv, TypeOK

LEMMA GiveUpProbingInv == ASSUME IndInv, GiveUpProbing PROVE IndInv'
  BY EndedInv DEF GiveUpProbing, agent, store, IndInv, AgentInv, TypeOK

LEMMA PutFailsInv == ASSUME IndInv, PutFails PROVE IndInv'
  BY EndedInv DEF PutFails, agent, store, Calling, IndInv, AgentInv, TypeOK

LEMMA CallFailsInv == ASSUME IndInv, CallFails PROVE IndInv'
  BY EndedInv DEF CallFails, store, IndInv, TypeOK

LEMMA AppendFailsInv == ASSUME IndInv, NEW t \in Tables, AppendFails(t) PROVE IndInv'
  <1>1. phase = t /\ Asked = None /\ Answer # None
    BY DEF AppendFails, Tables, Calling, Storing, IndInv, AgentInv
  <1>2. RowsFor(t) \subseteq RowType
    BY <1>1, RowsType DEF IndInv
  <1>3. buffer' \in [Tables -> SUBSET RowType] /\ \A u \in Tables : buffer[u] \subseteq buffer'[u]
    BY <1>2 DEF AppendFails, IndInv, TypeOK
  <1>4. UNCHANGED <<next, window, epoch, nextSeq, offset, disk, ghosts>> /\ UNCHANGED <<asked, reply>> /\ phase' = "idle"
    BY DEF AppendFails, agent
  <1> QED
    BY <1>1, <1>3, <1>4, EndedInv

LEMMA AcceptInv == ASSUME IndInv, Accept PROVE IndInv'
  <1>1. /\ UNCHANGED <<next, window, asked, reply, epoch, nextSeq, offset, buffer, disk, returned, skipped, base, source>>
        /\ phase \in {"asking", "probing"} /\ phase' = "tick" /\ Answer # None /\ Answer.kind \in {"records", "empty"}
    BY DEF Accept, agent, store, ghosts, Calling
  <1>2. /\ Answer' = Answer /\ FirstSeq' = FirstSeq /\ Known' = Known /\ Asked' = Asked
        /\ ReturnedOnceInOrder' = ReturnedOnceInOrder /\ Has' = Has
    BY <1>1, SameAnswer, SameKnown, SameHas DEF Asked
  <1>3. Asked = None
    BY <1>1 DEF IndInv, AgentInv
  <1>4. TypeOK'
    BY <1>1 DEF IndInv, TypeOK
  <1>5. AgentInv'
    BY <1>1, <1>2, <1>3 DEF IndInv, AgentInv
  <1>6. AnswerInv'
    BY <1>1, <1>2 DEF IndInv, AnswerInv, GoodAnswer
  <1>7. OrderInv'
    BY <1>1, <1>2, <1>3 DEF IndInv, OrderInv
  <1>8. PassedInv'
    BY <1>1, <1>2, <1>3 DEF IndInv, PassedInv
  <1>9. StoredInv'
    BY <1>1 DEF IndInv, StoredInv, ReturnedIsStored
  <1> QED
    BY <1>4, <1>5, <1>6, <1>7, <1>8, <1>9 DEF IndInv

\* The rows of a table are in its buffer or its files once they have been appended.
LEMMA AppendRowsInv == ASSUME IndInv, NEW t \in Tables, AppendRows(t) PROVE IndInv'
  <1>1. /\ UNCHANGED <<next, window, asked, reply, epoch, nextSeq, offset, returned, skipped, base, source>>
        /\ phase = t /\ phase' = (IF t = "tick" THEN "bar" ELSE "returning")
        /\ phase \in {"tick", "bar"} /\ phase' \in {"bar", "returning"}
    BY DEF AppendRows, After, agent, ghosts, Tables
  <1>2. /\ Answer' = Answer /\ FirstSeq' = FirstSeq /\ (\A u : RowsFor(u)' = RowsFor(u)) /\ Known' = Known /\ Asked' = Asked
        /\ ReturnedOnceInOrder' = ReturnedOnceInOrder /\ Has' = Has
    BY <1>1, SameAnswer, SameKnown, SameHas DEF Asked
  <1>3. Answer # None /\ Answer.kind \in {"records", "empty"} /\ Asked = None
    BY <1>1 DEF IndInv, AgentInv, Storing, Calling
  <1>4. RowsFor(t) \subseteq RowType /\ buffer \in [Tables -> SUBSET RowType] /\ disk \in [Tables -> SUBSET RowType]
    BY <1>3, RowsType DEF IndInv, TypeOK
  <1>5. buffer' \in [Tables -> SUBSET RowType] /\ disk' \in [Tables -> SUBSET RowType]
    BY <1>4 DEF AppendRows
  <1>6. /\ \A u \in Tables : buffer[u] \cup disk[u] \subseteq buffer'[u] \cup disk'[u]
        /\ RowsFor(t) \subseteq buffer'[t] \cup disk'[t]
    BY <1>4 DEF AppendRows
  <1>7. TypeOK'
    BY <1>1, <1>5 DEF IndInv, TypeOK
  <1>8. AgentInv'
    BY <1>1, <1>2, <1>3 DEF IndInv, AgentInv
  <1>9. AnswerInv'
    BY <1>1, <1>2 DEF IndInv, AnswerInv, GoodAnswer
  <1>10. OrderInv'
    BY <1>1, <1>2, <1>3 DEF IndInv, OrderInv
  <1>11. PassedInv'
    BY <1>1, <1>2, <1>3 DEF IndInv, PassedInv
  <1>12. StoredInv'
    <2>1. ReturnedIsStored'
      BY <1>1, <1>6, StoredGrows DEF IndInv
    <2>2. phase' = "bar" => IsStored("tick")'
      BY <1>1, <1>2, <1>6 DEF IsStored
    <2>3. phase' = "returning" => IsStored("tick")' /\ IsStored("bar")'
      BY <1>1, <1>2, <1>6 DEF IsStored, IndInv, StoredInv, Tables
    <2> QED
      BY <1>1, <2>1, <2>2, <2>3 DEF StoredInv
  <1> QED
    BY <1>7, <1>8, <1>9, <1>10, <1>11, <1>12 DEF IndInv

\* What two sequences put together hold.
LEMMA Concatenation ==
  ASSUME NEW S, NEW p \in Seq(S), NEW q \in Seq(S)
  PROVE  /\ p \o q \in Seq(S) /\ Len(p \o q) = Len(p) + Len(q)
         /\ DOMAIN (p \o q) = 1 .. Len(p) + Len(q)
         /\ \A i \in 1 .. Len(p) : (p \o q)[i] = p[i]
         /\ \A i \in 1 .. Len(q) : (p \o q)[Len(p) + i] = q[i]
  <1>1. p \o q \in Seq(S) /\ Len(p \o q) = Len(p) + Len(q) /\ Len(p) \in Nat /\ Len(q) \in Nat
    OBVIOUS
  <1>2. DOMAIN (p \o q) = 1 .. Len(p) + Len(q)
    BY <1>1
  <1>3. \A i \in 1 .. Len(p) : (p \o q)[i] = p[i]
    OBVIOUS
  <1>4. \A i \in 1 .. Len(q) : (p \o q)[Len(p) + i] = q[i]
    OBVIOUS
  <1> QED
    BY <1>1, <1>2, <1>3, <1>4

\* What a result adds continues what has been returned, and what it leaves out is reported.
LEMMA ReturnInv == ASSUME IndInv, Return PROVE IndInv'
  <1>1. /\ UNCHANGED <<next, window, asked, reply, epoch, offset, buffer, disk, base, source>>
        /\ phase = "returning" /\ phase' = "idle" /\ nextSeq' = Answer.next
        /\ returned' = returned \o Rows /\ skipped' = skipped \cup Unread
    BY DEF Return, agent, store
  <1>2. Answer # None /\ Answer.kind \in {"records", "empty"} /\ Asked = None
    BY <1>1 DEF IndInv, AgentInv, Storing, Calling
  <1>3. GoodAnswer(Answer) /\ base <= source /\ (source = epoch => Answer.next <= next)
    BY <1>2 DEF IndInv, AnswerInv
  <1> DEFINE n == Len(returned)
             m == Len(Rows)
  <1>4. /\ FirstSeq \in Nat \ {0} /\ m \in Nat /\ Answer.next = FirstSeq + m
        /\ Rows \in Seq(RowType)
        /\ \A i \in 1 .. m : /\ Rows[i].epoch = source /\ Rows[i].seq = FirstSeq + i - 1
                             /\ Rows[i] \in RowsFor(TableOf(FirstSeq + i - 1))
        /\ m = Len(Answer.data)
    BY <1>2, RowsType DEF IndInv
  <1>5. /\ n \in Nat /\ returned \in Seq(RowType) /\ returned' \in Seq(RowType) /\ Len(returned') = n + m
        /\ DOMAIN returned' = 1 .. n + m /\ DOMAIN returned = 1 .. n
        /\ \A i \in 1 .. n : returned'[i] = returned[i]
        /\ \A i \in 1 .. m : returned'[n + i] = Rows[i]
    <2>1. returned \in Seq(RowType) /\ Rows \in Seq(RowType)
      BY <1>4 DEF IndInv, TypeOK
    <2>2. /\ returned \o Rows \in Seq(RowType) /\ Len(returned \o Rows) = n + m
          /\ DOMAIN (returned \o Rows) = 1 .. n + m
          /\ \A i \in 1 .. n : (returned \o Rows)[i] = returned[i]
          /\ \A i \in 1 .. m : (returned \o Rows)[n + i] = Rows[i]
      BY <2>1, Concatenation
    <2>3. n \in Nat /\ DOMAIN returned = 1 .. n
      BY <2>1
    <2>4. returned' = returned \o Rows
      BY <1>1
    <2> HIDE DEF n, m
    <2> QED
      BY <2>1, <2>2, <2>3, <2>4
  <1>6. /\ nextSeq \in Nat \ {0} /\ next \in Nat \ {0} /\ MaxSeq \in Nat /\ StartSeq \in Nat /\ source \in 1 .. MaxEpoch
        /\ Answer.next \in Seqs /\ Answer.next \in Nat \ {0} /\ Answer.next <= MaxSeq + 1
    BY <1>3, Types, Bounds DEF IndInv, TypeOK, GoodAnswer, Seqs
  <1>7. m = 0 <=> Answer.data = <<>>
    BY <1>3, <1>4 DEF GoodAnswer
  <1>8. \A x \in Unread : x \in RowType /\ x.epoch = source /\ m # 0 /\ x.seq >= nextSeq /\ x.seq < FirstSeq
    <2>1. CASE Answer.data = <<>>
      BY <2>1 DEF Unread
    <2>2. CASE Answer.data # <<>>
      <3>1. ASSUME NEW s \in nextSeq .. FirstSeq - 1 PROVE [epoch |-> source, seq |-> s] \in RowType
        <4>1. s \in 1 .. MaxSeq
          BY <1>4, <1>6, <1>7, <2>2
        <4> QED
          BY <1>6, <4>1 DEF RowType
      <3> QED
        BY <1>4, <1>6, <1>7, <2>2, <3>1 DEF Unread
    <2> QED
      BY <2>1, <2>2
  <1> HIDE DEF n, m
  <1>9. \A x \in Known' : \/ x \in Known
                          \/ x \in Unread
                          \/ \E i \in 1 .. m : x = Rows[i]
    <2>1. \A i \in 1 .. n + m : i \in 1 .. n \/ \E j \in 1 .. m : i = n + j
      <3> TAKE i \in 1 .. n + m
      <3>1. i \in 1 .. n \/ (i - n \in 1 .. m /\ i = n + (i - n))
        BY <1>4, <1>5
      <3> QED
        BY <3>1
    <2>2. \A i \in 1 .. n + m : returned'[i] \in Known \/ \E j \in 1 .. m : returned'[i] = Rows[j]
      BY <1>5, <2>1 DEF Known
    <2>3. Known' = (skipped \cup Unread) \cup {returned'[i] : i \in 1 .. n + m}
      BY <1>1, <1>5 DEF Known
    <2> QED
      BY <2>2, <2>3 DEF Known
  <1>10. /\ Known \subseteq Known' /\ Unread \subseteq Known'
         /\ \A i \in 1 .. m : Rows[i] \in Known'
    <2>1. \A i \in 1 .. n : i \in 1 .. n + m
      BY <1>4, <1>5
    <2>2. \A i \in 1 .. m : n + i \in 1 .. n + m
      BY <1>4, <1>5
    <2> QED
      BY <1>1, <1>5, <2>1, <2>2 DEF Known
  <1>11. TypeOK'
    <2>1. skipped' \subseteq RowType
      BY <1>1, <1>8 DEF IndInv, TypeOK
    <2> QED
      BY <1>1, <1>5, <1>6, <2>1 DEF IndInv, TypeOK
  <1>12. AgentInv'
    BY <1>1, <1>2 DEF IndInv, AgentInv, Answer, Asked, Storing
  <1>13. AnswerInv'
    BY <1>1 DEF IndInv, AnswerInv, Answer, GoodAnswer
  <1>14. Has => nextSeq <= FirstSeq
    BY <1>1, <1>2 DEF IndInv, OrderInv
  <1>15. OrderInv'
    <2>1. \A x \in Known' : base <= x.epoch /\ x.epoch <= source
      BY <1>3, <1>4, <1>6, <1>8, <1>9, Types DEF IndInv, OrderInv
    <2>2. \A x \in Known : x.epoch = source => x.seq < FirstSeq /\ x.seq \in Nat
      BY <1>4, <1>6, <1>14, Types DEF IndInv, OrderInv, Has
    <2>3. \A x \in Known' : x.epoch = source => x.seq < Answer.next
      <3> SUFFICES ASSUME NEW x \in Known', x.epoch = source PROVE x.seq < Answer.next
        OBVIOUS
      <3>1. CASE x \in Known
        BY <1>4, <1>6, <2>2, <3>1
      <3>2. CASE x \in Unread
        <4>1. x.seq < FirstSeq /\ x.seq \in Nat
          BY <1>8, <3>2 DEF RowType
        <4> QED
          BY <1>4, <4>1
      <3>3. CASE \E i \in 1 .. m : x = Rows[i]
        <4>1. PICK i \in 1 .. m : x = Rows[i]
          BY <3>3
        <4>2. x.seq = FirstSeq + i - 1
          BY <1>4, <4>1
        <4> QED
          BY <1>4, <4>2
      <3> QED
        BY <1>9, <3>1, <3>2, <3>3
    <2>4. ReturnedOnceInOrder'
      <3> SUFFICES ASSUME NEW i \in 1 .. n + m - 1
                   PROVE  Before(returned'[i], returned'[i + 1])
        BY <1>4, <1>5 DEF ReturnedOnceInOrder, Before
      <3>1. CASE i < n
        <4>1. i \in 1 .. n - 1 /\ i \in 1 .. n /\ i + 1 \in 1 .. n
          BY <1>4, <1>5, <3>1
        <4>2. Before(returned[i], returned[i + 1])
          BY <4>1 DEF IndInv, OrderInv, ReturnedOnceInOrder, n
        <4> QED
          BY <1>5, <4>1, <4>2
      <3>2. CASE i = n
        <4>1. n \in 1 .. n /\ 1 \in 1 .. m /\ n + 1 = i + 1
          BY <1>4, <1>5, <3>2
        <4>2. returned'[i] = returned[n] /\ returned'[i + 1] = Rows[1]
          BY <1>5, <3>2, <4>1
        <4>3. returned[n] \in Known
          BY <4>1 DEF Known, n
        <4>4. Rows[1].epoch = source /\ Rows[1].seq = FirstSeq
          BY <1>4, <4>1
        <4>5. returned[n].epoch < source \/ (returned[n].epoch = source /\ returned[n].seq < FirstSeq)
          BY <1>6, <2>2, <4>3, Types DEF IndInv, OrderInv
        <4> QED
          BY <4>2, <4>4, <4>5 DEF Before
      <3>3. CASE i > n
        <4>1. i - n \in 1 .. m /\ i - n + 1 \in 1 .. m /\ n + (i - n) = i /\ n + (i - n + 1) = i + 1
          BY <1>4, <1>5, <3>3
        <4>2. returned'[i] = Rows[i - n] /\ returned'[i + 1] = Rows[i - n + 1]
          BY <1>5, <4>1
        <4>3. /\ Rows[i - n].epoch = source /\ Rows[i - n].seq = FirstSeq + (i - n) - 1
              /\ Rows[i - n + 1].epoch = source /\ Rows[i - n + 1].seq = FirstSeq + (i - n + 1) - 1
          BY <1>4, <4>1
        <4> QED
          BY <1>4, <1>5, <4>2, <4>3 DEF Before
      <3> QED
        BY <1>4, <1>5, <3>1, <3>2, <3>3
    <2> QED
      BY <1>1, <1>2, <1>3, <2>1, <2>3, <2>4 DEF OrderInv, Asked
  <1>16. PassedInv'
    <2> SUFFICES ASSUME epoch = base
                 PROVE  /\ Answer.next <= next
                        /\ \A s \in StartSeq .. Answer.next - 1 : \E x \in Known' : x.seq = s
      BY <1>1, <1>2 DEF PassedInv, Asked
    <2>1. Answer.next <= next
      BY <1>3, Types DEF IndInv
    <2>2. ASSUME NEW s \in StartSeq .. Answer.next - 1 PROVE \E x \in Known' : x.seq = s
      <3>1. CASE s < nextSeq
        <4>1. s \in StartSeq .. nextSeq - 1
          BY <1>6, <3>1
        <4> QED
          BY <1>10, <4>1 DEF IndInv, PassedInv
      <3>2. CASE s >= nextSeq /\ s < FirstSeq
        <4>1. Answer.data # <<>>
          <5>1. Answer.data = <<>> => Answer.kind = "empty"
            BY <1>2, <1>3 DEF GoodAnswer
          <5>2. Answer.kind = "empty" => Answer.next = nextSeq
            BY <1>1, <1>2 DEF IndInv, PassedInv
          <5> QED
            BY <1>4, <1>6, <1>7, <3>2, <5>1, <5>2
        <4>2. s \in nextSeq .. FirstSeq - 1
          BY <1>4, <1>6, <3>2
        <4>3. [epoch |-> source, seq |-> s] \in Unread
          BY <4>1, <4>2 DEF Unread
        <4> QED
          BY <1>10, <4>3
      <3>3. CASE s >= FirstSeq
        <4>1. s - FirstSeq + 1 \in 1 .. m /\ FirstSeq + (s - FirstSeq + 1) - 1 = s
          BY <1>4, <1>6, <3>3
        <4> QED
          BY <1>4, <1>10, <4>1
      <3> QED
        BY <1>4, <1>6, <3>1, <3>2, <3>3
    <2> QED
      BY <2>1, <2>2
  <1>17. StoredInv'
    <2> SUFFICES ASSUME NEW i \in 1 .. n + m
                 PROVE  returned'[i] \in buffer[TableOf(returned'[i].seq)] \cup disk[TableOf(returned'[i].seq)]
      <3>1. (\A i \in 1 .. n + m :
               returned'[i] \in buffer[TableOf(returned'[i].seq)] \cup disk[TableOf(returned'[i].seq)])
            => ReturnedIsStored'
        BY <1>1, <1>5 DEF ReturnedIsStored, TableOf
      <3> QED
        BY <1>1, <3>1 DEF StoredInv
    <2>1. CASE i <= n
      <3>1. i \in 1 .. n /\ i \in DOMAIN returned
        BY <1>5, <2>1 DEF n
      <3> QED
        BY <1>5, <3>1 DEF IndInv, StoredInv, ReturnedIsStored
    <2>2. CASE i > n
      <3>1. i - n \in 1 .. m /\ n + (i - n) = i
        BY <1>4, <1>5, <2>2
      <3>2. returned'[i] = Rows[i - n] /\ returned'[i].seq = FirstSeq + (i - n) - 1
        BY <1>4, <1>5, <3>1
      <3>3. FirstSeq + (i - n) - 1 \in Nat
        BY <1>4, <1>5, <3>1
      <3>4. returned'[i] \in RowsFor(TableOf(returned'[i].seq)) /\ TableOf(returned'[i].seq) \in Tables
        BY <1>4, <3>1, <3>2, <3>3, TableOfType
      <3> QED
        BY <1>1, <3>4 DEF IndInv, StoredInv, IsStored, Tables
    <2> QED
      BY <1>5, <2>1, <2>2
  <1> QED
    BY <1>11, <1>12, <1>13, <1>15, <1>16, <1>17 DEF IndInv

\* A new receiver has returned nothing, and what comes to it comes from the agent as it is.
LEMMA NewReceiverInv ==
  ASSUME IndInv, NewReceiver, buffer' \in [Tables -> SUBSET RowType], disk' \in [Tables -> SUBSET RowType]
  PROVE  IndInv'
  <1>1. /\ UNCHANGED <<next, window, epoch, offset, source>>
        /\ nextSeq' = StartSeq /\ returned' = <<>> /\ skipped' = {} /\ base' = epoch /\ phase' = "idle"
    BY DEF NewReceiver
  <1>2. /\ Asked' = None /\ Answer' = None
        /\ DOMAIN asked' = {"receiver"} /\ DOMAIN reply' = {"receiver"}
    BY DEF NewReceiver, Asked, Answer, IndInv, AgentInv
  <1>3. Known' = {} /\ ~Has'
    BY <1>1 DEF Known, Has
  <1>4. TypeOK'
    <2>1. returned' \in Seq(RowType) /\ skipped' \subseteq RowType /\ nextSeq' \in Seqs \cup {StartSeq}
      BY <1>1
    <2> QED
      BY <1>1, <1>2, <2>1 DEF IndInv, TypeOK, Asked
  <1>5. AgentInv'
    BY <1>1, <1>2 DEF IndInv, AgentInv, Storing
  <1>6. AnswerInv'
    BY <1>2 DEF AnswerInv
  <1>7. OrderInv'
    BY <1>1, <1>2, <1>3 DEF OrderInv, ReturnedOnceInOrder
  <1>8. PassedInv'
    BY <1>1, <1>2, Bounds DEF PassedInv, Seqs
  <1>9. StoredInv'
    BY <1>1 DEF StoredInv, ReturnedIsStored
  <1> QED
    BY <1>4, <1>5, <1>6, <1>7, <1>8, <1>9 DEF IndInv

LEMMA RestartPlatformInv == ASSUME IndInv, RestartPlatform PROVE IndInv'
  BY NewReceiverInv DEF RestartPlatform, IndInv, TypeOK

LEMMA CrashPlatformInv == ASSUME IndInv, CrashPlatform PROVE IndInv'
  BY NewReceiverInv DEF CrashPlatform, IndInv, TypeOK

-----------------------------------------------------------------------------
(* The theorems. *)

LEMMA InitInv == Init => IndInv
  <1> SUFFICES ASSUME Init PROVE IndInv
    OBVIOUS
  <1>1. /\ next = 1 /\ epoch = 1 /\ nextSeq = StartSeq /\ phase = "idle" /\ offset = 1 /\ base = 1 /\ source = 1
        /\ returned = <<>> /\ skipped = {}
    BY DEF Init, Agent!Init
  <1>2. /\ Asked = None /\ Answer = None
        /\ DOMAIN asked = {"receiver"} /\ DOMAIN reply = {"receiver"}
    BY DEF Init, Agent!Init, Asked, Answer
  <1>3. Known = {} /\ ~Has
    BY <1>1 DEF Known, Has
  <1>4. TypeOK
    <2>1. returned \in Seq(RowType) /\ skipped \subseteq RowType /\ nextSeq \in Seqs \cup {StartSeq}
      BY <1>1
    <2>2. 1 \in Seqs /\ 1 \in 1 .. MaxEpoch /\ {base, source} \subseteq 1 .. epoch /\ 1 \in Nat \ {0}
      BY <1>1, Bounds DEF Seqs
    <2>3. buffer \in [Tables -> SUBSET RowType] /\ disk \in [Tables -> SUBSET RowType]
      BY DEF Init
    <2> QED
      BY <1>1, <1>2, <2>1, <2>2, <2>3 DEF TypeOK, Asked
  <1>5. AgentInv
    <2>1. \A s : s \notin Agent!KeptAfter(next - 1)
      BY <1>1 DEF Agent!KeptAfter
    <2> QED
      BY <1>1, <1>2, <2>1 DEF AgentInv, Storing
  <1>6. AnswerInv
    BY <1>2 DEF AnswerInv
  <1>7. OrderInv
    BY <1>1, <1>2, <1>3 DEF OrderInv, ReturnedOnceInOrder
  <1>8. PassedInv
    BY <1>1, <1>2, Bounds DEF PassedInv, Seqs
  <1>9. StoredInv
    BY <1>1 DEF StoredInv, ReturnedIsStored
  <1> QED
    BY <1>4, <1>5, <1>6, <1>7, <1>8, <1>9 DEF IndInv

LEMMA NextInv == IndInv /\ [Next]_vars => IndInv'
  <1> SUFFICES ASSUME IndInv, [Next]_vars PROVE IndInv'
    OBVIOUS
  <1>1. CASE Push
    BY <1>1, PushInv
  <1>2. CASE Serve
    BY <1>2, ServeInv
  <1>3. CASE RestartAgent
    BY <1>3, RestartAgentInv
  <1>4. CASE Receiver
    BY <1>4, ReceiveInv, ReturnEmptyInv, FirstProbeInv, NextProbeInv, GiveUpProbingInv, AcceptInv,
       AppendRowsInv, ReturnInv DEF Receiver
  <1>5. CASE CallFails
    BY <1>5, CallFailsInv
  <1>6. CASE \E t \in Tables : AppendFails(t)
    BY <1>6, AppendFailsInv
  <1>7. CASE PutFails
    BY <1>7, PutFailsInv
  <1>8. CASE RestartPlatform
    BY <1>8, RestartPlatformInv
  <1>9. CASE CrashPlatform
    BY <1>9, CrashPlatformInv
  <1>10. CASE UNCHANGED vars
    <2>1. UNCHANGED <<next, window, asked, reply, epoch, nextSeq, phase, offset, buffer, disk,
                      returned, skipped, base, source>>
      BY <1>10 DEF vars
    <2>2. /\ Answer' = Answer /\ FirstSeq' = FirstSeq /\ (\A u : RowsFor(u)' = RowsFor(u)) /\ Known' = Known
          /\ Asked' = Asked /\ ReturnedOnceInOrder' = ReturnedOnceInOrder /\ Has' = Has
      BY <2>1, SameAnswer, SameKnown, SameHas DEF Asked
    <2>3. TypeOK' /\ AgentInv'
      BY <2>1, <2>2 DEF IndInv, TypeOK, AgentInv, Storing, Calling
    <2>4. AnswerInv'
      BY <2>1, <2>2 DEF IndInv, AnswerInv, GoodAnswer
    <2>5. OrderInv'
      BY <2>1, <2>2 DEF IndInv, OrderInv
    <2>6. PassedInv'
      BY <2>1, <2>2 DEF IndInv, PassedInv
    <2>7. StoredInv'
      BY <2>1, <2>2 DEF IndInv, StoredInv, IsStored, ReturnedIsStored
    <2> QED
      BY <2>3, <2>4, <2>5, <2>6, <2>7 DEF IndInv
  <1> QED
    BY <1>1, <1>2, <1>3, <1>4, <1>5, <1>6, <1>7, <1>8, <1>9, <1>10 DEF Next

\* The invariant of the receiver and the agent together.
THEOREM Invariance == Spec => []IndInv
  BY InitInv, NextInv, PTL DEF Spec

\* Whatever fails or restarts, receive returns each quote of an incarnation of the agent at
\* most once, in the agent's order, and never before the store has it.
THEOREM QuotesDeliveredOnce == Spec => []DeliveredOnce
  <1>1. IndInv => DeliveredOnce
    BY DEF IndInv, OrderInv, StoredInv, DeliveredOnce
  <1> QED
    BY <1>1, Invariance, PTL

\* While the agent is not restarted, receive passes over no quote without reporting it,
\* however often calls fail and however far it has fallen behind, and comes back to none.
THEOREM NoQuotePassedOver == Spec => []NothingPassedOver
  <1>1. IndInv => NothingPassedOver
    <2> SUFFICES ASSUME IndInv, epoch = base
                 PROVE  /\ \A s \in StartSeq .. nextSeq - 1 : s < next => \E x \in Known : x.seq = s
                        /\ \A x \in Known : x.seq < nextSeq
      BY DEF NothingPassedOver
    <2>1. \A s \in StartSeq .. nextSeq - 1 : \E x \in Known : x.seq = s
      BY DEF IndInv, PassedInv
    <2>2. source <= base /\ base \in Nat /\ source \in Nat
      BY Types DEF IndInv, TypeOK
    <2>3. \A x \in Known : x.epoch = source
      BY <2>2, Types DEF IndInv, OrderInv, RowType
    <2> QED
      BY <2>1, <2>3 DEF IndInv, OrderInv
  <1> QED
    BY <1>1, Invariance, PTL
=============================================================================
