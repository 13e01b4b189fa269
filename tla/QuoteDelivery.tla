--------------------------- MODULE QuoteDelivery ---------------------------
(***************************************************************************)
(* qmt_receiver/receiver.py reading the agent's sequenced quotes over HTTP *)
(* and storing them: polling, the 416 answers, the probing that follows,   *)
(* the two realtime tables, and what a failed call, an agent restart or a  *)
(* crash of the platform leaves behind.                                    *)
(*                                                                         *)
(* The agent is the sliding window of QuoteWindow, which its ring has been *)
(* shown to implement; the payload of a quote is the table it belongs to.  *)
(* A table is its buffered rows and its rows on disk (PartitionTable and   *)
(* ParquetStore have it in detail).  A row is the incarnation and the     *)
(* sequence number it came with; rows have different business keys.       *)
(***************************************************************************)
EXTENDS Integers, Sequences, QuoteBounds

CONSTANTS
  BatchSize, \* batch_size, the most quotes one call asks for
  StartSeq,  \* start_seq, where every new receiver begins
  MaxPush,   \* bound: quotes in one push
  MaxEpoch,  \* bound: agent incarnations
  MaxFaults  \* bound: failed calls, crashes and restarts of the platform

ASSUME BoundsAssumption ==
  /\ {BatchSize, StartSeq, MaxPush, MaxSeq, MaxEpoch} \subseteq Nat \ {0} /\ MaxFaults \in Nat
  /\ StartSeq <= MaxSeq + 1

VARIABLES
  next, window, asked, reply, \* the agent, as in QuoteWindow
  epoch,    \* which agent incarnation runs
  nextSeq,  \* _next_seq
  phase,    \* where the platform's call of receive is
  offset,   \* the probe's offset
  buffer,   \* table -> rows appended and not flushed
  disk,     \* table -> rows in committed files
  returned, \* ghost: the rows this receiver has returned, in order
  skipped,  \* ghost: the rows it has reported as skipped
  base,     \* ghost: the agent incarnation it started with
  source,   \* ghost: the incarnation that gave the last answer
  faults    \* how many faults have happened

agent == <<next, window, asked, reply>>
store == <<buffer, disk>>
ghosts == <<returned, skipped, base, source>>
vars == <<next, window, asked, reply, epoch, nextSeq, phase, offset, buffer, disk,
          returned, skipped, base, source, faults>>

Tables == {"tick", "bar"}
Seqs == 1 .. MaxSeq + 1
Requests == [seq : Seqs, limit : {BatchSize}, wait : BOOLEAN]
\* Ticks and bars alternate, so that a batch of two goes to both tables.
TableOf(s) == IF s % 2 = 1 THEN "tick" ELSE "bar"
Batches == {[i \in 1 .. n |-> TableOf(i + k)] : n \in 1 .. MaxPush, k \in 0 .. 1}

Agent == INSTANCE QuoteWindow WITH Readers <- {"receiver"}

Init ==
  /\ Agent!Init
  /\ epoch = 1
  /\ nextSeq = StartSeq
  /\ phase = "idle"
  /\ offset = 1
  /\ buffer = [t \in Tables |-> {}]
  /\ disk = [t \in Tables |-> {}]
  /\ returned = <<>>
  /\ skipped = {}
  /\ base = 1
  /\ source = 1
  /\ faults = 0

-----------------------------------------------------------------------------
(* The agent. *)

Push ==
  /\ \E b \in Batches : b[1] = TableOf(next) /\ Agent!AppendBatch(b)
  /\ UNCHANGED <<epoch, nextSeq, phase, offset, store, ghosts, faults>>

Serve ==
  /\ Agent!Answer("receiver")
  /\ source' = epoch
  /\ UNCHANGED <<epoch, nextSeq, phase, offset, store, returned, skipped, base, faults>>

Calling == phase \in {"asking", "probing"}

\* The process restarts: an empty window, numbers from 1.  A request under way
\* fails; an answer the receiver already has is used.
RestartAgent ==
  /\ epoch < MaxEpoch
  /\ epoch' = epoch + 1
  /\ next' = 1 /\ window' = [s \in Agent!KeptAfter(0) |-> None]
  /\ asked' = [asked EXCEPT !["receiver"] = None]
  /\ phase' = IF Calling /\ reply["receiver"] = None THEN "idle" ELSE phase
  /\ UNCHANGED <<reply, nextSeq, offset, store, ghosts, faults>>

-----------------------------------------------------------------------------
(* One call of receive. *)

Answer == reply["receiver"]

\* Sends a request for `seq`; the first one of a call may wait at the agent.
Request(seq, wait) ==
  Agent!Ask("receiver", [seq |-> seq, limit |-> BatchSize, wait |-> wait])

Receive ==
  /\ phase = "idle"
  /\ Request(nextSeq, TRUE)
  /\ phase' = "asking"
  /\ offset' = 1
  /\ UNCHANGED <<epoch, nextSeq, store, ghosts, faults>>

\* _is_caught_up
IsCaughtUp(seq) == Answer.latest # None => seq = Answer.latest + 1

\* A 416 that means "caught up": nothing to return.
ReturnEmpty ==
  /\ phase = "asking" /\ Answer # None
  /\ Answer.kind = "out_of_range" /\ IsCaughtUp(nextSeq)
  /\ phase' = "idle"
  /\ UNCHANGED <<agent, epoch, nextSeq, offset, store, ghosts, faults>>

Least(a, b) == IF a < b THEN a ELSE b
Greatest(a, b) == IF a < b THEN b ELSE a

\* The first candidate of _probe_available_sequence.
FirstProbe ==
  /\ phase = "asking" /\ Answer # None
  /\ Answer.kind = "out_of_range" /\ ~IsCaughtUp(nextSeq)
  /\ Request(Greatest(1, Answer.oldest - 1), FALSE)
  /\ phase' = "probing"
  /\ offset' = 1
  /\ UNCHANGED <<epoch, nextSeq, store, ghosts, faults>>

\* Mutant: a refused candidate is replaced by oldest - 1 again.
NextProbeSame ==
  /\ phase = "probing" /\ Answer # None
  /\ Answer.kind = "out_of_range" /\ Answer.latest # None
  /\ Request(Greatest(1, Answer.oldest - 1), FALSE)
  /\ UNCHANGED <<epoch, nextSeq, phase, offset, store, ghosts, faults>>

\* A refused candidate: the next one lies ever further into the window.
NextProbe ==
  /\ phase = "probing" /\ Answer # None
  /\ Answer.kind = "out_of_range" /\ Answer.latest # None
  /\ Request(Least(Answer.latest, Answer.oldest + offset), FALSE)
  /\ offset' = offset * 2
  /\ UNCHANGED <<epoch, nextSeq, phase, store, ghosts, faults>>

GiveUpProbing ==
  /\ phase = "probing" /\ Answer # None
  /\ Answer.kind = "out_of_range" /\ Answer.latest = None
  /\ phase' = "idle"
  /\ UNCHANGED <<agent, epoch, nextSeq, offset, store, ghosts, faults>>

\* A batch, possibly empty, for the first request or for a candidate: it goes to
\* the store.
Accept ==
  /\ Calling /\ Answer # None
  /\ Answer.kind \in {"records", "empty"}
  /\ phase' = "tick"
  /\ UNCHANGED <<agent, epoch, nextSeq, offset, store, ghosts, faults>>

FirstSeq == Answer.next - Len(Answer.data)
\* The rows of the payload, in order, and those of one table.
Rows == [i \in 1 .. Len(Answer.data) |-> [epoch |-> source, seq |-> FirstSeq + i - 1]]
RowsFor(t) == {Rows[i] : i \in {j \in DOMAIN Rows : Answer.data[j] = t}}

\* Mutant: a batch with ticks does not get to the bars.
AfterEither(t) == IF t = "tick" /\ RowsFor(t) = {} THEN "bar" ELSE "returning"

After(t) == IF t = "tick" THEN "bar" ELSE "returning"

\* append_quotes appends the ticks and then the bars, one store call each; a
\* call without rows is not made.  The store may flush when its limit is reached.
AppendRows(t) ==
  /\ phase = t
  /\ \/ buffer' = [buffer EXCEPT ![t] = @ \cup RowsFor(t)] /\ UNCHANGED disk
     \/ /\ RowsFor(t) # {}
        /\ disk' = [disk EXCEPT ![t] = @ \cup buffer[t] \cup RowsFor(t)]
        /\ buffer' = [buffer EXCEPT ![t] = {}]
  /\ phase' = After(t)
  /\ UNCHANGED <<agent, epoch, nextSeq, offset, ghosts, faults>>

\* The rows that the result reports as skipped.
Unread == IF Answer.data = <<>> THEN {} ELSE {[epoch |-> source, seq |-> s] : s \in nextSeq .. FirstSeq - 1}

\* The events are queued, the next number kept and the result returned.
Return ==
  /\ phase = "returning"
  /\ nextSeq' = Answer.next
  /\ returned' = returned \o Rows
  /\ skipped' = skipped \cup Unread
  /\ phase' = "idle"
  /\ UNCHANGED <<agent, epoch, offset, store, base, source, faults>>

-----------------------------------------------------------------------------
(* Faults. *)

\* The HTTP call fails: the request or the answer is lost, or not understood.
CallFails ==
  /\ Calling /\ faults < MaxFaults
  /\ asked' = [asked EXCEPT !["receiver"] = None]
  /\ reply' = [reply EXCEPT !["receiver"] = None]
  /\ phase' = "idle"
  /\ faults' = faults + 1
  /\ UNCHANGED <<next, window, epoch, nextSeq, offset, store, ghosts>>

\* append raises before or after it has buffered the rows (its flush failed).
AppendFails(t) ==
  /\ phase = t /\ RowsFor(t) # {} /\ faults < MaxFaults
  /\ buffer' \in {buffer, [buffer EXCEPT ![t] = @ \cup RowsFor(t)]}
  /\ phase' = "idle"
  /\ faults' = faults + 1
  /\ UNCHANGED <<agent, epoch, nextSeq, offset, disk, ghosts>>

\* Mutant: next_seq is kept before the events are queued.
PutFailsAdvanced ==
  /\ phase = "returning" /\ Rows # <<>> /\ faults < MaxFaults
  /\ phase' = "idle"
  /\ nextSeq' = Answer.next
  /\ faults' = faults + 1
  /\ UNCHANGED <<agent, epoch, offset, store, ghosts>>

\* The platform's queue refuses an event: receive raises, nextSeq stays.
PutFails ==
  /\ phase = "returning" /\ Rows # <<>> /\ faults < MaxFaults
  /\ phase' = "idle"
  /\ faults' = faults + 1
  /\ UNCHANGED <<agent, epoch, nextSeq, offset, store, ghosts>>

\* A new receiver on the same data: compacts what is on disk, begins at StartSeq.
NewReceiver ==
  /\ nextSeq' = StartSeq
  /\ returned' = <<>> /\ skipped' = {} /\ base' = epoch
  /\ phase' = "idle"
  /\ asked' = [asked EXCEPT !["receiver"] = None]
  /\ reply' = [reply EXCEPT !["receiver"] = None]
  /\ UNCHANGED <<next, window, epoch, offset, source>>

\* The store's context exits and flushes; the platform starts again.
RestartPlatform ==
  /\ phase = "idle" /\ faults < MaxFaults
  /\ disk' = [t \in Tables |-> disk[t] \cup buffer[t]]
  /\ buffer' = [t \in Tables |-> {}]
  /\ faults' = faults + 1
  /\ NewReceiver

\* The platform dies: what was only buffered is gone.
CrashPlatform ==
  /\ faults < MaxFaults
  /\ buffer' = [t \in Tables |-> {}]
  /\ faults' = faults + 1
  /\ NewReceiver
  /\ UNCHANGED disk

Receiver ==
  \/ Receive \/ ReturnEmpty \/ FirstProbe \/ NextProbe \/ GiveUpProbing \/ Accept
  \/ (\E t \in Tables : AppendRows(t)) \/ Return

Next ==
  \/ Push \/ Serve \/ RestartAgent \/ Receiver
  \/ CallFails \/ (\E t \in Tables : AppendFails(t)) \/ PutFails
  \/ RestartPlatform \/ CrashPlatform

Spec == Init /\ [][Next]_vars

\* The platform keeps calling receive and the agent answers every request.
FairSpec == Spec /\ WF_vars(Receiver) /\ WF_vars(Serve)
-----------------------------------------------------------------------------
RowType == [epoch : 1 .. MaxEpoch, seq : 1 .. MaxSeq]

\* The variables have the types the code declares.
TypeOK ==
  /\ next \in Seqs /\ nextSeq \in Seqs \cup {StartSeq}
  /\ epoch \in 1 .. MaxEpoch /\ {base, source} \subseteq 1 .. epoch
  /\ phase \in {"idle", "asking", "probing", "tick", "bar", "returning"}
  /\ offset \in Nat \ {0}
  /\ asked["receiver"] \in Requests \cup {None}
  /\ buffer \in [Tables -> SUBSET RowType] /\ disk \in [Tables -> SUBSET RowType]
  /\ returned \in Seq(RowType) /\ skipped \subseteq RowType

Before(x, y) == x.epoch < y.epoch \/ (x.epoch = y.epoch /\ x.seq < y.seq)

\* One receiver returns every quote at most once and in the agent's order,
\* whatever calls fail, are repeated or probe, and also when the agent restarts.
ReturnedOnceInOrder ==
  \A i \in 1 .. Len(returned) - 1 : Before(returned[i], returned[i + 1])

\* A quote the receiver has returned is in the store: its table's buffer or disk.
ReturnedIsStored ==
  \A i \in DOMAIN returned :
    LET t == TableOf(returned[i].seq) IN returned[i] \in buffer[t] \cup disk[t]

\* What the receiver has returned it has returned once, and stored.
DeliveredOnce == TypeOK /\ ReturnedOnceInOrder /\ ReturnedIsStored

\* The quotes that this receiver has returned or reported as skipped.
Known == skipped \cup {returned[i] : i \in DOMAIN returned}

\* As long as the agent does not restart, no quote below next_seq disappears
\* without a word, it has been returned or reported as skipped; and what has been lies
\* below next_seq, so it is not asked for again.
NothingPassedOver ==
  epoch = base =>
    /\ \A s \in StartSeq .. nextSeq - 1 : s < next => \E x \in Known : x.seq = s
    /\ \A x \in Known : x.seq < nextSeq

\* However far behind the receiver falls, probing ends: once the agent pushes
\* no more, the receiver has read everything or the agent holds nothing.
CatchesUp == <>[](next = 1 \/ nextSeq = next)
=============================================================================
