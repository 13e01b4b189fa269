------------------------------- MODULE QmtSync -------------------------------
(***************************************************************************)
(* qmt_receiver/sync.py with the checkpoints and writes of storage.py and  *)
(* the agent's history calls: daily and minute bars up to yesterday,       *)
(* financial reports, and dividend factors, one batch of codes and one     *)
(* range of days after another.  The days go on, the vendor announces new  *)
(* factors, requests fail and the process dies.  The days of one table are *)
(* its partitions; what market_data reads of the result is PointInTime's.  *)
(***************************************************************************)
EXTENDS Integers, Sequences, FiniteSets, SequencesExt, DateRanges

CONSTANTS
  Codes,
  FirstDay, LastDay, \* bound: today runs from the one to the other
  Traded,            \* the pairs <<code, day>> with bars
  Factors,           \* the vendor's factors [code, ex, announced, dr]
  ReportDays,        \* the days financial reports come out, also their report dates
  Calls,             \* the calls made: [datasets, codes, start, end, force]
  AsksAhead,         \* whether factors are asked for of days to come
  MaxFaults          \* bound: failed requests, crashes, and answers that lack rows

\* The tables of bars; minute bars of each period have checkpoints of their own.
History == {"daily", "1m"}
Tables == History \cup {"financial", "dividend_factors"}
Days == 1 .. LastDay

ASSUME VendorAssumption ==
  /\ IsFiniteSet(Codes) /\ LastDay \in Nat /\ MaxFaults \in Nat
  /\ FirstDay \in Days /\ Traded \subseteq Codes \X Days /\ ReportDays \subseteq Days
  /\ \A f \in Factors : f.code \in Codes /\ f.ex \in Days /\ f.announced \in Int /\ f.announced <= f.ex

ASSUME CallsAssumption ==
  \A c \in Calls :
    /\ c.datasets \in Seq(Tables) /\ c.codes \subseteq Codes
    /\ c.start \in Int /\ c.end \in Int /\ c.force \in BOOLEAN

VARIABLES
  today,
  stored,   \* rows in the parquet files, by <<table, code, day>>: their versions in file order
  marks,    \* _meta/sync/<dataset>.json: <<dataset, code>> -> completed ranges
  call,     \* the call of sync_all or of one sync_* in progress
  forced,   \* keys that a forced call was writing when it ended half-way
  missed,   \* ghost: keys noted as complete by an answer that did not have their rows
  faults
vars == <<today, stored, marks, call, forced, missed, faults>>

Keys == Tables \X Codes \X Days
Marked(dataset, code) == DaysOf(marks[<<dataset, code>>])
Idle == [at |-> "idle"]

\* What the vendor has of a bar: nothing, the snapshot of a running day, the final bar.
Nothing == 0
Snapshot == 1
Final == 2
Bar(code, day) ==
  IF <<code, day>> \notin Traded \/ day > today THEN Nothing ELSE IF day = today THEN Snapshot ELSE Final

Init ==
  /\ today = FirstDay
  /\ stored = [k \in Keys |-> <<>>]
  /\ marks = [k \in (History \cup {"dividend_factors"}) \X Codes |-> <<>>]
  /\ call = Idle /\ forced = {} /\ missed = {} /\ faults = 0

-----------------------------------------------------------------------------
(* Checkpoints *)

\* mark_sync_completed: the document is replaced in one step.
Mark(dataset, code, range) ==
  marks' = [marks EXCEPT ![<<dataset, code>>] = MergeDateRanges(Append(@, range))]

\* _pending_batches: the missing ranges in order, each with the codes that miss it.
PendingBatches(dataset, codes, start, end, force) ==
  LET Missing(code) == ToSet(MissingDateRanges(start, end, IF force THEN <<>> ELSE marks[<<dataset, code>>]))
      ranges == UNION {Missing(code) : code \in codes}
      Batch(r) == [range |-> r, codes |-> {code \in codes : r \in Missing(code)}]
      order == Arranged(ranges, {x \in ranges \X ranges : Precedes(x[1], x[2])})
  IN [i \in DOMAIN order |-> Batch(order[i])]

\* Mutant: the snapshot of today is taken for history.
HistoryEndToday(end) == Earlier(end, today)

\* _history_dates
HistoryEnd(end) == Earlier(end, today - 1)

-----------------------------------------------------------------------------
(* Calls *)

\* sync_all, or one of its parts on its own
Sync(c) ==
  /\ call = Idle
  /\ AsksAhead \/ "dividend_factors" \notin ToSet(c.datasets) \/ c.end <= today
  /\ call' = [at |-> "next", todo |-> c.datasets, asked |-> c, batches |-> <<>>]
  /\ UNCHANGED <<today, stored, marks, missed, forced, faults>>

\* The next sync_* reads the clock and the checkpoints once; all batches are made from that.
NextDataset ==
  /\ call.at = "next" /\ call.todo # <<>>
  /\ LET dataset == Head(call.todo)
         c == call.asked
         batches == CASE dataset \in History ->
                           PendingBatches(dataset, c.codes, c.start, HistoryEnd(c.end), c.force)
                      [] dataset = "dividend_factors" ->
                           PendingBatches(dataset, c.codes, c.start, c.end, c.force)
                      [] dataset = "financial" -> <<[range |-> <<c.start, c.end>>, codes |-> c.codes]>>
     IN call' = [at |-> "batch", todo |-> Tail(call.todo), asked |-> c, dataset |-> dataset,
                 batches |-> batches]
  /\ UNCHANGED <<today, stored, marks, missed, forced, faults>>

Return ==
  /\ call.at = "next" /\ call.todo = <<>>
  /\ call' = Idle
  /\ UNCHANGED <<today, stored, marks, missed, forced, faults>>

Batch == Head(call.batches)
Within(day, range) == range[1] <= day /\ day <= range[2]
OfBatch(k) == k[1] = call.dataset /\ k[2] \in Batch.codes /\ Within(k[3], Batch.range)

EndDataset ==
  /\ call.at = "batch" /\ call.batches = <<>>
  /\ call' = [at |-> "next", todo |-> call.todo, asked |-> call.asked, batches |-> <<>>]
  /\ UNCHANGED <<today, stored, marks, missed, forced, faults>>

\* QmtGateway.download_history: XtData's own files, which are queried of a batch only after
\* its download, get what there is now, code after code.
Download ==
  /\ call.at = "batch" /\ call.batches # <<>> /\ call.dataset \in History
  /\ call' = [at |-> "downloaded", todo |-> call.todo, asked |-> call.asked, dataset |-> call.dataset,
              batches |-> call.batches, cache |-> [k \in {x \in Keys : OfBatch(x)} |-> Bar(k[2], k[3])]]
  /\ UNCHANGED <<today, stored, marks, missed, forced, faults>>

DaysToWrite(rows) == Ascending({k[3] : k \in DOMAIN rows})

\* What is to be written, the codes to be noted as complete for it, and, as a ghost, the
\* rows of these codes that the answer does not have.
Answered(rows, codes, short) ==
  /\ short # {} => faults < MaxFaults
  /\ faults' = IF short = {} THEN faults ELSE faults + 1
  /\ call' = [at |-> "write", todo |-> call.todo, asked |-> call.asked, dataset |-> call.dataset, batches |-> call.batches,
              rows |-> rows, noted |-> codes, short |-> short, days |-> DaysToWrite(rows)]

\* query_history of the local files: XtData may leave out codes, or some or all bars of a code
\* that it names, and history is noted as complete for the codes the response names.
QueryHistory ==
  /\ call.at = "downloaded"
  /\ \E codes \in SUBSET Batch.codes :
       LET there == {k \in DOMAIN call.cache : k[2] \in codes /\ call.cache[k] # Nothing}
       IN \E found \in SUBSET there : Answered([k \in found |-> call.cache[k]], codes, there \ found)
  /\ UNCHANGED <<today, stored, marks, missed, forced>>

\* query_dividend_factors: the factors announced by now whose ex day is in the range, but of
\* the codes XtData has no table for; all codes are noted as complete.
QueryFactors ==
  /\ call.at = "batch" /\ call.batches # <<>> /\ call.dataset = "dividend_factors"
  /\ \E codes \in SUBSET Batch.codes :
       LET there == {k \in Keys : OfBatch(k) /\ \E f \in Factors :
                       f.code = k[2] /\ f.ex = k[3] /\ f.announced <= today}
           found == {k \in there : k[2] \in codes}
       IN Answered([k \in found |-> Final], Batch.codes, there \ found)
  /\ UNCHANGED <<today, stored, marks, missed, forced>>

\* download_financial of all there is, and query_financial of the range.
QueryFinancial ==
  /\ call.at = "batch" /\ call.batches # <<>> /\ call.dataset = "financial"
  /\ LET found == {k \in Keys : OfBatch(k) /\ k[3] \in ReportDays /\ k[3] <= today}
     IN Answered([k \in found |-> Final], {}, {})
  /\ UNCHANGED <<today, stored, marks, missed, forced>>

-----------------------------------------------------------------------------
(* Writing *)

AfterFlushOf(k, days) ==
  IF k \in DOMAIN call.rows /\ k[3] \in days THEN Append(stored[k], call.rows[k]) ELSE stored[k]

\* _write: append and flush, one day's partition after another ...
Flush ==
  /\ call.at = "write" /\ call.days # <<>>
  /\ stored' = [k \in Keys |-> AfterFlushOf(k, {Head(call.days)})]
  /\ call' = [call EXCEPT !.days = Tail(@)]
  /\ UNCHANGED <<today, marks, forced, missed, faults>>

\* Mutant: what was flushed is left as it is.
FlushedAsIs(c) == [c EXCEPT !.at = "mark"]

\* ... then every partition that got rows is compacted.
Flushed(c) == [c EXCEPT !.at = "compact", !.days = DaysToWrite(c.rows)]

EndFlush ==
  /\ call.at = "write" /\ call.days = <<>>
  /\ call' = Flushed(call)
  /\ UNCHANGED <<today, stored, marks, missed, forced, faults>>

\* compact_partition keeps the last row of each key.
Compact ==
  /\ call.at = "compact" /\ call.days # <<>>
  /\ LET OfDay(k) == k[1] = call.dataset /\ k[3] = Head(call.days)
     IN /\ stored' = [k \in Keys |-> IF OfDay(k) /\ stored[k] # <<>> THEN <<Last(stored[k])>> ELSE stored[k]]
        /\ forced' = {k \in forced : ~OfDay(k)}
  /\ call' = [call EXCEPT !.days = Tail(@)]
  /\ UNCHANGED <<today, marks, missed, faults>>

EndCompact ==
  /\ call.at = "compact" /\ call.days = <<>>
  /\ call' = [call EXCEPT !.at = "mark"]
  /\ UNCHANGED <<today, stored, marks, missed, forced, faults>>

\* The codes of the response, one after another; nothing is noted of financial reports.
MarkCode ==
  /\ call.at = "mark"
  /\ \E code \in call.noted :
       /\ Mark(call.dataset, code, Batch.range)
       /\ call' = [call EXCEPT !.noted = @ \ {code}]
       /\ missed' = {k \in missed : ~(OfBatch(k) /\ k[2] = code)} \cup {k \in call.short : k[2] = code}
  /\ UNCHANGED <<today, stored, forced, faults>>

EndBatch ==
  /\ call.at = "mark" /\ call.noted = {}
  /\ call' = [at |-> "batch", todo |-> call.todo, asked |-> call.asked, dataset |-> call.dataset,
              batches |-> Tail(call.batches)]
  /\ UNCHANGED <<today, stored, marks, missed, forced, faults>>

-----------------------------------------------------------------------------
(* Faults, and time *)

\* A request fails or the process dies; after an error of the store its buffer is still
\* flushed on the way out, by close.
Interrupted ==
  /\ call # Idle /\ faults < MaxFaults
  /\ stored' = stored \/ (call.at = "write" /\ stored' = [k \in Keys |-> AfterFlushOf(k, ToSet(call.days))])
  /\ forced' = forced \cup {k \in Keys : call.at \in {"write", "compact"} /\ call.asked.force /\ k \in DOMAIN call.rows}
  /\ call' = Idle /\ faults' = faults + 1
  /\ UNCHANGED <<today, marks, missed>>

\* Midnight
NextDay ==
  /\ today < LastDay
  /\ today' = today + 1
  /\ UNCHANGED <<stored, marks, call, forced, missed, faults>>

Step == NextDataset \/ Return \/ EndDataset \/ Download \/ QueryHistory \/ QueryFactors \/ QueryFinancial
        \/ Flush \/ EndFlush \/ Compact \/ EndCompact \/ MarkCode \/ EndBatch

Next == (\E c \in Calls : Sync(c)) \/ Step \/ Interrupted \/ NextDay

Spec == Init /\ [][Next]_vars

\* The days go on, a call runs to its end, each call is made again and again, and XtData does
\* not leave something out of each answer to the same call.
FairSpec ==
  /\ Spec /\ WF_vars(NextDay) /\ WF_vars(Step)
  /\ \A c \in Calls :
       /\ SF_vars(Sync(c))
       /\ SF_vars(QueryHistory /\ call.asked = c /\ call'.noted = Batch.codes /\ call'.short = {})
-----------------------------------------------------------------------------
(* Properties *)

TypeOK ==
  /\ today \in FirstDay .. LastDay /\ faults \in 0 .. MaxFaults
  /\ \A k \in Keys : \A i \in DOMAIN stored[k] : stored[k][i] \in {Snapshot, Final}
  /\ \A k \in DOMAIN marks : \A i \in 2 .. Len(marks[k]) : marks[k][i - 1][2] + 1 < marks[k][i][1]
  /\ forced \subseteq Keys /\ missed \subseteq Keys

Stored(k) == stored[k] # <<>>

\* A day that is noted as complete is over, what is read of it is no snapshot of a running
\* day, and the bar of a code that was traded on it is there, unless the very answer it was noted
\* for did not have it: no code that an answer leaves out, and no bar that was answered but not
\* written, is ever taken for done.
MarkedIsFinal ==
  TypeOK /\ \A dataset \in History, code \in Codes : \A day \in Marked(dataset, code) :
    LET k == <<dataset, code, day>> IN
    /\ day < today
    /\ <<code, day>> \in Traded => Stored(k) \/ k \in missed
    /\ k \in Keys /\ Stored(k) => Last(stored[k]) = Final

\* Between two calls a row that is noted as complete is there once, so that a reader does not
\* count it twice, unless a forced call broke off while it was written anew, or calls broke off
\* while it was written and the answer it was noted for did not have it.
MarkedOnce ==
  \A k \in Keys : (k[1] # "financial" /\ call.at \notin {"write", "compact"} /\ k[3] \in Marked(k[1], k[2])
                     /\ k \notin forced \cup missed) => Len(stored[k]) <= 1

Reader == INSTANCE PointInTime WITH Missing <- -1, Never <- LastDay + 1, SupportedFrom <- 1

\* What the adapters read, without codes that change, of what is stored but with these factors.
Catalog(factors) ==
  [unavailable |-> {}, checked |-> FALSE,
   factor_ranges |-> UNION {{[code |-> code, start |-> r[1], end |-> r[2]] :
                               r \in ToSet(marks[<<"dividend_factors", code>>])} : code \in Codes},
   dividend_factors |-> {[code |-> f.code, ex |-> f.ex, dr |-> f.dr] : f \in factors}]

\* Forward-adjusted bars a reader gets during a day are those of all factors in force but the
\* ones that answers did not have: what is noted as complete lacks none for any other reason,
\* and is never asked for again.
AdjustedIsComplete ==
  \A code \in Codes : call = Idle =>
    LET Key(f) == <<"dividend_factors", f.code, f.ex>>
        raw == {[code |-> code, date |-> p[2], value |-> 1, end |-> Reader!At(p[2], Reader!Close)] :
                  p \in {x \in Traded : x[1] = code /\ x[2] < today}}
        Adjusted(factors) ==
          Reader!QmtForward(Catalog(factors), Reader!At(today, Reader!Trading), raw, FALSE)
        read == Adjusted({f \in Factors : Stored(Key(f))})
    IN read.ok => read = Adjusted({f \in Factors : Stored(Key(f)) \/ Key(f) \notin missed})

\* Synchronising the same range again after the days have gone on brings in their bars
\* (docs/qmt_receiver.md:119), but those that the answers did not have; a forced call of the
\* range brings these in, too (docs/qmt_receiver.md:126).
CatchesUp ==
  \A p \in Traded : LET k == <<"daily", p[1], p[2]>> IN p[2] < LastDay =>
    /\ <>[](p[2] \in Marked("daily", p[1]) /\ (Stored(k) \/ k \in missed))
    /\ (\E c \in Calls : c.force /\ "daily" \in ToSet(c.datasets) /\ p[1] \in c.codes /\ Within(p[2], <<c.start, c.end>>)) =>
         <>[]Stored(k)
=============================================================================
