----------------------------- MODULE TushareSync -----------------------------
(***************************************************************************)
(* tushare_data/sync.py with the checkpoints and writes of storage.py: a   *)
(* process that runs sync_all, sync_datasets or sync_inc, one thread for   *)
(* each dataset of a stage, until it ends, fails or crashes.               *)
(*                                                                         *)
(* What upstream has is a version for each cell, a day and a part of the   *)
(* market that one request covers (an exchange, a list status, a stock):   *)
(* zero before anything is published, and more with each publication.      *)
(* A request answers with the versions of its moment.  A partition is a    *)
(* day of cells; that some tables are partitioned by another date of their *)
(* rows changes only how many commits a write takes.                       *)
(***************************************************************************)
EXTENDS Integers, Sequences, FiniteSets, SequencesExt, FiniteSetsExt, DateRanges

CONSTANTS
  LastDay,      \* days are 1 .. LastDay
  Datasets, Calendar, \* and the dataset that is trade_cal
  Specs,        \* the sets of datasets _sync_specs may list
  KindOf,       \* dataset -> what its sync function does, one of Kinds
  PartsOf,      \* dataset -> the parts of the market it is requested in
  StockBatches, \* the parts of an audited dataset, in batches: a sequence of sets
  ChunkDays,    \* dataset -> days of a request or write, and of a checkpoint
  OpenDays,     \* the days the calendar will call open
  Published, PublishedLater, \* <<dataset, cell>> there at first, or may appear or change
  MaxVersion,   \* bound: publications of a cell
  Backfills,    \* the <<first, last>> an operator asks sync_all for
  Selections,   \* and what it asks sync_datasets for: [range, datasets], these a sequence
  IncCalls,     \* [today, monthly, weekly]: the date sync_inc is run with, whether it is the
                \* first of a month and whether the day of the week of the Weekly datasets
  CalendarPast, CalendarFuture, \* INC_CALENDAR_PAST_DAYS, INC_CALENDAR_FUTURE_DAYS
  IncDays,      \* dataset -> [daily, monthly], the days or open days sync_inc goes back
  Weekly,       \* the datasets sync_inc refreshes on one day of the week
  MaxFaults     \* bound: failing steps and crashes

Kinds == {"calendar", "traded", "announced", "announced_daily", "snapshot", "audited"}
Days == 1 .. LastDay
Cells(d) == Days \X PartsOf[d]
Traded(d) == KindOf[d] = "traded"

ASSUME DatasetsAssumption ==
  /\ LastDay \in Nat \ {0} /\ MaxFaults \in Nat /\ MaxVersion \in Nat \ {0}
  /\ KindOf \in [Datasets -> Kinds]
  /\ \A specs \in Specs : Calendar \in specs /\ specs \subseteq Datasets
  /\ Calendar \in Datasets /\ KindOf[Calendar] = "calendar"
  /\ OpenDays \subseteq Days
  /\ \A d \in Datasets : ChunkDays[d] \in Nat \ {0}
  /\ \A c \in Published \cup PublishedLater : c[1] \in Datasets /\ c[2] \in Cells(c[1])
  /\ StockBatches \in Seq(SUBSET UNION {PartsOf[d] : d \in Datasets}) \ {<<>>}
  /\ \A d \in Datasets : KindOf[d] = "audited" => PartsOf[d] = UNION Range(StockBatches)

\* A day's calendar is there before its data, here and in Publish.
ASSUME CalendarAssumption ==
  \A dc \in Published :
    Traded(dc[1]) => dc[2][1] \in OpenDays /\ \E e \in PartsOf[Calendar] : <<Calendar, <<dc[2][1], e>>>> \in Published

ASSUME CallsAssumption ==
  /\ <<1, LastDay>> \in Backfills
  /\ \A r \in Backfills \cup {selection.range : selection \in Selections} : r[1] \in Days /\ r[2] \in Days /\ r[1] <= r[2]
  /\ \A selection \in Selections : selection.datasets \in Seq(Datasets)
  /\ \A call \in IncCalls : call.today \in Days /\ call.monthly \in BOOLEAN /\ call.weekly \in BOOLEAN
  /\ CalendarPast \in Nat /\ CalendarFuture \in Nat
  /\ \A d \in Datasets : IncDays[d].daily \in Nat \ {0} /\ IncDays[d].monthly \in Nat \ {0}
  /\ \A d \in Weekly : KindOf[d] \notin {"calendar", "traded"}

VARIABLES
  specs,   \* the datasets there are: one of Specs, for ever
  source,  \* dataset -> cell -> the version upstream has
  stored,  \* dataset -> cell -> the version committed to the store
  marks,   \* dataset -> the ranges in _meta/sync_all/<dataset>.json
  buffer,  \* dataset -> cell -> the version appended, not yet committed
  run,     \* the sync call the process is in, or was in last
  job,     \* dataset -> its thread
  faults,
  pledged, \* ghost: dataset -> cell -> the least version its marks vouch for
  covered  \* ghost: dataset -> the days marked so far

disk == <<stored, marks>>
ghosts == <<pledged, covered>>
vars == <<specs, source, stored, marks, buffer, run, job, faults, pledged, covered>>

Nothing == [d \in specs |-> [c \in Cells(d) |-> 0]]
Idle == [at |-> "idle"]
NoRun == [mode |-> "none", status |-> "ok"]
Over(new, old) == [c \in DOMAIN old |-> IF new[c] # 0 THEN new[c] ELSE old[c]]
OnDay(day, cells) == [c \in DOMAIN cells |-> IF c[1] = day THEN cells[c] ELSE 0]

Init ==
  /\ specs \in Specs
  /\ source = [d \in specs |-> [c \in Cells(d) |-> IF <<d, c>> \in Published THEN 1 ELSE 0]]
  /\ stored = Nothing /\ buffer = Nothing /\ pledged = Nothing
  /\ marks = [d \in specs |-> <<>>]
  /\ covered = [d \in specs |-> {}]
  /\ run = NoRun
  /\ job = [d \in specs |-> Idle]
  /\ faults = 0

-----------------------------------------------------------------------------
(* Upstream.  A day's market data comes after its calendar. *)

Publish ==
  \E dc \in PublishedLater :
    LET d == dc[1]  c == dc[2] IN
    /\ d \in specs /\ source[d][c] < MaxVersion
    /\ Traded(d) => c[1] \in OpenDays /\ \E e \in PartsOf[Calendar] : source[Calendar][<<c[1], e>>] # 0
    /\ source' = [source EXCEPT ![d][c] = @ + 1]
    /\ UNCHANGED <<specs, disk, buffer, run, job, faults, ghosts>>

-----------------------------------------------------------------------------
(* Calls. *)

\* _market_open_dates: whatever exchange calls the day open.
MarketOpenDates(first, last) ==
  {day \in (first .. last) \cap OpenDays : \E e \in PartsOf[Calendar] : stored[Calendar][<<day, e>>] # 0}

\* What a call is asked, the stages it takes its datasets in, and what upstream has as it begins.
Request(mode, force, range, stages) ==
  [mode |-> mode, status |-> "running", force |-> force, first |-> range[1], last |-> range[2],
   stages |-> stages, selected |-> UNION Range(stages), asked |-> source, monthly |-> FALSE, weekly |-> FALSE]

Start(request) ==
  /\ run.status # "running"
  /\ run' = request
  /\ job' = [d \in specs |-> Idle]
  /\ UNCHANGED <<specs, source, disk, buffer, faults, ghosts>>

SyncAll(range, force) == Start(Request("all", force, range, <<{Calendar}, specs \ {Calendar}>>))

SyncDatasets(selection, force) ==
  LET datasets == selection.datasets IN
  /\ Range(datasets) \subseteq specs
  /\ Start(Request("all", force, selection.range, [i \in DOMAIN datasets |-> {datasets[i]}]))

\* The weekday and the day of the month decide what is refreshed, and how far back.
SyncInc ==
  \E call \in IncCalls :
    LET request == Request("inc", TRUE, <<call.today, call.today>>, <<{Calendar}, specs \ {Calendar}>>)
    IN Start([request EXCEPT !.monthly = call.monthly, !.weekly = call.weekly])

\* The range sync_inc refreshes of a dataset, or none.
IncRange(d) ==
  LET today == run.last
      back == IF run.monthly THEN IncDays[d].monthly ELSE IncDays[d].daily
      open == MarketOpenDates(Later(1, today - CalendarPast), today)
      last == {day \in open : Cardinality({o \in open : o > day}) < back}
  IN CASE KindOf[d] = "calendar" ->
            << <<Later(1, today - CalendarPast), Earlier(LastDay, today + CalendarFuture)>> >>
       [] KindOf[d] = "traded" -> IF open = {} THEN <<>> ELSE << <<Min(last), today>> >>
       [] d \in Weekly /\ ~run.weekly -> <<>>
       [] OTHER -> << <<Later(1, today - back + 1), today>> >>

\* _sync_all_dataset, or _sync_inc_dataset: the calls of the dataset's function
\* and the ranges that are marked after each.
Call(range, marked) == [first |-> range[1], last |-> range[2], marks |-> marked]
Calls(d) ==
  LET missing == MissingDateRanges(run.first, run.last, IF run.force THEN <<>> ELSE marks[d])
      chunks == IF KindOf[d] = "audited" THEN missing
                ELSE FlattenSeq([i \in DOMAIN missing |-> SplitRange(missing[i][1], missing[i][2], ChunkDays[d])])
  IN IF run.mode = "inc"
     THEN LET range == IncRange(d) IN [i \in DOMAIN range |-> Call(range[i], <<>>)]
     ELSE IF KindOf[d] = "snapshot"
     THEN IF missing = <<>> THEN <<>> ELSE <<Call(<<run.first, run.last>>, missing)>>
     ELSE [i \in DOMAIN chunks |-> Call(chunks[i], <<chunks[i]>>)]

\* A thread with calls left to make.
Calling(calls) ==
  [at |-> IF calls = <<>> THEN "done" ELSE "call",
   calls |-> calls, rounds |-> <<>>, requests |-> {}, got |-> <<>>, flushing |-> {}]

\* The calendar first, and then the pool; sync_datasets takes one after the other.
NextStage ==
  /\ run.status = "running" /\ run.stages # <<>>
  /\ \A d \in specs : job[d].at \in {"idle", "done"}
  /\ \E calls \in {[d \in Head(run.stages) |-> Calls(d)]} :
       job' = [d \in specs |-> IF d \in Head(run.stages) THEN Calling(calls[d]) ELSE Idle]
  /\ run' = [run EXCEPT !.stages = Tail(@)]
  /\ UNCHANGED <<specs, source, disk, buffer, faults, ghosts>>

\* Mutant: an error is left in its future and never asked for.
EndUnasked ==
  /\ run.status = "running"
  /\ \A d \in specs : job[d].at \in {"idle", "done", "failed"}
  /\ run.stages = <<>>
  /\ run' = [run EXCEPT !.status = "ok"]
  /\ job' = [d \in specs |-> Idle]
  /\ UNCHANGED <<specs, source, disk, buffer, faults, ghosts>>

\* The pool waits for every thread before the first error is raised.
End ==
  LET failed == \E d \in specs : job[d].at = "failed" IN
  /\ run.status = "running"
  /\ \A d \in specs : job[d].at \in {"idle", "done", "failed"}
  /\ run.stages = <<>> \/ failed
  /\ run' = [run EXCEPT !.status = IF failed THEN "failed" ELSE "ok"]
  /\ job' = [d \in specs |-> Idle]
  /\ UNCHANGED <<specs, source, disk, buffer, faults, ghosts>>

-----------------------------------------------------------------------------
(* A dataset's thread.  A call is a sequence of rounds: requests, one      *)
(* after the other, and then a write of all that they returned.            *)

Round(table, first, last, parts) == [table |-> table, first |-> first, last |-> last, parts |-> parts]
\* A whole snapshot; thirty stocks at a time for the whole range; or the range in chunks.
SnapshotRounds(d) == <<Round(d, 1, LastDay, PartsOf[d])>>
BatchRounds(d, first, last) == [i \in DOMAIN StockBatches |-> Round(d, first, last, StockBatches[i])]
ChunkRounds(d, first, last) ==
  LET chunks == SplitRange(first, last, ChunkDays[d])
  IN [i \in DOMAIN chunks |-> Round(d, chunks[i][1], chunks[i][2], PartsOf[d])]
Rounds(d, first, last) ==
  CASE KindOf[d] = "audited" -> BatchRounds(d, first, last)
    [] KindOf[d] = "snapshot" -> SnapshotRounds(d)
    [] OTHER -> ChunkRounds(d, first, last)

\* _ensure_trade_calendars: the days that lack an exchange are requested again.
CalendarRounds(first, last) ==
  LET known == {day \in Days : \A e \in PartsOf[Calendar] : stored[Calendar][<<day, e>>] # 0}
      missing == ContiguousRanges(Ascending((first .. last) \ known))
  IN FlattenSeq([i \in DOMAIN missing |-> ChunkRounds(Calendar, missing[i][1], missing[i][2])])

\* The days of each request of a round: each open day, each day, or all at once.
RequestDates(round) ==
  LET kind == KindOf[round.table] IN
  CASE kind = "traded" -> {{day} : day \in MarketOpenDates(round.first, round.last)}
    [] kind = "announced_daily" -> {{day} : day \in round.first .. round.last}
    [] OTHER -> {round.first .. round.last}
RequestsOf(round) == {dates \X {part} : dates \in RequestDates(round), part \in round.parts}

Table(d) == Head(job[d].rounds).table
At(d, step) == job[d].at = step

\* A thread at the first of the rounds; its requests are known when it begins.
Begin(thread, rounds) ==
  [thread EXCEPT !.at = "fetch", !.rounds = rounds,
                 !.requests = RequestsOf(Head(rounds)), !.got = Nothing[Head(rounds).table]]

EnterCall(d) ==
  LET call == Head(job[d].calls)
      calendar == IF Traded(d) THEN CalendarRounds(call.first, call.last) ELSE <<>>
  IN /\ At(d, "call")
     /\ \E rounds \in {calendar \o Rounds(d, call.first, call.last)} : job' = [job EXCEPT ![d] = Begin(@, rounds)]
     /\ UNCHANGED <<specs, source, disk, buffer, run, faults, ghosts>>

\* The next request: the order among a round's requests does not matter.
NextRequest(d) == CHOOSE request \in job[d].requests : TRUE

Fetch(d) ==
  /\ At(d, "fetch") /\ job[d].requests # {}
  /\ job' = [job EXCEPT ![d].requests = @ \ {NextRequest(d)},
                        ![d].got = [c \in DOMAIN @ |-> IF c \in NextRequest(d) THEN source[Table(d)][c] ELSE @[c]]]
  /\ UNCHANGED <<specs, source, disk, buffer, run, faults, ghosts>>

\* write: append, and flush's list of the partitions with buffered rows.
AppendRows(d) ==
  LET filled == Over(job[d].got, buffer[Table(d)]) IN
  /\ At(d, "fetch") /\ job[d].requests = {}
  /\ buffer' = [buffer EXCEPT ![Table(d)] = filled]
  /\ job' = [job EXCEPT ![d].at = "flush",
                        ![d].flushing = {day \in Days : \E c \in Cells(Table(d)) : c[1] = day /\ filled[c] # 0}]
  /\ UNCHANGED <<specs, source, disk, run, faults, ghosts>>

\* Mutant: the commit of one partition drops the buffer of the whole table.
FlushPartitionUncommitted(d) ==
  LET day == Min(job[d].flushing)
      table == Table(d) IN
  /\ At(d, "flush") /\ job[d].flushing # {}
  /\ stored' = [stored EXCEPT ![table] = Over(OnDay(day, buffer[table]), @)]
  /\ buffer' = [buffer EXCEPT ![table] = [c \in Cells(table) |-> 0]]
  /\ job' = [job EXCEPT ![d].flushing = @ \ {day}]
  /\ UNCHANGED <<specs, source, marks, run, faults, ghosts>>

\* Another thread may have committed the partition meanwhile.
FlushPartition(d) ==
  LET day == Min(job[d].flushing)
      table == Table(d) IN
  /\ At(d, "flush") /\ job[d].flushing # {}
  /\ stored' = [stored EXCEPT ![table] = Over(OnDay(day, buffer[table]), @)]
  /\ buffer' = [buffer EXCEPT ![table] = [c \in Cells(table) |-> IF c[1] = day THEN 0 ELSE @[c]]]
  /\ job' = [job EXCEPT ![d].flushing = @ \ {day}]
  /\ UNCHANGED <<specs, source, marks, run, faults, ghosts>>

\* The partitions are compacted, which changes no version, and write returns.
Wrote(d) ==
  LET rounds == Tail(job[d].rounds) IN
  /\ At(d, "flush") /\ job[d].flushing = {}
  /\ job' = [job EXCEPT ![d] = IF rounds # <<>> THEN Begin(@, rounds)
                               ELSE IF Head(@.calls).marks # <<>> THEN [@ EXCEPT !.at = "mark"]
                               ELSE Calling(Tail(@.calls))]
  /\ UNCHANGED <<specs, source, disk, buffer, run, faults, ghosts>>

\* Mutant: the file is written with the new range alone.
MarkOverwrites(d) ==
  LET call == Head(job[d].calls)
      range == Head(call.marks)
      days == range[1] .. range[2]
      rest == Tail(call.marks)
  IN /\ At(d, "mark")
     /\ marks' = [marks EXCEPT ![d] = <<range>>]
     /\ covered' = [covered EXCEPT ![d] = @ \cup days]
     /\ pledged' = [pledged EXCEPT ![d] = [c \in Cells(d) |->
                      IF c[1] \in days \/ KindOf[d] = "snapshot" THEN Later(@[c], run.asked[d][c]) ELSE @[c]]]
     /\ job' = [job EXCEPT ![d] = IF rest = <<>> THEN Calling(Tail(@.calls))
                                  ELSE [@ EXCEPT !.calls = <<[call EXCEPT !.marks = rest]>> \o Tail(job[d].calls)]]
     /\ UNCHANGED <<specs, source, stored, buffer, run, faults>>

\* _mark_sync_all_completed: the file is replaced with one that has the range too.
Mark(d) ==
  LET call == Head(job[d].calls)
      range == Head(call.marks)
      days == range[1] .. range[2]
      rest == Tail(call.marks)
  IN /\ At(d, "mark")
     /\ marks' = [marks EXCEPT ![d] = MergeDateRanges(Append(@, range))]
     /\ covered' = [covered EXCEPT ![d] = @ \cup days]
     /\ pledged' = [pledged EXCEPT ![d] = [c \in Cells(d) |->
                      IF c[1] \in days \/ KindOf[d] = "snapshot" THEN Later(@[c], run.asked[d][c]) ELSE @[c]]]
     /\ job' = [job EXCEPT ![d] = IF rest = <<>> THEN Calling(Tail(@.calls))
                                  ELSE [@ EXCEPT !.calls = <<[call EXCEPT !.marks = rest]>> \o Tail(job[d].calls)]]
     /\ UNCHANGED <<specs, source, stored, buffer, run, faults>>

\* A request that fails after its retries, a page that is refused, or an error
\* of the file system in a commit, a compaction or the replacing of the file.
Fail(d) ==
  /\ job[d].at \in {"fetch", "flush", "mark"} /\ faults < MaxFaults
  /\ job' = [job EXCEPT ![d].at = "failed"]
  /\ faults' = faults + 1
  /\ UNCHANGED <<specs, source, disk, buffer, run, ghosts>>

Work(d) ==
  \/ EnterCall(d) \/ Fetch(d) \/ AppendRows(d) \/ FlushPartition(d) \/ Wrote(d) \/ Mark(d)

-----------------------------------------------------------------------------
\* The end of the `with` block: the store is closed and the buffers flushed.
CloseStore ==
  /\ run.status # "running" /\ buffer # Nothing
  /\ stored' = [d \in specs |-> Over(buffer[d], stored[d])]
  /\ buffer' = Nothing
  /\ UNCHANGED <<specs, source, marks, run, job, faults, ghosts>>

Crash ==
  /\ faults < MaxFaults
  /\ run.status = "running" \/ buffer # Nothing
  /\ buffer' = Nothing
  /\ run' = NoRun
  /\ job' = [d \in specs |-> Idle]
  /\ faults' = faults + 1
  /\ UNCHANGED <<specs, source, disk, ghosts>>

Proceed == NextStage \/ End \/ \E d \in specs : Work(d)

Next ==
  \/ Publish \/ Proceed \/ CloseStore \/ Crash
  \/ \E force \in BOOLEAN :
       \/ \E range \in Backfills : SyncAll(range, force)
       \/ \E selection \in Selections : SyncDatasets(selection, force)
  \/ SyncInc
  \/ \E d \in specs : Fail(d)

Spec == Init /\ [][Next]_vars

\* A call runs on while any of its threads can, and takes finitely many steps;
\* the operator repeats the whole backfill until it has succeeded.
FairSpec == Spec /\ WF_vars(Proceed) /\ SF_vars(SyncAll(<<1, LastDay>>, FALSE))

-----------------------------------------------------------------------------
\* The shape of the state; a thread works only while a call is running.
TypeOK ==
  /\ specs \in Specs
  /\ \A d \in specs : \A versions \in {source, stored, buffer, pledged} :
       versions[d] \in [Cells(d) -> 0 .. MaxVersion]
  /\ covered \in [specs -> SUBSET Days]
  /\ run.status \in {"running", "ok", "failed"}
  /\ \A d \in specs : job[d].at \in {"idle", "call", "fetch", "flush", "mark", "done", "failed"}
  /\ run.status # "running" => \A d \in specs : job[d] = Idle
  /\ faults \in 0 .. MaxFaults

\* docs/tushare_data.md: a range is committed only after its whole block is on
\* disk.  What upstream had of a marked day when the call began is stored,
\* whatever failed or crashed before, and whichever thread wrote the calendar.
MarkedIsStored == \A d \in specs : \A c \in Cells(d) : stored[d][c] >= pledged[d][c]

\* The checkpoint file has exactly the days that were ever marked, a forced or
\* failed call never takes one away, as ranges in order that neither overlap
\* nor touch; and what a call asks for is the request's days without those.
RangesExact ==
  TypeOK /\ \A d \in specs :
    /\ DaysOf(marks[d]) = covered[d]
    /\ \A i \in DOMAIN marks[d] : marks[d][i][1] <= marks[d][i][2]
    /\ \A i \in 1 .. Len(marks[d]) - 1 : marks[d][i][2] + 1 < marks[d][i + 1][1]
    /\ \A first \in Days : \A last \in first .. LastDay :
         LET missing == MissingDateRanges(first, last, marks[d])
         IN /\ DaysOf(missing) = (first .. last) \ covered[d]
            /\ \A i \in 1 .. Len(missing) - 1 : missing[i][2] + 1 < missing[i + 1][1]

\* docs/tushare_data.md: run again, sync_all fills only what is not complete.
\* A complete snapshot is the exception.
AsksOnlyForMissing ==
  \A d \in specs :
    (/\ At(d, "fetch") /\ job[d].requests # {} /\ Table(d) = d
     /\ run.mode = "all" /\ ~run.force /\ KindOf[d] # "snapshot")
    => \A c \in NextRequest(d) : c[1] \notin covered[d]

\* The open days of sync_inc's window: the last few before today.
InWindow(d, day) ==
  LET back == IF run.monthly THEN IncDays[d].monthly ELSE IncDays[d].daily
      open == MarketOpenDates(Later(1, run.last - CalendarPast), run.last)
  IN CASE KindOf[d] = "calendar" -> day >= run.last - CalendarPast /\ day <= run.last + CalendarFuture
       [] KindOf[d] = "traded" -> day \in open /\ Cardinality({o \in open : o > day}) < back
       [] d \in Weekly /\ ~run.weekly -> FALSE
       [] OTHER -> KindOf[d] = "snapshot" \/ (day > run.last - back /\ day <= run.last)

\* A call that returns without an error has done what it was asked: sync_all
\* and sync_datasets have marked the request's days, and with force, or in the
\* window of sync_inc, the store has all that upstream had when it began.
SuccessMeansFetched ==
  run.mode # "none" /\ run.status = "ok" =>
    \A d \in run.selected :
      /\ run.mode = "all" => run.first .. run.last \subseteq covered[d]
      /\ \A c \in Cells(d) :
           (\/ run.mode = "all" /\ run.force /\ (KindOf[d] = "snapshot" \/ c[1] \in run.first .. run.last)
            \/ run.mode = "inc" /\ InWindow(d, c[1]))
           => stored[d][c] >= run.asked[d][c]

\* However its calls fail or crash, a backfill that is repeated completes.
Completes == <>[](\A d \in specs : Days \subseteq DaysOf(marks[d]))
=============================================================================
