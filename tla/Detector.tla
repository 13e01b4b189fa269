------------------------------ MODULE Detector ------------------------------
(***************************************************************************)
(* data_cleaning/detector.py: what a detection reports of the Tushare      *)
(* tables.  A lake is a function from <<dataset, day>> to the partition    *)
(* there, [flaw, rows]; a detection covers the datasets of a scope         *)
(* [datasets, start, through], start Missing for all of the history.  Of   *)
(* the tables the calendar, daily bars, factors, suspensions, the income   *)
(* statement and the indicators are here; the checks of the others are     *)
(* alike, one row at a time.  Directories without a date are left out.     *)
(***************************************************************************)
EXTENDS Integers, FiniteSets, FiniteSetsExt

CONSTANTS
  Missing,     \* NULL, below every day
  NaN,         \* a NaN or infinite float
  QuarterEnds  \* the days a report may end on

DenseMarket == {"daily", "adj_factor"}
MarketDate == DenseMarket \cup {"suspend_d", "trade_cal"}
Announcement == {"income", "fina_indicator"}
PartitionField(d) == IF d \in Announcement THEN "end" ELSE "date"

\* TABLE_PRIMARY_KEY, and the field of the partition
PrimaryKey ==
  [trade_cal |-> {"date", "exchange"}, daily |-> {"date", "code"}, adj_factor |-> {"date", "code"},
   suspend_d |-> {"date", "code", "type", "intervals"},
   income |-> {"end", "code", "type", "comp", "ann", "f_ann"}, fina_indicator |-> {"end", "code", "ann"}]
Floats ==
  [trade_cal |-> {}, suspend_d |-> {}, adj_factor |-> {"value"}, income |-> {"value"},
   daily |-> {"open", "high", "low", "close", "vol", "amount", "pre", "change"}, fina_indicator |-> {"value"}]
CriticalFloats(d) == IF d \in DenseMarket THEN Floats[d] \ {"change"} ELSE {}
\* The fields that may not be NULL, but for the exchange, which is never NULL here.
Required(d) == IF d = "trade_cal" THEN {"date", "open"} ELSE {}

Finite(v) == v \notin {Missing, NaN}
Fields(row, names) == [f \in names |-> row[f]]
RowKey(d, row) == Fields(row, PrimaryKey[d])

-----------------------------------------------------------------------------
(* Partitions.  A flawed one cannot be read as the schema says: its        *)
(* manifest is no JSON, or JSON of the wrong form, names a file that is    *)
(* not there, or a file is unreadable or of another schema.                *)

Flaws == {"manifest", "format", "missing_file", "unreadable", "schema"}
FlawRule ==
  [manifest |-> "manifest_v1", format |-> "manifest_v1", missing_file |-> "manifest_file_missing_v1",
   unreadable |-> "parquet_read_v1", schema |-> "schema_v1"]
Partition(rows) == [flaw |-> "none", rows |-> rows]

DaysIn(lake, d) == {key[2] : key \in {k \in DOMAIN lake : k[1] = d}}

\* Rows that code other than the checks gets: what is of another schema it reads all the same.
RowsOf(lake, d, day) ==
  IF <<d, day>> \in DOMAIN lake /\ lake[<<d, day>>].flaw \in {"none", "schema"} THEN lake[<<d, day>>].rows ELSE {}

\* active_partitions gives up on the first manifest that is not JSON, and lets the error of
\* one of the wrong form through.
Parsable(lake, d) == \A day \in DaysIn(lake, d) : lake[<<d, day>>].flaw # "manifest"

\* source_fingerprint: the manifests, and the names and sizes of the files they name, which
\* are new with each commit.
Fingerprint(lake, datasets) == [key \in {k \in DOMAIN lake : k[1] \in datasets} |-> lake[key]]

-----------------------------------------------------------------------------
(* Issues *)

Nothing == [action |-> "NONE"]
Refetch(day) == [action |-> "REFETCH", day |-> day]
Delete == [action |-> "DELETE"]
Values(values) == [action |-> "VALUES", values |-> values]

Issue(d, day, key, rule, severity, observed, suggested) ==
  [dataset |-> d, day |-> day, key |-> key, rule |-> rule, severity |-> severity, observed |-> observed,
   suggested |-> suggested, fix |-> IF suggested.action \in {"DELETE", "VALUES"} THEN "AUTO_FIX" ELSE "MANUAL"]

\* _suggested_refetch: the day the upstream interface asks by.
SuggestedRefetch(d, row, day) ==
  LET announced == IF row.ann # Missing \/ "f_ann" \notin DOMAIN row THEN row.ann ELSE row.f_ann
  IN IF d \in MarketDate THEN Refetch(day)
     ELSE IF announced = Missing THEN Nothing
     ELSE Refetch(announced)

\* _manual
Manual(d, day, row, rule, fields) ==
  {Issue(d, day, RowKey(d, row), rule, "ERROR", Fields(row, fields), SuggestedRefetch(d, row, day))}

\* An issue of a whole day
OfDay(d, day, rule, observed) ==
  {Issue(d, day, [day |-> day], rule, "ERROR", [day |-> observed], Refetch(day))}

If(condition, issues) == IF condition THEN issues ELSE {}

-----------------------------------------------------------------------------
(* The checks of a table's rows *)

\* check_daily, without the percentage of the change
CheckDaily(day, row) ==
  LET priced == {"open", "high", "low", "close"}
      required == priced \cup {"vol", "amount"}
      missing == {f \in required : row[f] = Missing}
      nonpositive == (\E f \in priced : row[f] <= 0) \/ row.vol < 0 \/ row.amount < 0
      disordered == \E f \in priced : row.high < row[f] \/ row.low > row[f]
      Bad(rule, fields) == Manual("daily", day, row, rule, fields)
  IN IF missing # {} THEN Bad("daily_missing_v1", missing)
     ELSE IF \E f \in required : ~Finite(row[f]) THEN {}
     ELSE If(nonpositive, Bad("daily_range_v1", required))
            \cup If(~nonpositive /\ disordered, Bad("daily_ohlc_v1", priced))
            \cup If((row.vol = 0) # (row.amount = 0), Bad("daily_volume_amount_v1", {"vol", "amount"}))
            \cup If(Finite(row.pre) /\ row.pre <= 0, Bad("daily_range_v1", {"pre"}))
            \cup If(Finite(row.pre) /\ row.pre > 0 /\ Finite(row.change) /\ row.close # row.pre + row.change,
                    Bad("daily_arithmetic_v1", {"close", "pre", "change"}))

\* check_adj_factor
CheckFactor(day, row) ==
  If(row.value = Missing \/ (Finite(row.value) /\ row.value <= 0),
     Manual("adj_factor", day, row, "adj_factor_positive_v1", {"value"}))

\* check_suspend_d, with parse_suspension_timing
CheckSuspension(day, row) ==
  If(row.type \notin {"S", "R"} \/ \E i \in row.intervals : i[1] >= i[2],
     Manual("suspend_d", day, row, "suspend_value_v1", {"type", "intervals"}))

\* check_trade_cal
CheckCalendarDay(day, row) ==
  If(row.exchange \notin {"SSE", "SZSE", "BSE"} \/ row.open \notin {0, 1},
     Manual("trade_cal", day, row, "trade_calendar_value_v1", {"exchange", "open"}))
CheckExchanges(day, rows) ==
  LET absent == {"SSE", "SZSE"} \ {r.exchange : r \in rows}
  IN If(absent # {}, OfDay("trade_cal", day, "calendar_exchange_coverage_v1", absent))

\* _formal_announcement_valid
FormalAnnouncement(end, announced) == end \in QuarterEnds /\ announced # Missing /\ announced >= end
ValidFlag(row) == row.flag \in {Missing, 0, 1}

\* _check_financial_statement
CheckStatement(day, row) ==
  If(~FormalAnnouncement(row.end, row.f_ann) \/ ~ValidFlag(row) \/ row.type \notin 1 .. 12 \/ row.comp = Missing,
     Manual("income", day, row, "income_value_v1", {"end", "ann", "f_ann", "type", "comp", "flag"}))

\* check_fina_indicator: an early old version goes if there is a formal one of the same report.
CheckIndicators(day, rows) ==
  LET Formal(r) == FormalAnnouncement(r.end, r.ann)
      rule == "fina_indicator_value_v1"
      Early(r) == /\ r.ann # Missing /\ r.ann < r.end /\ r.flag = 0
                  /\ \E s \in rows : s.code = r.code /\ s.end = r.end /\ Formal(s) /\ s.flag = 1
      Bad(r) == IF Early(r)
                THEN {Issue("fina_indicator", day, RowKey("fina_indicator", r), rule, "ERROR",
                            Fields(r, {"end", "ann", "flag"}), Delete)}
                ELSE Manual("fina_indicator", day, r, rule, {"end", "ann", "flag"})
  IN UNION {Bad(r) : r \in {x \in rows : ~Formal(x) \/ ~ValidFlag(x)}}

\* _check_table: what all tables are checked for, and then the table's own checks.
CheckTable(d, day, rows) ==
  LET Each(Check(_, _)) == UNION {Check(day, r) : r \in rows}
      keys == {RowKey(d, r) : r \in rows}
      Count(key) == Cardinality({r \in rows : RowKey(d, r) = key})
      Empty(r) == {f \in Required(d) : r[f] = Missing}
      Unbounded(r, f) == Issue(d, day, RowKey(d, r), "finite_float_v1", "ERROR", Fields(r, {f}),
                               IF f \in CriticalFloats(d) THEN SuggestedRefetch(d, r, day) ELSE Values([g \in {f} |-> Missing]))
      own == CASE d = "daily" -> Each(CheckDaily)
               [] d = "adj_factor" -> Each(CheckFactor)
               [] d = "suspend_d" -> Each(CheckSuspension)
               [] d = "trade_cal" -> Each(CheckCalendarDay) \cup CheckExchanges(day, rows)
               [] d = "income" -> Each(CheckStatement)
               [] d = "fina_indicator" -> CheckIndicators(day, rows)
  IN If(\E r \in rows : r[PartitionField(d)] # day, OfDay(d, day, "partition_value_v1", "rows"))
     \cup {Issue(d, day, key, "duplicate_key_v1", "ERROR", [count |-> Count(key)],
                 SuggestedRefetch(d, CHOOSE r \in rows : RowKey(d, r) = key, day)) : key \in {k \in keys : Count(k) > 1}}
     \cup (UNION {If(Empty(r) # {}, Manual(d, day, r, "required_value_v1", Empty(r))) : r \in rows})
     \cup (UNION {{Unbounded(r, f) : f \in {g \in Floats[d] : r[g] = NaN}} : r \in rows})
     \cup own

-----------------------------------------------------------------------------
(* The checks of a table *)

InScope(scope, day) == day <= scope.through /\ (scope.start # Missing => day >= scope.start)

\* The days _detect_dataset looks at, and those with a table that it could check.
Looked(lake, scope, d) == {day \in DaysIn(lake, d) : d \in MarketDate => InScope(scope, day)}
Observed(lake, scope, d) ==
  {day \in Looked(lake, scope, d) : lake[<<d, day>>].flaw = "none" /\ lake[<<d, day>>].rows # {}}

\* _detect_dataset, and the one more check of detect for a table without rows
DetectDataset(lake, scope, d) ==
  LET flawed == {day \in Looked(lake, scope, d) : lake[<<d, day>>].flaw # "none"}
      issues == (UNION {OfDay(d, day, FlawRule[lake[<<d, day>>].flaw], "flaw") : day \in flawed})
                  \cup UNION {CheckTable(d, day, lake[<<d, day>>].rows) : day \in Observed(lake, scope, d)}
      empty == scope.start = Missing /\ Observed(lake, scope, d) = {} /\ issues = {}
  IN issues \cup If(empty, {Issue(d, Missing, [dataset |-> d], "dataset_empty_v1", "ERROR", [count |-> 0], Nothing)})

\* The days of a table some other check reads: none if one manifest is not JSON.
Index(lake, scope, d) ==
  {day \in DaysIn(lake, d) : Parsable(lake, d) /\ InScope(scope, day) /\ lake[<<d, day>>].flaw # "missing_file"}

\* check_trade_calendar_series: every day is there, and each names the open day before it.
CalendarSeries(lake, scope) ==
  LET observed == Observed(lake, scope, "trade_cal")
      first == IF scope.start # Missing THEN scope.start ELSE Min(observed)
      absent == IF observed = {} THEN {} ELSE (first .. scope.through) \ observed
      index == Index(lake, [scope EXCEPT !.start = Missing], "trade_cal")
      OpenBefore(r, day) == {e \in index : e < day /\ \E s \in RowsOf(lake, "trade_cal", e) : s.exchange = r.exchange /\ s.open = 1}
      Wrong(r, day) == OpenBefore(r, day) # {} /\ r.pretrade # Max(OpenBefore(r, day))
  IN (UNION {OfDay("trade_cal", day, "calendar_date_coverage_v1", "missing") : day \in absent})
     \cup UNION {{Issue("trade_cal", day, RowKey("trade_cal", r), "calendar_pretrade_v1", "WARNING",
                        Fields(r, {"open", "pretrade"}), Refetch(day)) :
                    r \in {x \in RowsOf(lake, "trade_cal", day) : x.exchange \in {"SSE", "SZSE", "BSE"} /\ Wrong(x, day)}}
                 : day \in {x \in index : scope.start # Missing => x >= scope.start}}

\* _calendar_open_dates
OpenDates(lake, scope) ==
  {day \in Index(lake, scope, "trade_cal") : \E r \in RowsOf(lake, "trade_cal", day) : r.open = 1}

\* Bars and factors are there on the open days and on no others, as far as any are known.
DenseDays(lake, scope, d) ==
  LET actual == Observed(lake, scope, d)
      open == OpenDates(lake, scope)
      first == IF scope.start # Missing THEN scope.start ELSE Min(actual)
      expected == IF actual = {} /\ scope.start = Missing THEN {} ELSE {day \in open : first <= day}
  IN IF open = {} THEN {}
     ELSE (UNION {OfDay(d, day, "closed_market_partition_v1", "closed") : day \in actual \ open})
          \cup UNION {OfDay(d, day, "missing_market_partition_v1", "missing") : day \in expected \ actual}

\* Mutant: the factors of other days will do.
FactorsOfAnyDay(lake, scope) ==
  LET codes == UNION {{r.code : r \in RowsOf(lake, "adj_factor", day)} : day \in Index(lake, scope, "adj_factor")}
      Uncovered(day) == {r.code : r \in RowsOf(lake, "daily", day)} \ codes
  IN UNION {If(Uncovered(day) # {}, OfDay("adj_factor", day, "adj_factor_daily_coverage_v1", Uncovered(day)))
            : day \in Index(lake, scope, "daily")}

\* _check_daily_and_adj_factor: each bar has a factor of its day.
FactorCoverage(lake, scope) ==
  LET Coded(d, day) == IF day \in Index(lake, scope, d) THEN {r.code : r \in RowsOf(lake, d, day)} ELSE {}
      Uncovered(day) == Coded("daily", day) \ Coded("adj_factor", day)
  IN UNION {If(Uncovered(day) # {}, OfDay("adj_factor", day, "adj_factor_daily_coverage_v1", Uncovered(day)))
            : day \in Index(lake, scope, "daily")}

\* A manifest of the wrong form is an issue, but detect fails where active_partitions meets it.
DetectFails(lake, scope) ==
  \E key \in DOMAIN lake :
    /\ lake[key].flaw = "format" /\ Parsable(lake, key[1])
    /\ key[1] = "trade_cal" \/ (key[1] \in {"daily", "adj_factor"} /\ {"daily", "adj_factor"} \subseteq scope.datasets)

\* detect
Detected(lake, scope) ==
  (UNION {DetectDataset(lake, scope, d) : d \in scope.datasets})
  \cup If("trade_cal" \in scope.datasets, CalendarSeries(lake, scope))
  \cup (UNION {DenseDays(lake, scope, d) : d \in scope.datasets \cap DenseMarket})
  \cup If({"daily", "adj_factor"} \subseteq scope.datasets, FactorCoverage(lake, scope))

Errors(issues, d) == {i \in issues : i.dataset = d /\ i.severity = "ERROR"}
=============================================================================
