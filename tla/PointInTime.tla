----------------------------- MODULE PointInTime -----------------------------
(***************************************************************************)
(* market_data/adapters.py and the views of catalog.py: what each query    *)
(* answers at an instant, from the tables the catalog has loaded.  An      *)
(* instant is a day and one of a few times of the day; a row has the       *)
(* fields the queries choose by and one value for all the others.  `v` has *)
(* the views of the tables, `t` is the instant and `q` the request.  The   *)
(* three statements are one table here, as are forecast and  *)
(* express, and which columns are asked for and in which unit and order    *)
(* they come is left out.                                                  *)
(***************************************************************************)
EXTENDS Integers, FiniteSets, FiniteSetsExt, SecurityCodes

CONSTANTS
  Missing,        \* NULL
  SupportedFrom   \* _SW_INDUSTRY_SUPPORTED_FROM: the first day of the industry classes

\* The times of a day: midnight, 09:15, 09:25, 09:30, an hour of trading, 15:00, 16:05 and 17:05.
Times == 8
Midnight == 0
Auction == 1
PreOpen == 2
Open == 3
Trading == 4
Close == 5
DailyReady == 6
BasicReady == 7

\* _day_time
At(day, time) == day * Times + time
DayOf(t) == t \div Times
TimeOf(t) == t % Times

Answered(rows) == [ok |-> TRUE, rows |-> rows, why |-> ""]
Refused(why) == [ok |-> FALSE, rows |-> {}, why |-> why]

-----------------------------------------------------------------------------
(* The catalog *)

\* _IDENTITY_UNIQUE_KEYS
UniqueKey ==
  [daily |-> {"code", "date"}, adj_factor |-> {"code", "date"}, daily_basic |-> {"code", "date"},
   moneyflow |-> {"code", "date"}, stk_limit |-> {"code", "date"}, stock_basic |-> {"code"},
   qmt_daily |-> {"code", "date", "adjustment"}, qmt_intraday |-> {"code", "end", "adjustment"},
   dividend_factors |-> {"code", "ex"}]

\* _register_identity_views: a row is found under the first code of its security.
View(db, h, table) == {[r EXCEPT !.code = Canonical(h, r.code)] : r \in db[table]}

WithoutCodes == {"unavailable", "trade_cal", "suspend_ranges"}

\* adapter_connection: what the adapters read instead of the tables.
Views(db, h) ==
  [name \in DOMAIN db \cup {"checked"} |->
     IF name = "checked" THEN h # {}
     ELSE IF name \in WithoutCodes THEN db[name] ELSE View(db, h, name)]

\* Mutant: a conflict anywhere in the table is raised.
ConflictAnywhere(v, table, reached) ==
  /\ v.checked
  /\ \E r, s \in v[table] : r # s /\ \A key \in UniqueKey[table] : r[key] = s[key]

\* The check of a view with unique keys raises if rows of two aliases contradict each other
\* among those it reaches: what a query's conditions on columns of the key leave.  They are
\* applied below the check; its other conditions, and that on the symbols, are not.
Conflict(v, table, reached) ==
  /\ v.checked
  /\ \E r, s \in reached : r # s /\ \A key \in UniqueKey[table] : r[key] = s[key]

\* require_available, then _fetch from the views with their checks.
Fetch(v, gated, conflict, covered, rows) ==
  IF gated \cap v.unavailable # {} THEN Refused("unavailable")
  ELSE IF conflict THEN Refused("conflict")
  ELSE IF ~covered THEN Refused("unavailable")
  ELSE Answered(rows)

Every == [all |-> TRUE, codes |-> {}]
Only(codes) == [all |-> FALSE, codes |-> codes]

\* Mutant: the symbols are not mapped to those of the views.
AsNamed(h, q) == q

\* canonical_symbols: the codes asked for, as the views name them.
Mapping(h, q) == [q EXCEPT !.symbols.codes = {Canonical(h, c) : c \in @}]

\* $symbols IS NULL OR ts_code IN ...
WantedOf(rows, symbols) == {r \in rows : symbols.all \/ r.code \in symbols.codes}

\* _next_session_time: 09:25 of the first open day after, if the calendar has one.
OpenAfter(v, day) == {c.date : c \in {x \in v.trade_cal : x.open /\ x.date > day}}
Covered(v, days) == \A day \in days : OpenAfter(v, day) # {}
NextSessionAt(v, day) == At(Min(OpenAfter(v, day)), PreOpen)

-----------------------------------------------------------------------------
(* Bars *)

\* row_number() <= count, newest first.
Recent(rows, n, Newer(_, _)) ==
  {r \in rows : Cardinality({s \in rows : s.code = r.code /\ Newer(s, r)}) < n}
LaterDay(r, s) == r.date > s.date

\* Daily rows that are complete, at 16:05, of a range or of all days.
Completed(rows, t, q) ==
  {r \in rows : /\ At(r.date, DailyReady) <= t
                /\ q.count > 0 \/ (q.start <= At(r.date, Open) /\ At(r.date, Open) < q.end)}

\* The daily bars of a range or the last `count` of each symbol.
Daily(rows, t, q) ==
  LET completed == Completed(rows, t, q)
  IN IF q.count > 0 THEN Recent(completed, q.count, LaterDay) ELSE completed

\* A bar; its price is a fraction.
Bar(r, price) == [code |-> r.code, date |-> r.date, end |-> r.end, price |-> price]
DayBar(r) == [code |-> r.code, date |-> r.date, value |-> r.value, end |-> At(r.date, Close)]
Raw(rows) == {Bar(r, <<r.value, 1>>) : r \in rows}

AdjustedOr(fetched, invalid) == IF fetched.ok /\ invalid THEN Refused("unsupported") ELSE fetched

\* visible_factors
VisibleFactors(rows, t) == {f \in rows : At(f.date, PreOpen) <= t}

\* TushareAdapter._forward_daily_bars: price * factor / anchor.
TushareForward(v, t, raw, conflict) ==
  LET factors == VisibleFactors(v.adj_factor, t)
      OfDay(r) == {f \in factors : f.code = r.code /\ f.date = r.date}
      Anchor(code) == (CHOOSE f \in factors : f.code = code
                         /\ \A g \in factors : g.code = code => g.date <= f.date).value
      invalid == \E r \in raw : OfDay(r) = {} \/ Anchor(r.code) = 0
      Factor(r) == (CHOOSE f \in OfDay(r) : TRUE).value
  IN AdjustedOr(Fetch(v, {"daily", "adj_factor"}, conflict \/ Conflict(v, "adj_factor", factors), TRUE,
                  IF invalid THEN {}
                  ELSE {Bar(r, <<r.value * Factor(r), Anchor(r.code)>>) : r \in raw}), invalid)

\* TushareAdapter.daily_bars
TushareDaily(v, t, q) ==
  LET raw == {DayBar(r) : r \in Daily(WantedOf(v.daily, q.symbols), t, q)}
      conflict == Conflict(v, "daily", Completed(v.daily, t, q))
  IN IF q.forward THEN TushareForward(v, t, raw, conflict)
     ELSE Fetch(v, {"daily"}, conflict, TRUE, Raw(raw))

\* The last day whose factors may be used: today's from 09:25 on.
FactorEnd(t) == IF TimeOf(t) < PreOpen THEN DayOf(t) - 1 ELSE DayOf(t)

\* Mutant: a range that ends before the anchor will do.
FactorsSyncedBefore(ranges, code, date, anchor) ==
  date < anchor => \E g \in ranges : g.code = code /\ g.start <= date + 1 /\ anchor <= g.end + 1

\* One completed range of dividend_factors from the day after the bar to the anchor.
FactorsSynced(ranges, code, date, anchor) ==
  date < anchor => \E g \in ranges : g.code = code /\ g.start <= date + 1 /\ anchor <= g.end

\* The product of the dr of some factors.
Compounded(factors) == FoldSet(LAMBDA f, p : f.dr * p, 1, factors)

\* QmtAdapter._forward_bars: price / product of the dr of the days between.
QmtForward(v, t, raw, conflict) ==
  LET anchor == FactorEnd(t)
      ranges == v.factor_ranges
      factors == {f \in v.dividend_factors : f.ex <= anchor /\ At(f.ex, PreOpen) <= t}
      Applied(r) == {f \in factors : f.code = r.code /\ r.date < f.ex}
      Divisor(r) == Compounded(Applied(r))
      invalid == \E r \in raw : \/ \E f \in Applied(r) : f.dr <= 0
                                \/ ~FactorsSynced(ranges, r.code, r.date, anchor)
  IN AdjustedOr(Fetch(v, {}, conflict \/ Conflict(v, "dividend_factors", factors), TRUE,
                  {Bar(r, <<r.value, Divisor(r)>>) : r \in raw}), invalid)

\* adjustment = 'none'
Unadjusted(rows) == {r \in rows : r.adjustment = "none"}

\* QmtAdapter.daily_bars
QmtDaily(v, t, q) ==
  LET unadjusted == Unadjusted(v.qmt_daily)
      raw == {DayBar(r) : r \in Daily(WantedOf(unadjusted, q.symbols), t, q)}
      conflict == Conflict(v, "qmt_daily", Completed(unadjusted, t, q))
  IN IF q.forward THEN QmtForward(v, t, raw, conflict)
     ELSE Fetch(v, {}, conflict, TRUE, Raw(raw))

\* A bar is labelled with its end and begins one time of the day before, the one
\* labelled 09:30 with the auction.
StartOf(r) == IF TimeOf(r.end) = Open THEN At(r.date, Auction) ELSE r.end - 1

\* Intraday bars that have ended, of a range or of all times.
Ended(rows, t, q) ==
  {r \in rows : r.end <= t /\ (q.count > 0 \/ (q.start <= StartOf(r) /\ StartOf(r) < q.end))}
Intraday(rows, t, q) ==
  LET Newer(r, s) == r.end > s.end
      ended == Ended(rows, t, q)
  IN IF q.count > 0 THEN Recent(ended, q.count, Newer) ELSE ended

\* QmtAdapter.intraday_bars
QmtIntraday(v, t, q) ==
  LET unadjusted == Unadjusted(v.qmt_intraday)
      raw == Intraday(WantedOf(unadjusted, q.symbols), t, q)
      conflict == Conflict(v, "qmt_intraday", Ended(unadjusted, t, q))
  IN IF q.forward THEN QmtForward(v, t, raw, conflict)
     ELSE Fetch(v, {}, conflict, TRUE, Raw(raw))

\* TushareAdapter.current: the open from 09:30, the rest of the day from 16:05.
TushareCurrent(v, t, q) ==
  LET rows == {r \in v.daily : r.date = DayOf(t) /\ At(r.date, Open) <= t}
      Last(r) == IF At(r.date, DailyReady) <= t THEN r.value ELSE Missing
  IN Fetch(v, {"daily"}, Conflict(v, "daily", rows), TRUE,
       {[code |-> r.code, time |-> At(r.date, Open), open |-> r.open, last |-> Last(r)]
        : r \in WantedOf(rows, q.symbols)})

\* QmtAdapter.current: today's tick that was received last.
QmtCurrent(v, t, q) ==
  LET rows == {r \in WantedOf(v.qmt_ticks, q.symbols) : r.date = DayOf(t) /\ r.received <= t}
      Newer(r, s) == r.received > s.received \/ (r.received = s.received /\ r.seq > s.seq)
  IN Fetch(v, {}, FALSE, TRUE,
       {[code |-> r.code, time |-> r.event, last |-> r.value] : r \in Recent(rows, 1, Newer)})

-----------------------------------------------------------------------------
(* The other tables of a day *)

InDates(q, date) == q.start <= date /\ date < q.end
Payload(r) == [code |-> r.code, date |-> r.date, value |-> r.value]

\* daily_metrics
DailyMetrics(v, t, q) ==
  LET rows == {r \in v.daily_basic : InDates(q, r.date) /\ At(r.date, BasicReady) <= t}
  IN Fetch(v, {"daily_basic"}, Conflict(v, "daily_basic", rows), TRUE,
       {Payload(r) : r \in WantedOf(rows, q.symbols)})

\* moneyflow: the session after a row is looked up above the check.
Moneyflow(v, t, q) ==
  LET reached == {r \in v.moneyflow : InDates(q, r.date)}
      rows == WantedOf(reached, q.symbols)
  IN Fetch(v, {"moneyflow"}, Conflict(v, "moneyflow", reached), Covered(v, {r.date : r \in rows}),
       {Payload(r) : r \in {x \in rows : NextSessionAt(v, x.date) <= t}})

\* adjustment_factors
AdjustmentFactors(v, t, q) ==
  LET rows == {r \in v.adj_factor : InDates(q, r.date) /\ At(r.date, PreOpen) <= t}
  IN Fetch(v, {"adj_factor"}, Conflict(v, "adj_factor", rows), TRUE,
       {Payload(r) : r \in WantedOf(rows, q.symbols)})

\* What a row says from 09:25, or from the start of each of its intervals.
Events(rows, time) ==
  LET State(r, still) == IF r.type = "S" /\ still THEN "suspended"
                         ELSE IF r.type \in {"S", "R"} THEN "trading" ELSE "unknown"
  IN UNION {IF r.intervals = {} THEN {[start |-> PreOpen, state |-> State(r, TRUE)]}
            ELSE {[start |-> i[1], state |-> State(r, time < i[2])] : i \in r.intervals} : r \in rows}

\* Mutant: only the event that began last counts.
StateOfLast(rows, time, default) ==
  LET begun == {e \in Events(rows, time) : e.start <= time}
      latest == {e.state : e \in {x \in begun : \A y \in begun : y.start <= x.start}}
  IN IF begun = {} THEN default
     ELSE IF Cardinality(latest) = 1 THEN CHOOSE s \in latest : TRUE ELSE "unknown"

\* _suspension_status: an interval that is under way decides, else the event that
\* began last, or the default if none has.
SuspensionStatus(rows, time, default) ==
  LET begun == {e \in Events(rows, time) : e.start <= time}
      underway == \E r \in rows : r.type = "S" /\ \E i \in r.intervals : i[1] <= time /\ time < i[2]
      latest == {e.state : e \in {x \in begun : \A y \in begun : y.start <= x.start}}
  IN IF underway THEN "suspended"
     ELSE IF begun = {} THEN default
     ELSE IF Cardinality(latest) = 1 THEN CHOOSE s \in latest : TRUE ELSE "unknown"

\* Without a row a stock is known to trade if the day was synchronised and it is 09:25.
DefaultState(v, t) ==
  IF /\ \E g \in v.suspend_ranges : g.start <= DayOf(t) /\ DayOf(t) <= g.end
     /\ TimeOf(t) >= PreOpen
  THEN "trading" ELSE "unknown"

\* suspensions, one row for each symbol asked for.
Suspensions(v, t, q) ==
  LET rows == {r \in v.suspend_d : r.date = DayOf(t)}
      requested == IF q.symbols.all THEN {r.code : r \in rows} ELSE q.symbols.codes
  IN Fetch(v, {"suspend_d"}, FALSE, TRUE,
       {[code |-> c, suspended |-> SuspensionStatus({r \in rows : r.code = c}, TimeOf(t), DefaultState(v, t))]
        : c \in requested})

\* price_limits
PriceLimits(v, t, q) ==
  LET rows == {r \in v.stk_limit : r.date = DayOf(t) /\ At(r.date, PreOpen) <= t}
      Status(r) == IF 0 < r.down /\ r.down <= r.up THEN "limited" ELSE "unknown"
  IN Fetch(v, {"stk_limit"}, Conflict(v, "stk_limit", rows), TRUE,
       {[code |-> r.code, up |-> r.up, down |-> r.down, status |-> Status(r)] : r \in WantedOf(rows, q.symbols)})

\* st_status: the first of a symbol's types.
StStatus(v, t, q) ==
  LET rows == {r \in WantedOf(v.stock_st, q.symbols) : r.date = DayOf(t) /\ At(r.date, PreOpen) <= t}
      Newer(r, s) == r.type < s.type
  IN Fetch(v, {"stock_st"}, FALSE, TRUE,
       {[code |-> r.code, st |-> r.type] : r \in Recent(rows, 1, Newer)})

-----------------------------------------------------------------------------
(* Announcements *)

\* A null date or flag is Missing, below every other: NULLS LAST in a descending order.
Before(a, b) == \E i \in DOMAIN a : a[i] < b[i] /\ \A j \in 1 .. (i - 1) : a[j] = b[j]

\* row_number() = 1 of each group, by a descending rank.
Latest(rows, Same(_, _), Rank(_)) ==
  {r \in rows : \A s \in rows : Same(r, s) => ~Before(Rank(r), Rank(s))}

\* Adjusted consolidated statements (4) before ordinary ones (1) of the same dates.
StatementRank(r) == <<r.f_ann, r.ann, IF r.type = 4 THEN 1 ELSE 0, r.flag>>
\* Mutant: a statement of one kind of company replaces that of another.
SameStatementOfAny(r, s) == r.code = s.code /\ r.end = s.end

SameStatement(r, s) == r.code = s.code /\ r.end = s.end /\ r.comp = s.comp

InReports(q, end) == q.periods > 0 \/ (q.start <= end /\ end < q.end)

\* dense_rank() of the report's end <= periods.
InPeriods(rows, q, r) ==
  q.periods = 0 \/ Cardinality({s.end : s \in {x \in rows : x.code = r.code /\ x.end > r.end}}) < q.periods

\* The newest of the visible versions of each statement.
LatestStatements(v, t, rows) ==
  Latest({r \in rows : NextSessionAt(v, r.f_ann) <= t}, SameStatement, StatementRank)

\* statements and _statements: the company type is asked for after the periods are counted.
Statements(v, t, q) ==
  LET rows == {r \in WantedOf(v.income, q.symbols) :
                 r.f_ann # Missing /\ r.type \in {1, 4} /\ InReports(q, r.end)}
      latest == LatestStatements(v, t, rows)
  IN Fetch(v, {"income"}, FALSE, Covered(v, {r.f_ann : r \in rows}),
       {[code |-> r.code, end |-> r.end, visible |-> NextSessionAt(v, r.f_ann), f_ann |-> r.f_ann,
         comp |-> r.comp, value |-> r.value]
        : r \in {x \in latest : InPeriods(latest, q, x) /\ (q.comp = Missing \/ x.comp = q.comp)}})

AnnouncementRank(r) == <<r.ann, r.flag>>
SameReport(r, s) == r.code = s.code /\ r.end = s.end
Announced(v, r) ==
  [code |-> r.code, end |-> r.end, visible |-> NextSessionAt(v, r.ann), ann |-> r.ann, value |-> r.value]

\* financial_indicators
Indicators(v, t, q) ==
  LET rows == {r \in WantedOf(v.fina_indicator, q.symbols) : r.ann # Missing /\ InReports(q, r.end)}
      latest == Latest({r \in rows : NextSessionAt(v, r.ann) <= t}, SameReport, AnnouncementRank)
  IN Fetch(v, {"fina_indicator"}, FALSE, Covered(v, {r.ann : r \in rows}),
       {Announced(v, r) : r \in {x \in latest : InPeriods(latest, q, x)}})

\* disclosures and _disclosures; audit reports have no update flag to rank by.
Disclosures(v, t, q) ==
  LET rows == {r \in WantedOf(v[q.kind], q.symbols) : r.ann # Missing}
      Within(r) == LET at == NextSessionAt(v, r.ann) IN at <= t /\ q.start <= at /\ at <= q.end
      Rank(r) == IF q.kind = "fina_audit" THEN <<r.ann>> ELSE AnnouncementRank(r)
  IN Fetch(v, {q.kind}, FALSE, Covered(v, {r.ann : r \in rows}),
       {Announced(v, r) : r \in Latest({x \in rows : Within(x)}, SameReport, Rank)})

Implemented(r) == r.proc = "implemented"
VersionDate(r) == IF Implemented(r) THEN r.imp_ann ELSE r.ann

\* The dates of an implementation are those of its own announcement.
DividendDate(r, date) == IF Implemented(r) THEN date ELSE Missing

\* dividends: every version that has been announced, and only what came before today.
Dividends(v, t, q) ==
  LET rows == {r \in WantedOf(v.dividend, q.symbols) :
                 VersionDate(r) # Missing /\ VersionDate(r) < DayOf(t)}
      Within(r) == LET at == NextSessionAt(v, VersionDate(r)) IN at <= t /\ q.start <= at /\ at <= q.end
  IN Fetch(v, {"dividend"}, FALSE, Covered(v, {VersionDate(r) : r \in rows}),
       {[code |-> r.code, visible |-> NextSessionAt(v, VersionDate(r)), end |-> r.end, proc |-> r.proc,
         ann |-> r.ann, ex |-> DividendDate(r, r.ex), imp_ann |-> DividendDate(r, r.imp_ann),
         value |-> r.value] : r \in {x \in rows : Within(x)}})

\* implemented_dividends and security_lifecycles: facts for the account, whatever the instant.
ImplementedDividends(v, q) ==
  Fetch(v, {"dividend"}, FALSE, TRUE,
    {r \in WantedOf(v.dividend, q.symbols) : Implemented(r)})
SecurityLifecycles(v, q) ==
  Fetch(v, {"stock_basic"}, Conflict(v, "stock_basic", v.stock_basic), TRUE,
    {[code |-> r.code, list |-> r.list, delist |-> r.delist] : r \in WantedOf(v.stock_basic, q.symbols)})

-----------------------------------------------------------------------------
(* Classes, stocks and the calendar *)

\* industry: the class a symbol entered last and has not left.
Industry(v, t, q) ==
  LET rows == {r \in WantedOf(v.sw_industry, q.symbols) : At(r.in, PreOpen) <= t /\ DayOf(t) < r.out}
      Newer(r, s) == r.in > s.in
  IN IF "sw_industry" \in v.unavailable \/ t < At(SupportedFrom, PreOpen) THEN Refused("unavailable")
     ELSE Fetch(v, {}, FALSE, TRUE,
            {[code |-> r.code, value |-> r.value] : r \in Recent(rows, 1, Newer)})

\* Listed at 09:25 of the first day, and no more on the day of the delisting.
ListedAt(r, t) == At(r.list, PreOpen) <= t /\ DayOf(t) < r.delist

\* stocks, with the filters on constant columns left out; the check sees all rows.
ListedStocks(v, t) ==
  Fetch(v, {"stock_basic"}, Conflict(v, "stock_basic", v.stock_basic), TRUE,
    {[code |-> r.code, list |-> r.list] : r \in {x \in v.stock_basic : ListedAt(x, t)}})

\* sessions: days up to today
Sessions(v, t, q) ==
  Fetch(v, {"trade_cal"}, FALSE, TRUE,
    {c \in v.trade_cal : c.date <= DayOf(t) /\ InDates(q, c.date) /\ c.exchange = q.exchange})

\* previous_session: the last open day before today
PreviousSession(v, t, q) ==
  LET open == {c.date : c \in {x \in v.trade_cal : x.open /\ x.date < DayOf(t) /\ x.exchange = q.exchange}}
  IN Fetch(v, {"trade_cal"}, FALSE, TRUE, {[date |-> d] : d \in {e \in open : \A f \in open : f <= e}})
=============================================================================
