---------------------------- MODULE MarketReader ----------------------------
(***************************************************************************)
(* market_data/reader.py over data that grow and are revised: DataView     *)
(* checks a request, picks the source's adapter and gives the rows the     *)
(* code that is traded on the day of the view.  A step stores one row of   *)
(* what the world has; the catalog is refreshed after each.  Every method  *)
(* is an operator that is evaluated for all requests and instants.         *)
(***************************************************************************)
EXTENDS PointInTime, TLC

CONSTANTS
  Worlds,     \* a sequence of [codes, start, pool, queries]: a history of codes, the tables there
              \* are at first, the rows [table, row, needs] that may come, and the requests made
  Instants,   \* the as_of times
  MaxRows     \* max_result_rows

VARIABLES
  world,  \* which of the worlds this is
  db      \* the tables the catalog has loaded
readerVars == <<world, db>>

ASSUME InstantsAssumption == Instants \subseteq Nat

\* NULLS LAST in a descending order
ASSUME MissingAssumption == Missing \in Int /\ Missing < 0

World == Worlds[world]
History == World.codes

-----------------------------------------------------------------------------
(* DataView *)

\* DataView._symbols, before anything is read.  A code without a history maps to itself.
ForSymbols(h, q, answer) == IF Mapped(h, q.symbols.codes) THEN answer ELSE Refused("unmapped")

\* DataView._result without a symbol: an answer that is too long is refused.
Within(answer) ==
  IF answer.ok /\ Cardinality(answer.rows) > MaxRows THEN Refused("too large") ELSE answer

\* A row with the sid of its security, under one of its codes.
WithSid(h, r, code) == [field \in DOMAIN r \cup {"code", "sid"} |->
  IF field = "sid" THEN Sid(h, r.code) ELSE IF field = "code" THEN code ELSE r[field]]

\* DataView._result: each row under the code of the day, beside its sid.
Result(h, t, answer) ==
  LET Known(r) == r.code \in KnownCodes(h) /\ HasCodeAt(h, Sid(h, r.code), DayOf(t))
      Shown(r) == WithSid(h, r, CodeAt(h, Sid(h, r.code), DayOf(t)))
  IN IF h = {} \/ ~answer.ok THEN Within(answer)
     ELSE IF \E r \in answer.rows : ~Known(r) THEN Refused("unmapped")
     ELSE Within(Answered({Shown(r) : r \in answer.rows}))

\* DataAdapter: a source has only the queries its adapter defines.
From(source, sources, answer) == IF source \in sources THEN answer ELSE Refused("unsupported")
Tushare(q, answer) == From(q.source, {"tushare"}, answer)

UpTo(q, default) == IF q.end = Missing THEN [q EXCEPT !.end = default] ELSE q
Checked(valid, h, q, answer) == IF valid THEN ForSymbols(h, q, answer) ELSE Refused("invalid")

-----------------------------------------------------------------------------
(* The readers *)

\* MarketReader.bars
Bars(v, h, t, request) ==
  LET q == UpTo(request, t)
      valid == q.count > 0 \/ (q.start < q.end /\ q.end <= t)
      answer == IF q.frequency = "1d"
                THEN IF q.source = "tushare" THEN TushareDaily(v, t, q) ELSE QmtDaily(v, t, q)
                ELSE From(q.source, {"qmt"}, QmtIntraday(v, t, q))
  IN Checked(valid, h, q, Result(h, t, answer))

\* MarketReader.current
CurrentQuotes(v, h, t, q) ==
  Checked(TRUE, h, q, Result(h, t,
    IF q.source = "tushare" THEN TushareCurrent(v, t, q) ELSE QmtCurrent(v, t, q)))

\* MarketReader.status: a row for each symbol asked for, from three tables.
Status(v, h, t, q) ==
  LET parts == <<Suspensions(v, t, q), PriceLimits(v, t, q), StStatus(v, t, q)>>
      failed == {i \in 1 .. 3 : ~parts[i].ok}
      codes == q.symbols.codes \cup UNION {{r.code : r \in parts[i].rows} : i \in 1 .. 3}
      Of(i, c) == {r \in parts[i].rows : r.code = c}
      Field(i, c, Get(_), none) == IF Of(i, c) = {} THEN none ELSE Get(CHOOSE r \in Of(i, c) : TRUE)
      Row(c) == [code |-> c,
                 suspended |-> Field(1, c, LAMBDA r : r.suspended, "unknown"),
                 limits |-> Field(2, c, LAMBDA r : r.status, "unknown"),
                 up |-> Field(2, c, LAMBDA r : r.up, Missing),
                 down |-> Field(2, c, LAMBDA r : r.down, Missing),
                 st |-> Field(3, c, LAMBDA r : r.st, Missing)]
  IN Checked(~q.symbols.all, h, q, Tushare(q,
       IF failed # {} THEN parts[Min(failed)] ELSE Result(h, t, Answered({Row(c) : c \in codes}))))

\* MarketReader.daily_metrics and moneyflow
DayTable(v, h, t, request) ==
  LET q == UpTo(request, DayOf(t) + 1)
      answer == IF q.route = "daily_metrics" THEN DailyMetrics(v, t, q) ELSE Moneyflow(v, t, q)
  IN Checked(q.start < q.end, h, q, Tushare(q, Result(h, t, answer)))

\* FundamentalsReader.statements and indicators: the last periods, or a range of report ends
Reports(v, h, t, request) ==
  LET q == UpTo(request, Never)
      answer == IF q.route = "statements" THEN Statements(v, t, q) ELSE Indicators(v, t, q)
  IN Checked(q.periods > 0 \/ q.start < q.end, h, q, Tushare(q, Result(h, t, answer)))

\* FundamentalsReader.disclosures and CorporateActionsReader.dividends: what became visible in a range
Announcements(v, h, t, request) ==
  LET q == UpTo(request, t)
      answer == IF q.route = "disclosures" THEN Disclosures(v, t, q) ELSE Dividends(v, t, q)
  IN Checked(q.end <= t /\ q.start <= q.end, h, q, Tushare(q, Result(h, t, answer)))

\* CorporateActionsReader.adjustment_factors
Factors(v, h, t, request) ==
  LET q == UpTo(request, Never)
  IN Checked(q.start < q.end, h, q, Tushare(q, Result(h, t, AdjustmentFactors(v, t, q))))

\* ClassificationReader.industry
IndustryOf(v, h, t, q) == Checked(TRUE, h, q, Tushare(q, Result(h, t, Industry(v, t, q))))

\* ReferenceReader.stocks
StockPool(v, h, t, q) == Tushare(q, Result(h, t, ListedStocks(v, t)))

\* CalendarReader.sessions and previous_session
Calendar(v, h, t, request) ==
  LET q == UpTo(request, DayOf(t) + 1)
  IN IF q.start < q.end THEN Tushare(q, Within(Sessions(v, t, q))) ELSE Refused("invalid")
LastSession(v, h, t, q) == Tushare(q, PreviousSession(v, t, q))

\* DataReader.implemented_dividends and security_lifecycles: for the account, with the sid
\* beside the source's canonical code.
ForAccount(h, answer) ==
  IF h = {} \/ ~answer.ok THEN Within(answer)
  ELSE IF {r.code : r \in answer.rows} \subseteq KnownCodes(h)
  THEN Within(Answered({WithSid(h, r, r.code) : r \in answer.rows}))
  ELSE Refused("unmapped")

\* The answer of a view at t to a request whose codes have been mapped.
Read(v, h, t, q) ==
  CASE q.route = "bars" -> Bars(v, h, t, q)
    [] q.route = "current" -> CurrentQuotes(v, h, t, q)
    [] q.route = "status" -> Status(v, h, t, q)
    [] q.route \in {"daily_metrics", "moneyflow"} -> DayTable(v, h, t, q)
    [] q.route \in {"statements", "indicators"} -> Reports(v, h, t, q)
    [] q.route \in {"disclosures", "dividends"} -> Announcements(v, h, t, q)
    [] q.route = "factors" -> Factors(v, h, t, q)
    [] q.route = "industry" -> IndustryOf(v, h, t, q)
    [] q.route = "stocks" -> StockPool(v, h, t, q)
    [] q.route = "sessions" -> Calendar(v, h, t, q)
    [] q.route = "previous_session" -> LastSession(v, h, t, q)
    [] q.route = "lifecycles" -> ForAccount(h, SecurityLifecycles(v, q))
    [] q.route = "implemented" -> ForAccount(h, ImplementedDividends(v, q))

Routes ==
  {"bars", "current", "status", "daily_metrics", "moneyflow", "statements", "indicators", "disclosures",
   "dividends", "factors", "industry", "stocks", "sessions", "previous_session", "lifecycles", "implemented"}

\* DataReader.at, with the catalog loaded from these tables.
Answer(d, h, t, q) == Read(Views(d, h), h, t, Mapping(h, q))

-----------------------------------------------------------------------------
(* Data that come *)

\* TABLE_PRIMARY_KEY with the partition's date: a row replaces the one of its key.
Key ==
  [daily |-> {"code", "date"}, adj_factor |-> {"code", "date"}, daily_basic |-> {"code", "date"},
   moneyflow |-> {"code", "date"}, suspend_d |-> {"code", "date", "type", "intervals"},
   stk_limit |-> {"code", "date"}, stock_st |-> {"code", "date", "type"},
   income |-> {"code", "end", "type", "comp", "ann", "f_ann"}, fina_indicator |-> {"code", "end", "ann"},
   forecast |-> {"code", "end", "ann"}, fina_audit |-> {"code", "end", "ann"},
   dividend |-> {"code", "end", "ann", "proc", "imp_ann"}, sw_industry |-> {"code", "in"},
   stock_basic |-> {"code", "list"}, trade_cal |-> {"date", "exchange"}, suspend_ranges |-> {"start", "end"},
   qmt_daily |-> {"code", "date", "adjustment"}, qmt_intraday |-> {"code", "end", "adjustment"},
   qmt_ticks |-> {"code", "event"}, dividend_factors |-> {"code", "ex"}, factor_ranges |-> {"code", "start", "end"}]
Tables == DOMAIN Key

\* What a row is chosen or shown by beside its key, and the fields of a day or an instant.
Beside ==
  [daily |-> {"open"}, qmt_ticks |-> {"received"}, qmt_intraday |-> {"date"}, sw_industry |-> {"out", "value"},
   stock_basic |-> {"delist"}, trade_cal |-> {"open"}, dividend |-> {"ex", "value"}]
Dated ==
  [daily |-> {"date"}, adj_factor |-> {"date"}, daily_basic |-> {"date"}, moneyflow |-> {"date"}, suspend_d |-> {"date"},
   stk_limit |-> {"date"}, stock_st |-> {"date"}, sw_industry |-> {"in", "out"}, stock_basic |-> {"list", "delist"},
   trade_cal |-> {"date"}, suspend_ranges |-> {"start", "end"}, qmt_daily |-> {"date"},
   qmt_intraday |-> {"date", "end"}, qmt_ticks |-> {"received"}, dividend_factors |-> {"ex"}, factor_ranges |-> {"start"}]

\* Dates that may be null, and flags.
Nullable ==
  [income |-> {"f_ann", "ann", "flag"}, fina_indicator |-> {"ann", "flag"}, forecast |-> {"ann", "flag"},
   fina_audit |-> {"ann"}, dividend |-> {"ann", "imp_ann"}]

\* The sid is only put beside a row in an answer.
IsRow(table, r) ==
  /\ r = [field \in DOMAIN r |-> r[field]] /\ Key[table] \subseteq DOMAIN r /\ "sid" \notin DOMAIN r
  /\ table \in DOMAIN Beside => Beside[table] \subseteq DOMAIN r
  /\ table \in DOMAIN Dated => \A field \in Dated[table] : r[field] \in Nat
  /\ table \in DOMAIN Nullable => \A field \in Nullable[table] : field \in DOMAIN r /\ r[field] \in Nat \cup {Missing}
  /\ table = "suspend_d" => \A interval \in r.intervals : interval[1] \in Nat

\* A request for everything of a range, not for the last bars or periods of it.
IsLasting(q) ==
  /\ q.route \in {"bars", "daily_metrics", "moneyflow", "statements", "indicators", "disclosures", "dividends", "factors"}
  /\ q.count = 0 /\ q.periods = 0

IsRequest(q) ==
  /\ {"route", "source", "symbols", "start", "end", "count", "forward", "frequency", "periods", "comp", "kind",
      "lasting"} \subseteq DOMAIN q
  /\ q.route \in Routes /\ "codes" \in DOMAIN q.symbols
  /\ q.route = "disclosures" => q.kind \in {"forecast", "fina_audit"}
  /\ q.lasting => IsLasting(q)

\* The rows that there may be in a world.
RowsOf(w, table) == w.start[table] \cup {c.row : c \in {x \in w.pool : x.table = table}}

SameKey(table, r, s) == \A field \in Key[table] : r[field] = s[field]

\* The days and times in histories and rows are numbers, and no key is stored twice.
ASSUME WorldsAssumption ==
  \A i \in DOMAIN Worlds :
    LET w == Worlds[i] IN
    /\ w.codes = {} \/ Accepts(w.codes)
    /\ \A c \in w.codes : c.from \in Nat
    /\ DOMAIN w.start = Tables \cup {"unavailable"}
    /\ \A c \in w.pool : c.table \in Tables
    /\ \A table \in Tables : \A r \in RowsOf(w, table) : IsRow(table, r)
    /\ \A table \in Tables : IsFiniteSet(w.start[table]) /\ \A r, s \in w.start[table] : SameKey(table, r, s) => r = s
    /\ \A q \in w.queries : IsRequest(q)

ReaderInit ==
  /\ world \in DOMAIN Worlds
  /\ db = World.start

\* TABLE_DEDUPLICATE_PREFER_BY: of the ticks of one time the one received last stays.  Where
\* it is update_flag, which versions come one after the other is up to the vendor.
Preferred(table, r, s) == table = "qmt_ticks" /\ SameKey(table, r, s) /\ s.received < r.received

\* A row is stored, new or in place of an older version, and the catalog refreshed.
Store(change) ==
  /\ change.row \notin db[change.table]
  /\ \A needed \in change.needs : needed[2] \in db[needed[1]]
  /\ \A r \in db[change.table] : ~Preferred(change.table, r, change.row)
  /\ db' = [db EXCEPT ![change.table] =
              {r \in @ : ~SameKey(change.table, r, change.row)} \cup {change.row}]
  /\ UNCHANGED world

ReaderNext == \E change \in World.pool : Store(change)

ReaderSpec == ReaderInit /\ [][ReaderNext]_readerVars
-----------------------------------------------------------------------------
(* Properties *)

ReaderTypeOK ==
  /\ DOMAIN db = Tables \cup {"unavailable"}
  /\ \A table \in Tables : db[table] \subseteq RowsOf(World, table)

\* The instant from which a row, stored in place of the rows `old`, may be known: the
\* table of visible_at in docs/market_data.md.  A row without its date, or a statement
\* from before an adjustment, never is; a date filled in later is known on that date.  A tick
\* that is received again replaces the first one, also for the instants in between.
VisibleAt(d, table, r, old) ==
  LET NextOpens(day) == {At(c.date, PreOpen) : c \in {x \in d.trade_cal : x.open /\ x.date > day}}
      Session(day) == IF NextOpens(day) = {} THEN 0 ELSE Min(NextOpens(day))
      Announcement(day) == IF day = Missing THEN At(Never, 0) ELSE Session(day)
      OnlyLastDate(field) == \E o \in old : [o EXCEPT ![field] = r[field]] = r
      Earliest(field) == At(Min({r[field]} \cup {o[field] : o \in old}), Midnight)
  IN CASE table = "daily" -> IF \E o \in old : o.open = r.open THEN At(r.date, DailyReady) ELSE At(r.date, Open)
       [] table = "qmt_daily" -> At(r.date, DailyReady)
       [] table = "daily_basic" -> At(r.date, BasicReady)
       [] table \in {"adj_factor", "stk_limit", "stock_st"} -> At(r.date, PreOpen)
       [] table = "moneyflow" -> Session(r.date)
       [] table = "suspend_d" -> At(r.date, IF r.intervals = {} THEN PreOpen ELSE Min({i[1] : i \in r.intervals}))
       [] table = "income" -> IF r.type \in {1, 4} THEN Announcement(r.f_ann) ELSE At(Never, 0)
       [] table \in {"fina_indicator", "forecast", "fina_audit"} -> Announcement(r.ann)
       [] table = "dividend" -> IF ~Implemented(r) /\ OnlyLastDate("ex") THEN At(Never, 0)
                                ELSE Announcement(VersionDate(r))
       [] table = "sw_industry" -> IF OnlyLastDate("out") THEN Earliest("out") ELSE At(r.in, PreOpen)
       [] table = "stock_basic" -> IF OnlyLastDate("delist") THEN Earliest("delist") ELSE At(r.list, PreOpen)
       [] table = "trade_cal" -> At(r.date, Midnight)
       [] table \in {"suspend_ranges", "factor_ranges"} -> At(r.start, PreOpen)
       [] table = "qmt_intraday" -> r.end
       [] table = "qmt_ticks" -> Min({r.received} \cup {o.received : o \in old})
       [] table = "dividend_factors" -> At(r.ex, PreOpen)

Stored(table) == db'[table] \ db[table]
Dropped(table) == db[table] \ db'[table]

\* Views of the account, which may see what is still to come.
ForAccountOnly == {"lifecycles", "implemented"}

\* Queries whose check for conflicts reaches what is not yet visible: all stocks, the flows of
\* a range whose next session is to come, and of a daily row also the close.
ChecksAhead == {"stocks", "moneyflow", "current"}

\* An answer is withheld as unavailable while the calendar has no next open day, and by a
\* query that checks ahead as a conflict.
MayBeWithheld(q) == {"unavailable"} \cup (IF q.route \in ChecksAhead THEN {"conflict"} ELSE {})

\* A row or a revision that becomes visible after t changes no answer at t, nor does a
\* conflict between two codes of a security that it brings: nothing a strategy reads comes
\* from its future, and a decision can be repeated later on.
AnswersStand ==
  [][\A t \in Instants :
       (\A table \in Tables : \A r \in Stored(table) : t < VisibleAt(db', table, r, Dropped(table)))
       => \A q \in World.queries \ {x \in World.queries : x.route \in ForAccountOnly} :
            LET before == Answer(db, History, t, q)
                after == Answer(db', History, t, q)
            IN before = after \/ {before.why, after.why} \cap MayBeWithheld(q) # {}]_readerVars

\* Forward-adjusted bars of the two sources have the same returns, and the same prices
\* if Tushare's factor of the day is there: cumulative factors over an anchor and a
\* product of single divisors, checked for completeness by one range, come to the same.
SourcesAgree ==
  ReaderTypeOK /\ \A t \in Instants : \A q \in World.queries :
    (q.route = "bars" /\ q.forward /\ q.source = "tushare" /\ q.frequency = "1d") =>
      LET a == Answer(db, History, t, q)
          b == Answer(db, History, t, [q EXCEPT !.source = "qmt"])
          SameDays == {p \in a.rows \X b.rows : p[1].code = p[2].code /\ p[1].date = p[2].date}
          anchored == \A p \in SameDays : \E f \in db.adj_factor : f.code = p[1].code /\ f.date = FactorEnd(t)
      IN (a.ok /\ b.ok) =>
           /\ \A p, r \in SameDays : p[1].code = r[1].code =>
                p[1].price[1] * p[2].price[2] * r[1].price[2] * r[2].price[1]
                  = r[1].price[1] * r[2].price[2] * p[1].price[2] * p[2].price[1]
           /\ anchored => \A p \in SameDays : p[1].price[1] * p[2].price[2] = p[2].price[1] * p[1].price[2]

\* All rows of a security under one of its codes.
Relabelled(d, code) ==
  [table \in Tables \cup {"unavailable"} |->
     IF table \in WithoutCodes THEN d[table]
     ELSE {IF r.code \in Aliases(History, Sid(History, code)) THEN [r EXCEPT !.code = code] ELSE r : r \in d[table]}]

\* Which code of a security a request names and under which the source stored each row
\* changes no answer; and what is shown is a code in force on the day of the view.
AliasesAgree ==
  \A code \in KnownCodes(History) :
    LET other == Relabelled(db, code)
        aliases == Aliases(History, Sid(History, code))
    IN \A t \in Instants : \A q \in World.queries :
         LET a == Answer(db, History, t, q)
             Renamed == [q EXCEPT !.symbols.codes = IF @ \cap aliases = {} THEN @ ELSE (@ \ aliases) \cup {code}]
         IN /\ a = Answer(other, History, t, Renamed)
            /\ (a.ok /\ q.route \notin ForAccountOnly) =>
                 \A r \in a.rows : "sid" \in DOMAIN r => \E i \in History : i.code = r.code /\ InForce(i, r.sid, DayOf(t))

\* A stock is said to trade only if no stored interval of a suspension is under way, if
\* its rows of the day do not all say suspended, and if, without a row, the day has
\* been synchronised.
NotTradingWhileSuspended ==
  \A t \in Instants : \A q \in World.queries :
    LET a == Answer(db, History, t, q)
        Today(code) == {r \in db.suspend_d : Canonical(History, r.code) = Canonical(History, code) /\ r.date = DayOf(t)}
    IN (q.route = "status" /\ a.ok) =>
         \A s \in a.rows : s.suspended = "trading" =>
           /\ TimeOf(t) >= PreOpen \/ \E r \in Today(s.code) : \E i \in r.intervals : i[1] <= TimeOf(t)
           /\ \A r \in Today(s.code) : r.type = "S" => ~\E i \in r.intervals : i[1] <= TimeOf(t) /\ TimeOf(t) < i[2]
           /\ Today(s.code) # {} => \E r \in Today(s.code) : r.type # "S" \/ r.intervals # {}
           /\ (\A r \in Today(s.code) : \A i \in r.intervals : TimeOf(t) < i[1]) /\ (\A r \in Today(s.code) : r.intervals # {})
                => DayOf(t) \in UNION {g.start .. g.end : g \in db.suspend_ranges}

\* What identifies a row from one view to a later one, and the age of its version.  Of a
\* dividend every version is shown, so the date of a version identifies it.
Identity(r) ==
  LET fields == {"sid", "end", "comp", "date", "proc", "imp_ann"} \cup (IF "proc" \in DOMAIN r THEN {"ann"} ELSE {})
  IN [field \in (DOMAIN r \cap fields) \cup {"security"} |->
        IF field = "security" THEN Canonical(History, r.code) ELSE r[field]]
VersionOf(r) == IF "visible" \in DOMAIN r THEN r.visible ELSE 0

\* A view shows one version of a row, and what it has shown a later one shows too, in the
\* same or a later version: no report, announcement or bar falls out because of rows that
\* became visible in between.
NothingForgotten ==
  \A t, u \in Instants : \A q \in {x \in World.queries : x.lasting} : t < u =>
    LET a == Answer(db, History, t, q)
        b == Answer(db, History, u, q)
    IN /\ a.ok => \A r, s \in a.rows : Identity(r) = Identity(s) => r = s
       /\ (a.ok /\ b.ok) =>
         \A r \in a.rows : \E s \in b.rows : Identity(s) = Identity(r) /\ VersionOf(s) >= VersionOf(r)
=============================================================================
