--------------------------- MODULE MCMarketReader ---------------------------
\* Five days of which the third is a holiday, and a world for each group of tables:
\* what there is at first, what may come in any order, and the requests made.
EXTENDS MarketReader

Null == -1
Bare == [table \in Tables \cup {"unavailable"} |-> {}]
CalDay(d) == [date |-> d, exchange |-> "SSE", open |-> d # 3]
With(calendar, start) == start @@ [trade_cal |-> {CalDay(d) : d \in calendar}] @@ Bare
Comes(table, row) == [table |-> table, row |-> row, needs |-> {}]
ComesAfter(table, row, needs) == [table |-> table, row |-> row, needs |-> needs]

Ask(route, symbols, options) ==
  options @@ [route |-> route, source |-> "tushare", symbols |-> symbols, start |-> 0, end |-> Null,
              count |-> 0, forward |-> FALSE, frequency |-> "1d", periods |-> 0, comp |-> Null,
              kind |-> "", exchange |-> "SSE", lasting |-> FALSE]
A == Only({"a"})

\* Prices of both sources: the price falls to a half on day 2 and to a third on day 4.
Price == <<12, 6, 0, 2, 2>>
Cumulative == <<1, 2, 2, 6, 6>>
DailyRow(code, d) == [code |-> code, date |-> d, open |-> Price[d], value |-> Price[d] + d]
Factor(code, d) == [code |-> code, date |-> d, value |-> Cumulative[d]]
QmtRow(d) == [code |-> "a", date |-> d, adjustment |-> "none", value |-> Price[d] + d]
Divisors(d) == [code |-> "a", ex |-> d, dr |-> IF d = 2 THEN 2 ELSE 3]
Synced(from, to) == [code |-> "a", start |-> from, end |-> to]
Needed(d) == <<"dividend_factors", Divisors(d)>>

Prices ==
  [codes |-> {},
   start |-> With(1 .. 5, [daily |-> {DailyRow("a", 1), DailyRow("a", 2)}, adj_factor |-> {Factor("a", 1), Factor("a", 2)},
                           qmt_daily |-> {QmtRow(1), QmtRow(2)}]),
   pool |-> {Comes("daily", DailyRow("a", 4)), Comes("adj_factor", Factor("a", 4)), Comes("qmt_daily", QmtRow(4)),
             Comes("dividend_factors", Divisors(2)), Comes("dividend_factors", Divisors(4)),
             Comes("factor_ranges", Synced(1, 1)), ComesAfter("factor_ranges", Synced(1, 2), {Needed(2)}),
             ComesAfter("factor_ranges", Synced(1, 4), {Needed(2), Needed(4)})},
   queries |-> {Ask("bars", A, [count |-> 2]), Ask("bars", A, [forward |-> TRUE, lasting |-> TRUE]),
                Ask("bars", A, [forward |-> TRUE, count |-> 1]),
                Ask("bars", A, [forward |-> TRUE, source |-> "qmt"]), Ask("current", A, << >>),
                Ask("factors", A, [lasting |-> TRUE])}]

\* Minute bars and ticks of day 2.
Minute(time) == [code |-> "a", date |-> 2, end |-> At(2, time), adjustment |-> "none", value |-> 6]
Tick(seq, event, received) ==
  [code |-> "a", seq |-> seq, date |-> 2, event |-> At(2, event), received |-> At(2, received), value |-> seq]
Intradays ==
  [codes |-> {},
   start |-> With(1 .. 5, [qmt_intraday |-> {[Minute(Trading) EXCEPT !.date = 1, !.end = At(1, Trading)]}]),
   pool |-> {Comes("qmt_intraday", Minute(Open)), Comes("qmt_intraday", Minute(Trading)),
             Comes("dividend_factors", Divisors(2)), ComesAfter("factor_ranges", Synced(1, 2), {Needed(2)}),
             Comes("qmt_ticks", Tick(1, Trading, Close)), Comes("qmt_ticks", Tick(2, Open, Trading)),
             Comes("qmt_ticks", Tick(3, Open, Close)), Comes("qmt_ticks", Tick(4, Auction, Trading))},
   queries |-> {Ask("bars", A, [source |-> "qmt", frequency |-> "60m", lasting |-> TRUE]),
                Ask("bars", A, [source |-> "qmt", frequency |-> "60m", forward |-> TRUE, count |-> 1]),
                Ask("bars", A, [frequency |-> "60m"]), Ask("current", A, [source |-> "qmt"])}]

\* The state of a stock on day 2.
Suspension(type, intervals) == [code |-> "a", date |-> 2, type |-> type, intervals |-> intervals]
States ==
  [codes |-> {}, start |-> With(1 .. 5, << >>),
   pool |-> {Comes("suspend_d", Suspension("S", {})), Comes("suspend_d", Suspension("R", {})),
             Comes("suspend_d", Suspension("S", {<<Open, Close>>})), Comes("suspend_d", Suspension("R", {<<Trading, Close>>})),
             Comes("suspend_ranges", [start |-> 2, end |-> 2]),
             Comes("stk_limit", [code |-> "a", date |-> 2, up |-> 7, down |-> 5]),
             Comes("stock_st", [code |-> "a", date |-> 2, type |-> 1])},
   queries |-> {Ask("status", Only({"a", "b"}), << >>)}]

\* Statements: a correction, one of another kind of company, an adjusted one, one without a date.
Income(end, f_ann, type, comp, value) ==
  [code |-> "a", end |-> end, f_ann |-> f_ann, ann |-> 1, type |-> type, comp |-> comp, flag |-> 0, value |-> value]
Reported ==
  [codes |-> {}, start |-> With({1, 2, 3, 4}, [income |-> {Income(1, 1, 1, 1, 10)}]),
   pool |-> {Comes("income", Income(1, 2, 1, 1, 11)), Comes("income", Income(1, 2, 4, 1, 12)),
             Comes("income", Income(1, 2, 1, 2, 13)), Comes("income", Income(2, Null, 1, 1, 14)),
             Comes("income", Income(2, 2, 5, 1, 15)), Comes("income", Income(2, 4, 1, 1, 16)), Comes("trade_cal", CalDay(5))},
   queries |-> {Ask("statements", A, [lasting |-> TRUE]), Ask("statements", A, [periods |-> 1]),
                Ask("statements", A, [periods |-> 1, comp |-> 2])}]

\* Announcements
Notice(end, ann, value) == [code |-> "a", end |-> end, ann |-> ann, flag |-> 0, value |-> value]
Dividend(proc, imp_ann, ex) ==
  [code |-> "a", end |-> 1, ann |-> 1, imp_ann |-> imp_ann, proc |-> proc, ex |-> ex, value |-> 3]
Announcing ==
  [codes |-> {}, start |-> With(1 .. 5, [dividend |-> {Dividend("plan", Null, Null)}]),
   pool |-> {Comes("fina_indicator", Notice(1, 1, 20)), Comes("fina_indicator", Notice(1, 2, 21)),
             Comes("fina_indicator", Notice(2, 2, 22)), Comes("forecast", Notice(1, 1, 30)),
             Comes("forecast", Notice(1, 2, 31)), Comes("fina_audit", Notice(1, 2, 32)),
             Comes("dividend", Dividend("plan", Null, 5)), Comes("dividend", Dividend("implemented", 2, 5)),
             Comes("dividend", Dividend("implemented", Null, 4))},
   queries |-> {Ask("indicators", A, [lasting |-> TRUE]), Ask("indicators", A, [periods |-> 1]),
                Ask("disclosures", A, [kind |-> "forecast", lasting |-> TRUE]),
                Ask("disclosures", A, [kind |-> "fina_audit", end |-> At(4, PreOpen)]),
                Ask("dividends", A, [lasting |-> TRUE]), Ask("implemented", A, << >>)}]

\* Classes, stocks, the calendar and two tables of a day; the last one has not passed its checks.
Class(in, out, value) == [code |-> "a", in |-> in, out |-> out, value |-> value]
Stock(code, list, delist) == [code |-> code, list |-> list, delist |-> delist]
OfDay(d) == [code |-> "a", date |-> d, value |-> d]
Listing ==
  [codes |-> {},
   start |-> With({1, 2, 3}, [sw_industry |-> {Class(1, Never, 1)}, stock_basic |-> {Stock("a", 1, Never)},
                              unavailable |-> {"daily_basic"}]),
   pool |-> {Comes("sw_industry", Class(1, 4, 1)), Comes("sw_industry", Class(4, Never, 2)),
             Comes("stock_basic", Stock("a", 1, 4)), Comes("stock_basic", Stock("b", 2, Never)),
             Comes("trade_cal", CalDay(4)), Comes("moneyflow", OfDay(1)), Comes("moneyflow", OfDay(2)),
             Comes("daily_basic", OfDay(2))},
   queries |-> {Ask("industry", Every, << >>), Ask("stocks", Every, << >>), Ask("sessions", Every, << >>),
                Ask("previous_session", Every, << >>), Ask("moneyflow", A, [lasting |-> TRUE]),
                Ask("daily_metrics", A, << >>), Ask("lifecycles", Every, << >>)}]

\* A security that is traded as "a" up to day 1 and as "b" from day 2 on; rows of both codes
\* agree or contradict each other on days 1 and 2.
Renamed ==
  [codes |-> {[sid |-> 7, code |-> "a", from |-> 0, to |-> 2], [sid |-> 7, code |-> "b", from |-> 2, to |-> Never]},
   start |-> With(1 .. 5, [daily |-> {DailyRow("a", 1)}, adj_factor |-> {Factor("b", 1)}, moneyflow |-> {OfDay(2)},
                           stock_basic |-> {Stock("b", 1, Never)}]),
   pool |-> {Comes("daily", DailyRow("b", 2)), Comes("daily", DailyRow("a", 2)),
             Comes("daily", [DailyRow("a", 2) EXCEPT !.value = 9]), Comes("moneyflow", [OfDay(2) EXCEPT !.code = "b", !.value = 9]),
             Comes("adj_factor", Factor("b", 2)), Comes("adj_factor", Factor("a", 1)),
             Comes("suspend_d", [Suspension("S", {}) EXCEPT !.code = "b"]),
             Comes("income", [Income(1, 1, 1, 1, 10) EXCEPT !.code = "b"]), Comes("income", Income(1, 2, 1, 1, 11)),
             Comes("daily", [DailyRow("a", 1) EXCEPT !.value = 9]), Comes("stock_basic", Stock("a", 5, Never))},
   queries |-> {Ask("bars", A, [forward |-> TRUE, lasting |-> TRUE]), Ask("bars", Only({"b"}), [count |-> 1]),
                Ask("status", A, << >>), Ask("statements", Only({"b"}), [lasting |-> TRUE]),
                Ask("stocks", Every, << >>), Ask("lifecycles", A, << >>), Ask("current", Only({"c"}), << >>),
                Ask("current", A, << >>), Ask("moneyflow", A, [lasting |-> TRUE])}]

AllWorlds == <<Prices, Intradays, States, Reported, Announcing, Listing, Renamed>>
Sampled == {At(d, t) : d \in {2, 4}, t \in {Auction, PreOpen, Open, Trading, DailyReady, BasicReady}} \cup {At(3, Open), At(5, Open)}
=============================================================================
