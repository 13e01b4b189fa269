------------------------------ MODULE MCRepair ------------------------------
\* Three days of which the second is a holiday, and four worlds: tables of the market that
\* are damaged, ones that cannot be listed, ones that upstream has wrong, and reports.
EXTENDS Repair

Null == -1
NotANumber == -2

AlwaysOpen == {[date |-> d, exchange |-> e, open |-> 1, pretrade |-> d - 1] : d \in 1 .. 3, e \in Exchanges}
CalDay(d, exchanges) == {[date |-> d, exchange |-> e, open |-> IF d = 2 THEN 0 ELSE 1, pretrade |-> 1] : e \in exchanges}
Calendar(exchanges) == [p \in {<<"trade_cal", d>> : d \in 1 .. 3} |-> Partition(CalDay(p[2], exchanges))]
DailyRow(code, d) ==
  [code |-> code, date |-> d, open |-> 2, high |-> 2, low |-> 2, close |-> 2, vol |-> 1, amount |-> 1, pre |-> 2, change |-> 0]
FactorRow(code, d) == [code |-> code, date |-> d, value |-> d]
Suspended(code, d) == [code |-> code, date |-> d, type |-> "S", intervals |-> {}]
Broken(flaw) == [flaw |-> flaw, rows |-> {}]
AllCalendar == UNION {CalDay(d, Exchanges) : d \in 1 .. 3}

\* A NaN, a file that is gone, a factor that is missing and, once the bars are back, another.
Damaged ==
  [datasets |-> {"daily", "adj_factor", "suspend_d", "trade_cal"}, marks |-> 1 .. 3,
   lake |-> (<<"daily", 1>> :> Partition({[DailyRow("a", 1) EXCEPT !.change = NotANumber]}))
              @@ (<<"daily", 3>> :> Broken("missing_file"))
              @@ (<<"adj_factor", 1>> :> Partition({FactorRow("b", 1)})) @@ (<<"adj_factor", 3>> :> Partition({FactorRow("a", 3)}))
              @@ (<<"suspend_d", 3>> :> Broken("unreadable")) @@ Calendar(Exchanges),
   upstream |-> [daily |-> {DailyRow("a", 1), DailyRow("a", 3), DailyRow("b", 3)},
                 adj_factor |-> {FactorRow("a", 1), FactorRow("a", 3), FactorRow("b", 3)},
                 suspend_d |-> {Suspended("c", 3)}, trade_cal |-> AllCalendar],
   syncs |-> {[dataset |-> "adj_factor", first |-> 3, last |-> 3]},
   decidable |-> {}, values |-> << >>]

\* A bar that upstream has wrong too, one on the holiday, a calendar that lacks an exchange.
Crossed(d) == [DailyRow("a", d) EXCEPT !.low = 3]
Wrong ==
  [datasets |-> {"daily", "adj_factor", "suspend_d", "trade_cal"}, marks |-> 1 .. 3,
   lake |-> (<<"daily", 1>> :> Partition({Crossed(1)})) @@ (<<"daily", 2>> :> Partition({DailyRow("a", 2)}))
              @@ (<<"adj_factor", 1>> :> Partition({FactorRow("a", 1)})) @@ (<<"suspend_d", 1>> :> Partition({Suspended("c", 1)}))
              @@ Calendar({"SSE", "SZSE"}),
   upstream |-> [daily |-> {Crossed(1), DailyRow("a", 3)}, adj_factor |-> {FactorRow("a", 1), FactorRow("a", 3)},
                 suspend_d |-> {Suspended("c", 1)}, trade_cal |-> AllCalendar],
   syncs |-> {[dataset |-> "adj_factor", first |-> 3, last |-> 3]},
   decidable |-> {"daily_ohlc_v1"}, values |-> [low |-> 2]]

\* An old version announced early beside its formal one, a NaN, and a date that is missing;
\* and upstream has one more report, with a NaN.
Indicator(code, ann, flag, value) == [end |-> 2, code |-> code, ann |-> ann, flag |-> flag, value |-> value]
Statement(code, end, f_ann) ==
  [end |-> end, code |-> code, type |-> 1, comp |-> 1, ann |-> 2, f_ann |-> f_ann, flag |-> 0, value |-> 5]
Reports ==
  [datasets |-> {"income", "fina_indicator", "trade_cal"}, marks |-> 1 .. 3,
   lake |-> (<<"fina_indicator", 2>> :> Partition({Indicator("a", 1, 0, 4), Indicator("a", 3, 1, 5), Indicator("b", 3, 0, NotANumber)}))
              @@ (<<"income", 1>> :> Partition({Statement("a", 1, Null)}))
              @@ [p \in {<<"trade_cal", d>> : d \in 1 .. 3} |-> Partition({c \in AlwaysOpen : c.date = p[2]})],
   upstream |-> [fina_indicator |-> {Indicator("a", 3, 1, 5), Indicator("b", 3, 0, 6), Indicator("c", 1, 0, 7)},
                 income |-> {Statement("a", 1, 3), [Statement("b", 2, 3) EXCEPT !.value = NotANumber]},
                 trade_cal |-> AlwaysOpen, suspend_d |-> {}],
   syncs |-> {[dataset |-> "fina_indicator", first |-> 1, last |-> 1]},
   decidable |-> {"income_value_v1"}, values |-> [f_ann |-> 3]]

\* A manifest that is no JSON beside a NaN: the patch finds no list of the partitions.
NoList == [Damaged EXCEPT !.lake = (<<"daily", 3>> :> Broken("manifest")) @@ @]

MCWorlds == {Damaged, Wrong, Reports, NoList}
Everything(w) == [datasets |-> w.datasets, start |-> Missing, through |-> 3]
MCScopes(w) == {Everything(w), [Everything(w) EXCEPT !.datasets = w.datasets \ {"suspend_d", "income"}, !.start = 3]}
\* A detection of everything that ends a day before the last.
UntilYesterday(w) == {[Everything(w) EXCEPT !.through = 2]}
\* Bars that are right until then.
LateError == {[Damaged EXCEPT !.lake = (<<"daily", 1>> :> Partition({DailyRow("a", 1)})) @@ (<<"daily", 3>> :> Partition({Crossed(3)}))
                                       @@ (<<"adj_factor", 1>> :> Partition({FactorRow("a", 1)})) @@ @]}
Ends == {1, 2}
=============================================================================
