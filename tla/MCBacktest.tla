----------------------------- MODULE MCBacktest -----------------------------
(* Two instances of the backtest: one of corporate actions and delistings   *)
(* over a calendar with a holiday, one of trading two symbols.              *)
EXTENDS Backtest

\* One symbol, five days, day 3 is a holiday and so is day 1.
ActionSessions == {2, 4, 5, 6}
Action(record, ex, pay, list, c, st) ==
  [symbol |-> 1, record |-> record, ex |-> ex, pay |-> pay, list |-> list, cash |-> c, stock |-> st]
ActionDividends ==
  {Action(2, 4, 5, 5, 1, 2),       \* the usual one
   Action(2, 4, 4, 6, 1, 1),       \* in conflict with the first
   Action(3, 4, 6, 6, 0, 1),       \* recorded on a holiday
   Action(4, 5, 6, 7, 1, 1),       \* listed after the run
   Action(4, None, 5, 6, 1, 1),    \* without an ex day
   Action(1, 4, 4, 5, 1, 0),       \* recorded before the first session
   Action(5, 5, 6, None, 1, 0),    \* ex on its record day
   Action(5, 2, 6, 6, 1, 1)}       \* ex before it
ActionDelistings == {[s \in Symbols |-> d] : d \in {5, 9}}
Bar(open, close, down, up, capacity) ==
  [open |-> open, close |-> close, down |-> down, up |-> up, known |-> TRUE, capacity |-> capacity]
ActionBars == {NoBar, Bar(2, 2, 1, 3, None)}
DailyEvents == <<"bar">>

\* Two symbols, two days, intraday.
NoActionDividends == {[symbol |-> 1, record |-> 1, ex |-> None, pay |-> None, list |-> None, cash |-> 0, stock |-> 0]}
NoDelistings == {[s \in Symbols |-> 9]}
IntradayEvents == <<"auction", "bar", "bar">>
TradingBars == {NoBar, Bar(1, 2, 1, 4, None), Bar(2, 2, 1, 4, 1), Bar(2, None, 1, 4, None)}
TradingWeights == {<<0, 0>>, <<1, 1>>, <<2, 0>>}
=============================================================================
