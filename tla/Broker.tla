------------------------------- MODULE Broker -------------------------------
(***************************************************************************)
(* backtest/broker.py with backtest/trading_rules.py and orders.py: the    *)
(* simulated broker, which tries an order once, at the open of the first   *)
(* bar that begins after it was submitted, and the orders that a target    *)
(* portfolio becomes.                                                      *)
(*                                                                         *)
(* match_bar is a loop over the orders it takes, with its own running cash *)
(* and sellable shares; here every round of that loop is a step, as is     *)
(* every fill that the engine then applies to the account.  Prices, fees   *)
(* and quantities are whole numbers.  Of an OrderUpdate the reason is left *)
(* out.                                                                    *)
(***************************************************************************)
EXTENDS Portfolio, Sequences

CONSTANTS
  Minimum, Step, Maximum, \* QuantityRule of the one board that is modelled
  Slippage,               \* how much a price moves against the investor
  MinimumCommission,      \* config.minimum_commission
  FeeDivisor,             \* a fee is 1 / FeeDivisor of the notional, or the minimum
  WeightUnit              \* a target weight of n means n / WeightUnit of the equity

\* In every rule the minimum and the maximum are multiples of the step.
ASSUME RuleAssumption ==
  /\ {Minimum, Step, FeeDivisor, WeightUnit} \subseteq Nat \ {0}
  /\ Maximum \in Nat /\ Minimum <= Maximum
  /\ \E n \in 1 .. Minimum : Minimum = n * Step
  /\ \E n \in 1 .. Maximum : Maximum = n * Step
  /\ {Slippage, MinimumCommission} \subseteq Nat

VARIABLES
  orders,     \* all orders, in the order of their ids
  pending,    \* ids of the orders that wait for a bar
  updates,    \* order id -> what became of it, in order, after SUBMITTED
  fills,      \* all fills of the run, in order
  batch,      \* match_bar: ids of the orders taken and not tried yet
  made,       \* match_bar: the fills made and not applied to the account yet
  runCash,    \* match_bar: cash
  runSellable \* match_bar: sellable

matching == <<batch, made, runCash, runSellable>>
broker == <<orders, pending, updates, fills, batch, made, runCash, runSellable>>

Least(a, b) == IF a < b THEN a ELSE b
Greatest(a, b) == IF a < b THEN b ELSE a

BrokerInit ==
  /\ orders = <<>> /\ pending = {} /\ updates = <<>> /\ fills = <<>>
  /\ batch = {} /\ made = <<>>
  /\ runCash = 0 /\ runSellable = [s \in Symbols |-> 0]

-----------------------------------------------------------------------------
(* QuantityRule. *)

RoundDown(q) == LET m == Least(q, Maximum) IN IF m >= Minimum THEN (m \div Step) * Step ELSE 0

ValidQuantity(q, liquidating) == 0 < q /\ q <= Maximum /\ (liquidating \/ q = RoundDown(q))

\* submit takes it: an odd lot to sell is judged when it is tried.
Acceptable(side, q) == 0 < q /\ q <= Maximum /\ (side = "buy" => ValidQuantity(q, FALSE))

-----------------------------------------------------------------------------
(* Submitting and cancelling. *)

\* submit, at an instant of a day.
Submit(s, side, q, day, instant) ==
  /\ Acceptable(side, q)
  /\ orders' = Append(orders, [symbol |-> s, side |-> side, quantity |-> q, day |-> day, instant |-> instant])
  /\ updates' = Append(updates, <<>>)
  /\ pending' = pending \cup {Len(orders) + 1}
  /\ UNCHANGED <<fills, matching>>

Outcome(status, q, day) == [status |-> status, quantity |-> q, day |-> day]

\* The orders in `ids` end like this.
Finish(ids, status, day) ==
  updates' = [i \in DOMAIN updates |->
    IF i \in ids THEN Append(updates[i], Outcome(status, 0, day)) ELSE updates[i]]

CancelOrders(ids, day) ==
  /\ pending' = pending \ ids
  /\ Finish(pending \cap ids, "CANCELED", day)
  /\ UNCHANGED <<orders, fills, matching>>

OrdersOn(symbols) == {i \in DOMAIN orders : orders[i].symbol \in symbols}

\* cancel_symbol, for one symbol or several.
CancelSymbols(symbols, day) == CancelOrders(OrdersOn(symbols), day)

ExpireAll(day) ==
  /\ pending' = {}
  /\ Finish(pending, "EXPIRED", day)
  /\ UNCHANGED <<orders, fills, matching>>

-----------------------------------------------------------------------------
(* Matching. *)

SubmittedBy(i, day, instant) ==
  orders[i].day < day \/ (orders[i].day = day /\ orders[i].instant <= instant)

\* Mutant: the orders taken also keep waiting.
TakeOrdersKeeping(day, instant) ==
  /\ batch' = {i \in pending : SubmittedBy(i, day, instant)}
  /\ made' = <<>>
  /\ runCash' = cash /\ runSellable' = sellable
  /\ UNCHANGED <<orders, pending, updates, fills>>

\* The orders that were there when the bar began are taken, whatever becomes of
\* them; the account lends its cash and its sellable shares.
TakeOrders(day, instant) ==
  /\ batch' = {i \in pending : SubmittedBy(i, day, instant)}
  /\ pending' = pending \ batch'
  /\ made' = <<>>
  /\ runCash' = cash /\ runSellable' = sellable
  /\ UNCHANGED <<orders, updates, fills>>

\* Sells before buys, then by symbol, then by id.
Precedes(i, j) ==
  IF orders[i].side # orders[j].side THEN orders[i].side = "sell"
  ELSE IF orders[i].symbol # orders[j].symbol THEN orders[i].symbol < orders[j].symbol
  ELSE i <= j

Fee(notional) == Greatest(notional \div FeeDivisor, MinimumCommission)

\* Slippage, within the price limits of the day.
ExecutionPrice(side, bar) ==
  IF side = "buy" THEN Least(bar.open + Slippage, bar.up) ELSE Greatest(bar.open - Slippage, bar.down)

\* The open exists, the status is known and the price limits let the side trade.
Tradable(side, bar) ==
  /\ bar.open # None /\ bar.known
  /\ IF side = "buy" THEN bar.down <= bar.open /\ bar.open < bar.up
     ELSE bar.down < bar.open /\ bar.open <= bar.up

Capped(q, capacity) == IF capacity = None THEN q ELSE Least(q, capacity)

\* The money pays for n shares and the fee.
Pays(n, price, money) == n = 0 \/ n * price + Fee(n * price) <= money

\* q shares of the order trade at this bar, given the money and the sellable
\* shares that the orders before it have left: all, or as many as possible.
Executes(o, q, bar, money, shares) ==
  LET capped == Capped(o.quantity, bar.capacity)
      sold == Least(capped, shares)
      price == ExecutionPrice(o.side, bar)
  IN
  IF ~Tradable(o.side, bar) \/ ~ValidQuantity(o.quantity, o.side = "sell" /\ o.quantity = shares) THEN q = 0
  ELSE IF o.side = "buy"
    THEN q <= capped /\ Pays(q, price, money) /\ \A n \in q + 1 .. capped : ~Pays(n, price, money)
  ELSE q = IF money + sold * price - Fee(sold * price) < 0 THEN 0 ELSE sold

FillOf(i, q, bar, day) ==
  LET notional == q * ExecutionPrice(orders[i].side, bar) IN
  [order |-> i, symbol |-> orders[i].symbol, side |-> orders[i].side, quantity |-> q,
   notional |-> notional, fee |-> Fee(notional), day |-> day]

Flow(fill) == IF fill.side = "buy" THEN -Cost(fill) ELSE Proceeds(fill)

\* Mutant: a purchase does not use up the cash.
CashKept(fill) == IF fill.side = "buy" THEN runCash ELSE runCash + Proceeds(fill)

\* What is left for the orders that follow.
CashAfter(fill) == runCash + Flow(fill)

\* One round of match_bar's loop: the first order left is tried.
TryOrder(i, bars, day) ==
  LET o == orders[i] IN
  /\ i \in batch /\ \A j \in batch : Precedes(i, j)
  /\ batch' = batch \ {i}
  /\ \E q \in 0 .. o.quantity :
       LET fill == FillOf(i, q, bars[o.symbol], day) IN
       /\ Executes(o, q, bars[o.symbol], runCash, runSellable[o.symbol])
       /\ updates' = [updates EXCEPT ![i] = Append(@, Outcome(IF q = 0 THEN "NOT_FILLED"
            ELSE IF q = o.quantity THEN "FILLED" ELSE "PARTIALLY_FILLED", q, day))]
       /\ made' = IF q = 0 THEN made ELSE Append(made, fill)
       /\ runCash' = IF q = 0 THEN runCash ELSE CashAfter(fill)
       /\ runSellable' = IF o.side = "buy" THEN runSellable ELSE [runSellable EXCEPT ![o.symbol] = @ - q]
  /\ UNCHANGED <<orders, pending, fills>>

\* match_bar returns: its fills are kept, and the engine has them to apply.
EndMatching ==
  /\ batch = {}
  /\ fills' = fills \o made
  /\ runCash' = 0 /\ runSellable' = [s \in Symbols |-> 0]
  /\ UNCHANGED <<orders, pending, updates, batch, made>>
-----------------------------------------------------------------------------
(* orders.py. *)

MarketValue(s) == IF lastPrice[s] = None THEN 0 ELSE quantity[s] * lastPrice[s]

\* The number of shares a weight asks for; without a price the position stays.
Target(s, weight, price, equity) ==
  IF weight = 0 THEN 0
  ELSE IF price = None THEN quantity[s]
  ELSE (equity * weight) \div (WeightUnit * price)

\* What create_orders still has to order of a symbol: `left` shares, to sell it
\* out when `out`.
Gap(s, target) ==
  [symbol |-> s, side |-> IF target > quantity[s] THEN "buy" ELSE "sell", out |-> target = 0,
   left |-> IF target > quantity[s] THEN target - quantity[s] ELSE quantity[s] - target]

\* Mutant: a position that is sold out is rounded down as well.
AmountRounded(gap) == RoundDown(gap.left)

\* Mutant: an order may be of any size.
AmountUnlimited(gap) ==
  IF gap.side = "sell" /\ gap.out THEN gap.left
  ELSE IF gap.left >= Minimum THEN (gap.left \div Step) * Step ELSE 0

\* The next order of the gap: at most Maximum; what is too small for an order is
\* left, unless the position is sold out.
Amount(gap) == IF gap.side = "sell" /\ gap.out THEN Least(gap.left, Maximum) ELSE RoundDown(gap.left)
-----------------------------------------------------------------------------
OrderType == [symbol : Symbols, side : {"buy", "sell"}, quantity : Nat, day : Nat, instant : Nat]
OutcomeType ==
  [status : {"FILLED", "PARTIALLY_FILLED", "NOT_FILLED", "CANCELED", "EXPIRED"}, quantity : Nat, day : Nat]
FillType ==
  [order : Nat, symbol : Symbols, side : {"buy", "sell"}, quantity : Nat, notional : Int, fee : Nat, day : Nat]
GapType == [symbol : Symbols, side : {"buy", "sell"}, out : BOOLEAN, left : Nat]
=============================================================================
