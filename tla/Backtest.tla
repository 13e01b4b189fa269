------------------------------ MODULE Backtest ------------------------------
(***************************************************************************)
(* backtest/engine.py, corporate_actions.py, schedule.py and strategy.py:  *)
(* a backtest, which replays the sessions of a calendar over the account   *)
(* of Portfolio and the broker of Broker.                                  *)
(*                                                                         *)
(* A session is: the morning (T+1, corporate actions, delistings), the     *)
(* market events with the strategy's calls in between, and the evening     *)
(* (entitlements).  A handler that loops (over corporate actions, orders   *)
(* or fills) takes one step for each round; nothing can come in between.   *)
(* An exception ends the run, with the kind of the error in `error`.       *)
(*                                                                         *)
(* A symbol stands for a security's stable identity.  Prices come from     *)
(* `Bars`; which bars exist is free, save that a delisted symbol has none. *)
(***************************************************************************)
EXTENDS Broker, FiniteSetsExt

CONSTANTS
  LastDay,    \* the days of the run are 1 .. LastDay
  Sessions,   \* those that are trading days
  Dividends,  \* what a corporate action may be
  Delistings, \* when symbols may be delisted: functions from Symbols to days
  Policies,   \* config.delisting_policy
  Events,     \* the market events of a session: a sequence of "auction" and "bar"
  Bars,       \* the bars a symbol may have, NoBar among them
  Past,       \* the closes that data from before the run may end with
  Quantities, \* the quantities a strategy may order
  Weights,    \* the target portfolios it may ask for
  MaxCalls    \* bound: what the strategy does in a run

NoBar == [open |-> None, close |-> None, down |-> 0, up |-> 0, known |-> FALSE, capacity |-> None]

Days == 1 .. LastDay

\* None is not a number, a day, an error or a stock dividend.
ASSUME NoneAssumption ==
  None \notin Nat \cup {"action", "account", "data", "delisted"} \cup [symbol : Symbols, quantity : Nat]

ASSUME WorldAssumption ==
  /\ LastDay \in Nat /\ Sessions \subseteq Days /\ Sessions # {}
  /\ ActionIds \subseteq Nat /\ Symbols \subseteq Nat
  /\ NoBar \in Bars
  /\ Bars \subseteq [open : Nat \cup {None}, close : (Nat \ {0}) \cup {None}, down : Nat, up : Nat,
                     known : BOOLEAN, capacity : Nat \cup {None}]
  /\ Past \subseteq (Nat \ {0}) \cup {None}
  /\ Dividends \subseteq [symbol : Symbols, record : Days, ex : Nat \cup {None}, pay : Nat \cup {None},
                          list : Nat \cup {None}, cash : Nat, stock : Nat]
  /\ Events \in Seq({"auction", "bar"})
  /\ Quantities \subseteq Nat /\ Weights \subseteq [Symbols -> 0 .. WeightUnit]

\* The actions of a run are loaded into a list; a symbol that stays is delisted after the last day.
ASSUME ActionsAssumption == IsFiniteSet(ActionIds) /\ Delistings \subseteq [Symbols -> Nat]

VARIABLES
  world,     \* the corporate actions, the delistings and the policy of this run
  phase,     \* what the engine does
  error,     \* the exception that ended the run, or None
  day,       \* the session, 0 before the first
  slot,      \* market events of the session that are done
  agenda,    \* what is left to do of the morning or the evening
  bars,      \* the bars of the market event that is processed
  lastClose, \* symbol -> close of its latest bar, or None
  plan,      \* create_orders: the gaps it has not ordered yet
  calls,     \* how often the strategy has acted
  bought,    \* ghost: symbol -> shares bought in this session
  closes,    \* ghost: session -> shares held at its close
  leaving    \* ghost: symbols that are to be sold out, and can be, at the next bar

engine == <<phase, error, day, slot, agenda, bars, lastClose, plan, calls>>
ghosts == <<bought, closes, leaving>>
vars == <<cash, quantity, sellable, listing, lastPrice, receivable, entitled, pendingStock,
          orders, pending, updates, fills, batch, made, runCash, runSellable,
          world, phase, error, day, slot, agenda, bars, lastClose, plan, calls, bought, closes, leaving>>

Init ==
  /\ PortfolioInit
  /\ BrokerInit
  /\ world \in [dividend : [ActionIds -> Dividends], delisting : Delistings, policy : Policies]
  /\ phase = "closed" /\ error = None
  /\ day = 0 /\ slot = 0 /\ agenda = {}
  /\ bars = [s \in Symbols |-> NoBar]
  /\ lastClose \in [Symbols -> Past]
  /\ plan = {} /\ calls = 0
  /\ bought = [s \in Symbols |-> 0]
  /\ closes = [d \in {} |-> 0]
  /\ leaving = {}

\* An exception: the run ends.
Fail(kind) ==
  /\ phase' = "failed" /\ error' = kind
  /\ UNCHANGED <<portfolio, broker, world, day, slot, agenda, bars, lastClose, plan, calls, ghosts>>

Delisted == {s \in Symbols : world.delisting[s] <= day}

-----------------------------------------------------------------------------
(* corporate_actions.py: what is due, and what is valid. *)

Dividend(a) == world.dividend[a]

\* Another implemented fact about the same symbol and record day.
Conflict(a) ==
  \E b \in ActionIds : /\ Dividend(b).symbol = Dividend(a).symbol
                       /\ Dividend(b).record = Dividend(a).record
                       /\ Dividend(b) # Dividend(a)

\* A day that is needed and lies within the run has to be a session.
Replayed(d) == d = None \/ d \notin Days \/ d \in Sessions

\* A settlement day: there, after the record day, not before the ex day.
Settles(d, record, ex) == d # None /\ d > record /\ (ex # None => d >= ex) /\ Replayed(d)

\* _validate
Valid(a) ==
  LET v == Dividend(a) IN
  /\ ~Conflict(a)
  /\ Replayed(v.record) /\ Replayed(v.ex)
  /\ v.ex # None => v.ex > v.record
  /\ v.cash > 0 => Settles(v.pay, v.record, v.ex)
  /\ v.stock > 0 => Settles(v.list, v.record, v.ex)

\* Things to do: stages in order, the actions of a stage by id, operations in order.
Items == [stage : 0 .. 3, id : ActionIds,
          op : {"capture", "cancel", "cash", "stock", "settle", "list"}]
OpOrder == [capture |-> 0, cancel |-> 1, cash |-> 2, stock |-> 3, settle |-> 4, list |-> 5]
Earlier(x, y) ==
  IF x.stage # y.stage THEN x.stage < y.stage
  ELSE IF x.id # y.id THEN x.id < y.id
  ELSE OpOrder[x.op] <= OpOrder[y.op]

\* Equal facts are one action: only the first of them is loaded.
Loaded == {a \in ActionIds : \A b \in ActionIds : Dividend(b) = Dividend(a) => a <= b}

\* The sessions before d; the record days that no session of the run precedes.
SessionsTo(d) == {t \in Sessions : t <= d}
BeforeStart(d) == SessionsTo(d) = {}

\* on_session_start.  Without an ex day an action is confirmed when it settles.
Morning(d) ==
  {x \in Items :
    LET v == Dividend(x.id) IN
    /\ x.id \in Loaded
    /\ \/ /\ x.stage = 0 /\ x.op = "capture"
          /\ BeforeStart(v.record) /\ SessionsTo(d) = {d}
       \/ x.stage = 1 /\ x.op \in {"cancel", "cash", "stock"} /\ v.ex = d
       \/ x.stage = 2 /\ v.pay = d /\ (x.op = "settle" \/ (x.op = "cash" /\ v.ex = None))
       \/ x.stage = 3 /\ v.list = d /\ (x.op = "list" \/ (x.op = "stock" /\ v.ex = None))}

\* on_session_end: the record days from this session until the next one.
Evening(d) ==
  {x \in Items : /\ x.stage = 0 /\ x.op = "capture" /\ x.id \in Loaded
                 /\ d <= Dividend(x.id).record
                 /\ SessionsTo(Dividend(x.id).record) = SessionsTo(d)}

-----------------------------------------------------------------------------
(* The morning. *)

StartSession ==
  /\ phase = "closed"
  /\ \E d \in Sessions :
       /\ d > day /\ \A t \in Sessions : t > day => t >= d
       /\ day' = d /\ agenda' = Morning(d)
  /\ UnlockT1
  /\ phase' = "morning" /\ slot' = 0
  /\ bought' = [s \in Symbols |-> 0] /\ leaving' = {}
  /\ UNCHANGED <<broker, world, error, bars, lastClose, plan, calls, closes>>

\* `op` for the action a is the next thing on the agenda.
Due(op, a) ==
  /\ phase \in {"morning", "evening"}
  /\ \E x \in agenda : x.op = op /\ x.id = a /\ \A y \in agenda : Earlier(x, y)
Done(op, a) ==
  /\ agenda' = {x \in agenda : x.op # op \/ x.id # a}
  /\ UNCHANGED <<world, phase, error, day, slot, bars, lastClose, plan, calls, ghosts>>

\* _capture_entitlement; an action that concerns the account has to be valid.
Capture(a) ==
  /\ Due("capture", a)
  /\ IF (IF entitled[a] = None THEN quantity[Dividend(a).symbol] ELSE entitled[a]) > 0 /\ ~Valid(a)
     THEN Fail("action")
     ELSE CaptureEntitlement(a, Dividend(a).symbol) /\ Done("capture", a) /\ UNCHANGED broker

\* Mutant: orders are cancelled only where the account has an entitlement.
CancelIfEntitled(a) ==
  /\ Due("cancel", a)
  /\ CancelSymbols(IF entitled[a] \in {None, 0} THEN {} ELSE {Dividend(a).symbol}, day)
  /\ Done("cancel", a) /\ UNCHANGED portfolio

\* Orders from before the ex day do not outlive it.
CancelOnEx(a) ==
  /\ Due("cancel", a)
  /\ CancelSymbols({Dividend(a).symbol}, day)
  /\ Done("cancel", a) /\ UNCHANGED portfolio

\* _entitlement: a holding without an entry is refused (Unregistered).
Entitlement(a) == IF entitled[a] = None THEN 0 ELSE entitled[a]
Unregistered(a) == entitled[a] = None /\ quantity[Dividend(a).symbol] > 0
Refused(a) == Unregistered(a) \/ (Entitlement(a) > 0 /\ ~Valid(a))

\* _recognize_cash
ConfirmCash(a) ==
  /\ Due("cash", a)
  /\ IF Refused(a) THEN Fail("action")
     ELSE IF Entitlement(a) = 0 \/ Dividend(a).cash = 0
       THEN Done("cash", a) /\ UNCHANGED <<portfolio, broker>>
     ELSE IF receivable[a] # None THEN Fail("account")
     ELSE /\ RecognizeDividend(a, Entitlement(a) * Dividend(a).cash)
          /\ Done("cash", a) /\ UNCHANGED broker

\* _recognize_stock
ConfirmStock(a) ==
  /\ Due("stock", a)
  /\ IF Refused(a) THEN Fail("action")
     ELSE IF Entitlement(a) = 0 \/ Dividend(a).stock = 0
       THEN Done("stock", a) /\ UNCHANGED <<portfolio, broker>>
     ELSE IF pendingStock[a] # None THEN Fail("account")
     ELSE /\ AddStockDividend(a, Dividend(a).symbol, Entitlement(a), Dividend(a).stock)
          /\ Done("stock", a) /\ UNCHANGED broker

Settle(a) ==
  /\ Due("settle", a)
  /\ SettleDividend(a)
  /\ Done("settle", a) /\ UNCHANGED broker

List(a) ==
  /\ Due("list", a)
  /\ IF ListedTooMany(a) THEN Fail("account")
     ELSE ListStockDividend(a) /\ Done("list", a) /\ UNCHANGED broker

Waiting(s) == \E i \in pending : orders[i].symbol = s
Managed == {s \in Symbols : quantity[s] > 0 \/ Waiting(s)}

\* _check_lifecycles: the delisted symbols that the account or the broker knows.
CheckLifecycles ==
  LET gone == Managed \cap Delisted IN
  /\ phase = "morning" /\ agenda = {}
  /\ IF world.policy = "error" /\ \E s \in gone : quantity[s] > 0 THEN Fail("delisted")
     ELSE /\ CancelSymbols(gone, day)
          /\ WriteOff(gone)
          /\ phase' = "open"
          /\ UNCHANGED <<world, error, day, slot, agenda, bars, lastClose, plan, calls, ghosts>>

-----------------------------------------------------------------------------
(* Market events. *)

\* The next market event and its bars.  An auction only gives prices.
MarketEvent ==
  /\ phase = "open" /\ slot < Len(Events)
  /\ bars' \in {b \in [Symbols -> Bars] : \A s \in Delisted : b[s] = NoBar}
  /\ IF Events[slot + 1] = "auction"
     THEN phase' = "filling" /\ UNCHANGED broker
     ELSE phase' = "matching" /\ TakeOrders(day, slot)
  /\ UNCHANGED <<portfolio, world, error, day, slot, agenda, lastClose, plan, calls, ghosts>>

Match ==
  /\ phase = "matching"
  /\ \E i \in batch : TryOrder(i, bars, day)
  /\ UNCHANGED <<portfolio, world, engine, ghosts>>

Matched ==
  /\ phase = "matching" /\ EndMatching
  /\ phase' = "filling"
  /\ UNCHANGED <<portfolio, world, error, day, slot, agenda, bars, lastClose, plan, calls, ghosts>>

Fill ==
  /\ phase = "filling" /\ made # <<>>
  /\ LET fill == Head(made) IN
     IF FillRefused(fill) THEN Fail("account")
     ELSE /\ ApplyFill(fill)
          /\ made' = Tail(made)
          /\ bought' = IF fill.side = "buy" THEN [bought EXCEPT ![fill.symbol] = @ + fill.quantity] ELSE bought
          /\ UNCHANGED <<orders, pending, updates, fills, batch, runCash, runSellable, world, engine, closes, leaving>>

\* The close is the new valuation price, and the one a strategy can see.
Mark ==
  /\ phase = "filling" /\ made = <<>>
  /\ LET prices == [s \in Symbols |-> bars[s].close] IN
     IF Unpriced(prices) THEN Fail("data")
     ELSE /\ MarkToMarket(prices)
          /\ lastClose' = [s \in Symbols |-> IF bars[s] = NoBar THEN lastClose[s] ELSE bars[s].close]
          /\ bars' = [s \in Symbols |-> NoBar]
          /\ phase' = "open" /\ slot' = slot + 1
          /\ leaving' = {}
          /\ UNCHANGED <<broker, world, error, day, agenda, plan, calls, bought, closes>>

-----------------------------------------------------------------------------
(* The strategy, between two market events. *)

Calling == phase = "open" /\ calls < MaxCalls /\ calls' = calls + 1

OrderShares(s, side, q) ==
  /\ Calling /\ Submit(s, side, q, day, slot)
  /\ leaving' = {}
  /\ UNCHANGED <<portfolio, world, phase, error, day, slot, agenda, bars, lastClose, plan, bought, closes>>

Cancel(i) ==
  /\ Calling /\ i \in pending
  /\ CancelOrders({i}, day)
  /\ leaving' = {}
  /\ UNCHANGED <<portfolio, world, phase, error, day, slot, agenda, bars, lastClose, plan, bought, closes>>

\* Target weights: the account as it stands against the latest closes.  (Equity is
\* a natural number; that it is gives the proofs its type.)
Rebalance(weights, equity) ==
  /\ Calling /\ equity \in Nat
  /\ plan' = {Gap(s, Target(s, weights[s], lastClose[s], equity)) : s \in Symbols}
  /\ phase' = "ordering"
  /\ leaving' = {s \in Symbols : weights[s] = 0 /\ sellable[s] = quantity[s] /\ ~Waiting(s)}
  /\ UNCHANGED <<portfolio, broker, world, error, day, slot, agenda, bars, lastClose, bought, closes>>

\* The next order for the first gap, or no more for it.
OrderGap ==
  /\ phase = "ordering"
  /\ \E g \in plan :
       LET q == Amount(g) IN
       /\ \A h \in plan : g.symbol <= h.symbol
       /\ IF q = 0 THEN plan' = plan \ {g} /\ UNCHANGED broker
          ELSE /\ plan' = (plan \ {g}) \cup {[g EXCEPT !.left = @ - q]}
               /\ Submit(g.symbol, g.side, q, day, slot)
  /\ UNCHANGED <<portfolio, world, phase, error, day, slot, agenda, bars, lastClose, calls, ghosts>>

EndOrdering ==
  /\ phase = "ordering" /\ plan = {}
  /\ phase' = "open"
  /\ UNCHANGED <<portfolio, broker, world, error, day, slot, agenda, bars, lastClose, plan, calls, ghosts>>

-----------------------------------------------------------------------------
(* The evening and the end. *)

EndSession ==
  /\ phase = "open" /\ slot = Len(Events)
  /\ phase' = "evening" /\ agenda' = Evening(day)
  /\ closes' = [d \in DOMAIN closes \cup {day} |-> IF d = day THEN quantity ELSE closes[d]]
  /\ UNCHANGED <<portfolio, broker, world, error, day, slot, bars, lastClose, plan, calls, bought, leaving>>

CloseSession ==
  /\ phase = "evening" /\ agenda = {}
  /\ phase' = "closed"
  /\ UNCHANGED <<portfolio, broker, world, error, day, slot, agenda, bars, lastClose, plan, calls, ghosts>>

FinishRun ==
  /\ phase = "closed" /\ \A d \in Sessions : d <= day
  /\ ExpireAll(day)
  /\ phase' = "finished"
  /\ UNCHANGED <<portfolio, world, error, day, slot, agenda, bars, lastClose, plan, calls, ghosts>>

Ended == phase \in {"finished", "failed"} /\ UNCHANGED vars

Equity ==
  cash + MapThenSumSet(LAMBDA a : IF receivable[a] = None THEN 0 ELSE receivable[a], ActionIds)
       + MapThenSumSet(MarketValue, Symbols)

MorningOrEvening ==
  \E a \in ActionIds :
    Capture(a) \/ CancelOnEx(a) \/ ConfirmCash(a) \/ ConfirmStock(a) \/ Settle(a) \/ List(a)

Strategy ==
  \/ \E s \in Symbols, side \in {"buy", "sell"}, q \in Quantities : OrderShares(s, side, q)
  \/ \E i \in DOMAIN orders : Cancel(i)
  \/ \E w \in Weights : Rebalance(w, Equity)
  \/ OrderGap \/ EndOrdering

Next ==
  \/ StartSession \/ MorningOrEvening \/ CheckLifecycles
  \/ MarketEvent \/ Match \/ Matched \/ Fill \/ Mark
  \/ Strategy
  \/ EndSession \/ CloseSession \/ FinishRun \/ Ended

Spec == Init /\ [][Next]_vars
-----------------------------------------------------------------------------
(* What must hold. *)

\* The variables have their types; no money or share is negative, as assert_valid
\* demands after every operation.
TypeOK ==
  /\ PortfolioType
  /\ orders \in Seq(OrderType)
  /\ updates \in Seq(Seq(OutcomeType)) /\ Len(updates) = Len(orders)
  /\ pending \subseteq DOMAIN orders /\ batch \subseteq DOMAIN orders
  /\ phase \in {"closed", "morning", "open", "ordering", "matching", "filling", "evening", "finished", "failed"}
  /\ day \in Sessions \cup {0} /\ slot \in 0 .. Len(Events)
  /\ agenda \subseteq Items
  /\ bought \in [Symbols -> Nat]

\* T+1: what may be sold is what is held, without the shares bought in this
\* session and without dividend shares that are not listed.
TPlusOne ==
  \A s \in Symbols : sellable[s] + listing[s] + bought[s] = quantity[s]

\* The broker, which judges an order by its own running cash and shares, never
\* makes a fill that the account refuses, nor are dividends booked twice.
AccountNeverRefuses == error # "account"

\* create_orders only makes orders that submit takes.
PlannedAreAcceptable ==
  phase = "ordering" =>
    \A g \in plan : Amount(g) = 0 \/ Acceptable(g.side, Amount(g))

\* An order waits, or it has exactly one outcome; it is tried at one bar only.
OneOutcome ==
  \A i \in DOMAIN orders : Len(updates[i]) = IF i \in pending \cup batch THEN 0 ELSE 1

\* No order from before an ex day trades on that day or later: its quantity and
\* its price were meant for other shares.
NoFillAcrossExDay ==
  \A a \in ActionIds, f \in {fills[i] : i \in DOMAIN fills} :
    LET v == Dividend(a) IN
    f.symbol = v.symbol /\ v.ex \in Sessions => ~(orders[f.order].day < v.ex /\ v.ex <= f.day)

Total(f, S) == MapThenSumSet(LAMBDA x : f[x], S)
Bought(i) == IF fills[i].side = "buy" THEN fills[i].quantity ELSE -fills[i].quantity

\* The shares held at the close of the record day, or of the last session before.
Held(a) ==
  LET before == {d \in DOMAIN closes : d <= Dividend(a).record} IN
  IF before = {} THEN 0 ELSE closes[CHOOSE d \in before : \A e \in before : e <= d][Dividend(a).symbol]
Shares(a) == StockDividend(Held(a), Dividend(a).stock)
\* The day d has come, and the record day is over.
Since(a, d) == d # None /\ d <= day /\ Dividend(a).record < day
Confirmed(a) == Since(a, IF Dividend(a).ex = None THEN Dividend(a).list ELSE Dividend(a).ex)

\* In a session every share is accounted for: bought and not sold, or the dividend
\* on what was held when the record day closed, once; nothing of a delisted symbol.
SharesAccounted ==
  phase = "open" =>
    \A s \in Symbols :
      quantity[s] = IF s \in Delisted THEN 0
                    ELSE Total([i \in DOMAIN fills |-> Bought(i)], {i \in DOMAIN fills : fills[i].symbol = s})
                       + Total([a \in Loaded |-> Shares(a)], {a \in Loaded : Dividend(a).symbol = s /\ Confirmed(a)})

\* Dividend shares are out of reach from the day they are confirmed to the day
\* they are listed, of several dividends together.
ListingAccounted ==
  phase = "open" =>
    \A s \in Symbols :
      listing[s] = IF s \in Delisted THEN 0
                   ELSE Total([a \in Loaded |-> Shares(a)],
                              {a \in Loaded : /\ Dividend(a).symbol = s /\ Confirmed(a)
                                              /\ ~Since(a, Dividend(a).list)})

\* Every unit of cash is accounted for: the trades with their fees, and each
\* dividend once, from its pay day on, on what was held at the record day; also
\* after the symbol has been sold or delisted.
CashAccounted ==
  phase = "open" =>
    cash = InitialCash + Total([i \in DOMAIN fills |-> Flow(fills[i])], DOMAIN fills)
         + Total([a \in Loaded |-> Held(a) * Dividend(a).cash], {a \in Loaded : Since(a, Dividend(a).pay)})

\* The account refuses nothing, and every share and every unit of cash is explained.
Accounted == AccountNeverRefuses /\ SharesAccounted /\ ListingAccounted /\ CashAccounted

\* A position that a target of 0 sells out, all of it sellable, is gone after a bar
\* that lets it trade: its orders are split, ordered and, as to the last odd lot,
\* judged so that they take everything.
SoldOut ==
  phase = "filling" /\ made = <<>> /\ Events[slot + 1] = "bar" =>
    \A s \in leaving :
      LET bar == bars[s]
          price == ExecutionPrice("sell", bar) IN
      Tradable("sell", bar) /\ bar.capacity = None /\ price >= Fee(price) => quantity[s] = 0
=============================================================================
