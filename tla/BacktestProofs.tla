--------------------------- MODULE BacktestProofs ---------------------------
(***************************************************************************)
(* The backtest, for every calendar, every set of corporate actions, bars  *)
(* and orders.  First the books: the account stays valid and keeps T+1,    *)
(* every order has one outcome, create_orders only makes orders that the   *)
(* broker takes.  Then what the broker and the account owe each other: no  *)
(* order fills across an ex day, and the account never refuses a fill or a *)
(* dividend.                                                               *)
(*                                                                         *)
(* The second part adds four invariants to IndInv: which orders survive an *)
(* ex day, what the agenda still holds for a dividend, how the dividend    *)
(* shares that are not listed fit into `listing`, and how the account's    *)
(* cash and shares lead, fill by fill, to those the broker has been        *)
(* counting with.                                                          *)
(*                                                                         *)
(* The third part is the account as a whole: what it holds is explained,   *)
(* after every step, by the fills applied so far and the dividends booked  *)
(* so far.  That rests on the order of the morning, on the entitlements    *)
(* being those of the record day's close, and on sums over finite sets.    *)
(*                                                                         *)
(* The fourth part is a position that the strategy gives up: the orders    *)
(* that wait for the next bar, and what is still to order, are all that is *)
(* held, so that the last of them takes everything that is left.           *)
(***************************************************************************)
EXTENDS Backtest, FiniteSetTheorems, WellFoundedInduction, TLAPS

-----------------------------------------------------------------------------
(* Numbers. *)

LEMMA Product == ASSUME NEW x \in Nat, NEW y \in Nat PROVE x * y \in Nat
  BY Z3

LEMMA QuotientType ==
  ASSUME NEW x \in Nat, NEW d \in Nat \ {0}
  PROVE x \div d \in Nat
  BY Z3

LEMMA RoundedDown ==
  ASSUME NEW q \in Nat
  PROVE /\ RoundDown(q) \in Nat /\ RoundDown(q) <= Maximum
        /\ RoundDown(q) # 0 => RoundDown(RoundDown(q)) = RoundDown(q)
  <1> DEFINE m == Least(q, Maximum)
             k == m \div Step
  <1>1. m \in Nat /\ m <= Maximum
    BY RuleAssumption DEF Least
  <1>2. k \in Nat /\ k * Step <= m /\ m < k * Step + Step
    BY <1>1, RuleAssumption
  <1>3. k * Step \in Nat
    BY <1>2, RuleAssumption, Product
  <1>4. ASSUME m >= Minimum PROVE k * Step >= Minimum
    <2>1. PICK n \in Nat : Minimum = n * Step
      BY RuleAssumption
    <2>2. n <= k
      <3>1. SUFFICES ASSUME n > k PROVE FALSE
        BY <1>2
      <3>2. n >= k + 1
        BY <3>1, <1>2
      <3>3. n * Step >= (k + 1) * Step
        BY <3>2, <1>2, RuleAssumption
      <3> QED
        BY <3>3, <2>1, <1>1, <1>2, <1>4, RuleAssumption
    <2> QED
      BY <2>1, <2>2, <1>2, RuleAssumption
  <1>5. (k * Step) \div Step = k
    BY <1>2, RuleAssumption
  <1>6. Least(k * Step, Maximum) = k * Step
    BY <1>1, <1>2, <1>3, RuleAssumption DEF Least
  <1>7. RoundDown(q) = IF m >= Minimum THEN k * Step ELSE 0
    BY DEF RoundDown
  <1> HIDE DEF m, k
  <1>8. CASE m >= Minimum
    <2>1. RoundDown(k * Step) = k * Step
      BY <1>4, <1>5, <1>6, <1>8 DEF RoundDown
    <2> QED
      BY <1>1, <1>2, <1>3, <1>7, <1>8, <2>1, RuleAssumption
  <1>9. CASE ~(m >= Minimum)
    BY <1>7, <1>9, RuleAssumption
  <1> QED
    BY <1>8, <1>9

LEMMA AmountAcceptable ==
  ASSUME NEW g \in GapType
  PROVE /\ Amount(g) \in Nat /\ Amount(g) <= g.left
        /\ Amount(g) = 0 \/ Acceptable(g.side, Amount(g))
  <1>1. g.left \in Nat /\ g.side \in {"buy", "sell"}
    BY DEF GapType
  <1>2. CASE g.side = "sell" /\ g.out
    BY <1>1, <1>2, RuleAssumption DEF Amount, Acceptable, Least
  <1>3. CASE ~(g.side = "sell" /\ g.out)
    <2>1. Amount(g) = RoundDown(g.left)
      BY <1>3 DEF Amount
    <2>2. RoundDown(g.left) <= g.left
      <3>1. Least(g.left, Maximum) \in Nat /\ Least(g.left, Maximum) <= g.left
        BY <1>1, RuleAssumption DEF Least
      <3>2. ASSUME NEW m \in Nat PROVE (m \div Step) * Step <= m /\ (m \div Step) * Step \in Nat
        BY RuleAssumption, QuotientType, Product
      <3> QED
        BY <1>1, <3>1, <3>2 DEF RoundDown
    <2> QED
      BY <1>1, <2>1, <2>2, RoundedDown DEF Acceptable, ValidQuantity
  <1> QED
    BY <1>2, <1>3

LEMMA TargetType ==
  ASSUME NEW s \in Symbols, NEW w \in Nat, NEW price \in (Nat \ {0}) \cup {None}, NEW e \in Nat,
         quantity[s] \in Nat
  PROVE Target(s, w, price, e) \in Nat
  <1>1. CASE w = 0 \/ price = None
    BY <1>1 DEF Target
  <1>2. CASE w # 0 /\ price # None
    <2>1. e * w \in Nat
      BY Product
    <2>2. price \in Nat \ {0}
      BY <1>2
    <2>3. WeightUnit * price \in Nat \ {0}
      BY <2>2, RuleAssumption, Z3
    <2> QED
      BY <1>2, <2>1, <2>3, QuotientType DEF Target
  <1> QED
    BY <1>1, <1>2

-----------------------------------------------------------------------------
(* The inductive invariant, in three parts. *)

Account ==
  /\ PortfolioType /\ TPlusOne
  /\ bought \in [Symbols -> Nat]
  /\ phase = "morning" => \A s \in Symbols : bought[s] = 0

Books ==
  /\ orders \in Seq(OrderType)
  /\ updates \in Seq(Seq(OutcomeType)) /\ Len(updates) = Len(orders)
  /\ pending \subseteq DOMAIN orders /\ batch \subseteq DOMAIN orders
  /\ pending \cap batch = {}
  /\ phase # "matching" => batch = {}
  /\ OneOutcome
  /\ made \in Seq(FillType)

Phases == {"closed", "morning", "open", "ordering", "matching", "filling", "evening", "finished", "failed"}

Engine ==
  /\ world \in [dividend : [ActionIds -> Dividends], delisting : Delistings, policy : Policies]
  /\ phase \in Phases
  /\ day \in Sessions \cup {0} /\ slot \in 0 .. Len(Events)
  /\ agenda \subseteq Items
  /\ bars \in [Symbols -> Bars]
  /\ lastClose \in [Symbols -> (Nat \ {0}) \cup {None}]
  /\ plan \subseteq GapType
  /\ phase \in {"matching", "filling"} => slot < Len(Events)

IndInv == Account /\ Books /\ Engine

LEMMA InvImpliesTypeOK == IndInv => TypeOK
  BY DEF IndInv, Account, Books, Engine, TypeOK, Phases

\* create_orders has typed gaps, so every amount of theirs is one that submit takes.
LEMMA InvImpliesAcceptable == IndInv => PlannedAreAcceptable
  BY AmountAcceptable DEF IndInv, Engine, PlannedAreAcceptable

LEMMA DayType == ASSUME Engine PROVE day \in Nat /\ slot \in Nat
  BY WorldAssumption DEF Engine, Days

LEMMA SymbolType == ASSUME Engine, NEW a \in ActionIds
  PROVE /\ Dividend(a).symbol \in Symbols
        /\ Dividend(a).cash \in Nat /\ Dividend(a).stock \in Nat
  <1>1. Dividend(a) \in Dividends
    BY DEF Engine, Dividend
  <1> QED
    BY <1>1, WorldAssumption

LEMMA AccountSame ==
  ASSUME Account, UNCHANGED <<portfolio, bought>>, phase' = "morning" => phase = "morning"
  PROVE Account'
  BY DEF Account, portfolio, PortfolioType, TPlusOne

LEMMA BooksSame ==
  ASSUME Books, UNCHANGED broker, phase' # "matching" => batch = {}
  PROVE Books'
  BY DEF Books, broker, OneOutcome

LEMMA EngineSame ==
  ASSUME Engine, UNCHANGED <<world, day, slot, agenda, bars, lastClose, plan>>, phase' \in Phases,
         phase' \in {"matching", "filling"} => phase \in {"matching", "filling"}
  PROVE Engine'
  BY DEF Engine

LEMMA FailKeeps ==
  ASSUME IndInv, NEW kind, phase # "matching", Fail(kind)
  PROVE IndInv'
  <1>1. Account'
    BY AccountSame DEF IndInv, Fail, ghosts
  <1>2. Books'
    BY BooksSame DEF IndInv, Books, Fail
  <1>3. Engine'
    BY EngineSame DEF IndInv, Fail, Phases
  <1> QED
    BY <1>1, <1>2, <1>3 DEF IndInv

-----------------------------------------------------------------------------
(* The beginning. *)

LEMMA InitInv == Init => IndInv
  <1> SUFFICES ASSUME Init PROVE IndInv
    OBVIOUS
  <1>1. Account
    BY CashAssumption DEF Init, PortfolioInit, Account, PortfolioType, TPlusOne
  <1>2. Books
    <2>1. orders = <<>> /\ updates = <<>> /\ made = <<>> /\ pending = {} /\ batch = {}
      BY DEF Init, BrokerInit
    <2> QED
      BY <2>1 DEF Books, OneOutcome
  <1>3. Engine
    <2>1. slot \in 0 .. Len(Events)
      BY WorldAssumption DEF Init
    <2> QED
      BY <2>1, WorldAssumption DEF Init, Engine, Phases
  <1> QED
    BY <1>1, <1>2, <1>3 DEF IndInv

-----------------------------------------------------------------------------
(* The morning and the evening. *)

LEMMA StartSessionInv == ASSUME IndInv, StartSession PROVE IndInv'
  <1>1. Account'
    BY DEF IndInv, Account, PortfolioType, TPlusOne, StartSession, UnlockT1
  <1>2. Books'
    BY BooksSame DEF IndInv, Books, StartSession
  <1>3. Engine'
    <2>1. slot' \in 0 .. Len(Events)
      BY WorldAssumption DEF StartSession
    <2>2. agenda' \subseteq Items
      BY DEF StartSession, Morning
    <2> QED
      BY <2>1, <2>2 DEF IndInv, Engine, StartSession, Phases
  <1> QED
    BY <1>1, <1>2, <1>3 DEF IndInv

\* What a step of the agenda does to the engine.
LEMMA DoneKeeps ==
  ASSUME IndInv, NEW op, NEW a, Due(op, a), Done(op, a)
  PROVE Engine' /\ phase # "matching" /\ phase' = phase /\ bought' = bought
  <1>1. agenda' \subseteq Items
    BY DEF IndInv, Engine, Done
  <1> QED
    BY <1>1 DEF IndInv, Engine, Due, Done, ghosts

LEMMA CaptureInv == ASSUME IndInv, NEW a \in ActionIds, Capture(a) PROVE IndInv'
  <1>1. CASE Fail("action")
    BY <1>1, FailKeeps DEF Capture, Due
  <1>2. CASE CaptureEntitlement(a, Dividend(a).symbol) /\ Done("capture", a) /\ UNCHANGED broker
    <2>1. Engine' /\ phase # "matching" /\ phase' = phase /\ bought' = bought
      BY <1>2, DoneKeeps DEF Capture
    <2>2. Account'
      BY <1>2, <2>1, SymbolType DEF IndInv, Account, PortfolioType, TPlusOne, CaptureEntitlement, positions
    <2>3. Books'
      BY <1>2, <2>1, BooksSame DEF IndInv, Books
    <2> QED
      BY <2>1, <2>2, <2>3 DEF IndInv
  <1> QED
    BY <1>1, <1>2 DEF Capture

LEMMA SameLength ==
  ASSUME NEW S, NEW u \in Seq(S), NEW v, v = [i \in DOMAIN u |-> v[i]], \A i \in DOMAIN u : v[i] \in S
  PROVE v \in Seq(S) /\ Len(v) = Len(u)
  <1>1. DOMAIN u = 1 .. Len(u) /\ Len(u) \in Nat
    OBVIOUS
  <1>2. v \in [1 .. Len(u) -> S]
    BY <1>1
  <1> QED
    BY <1>1, <1>2

\* Cancelling, and expiring at the end, gives every order concerned its one outcome.
LEMMA FinishBooks ==
  ASSUME Books, Engine, NEW ids \in SUBSET pending, NEW status \in {"CANCELED", "EXPIRED"},
         pending' = pending \ ids, Finish(ids, status, day),
         UNCHANGED <<orders, fills, matching>>, phase' # "matching" => phase # "matching"
  PROVE Books'
  <1>1. Outcome(status, 0, day) \in OutcomeType
    BY DayType DEF Outcome, OutcomeType
  <1>2. updates' \in Seq(Seq(OutcomeType)) /\ Len(updates') = Len(updates)
    <2>1. \A i \in DOMAIN updates : updates[i] \in Seq(OutcomeType)
      BY DEF Books
    <2>2. \A i \in DOMAIN updates : Append(updates[i], Outcome(status, 0, day)) \in Seq(OutcomeType)
      BY <1>1, <2>1
    <2>3. /\ updates' = [i \in DOMAIN updates |-> updates'[i]]
          /\ \A i \in DOMAIN updates : updates'[i] \in Seq(OutcomeType)
      BY <2>1, <2>2 DEF Finish
    <2>4. updates \in Seq(Seq(OutcomeType))
      BY DEF Books
    <2> HIDE DEF Books
    <2> QED
      BY <2>3, <2>4, SameLength
  <1>3. \A i \in DOMAIN orders :
          Len(updates'[i]) = IF i \in ids THEN Len(updates[i]) + 1 ELSE Len(updates[i])
    BY <1>1 DEF Books, Finish
  <1>4. OneOutcome'
    BY <1>3 DEF Books, OneOutcome, matching
  <1> QED
    BY <1>2, <1>4 DEF Books, matching

LEMMA CancelOnExInv == ASSUME IndInv, NEW a \in ActionIds, CancelOnEx(a) PROVE IndInv'
  <1>1. Engine' /\ phase # "matching" /\ phase' = phase /\ bought' = bought
    BY DoneKeeps DEF CancelOnEx
  <1>2. Account'
    BY <1>1, AccountSame DEF IndInv, CancelOnEx
  <1>3. Books'
    <2> DEFINE ids == pending \cap OrdersOn({Dividend(a).symbol})
    <2>1. pending' = pending \ ids /\ Finish(ids, "CANCELED", day) /\ UNCHANGED <<orders, fills, matching>>
      BY DEF CancelOnEx, CancelSymbols, CancelOrders
    <2> QED
      BY <1>1, <2>1, FinishBooks DEF IndInv
  <1> QED
    BY <1>1, <1>2, <1>3 DEF IndInv

LEMMA EntitlementType == ASSUME Account, NEW a \in ActionIds PROVE Entitlement(a) \in Nat
  BY DEF Account, PortfolioType, Entitlement

LEMMA ConfirmCashInv == ASSUME IndInv, NEW a \in ActionIds, ConfirmCash(a) PROVE IndInv'
  <1>1. CASE Fail("action") \/ Fail("account")
    BY <1>1, FailKeeps DEF ConfirmCash, Due
  <1>2. CASE Done("cash", a) /\ UNCHANGED <<portfolio, broker>>
    <2>1. Engine' /\ phase # "matching" /\ phase' = phase /\ bought' = bought
      BY <1>2, DoneKeeps DEF ConfirmCash
    <2> QED
      BY <1>2, <2>1, AccountSame, BooksSame DEF IndInv, Books
  <1>3. CASE /\ RecognizeDividend(a, Entitlement(a) * Dividend(a).cash)
             /\ Done("cash", a) /\ UNCHANGED broker
    <2>1. Engine' /\ phase # "matching" /\ phase' = phase /\ bought' = bought
      BY <1>3, DoneKeeps DEF ConfirmCash
    <2>2. Entitlement(a) * Dividend(a).cash \in Nat
      BY EntitlementType, SymbolType, Product DEF IndInv
    <2>3. Account'
      BY <1>3, <2>1, <2>2 DEF IndInv, Account, PortfolioType, TPlusOne, RecognizeDividend, positions
    <2> QED
      BY <1>3, <2>1, <2>3, BooksSame DEF IndInv, Books
  <1> QED
    BY <1>1, <1>2, <1>3 DEF ConfirmCash

LEMMA ConfirmStockInv == ASSUME IndInv, NEW a \in ActionIds, ConfirmStock(a) PROVE IndInv'
  <1> DEFINE s == Dividend(a).symbol
             shares == StockDividend(Entitlement(a), Dividend(a).stock)
  <1>1. CASE Fail("action") \/ Fail("account")
    BY <1>1, FailKeeps DEF ConfirmStock, Due
  <1>2. CASE Done("stock", a) /\ UNCHANGED <<portfolio, broker>>
    <2>1. Engine' /\ phase # "matching" /\ phase' = phase /\ bought' = bought
      BY <1>2, DoneKeeps DEF ConfirmStock
    <2> QED
      BY <1>2, <2>1, AccountSame, BooksSame DEF IndInv, Books
  <1>3. CASE /\ AddStockDividend(a, Dividend(a).symbol, Entitlement(a), Dividend(a).stock)
             /\ Done("stock", a) /\ UNCHANGED broker
    <2>1. Engine' /\ phase # "matching" /\ phase' = phase /\ bought' = bought
      BY <1>3, DoneKeeps DEF ConfirmStock
    <2>2. Entitlement(a) * Dividend(a).stock \in Nat
      BY EntitlementType, SymbolType, Product DEF IndInv
    <2>3. shares \in Nat /\ s \in Symbols
      BY <2>2, QuotientType, CashAssumption, SymbolType DEF StockDividend, IndInv
    <2>4. /\ quantity' = [quantity EXCEPT ![s] = @ + shares]
          /\ listing' = [listing EXCEPT ![s] = @ + shares]
          /\ pendingStock' = [pendingStock EXCEPT ![a] = [symbol |-> s, quantity |-> shares]]
          /\ UNCHANGED <<cash, sellable, lastPrice, receivable, entitled>>
      BY <1>3 DEF AddStockDividend
    <2> HIDE DEF s, shares
    <2>5. Account'
      BY <2>1, <2>3, <2>4 DEF IndInv, Account, PortfolioType, TPlusOne
    <2> QED
      BY <1>3, <2>1, <2>5, BooksSame DEF IndInv, Books
  <1> QED
    BY <1>1, <1>2, <1>3 DEF ConfirmStock

LEMMA SettleInv == ASSUME IndInv, NEW a \in ActionIds, Settle(a) PROVE IndInv'
  <1>1. Engine' /\ phase # "matching" /\ phase' = phase /\ bought' = bought
    BY DoneKeeps DEF Settle
  <1>2. Account'
    BY <1>1 DEF IndInv, Account, PortfolioType, TPlusOne, Settle, SettleDividend, positions
  <1>3. Books'
    BY <1>1, BooksSame DEF IndInv, Books, Settle
  <1> QED
    BY <1>1, <1>2, <1>3 DEF IndInv

LEMMA ListInv == ASSUME IndInv, NEW a \in ActionIds, List(a) PROVE IndInv'
  <1>1. CASE Fail("account")
    BY <1>1, FailKeeps DEF List, Due
  <1>2. CASE ~ListedTooMany(a) /\ ListStockDividend(a) /\ Done("list", a) /\ UNCHANGED broker
    <2>1. Engine' /\ phase # "matching" /\ phase' = phase /\ bought' = bought
      BY <1>2, DoneKeeps DEF List
    <2>2. Account'
      <3>1. CASE pendingStock[a] = None
        BY <1>2, <2>1, <3>1, AccountSame DEF IndInv, ListStockDividend
      <3>2. CASE pendingStock[a] # None
        <4>1. PICK s \in Symbols, n \in Nat : pendingStock[a].symbol = s /\ pendingStock[a].quantity = n
          BY <3>2 DEF IndInv, Account, PortfolioType
        <4>2. /\ n <= listing[s]
              /\ listing' = [listing EXCEPT ![s] = @ - n]
              /\ sellable' = [sellable EXCEPT ![s] = @ + n]
              /\ pendingStock' = [pendingStock EXCEPT ![a] = None]
              /\ UNCHANGED <<cash, quantity, lastPrice, receivable, entitled>>
          BY <1>2, <3>2, <4>1 DEF ListStockDividend, ListedTooMany, IndInv, Account, PortfolioType
        <4> QED
          BY <2>1, <4>2 DEF IndInv, Account, PortfolioType, TPlusOne
      <3> QED
        BY <3>1, <3>2
    <2>3. Books'
      BY <1>2, <2>1, BooksSame DEF IndInv, Books
    <2> QED
      BY <2>1, <2>2, <2>3 DEF IndInv
  <1> QED
    BY <1>1, <1>2 DEF List

LEMMA CheckLifecyclesInv == ASSUME IndInv, CheckLifecycles PROVE IndInv'
  <1> DEFINE gone == Managed \cap Delisted
  <1>1. CASE Fail("delisted")
    BY <1>1, FailKeeps DEF CheckLifecycles
  <1>2. CASE /\ CancelSymbols(gone, day) /\ WriteOff(gone)
             /\ phase' = "open"
             /\ UNCHANGED <<world, error, day, slot, agenda, bars, lastClose, plan, calls, ghosts>>
    <2>1. phase = "morning"
      BY DEF CheckLifecycles
    <2> HIDE DEF gone
    <2>2. Account'
      BY <1>2, <2>1 DEF IndInv, Account, PortfolioType, TPlusOne, WriteOff, Zeroed, PendingWithout, ghosts
    <2>3. Books'
      <3> DEFINE ids == pending \cap OrdersOn(gone)
      <3>1. pending' = pending \ ids /\ Finish(ids, "CANCELED", day) /\ UNCHANGED <<orders, fills, matching>>
        BY <1>2 DEF CancelSymbols, CancelOrders
      <3> QED
        BY <2>1, <3>1, FinishBooks DEF IndInv
    <2>4. Engine'
      BY <1>2, EngineSame DEF IndInv, Phases
    <2> QED
      BY <2>2, <2>3, <2>4 DEF IndInv
  <1> QED
    BY <1>1, <1>2 DEF CheckLifecycles

-----------------------------------------------------------------------------
(* The market events. *)

LEMMA MarketEventInv == ASSUME IndInv, MarketEvent PROVE IndInv'
  <1>1. Account'
    BY AccountSame DEF IndInv, MarketEvent, ghosts
  <1>2. Books'
    <2>1. CASE phase' = "filling" /\ UNCHANGED broker
      BY <2>1, BooksSame DEF IndInv, Books, MarketEvent
    <2>2. CASE phase' = "matching" /\ TakeOrders(day, slot)
      <3>1. /\ batch' \subseteq pending /\ pending' = pending \ batch'
            /\ made' = <<>> /\ UNCHANGED <<orders, updates, fills>>
        BY <2>2 DEF TakeOrders
      <3>2. batch = {}
        BY DEF IndInv, Books, MarketEvent
      <3>3. OneOutcome'
        BY <3>1, <3>2 DEF IndInv, Books, OneOutcome
      <3> QED
        BY <2>2, <3>1, <3>3 DEF IndInv, Books
    <2> QED
      BY <2>1, <2>2 DEF MarketEvent
  <1>3. Engine'
    BY DEF IndInv, Engine, MarketEvent, Phases
  <1> QED
    BY <1>1, <1>2, <1>3 DEF IndInv

LEMMA FillTyped ==
  ASSUME Books, Engine, NEW i \in DOMAIN orders, NEW q \in Nat, NEW money, NEW shares,
         q # 0, Executes(orders[i], q, bars[orders[i].symbol], money, shares)
  PROVE FillOf(i, q, bars[orders[i].symbol], day) \in FillType
  <1> DEFINE o == orders[i]
             bar == bars[o.symbol]
             price == ExecutionPrice(o.side, bar)
  <1>1. o \in OrderType
    BY DEF Books
  <1>2. bar \in Bars
    BY <1>1 DEF Engine, OrderType
  <1>3. /\ bar.open \in Nat \cup {None} /\ bar.up \in Nat /\ bar.down \in Nat
    BY <1>2, WorldAssumption
  <1>4. bar.open \in Nat
    BY <1>3 DEF Executes, Tradable
  <1>5. price \in Int
    BY <1>3, <1>4, RuleAssumption DEF ExecutionPrice, Least, Greatest
  <1> HIDE DEF price
  <1>6. q * price \in Int
    BY <1>5, Z3
  <1>7. ASSUME NEW n \in Int PROVE Fee(n) \in Nat
    BY RuleAssumption DEF Fee, Greatest
  <1>8. FillOf(i, q, bar, day) =
          [order |-> i, symbol |-> o.symbol, side |-> o.side, quantity |-> q,
           notional |-> q * price, fee |-> Fee(q * price), day |-> day]
    BY DEF FillOf, price
  <1>9. i \in Nat /\ day \in Nat
    BY DayType DEF Books
  <1> QED
    BY <1>1, <1>6, <1>7, <1>8, <1>9 DEF FillType, OrderType

LEMMA MatchInv == ASSUME IndInv, Match PROVE IndInv'
  <1>1. PICK i \in batch : TryOrder(i, bars, day)
    BY DEF Match
  <1> DEFINE o == orders[i]
             bar == bars[o.symbol]
  <1>2. phase = "matching" /\ phase' = phase
    BY DEF Match, engine
  <1>3. i \in DOMAIN orders /\ i \notin pending /\ o \in OrderType
    BY <1>1 DEF IndInv, Books
  <1>4. PICK q \in 0 .. o.quantity, status \in {"NOT_FILLED", "FILLED", "PARTIALLY_FILLED"} :
          /\ Executes(o, q, bar, runCash, runSellable[o.symbol])
          /\ updates' = [updates EXCEPT ![i] = Append(@, Outcome(status, q, day))]
          /\ made' = IF q = 0 THEN made ELSE Append(made, FillOf(i, q, bar, day))
    BY <1>1 DEF TryOrder
  <1>5. q \in Nat /\ Outcome(status, q, day) \in OutcomeType
    BY <1>3, <1>4, DayType DEF Outcome, OutcomeType, OrderType, IndInv
  <1>6. batch' = batch \ {i} /\ UNCHANGED <<orders, pending>>
    BY <1>1 DEF TryOrder
  <1>7. Account'
    BY <1>2, AccountSame DEF IndInv, Match, ghosts
  <1>8. Books'
    <2>1. DOMAIN updates = DOMAIN orders /\ Len(updates[i]) = 0
      BY <1>1, <1>3 DEF IndInv, Books, OneOutcome
    <2>2. Append(updates[i], Outcome(status, q, day)) \in Seq(OutcomeType)
      BY <1>3, <1>5, <2>1 DEF IndInv, Books
    <2>3. updates' \in Seq(Seq(OutcomeType)) /\ Len(updates') = Len(updates)
      BY <1>3, <1>4, <2>1, <2>2 DEF IndInv, Books
    <2>4. Len(updates'[i]) = 1 /\ \A j \in DOMAIN orders : j # i => updates'[j] = updates[j]
      <3>1. updates[i] \in Seq(OutcomeType)
        BY <1>3, <2>1 DEF IndInv, Books
      <3>2. updates'[i] = Append(updates[i], Outcome(status, q, day))
        BY <1>3, <1>4, <2>1
      <3>3. Len(updates'[i]) = 1
        BY <2>1, <3>1, <3>2
      <3> QED
        BY <1>4, <2>1, <3>3
    <2>5. OneOutcome'
      BY <1>3, <1>6, <2>4 DEF IndInv, Books, OneOutcome
    <2>6. made' \in Seq(FillType)
      <3>1. q # 0 => FillOf(i, q, bar, day) \in FillType
        BY <1>3, <1>4, <1>5, FillTyped DEF IndInv
      <3>2. made \in Seq(FillType)
        BY DEF IndInv, Books
      <3> QED
        BY <1>4, <3>1, <3>2
    <2> QED
      BY <1>2, <1>6, <2>3, <2>5, <2>6 DEF IndInv, Books
  <1>9. Engine'
    BY DEF IndInv, Engine, Match, engine
  <1> QED
    BY <1>7, <1>8, <1>9 DEF IndInv

LEMMA MatchedInv == ASSUME IndInv, Matched PROVE IndInv'
  <1>1. Account'
    BY AccountSame DEF IndInv, Matched, ghosts
  <1>2. Books'
    <2>1. phase' = "filling" /\ batch = {} /\ UNCHANGED <<orders, pending, updates, batch, made>>
      BY DEF Matched, EndMatching
    <2> QED
      BY <2>1 DEF IndInv, Books, OneOutcome
  <1>3. Engine'
    BY EngineSame DEF IndInv, Matched, Phases
  <1> QED
    BY <1>1, <1>2, <1>3 DEF IndInv

LEMMA FillInv == ASSUME IndInv, Fill PROVE IndInv'
  <1> DEFINE fill == Head(made)
  <1>1. fill \in FillType /\ Tail(made) \in Seq(FillType)
    BY DEF IndInv, Books, Fill
  <1>2. CASE Fail("account")
    BY <1>2, FailKeeps DEF Fill
  <1>3. CASE /\ ApplyFill(fill) /\ made' = Tail(made)
             /\ bought' = IF fill.side = "buy" THEN [bought EXCEPT ![fill.symbol] = @ + fill.quantity] ELSE bought
             /\ UNCHANGED <<orders, pending, updates, fills, batch, runCash, runSellable, world, engine>>
    <2>1. phase = "filling" /\ phase' = phase
      BY <1>3 DEF Fill, engine
    <2>2. /\ fill.quantity \in Nat \ {0} /\ fill.symbol \in Symbols
          /\ fill.notional \in Int /\ fill.fee \in Nat /\ fill.side \in {"buy", "sell"}
      <3>1. ~(fill.quantity <= 0)
        BY <1>3 DEF ApplyFill, FillRefused
      <3> HIDE DEF fill
      <3> QED
        BY <3>1, <1>1 DEF FillType
    <2> HIDE DEF fill
    <2>3. CASE fill.side = "buy"
      <3>1. ApplyBuy(fill) /\ cash - Cost(fill) \in Nat
        BY <1>3, <2>2, <2>3 DEF ApplyFill, FillRefused, Cost, IndInv, Account, PortfolioType
      <3> QED
        <4>1. PortfolioType'
          BY <2>2, <3>1 DEF IndInv, Account, PortfolioType, ApplyBuy
        <4>2. bought' \in [Symbols -> Nat]
          BY <1>3, <2>2, <2>3 DEF IndInv, Account
        <4>3. TPlusOne'
          <5> SUFFICES ASSUME NEW s \in Symbols
                       PROVE  sellable'[s] + listing'[s] + bought'[s] = quantity'[s]
            BY DEF TPlusOne
          <5>1. /\ sellable[s] + listing[s] + bought[s] = quantity[s]
                /\ {sellable[s], listing[s], bought[s], quantity[s]} \subseteq Nat
                /\ sellable \in [Symbols -> Nat] /\ quantity \in [Symbols -> Nat] /\ bought \in [Symbols -> Nat]
            BY DEF IndInv, Account, PortfolioType, TPlusOne
          <5>2. CASE s = fill.symbol
            BY <1>3, <2>2, <2>3, <3>1, <5>1, <5>2 DEF ApplyBuy
          <5>3. CASE s # fill.symbol
            BY <1>3, <2>2, <2>3, <3>1, <5>1, <5>3 DEF ApplyBuy
          <5> QED
            BY <5>2, <5>3
        <4>4. Account'
          BY <2>1, <4>1, <4>2, <4>3 DEF Account
        <4> QED
          BY <1>1, <1>3, <2>1, <4>4 DEF IndInv, Books, Engine, engine, OneOutcome
    <2>4. CASE fill.side = "sell"
      <3>1. /\ ApplySell(fill) /\ cash + Proceeds(fill) \in Nat
            /\ fill.quantity <= quantity[fill.symbol] /\ fill.quantity <= sellable[fill.symbol]
        BY <1>3, <2>2, <2>4 DEF ApplyFill, FillRefused, Proceeds, IndInv, Account, PortfolioType
      <3> QED
        <4>1. PortfolioType'
          BY <2>2, <3>1 DEF IndInv, Account, PortfolioType, ApplySell
        <4>2. bought' \in [Symbols -> Nat]
          BY <1>3, <2>2, <2>4 DEF IndInv, Account
        <4>3. TPlusOne'
          <5> SUFFICES ASSUME NEW s \in Symbols
                       PROVE  sellable'[s] + listing'[s] + bought'[s] = quantity'[s]
            BY DEF TPlusOne
          <5>1. /\ sellable[s] + listing[s] + bought[s] = quantity[s]
                /\ {sellable[s], listing[s], bought[s], quantity[s]} \subseteq Nat
                /\ sellable \in [Symbols -> Nat] /\ quantity \in [Symbols -> Nat] /\ bought \in [Symbols -> Nat]
            BY DEF IndInv, Account, PortfolioType, TPlusOne
          <5>2. CASE s = fill.symbol
            BY <1>3, <2>2, <2>4, <3>1, <5>1, <5>2 DEF ApplySell
          <5>3. CASE s # fill.symbol
            BY <1>3, <2>2, <2>4, <3>1, <5>1, <5>3 DEF ApplySell
          <5> QED
            BY <5>2, <5>3
        <4>4. Account'
          BY <2>1, <4>1, <4>2, <4>3 DEF Account
        <4> QED
          BY <1>1, <1>3, <2>1, <4>4 DEF IndInv, Books, Engine, engine, OneOutcome
    <2> QED
      BY <2>2, <2>3, <2>4
  <1> QED
    BY <1>2, <1>3 DEF Fill

LEMMA MarkInv == ASSUME IndInv, Mark PROVE IndInv'
  <1>1. CASE Fail("data")
    BY <1>1, FailKeeps DEF Mark
  <1>2. CASE ~Fail("data")
    <2>1. /\ UNCHANGED <<cash, positions, receivable, entitled, pendingStock, broker, world, day, agenda, plan, bought>>
          /\ lastClose' = [s \in Symbols |-> IF bars[s] = NoBar THEN lastClose[s] ELSE bars[s].close]
          /\ bars' = [s \in Symbols |-> NoBar]
          /\ phase = "filling" /\ phase' = "open" /\ slot' = slot + 1
      BY <1>2 DEF Mark, MarkToMarket
    <2>2. Account'
      BY <2>1 DEF IndInv, Account, PortfolioType, TPlusOne, positions
    <2>3. Books'
      BY <2>1, BooksSame DEF IndInv, Books
    <2>4. Engine'
      <3>1. \A s \in Symbols : bars[s].close \in (Nat \ {0}) \cup {None}
        BY WorldAssumption DEF IndInv, Engine
      <3>2. lastClose' \in [Symbols -> (Nat \ {0}) \cup {None}]
        BY <2>1, <3>1 DEF IndInv, Engine
      <3>3. bars' \in [Symbols -> Bars]
        BY <2>1, WorldAssumption
      <3>4. Len(Events) \in Nat /\ slot' \in 0 .. Len(Events)
        BY <2>1, WorldAssumption DEF IndInv, Engine
      <3> QED
        BY <2>1, <3>2, <3>3, <3>4 DEF IndInv, Engine, Phases
    <2> QED
      BY <2>2, <2>3, <2>4 DEF IndInv
  <1> QED
    BY <1>1, <1>2

-----------------------------------------------------------------------------
(* The strategy, the evening and the end. *)

\* A new order waits and has no outcome yet.
LEMMA SubmitKeeps ==
  ASSUME Books, Engine, phase # "matching", phase' = phase,
         NEW s \in Symbols, NEW side \in {"buy", "sell"}, NEW q \in Nat, Submit(s, side, q, day, slot)
  PROVE Books'
  <1> DEFINE order == [symbol |-> s, side |-> side, quantity |-> q, day |-> day, instant |-> slot]
             n == Len(orders)
  <1>1. order \in OrderType
    BY DayType DEF OrderType
  <1>2. /\ orders' = Append(orders, order) /\ updates' = Append(updates, <<>>)
        /\ pending' = pending \cup {n + 1} /\ UNCHANGED <<batch, made>>
    BY DEF Submit, matching
  <1> HIDE DEF order
  <1>3. /\ n \in Nat /\ Len(updates) = n /\ DOMAIN orders = 1 .. n
        /\ pending \subseteq 1 .. n /\ batch = {}
    BY DEF Books
  <1>4. /\ orders' \in Seq(OrderType) /\ DOMAIN orders' = 1 .. n + 1 /\ Len(orders') = n + 1
    BY <1>1, <1>2, <1>3 DEF Books
  <1>5. /\ updates' \in Seq(Seq(OutcomeType)) /\ Len(updates') = n + 1
        /\ \A i \in 1 .. n : updates'[i] = updates[i]
        /\ updates'[n + 1] = <<>>
    <2>1. <<>> \in Seq(OutcomeType) /\ updates \in Seq(Seq(OutcomeType))
      BY DEF Books
    <2> QED
      BY <1>2, <1>3, <2>1
  <1>6. OneOutcome'
    BY <1>2, <1>3, <1>4, <1>5 DEF Books, OneOutcome
  <1> QED
    BY <1>2, <1>3, <1>4, <1>5, <1>6 DEF Books

LEMMA OrderSharesInv ==
  ASSUME IndInv, NEW s \in Symbols, NEW side \in {"buy", "sell"}, NEW q \in Quantities, OrderShares(s, side, q)
  PROVE IndInv'
  <1>1. phase = "open" /\ phase' = phase
    BY DEF OrderShares, Calling
  <1>2. Account'
    BY <1>1, AccountSame DEF IndInv, OrderShares
  <1>3. Books'
    BY <1>1, SubmitKeeps, WorldAssumption DEF IndInv, OrderShares
  <1>4. Engine'
    BY <1>1, EngineSame DEF IndInv, OrderShares, Phases
  <1> QED
    BY <1>2, <1>3, <1>4 DEF IndInv

LEMMA CancelInv == ASSUME IndInv, NEW i \in DOMAIN orders, Cancel(i) PROVE IndInv'
  <1>1. phase = "open" /\ phase' = phase
    BY DEF Cancel, Calling
  <1>2. Account'
    BY <1>1, AccountSame DEF IndInv, Cancel
  <1>3. Books'
    <2> DEFINE ids == pending \cap {i}
    <2>1. pending' = pending \ ids /\ Finish(ids, "CANCELED", day) /\ UNCHANGED <<orders, fills, matching>>
      BY DEF Cancel, CancelOrders
    <2> QED
      BY <1>1, <2>1, FinishBooks DEF IndInv
  <1>4. Engine'
    BY <1>1, EngineSame DEF IndInv, Cancel, Phases
  <1> QED
    BY <1>2, <1>3, <1>4 DEF IndInv

LEMMA RebalanceInv ==
  ASSUME IndInv, NEW w \in Weights, NEW e, Rebalance(w, e)
  PROVE IndInv'
  <1>1. phase = "open" /\ phase' = "ordering" /\ e \in Nat
    BY DEF Rebalance, Calling
  <1>2. Account'
    BY <1>1, AccountSame DEF IndInv, Rebalance
  <1>3. Books'
    BY <1>1, BooksSame DEF IndInv, Books, Rebalance
  <1>4. Engine'
    <2>1. ASSUME NEW s \in Symbols PROVE Gap(s, Target(s, w[s], lastClose[s], e)) \in GapType
      <3> DEFINE target == Target(s, w[s], lastClose[s], e)
      <3>1. quantity[s] \in Nat
        BY DEF IndInv, Account, PortfolioType
      <3>2. w[s] \in Nat
        BY WorldAssumption, RuleAssumption
      <3>3. lastClose[s] \in (Nat \ {0}) \cup {None}
        BY DEF IndInv, Engine
      <3>4. target \in Nat
        BY <1>1, <3>1, <3>2, <3>3, TargetType
      <3> HIDE DEF target
      <3>5. Gap(s, target) \in GapType
        BY <3>1, <3>4 DEF Gap, GapType
      <3> QED
        BY <3>5 DEF target
    <2>2. plan' \subseteq GapType
      BY <2>1 DEF Rebalance
    <2> QED
      BY <1>1, <2>2 DEF IndInv, Engine, Rebalance, Phases
  <1> QED
    BY <1>2, <1>3, <1>4 DEF IndInv

LEMMA OrderGapInv == ASSUME IndInv, OrderGap PROVE IndInv'
  <1>1. PICK g \in plan :
          IF Amount(g) = 0 THEN plan' = plan \ {g} /\ UNCHANGED broker
          ELSE /\ plan' = (plan \ {g}) \cup {[g EXCEPT !.left = @ - Amount(g)]}
               /\ Submit(g.symbol, g.side, Amount(g), day, slot)
    BY DEF OrderGap
  <1>2. phase = "ordering" /\ phase' = phase
    BY DEF OrderGap
  <1>3. g \in GapType
    BY DEF IndInv, Engine
  <1>4. Amount(g) \in Nat /\ Amount(g) <= g.left
    BY <1>3, AmountAcceptable
  <1>5. Account'
    BY <1>2, AccountSame DEF IndInv, OrderGap, ghosts
  <1>6. Books'
    <2>1. CASE UNCHANGED broker
      BY <1>2, <2>1, BooksSame DEF IndInv, Books
    <2>2. CASE Submit(g.symbol, g.side, Amount(g), day, slot)
      BY <1>2, <1>3, <1>4, <2>2, SubmitKeeps DEF IndInv, GapType
    <2> QED
      BY <1>1, <2>1, <2>2
  <1>7. plan' \subseteq GapType
    <2>1. [g EXCEPT !.left = @ - Amount(g)] \in GapType
      BY <1>3, <1>4 DEF GapType
    <2> QED
      BY <1>1, <2>1 DEF IndInv, Engine
  <1>8. Engine'
    BY <1>2, <1>7 DEF IndInv, Engine, OrderGap, Phases
  <1> QED
    BY <1>5, <1>6, <1>8 DEF IndInv

LEMMA QuietInv ==
  ASSUME IndInv, EndOrdering \/ EndSession \/ CloseSession
  PROVE IndInv'
  <1>1. /\ phase \notin {"matching", "filling"} /\ phase' \in {"open", "evening", "closed"}
        /\ UNCHANGED <<portfolio, bought, broker, world, day, slot, bars, lastClose, plan>>
        /\ agenda' = agenda \/ agenda' = Evening(day)
    BY DEF EndOrdering, EndSession, CloseSession, ghosts
  <1>2. Account'
    BY <1>1, AccountSame DEF IndInv
  <1>3. Books'
    BY <1>1, BooksSame DEF IndInv, Books
  <1>4. agenda' \subseteq Items
    BY <1>1 DEF IndInv, Engine, Evening
  <1>5. Engine'
    BY <1>1, <1>4 DEF IndInv, Engine, Phases
  <1> QED
    BY <1>2, <1>3, <1>5 DEF IndInv

LEMMA FinishRunInv == ASSUME IndInv, FinishRun PROVE IndInv'
  <1>1. phase = "closed" /\ phase' = "finished"
    BY DEF FinishRun
  <1>2. Account'
    BY <1>1, AccountSame DEF IndInv, FinishRun, ghosts
  <1>3. Books'
    <2>1. pending' = pending \ pending /\ Finish(pending, "EXPIRED", day) /\ UNCHANGED <<orders, fills, matching>>
      BY DEF FinishRun, ExpireAll
    <2> QED
      BY <1>1, <2>1, FinishBooks DEF IndInv
  <1>4. Engine'
    BY <1>1, EngineSame DEF IndInv, FinishRun, Phases
  <1> QED
    BY <1>2, <1>3, <1>4 DEF IndInv

LEMMA NextInv == IndInv /\ [Next]_vars => IndInv'
  <1> SUFFICES ASSUME IndInv, [Next]_vars PROVE IndInv'
    OBVIOUS
  <1>1. CASE StartSession \/ CheckLifecycles
    BY <1>1, StartSessionInv, CheckLifecyclesInv
  <1>2. CASE MorningOrEvening
    BY <1>2, CaptureInv, CancelOnExInv, ConfirmCashInv, ConfirmStockInv, SettleInv, ListInv
       DEF MorningOrEvening
  <1>3. CASE MarketEvent \/ Match \/ Matched \/ Fill \/ Mark
    BY <1>3, MarketEventInv, MatchInv, MatchedInv, FillInv, MarkInv
  <1>4. CASE Strategy
    BY <1>4, OrderSharesInv, CancelInv, RebalanceInv, OrderGapInv, QuietInv DEF Strategy
  <1>5. CASE EndSession \/ CloseSession \/ FinishRun
    BY <1>5, QuietInv, FinishRunInv
  <1>6. CASE UNCHANGED vars
    <2>1. UNCHANGED <<portfolio, broker, world, phase, day, slot, agenda, bars, lastClose, plan, bought>>
      BY <1>6 DEF vars, portfolio, broker
    <2>2. Account'
      BY <2>1, AccountSame DEF IndInv
    <2>3. Books'
      BY <2>1 DEF IndInv, Books, broker, OneOutcome
    <2>4. Engine'
      BY <2>1 DEF IndInv, Engine
    <2> QED
      BY <2>2, <2>3, <2>4 DEF IndInv
  <1> QED
    BY <1>1, <1>2, <1>3, <1>4, <1>5, <1>6 DEF Next, Ended

-----------------------------------------------------------------------------
(* The theorems. *)

\* The engine, the account and the broker keep their invariants together.
THEOREM Invariance == Spec => []IndInv
  BY InitInv, NextInv, PTL DEF Spec

\* The account and the broker's books keep their types: no cash, no position and no
\* receivable is ever negative, and what is sellable or not listed is held, after
\* every fill, dividend and write-off (Portfolio.assert_valid).
THEOREM TypeCorrect == Spec => []TypeOK
  BY Invariance, InvImpliesTypeOK, PTL

\* T+1: at every moment what may be sold is what is held, less the shares bought in
\* this session and the dividend shares that are not listed.
THEOREM TPlusOneHolds == Spec => []TPlusOne
  <1>1. IndInv => TPlusOne
    BY DEF IndInv, Account
  <1> QED
    BY <1>1, Invariance, PTL

\* create_orders: every order that it makes of a target portfolio is one that
\* submit accepts, whatever the rule's minimum, step and maximum.
THEOREM PlannedAccepted == Spec => []PlannedAreAcceptable
  BY Invariance, InvImpliesAcceptable, PTL

\* An order waits or has exactly one outcome, among cancellations, corporate
\* actions, delistings, matching and the end of the run.
THEOREM OrdersEndOnce == Spec => []OneOutcome
  <1>1. IndInv => OneOutcome
    BY DEF IndInv, Books
  <1> QED
    BY <1>1, Invariance, PTL

-----------------------------------------------------------------------------
(* Orders and ex days. *)

\* The agenda still has to cancel the orders that the action a (or its equal,
\* the one that is loaded) makes void.
CancelTodo(a) == \E x \in agenda : x.op = "cancel" /\ Dividend(x.id) = Dividend(a)

\* An order that waits, or is tried, is not older than an ex day that has come.
Surviving ==
  \A a \in ActionIds :
    Dividend(a).ex \in Sessions /\ Dividend(a).ex <= day /\ ~CancelTodo(a) =>
      \A i \in pending \cup batch :
        orders[i].symbol = Dividend(a).symbol => Dividend(a).ex <= orders[i].day

\* A fill of an order that no ex day came between.
Clean(f) ==
  /\ f.order \in DOMAIN orders /\ orders[f.order].symbol = f.symbol
  /\ \A a \in ActionIds :
       f.symbol = Dividend(a).symbol /\ Dividend(a).ex \in Sessions
         => ~(orders[f.order].day < Dividend(a).ex /\ Dividend(a).ex <= f.day)

\* The agenda is for the morning and the evening.
AgendaOpen == phase \in {"closed", "open", "ordering", "matching", "filling"} => agenda = {}

FillsClean == \A k \in DOMAIN fills : Clean(fills[k])
MadeClean == \A k \in DOMAIN made : Clean(made[k])

OrdersInv ==
  /\ AgendaOpen /\ Surviving
  /\ fills \in Seq(FillType)
  /\ FillsClean /\ MadeClean

\* Every order is kept, so a clean fill stays clean.
LEMMA FillsKept ==
  ASSUME FillsClean, UNCHANGED <<world, fills>>,
         \A i \in DOMAIN orders : i \in DOMAIN orders' /\ orders'[i] = orders[i]
  PROVE FillsClean'
  BY DEF FillsClean, Clean, Dividend

LEMMA MadeKept ==
  ASSUME MadeClean, UNCHANGED world,
         \A i \in DOMAIN orders : i \in DOMAIN orders' /\ orders'[i] = orders[i],
         \A k \in DOMAIN made' : \E j \in DOMAIN made : made'[k] = made[j]
  PROVE MadeClean'
  BY DEF MadeClean, Clean, Dividend

\* Fewer orders are left, and fewer fills to apply.
LEMMA FewerOrders ==
  ASSUME OrdersInv, UNCHANGED <<orders, world, day, agenda, fills>>,
         pending' \cup batch' \subseteq pending \cup batch,
         \A k \in DOMAIN made' : \E j \in DOMAIN made : made'[k] = made[j],
         AgendaOpen'
  PROVE OrdersInv'
  <1>1. FillsClean' /\ MadeClean'
    BY FillsKept, MadeKept DEF OrdersInv
  <1>2. Surviving'
    BY DEF OrdersInv, Surviving, CancelTodo, Dividend
  <1> QED
    BY <1>1, <1>2 DEF OrdersInv

\* A step of the agenda that is not a cancellation.
LEMMA OtherDone ==
  ASSUME OrdersInv, NEW op, NEW a, op # "cancel", Due(op, a), Done(op, a), UNCHANGED broker
  PROVE OrdersInv'
  <1>1. FillsClean' /\ MadeClean'
    BY FillsKept, MadeKept DEF OrdersInv, Done, broker
  <1>2. \A b \in ActionIds : CancelTodo(b) => CancelTodo(b)'
    BY DEF CancelTodo, Done, Dividend
  <1>3. Surviving'
    BY <1>2 DEF OrdersInv, Surviving, Done, broker, Dividend
  <1>4. AgendaOpen'
    BY DEF OrdersInv, AgendaOpen, Done
  <1> QED
    BY <1>1, <1>3, <1>4 DEF OrdersInv, broker

LEMMA FailOrders == ASSUME OrdersInv, NEW kind, Fail(kind) PROVE OrdersInv'
  <1>1. AgendaOpen'
    BY DEF AgendaOpen, Fail
  <1> QED
    BY <1>1, FewerOrders DEF Fail, broker

LEMMA LeastNatural ==
  ASSUME NEW S \in SUBSET Nat, S # {}
  PROVE  \E n \in S : \A m \in S : n <= m
  <1>1. PICK n \in S : \A m \in S : ~(<<m, n>> \in OpToRel(<, Nat))
    BY NatLessThanWellFounded, WFMin
  <1>2. \A m \in S : n <= m
    <2> TAKE m \in S
    <2>1. ~(m < n)
      BY <1>1 DEF OpToRel
    <2> QED
      BY <2>1
  <1> QED
    BY <1>2

\* Equal facts have one that is loaded.
LEMMA LoadedEqual ==
  ASSUME NEW a \in ActionIds
  PROVE \E b \in Loaded : Dividend(b) = Dividend(a)
  <1> DEFINE same == {b \in ActionIds : Dividend(b) = Dividend(a)}
  <1>1. same \in SUBSET Nat /\ same # {}
    BY WorldAssumption
  <1>2. PICK b \in same : \A c \in same : b <= c
    BY <1>1, LeastNatural
  <1> QED
    BY <1>2 DEF Loaded

LEMMA OrderDay == ASSUME Books, NEW i \in DOMAIN orders PROVE orders[i].day \in Nat
  <1>1. orders[i] \in OrderType
    BY DEF Books
  <1> QED
    BY <1>1 DEF OrderType

LEMMA SessionDay == ASSUME NEW d \in Sessions PROVE d \in Nat
  BY WorldAssumption DEF Days

LEMMA StartSessionOrders == ASSUME IndInv, OrdersInv, StartSession PROVE OrdersInv'
  <1>1. PICK d \in Sessions :
          /\ d > day /\ \A t \in Sessions : t > day => t >= d
          /\ day' = d /\ agenda' = Morning(d)
    BY DEF StartSession
  <1>2. /\ phase = "closed" /\ phase' = "morning" /\ agenda = {}
        /\ UNCHANGED <<orders, pending, batch, fills, made, world>>
    BY DEF StartSession, broker, OrdersInv, AgendaOpen
  <1>3. Surviving'
    <2> SUFFICES ASSUME NEW a \in ActionIds, Dividend(a)'.ex \in Sessions, Dividend(a)'.ex <= d, ~CancelTodo(a)',
                        NEW i \in pending \cup batch, orders[i].symbol = Dividend(a)'.symbol
                 PROVE  Dividend(a)'.ex <= orders[i].day
      BY <1>1, <1>2 DEF Surviving
    <2>1. Dividend(a)' = Dividend(a)
      BY <1>2 DEF Dividend
    <2>2. Dividend(a).ex # d
      <3>1. SUFFICES ASSUME Dividend(a).ex = d PROVE FALSE
        OBVIOUS
      <3>2. PICK b \in Loaded : Dividend(b) = Dividend(a)
        BY LoadedEqual
      <3>3. [stage |-> 1, id |-> b, op |-> "cancel"] \in Morning(d)
        BY <3>1, <3>2 DEF Morning, Items, Loaded
      <3>4. [stage |-> 1, id |-> b, op |-> "cancel"] \in agenda'
        BY <1>1, <3>3
      <3>5. CancelTodo(a)'
        BY <1>2, <3>2, <3>4 DEF CancelTodo, Dividend
      <3> QED
        BY <3>5
    <2>3. Dividend(a).ex <= day
      BY <1>1, <2>1, <2>2, DayType, WorldAssumption DEF Days, IndInv
    <2>4. ~CancelTodo(a)
      BY <1>2 DEF CancelTodo
    <2> QED
      BY <2>1, <2>3, <2>4 DEF OrdersInv, Surviving
  <1>4. FillsClean' /\ MadeClean'
    BY <1>2, FillsKept, MadeKept DEF OrdersInv
  <1> QED
    BY <1>2, <1>3, <1>4 DEF OrdersInv, AgendaOpen

LEMMA CancelOnExOrders ==
  ASSUME IndInv, OrdersInv, NEW a \in ActionIds, CancelOnEx(a)
  PROVE OrdersInv'
  <1>1. /\ pending' = pending \ OrdersOn({Dividend(a).symbol})
        /\ agenda' = {x \in agenda : x.op # "cancel" \/ x.id # a}
        /\ UNCHANGED <<world, phase, day, orders, fills, batch, made>>
        /\ batch = {}
    BY DEF CancelOnEx, CancelSymbols, CancelOrders, matching, Done, Due, IndInv, Books
  <1>2. Surviving'
    <2> SUFFICES ASSUME NEW b \in ActionIds, Dividend(b).ex \in Sessions, Dividend(b).ex <= day, ~CancelTodo(b)',
                        NEW i \in pending', orders[i].symbol = Dividend(b).symbol
                 PROVE  Dividend(b).ex <= orders[i].day
      BY <1>1 DEF Surviving, Dividend
    <2>1. i \in pending /\ orders[i].symbol # Dividend(a).symbol
      BY <1>1 DEF OrdersOn, IndInv, Books
    <2>2. ~CancelTodo(b)
      BY <1>1, <2>1 DEF CancelTodo, Dividend
    <2> QED
      BY <2>1, <2>2 DEF OrdersInv, Surviving
  <1>3. FillsClean' /\ MadeClean'
    BY <1>1, FillsKept, MadeKept DEF OrdersInv
  <1>4. AgendaOpen'
    BY <1>1 DEF OrdersInv, AgendaOpen
  <1> QED
    BY <1>1, <1>2, <1>3, <1>4 DEF OrdersInv

LEMMA SubmitOrders ==
  ASSUME IndInv, OrdersInv, NEW s \in Symbols, NEW side \in {"buy", "sell"}, NEW q \in Nat,
         Submit(s, side, q, day, slot), UNCHANGED <<world, phase, day, agenda>>
  PROVE OrdersInv'
  <1> DEFINE order == [symbol |-> s, side |-> side, quantity |-> q, day |-> day, instant |-> slot]
             n == Len(orders)
  <1>1. /\ orders' = Append(orders, order) /\ pending' = pending \cup {n + 1}
        /\ UNCHANGED <<fills, batch, made>>
    BY DEF Submit, matching
  <1>2. /\ order.day = day /\ order \in OrderType
    BY DayType DEF OrderType, IndInv
  <1> HIDE DEF order
  <1>3. /\ n \in Nat /\ DOMAIN orders = 1 .. n /\ pending \cup batch \subseteq 1 .. n
        /\ DOMAIN orders' = 1 .. n + 1
        /\ \A i \in 1 .. n : orders'[i] = orders[i]
        /\ orders'[n + 1] = order
    BY <1>1, <1>2 DEF IndInv, Books
  <1>4. Surviving'
    <2> SUFFICES ASSUME NEW b \in ActionIds, Dividend(b).ex \in Sessions, Dividend(b).ex <= day, ~CancelTodo(b),
                        NEW i \in pending' \cup batch', orders'[i].symbol = Dividend(b).symbol
                 PROVE  Dividend(b).ex <= orders'[i].day
      BY DEF Surviving, Dividend, CancelTodo
    <2>1. CASE i \in 1 .. n
      BY <1>1, <1>3, <2>1 DEF OrdersInv, Surviving
    <2>2. CASE i = n + 1
      BY <1>2, <1>3, <2>2
    <2> QED
      BY <1>1, <1>3, <2>1, <2>2
  <1>5. FillsClean' /\ MadeClean'
    BY <1>1, <1>3, FillsKept, MadeKept DEF OrdersInv
  <1> QED
    BY <1>1, <1>4, <1>5 DEF OrdersInv, AgendaOpen

LEMMA MatchOrders == ASSUME IndInv, OrdersInv, Match PROVE OrdersInv'
  <1>1. PICK i \in batch : TryOrder(i, bars, day)
    BY DEF Match
  <1> DEFINE o == orders[i]
             bar == bars[o.symbol]
  <1>2. PICK q \in 0 .. o.quantity : made' = IF q = 0 THEN made ELSE Append(made, FillOf(i, q, bar, day))
    BY <1>1 DEF TryOrder
  <1>3. /\ phase = "matching" /\ agenda = {}
        /\ batch' = batch \ {i}
        /\ UNCHANGED <<orders, pending, fills, world, phase, day, agenda>>
    BY <1>1 DEF TryOrder, Match, engine, OrdersInv, AgendaOpen
  <1>4. Surviving'
    BY <1>3 DEF OrdersInv, Surviving, CancelTodo, Dividend
  <1>5. Clean(FillOf(i, q, bar, day))
    <2>1. i \in DOMAIN orders
      BY DEF IndInv, Books
    <2>2. FillOf(i, q, bar, day).order = i /\ FillOf(i, q, bar, day).symbol = o.symbol
          /\ FillOf(i, q, bar, day).day = day
      BY DEF FillOf
    <2>3. ASSUME NEW a \in ActionIds, o.symbol = Dividend(a).symbol, Dividend(a).ex \in Sessions,
                 o.day < Dividend(a).ex, Dividend(a).ex <= day
          PROVE FALSE
      <3>1. ~CancelTodo(a)
        BY <1>3 DEF CancelTodo
      <3>2. Dividend(a).ex <= o.day
        BY <2>3, <3>1 DEF OrdersInv, Surviving
      <3>3. o.day \in Nat
        BY <2>1, OrderDay DEF IndInv
      <3>4. Dividend(a).ex \in Nat
        BY <2>3, SessionDay
      <3> QED
        BY <2>3, <3>2, <3>3, <3>4
    <2> QED
      BY <2>1, <2>2, <2>3 DEF Clean
  <1>6. MadeClean'
    <2>1. made \in Seq(FillType)
      BY DEF IndInv, Books
    <2>2. CASE q = 0
      BY <1>2, <1>3, <2>2 DEF OrdersInv, MadeClean, Clean, Dividend
    <2>3. CASE q # 0
      <3>1. made' = Append(made, FillOf(i, q, bar, day))
        BY <1>2, <2>3
      <3> SUFFICES ASSUME NEW k \in DOMAIN made' PROVE made'[k] = FillOf(i, q, bar, day) \/ (k \in DOMAIN made /\ made'[k] = made[k])
        BY <1>3, <1>5 DEF OrdersInv, MadeClean, Clean, Dividend
      <3> QED
        BY <2>1, <3>1
    <2> QED
      BY <2>2, <2>3
  <1>7. FillsClean'
    BY <1>3, FillsKept DEF OrdersInv
  <1> QED
    BY <1>3, <1>4, <1>6, <1>7 DEF OrdersInv, AgendaOpen

LEMMA MatchedOrders == ASSUME IndInv, OrdersInv, Matched PROVE OrdersInv'
  <1>1. /\ fills' = fills \o made /\ phase' = "filling" /\ phase = "matching"
        /\ UNCHANGED <<orders, pending, batch, made, world, day, agenda>>
    BY DEF Matched, EndMatching
  <1>2. /\ fills \in Seq(FillType) /\ made \in Seq(FillType)
        /\ fills' \in Seq(FillType)
    BY <1>1 DEF OrdersInv, IndInv, Books
  <1>3. \A k \in DOMAIN fills' :
          \/ k \in DOMAIN fills /\ fills'[k] = fills[k]
          \/ \E j \in DOMAIN made : fills'[k] = made[j]
    <2> SUFFICES ASSUME NEW k \in DOMAIN fills', ~(k \in DOMAIN fills)
                 PROVE  \E j \in DOMAIN made : fills'[k] = made[j]
      BY <1>1, <1>2
    <2>1. /\ k - Len(fills) \in DOMAIN made /\ fills'[k] = made[k - Len(fills)]
      BY <1>1, <1>2
    <2> QED
      BY <2>1
  <1>4. FillsClean'
    <2> SUFFICES ASSUME NEW k \in DOMAIN fills' PROVE Clean(fills[k])'
      BY DEF FillsClean
    <2>1. PICK f : f = fills'[k] /\ Clean(f)
      BY <1>3 DEF OrdersInv, FillsClean, MadeClean
    <2> QED
      BY <1>1, <2>1 DEF Clean, Dividend
  <1>5. MadeClean'
    BY <1>1, MadeKept DEF OrdersInv
  <1>6. Surviving'
    BY <1>1 DEF OrdersInv, Surviving, CancelTodo, Dividend
  <1> QED
    BY <1>1, <1>2, <1>4, <1>5, <1>6 DEF OrdersInv, AgendaOpen

LEMMA EndSessionOrders == ASSUME IndInv, OrdersInv, EndSession PROVE OrdersInv'
  <1>1. /\ phase = "open" /\ phase' = "evening"
        /\ UNCHANGED <<orders, pending, batch, fills, made, world, day>>
        /\ agenda = {}
    BY DEF EndSession, broker, OrdersInv, AgendaOpen
  <1>2. Surviving'
    <2>1. \A a \in ActionIds : ~CancelTodo(a)
      BY <1>1 DEF CancelTodo
    <2> QED
      BY <1>1, <2>1 DEF OrdersInv, Surviving, Dividend
  <1>3. FillsClean' /\ MadeClean'
    BY <1>1, FillsKept, MadeKept DEF OrdersInv
  <1> QED
    BY <1>1, <1>2, <1>3 DEF OrdersInv, AgendaOpen

LEMMA AgendaOrders == ASSUME IndInv, OrdersInv, MorningOrEvening PROVE OrdersInv'
  <1> PICK a \in ActionIds :
        Capture(a) \/ CancelOnEx(a) \/ ConfirmCash(a) \/ ConfirmStock(a) \/ Settle(a) \/ List(a)
    BY DEF MorningOrEvening
  <1>1. CASE Capture(a)
    BY <1>1, FailOrders, OtherDone DEF Capture
  <1>2. CASE CancelOnEx(a)
    BY <1>2, CancelOnExOrders
  <1>3. CASE ConfirmCash(a)
    BY <1>3, FailOrders, OtherDone DEF ConfirmCash
  <1>4. CASE ConfirmStock(a)
    BY <1>4, FailOrders, OtherDone DEF ConfirmStock
  <1>5. CASE Settle(a)
    BY <1>5, OtherDone DEF Settle
  <1>6. CASE List(a)
    BY <1>6, FailOrders, OtherDone DEF List
  <1> QED
    BY <1>1, <1>2, <1>3, <1>4, <1>5, <1>6

\* The steps that only cancel, take or end orders, or leave them alone.
LEMMA QuietOrders ==
  ASSUME IndInv, OrdersInv,
         \/ CheckLifecycles \/ MarketEvent \/ Fill \/ Mark
         \/ (\E i \in DOMAIN orders : Cancel(i)) \/ (\E w \in Weights : Rebalance(w, Equity))
         \/ EndOrdering \/ CloseSession \/ FinishRun \/ UNCHANGED vars
  PROVE OrdersInv'
  <1>1. CASE CheckLifecycles
    <2>1. CASE Fail("delisted")
      BY <2>1, FailOrders
    <2>2. CASE ~Fail("delisted")
      BY <1>1, <2>2, FewerOrders DEF CheckLifecycles, CancelSymbols, CancelOrders, matching, AgendaOpen
    <2> QED
      BY <2>1, <2>2
  <1>2. CASE MarketEvent
    <2>1. AgendaOpen'
      BY <1>2 DEF MarketEvent, OrdersInv, AgendaOpen
    <2>2. UNCHANGED <<orders, world, day, agenda, fills>> /\ pending' \cup batch' \subseteq pending \cup batch
      BY <1>2 DEF MarketEvent, TakeOrders, broker
    <2>3. made' = made \/ made' = <<>>
      BY <1>2 DEF MarketEvent, TakeOrders, broker
    <2> QED
      BY <2>1, <2>2, <2>3, FewerOrders
  <1>3. CASE Fill
    <2>1. CASE Fail("account")
      BY <2>1, FailOrders
    <2>2. CASE ~Fail("account")
      <3>1. /\ made' = Tail(made) /\ made # <<>>
            /\ UNCHANGED <<orders, pending, fills, batch, world, phase, day, agenda>>
        BY <1>3, <2>2 DEF Fill, engine
      <3>2. \A k \in DOMAIN made' : \E j \in DOMAIN made : made'[k] = made[j]
        BY <3>1 DEF IndInv, Books
      <3> QED
        BY <3>1, <3>2, FewerOrders DEF OrdersInv, AgendaOpen
    <2> QED
      BY <2>1, <2>2
  <1>4. CASE Mark
    <2>1. CASE Fail("data")
      BY <2>1, FailOrders
    <2>2. CASE ~Fail("data")
      BY <1>4, <2>2, FewerOrders DEF Mark, broker, OrdersInv, AgendaOpen
    <2> QED
      BY <2>1, <2>2
  <1>5. CASE \E i \in DOMAIN orders : Cancel(i)
    BY <1>5, FewerOrders DEF Cancel, CancelOrders, matching, OrdersInv, AgendaOpen
  <1>6. CASE \E w \in Weights : Rebalance(w, Equity)
    BY <1>6, FewerOrders DEF Rebalance, Calling, broker, OrdersInv, AgendaOpen
  <1>7. CASE EndOrdering \/ CloseSession
    BY <1>7, FewerOrders DEF EndOrdering, CloseSession, broker, OrdersInv, AgendaOpen
  <1>8. CASE FinishRun
    BY <1>8, FewerOrders DEF FinishRun, ExpireAll, matching, OrdersInv, AgendaOpen
  <1>9. CASE UNCHANGED vars
    BY <1>9, FewerOrders DEF vars, OrdersInv, AgendaOpen
  <1> QED
    BY <1>1, <1>2, <1>3, <1>4, <1>5, <1>6, <1>7, <1>8, <1>9

LEMMA StrategyOrders == ASSUME IndInv, OrdersInv, Strategy PROVE OrdersInv'
  <1>1. CASE \E s \in Symbols, side \in {"buy", "sell"}, q \in Quantities : OrderShares(s, side, q)
    BY <1>1, SubmitOrders, WorldAssumption DEF OrderShares
  <1>2. CASE OrderGap
    <2>1. PICK g \in plan :
            IF Amount(g) = 0 THEN UNCHANGED broker ELSE Submit(g.symbol, g.side, Amount(g), day, slot)
      BY <1>2 DEF OrderGap
    <2>2. UNCHANGED <<world, phase, day, agenda>>
      BY <1>2 DEF OrderGap
    <2>3. g \in GapType
      BY DEF IndInv, Engine
    <2>4. CASE UNCHANGED broker
      BY <2>2, <2>4, FewerOrders DEF broker, OrdersInv, AgendaOpen
    <2>5. CASE Submit(g.symbol, g.side, Amount(g), day, slot)
      BY <2>2, <2>3, <2>5, AmountAcceptable, SubmitOrders DEF GapType
    <2> QED
      BY <2>1, <2>4, <2>5
  <1> QED
    BY <1>1, <1>2, QuietOrders DEF Strategy

LEMMA InitOrders == Init => OrdersInv
  <1> SUFFICES ASSUME Init PROVE OrdersInv
    OBVIOUS
  <1>1. /\ fills = <<>> /\ made = <<>> /\ pending = {} /\ batch = {} /\ agenda = {}
    BY DEF Init, BrokerInit
  <1> QED
    BY <1>1 DEF OrdersInv, AgendaOpen, Surviving, FillsClean, MadeClean

LEMMA NextOrders == IndInv /\ OrdersInv /\ [Next]_vars => OrdersInv'
  BY StartSessionOrders, AgendaOrders, MatchOrders, MatchedOrders, StrategyOrders, EndSessionOrders, QuietOrders
     DEF Next, Ended

-----------------------------------------------------------------------------
(* Dividends: each is confirmed once. *)

\* The day on which a dividend in cash, or in shares, is confirmed.
CashDay(a) == IF Dividend(a).ex = None THEN Dividend(a).pay ELSE Dividend(a).ex
StockDay(a) == IF Dividend(a).ex = None THEN Dividend(a).list ELSE Dividend(a).ex
Todo(op, a) == \E x \in agenda : x.op = op /\ x.id = a

\* What is still to be confirmed is confirmed today and is not booked; what is
\* booked had its day.
DividendsInv ==
  \A a \in ActionIds :
    /\ Todo("cash", a) => CashDay(a) = day /\ receivable[a] = None
    /\ Todo("stock", a) => StockDay(a) = day /\ pendingStock[a] = None
    /\ receivable[a] # None => CashDay(a) \in Nat /\ CashDay(a) <= day
    /\ pendingStock[a] # None => StockDay(a) \in Nat /\ StockDay(a) <= day

\* Less to do and nothing more booked.
LEMMA LessToDo ==
  ASSUME DividendsInv, UNCHANGED <<world, day>>,
         \A x \in agenda' : x \in agenda \/ x.op \notin {"cash", "stock"},
         \A a \in ActionIds : receivable'[a] \in {receivable[a], None} /\ pendingStock'[a] \in {pendingStock[a], None}
  PROVE DividendsInv'
  <1> SUFFICES ASSUME NEW a \in ActionIds
               PROVE  /\ Todo("cash", a)' => CashDay(a) = day /\ receivable'[a] = None
                      /\ Todo("stock", a)' => StockDay(a) = day /\ pendingStock'[a] = None
                      /\ receivable'[a] # None => CashDay(a) \in Nat /\ CashDay(a) <= day
                      /\ pendingStock'[a] # None => StockDay(a) \in Nat /\ StockDay(a) <= day
    BY DEF DividendsInv, CashDay, StockDay, Dividend
  <1>1. (Todo("cash", a)' => Todo("cash", a)) /\ (Todo("stock", a)' => Todo("stock", a))
    BY DEF Todo
  <1> QED
    BY <1>1 DEF DividendsInv

LEMMA StartSessionDividends == ASSUME IndInv, DividendsInv, StartSession PROVE DividendsInv'
  <1>1. PICK d \in Sessions : d > day /\ day' = d /\ agenda' = Morning(d)
    BY DEF StartSession
  <1>2. UNCHANGED <<world, receivable, pendingStock>>
    BY DEF StartSession, UnlockT1
  <1>3. d \in Nat /\ day \in Nat
    BY SessionDay, DayType DEF IndInv
  <1> SUFFICES ASSUME NEW a \in ActionIds
               PROVE  /\ Todo("cash", a)' => CashDay(a) = d /\ receivable[a] = None
                      /\ Todo("stock", a)' => StockDay(a) = d /\ pendingStock[a] = None
                      /\ receivable[a] # None => CashDay(a) \in Nat /\ CashDay(a) <= d
                      /\ pendingStock[a] # None => StockDay(a) \in Nat /\ StockDay(a) <= d
    BY <1>1, <1>2 DEF DividendsInv, CashDay, StockDay, Dividend
  <1>4. Todo("cash", a)' => CashDay(a) = d
    BY <1>1, <1>3, NoneAssumption DEF Todo, Morning, CashDay
  <1>5. Todo("stock", a)' => StockDay(a) = d
    BY <1>1, <1>3, NoneAssumption DEF Todo, Morning, StockDay
  <1> QED
    BY <1>1, <1>3, <1>4, <1>5 DEF DividendsInv

LEMMA ConfirmCashDividends ==
  ASSUME IndInv, DividendsInv, NEW a \in ActionIds, ConfirmCash(a)
  PROVE DividendsInv' /\ ~Fail("account")
  <1>1. Todo("cash", a)
    BY DEF ConfirmCash, Due, Todo
  <1>2. receivable[a] = None /\ CashDay(a) = day /\ day \in Nat
    BY <1>1, DayType DEF DividendsInv, IndInv
  <1>3. ~Fail("account")
    <2>1. Fail("action") \/ (Done("cash", a) /\ agenda' = {x \in agenda : x.op # "cash" \/ x.id # a} /\ UNCHANGED phase)
      BY <1>2 DEF ConfirmCash, Done
    <2>2. phase # "failed"
      BY DEF ConfirmCash, Due
    <2> QED
      BY <2>1, <2>2 DEF Fail
  <1>4. CASE Fail("action")
    BY <1>3, <1>4, LessToDo DEF Fail, portfolio
  <1>5. CASE Done("cash", a) /\ UNCHANGED <<portfolio, broker>>
    BY <1>3, <1>5, LessToDo DEF Done, portfolio
  <1>6. CASE RecognizeDividend(a, Entitlement(a) * Dividend(a).cash) /\ Done("cash", a)
    <2>1. /\ \A b \in ActionIds : b # a => receivable'[b] = receivable[b]
          /\ UNCHANGED <<pendingStock, world, day>>
          /\ agenda' = {x \in agenda : x.op # "cash" \/ x.id # a}
      BY <1>6 DEF RecognizeDividend, Done, IndInv, Account, PortfolioType
    <2>2. ASSUME NEW b \in ActionIds
          PROVE  /\ Todo("cash", b)' => b # a /\ Todo("cash", b)
                 /\ Todo("stock", b)' => Todo("stock", b)
      BY <2>1 DEF Todo
    <2>3. DividendsInv'
      <3> SUFFICES ASSUME NEW b \in ActionIds
                   PROVE  /\ Todo("cash", b)' => CashDay(b) = day /\ receivable'[b] = None
                          /\ Todo("stock", b)' => StockDay(b) = day /\ pendingStock[b] = None
                          /\ receivable'[b] # None => CashDay(b) \in Nat /\ CashDay(b) <= day
                          /\ pendingStock[b] # None => StockDay(b) \in Nat /\ StockDay(b) <= day
        BY <2>1 DEF DividendsInv, CashDay, StockDay, Dividend
      <3> QED
        BY <1>2, <2>1, <2>2 DEF DividendsInv
    <2> QED
      BY <1>3, <2>3
  <1> QED
    BY <1>2, <1>4, <1>5, <1>6 DEF ConfirmCash

LEMMA ConfirmStockDividends ==
  ASSUME IndInv, DividendsInv, NEW a \in ActionIds, ConfirmStock(a)
  PROVE DividendsInv' /\ ~Fail("account")
  <1>1. Todo("stock", a)
    BY DEF ConfirmStock, Due, Todo
  <1>2. pendingStock[a] = None /\ StockDay(a) = day /\ day \in Nat
    BY <1>1, DayType DEF DividendsInv, IndInv
  <1>3. ~Fail("account")
    <2>1. Fail("action") \/ (Done("stock", a) /\ agenda' = {x \in agenda : x.op # "stock" \/ x.id # a} /\ UNCHANGED phase)
      BY <1>2 DEF ConfirmStock, Done
    <2>2. phase # "failed"
      BY DEF ConfirmStock, Due
    <2> QED
      BY <2>1, <2>2 DEF Fail
  <1>4. CASE Fail("action")
    BY <1>3, <1>4, LessToDo DEF Fail, portfolio
  <1>5. CASE Done("stock", a) /\ UNCHANGED <<portfolio, broker>>
    BY <1>3, <1>5, LessToDo DEF Done, portfolio
  <1>6. CASE AddStockDividend(a, Dividend(a).symbol, Entitlement(a), Dividend(a).stock) /\ Done("stock", a)
    <2>1. /\ \A b \in ActionIds : b # a => pendingStock'[b] = pendingStock[b]
          /\ UNCHANGED <<receivable, world, day>>
          /\ agenda' = {x \in agenda : x.op # "stock" \/ x.id # a}
      BY <1>6 DEF AddStockDividend, Done, IndInv, Account, PortfolioType
    <2>2. ASSUME NEW b \in ActionIds
          PROVE  /\ Todo("stock", b)' => b # a /\ Todo("stock", b)
                 /\ Todo("cash", b)' => Todo("cash", b)
      BY <2>1 DEF Todo
    <2>3. DividendsInv'
      <3> SUFFICES ASSUME NEW b \in ActionIds
                   PROVE  /\ Todo("cash", b)' => CashDay(b) = day /\ receivable[b] = None
                          /\ Todo("stock", b)' => StockDay(b) = day /\ pendingStock'[b] = None
                          /\ receivable[b] # None => CashDay(b) \in Nat /\ CashDay(b) <= day
                          /\ pendingStock'[b] # None => StockDay(b) \in Nat /\ StockDay(b) <= day
        BY <2>1 DEF DividendsInv, CashDay, StockDay, Dividend
      <3> QED
        BY <1>2, <2>1, <2>2 DEF DividendsInv
    <2> QED
      BY <1>3, <2>3
  <1> QED
    BY <1>2, <1>4, <1>5, <1>6 DEF ConfirmStock

\* No other step confirms a dividend.
LEMMA OtherDividends ==
  ASSUME IndInv, DividendsInv,
         \/ \E a \in ActionIds : Capture(a) \/ CancelOnEx(a) \/ Settle(a) \/ List(a)
         \/ CheckLifecycles \/ MarketEvent \/ Match \/ Matched \/ Fill \/ Mark \/ Strategy
         \/ EndSession \/ CloseSession \/ FinishRun \/ UNCHANGED vars
  PROVE DividendsInv'
  <1>1. ASSUME NEW kind, Fail(kind) PROVE DividendsInv'
    BY <1>1, LessToDo DEF Fail, portfolio
  <1>2. CASE \E a \in ActionIds : Capture(a) \/ CancelOnEx(a) \/ Settle(a) \/ List(a)
    <2> PICK a \in ActionIds : Capture(a) \/ CancelOnEx(a) \/ Settle(a) \/ List(a)
      BY <1>2
    <2>1. CASE \E op \in {"capture", "cancel", "settle", "list"} : Done(op, a)
      <3>1. \A b \in ActionIds : receivable'[b] \in {receivable[b], None} /\ pendingStock'[b] \in {pendingStock[b], None}
        <4>1. CASE Settle(a)
          BY <4>1 DEF Settle, SettleDividend, IndInv, Account, PortfolioType
        <4>2. CASE List(a)
          <5>1. CASE ListStockDividend(a)
            BY <5>1 DEF ListStockDividend, portfolio, IndInv, Account, PortfolioType
          <5>2. CASE Fail("account")
            BY <5>2 DEF Fail, portfolio
          <5> QED
            BY <4>2, <5>1, <5>2 DEF List
        <4>3. CASE Capture(a)
          <5>1. UNCHANGED <<receivable, pendingStock>>
            BY <4>3 DEF Capture, CaptureEntitlement, Fail, portfolio
          <5> QED
            BY <5>1
        <4>4. CASE CancelOnEx(a)
          BY <4>4 DEF CancelOnEx, portfolio
        <4> QED
          BY <4>1, <4>2, <4>3, <4>4
      <3> QED
        BY <2>1, <3>1, LessToDo DEF Done
    <2> QED
      BY <1>1, <2>1 DEF Capture, CancelOnEx, Settle, List
  <1>3. CASE CheckLifecycles
    <2>1. CASE Fail("delisted")
      BY <2>1, <1>1
    <2>2. CASE ~Fail("delisted")
      BY <1>3, <2>2, LessToDo DEF CheckLifecycles, WriteOff, PendingWithout
    <2> QED
      BY <2>1, <2>2
  <1>4. CASE MarketEvent \/ Match \/ Matched
    BY <1>4, LessToDo DEF MarketEvent, Match, Matched, portfolio, engine
  <1>5. CASE Fill
    <2>1. CASE Fail("account")
      BY <2>1, <1>1
    <2>2. CASE ~Fail("account")
      BY <1>5, <2>2, LessToDo DEF Fill, ApplyFill, ApplyBuy, ApplySell, engine
    <2> QED
      BY <2>1, <2>2
  <1>6. CASE Mark
    <2>1. CASE Fail("data")
      BY <2>1, <1>1
    <2>2. CASE ~Fail("data")
      BY <1>6, <2>2, LessToDo DEF Mark, MarkToMarket
    <2> QED
      BY <2>1, <2>2
  <1>7. CASE Strategy
    <2>1. UNCHANGED <<portfolio, world, day, agenda>>
      BY <1>7 DEF Strategy, OrderShares, Cancel, Rebalance, OrderGap, EndOrdering
    <2> QED
      BY <2>1, LessToDo DEF portfolio
  <1>8. CASE EndSession \/ CloseSession \/ FinishRun
    <2>1. UNCHANGED <<portfolio, world, day>> /\ \A x \in agenda' : x \in agenda \/ x.op = "capture"
      BY <1>8 DEF EndSession, CloseSession, FinishRun, Evening
    <2> QED
      BY <2>1, LessToDo DEF portfolio
  <1>9. CASE UNCHANGED vars
    BY <1>9, LessToDo DEF vars
  <1> QED
    BY <1>2, <1>3, <1>4, <1>5, <1>6, <1>7, <1>8, <1>9

LEMMA InitDividends == Init => DividendsInv
  BY DEF Init, PortfolioInit, DividendsInv, Todo

LEMMA NextDividends == IndInv /\ DividendsInv /\ [Next]_vars => DividendsInv'
  BY StartSessionDividends, ConfirmCashDividends, ConfirmStockDividends, OtherDividends
     DEF Next, MorningOrEvening, Ended

-----------------------------------------------------------------------------
(* Dividend shares that are not listed. *)

\* The pending dividend shares of a symbol can be laid side by side, those of the
\* action a from lo[a] on, within what is not listed of the symbol: this says that
\* their sum is not more than `listing`, without a sum.
LaidOut(lo) ==
  /\ \A a \in ActionIds : pendingStock[a] # None =>
       lo[a] + pendingStock[a].quantity <= listing[pendingStock[a].symbol]
  /\ \A a, b \in ActionIds :
       /\ a # b /\ pendingStock[a] # None /\ pendingStock[b] # None
       /\ pendingStock[a].symbol = pendingStock[b].symbol
       => \/ lo[a] + pendingStock[a].quantity <= lo[b]
          \/ lo[b] + pendingStock[b].quantity <= lo[a]

ListingInv == \E lo \in [ActionIds -> Nat] : LaidOut(lo)

LEMMA PendingType ==
  ASSUME IndInv, NEW a \in ActionIds, pendingStock[a] # None
  PROVE  pendingStock[a].symbol \in Symbols /\ pendingStock[a].quantity \in Nat
  BY DEF IndInv, Account, PortfolioType

LEMMA ListingSame ==
  ASSUME ListingInv, UNCHANGED <<pendingStock, listing>>
  PROVE ListingInv'
  BY DEF ListingInv, LaidOut

\* New shares are laid behind the others.
LEMMA ConfirmStockListing ==
  ASSUME IndInv, DividendsInv, ListingInv, NEW a \in ActionIds, ConfirmStock(a)
  PROVE ListingInv'
  <1>1. CASE UNCHANGED portfolio
    BY <1>1, ListingSame DEF portfolio, positions
  <1>2. CASE AddStockDividend(a, Dividend(a).symbol, Entitlement(a), Dividend(a).stock)
    <2> DEFINE s == Dividend(a).symbol
               shares == StockDividend(Entitlement(a), Dividend(a).stock)
    <2>1. PICK lo \in [ActionIds -> Nat] : LaidOut(lo)
      BY DEF ListingInv
    <2>2. shares \in Nat /\ s \in Symbols
      <3>1. Entitlement(a) * Dividend(a).stock \in Nat
        BY EntitlementType, SymbolType, Product DEF IndInv
      <3> QED
        BY <3>1, QuotientType, CashAssumption, SymbolType DEF StockDividend, IndInv
    <2>3. /\ pendingStock[a] = None
          /\ listing' = [listing EXCEPT ![s] = @ + shares]
          /\ pendingStock' = [pendingStock EXCEPT ![a] = [symbol |-> s, quantity |-> shares]]
      BY <1>2 DEF AddStockDividend
    <2> HIDE DEF s, shares
    <2>4. /\ listing \in [Symbols -> Nat]
          /\ pendingStock'[a] = [symbol |-> s, quantity |-> shares]
          /\ \A b \in ActionIds : b # a => pendingStock'[b] = pendingStock[b]
          /\ listing'[s] = listing[s] + shares
          /\ \A t \in Symbols : t # s => listing'[t] = listing[t]
      BY <2>2, <2>3 DEF IndInv, Account, PortfolioType
    <2> DEFINE new == [lo EXCEPT ![a] = listing[s]]
    <2>5. /\ new \in [ActionIds -> Nat] /\ new[a] = listing[s]
          /\ \A b \in ActionIds : b # a => new[b] = lo[b]
      BY <2>1, <2>2, <2>4
    <2> HIDE DEF new
    <2>6. \A b \in ActionIds : pendingStock'[b] # None =>
            new[b] + pendingStock'[b].quantity <= listing'[pendingStock'[b].symbol]
      <3> SUFFICES ASSUME NEW b \in ActionIds, pendingStock'[b] # None
                   PROVE  new[b] + pendingStock'[b].quantity <= listing'[pendingStock'[b].symbol]
        OBVIOUS
      <3>1. CASE b = a
        BY <2>2, <2>4, <2>5, <3>1
      <3>2. CASE b # a
        <4>1. pendingStock[b].symbol \in Symbols /\ pendingStock[b].quantity \in Nat
          BY <2>4, <3>2, PendingType
        <4>2. lo[b] + pendingStock[b].quantity <= listing[pendingStock[b].symbol]
          BY <2>1, <2>4, <3>2 DEF LaidOut
        <4> QED
          BY <2>1, <2>2, <2>4, <2>5, <3>2, <4>1, <4>2
      <3> QED
        BY <3>1, <3>2
    <2>7. \A b, c \in ActionIds :
            /\ b # c /\ pendingStock'[b] # None /\ pendingStock'[c] # None
            /\ pendingStock'[b].symbol = pendingStock'[c].symbol
            => \/ new[b] + pendingStock'[b].quantity <= new[c]
               \/ new[c] + pendingStock'[c].quantity <= new[b]
      <3> SUFFICES ASSUME NEW b \in ActionIds, NEW c \in ActionIds,
                          b # c, pendingStock'[b] # None, pendingStock'[c] # None,
                          pendingStock'[b].symbol = pendingStock'[c].symbol
                   PROVE  \/ new[b] + pendingStock'[b].quantity <= new[c]
                          \/ new[c] + pendingStock'[c].quantity <= new[b]
        OBVIOUS
      <3>1. CASE b = a
        BY <2>1, <2>4, <2>5, <3>1 DEF LaidOut
      <3>2. CASE c = a
        BY <2>1, <2>4, <2>5, <3>2 DEF LaidOut
      <3>3. CASE b # a /\ c # a
        BY <2>1, <2>4, <2>5, <3>3 DEF LaidOut
      <3> QED
        BY <3>1, <3>2, <3>3
    <2> QED
      BY <2>5, <2>6, <2>7 DEF ListingInv, LaidOut
  <1> QED
    BY <1>1, <1>2 DEF ConfirmStock, Fail

\* The shares behind those that are listed move up.
LEMMA ListListing ==
  ASSUME IndInv, ListingInv, NEW a \in ActionIds, List(a)
  PROVE ListingInv' /\ ~Fail("account")
  <1>1. PICK lo \in [ActionIds -> Nat] : LaidOut(lo)
    BY DEF ListingInv
  <1>2. ~ListedTooMany(a)
    <2> SUFFICES ASSUME pendingStock[a] # None
                 PROVE  pendingStock[a].quantity <= listing[pendingStock[a].symbol]
      BY PendingType DEF ListedTooMany, IndInv, Account, PortfolioType
    <2>1. pendingStock[a].symbol \in Symbols /\ pendingStock[a].quantity \in Nat
      BY PendingType
    <2>2. lo[a] + pendingStock[a].quantity <= listing[pendingStock[a].symbol]
      BY <1>1 DEF LaidOut
    <2>3. listing[pendingStock[a].symbol] \in Nat
      BY <2>1 DEF IndInv, Account, PortfolioType
    <2> QED
      BY <1>1, <2>1, <2>2, <2>3
  <1>3. ListStockDividend(a) /\ Done("list", a)
    BY <1>2 DEF List
  <1>4. ~Fail("account")
    <2>1. phase' = phase /\ phase # "failed"
      BY <1>3 DEF Done, List, Due
    <2> QED
      BY <2>1 DEF Fail
  <1>5. CASE pendingStock[a] = None
    BY <1>3, <1>4, <1>5, ListingSame DEF ListStockDividend, portfolio, positions
  <1>6. CASE pendingStock[a] # None
    <2> DEFINE s == pendingStock[a].symbol
               n == pendingStock[a].quantity
    <2>1. s \in Symbols /\ n \in Nat
      BY <1>6, PendingType
    <2>2. /\ listing' = [listing EXCEPT ![s] = @ - n]
          /\ pendingStock' = [pendingStock EXCEPT ![a] = None]
      BY <1>3, <1>6 DEF ListStockDividend
    <2>3. /\ listing \in [Symbols -> Nat]
          /\ pendingStock'[a] = None
          /\ \A b \in ActionIds : b # a => pendingStock'[b] = pendingStock[b]
          /\ listing'[s] = listing[s] - n
          /\ \A t \in Symbols : t # s => listing'[t] = listing[t]
      BY <2>1, <2>2 DEF IndInv, Account, PortfolioType
    <2>4. lo[a] + n <= listing[s]
      BY <1>1, <1>6 DEF LaidOut
    <2> HIDE DEF s, n
    <2> DEFINE Behind(b) == pendingStock[b] # None /\ pendingStock[b].symbol = s /\ lo[a] + n <= lo[b]
               new == [b \in ActionIds |-> IF Behind(b) THEN lo[b] - n ELSE lo[b]]
    <2>5. new \in [ActionIds -> Nat]
      BY <1>1, <2>1
    <2>6. \A b \in ActionIds : new[b] = IF Behind(b) THEN lo[b] - n ELSE lo[b]
      OBVIOUS
    <2>7. ASSUME NEW b \in ActionIds, b # a, pendingStock[b] # None
          PROVE  /\ pendingStock[b].symbol \in Symbols /\ pendingStock[b].quantity \in Nat
                 /\ lo[b] + pendingStock[b].quantity <= listing[pendingStock[b].symbol]
                 /\ pendingStock[b].symbol = s => Behind(b) \/ lo[b] + pendingStock[b].quantity <= lo[a]
      <3>1. pendingStock[b].symbol \in Symbols /\ pendingStock[b].quantity \in Nat
        BY <2>7, PendingType
      <3> QED
        BY <1>1, <1>6, <2>7, <3>1 DEF LaidOut, s, n
    <2> HIDE DEF new
    <2>8. \A b \in ActionIds : pendingStock'[b] # None =>
            new[b] + pendingStock'[b].quantity <= listing'[pendingStock'[b].symbol]
      <3> SUFFICES ASSUME NEW b \in ActionIds, pendingStock'[b] # None
                   PROVE  new[b] + pendingStock'[b].quantity <= listing'[pendingStock'[b].symbol]
        OBVIOUS
      <3>1. b # a /\ pendingStock'[b] = pendingStock[b] /\ lo[a] \in Nat /\ lo[b] \in Nat
        BY <1>1, <2>3
      <3>2. CASE pendingStock[b].symbol = s
        BY <2>1, <2>3, <2>4, <2>6, <2>7, <3>1, <3>2
      <3>3. CASE pendingStock[b].symbol # s
        BY <2>3, <2>6, <2>7, <3>1, <3>3
      <3> QED
        BY <3>2, <3>3
    <2>9. \A b, c \in ActionIds :
            /\ b # c /\ pendingStock'[b] # None /\ pendingStock'[c] # None
            /\ pendingStock'[b].symbol = pendingStock'[c].symbol
            => \/ new[b] + pendingStock'[b].quantity <= new[c]
               \/ new[c] + pendingStock'[c].quantity <= new[b]
      <3> SUFFICES ASSUME NEW b \in ActionIds, NEW c \in ActionIds,
                          b # c, pendingStock'[b] # None, pendingStock'[c] # None,
                          pendingStock'[b].symbol = pendingStock'[c].symbol
                   PROVE  \/ new[b] + pendingStock'[b].quantity <= new[c]
                          \/ new[c] + pendingStock'[c].quantity <= new[b]
        OBVIOUS
      <3>1. /\ b # a /\ pendingStock'[b] = pendingStock[b]
            /\ c # a /\ pendingStock'[c] = pendingStock[c]
            /\ lo[a] \in Nat /\ lo[b] \in Nat /\ lo[c] \in Nat
        BY <1>1, <2>3
      <3>2. \/ lo[b] + pendingStock[b].quantity <= lo[c]
            \/ lo[c] + pendingStock[c].quantity <= lo[b]
        BY <1>1, <3>1 DEF LaidOut
      <3>3. CASE pendingStock[b].symbol = s
        BY <2>1, <2>6, <2>7, <3>1, <3>2, <3>3
      <3>4. CASE pendingStock[b].symbol # s
        BY <2>6, <3>1, <3>2, <3>4
      <3> QED
        BY <3>3, <3>4
    <2> QED
      BY <1>4, <2>5, <2>8, <2>9 DEF ListingInv, LaidOut
  <1> QED
    BY <1>5, <1>6

LEMMA CheckLifecyclesListing == ASSUME IndInv, ListingInv, CheckLifecycles PROVE ListingInv'
  <1> DEFINE gone == Managed \cap Delisted
  <1>1. CASE Fail("delisted")
    BY <1>1, ListingSame DEF Fail, portfolio, positions
  <1>2. CASE WriteOff(gone)
    <2>1. PICK lo \in [ActionIds -> Nat] : LaidOut(lo)
      BY DEF ListingInv
    <2> HIDE DEF gone
    <2>2. ASSUME NEW b \in ActionIds, pendingStock'[b] # None
          PROVE  /\ pendingStock[b] # None /\ pendingStock'[b] = pendingStock[b]
                 /\ listing'[pendingStock[b].symbol] = listing[pendingStock[b].symbol]
      <3>1. pendingStock'[b] = pendingStock[b] /\ pendingStock[b].symbol \notin gone
        BY <1>2, <2>2 DEF WriteOff, PendingWithout
      <3>2. pendingStock[b].symbol \in Symbols
        BY <2>2, <3>1, PendingType
      <3> QED
        BY <1>2, <2>2, <3>1, <3>2 DEF WriteOff, Zeroed
    <2>3. LaidOut(lo)'
      BY <2>1, <2>2 DEF LaidOut
    <2> QED
      BY <2>1, <2>3 DEF ListingInv
  <1> QED
    BY <1>1, <1>2 DEF CheckLifecycles

LEMMA OtherListing ==
  ASSUME IndInv, ListingInv,
         \/ \E a \in ActionIds : Capture(a) \/ CancelOnEx(a) \/ ConfirmCash(a) \/ Settle(a)
         \/ StartSession \/ MarketEvent \/ Match \/ Matched \/ Fill \/ Mark \/ Strategy
         \/ EndSession \/ CloseSession \/ FinishRun \/ UNCHANGED vars
  PROVE ListingInv'
  <1> SUFFICES UNCHANGED <<pendingStock, listing>>
    BY ListingSame
  <1>1. ASSUME NEW kind, Fail(kind) PROVE UNCHANGED <<pendingStock, listing>>
    BY <1>1 DEF Fail, portfolio, positions
  <1>2. CASE \E a \in ActionIds : Capture(a) \/ CancelOnEx(a) \/ ConfirmCash(a) \/ Settle(a)
    BY <1>1, <1>2 DEF Capture, CaptureEntitlement, CancelOnEx, ConfirmCash, RecognizeDividend,
                      Settle, SettleDividend, portfolio, positions
  <1>3. CASE StartSession \/ MarketEvent \/ Match \/ Matched
    BY <1>3 DEF StartSession, UnlockT1, MarketEvent, Match, Matched, portfolio, positions
  <1>4. CASE Fill \/ Mark
    BY <1>1, <1>4 DEF Fill, ApplyFill, ApplyBuy, ApplySell, Mark, MarkToMarket, positions
  <1>5. CASE Strategy
    BY <1>5 DEF Strategy, OrderShares, Cancel, Rebalance, OrderGap, EndOrdering, portfolio, positions
  <1>6. CASE EndSession \/ CloseSession \/ FinishRun
    BY <1>6 DEF EndSession, CloseSession, FinishRun, portfolio, positions
  <1>7. CASE UNCHANGED vars
    BY <1>7 DEF vars
  <1> QED
    BY <1>2, <1>3, <1>4, <1>5, <1>6, <1>7

LEMMA InitListing == Init => ListingInv
  <1> SUFFICES ASSUME Init PROVE ListingInv
    OBVIOUS
  <1>1. \A a \in ActionIds : pendingStock[a] = None
    BY DEF Init, PortfolioInit
  <1>2. [a \in ActionIds |-> 0] \in [ActionIds -> Nat]
    OBVIOUS
  <1> QED
    BY <1>1, <1>2 DEF ListingInv, LaidOut

LEMMA NextListing == IndInv /\ DividendsInv /\ ListingInv /\ [Next]_vars => ListingInv'
  BY ConfirmStockListing, ListListing, CheckLifecyclesListing, OtherListing
     DEF Next, MorningOrEvening, Ended

-----------------------------------------------------------------------------
(* The broker's running cash and shares. *)

SharesAfter(h, fill) ==
  IF fill.side = "buy" THEN h ELSE [h EXCEPT ![fill.symbol] = @ - fill.quantity]

\* The account's cash and shares, before the fills that are not applied yet and
\* after each of them: none is negative, and while orders are tried the last are
\* those that the broker counts with.
LeadsTo(p, h) ==
  /\ p[0] = cash /\ h[0] = sellable
  /\ \A k \in 1 .. Len(made) :
       /\ p[k] = p[k - 1] + Flow(made[k])
       /\ h[k] = SharesAfter(h[k - 1], made[k])
  /\ phase = "matching" => p[Len(made)] = runCash /\ h[Len(made)] = runSellable

Covered ==
  \E p \in [0 .. Len(made) -> Nat], h \in [0 .. Len(made) -> [Symbols -> Nat]] : LeadsTo(p, h)

RunningInv ==
  /\ phase \notin {"matching", "filling", "failed"} => made = <<>>
  /\ \A k \in DOMAIN made : made[k].quantity # 0 /\ made[k].notional >= 0
  /\ phase \in {"matching", "filling"} => Covered

\* A fill costs no more than the money, and sells no more than the shares.
LEMMA FillAfforded ==
  ASSUME IndInv, NEW i \in DOMAIN orders, NEW q \in Nat, NEW money \in Nat, NEW shares \in Nat,
         q # 0, Executes(orders[i], q, bars[orders[i].symbol], money, shares)
  PROVE LET fill == FillOf(i, q, bars[orders[i].symbol], day) IN
        /\ fill.notional >= 0
        /\ money + Flow(fill) \in Nat
        /\ fill.side = "sell" => q <= shares
  <1> DEFINE o == orders[i]
             bar == bars[o.symbol]
             price == ExecutionPrice(o.side, bar)
             fill == FillOf(i, q, bar, day)
  <1>1. o \in OrderType
    BY DEF IndInv, Books
  <1>2. bar \in Bars
    BY <1>1 DEF IndInv, Engine, OrderType
  <1>3. /\ bar.open \in Nat \cup {None} /\ bar.up \in Nat /\ bar.down \in Nat
        /\ bar.capacity \in Nat \cup {None}
    BY <1>2, WorldAssumption
  <1>4. bar.open \in Nat
    BY <1>3 DEF Executes, Tradable
  <1>5. price \in Nat
    BY <1>3, <1>4, RuleAssumption DEF ExecutionPrice, Least, Greatest
  <1>6. /\ fill.side = o.side /\ fill.notional = q * price /\ fill.fee = Fee(q * price)
    BY DEF FillOf
  <1>7. o.side \in {"buy", "sell"} /\ o.quantity \in Nat
    BY <1>1 DEF OrderType
  <1>8. CASE o.side = "buy"
    <2>1. Pays(q, price, money)
      BY <1>8 DEF Executes
    <2>2. q * price \in Nat
      BY <1>5, Product
    <2>3. Fee(q * price) \in Nat /\ q * price + Fee(q * price) <= money
      BY <2>1, <2>2, RuleAssumption DEF Pays, Fee, Greatest
    <2> HIDE DEF fill, price
    <2> QED
      BY <1>6, <1>8, <2>2, <2>3 DEF Flow, Cost, fill
  <1>9. CASE o.side = "sell"
    <2> DEFINE sold == Least(Capped(o.quantity, bar.capacity), shares)
    <2>1. sold \in Nat /\ sold <= shares
      BY <1>3, <1>7 DEF Least, Capped
    <2>2. q = sold /\ ~(money + sold * price - Fee(sold * price) < 0)
      BY <1>9 DEF Executes
    <2>3. q * price \in Nat
      BY <1>5, Product
    <2>4. Fee(q * price) \in Nat
      BY <2>3, RuleAssumption DEF Fee, Greatest
    <2> HIDE DEF fill, price, sold
    <2> QED
      BY <1>6, <1>9, <2>1, <2>2, <2>3, <2>4 DEF Flow, Proceeds, fill
  <1> QED
    BY <1>7, <1>8, <1>9

LEMMA MarketEventRunning == ASSUME IndInv, RunningInv, MarketEvent PROVE RunningInv'
  <1>1. made' = <<>>
    BY DEF MarketEvent, TakeOrders, RunningInv, broker
  <1>2. /\ UNCHANGED <<cash, sellable>>
        /\ phase' = "matching" => runCash' = cash /\ runSellable' = sellable
    BY DEF MarketEvent, TakeOrders, portfolio, positions
  <1>3. cash \in Nat /\ sellable \in [Symbols -> Nat]
    BY DEF IndInv, Account, PortfolioType
  <1>4. Covered'
    <2>1. PICK p \in [0 .. 0 -> Nat], h \in [0 .. 0 -> [Symbols -> Nat]] : p[0] = cash /\ h[0] = sellable
      <3>1. /\ [k \in 0 .. 0 |-> cash] \in [0 .. 0 -> Nat]
            /\ [k \in 0 .. 0 |-> sellable] \in [0 .. 0 -> [Symbols -> Nat]]
        BY <1>3
      <3>2. [k \in 0 .. 0 |-> cash][0] = cash /\ [k \in 0 .. 0 |-> sellable][0] = sellable
        OBVIOUS
      <3> QED
        BY <3>1, <3>2
    <2>2. LeadsTo(p, h)'
      BY <1>1, <1>2, <2>1 DEF LeadsTo
    <2> QED
      BY <1>1, <2>2 DEF Covered
  <1>5. phase' \in {"matching", "filling"}
    BY DEF MarketEvent
  <1> QED
    BY <1>1, <1>4, <1>5 DEF RunningInv

LEMMA MatchRunning == ASSUME IndInv, RunningInv, Match PROVE RunningInv'
  <1>1. PICK i \in batch : TryOrder(i, bars, day)
    BY DEF Match
  <1> DEFINE o == orders[i]
             bar == bars[o.symbol]
             n == Len(made)
  <1>2. i \in DOMAIN orders /\ o \in OrderType /\ made \in Seq(FillType) /\ n \in Nat
    BY DEF IndInv, Books
  <1>3. PICK q \in 0 .. o.quantity :
          /\ Executes(o, q, bar, runCash, runSellable[o.symbol])
          /\ made' = IF q = 0 THEN made ELSE Append(made, FillOf(i, q, bar, day))
          /\ runCash' = IF q = 0 THEN runCash ELSE CashAfter(FillOf(i, q, bar, day))
          /\ runSellable' = IF o.side = "buy" THEN runSellable ELSE [runSellable EXCEPT ![o.symbol] = @ - q]
    BY <1>1 DEF TryOrder
  <1>4. q \in Nat /\ o.symbol \in Symbols /\ o.side \in {"buy", "sell"}
    BY <1>2 DEF OrderType
  <1>5. phase = "matching" /\ UNCHANGED <<phase, cash, sellable>>
    BY DEF Match, engine, portfolio, positions
  <1>6. PICK p \in [0 .. n -> Nat], h \in [0 .. n -> [Symbols -> Nat]] : LeadsTo(p, h)
    BY <1>5 DEF RunningInv, Covered
  <1>7. runCash = p[n] /\ runSellable = h[n] /\ runCash \in Nat /\ runSellable \in [Symbols -> Nat]
    BY <1>2, <1>5, <1>6 DEF LeadsTo
  <1>8. CASE q = 0
    <2>1. UNCHANGED <<made, runCash, runSellable>>
      BY <1>3, <1>4, <1>7, <1>8
    <2>2. LeadsTo(p, h)'
      BY <1>5, <1>6, <2>1 DEF LeadsTo
    <2>3. Covered'
      BY <1>6, <2>1, <2>2 DEF Covered
    <2> QED
      BY <1>5, <2>1, <2>3 DEF RunningInv
  <1>9. CASE q # 0
    <2> DEFINE fill == FillOf(i, q, bar, day)
    <2>1. /\ fill \in FillType /\ fill.notional >= 0 /\ runCash + Flow(fill) \in Nat
          /\ fill.side = "sell" => q <= runSellable[o.symbol]
      BY <1>2, <1>3, <1>4, <1>7, <1>9, FillTyped, FillAfforded DEF IndInv
    <2>2. fill.side = o.side /\ fill.symbol = o.symbol /\ fill.quantity = q
      BY DEF FillOf
    <2>3. /\ made' = Append(made, fill)
          /\ runCash' = runCash + Flow(fill)
          /\ runSellable' = SharesAfter(runSellable, fill)
      BY <1>3, <1>9, <2>2 DEF CashAfter, SharesAfter
    <2> HIDE DEF fill
    <2>4. /\ made' \in Seq(FillType) /\ Len(made') = n + 1 /\ made'[n + 1] = fill
          /\ \A k \in 1 .. n : made'[k] = made[k]
      BY <1>2, <2>1, <2>3
    <2>5. runCash' \in Nat /\ runSellable' \in [Symbols -> Nat]
      BY <1>4, <1>7, <2>1, <2>2, <2>3 DEF SharesAfter
    <2>6. \E np \in [0 .. n + 1 -> Nat], nh \in [0 .. n + 1 -> [Symbols -> Nat]] :
            /\ np[n + 1] = runCash' /\ nh[n + 1] = runSellable'
            /\ \A k \in 0 .. n : np[k] = p[k] /\ nh[k] = h[k]
      <3> DEFINE pn == [k \in 0 .. n + 1 |-> IF k = n + 1 THEN runCash' ELSE p[k]]
                 hn == [k \in 0 .. n + 1 |-> IF k = n + 1 THEN runSellable' ELSE h[k]]
      <3>1. /\ pn \in [0 .. n + 1 -> Nat] /\ hn \in [0 .. n + 1 -> [Symbols -> Nat]]
        BY <1>2, <1>6, <2>5
      <3>2. /\ pn[n + 1] = runCash' /\ hn[n + 1] = runSellable'
            /\ \A k \in 0 .. n : pn[k] = p[k] /\ hn[k] = h[k]
        BY <1>2
      <3> HIDE DEF pn, hn
      <3> QED
        BY <3>1, <3>2
    <2>7. PICK np \in [0 .. n + 1 -> Nat], nh \in [0 .. n + 1 -> [Symbols -> Nat]] :
            /\ np[n + 1] = runCash' /\ nh[n + 1] = runSellable'
            /\ \A k \in 0 .. n : np[k] = p[k] /\ nh[k] = h[k]
      BY <2>6
    <2> HIDE DEF n
    <2>8. np[0] = cash /\ nh[0] = sellable
      BY <1>2, <1>6, <2>7 DEF LeadsTo
    <2>9. ASSUME NEW k \in 1 .. n + 1
          PROVE  np[k] = np[k - 1] + Flow(made'[k]) /\ nh[k] = SharesAfter(nh[k - 1], made'[k])
      <3>1. CASE k = n + 1
        BY <1>2, <1>7, <2>3, <2>4, <2>7, <3>1
      <3>2. CASE k \in 1 .. n
        <4>1. np[k] = p[k] /\ nh[k] = h[k] /\ np[k - 1] = p[k - 1] /\ nh[k - 1] = h[k - 1]
          BY <1>2, <2>7, <3>2
        <4>2. p[k] = p[k - 1] + Flow(made[k]) /\ h[k] = SharesAfter(h[k - 1], made[k])
          BY <1>6, <3>2 DEF LeadsTo, n
        <4> QED
          BY <2>4, <3>2, <4>1, <4>2
      <3> QED
        BY <1>2, <3>1, <3>2
    <2>10. LeadsTo(np, nh)'
      BY <1>5, <2>4, <2>7, <2>8, <2>9 DEF LeadsTo, Flow, SharesAfter, Cost, Proceeds
    <2>11. Covered'
      BY <2>4, <2>10 DEF Covered
    <2>12. \A k \in DOMAIN made' : made'[k].quantity # 0 /\ made'[k].notional >= 0
      <3> SUFFICES ASSUME NEW k \in 1 .. n + 1
                   PROVE  made'[k].quantity # 0 /\ made'[k].notional >= 0
        BY <2>4
      <3>1. CASE k = n + 1
        BY <1>9, <2>1, <2>2, <2>4, <3>1
      <3>2. CASE k \in 1 .. n
        <4>1. k \in DOMAIN made
          BY <1>2, <3>2 DEF n
        <4> QED
          BY <2>4, <3>2, <4>1 DEF RunningInv
      <3> QED
        BY <1>2, <3>1, <3>2
    <2> QED
      BY <1>5, <2>11, <2>12 DEF RunningInv
  <1> QED
    BY <1>8, <1>9

LEMMA MatchedRunning == ASSUME IndInv, RunningInv, Matched PROVE RunningInv'
  <1>1. phase = "matching" /\ phase' = "filling" /\ UNCHANGED <<made, cash, sellable>>
    BY DEF Matched, EndMatching, portfolio, positions
  <1> QED
    BY <1>1 DEF RunningInv, Covered, LeadsTo

\* The account takes the next fill, and the rest is covered by what is left.
LEMMA FillRunning == ASSUME IndInv, RunningInv, Fill PROVE RunningInv' /\ ~Fail("account")
  <1> DEFINE fill == Head(made)
             n == Len(made)
  <1>1. /\ fill = made[1] /\ fill \in FillType /\ made \in Seq(FillType) /\ n \in Nat /\ n >= 1
        /\ Tail(made) \in Seq(FillType) /\ Len(Tail(made)) = n - 1
        /\ \A k \in 1 .. n - 1 : Tail(made)[k] = made[k + 1]
    BY DEF IndInv, Books, Fill
  <1>2. phase = "filling"
    BY DEF Fill
  <1>3. PICK p \in [0 .. n -> Nat], h \in [0 .. n -> [Symbols -> Nat]] : LeadsTo(p, h)
    BY <1>2 DEF RunningInv, Covered
  <1> HIDE DEF fill, n
  <1>4. /\ p[0] = cash /\ h[0] = sellable
        /\ p[1] = cash + Flow(fill) /\ h[1] = SharesAfter(sellable, fill)
        /\ p[1] \in Nat /\ h[1] \in [Symbols -> Nat]
    <2>1. 1 \in 1 .. n /\ 1 - 1 = 0 /\ 1 \in 0 .. n
      BY <1>1
    <2> QED
      BY <1>1, <1>3, <2>1 DEF LeadsTo, n
  <1>5. /\ fill.quantity \in Nat \ {0} /\ fill.notional \in Nat /\ fill.fee \in Nat
        /\ fill.symbol \in Symbols /\ fill.side \in {"buy", "sell"}
    <2>1. 1 \in DOMAIN made
      BY <1>1 DEF n
    <2>2. fill.quantity # 0 /\ fill.notional >= 0
      BY <1>1, <2>1 DEF RunningInv
    <2>3. fill \in FillType
      BY <1>1
    <2> QED
      BY ONLY <2>2, <2>3 DEF FillType
  <1>6. cash \in Nat /\ sellable \in [Symbols -> Nat] /\ quantity \in [Symbols -> Nat]
        /\ listing \in [Symbols -> Nat] /\ \A s \in Symbols : sellable[s] + listing[s] <= quantity[s]
    BY DEF IndInv, Account, PortfolioType
  <1>7. ~FillRefused(fill)
    <2>1. CASE fill.side = "buy"
      BY <1>4, <1>5, <1>6, <2>1 DEF FillRefused, Flow, Cost
    <2>2. CASE fill.side = "sell"
      <3>1. h[1][fill.symbol] = sellable[fill.symbol] - fill.quantity
        BY <1>4, <1>5, <1>6, <2>2 DEF SharesAfter
      <3>2. fill.quantity <= sellable[fill.symbol]
        <4>1. h[1][fill.symbol] \in Nat /\ sellable[fill.symbol] \in Nat /\ fill.quantity \in Nat
          BY <1>4, <1>5, <1>6
        <4> QED
          BY ONLY <4>1, <3>1
      <3>3. fill.quantity <= quantity[fill.symbol]
        BY <1>5, <1>6, <3>2
      <3>4. ~(cash + Proceeds(fill) < 0)
        BY <1>4, <1>6, <2>2 DEF Flow
      <3>5. ~(fill.quantity <= 0) /\ ~(fill.notional < 0) /\ ~(fill.fee < 0)
        BY ONLY <1>5
      <3>6. ~(fill.quantity > quantity[fill.symbol]) /\ ~(fill.quantity > sellable[fill.symbol])
        <4>1. quantity[fill.symbol] \in Nat /\ sellable[fill.symbol] \in Nat /\ fill.quantity \in Nat
          BY <1>5, <1>6
        <4> QED
          BY ONLY <4>1, <3>2, <3>3
      <3>7. fill.side # "buy"
        BY <2>2
      <3> QED
        BY ONLY <3>4, <3>5, <3>6, <3>7 DEF FillRefused
    <2> QED
      BY <1>5, <2>1, <2>2
  <1>8. /\ ApplyFill(fill) /\ made' = Tail(made) /\ phase' = phase
    BY <1>7 DEF Fill, engine, fill
  <1>9. ~Fail("account")
    BY <1>2, <1>8 DEF Fail
  <1>10. cash' = p[1] /\ sellable' = h[1]
    BY <1>4, <1>5, <1>6, <1>8 DEF ApplyFill, ApplyBuy, ApplySell, Flow, SharesAfter, Cost, Proceeds
  <1>11. Covered'
    <2>1. \E np \in [0 .. n - 1 -> Nat], nh \in [0 .. n - 1 -> [Symbols -> Nat]] :
            \A k \in 0 .. n - 1 : np[k] = p[k + 1] /\ nh[k] = h[k + 1]
      <3>1. /\ [k \in 0 .. n - 1 |-> p[k + 1]] \in [0 .. n - 1 -> Nat]
            /\ [k \in 0 .. n - 1 |-> h[k + 1]] \in [0 .. n - 1 -> [Symbols -> Nat]]
        BY <1>1, <1>3
      <3>2. \A k \in 0 .. n - 1 : /\ [j \in 0 .. n - 1 |-> p[j + 1]][k] = p[k + 1]
                                  /\ [j \in 0 .. n - 1 |-> h[j + 1]][k] = h[k + 1]
        OBVIOUS
      <3> QED
        BY <3>1, <3>2
    <2>2. PICK np \in [0 .. n - 1 -> Nat], nh \in [0 .. n - 1 -> [Symbols -> Nat]] :
            \A k \in 0 .. n - 1 : np[k] = p[k + 1] /\ nh[k] = h[k + 1]
      BY <2>1
    <2>3. np[0] = cash' /\ nh[0] = sellable'
      BY <1>1, <1>10, <2>2
    <2>4. ASSUME NEW k \in 1 .. n - 1
          PROVE  np[k] = np[k - 1] + Flow(made'[k]) /\ nh[k] = SharesAfter(nh[k - 1], made'[k])
      <3>1. np[k] = p[k + 1] /\ nh[k] = h[k + 1] /\ np[k - 1] = p[k] /\ nh[k - 1] = h[k]
        <4>1. k \in 0 .. n - 1 /\ k - 1 \in 0 .. n - 1 /\ (k - 1) + 1 = k
          BY <1>1
        <4> QED
          BY <2>2, <4>1
      <3>2. k + 1 \in 1 .. n /\ (k + 1) - 1 = k
        BY <1>1
      <3>3. p[k + 1] = p[(k + 1) - 1] + Flow(made[k + 1]) /\ h[k + 1] = SharesAfter(h[(k + 1) - 1], made[k + 1])
        BY <1>3, <3>2 DEF LeadsTo, n
      <3> QED
        BY <1>1, <1>8, <3>1, <3>2, <3>3
    <2>5. Len(made') = n - 1 /\ phase' # "matching"
      BY <1>1, <1>2, <1>8
    <2>6. LeadsTo(np, nh)'
      BY <2>3, <2>4, <2>5 DEF LeadsTo, Flow, SharesAfter, Cost, Proceeds
    <2> QED
      BY <2>5, <2>6 DEF Covered
  <1>12. \A k \in DOMAIN made' : made'[k].quantity # 0 /\ made'[k].notional >= 0
    <2> SUFFICES ASSUME NEW k \in 1 .. n - 1 PROVE made[k + 1].quantity # 0 /\ made[k + 1].notional >= 0
      BY <1>1, <1>8
    <2>1. k + 1 \in DOMAIN made
      BY <1>1 DEF n
    <2> QED
      BY <2>1 DEF RunningInv
  <1> QED
    BY <1>2, <1>8, <1>9, <1>11, <1>12 DEF RunningInv

LEMMA OtherRunning ==
  ASSUME IndInv, RunningInv,
         \/ StartSession \/ MorningOrEvening \/ CheckLifecycles \/ Mark \/ Strategy
         \/ EndSession \/ CloseSession \/ FinishRun \/ UNCHANGED vars
  PROVE RunningInv'
  <1>1. ASSUME NEW kind, Fail(kind) PROVE RunningInv'
    BY <1>1 DEF RunningInv, Fail, broker
  <1>2. ASSUME made = <<>>, made' = made, phase' \notin {"matching", "filling"} PROVE RunningInv'
    BY <1>2 DEF RunningInv
  <1>3. CASE StartSession \/ EndSession \/ CloseSession
    BY <1>2, <1>3 DEF StartSession, EndSession, CloseSession, RunningInv, broker
  <1>4. CASE MorningOrEvening
    <2> PICK a \in ActionIds :
          Capture(a) \/ CancelOnEx(a) \/ ConfirmCash(a) \/ ConfirmStock(a) \/ Settle(a) \/ List(a)
      BY <1>4 DEF MorningOrEvening
    <2>1. phase \in {"morning", "evening"}
      BY DEF Capture, CancelOnEx, ConfirmCash, ConfirmStock, Settle, List, Due
    <2>2. \/ Fail("action") \/ Fail("account")
          \/ phase' = phase /\ made' = made
      BY DEF Capture, CancelOnEx, CancelSymbols, CancelOrders, ConfirmCash, ConfirmStock, Settle, List,
             Done, broker, matching
    <2> QED
      BY <1>1, <1>2, <2>1, <2>2 DEF RunningInv
  <1>5. CASE CheckLifecycles
    BY <1>1, <1>2, <1>5 DEF CheckLifecycles, CancelSymbols, CancelOrders, matching, RunningInv
  <1>6. CASE Mark
    BY <1>1, <1>2, <1>6 DEF Mark, broker
  <1>7. CASE Strategy
    <2>1. phase \in {"open", "ordering"} /\ phase' \in {"open", "ordering"} /\ made' = made
      BY <1>7 DEF Strategy, OrderShares, Cancel, Rebalance, OrderGap, EndOrdering, Calling, Submit, CancelOrders,
                  broker, matching
    <2> QED
      BY <1>2, <2>1 DEF RunningInv
  <1>8. CASE FinishRun
    BY <1>2, <1>8 DEF FinishRun, ExpireAll, matching, RunningInv
  <1>9. CASE UNCHANGED vars
    BY <1>9 DEF vars, RunningInv, Covered, LeadsTo
  <1> QED
    BY <1>3, <1>4, <1>5, <1>6, <1>7, <1>8, <1>9

LEMMA InitRunning == Init => RunningInv
  BY DEF Init, BrokerInit, RunningInv

LEMMA NextRunning == IndInv /\ RunningInv /\ [Next]_vars => RunningInv'
  BY MarketEventRunning, MatchRunning, MatchedRunning, FillRunning, OtherRunning DEF Next, Ended

-----------------------------------------------------------------------------
(* The account refuses nothing. *)

\* error changes only when an exception ends the run.
LEMMA NextError ==
  ASSUME IndInv, DividendsInv, ListingInv, RunningInv, AccountNeverRefuses, [Next]_vars
  PROVE AccountNeverRefuses'
  <1>1. ASSUME NEW kind \in {"action", "delisted", "data"}, Fail(kind) PROVE AccountNeverRefuses'
    BY <1>1 DEF Fail, AccountNeverRefuses
  <1>2. ASSUME error' = error PROVE AccountNeverRefuses'
    BY <1>2 DEF AccountNeverRefuses
  <1>3. CASE MorningOrEvening
    <2> PICK a \in ActionIds :
          Capture(a) \/ CancelOnEx(a) \/ ConfirmCash(a) \/ ConfirmStock(a) \/ Settle(a) \/ List(a)
      BY <1>3 DEF MorningOrEvening
    <2>1. CASE ConfirmCash(a)
      BY <1>1, <1>2, <2>1, ConfirmCashDividends DEF ConfirmCash, Done
    <2>2. CASE ConfirmStock(a)
      BY <1>1, <1>2, <2>2, ConfirmStockDividends DEF ConfirmStock, Done
    <2>3. CASE List(a)
      BY <1>2, <2>3, ListListing DEF List, Done
    <2>4. CASE Capture(a) \/ CancelOnEx(a) \/ Settle(a)
      BY <1>1, <1>2, <2>4 DEF Capture, CancelOnEx, Settle, Done
    <2> QED
      BY <2>1, <2>2, <2>3, <2>4
  <1>4. CASE Fill
    BY <1>2, <1>4, FillRunning DEF Fill, engine
  <1>5. CASE CheckLifecycles \/ Mark
    BY <1>1, <1>2, <1>5 DEF CheckLifecycles, Mark
  <1>6. CASE StartSession \/ MarketEvent \/ Match \/ Matched \/ EndSession \/ CloseSession \/ FinishRun
    BY <1>2, <1>6 DEF StartSession, MarketEvent, Match, Matched, EndSession, CloseSession, FinishRun, engine
  <1>7. CASE Strategy
    BY <1>2, <1>7 DEF Strategy, OrderShares, Cancel, Rebalance, OrderGap, EndOrdering
  <1>8. CASE UNCHANGED vars
    BY <1>2, <1>8 DEF vars
  <1> QED
    BY <1>3, <1>4, <1>5, <1>6, <1>7, <1>8 DEF Next, Ended

LEMMA InitError == Init => AccountNeverRefuses
  BY NoneAssumption DEF Init, AccountNeverRefuses

-----------------------------------------------------------------------------
(* The theorems. *)

JointInv == IndInv /\ OrdersInv /\ DividendsInv /\ ListingInv /\ RunningInv /\ AccountNeverRefuses

\* The account, the broker, the agenda and the fills under way agree with each other.
THEOREM FillInvariance == Spec => []JointInv
  <1>1. Init => JointInv
    BY InitInv, InitOrders, InitDividends, InitListing, InitRunning, InitError DEF JointInv
  <1>2. JointInv /\ [Next]_vars => JointInv'
    BY NextInv, NextOrders, NextDividends, NextListing, NextRunning, NextError DEF JointInv
  <1> QED
    BY <1>1, <1>2, PTL DEF Spec

\* CorporateActionProcessor.on_session_start and cancel_symbol: no order from before
\* an ex day fills on that day or later, whichever of equal corporate actions is
\* loaded, on any calendar.
THEOREM ExDaysSeparateOrders == Spec => []NoFillAcrossExDay
  <1>1. JointInv => NoFillAcrossExDay
    BY DEF JointInv, OrdersInv, FillsClean, Clean, NoFillAcrossExDay
  <1> QED
    BY <1>1, FillInvariance, PTL

\* The account refuses no fill that match_bar makes with its own running cash and
\* shares, books no dividend twice and lists no share it does not hold, so the
\* PortfolioErrors of apply_fill, recognize_dividend and list_stock_dividend never
\* end a run.
THEOREM NeverRefused == Spec => []AccountNeverRefuses
  <1>1. JointInv => AccountNeverRefuses
    BY DEF JointInv
  <1> QED
    BY <1>1, FillInvariance, PTL

-----------------------------------------------------------------------------
(* Sums over finite sets. *)

\* Induction over the subsets of a finite set, for a property given as the set of those that have it.
LEMMA SubsetInduction ==
  ASSUME NEW S, IsFiniteSet(S), NEW P,
         \A T \in SUBSET S : (\A x \in T : T \ {x} \in P) => T \in P
  PROVE  \A T \in SUBSET S : T \in P
  <1> DEFINE bad == {T \in SUBSET S : T \notin P}
             sizes == {Cardinality(T) : T \in bad}
  <1> SUFFICES ASSUME bad # {} PROVE FALSE
    OBVIOUS
  <1>1. \A T \in SUBSET S : IsFiniteSet(T) /\ Cardinality(T) \in Nat
    BY FS_Subset, FS_CardinalityType
  <1>2. PICK n \in sizes : \A m \in sizes : n <= m
    <2>1. sizes \in SUBSET Nat /\ sizes # {}
      BY <1>1
    <2> HIDE DEF sizes
    <2> QED
      BY <2>1, LeastNatural
  <1>3. PICK T \in bad : n = Cardinality(T)
    BY <1>2
  <1>4. ASSUME NEW x \in T PROVE T \ {x} \in P
    <2>1. T \ {x} \in SUBSET S /\ IsFiniteSet(T)
      BY <1>1, <1>3
    <2>2. Cardinality(T \ {x}) = n - 1 /\ n \in Nat
      BY <1>1, <1>3, <2>1, FS_RemoveElement
    <2>3. T \ {x} \in bad => Cardinality(T \ {x}) \in sizes
      OBVIOUS
    <2> QED
      BY <1>2, <2>1, <2>2, <2>3
  <1> QED
    BY <1>3, <1>4

\* F[T] is the sum of f over T, whichever element of T is taken first.
Adds(F, f, S) ==
  \A T \in SUBSET S :
    /\ F[T] \in Int
    /\ T = {} => F[T] = 0
    /\ \A x \in T : F[T] = f[x] + F[T \ {x}]

LEMMA SumsExist ==
  ASSUME NEW S, IsFiniteSet(S), NEW f, \A x \in S : f[x] \in Int
  PROVE  \E F : Adds(F, f, S)
  <1> DEFINE P == {T \in SUBSET S : \E F : Adds(F, f, T)}
  <1>1. ASSUME NEW T \in SUBSET S, \A x \in T : T \ {x} \in P
        PROVE  \E F : Adds(F, f, T)
    <2>1. CASE T = {}
      <3> DEFINE F == [U \in SUBSET T |-> 0]
      <3>1. Adds(F, f, T)
        BY <2>1 DEF Adds
      <3> HIDE DEF F
      <3> QED
        BY <3>1
    <2>2. CASE T # {}
      <3>1. PICK x \in T : TRUE
        BY <2>2
      <3>2. PICK F : Adds(F, f, T \ {x})
        BY <1>1
      <3> DEFINE G == [U \in SUBSET T |-> IF x \in U THEN f[x] + F[U \ {x}] ELSE F[U]]
      <3>3. f[x] \in Int
        OBVIOUS
      <3>4. \A U \in SUBSET T : U \ {x} \in SUBSET (T \ {x}) /\ (x \notin U => U \in SUBSET (T \ {x}))
        OBVIOUS
      <3>5. \A U \in SUBSET (T \ {x}) : F[U] \in Int /\ (U = {} => F[U] = 0) /\ \A y \in U : F[U] = f[y] + F[U \ {y}]
        BY <3>2 DEF Adds
      <3>6. \A U \in SUBSET T : G[U] = IF x \in U THEN f[x] + F[U \ {x}] ELSE F[U]
        OBVIOUS
      <3> HIDE DEF G
      <3>7. ASSUME NEW U \in SUBSET T
            PROVE  G[U] \in Int /\ (U = {} => G[U] = 0)
        <4>1. CASE x \in U
          <5>1. G[U] = f[x] + F[U \ {x}] /\ U # {} /\ U \ {x} \in SUBSET (T \ {x})
            BY <3>6, <4>1
          <5>2. F[U \ {x}] \in Int
            BY <3>5, <5>1
          <5> QED
            BY <3>3, <5>1, <5>2
        <4>2. CASE x \notin U
          <5>1. G[U] = F[U] /\ U \in SUBSET (T \ {x})
            BY <3>6, <4>2
          <5> QED
            BY <3>5, <5>1
        <4> QED
          BY <4>1, <4>2
      <3>8. ASSUME NEW U \in SUBSET T, NEW y \in U
            PROVE  G[U] = f[y] + G[U \ {y}]
        <4>1. U \ {y} \in SUBSET T
          OBVIOUS
        <4>2. CASE y = x
          <5>1. G[U \ {y}] = F[U \ {x}] /\ G[U] = f[x] + F[U \ {x}]
            BY <3>6, <4>1, <4>2
          <5> QED
            BY <5>1, <4>2
        <4>3. CASE y # x /\ x \in U
          <5>1. (U \ {y}) \ {x} = (U \ {x}) \ {y} /\ x \in U \ {y} /\ y \in U \ {x}
            BY <4>3
          <5>2. G[U] = f[x] + F[U \ {x}] /\ G[U \ {y}] = f[x] + F[(U \ {x}) \ {y}]
            BY <3>6, <4>1, <4>3, <5>1
          <5>3. F[U \ {x}] = f[y] + F[(U \ {x}) \ {y}]
            BY <3>4, <3>5, <5>1
          <5>4. f[x] \in Int /\ f[y] \in Int /\ F[(U \ {x}) \ {y}] \in Int
            <6>1. (U \ {x}) \ {y} \in SUBSET (T \ {x}) /\ y \in S
              OBVIOUS
            <6> QED
              BY <3>3, <3>5, <6>1
          <5> QED
            BY <5>2, <5>3, <5>4
        <4>4. CASE x \notin U
          <5>1. G[U] = F[U] /\ G[U \ {y}] = F[U \ {y}]
            BY <3>6, <4>1, <4>4
          <5>2. U \in SUBSET (T \ {x})
            BY <3>4, <4>4
          <5> QED
            BY <3>5, <5>1, <5>2
        <4> QED
          BY <4>2, <4>3, <4>4
      <3>9. Adds(G, f, T)
        BY <3>7, <3>8 DEF Adds
      <3> QED
        BY <3>9
    <2> QED
      BY <2>1, <2>2
  <1>2. \A T \in SUBSET S : T \in P
    <2>1. \A T \in SUBSET S : (\A x \in T : T \ {x} \in P) => T \in P
      BY <1>1
    <2> HIDE DEF P
    <2> QED
      BY <2>1, SubsetInduction
  <1> QED
    BY <1>2

\* The recursion of MapThenFoldSet, which takes some element of a set first.
Any(T) == CHOOSE x \in T : TRUE
Recurs(h, f, S) == \A T \in SUBSET S : h[T] = IF T = {} THEN 0 ELSE f[Any(T)] + h[T \ {Any(T)}]

LEMMA SumIs ==
  ASSUME NEW S, IsFiniteSet(S), NEW f, NEW F, Adds(F, f, S), NEW h, Recurs(h, f, S)
  PROVE  h[S] = F[S]
  <1> DEFINE P == {T \in SUBSET S : h[T] = F[T]}
  <1>1. ASSUME NEW T \in SUBSET S, \A x \in T : T \ {x} \in P PROVE T \in P
    <2>1. CASE T = {}
      BY <2>1 DEF Adds, Recurs
    <2>2. CASE T # {}
      <3>1. Any(T) \in T
        BY <2>2 DEF Any
      <3>2. h[T] = f[Any(T)] + h[T \ {Any(T)}] /\ F[T] = f[Any(T)] + F[T \ {Any(T)}]
        BY <2>2, <3>1 DEF Adds, Recurs
      <3>3. h[T \ {Any(T)}] = F[T \ {Any(T)}]
        BY <1>1, <3>1
      <3> QED
        BY <3>2, <3>3
    <2> QED
      BY <2>1, <2>2
  <1>2. \A T \in SUBSET S : T \in P
    <2> HIDE DEF P
    <2> QED
      BY <1>1, SubsetInduction
  <1> QED
    BY <1>2

\* So the sum does not depend on the order.
LEMMA SumAdds ==
  ASSUME NEW S, IsFiniteSet(S), NEW f, NEW F, Adds(F, f, S)
  PROVE  Total(f, S) = F[S]
  <1> DEFINE Solves(h) == h = [T \in SUBSET S |-> IF T = {} THEN 0
                                 ELSE f[CHOOSE x \in T : TRUE] + h[T \ {CHOOSE x \in T : TRUE}]]
             G == [T \in SUBSET S |-> F[T]]
             h == CHOOSE g : Solves(g)
  <1>1. \A T \in SUBSET S : F[T] = IF T = {} THEN 0 ELSE f[Any(T)] + F[T \ {Any(T)}]
    <2>1. \A T \in SUBSET S : T # {} => Any(T) \in T
      BY DEF Any
    <2> QED
      BY <2>1 DEF Adds
  <1>2. Solves(G)
    <2> DEFINE e == [T \in SUBSET S |-> IF T = {} THEN 0 ELSE f[CHOOSE x \in T : TRUE] + G[T \ {CHOOSE x \in T : TRUE}]]
    <2>1. \A T \in SUBSET S : e[T] = F[T]
      BY <1>1 DEF Any
    <2>2. e = G
      <3>1. e = [T \in SUBSET S |-> e[T]]
        OBVIOUS
      <3> HIDE DEF e
      <3> QED
        BY <2>1, <3>1
    <2> QED
      BY <2>2
  <1>3. Solves(h)
    <2> HIDE DEF Solves
    <2> QED
      BY <1>2
  <1>4. Recurs(h, f, S)
    <2> HIDE DEF h
    <2> QED
      BY <1>3 DEF Recurs, Any
  <1>5. Total(f, S) = h[S]
    BY DEF Total, MapThenSumSet, MapThenFoldSet
  <1> HIDE DEF h, Solves
  <1> QED
    BY <1>4, <1>5, SumIs

\* The sum takes up one element after the other.
LEMMA SumFacts ==
  ASSUME NEW S, IsFiniteSet(S), NEW f, \A x \in S : f[x] \in Int
  PROVE  /\ Total(f, S) \in Int
         /\ Total(f, {}) = 0
         /\ \A x \in S : Total(f, S) = f[x] + Total(f, S \ {x})
  <1>1. PICK F : Adds(F, f, S)
    BY SumsExist
  <1>2. ASSUME NEW T \in SUBSET S PROVE Total(f, T) = F[T]
    <2>1. Adds(F, f, T) /\ IsFiniteSet(T)
      BY <1>1, FS_Subset DEF Adds
    <2> QED
      BY <2>1, SumAdds
  <1>3. S \in SUBSET S /\ {} \in SUBSET S /\ \A x \in S : S \ {x} \in SUBSET S
    OBVIOUS
  <1>4. F[S] \in Int /\ F[{}] = 0 /\ \A x \in S : F[S] = f[x] + F[S \ {x}]
    BY <1>1, <1>3 DEF Adds
  <1> QED
    BY <1>2, <1>3, <1>4

\* What is no part of a sum does not matter, and zeros do not either.
LEMMA SumSame ==
  ASSUME NEW S, IsFiniteSet(S), NEW f, \A x \in S : f[x] \in Int, NEW T \in SUBSET S,
         NEW g, \A x \in T : g[x] = f[x], \A x \in S \ T : f[x] = 0
  PROVE  Total(f, S) = Total(g, T)
  <1> DEFINE P == {U \in SUBSET S : Total(f, U) = Total(g, U \cap T)}
  <1>1. ASSUME NEW U \in SUBSET S, \A x \in U : U \ {x} \in P PROVE U \in P
    <2>1. IsFiniteSet(U) /\ IsFiniteSet(U \cap T) /\ (\A x \in U : f[x] \in Int) /\ \A x \in U \cap T : g[x] \in Int
      BY FS_Subset
    <2>2. CASE U = {}
      <3>1. U \cap T = {}
        BY <2>2
      <3>2. Total(f, {}) = 0 /\ Total(g, {}) = 0
        BY <2>1, SumFacts
      <3> QED
        BY <2>2, <3>1, <3>2
    <2>3. CASE U # {}
      <3>1. PICK x \in U : TRUE
        BY <2>3
      <3>2. Total(f, U) = f[x] + Total(f, U \ {x}) /\ Total(f, U \ {x}) = Total(g, (U \ {x}) \cap T)
        BY <1>1, <2>1, <3>1, SumFacts
      <3>3. CASE x \in T
        <4>1. (U \ {x}) \cap T = (U \cap T) \ {x} /\ x \in U \cap T /\ g[x] = f[x]
          BY <3>1, <3>3
        <4>2. Total(g, U \cap T) = g[x] + Total(g, (U \cap T) \ {x})
          BY <2>1, <4>1, SumFacts
        <4> QED
          BY <3>2, <4>1, <4>2
      <3>4. CASE x \notin T
        <4>1. (U \ {x}) \cap T = U \cap T /\ f[x] = 0
          BY <3>1, <3>4
        <4>2. Total(g, U \cap T) \in Int
          BY <2>1, SumFacts
        <4>3. Total(f, U) = Total(g, U \cap T)
          <5>1. Total(f, U \ {x}) = Total(g, U \cap T)
            BY <3>2, <4>1
          <5>2. Total(f, U) = 0 + Total(g, U \cap T)
            BY <3>2, <4>1, <5>1
          <5> QED
            BY <4>2, <5>2
        <4> QED
          BY <4>3
      <3> QED
        BY <3>3, <3>4
    <2> QED
      BY <2>2, <2>3
  <1>2. S \in P
    <2> HIDE DEF P
    <2> QED
      BY <1>1, SubsetInduction
  <1>3. S \cap T = T
    OBVIOUS
  <1> QED
    BY <1>2, <1>3

\* One of the summands changes.
LEMMA SumChanges ==
  ASSUME NEW S, IsFiniteSet(S), NEW f, \A x \in S : f[x] \in Int, NEW z \in S,
         NEW g, \A x \in S \ {z} : g[x] = f[x], g[z] \in Int
  PROVE  Total(g, S) = Total(f, S) - f[z] + g[z]
  <1>1. IsFiniteSet(S \ {z}) /\ \A x \in S : g[x] \in Int
    BY FS_RemoveElement
  <1>2. Total(f, S) = f[z] + Total(f, S \ {z}) /\ Total(g, S) = g[z] + Total(g, S \ {z})
    BY <1>1, SumFacts
  <1>3. Total(f, S \ {z}) = Total(g, S \ {z})
    BY <1>1, SumSame
  <1>4. Total(f, S \ {z}) \in Int
    BY <1>1, SumFacts
  <1> QED
    BY <1>2, <1>3, <1>4
-----------------------------------------------------------------------------
(* The morning goes by stages. *)

\* What is left of the morning or the evening is of this day; what is done of the morning came first.
InOrder ==
  /\ phase = "morning" =>
       /\ agenda \subseteq Morning(day)
       /\ \A x \in Morning(day), y \in agenda : x \in agenda \/ Earlier(x, y)
  /\ phase = "evening" => agenda \subseteq Evening(day)

LEMMA OneStage ==
  ASSUME NEW d \in Nat, NEW x \in Morning(d), NEW y \in Morning(d), x.op = y.op, x.id = y.id
  PROVE  x.stage = y.stage
  BY NoneAssumption DEF Morning

LEMMA DoneInOrder ==
  ASSUME IndInv, InOrder, NEW a \in ActionIds, NEW op, Due(op, a), Done(op, a)
  PROVE  InOrder'
  <1>1. /\ agenda' = {x \in agenda : x.op # op \/ x.id # a} /\ UNCHANGED <<world, phase, day>>
    BY DEF Done
  <1>2. PICK x \in agenda : x.op = op /\ x.id = a /\ \A y \in agenda : Earlier(x, y)
    BY DEF Due
  <1>3. Morning(day)' = Morning(day) /\ Evening(day)' = Evening(day)
    BY <1>1 DEF Morning, Evening, Loaded, Dividend
  <1>4. phase = "morning" \/ phase = "evening"
    BY DEF Due
  <1>5. CASE phase = "evening"
    BY <1>1, <1>3, <1>5 DEF InOrder
  <1>6. CASE phase = "morning"
    <2>1. agenda \subseteq Morning(day)
      BY <1>6 DEF InOrder
    <2>2. ASSUME NEW u \in Morning(day), NEW y \in agenda', u \notin agenda' PROVE Earlier(u, y)
      <3>1. CASE u \in agenda
        <4>1. u.op = x.op /\ u.id = x.id
          BY <1>1, <1>2, <2>2, <3>1
        <4>2. u.stage = x.stage
          BY <2>1, <4>1, OneStage, DayType DEF IndInv
        <4> QED
          BY <1>1, <1>2, <4>1, <4>2 DEF Earlier
      <3>2. CASE u \notin agenda
        BY <1>1, <1>6, <3>2 DEF InOrder
      <3> QED
        BY <3>1, <3>2
    <2> QED
      BY <1>1, <1>3, <1>6, <2>1, <2>2 DEF InOrder
  <1> QED
    BY <1>4, <1>5, <1>6

\* The steps that are neither of the morning nor of the evening.
LEMMA Elsewhere ==
  ASSUME IndInv, Next, ~StartSession, ~MorningOrEvening, ~EndSession, ~Ended
  PROVE  phase' \notin {"morning", "evening"}
  <1>1. CASE CheckLifecycles
    BY <1>1 DEF CheckLifecycles, Fail
  <1>2. CASE MarketEvent \/ Matched
    BY <1>2 DEF MarketEvent, Matched
  <1>3. CASE Match \/ Fill
    BY <1>3 DEF Match, Fill, engine, Fail
  <1>4. CASE Mark
    BY <1>4 DEF Mark, Fail
  <1>5. CASE Strategy
    BY <1>5 DEF Strategy, OrderShares, Cancel, Rebalance, OrderGap, EndOrdering, Calling
  <1>6. CASE CloseSession \/ FinishRun
    BY <1>6 DEF CloseSession, FinishRun
  <1> QED
    BY <1>1, <1>2, <1>3, <1>4, <1>5, <1>6 DEF Next

LEMMA NextInOrder == IndInv /\ InOrder /\ [Next]_vars => InOrder'
  <1> SUFFICES ASSUME IndInv, InOrder, [Next]_vars PROVE InOrder'
    OBVIOUS
  <1>1. CASE UNCHANGED vars
    BY <1>1 DEF vars, InOrder, Morning, Evening, Loaded, Dividend
  <1>2. CASE StartSession
    <2>1. PICK d \in Sessions : day' = d /\ agenda' = Morning(d) /\ UNCHANGED world
      BY <1>2 DEF StartSession
    <2>2. Morning(day)' = Morning(d) /\ phase' = "morning"
      BY <1>2, <2>1 DEF Morning, Loaded, Dividend, StartSession
    <2> QED
      BY <2>1, <2>2 DEF InOrder
  <1>3. CASE MorningOrEvening
    <2>1. PICK a \in ActionIds : Capture(a) \/ CancelOnEx(a) \/ ConfirmCash(a) \/ ConfirmStock(a) \/ Settle(a) \/ List(a)
      BY <1>3 DEF MorningOrEvening
    <2>2. ASSUME NEW kind, Fail(kind) PROVE InOrder'
      BY <2>2 DEF Fail, InOrder
    <2> QED
      BY <2>1, <2>2, DoneInOrder DEF Capture, CancelOnEx, ConfirmCash, ConfirmStock, Settle, List
  <1>4. CASE EndSession
    <2>1. phase' = "evening" /\ agenda' = Evening(day) /\ UNCHANGED <<world, day>>
      BY <1>4 DEF EndSession
    <2>2. Evening(day)' = Evening(day)
      BY <2>1 DEF Evening, Loaded, Dividend
    <2> QED
      BY <2>1, <2>2 DEF InOrder
  <1>5. CASE Next /\ ~StartSession /\ ~MorningOrEvening /\ ~EndSession /\ ~Ended
    BY <1>5, Elsewhere DEF InOrder
  <1> QED
    BY <1>1, <1>2, <1>3, <1>4, <1>5 DEF Ended

\* The first thing on the agenda: nothing that comes before it is left, and what comes after it is.
LEMMA DueFirst ==
  ASSUME IndInv, InOrder, phase = "morning", NEW a \in ActionIds, NEW op, Due(op, a)
  PROVE  \E x \in agenda :
           /\ x \in Morning(day) /\ x.op = op /\ x.id = a
           /\ \A y \in agenda : Earlier(x, y)
           /\ \A y \in Morning(day) : ~Earlier(y, x) => y \in agenda
  BY DEF Due, InOrder
-----------------------------------------------------------------------------
(* The shares held at the record day are noted when it closes. *)

Unfinished == phase \notin {"failed", "finished"}

\* The record day of the action is over, and nobody has still to look at the holding.
CaptureDone(a) ==
  /\ ~Todo("capture", a)
  /\ \/ Dividend(a).record < day
     \/ phase \in {"evening", "closed"} /\ day # 0 /\ SessionsTo(Dividend(a).record) = SessionsTo(day)

Noted(a) ==
  IF CaptureDone(a) THEN Entitlement(a) = Held(a) /\ (Held(a) > 0 => Valid(a)) ELSE entitled[a] = None

ClosesType == DOMAIN closes \subseteq Sessions /\ \A d \in DOMAIN closes : closes[d] \in [Symbols -> Nat]

Captured ==
  Unfinished =>
    /\ ClosesType
    /\ phase # "closed" => day \in Sessions
    /\ phase = "evening" => day \in DOMAIN closes /\ closes[day] = quantity
    /\ (phase = "closed" /\ day = 0) \/ (phase = "morning" /\ SessionsTo(day) = {day}) =>
         \A s \in Symbols : quantity[s] = 0
    /\ \A a \in Loaded : Noted(a)

LEMMA LoadedType == ASSUME Engine, NEW a \in Loaded
  PROVE /\ a \in ActionIds /\ Dividend(a).symbol \in Symbols /\ Dividend(a).record \in Nat
        /\ Dividend(a).cash \in Nat /\ Dividend(a).stock \in Nat
        /\ Dividend(a).ex \in Nat \cup {None} /\ Dividend(a).pay \in Nat \cup {None} /\ Dividend(a).list \in Nat \cup {None}
        /\ Dividend(a).record > 0
  <1>1. a \in ActionIds
    BY DEF Loaded
  <1>2. Dividend(a) \in Dividends
    BY <1>1 DEF Engine, Dividend
  <1> QED
    BY <1>1, <1>2, WorldAssumption DEF Days

LEMMA WorldSame ==
  ASSUME UNCHANGED world
  PROVE  /\ Loaded' = Loaded
         /\ \A a : Dividend(a)' = Dividend(a)
         /\ \A a : Valid(a)' = Valid(a)
  BY DEF Loaded, Dividend, Valid, Conflict, Replayed, Settles

LEMMA HeldSame == ASSUME UNCHANGED <<world, closes>>, NEW a PROVE Held(a)' = Held(a)
  BY DEF Held, Dividend

LEMMA LastBefore ==
  ASSUME NEW S \in SUBSET Sessions, NEW r \in Nat, {d \in S : d <= r} # {}
  PROVE  \E d \in {d \in S : d <= r} : \A e \in {d1 \in S : d1 <= r} : e <= d
  <1> DEFINE before == {d \in S : d <= r}
             mirror == {r - d : d \in before}
  <1>1. before \subseteq Nat /\ \A d \in before : d <= r
    BY SessionDay
  <1>2. mirror \in SUBSET Nat /\ mirror # {}
    <2>1. PICK d \in before : TRUE
      OBVIOUS
    <2>2. r - d \in mirror
      BY <2>1
    <2>3. ASSUME NEW d1 \in before PROVE r - d1 \in Nat
      <3>1. d1 \in Nat /\ d1 <= r
        BY <1>1
      <3> QED
        BY <3>1
    <2> HIDE DEF before
    <2> QED
      BY <2>2, <2>3
  <1>3. PICK n \in mirror : \A m \in mirror : n <= m
    <2> HIDE DEF mirror
    <2> QED
      BY <1>2, LeastNatural
  <1> HIDE DEF before
  <1>4. PICK d \in before : n = r - d
    BY <1>3
  <1>5. ASSUME NEW e \in before PROVE e <= d
    <2>1. n <= r - e
      BY <1>3
    <2> QED
      BY <1>1, <1>4, <2>1
  <1> QED
    BY <1>5 DEF before

LEMMA HeldType == ASSUME Engine, ClosesType, NEW a \in Loaded PROVE Held(a) \in Nat
  <1> DEFINE before == {d \in DOMAIN closes : d <= Dividend(a).record}
             last == CHOOSE d \in before : \A e \in before : e <= d
  <1>1. CASE before = {}
    BY <1>1 DEF Held
  <1>2. CASE before # {}
    <2>1. \E d \in before : \A e \in before : e <= d
      BY <1>2, LoadedType, LastBefore DEF ClosesType
    <2>2. last \in before
      BY <2>1
    <2>3. Held(a) = closes[last][Dividend(a).symbol]
      BY <1>2 DEF Held
    <2> QED
      BY <2>2, <2>3, LoadedType DEF ClosesType
  <1> QED
    BY <1>1, <1>2

\* Without a session up to the record day nothing was held.
LEMMA NeverHeld ==
  ASSUME ClosesType, NEW a \in Loaded, SessionsTo(Dividend(a).record) \cap DOMAIN closes = {} PROVE Held(a) = 0
  BY DEF Held, ClosesType, SessionsTo

LEMMA NotedSame ==
  ASSUME UNCHANGED <<world, day, closes>>, NEW a \in Loaded, Noted(a), entitled'[a] = entitled[a],
         Todo("capture", a)' = Todo("capture", a),
         phase' \in {"evening", "closed"} <=> phase \in {"evening", "closed"}
  PROVE  Noted(a)'
  <1>1. Dividend(a)' = Dividend(a) /\ Held(a)' = Held(a) /\ Valid(a)' = Valid(a)
    BY WorldSame, HeldSame
  <1>2. CaptureDone(a)' = CaptureDone(a)
    BY <1>1 DEF CaptureDone, SessionsTo
  <1>3. Entitlement(a)' = Entitlement(a)
    BY DEF Entitlement
  <1> QED
    BY <1>1, <1>2, <1>3 DEF Noted

\* A step that notes nothing.
LEMMA CapturedSame ==
  ASSUME Captured, UNCHANGED <<world, day, closes, entitled>>,
         \A a \in Loaded : Todo("capture", a)' = Todo("capture", a),
         phase' \in {"evening", "closed"} <=> phase \in {"evening", "closed"},
         phase' # "evening" \/ (phase = "evening" /\ UNCHANGED quantity),
         phase' # "morning" \/ (phase = "morning" /\ (SessionsTo(day) = {day} => UNCHANGED quantity)),
         phase' # "closed" \/ phase = "evening" \/ UNCHANGED <<phase, quantity>>,
         phase \in {"failed", "finished"} => phase' \in {"failed", "finished"}
  PROVE  Captured'
  <1> SUFFICES ASSUME Unfinished' PROVE Captured'
    BY DEF Captured
  <1>1. Unfinished
    BY DEF Unfinished
  <1>2. Loaded' = Loaded /\ ClosesType' /\ SessionsTo(day)' = SessionsTo(day)
    BY <1>1, WorldSame DEF Captured, ClosesType, SessionsTo
  <1>3. \A a \in Loaded : Noted(a)'
    BY <1>1, NotedSame DEF Captured
  <1>4. /\ phase' # "closed" => day' \in Sessions
        /\ phase' = "evening" => day' \in DOMAIN closes' /\ closes'[day'] = quantity'
    BY <1>1 DEF Captured
  <1>5. phase' # "closed" \/ UNCHANGED <<phase, quantity>> \/ day # 0
    BY <1>1, SessionDay, WorldAssumption DEF Captured, Days
  <1>6. (phase' = "closed" /\ day' = 0) \/ (phase' = "morning" /\ SessionsTo(day)' = {day'}) =>
          \A s \in Symbols : quantity'[s] = 0
    <2>1. ASSUME phase' = "closed", day' = 0 PROVE \A s \in Symbols : quantity'[s] = 0
      BY <1>1, <1>5, <2>1 DEF Captured
    <2>2. ASSUME phase' = "morning", SessionsTo(day)' = {day'} PROVE \A s \in Symbols : quantity'[s] = 0
      BY <1>1, <1>2, <2>2 DEF Captured
    <2> QED
      BY <2>1, <2>2
  <1> QED
    BY <1>2, <1>3, <1>4, <1>6 DEF Captured

LEMMA StartSessionCaptured == ASSUME IndInv, OrdersInv, Captured, StartSession PROVE Captured'
  <1>1. PICK d \in Sessions : /\ d > day /\ \A t \in Sessions : t > day => t >= d
                              /\ day' = d /\ agenda' = Morning(d)
    BY DEF StartSession
  <1>2. /\ phase = "closed" /\ phase' = "morning" /\ agenda = {}
        /\ UNCHANGED <<world, closes, quantity, entitled>>
    BY DEF StartSession, UnlockT1, OrdersInv, AgendaOpen
  <1>3. d \in Nat /\ day \in Nat /\ (day = 0 \/ day \in Sessions) /\ \A t \in Sessions : t \in Nat /\ t > 0
    BY SessionDay, DayType, WorldAssumption DEF IndInv, Engine, Days
  <1>4. /\ ClosesType /\ \A a \in Loaded : Noted(a)
        /\ day = 0 => \A s \in Symbols : quantity[s] = 0
    BY <1>2 DEF Captured, Unfinished
  <1>5. ClosesType' /\ Loaded' = Loaded
    BY <1>2, <1>4, WorldSame DEF ClosesType
  <1>6. SessionsTo(d) = {d} => day = 0
    BY <1>1, <1>3 DEF SessionsTo
  <1>7. day = 0 => SessionsTo(d) = {d}
    <2>1. ASSUME day = 0, NEW t \in SessionsTo(d) PROVE t = d
      BY <1>1, <1>3, <2>1 DEF SessionsTo
    <2>2. d \in SessionsTo(d)
      BY <1>3 DEF SessionsTo
    <2> QED
      BY <2>1, <2>2
  <1>8. ASSUME NEW a \in Loaded PROVE Noted(a)'
    <2>1. Dividend(a)' = Dividend(a) /\ Held(a)' = Held(a) /\ Valid(a)' = Valid(a) /\ Entitlement(a)' = Entitlement(a)
      BY <1>2, WorldSame, HeldSame DEF Entitlement
    <2>2. Dividend(a).record \in Nat /\ Dividend(a).record > 0 /\ a \in ActionIds
      BY LoadedType DEF IndInv
    <2>3. ~Todo("capture", a) /\ Noted(a)
      BY <1>2, <1>4 DEF Todo
    <2>4. CASE day = 0
      <3>1. ~CaptureDone(a)
        BY <2>2, <2>4 DEF CaptureDone
      <3>2. ~CaptureDone(a)'
        <4> SUFFICES ASSUME Dividend(a).record < d PROVE Todo("capture", a)'
          BY <1>1, <1>2, <2>1 DEF CaptureDone
        <4>1. BeforeStart(Dividend(a).record)
          <5>1. ASSUME NEW t \in Sessions PROVE ~(t <= Dividend(a).record)
            <6>1. t \in Nat /\ t >= d
              BY <1>1, <1>3, <2>4
            <6> QED
              BY <1>3, <2>2, <6>1
          <5> QED
            BY <5>1 DEF BeforeStart, SessionsTo
        <4>2. [stage |-> 0, id |-> a, op |-> "capture"] \in Morning(d)
          BY <1>7, <2>2, <2>4, <4>1 DEF Morning, Items
        <4> QED
          BY <1>1, <4>2 DEF Todo
      <3> QED
        BY <1>2, <2>3, <3>1, <3>2 DEF Noted
    <2>5. CASE day # 0
      <3>1. ~Todo("capture", a)'
        <4> SUFFICES ASSUME NEW x \in Morning(d), x.op = "capture" PROVE FALSE
          BY <1>1 DEF Todo
        <4>1. SessionsTo(d) = {d}
          BY DEF Morning
        <4> QED
          BY <1>6, <2>5, <4>1
      <3>2. CaptureDone(a)' <=> Dividend(a).record < d
        BY <1>1, <1>2, <2>1, <3>1 DEF CaptureDone
      <3>3. CaptureDone(a) <=> Dividend(a).record < day \/ SessionsTo(Dividend(a).record) = SessionsTo(day)
        BY <1>2, <2>3, <2>5 DEF CaptureDone
      <3>4. Dividend(a).record < d <=> Dividend(a).record < day \/ SessionsTo(Dividend(a).record) = SessionsTo(day)
        <4>1. ASSUME Dividend(a).record < d, Dividend(a).record >= day
              PROVE  SessionsTo(Dividend(a).record) = SessionsTo(day)
          <5>1. ASSUME NEW t \in Sessions PROVE t <= Dividend(a).record <=> t <= day
            <6>1. t \in Nat /\ (t > day => t >= d)
              BY <1>1, <1>3
            <6> QED
              BY <1>3, <2>2, <4>1, <6>1
          <5> QED
            BY <5>1 DEF SessionsTo
        <4>2. ASSUME Dividend(a).record >= d PROVE SessionsTo(Dividend(a).record) # SessionsTo(day)
          <5>1. d \in SessionsTo(Dividend(a).record) /\ d \notin SessionsTo(day)
            BY <1>1, <1>3, <2>2, <4>2 DEF SessionsTo
          <5> QED
            BY <5>1
        <4> QED
          BY <1>1, <1>3, <2>2, <4>1, <4>2
      <3> QED
        BY <1>2, <2>1, <2>3, <3>2, <3>3, <3>4 DEF Noted
    <2> QED
      BY <2>4, <2>5
  <1> QED
    BY <1>1, <1>2, <1>4, <1>5, <1>6, <1>8 DEF Captured, SessionsTo

\* A look at the holding.
LEMMA CaptureCaptured ==
  ASSUME IndInv, InOrder, Captured, NEW a \in ActionIds, Capture(a)
  PROVE  Captured'
  <1>1. Due("capture", a) /\ phase \in {"morning", "evening"} /\ Unfinished
    BY DEF Capture, Due, Unfinished
  <1>2. CASE Fail("action")
    BY <1>2 DEF Fail, Captured, Unfinished
  <1>3. CASE ~Fail("action")
    <2>1. PICK x \in agenda : x.op = "capture" /\ x.id = a
      BY <1>1 DEF Due
    <2>2. x \in Morning(day) \/ x \in Evening(day)
      BY <1>1, <2>1 DEF InOrder
    <2>3. a \in Loaded
      BY <2>1, <2>2 DEF Morning, Evening
    <2>4. /\ ClosesType /\ day \in Sessions
          /\ phase = "evening" => day \in DOMAIN closes /\ closes[day] = quantity
          /\ phase = "morning" /\ SessionsTo(day) = {day} => \A s \in Symbols : quantity[s] = 0
          /\ \A b \in Loaded : Noted(b)
      BY <1>1 DEF Captured
    <2>5. /\ entitled' = [entitled EXCEPT ![a] = IF @ = None THEN quantity[Dividend(a).symbol] ELSE @]
          /\ agenda' = {y \in agenda : y.op # "capture" \/ y.id # a}
          /\ ~((IF entitled[a] = None THEN quantity[Dividend(a).symbol] ELSE entitled[a]) > 0 /\ ~Valid(a))
          /\ UNCHANGED <<world, phase, day, closes, quantity>>
      BY <1>3 DEF Capture, CaptureEntitlement, Done, ghosts, positions
    <2>6. Todo("capture", a) /\ ~Todo("capture", a)'
      BY <2>1, <2>5 DEF Todo
    <2>7. entitled[a] = None
      BY <2>3, <2>4, <2>6 DEF Noted, CaptureDone
    <2>8. ASSUME NEW b \in Loaded, b # a PROVE Noted(b)'
      <3>1. Todo("capture", b)' = Todo("capture", b)
        BY <2>5, <2>8 DEF Todo
      <3>2. entitled'[b] = entitled[b] /\ Noted(b)
        BY <2>4, <2>5, <2>8 DEF Loaded, IndInv, Account, PortfolioType
      <3> QED
        BY <2>5, <3>1, <3>2, NotedSame
    <2>9. Noted(a)'
      <3>1. Dividend(a)' = Dividend(a) /\ Held(a)' = Held(a) /\ Valid(a)' = Valid(a)
        BY <2>5, WorldSame, HeldSame
      <3>2. quantity[Dividend(a).symbol] \in Nat /\ day \in Nat /\ day > 0
        <4>1. Dividend(a).symbol \in Symbols
          BY <2>3, LoadedType DEF IndInv
        <4>2. quantity \in [Symbols -> Nat]
          BY DEF IndInv, Account, PortfolioType
        <4>3. day \in Nat /\ day > 0
          BY <2>4, WorldAssumption DEF Days
        <4> QED
          BY <4>1, <4>2, <4>3
      <3>3. entitled'[a] = quantity[Dividend(a).symbol]
        BY <2>5, <2>7 DEF IndInv, Account, PortfolioType
      <3>4. Entitlement(a)' = quantity[Dividend(a).symbol]
        BY <3>2, <3>3, NoneAssumption DEF Entitlement
      <3>5. CASE phase = "morning"
        <4>1. x \in Morning(day)
          BY <2>1, <3>5 DEF InOrder
        <4>2. SessionsTo(Dividend(a).record) = {} /\ SessionsTo(day) = {day}
          BY <2>1, <4>1 DEF Morning, BeforeStart
        <4>3. quantity[Dividend(a).symbol] = 0 /\ Held(a) = 0
          BY <2>3, <2>4, <3>5, <4>2, LoadedType, NeverHeld DEF IndInv
        <4>4. Dividend(a).record < day
          <5>1. ~(day <= Dividend(a).record)
            BY <2>4, <4>2 DEF SessionsTo
          <5> QED
            BY <2>3, <3>2, <5>1, LoadedType DEF IndInv
        <4>5. CaptureDone(a)'
          BY <2>5, <2>6, <3>1, <4>4 DEF CaptureDone
        <4> QED
          BY <3>1, <3>4, <4>3, <4>5 DEF Noted
      <3>6. CASE phase = "evening"
        <4>1. x \in Evening(day)
          BY <2>1, <3>6 DEF InOrder
        <4>2. SessionsTo(Dividend(a).record) = SessionsTo(day) /\ day <= Dividend(a).record
          BY <2>1, <4>1 DEF Evening
        <4>3. CaptureDone(a)'
          <5>1. SessionsTo(day)' = SessionsTo(day) /\ SessionsTo(Dividend(a).record)' = SessionsTo(Dividend(a).record)
            BY <2>5, <3>1 DEF SessionsTo
          <5> QED
            BY <2>5, <2>6, <3>1, <3>2, <3>6, <4>2, <5>1 DEF CaptureDone
        <4>4. Held(a) = quantity[Dividend(a).symbol]
          <5> DEFINE before == {d \in DOMAIN closes : d <= Dividend(a).record}
                     last == CHOOSE d \in before : \A e \in before : e <= d
          <5>1. day \in before /\ \A d \in before : d <= day
            <6>1. ASSUME NEW d \in before PROVE d <= day
              <7>1. d \in SessionsTo(Dividend(a).record)
                BY <2>4 DEF ClosesType, SessionsTo
              <7> QED
                BY <4>2, <7>1 DEF SessionsTo
            <6> QED
              BY <2>4, <3>6, <4>2, <6>1
          <5>2. last = day
            <6>1. before \subseteq Nat
              BY <2>4, SessionDay DEF ClosesType
            <6>2. last \in before /\ \A e \in before : e <= last
              BY <5>1
            <6> HIDE DEF last, before
            <6>3. last <= day /\ day <= last /\ last \in Nat
              BY <5>1, <6>1, <6>2
            <6> QED
              BY <3>2, <6>3
          <5>3. before # {}
            BY <5>1
          <5>4. Held(a) = closes[last][Dividend(a).symbol]
            BY <5>3 DEF Held
          <5> QED
            BY <2>4, <3>6, <5>2, <5>4
        <4> QED
          BY <2>5, <2>7, <3>1, <3>4, <4>3, <4>4 DEF Noted
      <3> QED
        BY <1>1, <3>5, <3>6
    <2>10. Loaded' = Loaded /\ ClosesType' /\ SessionsTo(day)' = SessionsTo(day)
      BY <2>4, <2>5, WorldSame DEF ClosesType, SessionsTo
    <2> QED
      BY <1>1, <2>4, <2>5, <2>8, <2>9, <2>10 DEF Captured
  <1> QED
    BY <1>2, <1>3

\* On the first morning nobody holds anything, so nobody gets anything.
LEMMA FirstMorning ==
  ASSUME IndInv, Captured, phase = "morning", SessionsTo(day) = {day}, NEW a \in Loaded
  PROVE  Entitlement(a) = 0
  <1>1. ClosesType /\ Noted(a) /\ day \in Nat /\ day \in Sessions
    BY DayType DEF Captured, Unfinished, IndInv
  <1>2. CASE CaptureDone(a)
    <2>1. Dividend(a).record < day
      BY <1>2 DEF CaptureDone
    <2>2. SessionsTo(Dividend(a).record) = {}
      <3>1. ASSUME NEW t \in Sessions, t <= Dividend(a).record PROVE FALSE
        <4>1. t \in Nat /\ Dividend(a).record \in Nat
          BY SessionDay, LoadedType DEF IndInv
        <4>2. t < day
          BY <1>1, <2>1, <3>1, <4>1
        <4>3. t \in SessionsTo(day)
          BY <1>1, <4>1, <4>2 DEF SessionsTo
        <4> QED
          BY <1>1, <4>1, <4>2, <4>3
      <3> QED
        BY <3>1 DEF SessionsTo
    <2>3. Held(a) = 0
      BY <1>1, <2>2, NeverHeld
    <2> QED
      BY <1>1, <1>2, <2>3 DEF Noted
  <1>3. CASE ~CaptureDone(a)
    BY <1>1, <1>3 DEF Noted, Entitlement
  <1> QED
    BY <1>2, <1>3

\* The close of a session is no record of the days before it.
LEMMA HeldKept ==
  ASSUME Engine, ClosesType, day \in Nat, UNCHANGED world,
         closes' = [d \in DOMAIN closes \cup {day} |-> IF d = day THEN quantity ELSE closes[d]],
         NEW a \in Loaded, Dividend(a).record < day
  PROVE  Held(a)' = Held(a)
  <1> DEFINE before == {d \in DOMAIN closes : d <= Dividend(a).record}
             later == {d \in DOMAIN closes' : d <= Dividend(a).record}
  <1>1. Dividend(a).record \in Nat /\ ~(day <= Dividend(a).record) /\ Dividend(a)' = Dividend(a)
    BY LoadedType, WorldSame
  <1>2. later = before
    BY <1>1
  <1>3. \A d \in before : closes'[d] = closes[d]
    BY <1>1
  <1>4. Held(a)' = IF later = {} THEN 0 ELSE closes'[CHOOSE d \in later : \A e \in later : e <= d][Dividend(a).symbol]
    BY <1>1 DEF Held
  <1>5. Held(a) = IF before = {} THEN 0 ELSE closes[CHOOSE d \in before : \A e \in before : e <= d][Dividend(a).symbol]
    BY DEF Held
  <1>6. CASE before = {}
    BY <1>2, <1>4, <1>5, <1>6
  <1>7. CASE before # {}
    <2>1. \E d \in before : \A e \in before : e <= d
      BY <1>1, <1>7, LastBefore DEF ClosesType
    <2>2. (CHOOSE d \in before : \A e \in before : e <= d) \in before
      BY <2>1
    <2> HIDE DEF before, later
    <2> QED
      BY <1>2, <1>3, <1>4, <1>5, <1>7, <2>2
  <1> QED
    BY <1>6, <1>7

LEMMA EndSessionCaptured == ASSUME IndInv, OrdersInv, Captured, EndSession PROVE Captured'
  <1>1. /\ phase = "open" /\ phase' = "evening" /\ agenda = {} /\ agenda' = Evening(day)
        /\ closes' = [d \in DOMAIN closes \cup {day} |-> IF d = day THEN quantity ELSE closes[d]]
        /\ UNCHANGED <<world, day, quantity, entitled>>
    BY DEF EndSession, portfolio, positions, OrdersInv, AgendaOpen
  <1>2. ClosesType /\ day \in Sessions /\ \A a \in Loaded : Noted(a)
    BY <1>1 DEF Captured, Unfinished
  <1>3. /\ DOMAIN closes' = DOMAIN closes \cup {day}
        /\ \A d \in DOMAIN closes' : closes'[d] = IF d = day THEN quantity ELSE closes[d]
    BY <1>1
  <1>4. quantity \in [Symbols -> Nat] /\ day \in Nat /\ day > 0
    BY <1>2, WorldAssumption DEF IndInv, Account, PortfolioType, Days
  <1>5. ClosesType'
    BY <1>2, <1>3, <1>4 DEF ClosesType
  <1>6. \A a \in Loaded : Dividend(a).record < day => Held(a)' = Held(a)
    BY <1>1, <1>2, <1>4, HeldKept DEF IndInv
  <1>7. ASSUME NEW a \in Loaded PROVE Noted(a)'
    <2>1. Dividend(a)' = Dividend(a) /\ Valid(a)' = Valid(a) /\ Entitlement(a)' = Entitlement(a)
      BY <1>1, WorldSame DEF Entitlement
    <2>2. ~Todo("capture", a) /\ Dividend(a).record \in Nat /\ a \in ActionIds /\ Noted(a)
      BY <1>1, <1>2, LoadedType DEF Todo, IndInv
    <2>3. CaptureDone(a) <=> Dividend(a).record < day
      BY <1>1, <2>2 DEF CaptureDone
    <2>4. CASE Dividend(a).record < day
      <3>1. ~Todo("capture", a)'
        <4>1. \A x \in Evening(day) : day <= Dividend(x.id).record
          BY DEF Evening
        <4> QED
          BY <1>1, <1>4, <2>2, <2>4, <4>1 DEF Todo
      <3>2. CaptureDone(a)'
        BY <1>1, <2>1, <2>4, <3>1 DEF CaptureDone
      <3> QED
        BY <1>6, <2>1, <2>2, <2>3, <2>4, <3>2 DEF Noted
    <2>5. CASE ~(Dividend(a).record < day)
      <3>1. ~CaptureDone(a)'
        <4> SUFFICES ASSUME SessionsTo(Dividend(a).record) = SessionsTo(day) PROVE Todo("capture", a)'
          BY <1>1, <2>1, <2>5 DEF CaptureDone, SessionsTo
        <4>1. [stage |-> 0, id |-> a, op |-> "capture"] \in Evening(day)
          BY <1>4, <2>2, <2>5 DEF Evening, Items
        <4> QED
          BY <1>1, <4>1 DEF Todo
      <3> QED
        BY <1>1, <2>2, <2>3, <2>5, <3>1 DEF Noted
    <2> QED
      BY <2>4, <2>5
  <1>8. Loaded' = Loaded
    BY <1>1, WorldSame
  <1> QED
    BY <1>1, <1>2, <1>3, <1>5, <1>7, <1>8 DEF Captured

LEMMA FailCaptured == ASSUME NEW kind, Fail(kind) PROVE Captured'
  BY DEF Fail, Captured, Unfinished

\* What is done of the agenda, when it is no look at a holding.
LEMMA DoneCaptured ==
  ASSUME Captured, NEW a, NEW op, op # "capture", Due(op, a), Done(op, a), UNCHANGED <<quantity, entitled>>
  PROVE  Captured'
  <1>1. /\ agenda' = {x \in agenda : x.op # op \/ x.id # a}
        /\ phase \in {"morning", "evening"}
        /\ UNCHANGED <<world, phase, day, closes>>
    BY DEF Due, Done, ghosts
  <1>2. \A b \in Loaded : Todo("capture", b)' = Todo("capture", b)
    BY <1>1 DEF Todo
  <1> QED
    BY <1>1, <1>2, CapturedSame

LEMMA ConfirmStockCaptured ==
  ASSUME IndInv, InOrder, Captured, NEW a \in ActionIds, ConfirmStock(a)
  PROVE  Captured'
  <1>1. CASE Fail("action") \/ Fail("account")
    BY <1>1, FailCaptured
  <1>2. CASE Done("stock", a) /\ UNCHANGED <<portfolio, broker>>
    BY <1>2, DoneCaptured DEF ConfirmStock, portfolio, positions
  <1>3. CASE /\ Entitlement(a) # 0 /\ Done("stock", a)
             /\ AddStockDividend(a, Dividend(a).symbol, Entitlement(a), Dividend(a).stock)
    <2>1. /\ agenda' = {x \in agenda : x.op # "stock" \/ x.id # a}
          /\ UNCHANGED <<world, phase, day, closes, entitled>>
      BY <1>3 DEF AddStockDividend, Done, ghosts
    <2>2. PICK x \in agenda : x.op = "stock" /\ x.id = a
      BY DEF ConfirmStock, Due
    <2>3. phase = "morning" /\ x \in Morning(day)
      BY <2>2 DEF ConfirmStock, Due, InOrder, Evening
    <2>4. a \in Loaded
      BY <2>2, <2>3 DEF Morning
    <2>5. SessionsTo(day) # {day}
      BY <1>3, <2>3, <2>4, FirstMorning
    <2>6. \A b \in Loaded : Todo("capture", b)' = Todo("capture", b)
      BY <2>1 DEF Todo
    <2> QED
      BY <2>1, <2>3, <2>5, <2>6, CapturedSame
  <1> QED
    BY <1>1, <1>2, <1>3 DEF ConfirmStock

LEMMA MorningOrEveningCaptured ==
  ASSUME IndInv, InOrder, Captured, MorningOrEvening
  PROVE  Captured'
  <1> PICK a \in ActionIds :
        Capture(a) \/ CancelOnEx(a) \/ ConfirmCash(a) \/ ConfirmStock(a) \/ Settle(a) \/ List(a)
    BY DEF MorningOrEvening
  <1>1. CASE CancelOnEx(a)
    BY <1>1, DoneCaptured DEF CancelOnEx, portfolio, positions
  <1>2. CASE ConfirmCash(a)
    BY <1>2, FailCaptured, DoneCaptured DEF ConfirmCash, RecognizeDividend, portfolio, positions
  <1>3. CASE Settle(a)
    BY <1>3, DoneCaptured DEF Settle, SettleDividend, positions
  <1>4. CASE List(a)
    BY <1>4, FailCaptured, DoneCaptured DEF List, ListStockDividend, portfolio, positions
  <1> QED
    BY <1>1, <1>2, <1>3, <1>4, CaptureCaptured, ConfirmStockCaptured

\* The other steps.
LEMMA QuietCaptured ==
  ASSUME IndInv, Captured, [Next]_vars, ~StartSession, ~MorningOrEvening, ~EndSession
  PROVE  Captured'
  <1>1. CASE UNCHANGED vars
    BY <1>1, CapturedSame DEF vars, Todo
  <1>2. CASE CheckLifecycles
    BY <1>2, FailCaptured, CapturedSame DEF CheckLifecycles, WriteOff, ghosts, Todo
  <1>3. CASE MarketEvent \/ Matched
    BY <1>3, CapturedSame DEF MarketEvent, Matched, portfolio, ghosts, Todo
  <1>4. CASE Match
    BY <1>4, CapturedSame DEF Match, portfolio, engine, ghosts, Todo
  <1>5. CASE Fill
    BY <1>5, FailCaptured, CapturedSame DEF Fill, ApplyFill, ApplyBuy, ApplySell, engine, Todo
  <1>6. CASE Mark
    BY <1>6, FailCaptured, CapturedSame DEF Mark, MarkToMarket, positions, Todo
  <1>7. CASE Strategy
    BY <1>7, CapturedSame DEF Strategy, OrderShares, Cancel, Rebalance, OrderGap, EndOrdering, Calling, portfolio, ghosts, Todo
  <1>8. CASE CloseSession
    BY <1>8, CapturedSame DEF CloseSession, portfolio, positions, ghosts, Todo
  <1>9. CASE FinishRun
    BY <1>9 DEF FinishRun, Captured, Unfinished
  <1> QED
    BY <1>1, <1>2, <1>3, <1>4, <1>5, <1>6, <1>7, <1>8, <1>9 DEF Next, Ended

LEMMA NextCaptured == IndInv /\ OrdersInv /\ InOrder /\ Captured /\ [Next]_vars => Captured'
  BY StartSessionCaptured, MorningOrEveningCaptured, EndSessionCaptured, QuietCaptured

LEMMA InitCaptured == Init => Captured /\ InOrder
  <1> SUFFICES ASSUME Init PROVE Captured /\ InOrder
    OBVIOUS
  <1>1. /\ phase = "closed" /\ day = 0 /\ agenda = {} /\ closes = [d \in {} |-> 0] /\ Engine
        /\ quantity = [s \in Symbols |-> 0] /\ entitled = [a \in ActionIds |-> None]
    BY InitInv DEF Init, PortfolioInit, IndInv
  <1>2. ClosesType
    BY <1>1 DEF ClosesType
  <1>3. ASSUME NEW a \in Loaded PROVE Noted(a)
    <2>1. Dividend(a).record \in Nat /\ Dividend(a).record > 0 /\ a \in ActionIds
      BY <1>1, LoadedType
    <2> QED
      BY <1>1, <2>1 DEF Noted, CaptureDone
  <1> QED
    BY <1>1, <1>2, <1>3 DEF Captured, InOrder
-----------------------------------------------------------------------------
(* Fills that are not applied yet, and symbols that are delisted. *)

\* The fills that the account has.
Applied == IF phase = "filling" THEN Len(fills) - Len(made) ELSE Len(fills)

\* Those that it does not have yet are the last.
FillsLeft ==
  phase = "filling" =>
    /\ Len(made) <= Len(fills)
    /\ \A j \in 1 .. Len(made) : fills[Len(fills) - Len(made) + j] = made[j]

\* A delisted symbol is not held, has no bar and does not trade.
Gone ==
  /\ phase \in {"open", "ordering", "matching", "filling"} => \A s \in Delisted : quantity[s] = 0
  /\ \A k \in DOMAIN made : made[k].symbol \notin Delisted
  /\ phase = "matching" => \A s \in Delisted : bars[s] = NoBar

LEMMA DelistedSame == ASSUME UNCHANGED <<world, day>> PROVE Delisted' = Delisted
  BY DEF Delisted

LEMMA GoneSame ==
  ASSUME Gone, UNCHANGED <<world, day>>, made' = made \/ made' = <<>>, phase' # "matching",
         phase' \in {"open", "ordering", "matching", "filling"} =>
           phase \in {"open", "ordering", "matching", "filling"} /\ UNCHANGED quantity
  PROVE  Gone'
  <1>1. Delisted' = Delisted
    BY DelistedSame
  <1> QED
    BY <1>1 DEF Gone

LEMMA FailGone == ASSUME Gone, FillsLeft, NEW kind, Fail(kind) PROVE Gone' /\ FillsLeft'
  BY GoneSame DEF Fail, FillsLeft, broker

LEMMA CheckLifecyclesGone == ASSUME IndInv, RunningInv, Gone, FillsLeft, CheckLifecycles PROVE Gone' /\ FillsLeft'
  <1> DEFINE gone == Managed \cap Delisted
  <1>1. CASE Fail("delisted")
    BY <1>1, FailGone
  <1>2. CASE WriteOff(gone) /\ phase' = "open" /\ UNCHANGED <<world, day, made>>
    <2>1. Delisted' = Delisted /\ phase = "morning"
      BY <1>2, DelistedSame DEF CheckLifecycles
    <2>2. ASSUME NEW s \in Delisted PROVE quantity'[s] = 0
      <3>1. s \in Symbols /\ quantity[s] \in Nat
        BY DEF Delisted, IndInv, Account, PortfolioType
      <3>2. quantity'[s] = IF s \in gone THEN 0 ELSE quantity[s]
        BY <1>2, <3>1 DEF WriteOff, Zeroed
      <3>3. s \notin gone => quantity[s] = 0
        BY <3>1 DEF Managed
      <3> QED
        BY <3>2, <3>3
    <2> QED
      BY <1>2, <2>1, <2>2 DEF Gone, FillsLeft
  <1> QED
    BY <1>1, <1>2 DEF CheckLifecycles, CancelSymbols, CancelOrders, matching

LEMMA MatchGone == ASSUME IndInv, RunningInv, Gone, FillsLeft, Match PROVE Gone' /\ FillsLeft'
  <1>1. PICK i \in batch : TryOrder(i, bars, day)
    BY DEF Match
  <1> DEFINE o == orders[i]
             bar == bars[o.symbol]
  <1>2. i \in DOMAIN orders /\ o \in OrderType /\ made \in Seq(FillType)
    BY DEF IndInv, Books
  <1>3. PICK q \in 0 .. o.quantity :
          /\ Executes(o, q, bar, runCash, runSellable[o.symbol])
          /\ made' = IF q = 0 THEN made ELSE Append(made, FillOf(i, q, bar, day))
    BY <1>1 DEF TryOrder
  <1>4. phase = "matching" /\ UNCHANGED <<phase, world, day, quantity, bars>>
    BY DEF Match, engine, portfolio, positions
  <1>5. Delisted' = Delisted
    BY <1>4, DelistedSame
  <1>6. ASSUME q # 0 PROVE o.symbol \notin Delisted
    <2>1. SUFFICES ASSUME o.symbol \in Delisted PROVE FALSE
      OBVIOUS
    <2>2. bar = NoBar
      BY <1>4, <2>1 DEF Gone
    <2>3. ~Tradable(o.side, bar)
      BY <2>2 DEF Tradable, NoBar
    <2> QED
      BY <1>3, <1>6, <2>3 DEF Executes
  <1>7. ASSUME NEW k \in DOMAIN made' PROVE made'[k].symbol \notin Delisted
    <2>1. CASE q = 0
      BY <1>3, <2>1 DEF Gone
    <2>2. CASE q # 0
      <3>1. made' = Append(made, FillOf(i, q, bar, day)) /\ FillOf(i, q, bar, day).symbol = o.symbol
        BY <1>3, <2>2 DEF FillOf
      <3>2. (k \in DOMAIN made /\ made'[k] = made[k]) \/ made'[k] = FillOf(i, q, bar, day)
        BY <1>2, <1>7, <3>1
      <3> QED
        BY <1>6, <2>2, <3>1, <3>2 DEF Gone
    <2> QED
      BY <2>1, <2>2
  <1> QED
    BY <1>4, <1>5, <1>7 DEF Gone, FillsLeft

LEMMA MatchedGone == ASSUME IndInv, OrdersInv, Gone, Matched PROVE Gone' /\ FillsLeft'
  <1>1. /\ phase = "matching" /\ phase' = "filling" /\ fills' = fills \o made
        /\ UNCHANGED <<made, world, day, quantity>>
    BY DEF Matched, EndMatching, portfolio, positions
  <1>2. made \in Seq(FillType) /\ fills \in Seq(FillType)
    BY DEF IndInv, Books, OrdersInv
  <1>3. /\ Len(made) <= Len(fills')
        /\ \A j \in 1 .. Len(made) : fills'[Len(fills') - Len(made) + j] = made[j]
    BY <1>1, <1>2
  <1> QED
    BY <1>1, <1>3, GoneSame DEF FillsLeft

LEMMA FillGone == ASSUME IndInv, OrdersInv, RunningInv, Gone, FillsLeft, Fill PROVE Gone' /\ FillsLeft'
  <1>1. CASE Fail("account")
    BY <1>1, FailGone
  <1>2. CASE ApplyFill(Head(made)) /\ made' = Tail(made) /\ UNCHANGED <<fills, phase, world, day>>
    <2> DEFINE fill == Head(made)
    <2>1. /\ made \in Seq(FillType) /\ made # <<>> /\ fill = made[1] /\ Len(made) \in Nat \ {0}
          /\ Len(made') = Len(made) - 1 /\ \A k \in 1 .. Len(made) - 1 : made'[k] = made[k + 1]
          /\ DOMAIN made' = 1 .. Len(made) - 1 /\ DOMAIN made = 1 .. Len(made)
          /\ fills \in Seq(FillType) /\ Len(fills) \in Nat /\ phase = "filling"
      BY <1>2 DEF IndInv, Books, Fill, OrdersInv
    <2>2. Delisted' = Delisted
      BY <1>2, DelistedSame
    <2>3. fill.symbol \notin Delisted
      BY <2>1 DEF Gone
    <2> HIDE DEF fill
    <2>4. ASSUME NEW s \in Delisted PROVE quantity'[s] = 0
      <3>1. s # fill.symbol /\ s \in Symbols /\ quantity[s] = 0 /\ quantity \in [Symbols -> Nat]
        BY <2>1, <2>3 DEF Gone, Delisted, IndInv, Account, PortfolioType
      <3>2. quantity'[s] = quantity[s]
        BY <1>2, <3>1 DEF ApplyFill, ApplyBuy, ApplySell, fill
      <3> QED
        BY <3>1, <3>2
    <2>5. FillsLeft'
      <3>1. Len(made) <= Len(fills) /\ \A j \in 1 .. Len(made) : fills[Len(fills) - Len(made) + j] = made[j]
        BY <2>1 DEF FillsLeft
      <3>2. ASSUME NEW j \in 1 .. Len(made) - 1 PROVE fills[Len(fills) - (Len(made) - 1) + j] = made[j + 1]
        <4>1. Len(fills) - (Len(made) - 1) + j = Len(fills) - Len(made) + (j + 1) /\ j + 1 \in 1 .. Len(made)
          BY <2>1
        <4> QED
          BY <3>1, <4>1
      <3> QED
        BY <1>2, <2>1, <3>1, <3>2 DEF FillsLeft
    <2>6. \A k \in DOMAIN made' : made'[k].symbol \notin Delisted
      <3> SUFFICES ASSUME NEW k \in 1 .. Len(made) - 1 PROVE made[k + 1].symbol \notin Delisted
        BY <2>1
      <3>1. k + 1 \in DOMAIN made
        BY <2>1
      <3> QED
        BY <3>1 DEF Gone
    <2> QED
      BY <1>2, <2>1, <2>2, <2>4, <2>5, <2>6 DEF Gone
  <1> QED
    BY <1>1, <1>2 DEF Fill, engine

LEMMA MarketEventGone == ASSUME IndInv, RunningInv, Gone, MarketEvent PROVE Gone' /\ FillsLeft'
  <1>1. /\ phase = "open" /\ phase' \in {"filling", "matching"} /\ made' = <<>>
        /\ \A s \in Delisted : bars'[s] = NoBar
        /\ UNCHANGED <<world, day, quantity>>
    BY DEF MarketEvent, TakeOrders, RunningInv, portfolio, positions, broker
  <1>2. fills' = fills
    BY DEF MarketEvent, TakeOrders, broker
  <1>3. Delisted' = Delisted
    BY <1>1, DelistedSame
  <1>4. FillsLeft'
    <2> SUFFICES ASSUME phase' = "filling" PROVE FillsLeft'
      BY DEF FillsLeft
    <2>1. Len(made') = 0
      BY <1>1
    <2> QED
      BY <2>1 DEF FillsLeft
  <1> QED
    BY <1>1, <1>3, <1>4 DEF Gone

LEMMA OtherGone ==
  ASSUME IndInv, RunningInv, Gone, FillsLeft,
         \/ StartSession \/ MorningOrEvening \/ Mark \/ Strategy
         \/ EndSession \/ CloseSession \/ FinishRun \/ UNCHANGED vars
  PROVE  Gone' /\ FillsLeft'
  <1>1. ASSUME made' = <<>>, phase' \notin {"open", "ordering", "matching", "filling"} PROVE Gone' /\ FillsLeft'
    BY <1>1 DEF Gone, FillsLeft
  <1>2. CASE StartSession
    BY <1>1, <1>2 DEF StartSession, RunningInv, broker
  <1>3. CASE MorningOrEvening
    <2> PICK a \in ActionIds :
          Capture(a) \/ CancelOnEx(a) \/ ConfirmCash(a) \/ ConfirmStock(a) \/ Settle(a) \/ List(a)
      BY <1>3 DEF MorningOrEvening
    <2>1. phase \in {"morning", "evening"}
      BY DEF Capture, CancelOnEx, ConfirmCash, ConfirmStock, Settle, List, Due
    <2>2. \/ Fail("action") \/ Fail("account")
          \/ phase' = phase /\ made' = made
      BY DEF Capture, CancelOnEx, CancelSymbols, CancelOrders, ConfirmCash, ConfirmStock, Settle, List,
             Done, broker, matching
    <2> QED
      BY <1>1, <2>1, <2>2, FailGone DEF RunningInv
  <1>4. CASE Mark
    <2>1. CASE Fail("data")
      BY <2>1, FailGone
    <2>2. CASE ~Fail("data")
      <3>1. phase = "filling" /\ phase' = "open" /\ UNCHANGED <<world, day, made, quantity>>
        BY <1>4, <2>2 DEF Mark, MarkToMarket, positions, broker
      <3> QED
        BY <3>1, GoneSame DEF FillsLeft
    <2> QED
      BY <2>1, <2>2
  <1>5. CASE Strategy
    <2>1. /\ phase \in {"open", "ordering"} /\ phase' \in {"open", "ordering"} /\ UNCHANGED <<world, day, made, quantity>>
      BY <1>5 DEF Strategy, OrderShares, Cancel, Rebalance, OrderGap, EndOrdering, Calling, Submit, CancelOrders,
                  broker, matching, portfolio, positions
    <2> QED
      BY <2>1, GoneSame DEF FillsLeft
  <1>6. CASE EndSession \/ CloseSession
    BY <1>1, <1>6 DEF EndSession, CloseSession, RunningInv, broker
  <1>7. CASE FinishRun
    BY <1>1, <1>7 DEF FinishRun, ExpireAll, matching, RunningInv
  <1>8. CASE UNCHANGED vars
    BY <1>8 DEF vars, Gone, Delisted, FillsLeft
  <1> QED
    BY <1>2, <1>3, <1>4, <1>5, <1>6, <1>7, <1>8

LEMMA NextGone == IndInv /\ OrdersInv /\ RunningInv /\ Gone /\ FillsLeft /\ [Next]_vars => Gone' /\ FillsLeft'
  BY CheckLifecyclesGone, MatchGone, MatchedGone, FillGone, MarketEventGone, OtherGone DEF Next, Ended

LEMMA InitGone == Init => Gone /\ FillsLeft
  BY DEF Init, BrokerInit, Gone, FillsLeft

\* The fills that the account has are a part of all fills.
LEMMA AppliedType ==
  ASSUME OrdersInv, IndInv, FillsLeft
  PROVE  /\ Applied \in Nat /\ Applied <= Len(fills) /\ Len(fills) \in Nat
         /\ \A i \in 1 .. Applied : fills[i] \in FillType
  <1>1. fills \in Seq(FillType) /\ made \in Seq(FillType)
    BY DEF OrdersInv, IndInv, Books
  <1>2. Applied \in Nat /\ Applied <= Len(fills)
    BY <1>1 DEF Applied, FillsLeft
  <1> QED
    BY <1>1, <1>2
-----------------------------------------------------------------------------
(* What has been given and paid. *)

\* The dividend shares of a are held; they are not listed; its cash is owed; it is paid.
StockGiven(a) == Held(a) > 0 /\ Dividend(a).stock > 0 /\ Since(a, StockDay(a)) /\ ~Todo("stock", a)
Unlisted(a) == StockGiven(a) /\ ~(Since(a, Dividend(a).list) /\ ~Todo("list", a))
CashGiven(a) == Held(a) > 0 /\ Dividend(a).cash > 0 /\ Since(a, CashDay(a)) /\ ~Todo("cash", a)
CashPaid(a) == Held(a) > 0 /\ Dividend(a).cash > 0 /\ Since(a, Dividend(a).pay) /\ ~Todo("settle", a)

\* The summands of the shares and of the cash.
FillsOf(s) == [i \in 1 .. Applied |-> IF fills[i].symbol = s THEN Bought(i) ELSE 0]
StockOf(s) == [a \in Loaded |-> IF StockGiven(a) /\ Dividend(a).symbol = s THEN Shares(a) ELSE 0]
UnlistedOf(s) == [a \in Loaded |-> IF Unlisted(a) /\ Dividend(a).symbol = s THEN Shares(a) ELSE 0]
Flows == [i \in 1 .. Applied |-> Flow(fills[i])]
Paid == [a \in Loaded |-> IF CashPaid(a) THEN Held(a) * Dividend(a).cash ELSE 0]

Owed(a) == receivable[a] = IF CashGiven(a) /\ ~CashPaid(a) THEN Held(a) * Dividend(a).cash ELSE None
Coming(a) ==
  /\ pendingStock[a] # None => pendingStock[a].symbol = Dividend(a).symbol
  /\ Dividend(a).symbol \notin Delisted =>
       pendingStock[a] = IF Unlisted(a) THEN [symbol |-> Dividend(a).symbol, quantity |-> Shares(a)] ELSE None
SharesKnown(s) ==
  /\ quantity[s] = Total(FillsOf(s), 1 .. Applied) + Total(StockOf(s), Loaded)
  /\ listing[s] = Total(UnlistedOf(s), Loaded)
CashKnown == cash = InitialCash + Total(Flows, 1 .. Applied) + Total(Paid, Loaded)

Known ==
  Unfinished =>
    /\ \A a \in Loaded : Owed(a) /\ Coming(a)
    /\ \A s \in Symbols : s \notin Delisted => SharesKnown(s)
    /\ CashKnown

LEMMA SharesType == ASSUME Engine, ClosesType, NEW a \in Loaded PROVE Shares(a) \in Nat
  <1>1. Held(a) \in Nat /\ Dividend(a).stock \in Nat
    BY HeldType, LoadedType
  <1>2. Held(a) * Dividend(a).stock \in Nat
    BY <1>1, Product
  <1> QED
    BY <1>2, CashAssumption, QuotientType DEF Shares, StockDividend

LEMMA FlowType == ASSUME NEW f \in FillType PROVE Flow(f) \in Int
  BY DEF FillType, Flow, Cost, Proceeds

LEMMA LoadedFinite == IsFiniteSet(Loaded)
  <1>1. Loaded \subseteq ActionIds
    BY DEF Loaded
  <1> QED
    BY <1>1, ActionsAssumption, FS_Subset

\* Every summand is a number.
LEMMA Summands ==
  ASSUME IndInv, OrdersInv, FillsLeft, ClosesType
  PROVE  /\ \A s : \A a \in Loaded : StockOf(s)[a] \in Nat /\ UnlistedOf(s)[a] \in Nat
         /\ \A a \in Loaded : Paid[a] \in Nat
         /\ \A s : \A i \in 1 .. Applied : FillsOf(s)[i] \in Int
         /\ \A i \in 1 .. Applied : Flows[i] \in Int
  <1>1. \A a \in Loaded : Shares(a) \in Nat /\ Held(a) \in Nat /\ Dividend(a).cash \in Nat
    BY SharesType, HeldType, LoadedType DEF IndInv
  <1>2. \A a \in Loaded : Held(a) * Dividend(a).cash \in Nat
    BY <1>1, Product
  <1>3. \A i \in 1 .. Applied : fills[i] \in FillType
    BY AppliedType
  <1>4. \A i \in 1 .. Applied : Bought(i) \in Int
    BY <1>3 DEF Bought, FillType
  <1>5. \A i \in 1 .. Applied : Flow(fills[i]) \in Int
    BY <1>3, FlowType
  <1> QED
    BY <1>1, <1>2, <1>4, <1>5 DEF StockOf, UnlistedOf, Paid, FillsOf, Flows

\* A step that changes nothing of the account and nothing that has been given or paid.
LEMMA KnownSame ==
  ASSUME Known, UNCHANGED <<world, cash, quantity, listing, receivable, pendingStock>>,
         Applied' = Applied, \A i \in 1 .. Applied : fills'[i] = fills[i],
         \A a \in Loaded :
           /\ StockGiven(a)' <=> StockGiven(a)
           /\ Unlisted(a)' <=> Unlisted(a)
           /\ CashGiven(a)' <=> CashGiven(a)
           /\ CashPaid(a)' <=> CashPaid(a)
           /\ StockGiven(a) \/ CashGiven(a) \/ CashPaid(a) => Held(a)' = Held(a),
         Delisted \subseteq Delisted', phase \in {"failed", "finished"} => phase' \in {"failed", "finished"}
  PROVE  Known'
  <1> SUFFICES ASSUME Unfinished' PROVE Known'
    BY DEF Known
  <1>1. Loaded' = Loaded /\ \A a : Dividend(a)' = Dividend(a)
    BY WorldSame
  <1>2. Unfinished
    BY DEF Unfinished
  <1>3. \A a \in Loaded : StockGiven(a) => Shares(a)' = Shares(a)
    BY <1>1 DEF Shares
  <1>4. \A s : StockOf(s)' = StockOf(s)
    BY <1>1, <1>3 DEF StockOf
  <1>5. \A s : UnlistedOf(s)' = UnlistedOf(s)
    BY <1>1, <1>3 DEF UnlistedOf, Unlisted
  <1>6. Paid' = Paid
    BY <1>1 DEF Paid
  <1>7. \A s : FillsOf(s)' = FillsOf(s)
    BY DEF FillsOf, Bought
  <1>8. Flows' = Flows
    BY DEF Flows, Flow, Cost, Proceeds
  <1>9. ASSUME NEW a \in Loaded PROVE Owed(a)' /\ Coming(a)'
    <2>1. Owed(a) /\ Coming(a)
      BY <1>2 DEF Known
    <2>2. Owed(a)'
      BY <1>1, <2>1 DEF Owed
    <2>3. Coming(a)'
      BY <1>1, <1>3, <2>1 DEF Coming, Unlisted
    <2> QED
      BY <2>2, <2>3
  <1>10. ASSUME NEW s \in Symbols, s \notin Delisted' PROVE SharesKnown(s)'
    <2>1. SharesKnown(s)
      BY <1>2, <1>10 DEF Known
    <2> QED
      BY <1>1, <1>4, <1>5, <1>7, <2>1 DEF SharesKnown
  <1>11. CashKnown'
    <2>1. CashKnown
      BY <1>2 DEF Known
    <2> QED
      BY <1>1, <1>6, <1>8, <2>1 DEF CashKnown
  <1> QED
    BY <1>1, <1>9, <1>10, <1>11 DEF Known

Bookings == {"stock", "list", "cash", "settle"}

\* With the day, the closes and the bookings on the agenda, all of it stays.
LEMMA GivenSame ==
  ASSUME UNCHANGED <<world, day, closes>>, NEW a \in Loaded
  PROVE  /\ Dividend(a)' = Dividend(a) /\ Held(a)' = Held(a) /\ Shares(a)' = Shares(a)
         /\ (Todo("stock", a)' <=> Todo("stock", a)) => (StockGiven(a)' <=> StockGiven(a))
         /\ (Todo("stock", a)' <=> Todo("stock", a)) /\ (Todo("list", a)' <=> Todo("list", a))
              => (Unlisted(a)' <=> Unlisted(a))
         /\ (Todo("cash", a)' <=> Todo("cash", a)) => (CashGiven(a)' <=> CashGiven(a))
         /\ (Todo("settle", a)' <=> Todo("settle", a)) => (CashPaid(a)' <=> CashPaid(a))
  <1>1. Dividend(a)' = Dividend(a) /\ Held(a)' = Held(a)
    BY WorldSame, HeldSame
  <1>2. Shares(a)' = Shares(a)
    BY <1>1 DEF Shares
  <1>3. StockDay(a)' = StockDay(a) /\ CashDay(a)' = CashDay(a)
    BY <1>1 DEF StockDay, CashDay
  <1>4. \A d : Since(a, d)' = Since(a, d)
    BY <1>1 DEF Since
  <1>5. Since(a, StockDay(a))' = Since(a, StockDay(a)) /\ Since(a, CashDay(a))' = Since(a, CashDay(a))
        /\ Since(a, Dividend(a).list)' = Since(a, Dividend(a).list) /\ Since(a, Dividend(a).pay)' = Since(a, Dividend(a).pay)
    BY <1>1, <1>3 DEF Since
  <1>6. (Todo("stock", a)' <=> Todo("stock", a)) => (StockGiven(a)' <=> StockGiven(a))
    BY <1>1, <1>5 DEF StockGiven
  <1>7. (Todo("stock", a)' <=> Todo("stock", a)) /\ (Todo("list", a)' <=> Todo("list", a))
              => (Unlisted(a)' <=> Unlisted(a))
    BY <1>5, <1>6 DEF Unlisted
  <1>8. (Todo("cash", a)' <=> Todo("cash", a)) => (CashGiven(a)' <=> CashGiven(a))
    BY <1>1, <1>5 DEF CashGiven
  <1>9. (Todo("settle", a)' <=> Todo("settle", a)) => (CashPaid(a)' <=> CashPaid(a))
    BY <1>1, <1>5 DEF CashPaid
  <1> QED
    BY <1>1, <1>2, <1>6, <1>7, <1>8, <1>9

\* A step that leaves the account and the bookings alone.
LEMMA QuietKnown ==
  ASSUME Known, UNCHANGED <<world, day, closes, cash, quantity, listing, receivable, pendingStock>>,
         Applied' = Applied, \A i \in 1 .. Applied : fills'[i] = fills[i],
         \A a \in Loaded, op \in Bookings : Todo(op, a)' <=> Todo(op, a),
         phase \in {"failed", "finished"} => phase' \in {"failed", "finished"}
  PROVE  Known'
  <1>1. Delisted' = Delisted
    BY DelistedSame
  <1>2. ASSUME NEW a \in Loaded
        PROVE /\ StockGiven(a)' <=> StockGiven(a)
              /\ Unlisted(a)' <=> Unlisted(a)
              /\ CashGiven(a)' <=> CashGiven(a)
              /\ CashPaid(a)' <=> CashPaid(a)
              /\ Held(a)' = Held(a)
    <2>1. /\ Todo("stock", a)' <=> Todo("stock", a)
          /\ Todo("list", a)' <=> Todo("list", a)
          /\ Todo("cash", a)' <=> Todo("cash", a)
          /\ Todo("settle", a)' <=> Todo("settle", a)
      BY DEF Bookings
    <2> QED
      BY <2>1, GivenSame
  <1> QED
    BY <1>1, <1>2, KnownSame

LEMMA FailKnown == ASSUME NEW kind, Fail(kind) PROVE Known'
  BY DEF Fail, Known, Unfinished

\* What is done of the agenda, when it is no booking.
LEMMA DoneKnown ==
  ASSUME Known, NEW a, NEW op, op \notin Bookings, Due(op, a), Done(op, a),
         UNCHANGED <<cash, quantity, listing, receivable, pendingStock, fills, made>>
  PROVE  Known'
  <1>1. /\ agenda' = {x \in agenda : x.op # op \/ x.id # a}
        /\ UNCHANGED <<world, phase, day, closes>>
    BY DEF Done, ghosts
  <1>2. \A b \in Loaded, o \in Bookings : Todo(o, b)' <=> Todo(o, b)
    BY <1>1 DEF Todo
  <1>3. Applied' = Applied
    BY <1>1 DEF Applied
  <1> QED
    BY <1>1, <1>2, <1>3, QuietKnown

\* Steps that touch neither the agenda nor the account.
LEMMA ElsewhereKnown ==
  ASSUME IndInv, OrdersInv, RunningInv, FillsLeft, Known,
         MarketEvent \/ Match \/ Matched \/ Mark \/ Strategy \/ CloseSession \/ FinishRun \/ UNCHANGED vars
  PROVE  Known'
  <1>1. ASSUME UNCHANGED <<agenda, world, day, closes, cash, quantity, listing, receivable, pendingStock>>,
               Applied' = Applied, \A i \in 1 .. Applied : fills'[i] = fills[i],
               phase \in {"failed", "finished"} => phase' \in {"failed", "finished"}
        PROVE  Known'
    BY <1>1, QuietKnown DEF Todo
  <1>2. fills \in Seq(FillType) /\ made \in Seq(FillType)
    BY DEF OrdersInv, IndInv, Books
  <1>3. CASE MarketEvent
    <2>1. /\ phase = "open" /\ phase' \in {"filling", "matching"} /\ made' = <<>> /\ fills' = fills
          /\ UNCHANGED <<agenda, world, day, closes, cash, quantity, listing, receivable, pendingStock>>
      BY <1>3 DEF MarketEvent, TakeOrders, RunningInv, portfolio, positions, broker, ghosts
    <2>2. Applied' = Applied
      BY <1>2, <2>1 DEF Applied
    <2> QED
      BY <1>1, <2>1, <2>2
  <1>4. CASE Match
    <2>1. /\ phase = "matching" /\ fills' = fills
          /\ UNCHANGED <<phase, agenda, world, day, closes, cash, quantity, listing, receivable, pendingStock>>
      BY <1>4 DEF Match, TryOrder, portfolio, positions, engine, ghosts
    <2>2. Applied' = Applied
      BY <2>1 DEF Applied
    <2> QED
      BY <1>1, <2>1, <2>2
  <1>5. CASE Matched
    <2>1. /\ phase = "matching" /\ phase' = "filling" /\ fills' = fills \o made /\ made' = made
          /\ UNCHANGED <<agenda, world, day, closes, cash, quantity, listing, receivable, pendingStock>>
      BY <1>5 DEF Matched, EndMatching, portfolio, positions, ghosts
    <2>2. Applied' = Applied /\ Applied = Len(fills)
      BY <1>2, <2>1 DEF Applied
    <2>3. \A i \in 1 .. Applied : fills'[i] = fills[i]
      BY <1>2, <2>1, <2>2
    <2> QED
      BY <1>1, <2>1, <2>2, <2>3
  <1>6. CASE Mark
    <2>1. CASE Fail("data")
      BY <2>1, FailKnown
    <2>2. CASE ~Fail("data")
      <3>1. /\ phase = "filling" /\ made = <<>> /\ phase' = "open" /\ UNCHANGED <<fills, made>>
            /\ UNCHANGED <<agenda, world, day, closes, cash, quantity, listing, receivable, pendingStock>>
        BY <1>6, <2>2 DEF Mark, MarkToMarket, positions, broker
      <3>2. Applied' = Applied
        BY <1>2, <3>1 DEF Applied
      <3> QED
        BY <1>1, <3>1, <3>2
    <2> QED
      BY <2>1, <2>2
  <1>7. CASE Strategy
    <2>1. /\ phase \in {"open", "ordering"} /\ phase' \in {"open", "ordering"} /\ UNCHANGED fills
          /\ UNCHANGED <<agenda, world, day, closes, cash, quantity, listing, receivable, pendingStock>>
      BY <1>7 DEF Strategy, OrderShares, Cancel, Rebalance, OrderGap, EndOrdering, Calling, Submit, CancelOrders,
                  broker, matching, portfolio, positions, ghosts
    <2>2. Applied' = Applied
      BY <2>1 DEF Applied
    <2> QED
      BY <1>1, <2>1, <2>2
  <1>8. CASE CloseSession
    <2>1. /\ phase = "evening" /\ phase' = "closed" /\ UNCHANGED fills
          /\ UNCHANGED <<agenda, world, day, closes, cash, quantity, listing, receivable, pendingStock>>
      BY <1>8 DEF CloseSession, broker, portfolio, positions, ghosts
    <2>2. Applied' = Applied
      BY <2>1 DEF Applied
    <2> QED
      BY <1>1, <2>1, <2>2
  <1>9. CASE FinishRun
    BY <1>9 DEF FinishRun, Known, Unfinished
  <1>10. CASE UNCHANGED vars
    <2>1. Applied' = Applied
      BY <1>10 DEF vars, Applied
    <2> QED
      BY <1>1, <1>10, <2>1 DEF vars
  <1> QED
    BY <1>3, <1>4, <1>5, <1>6, <1>7, <1>8, <1>9, <1>10

LEMMA EndSessionKnown ==
  ASSUME IndInv, OrdersInv, Captured, Known, EndSession
  PROVE  Known'
  <1>1. /\ phase = "open" /\ phase' = "evening" /\ agenda = {} /\ agenda' = Evening(day)
        /\ closes' = [d \in DOMAIN closes \cup {day} |-> IF d = day THEN quantity ELSE closes[d]]
        /\ UNCHANGED <<world, day, cash, quantity, listing, receivable, pendingStock, fills>>
    BY DEF EndSession, portfolio, positions, broker, OrdersInv, AgendaOpen
  <1>2. Delisted' = Delisted /\ Applied' = Applied
    BY <1>1, DelistedSame DEF Applied
  <1>3. ClosesType /\ day \in Sessions /\ day \in Nat
    BY <1>1, SessionDay DEF Captured, Unfinished
  <1>4. ASSUME NEW a \in Loaded
        PROVE /\ StockGiven(a)' <=> StockGiven(a)
              /\ Unlisted(a)' <=> Unlisted(a)
              /\ CashGiven(a)' <=> CashGiven(a)
              /\ CashPaid(a)' <=> CashPaid(a)
              /\ StockGiven(a) \/ CashGiven(a) \/ CashPaid(a) => Held(a)' = Held(a)
    <2>1. Dividend(a)' = Dividend(a) /\ Dividend(a).record \in Nat
      BY <1>1, WorldSame, LoadedType DEF IndInv
    <2>2. \A op \in Bookings : ~Todo(op, a) /\ ~Todo(op, a)'
      BY <1>1 DEF Todo, Evening, Bookings
    <2>3. /\ StockDay(a)' = StockDay(a) /\ CashDay(a)' = CashDay(a)
      BY <2>1 DEF StockDay, CashDay
    <2>4. CASE Dividend(a).record < day
      <3>1. Held(a)' = Held(a)
        BY <1>1, <1>3, <2>4, HeldKept DEF IndInv
      <3> QED
        BY <1>1, <2>1, <2>2, <2>3, <3>1 DEF StockGiven, Unlisted, CashGiven, CashPaid, Since, Bookings
    <2>5. CASE ~(Dividend(a).record < day)
      BY <1>1, <2>1, <2>5 DEF StockGiven, Unlisted, CashGiven, CashPaid, Since
    <2> QED
      BY <2>4, <2>5
  <1> QED
    BY <1>1, <1>2, <1>4, KnownSame

\* What a morning has to book.
LEMMA MorningTodo ==
  ASSUME Engine, NEW d \in Nat, agenda' = Morning(d), NEW a \in Loaded
  PROVE  /\ Todo("stock", a)' <=> StockDay(a) = d
         /\ Todo("list", a)' <=> Dividend(a).list = d
         /\ Todo("cash", a)' <=> CashDay(a) = d
         /\ Todo("settle", a)' <=> Dividend(a).pay = d
  <1>1. a \in ActionIds /\ d # None
    BY NoneAssumption DEF Loaded
  <1>2. \A x \in Morning(d) : x.id = a =>
          /\ x.op = "stock" => StockDay(a) = d
          /\ x.op = "list" => Dividend(a).list = d
          /\ x.op = "cash" => CashDay(a) = d
          /\ x.op = "settle" => Dividend(a).pay = d
    BY <1>1 DEF Morning, StockDay, CashDay
  <1>3. ASSUME NEW stage \in 0 .. 3, NEW op \in {"capture", "cancel", "cash", "stock", "settle", "list"}
        PROVE  [stage |-> stage, id |-> a, op |-> op] \in Items
    BY <1>1 DEF Items
  <1>4. StockDay(a) = d => [stage |-> 1, id |-> a, op |-> "stock"] \in Morning(d)
                           \/ [stage |-> 3, id |-> a, op |-> "stock"] \in Morning(d)
    BY <1>1, <1>3, NoneAssumption DEF Morning, StockDay
  <1>5. Dividend(a).list = d => [stage |-> 3, id |-> a, op |-> "list"] \in Morning(d)
    BY <1>1, <1>3 DEF Morning
  <1>6. CashDay(a) = d => [stage |-> 1, id |-> a, op |-> "cash"] \in Morning(d)
                          \/ [stage |-> 2, id |-> a, op |-> "cash"] \in Morning(d)
    BY <1>1, <1>3, NoneAssumption DEF Morning, CashDay
  <1>7. Dividend(a).pay = d => [stage |-> 2, id |-> a, op |-> "settle"] \in Morning(d)
    BY <1>1, <1>3 DEF Morning
  <1> QED
    BY <1>2, <1>4, <1>5, <1>6, <1>7 DEF Todo

LEMMA StartSessionKnown ==
  ASSUME IndInv, OrdersInv, Captured, Known, StartSession
  PROVE  Known'
  <1>1. PICK d \in Sessions : /\ d > day /\ \A t \in Sessions : t > day => t >= d
                              /\ day' = d /\ agenda' = Morning(d)
    BY DEF StartSession
  <1>2. /\ phase = "closed" /\ phase' = "morning" /\ agenda = {}
        /\ UNCHANGED <<world, closes, cash, quantity, listing, receivable, pendingStock, fills>>
    BY DEF StartSession, UnlockT1, broker, OrdersInv, AgendaOpen
  <1>3. d \in Nat /\ day \in Nat /\ (day = 0 \/ day \in Sessions) /\ \A t \in Sessions : t \in Nat /\ t > 0
    BY SessionDay, DayType, WorldAssumption DEF IndInv, Engine, Days
  <1>4. ClosesType /\ \A a \in Loaded : Noted(a)
    BY <1>2 DEF Captured, Unfinished
  <1>5. d \in Days
    BY WorldAssumption
  <1>6. Applied' = Applied
    BY <1>2 DEF Applied
  <1>7. Delisted \subseteq Delisted'
    <2> SUFFICES ASSUME NEW s \in Delisted PROVE s \in Delisted'
      OBVIOUS
    <2>1. s \in Symbols /\ world.delisting[s] <= day
      BY DEF Delisted
    <2>2. world.delisting[s] \in Nat
      BY <2>1, ActionsAssumption DEF IndInv, Engine
    <2>3. world.delisting[s] <= d
      BY <1>1, <1>3, <2>1, <2>2
    <2> QED
      BY <1>1, <1>2, <2>1, <2>3 DEF Delisted
  <1>8. ASSUME NEW a \in Loaded
        PROVE /\ StockGiven(a)' <=> StockGiven(a)
              /\ Unlisted(a)' <=> Unlisted(a)
              /\ CashGiven(a)' <=> CashGiven(a)
              /\ CashPaid(a)' <=> CashPaid(a)
              /\ Held(a)' = Held(a)
    <2> DEFINE record == Dividend(a).record
    <2>1. Dividend(a)' = Dividend(a) /\ Held(a)' = Held(a) /\ record \in Nat /\ record > 0
      BY <1>2, WorldSame, HeldSame, LoadedType DEF IndInv
    <2>2. StockDay(a)' = StockDay(a) /\ CashDay(a)' = CashDay(a)
      BY <2>1 DEF StockDay, CashDay
    <2>3. \A op \in Bookings : ~Todo(op, a)
      BY <1>2 DEF Todo
    <2>4. /\ Todo("stock", a)' <=> StockDay(a) = d
          /\ Todo("list", a)' <=> Dividend(a).list = d
          /\ Todo("cash", a)' <=> CashDay(a) = d
          /\ Todo("settle", a)' <=> Dividend(a).pay = d
      BY <1>1, <1>3, MorningTodo DEF IndInv
    <2>5. CASE ~(Held(a) > 0)
      BY <2>1, <2>5 DEF StockGiven, Unlisted, CashGiven, CashPaid
    <2>6. CASE ~(record < d)
      <3>1. ~(record < day)
        BY <1>1, <1>3, <2>1, <2>6
      <3> QED
        BY <1>1, <2>1, <2>6, <3>1 DEF StockGiven, Unlisted, CashGiven, CashPaid, Since
    <2>7. CASE Held(a) > 0 /\ record < d
      <3>1. day # 0
        <4> SUFFICES ASSUME day = 0 PROVE FALSE
          OBVIOUS
        <4>1. ASSUME NEW t \in Sessions PROVE ~(t <= record)
          <5>1. t \in Nat /\ t >= d
            BY <1>1, <1>3
          <5> QED
            BY <1>3, <2>1, <2>7, <5>1
        <4>2. SessionsTo(record) = {}
          BY <4>1 DEF SessionsTo
        <4>3. Held(a) = 0
          BY <1>4, <4>2, NeverHeld
        <4> QED
          BY <2>7, <4>3
      <3>2. CaptureDone(a)
        <4>1. ASSUME record >= day PROVE SessionsTo(record) = SessionsTo(day)
          <5>1. ASSUME NEW t \in Sessions PROVE t <= record <=> t <= day
            <6>1. t \in Nat /\ (t > day => t >= d)
              BY <1>1, <1>3
            <6> QED
              BY <1>3, <2>1, <2>7, <4>1, <6>1
          <5> QED
            BY <5>1 DEF SessionsTo
        <4>2. ~Todo("capture", a)
          BY <1>2 DEF Todo
        <4> QED
          BY <1>2, <1>3, <2>1, <3>1, <4>1, <4>2 DEF CaptureDone
      <3>3. Valid(a)
        BY <1>4, <2>7, <3>2 DEF Noted
      <3>4. ASSUME NEW x \in Nat, x > record, Replayed(x)
            PROVE  (Since(a, x)' /\ x # d) <=> Since(a, x)
        <4>1. Since(a, x)' <=> x <= d
          BY <1>1, <2>1, <2>7, NoneAssumption DEF Since
        <4>2. Since(a, x) <=> x <= day /\ record < day
          BY NoneAssumption DEF Since
        <4>3. ASSUME x < d PROVE x <= day
          <5>1. x \in Days
            BY <1>3, <1>5, <2>1, <3>4, <4>3, WorldAssumption DEF Days
          <5>2. x \in Sessions
            BY <3>4, <5>1, NoneAssumption DEF Replayed
          <5> QED
            BY <1>1, <1>3, <4>3, <5>2
        <4>4. record < day \/ ~(x <= day)
          BY <1>3, <2>1, <3>4
        <4> QED
          BY <1>1, <1>3, <4>1, <4>2, <4>3, <4>4
      <3>5. /\ Dividend(a).ex \in Nat \cup {None} /\ Dividend(a).pay \in Nat \cup {None} /\ Dividend(a).list \in Nat \cup {None}
            /\ Dividend(a).cash \in Nat /\ Dividend(a).stock \in Nat
        BY LoadedType DEF IndInv
      <3>6. Dividend(a).ex # None => Dividend(a).ex \in Nat /\ Dividend(a).ex > record /\ Replayed(Dividend(a).ex)
        BY <3>3, <3>5 DEF Valid
      <3>7. Dividend(a).cash > 0 => Dividend(a).pay \in Nat /\ Dividend(a).pay > record /\ Replayed(Dividend(a).pay)
        BY <3>3, <3>5 DEF Valid, Settles
      <3>8. Dividend(a).stock > 0 => Dividend(a).list \in Nat /\ Dividend(a).list > record /\ Replayed(Dividend(a).list)
        BY <3>3, <3>5 DEF Valid, Settles
      <3>9. Dividend(a).stock > 0 => ((Since(a, StockDay(a))' /\ StockDay(a) # d) <=> Since(a, StockDay(a)))
        BY <2>2, <3>4, <3>6, <3>8 DEF StockDay
      <3>10. Dividend(a).cash > 0 => ((Since(a, CashDay(a))' /\ CashDay(a) # d) <=> Since(a, CashDay(a)))
        BY <2>2, <3>4, <3>6, <3>7 DEF CashDay
      <3>11. Dividend(a).stock > 0 => ((Since(a, Dividend(a).list)' /\ Dividend(a).list # d) <=> Since(a, Dividend(a).list))
        BY <2>1, <3>4, <3>8
      <3>12. Dividend(a).cash > 0 => ((Since(a, Dividend(a).pay)' /\ Dividend(a).pay # d) <=> Since(a, Dividend(a).pay))
        BY <2>1, <3>4, <3>7
      <3>13. StockGiven(a)' <=> StockGiven(a)
        BY <2>1, <2>3, <2>4, <3>9 DEF StockGiven, Bookings
      <3>14. Unlisted(a)' <=> Unlisted(a)
        BY <2>1, <2>3, <2>4, <3>11, <3>13 DEF Unlisted, StockGiven, Bookings
      <3>15. CashGiven(a)' <=> CashGiven(a)
        BY <2>1, <2>3, <2>4, <3>10 DEF CashGiven, Bookings
      <3>16. CashPaid(a)' <=> CashPaid(a)
        BY <2>1, <2>3, <2>4, <3>12 DEF CashPaid, Bookings
      <3> QED
        BY <2>1, <3>13, <3>14, <3>15, <3>16
    <2> QED
      BY <2>5, <2>6, <2>7
  <1> QED
    BY <1>2, <1>6, <1>7, <1>8, KnownSame

\* What a step leaves alone of one action.
LEMMA OneSame ==
  ASSUME UNCHANGED <<world, day, closes>>, NEW b \in Loaded, \A op \in Bookings : Todo(op, b)' <=> Todo(op, b)
  PROVE  /\ \A s : StockOf(s)'[b] = StockOf(s)[b] /\ UnlistedOf(s)'[b] = UnlistedOf(s)[b]
         /\ Paid'[b] = Paid[b]
         /\ receivable'[b] = receivable[b] /\ Owed(b) => Owed(b)'
         /\ pendingStock'[b] = pendingStock[b] /\ Coming(b) => Coming(b)'
  <1>1. /\ Todo("stock", b)' <=> Todo("stock", b)
        /\ Todo("list", b)' <=> Todo("list", b)
        /\ Todo("cash", b)' <=> Todo("cash", b)
        /\ Todo("settle", b)' <=> Todo("settle", b)
    BY DEF Bookings
  <1>2. /\ StockGiven(b)' <=> StockGiven(b)
        /\ Unlisted(b)' <=> Unlisted(b)
        /\ CashGiven(b)' <=> CashGiven(b)
        /\ CashPaid(b)' <=> CashPaid(b)
        /\ Dividend(b)' = Dividend(b) /\ Held(b)' = Held(b) /\ Shares(b)' = Shares(b)
    BY <1>1, GivenSame
  <1>3. Loaded' = Loaded /\ Delisted' = Delisted
    BY WorldSame, DelistedSame
  <1>4. \A s : StockOf(s)'[b] = StockOf(s)[b] /\ UnlistedOf(s)'[b] = UnlistedOf(s)[b]
    BY <1>2, <1>3 DEF StockOf, UnlistedOf
  <1>5. Paid'[b] = Paid[b]
    BY <1>2, <1>3 DEF Paid
  <1>6. receivable'[b] = receivable[b] /\ Owed(b) => Owed(b)'
    BY <1>2 DEF Owed
  <1>7. pendingStock'[b] = pendingStock[b] /\ Coming(b) => Coming(b)'
    BY <1>2, <1>3 DEF Coming
  <1> QED
    BY <1>4, <1>5, <1>6, <1>7

LEMMA FillsSame ==
  ASSUME Applied' = Applied, UNCHANGED fills
  PROVE  (\A s : FillsOf(s)' = FillsOf(s)) /\ Flows' = Flows
  BY DEF FillsOf, Bought, Flows, Flow, Cost, Proceeds

\* Sums of the same numbers.
LEMMA SumSameAll ==
  ASSUME NEW S, IsFiniteSet(S), NEW f, \A x \in S : f[x] \in Int, NEW g, \A x \in S : g[x] = f[x]
  PROVE  Total(g, S) = Total(f, S)
  BY SumSame

LEMMA SumInt ==
  ASSUME NEW S, IsFiniteSet(S), NEW f, \A x \in S : f[x] \in Int
  PROVE  Total(f, S) \in Int
  BY SumFacts

\* One more summand.
LEMMA SumAppend ==
  ASSUME NEW m \in Nat, NEW f, NEW g, \A i \in 1 .. m + 1 : g[i] \in Int, \A i \in 1 .. m : g[i] = f[i]
  PROVE  Total(g, 1 .. m + 1) = Total(f, 1 .. m) + g[m + 1] /\ Total(f, 1 .. m) \in Int
  <1>1. IsFiniteSet(1 .. m + 1) /\ IsFiniteSet(1 .. m)
    BY FS_Interval
  <1>2. m + 1 \in 1 .. m + 1 /\ (1 .. m + 1) \ {m + 1} = 1 .. m
    OBVIOUS
  <1>3. Total(g, 1 .. m + 1) = g[m + 1] + Total(g, (1 .. m + 1) \ {m + 1})
    BY <1>1, <1>2, SumFacts
  <1>4. \A i \in 1 .. m : f[i] \in Int
    OBVIOUS
  <1>5. Total(f, 1 .. m) = Total(g, 1 .. m)
    BY <1>1, <1>4, SumSame
  <1>6. Total(f, 1 .. m) \in Int
    BY <1>1, <1>4, SumFacts
  <1>7. g[m + 1] \in Int
    BY <1>2
  <1>8. Total(g, (1 .. m + 1) \ {m + 1}) = Total(g, 1 .. m)
    BY <1>2
  <1>9. Total(g, 1 .. m + 1) = g[m + 1] + Total(f, 1 .. m)
    BY <1>3, <1>5, <1>8
  <1> QED
    BY <1>6, <1>7, <1>9

LEMMA FillKnown ==
  ASSUME IndInv, OrdersInv, FillsLeft, Captured, Known, Fill, IndInv', OrdersInv', FillsLeft', Captured'
  PROVE  Known'
  <1> DEFINE fill == Head(made)
             m == Applied
  <1>1. CASE Fail("account")
    BY <1>1, FailKnown
  <1>2. CASE ApplyFill(fill) /\ made' = Tail(made) /\ UNCHANGED <<fills, phase, agenda, world, day, closes>>
    <2>1. /\ made \in Seq(FillType) /\ made # <<>> /\ fill = made[1] /\ Len(made) \in Nat \ {0}
          /\ Len(made') = Len(made) - 1 /\ fill \in FillType
          /\ fills \in Seq(FillType) /\ Len(fills) \in Nat /\ phase = "filling"
      BY <1>2 DEF IndInv, Books, Fill, OrdersInv
    <2>2. Unfinished /\ ClosesType
      BY <2>1 DEF Unfinished, Captured
    <2>3. /\ \A b \in Loaded : Owed(b) /\ Coming(b)
          /\ \A s \in Symbols : s \notin Delisted => SharesKnown(s)
          /\ CashKnown
      BY <2>2 DEF Known
    <2>4. m \in Nat /\ Applied' = m + 1 /\ fills[m + 1] = fill
      <3>1. m \in Nat /\ m = Len(fills) - Len(made)
        BY <2>1, AppliedType DEF Applied
      <3>2. Applied' = m + 1
        BY <1>2, <2>1 DEF Applied
      <3>3. fills[Len(fills) - Len(made) + 1] = made[1]
        BY <2>1 DEF FillsLeft
      <3> QED
        BY <2>1, <3>1, <3>2, <3>3
    <2> HIDE DEF fill, m
    <2>5. /\ fill.symbol \in Symbols /\ fill.quantity \in Nat /\ fill.side \in {"buy", "sell"}
      BY <2>1 DEF FillType
    <2>6. Loaded' = Loaded /\ Delisted' = Delisted
      BY <1>2, WorldSame, DelistedSame
    <2>7. /\ UNCHANGED <<listing, receivable, pendingStock>>
          /\ cash' = cash + Flow(fill)
          /\ \A s \in Symbols : quantity'[s] = quantity[s] + (IF fill.symbol = s THEN IF fill.side = "buy" THEN fill.quantity ELSE -fill.quantity ELSE 0)
      <3>1. quantity \in [Symbols -> Nat] /\ cash \in Nat /\ Flow(fill) \in Int /\ fill.fee \in Nat /\ fill.notional \in Int
        BY <2>1, FlowType DEF IndInv, Account, PortfolioType, FillType
      <3>2. CASE fill.side = "buy"
        <4>1. cash' = cash + Flow(fill) /\ UNCHANGED <<listing, receivable, pendingStock>>
          BY <1>2, <3>1, <3>2 DEF ApplyFill, ApplyBuy, Flow, Cost
        <4>2. quantity' = [quantity EXCEPT ![fill.symbol] = @ + fill.quantity]
          BY <1>2, <3>2 DEF ApplyFill, ApplyBuy
        <4> QED
          BY <2>5, <3>1, <3>2, <4>1, <4>2
      <3>3. CASE fill.side = "sell"
        <4>1. cash' = cash + Flow(fill) /\ UNCHANGED <<listing, receivable, pendingStock>>
          BY <1>2, <3>1, <3>3 DEF ApplyFill, ApplySell, Flow
        <4>2. quantity' = [quantity EXCEPT ![fill.symbol] = @ - fill.quantity]
          BY <1>2, <3>3 DEF ApplyFill, ApplySell
        <4> QED
          BY <2>5, <3>1, <3>3, <4>1, <4>2
      <3> QED
        BY <2>5, <3>2, <3>3
    <2>8. \A b \in Loaded, op \in Bookings : Todo(op, b)' <=> Todo(op, b)
      BY <1>2 DEF Todo
    <2>9. \A b \in Loaded : /\ \A s : StockOf(s)'[b] = StockOf(s)[b] /\ UnlistedOf(s)'[b] = UnlistedOf(s)[b]
                            /\ Paid'[b] = Paid[b]
                            /\ Owed(b)' /\ Coming(b)'
      BY <1>2, <2>3, <2>7, <2>8, OneSame
    <2>10. /\ \A s : \A a \in Loaded : StockOf(s)[a] \in Nat /\ UnlistedOf(s)[a] \in Nat
           /\ \A a \in Loaded : Paid[a] \in Nat
      BY <2>2, Summands
    <2>11. /\ \A s : Total(StockOf(s)', Loaded) = Total(StockOf(s), Loaded)
           /\ \A s : Total(UnlistedOf(s)', Loaded) = Total(UnlistedOf(s), Loaded)
           /\ Total(Paid', Loaded) = Total(Paid, Loaded)
      BY <2>9, <2>10, LoadedFinite, SumSameAll
    <2>12. /\ \A s : Total(StockOf(s), Loaded) \in Int
           /\ Total(Paid, Loaded) \in Int
      BY <2>10, LoadedFinite, SumInt
    <2>13. /\ \A s : \A i \in 1 .. m + 1 :
                FillsOf(s)'[i] = IF fills[i].symbol = s THEN IF fills[i].side = "buy" THEN fills[i].quantity ELSE -fills[i].quantity ELSE 0
           /\ \A i \in 1 .. m + 1 : Flows'[i] = Flow(fills[i])
      BY <1>2, <2>4 DEF FillsOf, Bought, Flows, Flow, Cost, Proceeds
    <2>14. /\ \A s : \A i \in 1 .. m + 1 : FillsOf(s)'[i] \in Int
           /\ \A i \in 1 .. m + 1 : Flows'[i] \in Int
      <3>1. m + 1 <= Len(fills)
        BY <2>1, <2>4, AppliedType DEF Applied, m
      <3>2. \A i \in 1 .. m + 1 : fills[i] \in FillType
        BY <2>1, <2>4, <3>1
      <3>3. \A i \in 1 .. m + 1 : fills[i].quantity \in Nat /\ Flow(fills[i]) \in Int
        BY <3>2, FlowType DEF FillType
      <3> QED
        BY <2>13, <3>3
    <2>15. /\ \A s : \A i \in 1 .. m :
                FillsOf(s)[i] = IF fills[i].symbol = s THEN IF fills[i].side = "buy" THEN fills[i].quantity ELSE -fills[i].quantity ELSE 0
           /\ \A i \in 1 .. m : Flows[i] = Flow(fills[i])
      BY <2>4 DEF FillsOf, Bought, Flows, m
    <2>16. /\ \A s : \A i \in 1 .. m : FillsOf(s)'[i] = FillsOf(s)[i]
           /\ \A i \in 1 .. m : Flows'[i] = Flows[i]
           /\ m + 1 \in 1 .. m + 1
      BY <2>4, <2>13, <2>15
    <2>17. CashKnown'
      <3>1. Total(Flows', 1 .. m + 1) = Total(Flows, 1 .. m) + Flows'[m + 1] /\ Total(Flows, 1 .. m) \in Int
        BY <2>4, <2>14, <2>16, SumAppend
      <3>2. Flows'[m + 1] = Flow(fill) /\ Flow(fill) \in Int
        BY <2>1, <2>4, <2>13, <2>16, FlowType
      <3>3. cash = InitialCash + Total(Flows, 1 .. m) + Total(Paid, Loaded)
        BY <2>3 DEF CashKnown, m
      <3>4. cash' = InitialCash + Total(Flows', 1 .. m + 1) + Total(Paid', Loaded)
        BY <2>7, <2>11, <2>12, <3>1, <3>2, <3>3, CashAssumption
      <3> QED
        BY <2>4, <2>6, <3>4 DEF CashKnown
    <2>18. ASSUME NEW s \in Symbols, s \notin Delisted PROVE SharesKnown(s)'
      <3> DEFINE change == IF fill.symbol = s THEN IF fill.side = "buy" THEN fill.quantity ELSE -fill.quantity ELSE 0
      <3>1. Total(FillsOf(s)', 1 .. m + 1) = Total(FillsOf(s), 1 .. m) + FillsOf(s)'[m + 1] /\ Total(FillsOf(s), 1 .. m) \in Int
        <4>1. \A i \in 1 .. m + 1 : FillsOf(s)'[i] \in Int
          BY <2>14
        <4>2. \A i \in 1 .. m : FillsOf(s)'[i] = FillsOf(s)[i]
          BY <2>16
        <4> QED
          BY <2>4, <4>1, <4>2, SumAppend
      <3>2. FillsOf(s)'[m + 1] = change /\ change \in Int
        BY <2>4, <2>5, <2>13, <2>16
      <3>3. /\ quantity[s] = Total(FillsOf(s), 1 .. m) + Total(StockOf(s), Loaded)
            /\ listing[s] = Total(UnlistedOf(s), Loaded)
        BY <2>3, <2>18 DEF SharesKnown, m
      <3>4. quantity'[s] = quantity[s] + change
        BY <2>7
      <3> HIDE DEF change
      <3>5. quantity'[s] = Total(FillsOf(s)', 1 .. m + 1) + Total(StockOf(s)', Loaded)
        BY <2>11, <2>12, <3>1, <3>2, <3>3, <3>4
      <3>6. listing'[s] = Total(UnlistedOf(s)', Loaded)
        BY <2>7, <2>11, <3>3
      <3> QED
        BY <2>4, <2>6, <3>5, <3>6 DEF SharesKnown
    <2> QED
      BY <2>6, <2>9, <2>17, <2>18 DEF Known
  <1> QED
    BY <1>1, <1>2 DEF Fill, engine

\* Sums that a step leaves alone.
LEMMA SharesKept ==
  ASSUME IndInv, OrdersInv, FillsLeft, ClosesType, UNCHANGED <<world, fills>>, Applied' = Applied,
         NEW s \in Symbols, SharesKnown(s), quantity'[s] = quantity[s], listing'[s] = listing[s],
         \A b \in Loaded : StockOf(s)'[b] = StockOf(s)[b] /\ UnlistedOf(s)'[b] = UnlistedOf(s)[b]
  PROVE  SharesKnown(s)'
  <1>1. Loaded' = Loaded /\ FillsOf(s)' = FillsOf(s)
    BY WorldSame, FillsSame
  <1>2. \A b \in Loaded : StockOf(s)[b] \in Int /\ UnlistedOf(s)[b] \in Int
    BY Summands
  <1>3. Total(StockOf(s)', Loaded) = Total(StockOf(s), Loaded)
    BY <1>2, LoadedFinite, SumSameAll
  <1>4. Total(UnlistedOf(s)', Loaded) = Total(UnlistedOf(s), Loaded)
    BY <1>2, LoadedFinite, SumSameAll
  <1> QED
    BY <1>1, <1>3, <1>4 DEF SharesKnown

LEMMA CashSame ==
  ASSUME IndInv, OrdersInv, FillsLeft, ClosesType, UNCHANGED <<world, fills, cash>>, Applied' = Applied,
         CashKnown, \A b \in Loaded : Paid'[b] = Paid[b]
  PROVE  CashKnown'
  <1>1. Loaded' = Loaded /\ Flows' = Flows
    BY WorldSame, FillsSame
  <1>2. \A b \in Loaded : Paid[b] \in Int
    BY Summands
  <1>3. Total(Paid', Loaded) = Total(Paid, Loaded)
    BY <1>2, LoadedFinite, SumSameAll
  <1> QED
    BY <1>1, <1>3 DEF CashKnown

LEMMA CheckLifecyclesKnown ==
  ASSUME IndInv, OrdersInv, FillsLeft, Captured, Known, CheckLifecycles
  PROVE  Known'
  <1> DEFINE gone == Managed \cap Delisted
  <1>1. CASE Fail("delisted")
    BY <1>1, FailKnown
  <1>2. CASE /\ CancelSymbols(gone, day) /\ WriteOff(gone)
             /\ phase' = "open"
             /\ UNCHANGED <<world, error, day, slot, agenda, bars, lastClose, plan, calls, ghosts>>
    <2>1. /\ phase = "morning" /\ UNCHANGED <<world, day, agenda, closes, fills, cash, receivable>>
          /\ quantity' = Zeroed(quantity, gone) /\ listing' = Zeroed(listing, gone)
          /\ pendingStock' = PendingWithout(gone)
      BY <1>2 DEF CheckLifecycles, CancelSymbols, CancelOrders, WriteOff, ghosts
    <2>2. Applied' = Applied
      BY <1>2, <2>1 DEF Applied
    <2>3. Unfinished /\ ClosesType /\ Loaded' = Loaded /\ Delisted' = Delisted
      BY <2>1, WorldSame, DelistedSame DEF Unfinished, Captured
    <2>4. \A b \in Loaded, op \in Bookings : Todo(op, b)' <=> Todo(op, b)
      BY <2>1 DEF Todo
    <2>5. gone \subseteq Delisted /\ gone \subseteq Symbols
      BY DEF Managed
    <2> HIDE DEF gone
    <2>6. ASSUME NEW b \in Loaded PROVE Owed(b)' /\ Coming(b)'
      <3>1. Owed(b) /\ Coming(b) /\ b \in ActionIds
        BY <2>3 DEF Known, Loaded
      <3>2. Owed(b)'
        BY <2>1, <2>4, <3>1, OneSame
      <3>3. pendingStock'[b] = IF pendingStock[b] # None /\ pendingStock[b].symbol \in gone THEN None ELSE pendingStock[b]
        BY <2>1, <3>1 DEF PendingWithout
      <3>4. CASE pendingStock'[b] = pendingStock[b]
        BY <2>1, <2>4, <3>1, <3>2, <3>4, OneSame
      <3>5. CASE pendingStock'[b] # pendingStock[b]
        <4>1. pendingStock'[b] = None /\ Dividend(b).symbol \in Delisted
          BY <2>5, <3>1, <3>3, <3>5 DEF Coming
        <4>2. Dividend(b)' = Dividend(b)
          BY <2>1, WorldSame
        <4> QED
          BY <2>3, <3>2, <4>1, <4>2 DEF Coming
      <3> QED
        BY <3>4, <3>5
    <2>7. \A b \in Loaded : /\ \A s : StockOf(s)'[b] = StockOf(s)[b] /\ UnlistedOf(s)'[b] = UnlistedOf(s)[b]
                            /\ Paid'[b] = Paid[b]
      BY <2>1, <2>4, OneSame
    <2>8. ASSUME NEW s \in Symbols, s \notin Delisted PROVE SharesKnown(s)'
      <3>1. SharesKnown(s)
        BY <2>3, <2>8 DEF Known
      <3>2. quantity'[s] = quantity[s] /\ listing'[s] = listing[s]
        BY <2>1, <2>5, <2>8 DEF Zeroed
      <3> QED
        BY <2>1, <2>2, <2>3, <2>7, <3>1, <3>2, SharesKept
    <2>9. CashKnown'
      <3>1. CashKnown
        BY <2>3 DEF Known
      <3> QED
        BY <2>1, <2>2, <2>3, <2>7, <3>1, CashSame
    <2> QED
      BY <2>3, <2>6, <2>8, <2>9 DEF Known
  <1> QED
    BY <1>1, <1>2 DEF CheckLifecycles

\* A booking that is due: what it is for, what is done and what is still to do.
LEMMA BookingDue ==
  ASSUME IndInv, InOrder, Captured, NEW a \in ActionIds, NEW op \in Bookings, Due(op, a)
  PROVE  /\ phase = "morning" /\ a \in Loaded /\ Todo(op, a)
         /\ IF Dividend(a).record < day THEN Entitlement(a) = Held(a) /\ (Held(a) > 0 => Valid(a))
                                        ELSE Entitlement(a) = 0
         /\ op = "cash" => CashDay(a) = day /\ (Dividend(a).pay = day => Todo("settle", a))
         /\ op = "stock" => StockDay(a) = day /\ (Dividend(a).list = day => Todo("list", a))
         /\ op = "settle" => Dividend(a).pay = day /\ ~Todo("cash", a)
         /\ op = "list" => Dividend(a).list = day
  <1>1. PICK x \in agenda : x.op = op /\ x.id = a /\ \A y \in agenda : Earlier(x, y)
    BY DEF Due
  <1>2. phase = "morning"
    BY <1>1 DEF Due, InOrder, Evening, Bookings
  <1>3. /\ agenda \subseteq Morning(day) /\ \A u \in Morning(day), y \in agenda : u \in agenda \/ Earlier(u, y)
        /\ x \in Morning(day) /\ day \in Nat
    BY <1>1, <1>2, DayType DEF InOrder, IndInv
  <1>4. a \in Loaded /\ Todo(op, a) /\ x \in Items /\ \A y \in Morning(day) : y \in Items
    BY <1>1, <1>3 DEF Morning, Todo
  <1>5. ~Todo("capture", a)
    <2>1. SUFFICES ASSUME NEW y \in agenda, y.op = "capture" PROVE FALSE
      BY DEF Todo
    <2>2. y.stage = 0
      BY <1>3, <2>1 DEF Morning
    <2>3. x.stage # 0
      BY <1>1, <1>3 DEF Morning, Bookings
    <2>4. Earlier(x, y) /\ x.stage \in 0 .. 3
      BY <1>1, <1>4 DEF Items
    <2> QED
      BY <2>2, <2>3, <2>4 DEF Earlier
  <1>6. CaptureDone(a) <=> Dividend(a).record < day
    BY <1>2, <1>5 DEF CaptureDone
  <1>7. Noted(a)
    BY <1>2, <1>4 DEF Captured, Unfinished
  <1>8. op = "cash" => CashDay(a) = day /\ (x.stage = 1 \/ x.stage = 2)
    BY <1>1, <1>3, NoneAssumption DEF Morning, CashDay
  <1>9. op = "stock" => StockDay(a) = day /\ (x.stage = 1 \/ x.stage = 3)
    BY <1>1, <1>3, NoneAssumption DEF Morning, StockDay
  <1>10. op = "settle" => Dividend(a).pay = day /\ x.stage = 2
    BY <1>1, <1>3 DEF Morning
  <1>11. op = "list" => Dividend(a).list = day
    BY <1>1, <1>3 DEF Morning
  <1>12. ASSUME op = "cash", Dividend(a).pay = day PROVE Todo("settle", a)
    <2> DEFINE u == [stage |-> 2, id |-> a, op |-> "settle"]
    <2>1. u \in Morning(day)
      BY <1>4, <1>12 DEF Morning, Items
    <2>2. ~Earlier(u, x)
      BY <1>1, <1>8, <1>12 DEF Earlier, OpOrder
    <2>3. u \in agenda
      BY <1>3, <2>1, <2>2
    <2> QED
      BY <2>3 DEF Todo
  <1>13. ASSUME op = "stock", Dividend(a).list = day PROVE Todo("list", a)
    <2> DEFINE u == [stage |-> 3, id |-> a, op |-> "list"]
    <2>1. u \in Morning(day)
      BY <1>4, <1>13 DEF Morning, Items
    <2>2. ~Earlier(u, x)
      BY <1>1, <1>9, <1>13 DEF Earlier, OpOrder
    <2>3. u \in agenda
      BY <1>3, <2>1, <2>2
    <2> QED
      BY <2>3 DEF Todo
  <1>14. ASSUME op = "settle" PROVE ~Todo("cash", a)
    <2>1. SUFFICES ASSUME NEW y \in agenda, y.op = "cash", y.id = a PROVE FALSE
      BY DEF Todo
    <2>2. y.stage = 1 \/ y.stage = 2
      BY <1>3, <2>1 DEF Morning
    <2>3. ~Earlier(x, y)
      BY <1>1, <1>10, <1>14, <2>1, <2>2 DEF Earlier, OpOrder
    <2> QED
      BY <1>1, <2>3
  <1>15. IF Dividend(a).record < day THEN Entitlement(a) = Held(a) /\ (Held(a) > 0 => Valid(a))
                                        ELSE Entitlement(a) = 0
    BY <1>6, <1>7 DEF Noted, Entitlement
  <1> QED
    BY <1>2, <1>4, <1>8, <1>9, <1>10, <1>11, <1>12, <1>13, <1>14, <1>15

LEMMA BookingDone ==
  ASSUME NEW a, NEW op, Done(op, a)
  PROVE  /\ UNCHANGED <<world, phase, day, closes>>
         /\ \A b \in Loaded, o \in Bookings : b # a \/ o # op => (Todo(o, b)' <=> Todo(o, b))
         /\ ~Todo(op, a)'
  BY DEF Done, ghosts, Todo

\* A booking of one action leaves the others alone.
LEMMA OthersKnown ==
  ASSUME Known, Unfinished, NEW a \in Loaded, NEW op, Done(op, a), NEW b \in Loaded, b # a
  PROVE  /\ \A s : StockOf(s)'[b] = StockOf(s)[b] /\ UnlistedOf(s)'[b] = UnlistedOf(s)[b]
         /\ Paid'[b] = Paid[b]
         /\ receivable'[b] = receivable[b] => Owed(b)'
         /\ pendingStock'[b] = pendingStock[b] => Coming(b)'
  <1>1. UNCHANGED <<world, day, closes>> /\ \A o \in Bookings : Todo(o, b)' <=> Todo(o, b)
    BY BookingDone
  <1>2. Owed(b) /\ Coming(b)
    BY DEF Known
  <1> QED
    BY <1>1, <1>2, OneSame

LEMMA ConfirmCashKnown ==
  ASSUME IndInv, OrdersInv, InOrder, Captured, FillsLeft, DividendsInv, Known, NEW a \in ActionIds, ConfirmCash(a)
  PROVE  Known'
  <1>1. CASE Fail("action") \/ Fail("account")
    BY <1>1, FailKnown
  <1>2. CASE ~(Fail("action") \/ Fail("account"))
    <2>1. /\ phase = "morning" /\ a \in Loaded /\ Todo("cash", a)
          /\ IF Dividend(a).record < day THEN Entitlement(a) = Held(a) /\ (Held(a) > 0 => Valid(a))
                                         ELSE Entitlement(a) = 0
          /\ CashDay(a) = day /\ (Dividend(a).pay = day => Todo("settle", a))
      BY BookingDue DEF ConfirmCash, Bookings
    <2>2. /\ Done("cash", a) /\ UNCHANGED <<cash, quantity, listing, pendingStock, fills, made>>
          /\ receivable' = IF Entitlement(a) = 0 \/ Dividend(a).cash = 0 THEN receivable
                           ELSE [receivable EXCEPT ![a] = Entitlement(a) * Dividend(a).cash]
      BY <1>2 DEF ConfirmCash, RecognizeDividend, portfolio, positions, broker
    <2>3. /\ UNCHANGED <<world, phase, day, closes>>
          /\ \A o \in Bookings : o # "cash" => (Todo(o, a)' <=> Todo(o, a))
          /\ ~Todo("cash", a)'
      BY <2>1, <2>2, BookingDone
    <2>4. /\ Unfinished /\ ClosesType /\ Applied' = Applied /\ Loaded' = Loaded /\ Delisted' = Delisted
      BY <2>1, <2>2, <2>3, WorldSame, DelistedSame DEF Unfinished, Captured, Applied
    <2>5. receivable[a] = None /\ receivable \in [ActionIds -> Nat \cup {None}]
      BY <2>1 DEF DividendsInv, IndInv, Account, PortfolioType
    <2>6. /\ (StockGiven(a)' <=> StockGiven(a)) /\ (Unlisted(a)' <=> Unlisted(a)) /\ (CashPaid(a)' <=> CashPaid(a))
          /\ Dividend(a)' = Dividend(a) /\ Held(a)' = Held(a) /\ Shares(a)' = Shares(a)
      BY <2>1, <2>3, GivenSame DEF Bookings
    <2>7. /\ Held(a) \in Nat /\ Dividend(a).cash \in Nat /\ day \in Nat /\ Dividend(a).record \in Nat
          /\ Dividend(a).ex \in Nat \cup {None} /\ Dividend(a).pay \in Nat \cup {None}
      BY <2>1, <2>4, HeldType, LoadedType, DayType DEF IndInv
    <2>8. CashGiven(a)' <=> Held(a) > 0 /\ Dividend(a).cash > 0 /\ Dividend(a).record < day
      <3>1. CashDay(a)' = day
        BY <2>1, <2>6 DEF CashDay
      <3>2. Since(a, CashDay(a))' <=> Dividend(a).record < day
        BY <2>3, <2>6, <2>7, <3>1, NoneAssumption DEF Since
      <3> QED
        BY <2>3, <2>6, <3>2 DEF CashGiven
    <2>9. Owed(a)'
      <3>1. CASE Entitlement(a) = 0 \/ Dividend(a).cash = 0
        <4>1. ~CashGiven(a)'
          BY <2>1, <2>7, <2>8, <3>1
        <4> QED
          BY <2>2, <2>5, <3>1, <4>1 DEF Owed
      <3>2. CASE ~(Entitlement(a) = 0 \/ Dividend(a).cash = 0)
        <4>1. Dividend(a).record < day /\ Entitlement(a) = Held(a) /\ Held(a) > 0 /\ Valid(a) /\ Dividend(a).cash > 0
          BY <2>1, <2>7, <3>2
        <4>2. Settles(Dividend(a).pay, Dividend(a).record, Dividend(a).ex)
          BY <4>1 DEF Valid
        <4>3. Since(a, Dividend(a).pay) => Todo("settle", a)
          <5>1. SUFFICES ASSUME Dividend(a).pay <= day, Dividend(a).pay \in Nat PROVE Dividend(a).pay = day
            BY <2>1, <2>7, <4>2 DEF Since, Settles
          <5>2. CASE Dividend(a).ex = None
            BY <2>1, <5>2 DEF CashDay
          <5>3. CASE Dividend(a).ex # None
            BY <2>1, <2>7, <4>2, <5>1, <5>3 DEF CashDay, Settles
          <5> QED
            BY <5>2, <5>3
        <4>4. ~CashPaid(a)
          BY <4>3 DEF CashPaid
        <4>5. receivable'[a] = Held(a) * Dividend(a).cash
          BY <2>2, <2>5, <3>2, <4>1
        <4> QED
          BY <2>6, <2>8, <4>1, <4>4, <4>5 DEF Owed
      <3> QED
        BY <3>1, <3>2
    <2>10. Coming(a)'
      <3>1. Coming(a)
        BY <2>1, <2>4 DEF Known
      <3> QED
        BY <2>2, <2>4, <2>6, <3>1 DEF Coming
    <2>11. /\ \A s : StockOf(s)'[a] = StockOf(s)[a] /\ UnlistedOf(s)'[a] = UnlistedOf(s)[a]
           /\ Paid'[a] = Paid[a]
      BY <2>1, <2>4, <2>6 DEF StockOf, UnlistedOf, Paid
    <2>12. ASSUME NEW b \in Loaded, b # a
           PROVE  /\ \A s : StockOf(s)'[b] = StockOf(s)[b] /\ UnlistedOf(s)'[b] = UnlistedOf(s)[b]
                  /\ Paid'[b] = Paid[b] /\ Owed(b)' /\ Coming(b)'
      <3>1. receivable'[b] = receivable[b] /\ pendingStock'[b] = pendingStock[b]
        BY <2>2, <2>5, <2>12 DEF Loaded
      <3> QED
        BY <2>1, <2>2, <2>4, <2>12, <3>1, OthersKnown
    <2>13. \A b \in Loaded : /\ \A s : StockOf(s)'[b] = StockOf(s)[b] /\ UnlistedOf(s)'[b] = UnlistedOf(s)[b]
                             /\ Paid'[b] = Paid[b] /\ Owed(b)' /\ Coming(b)'
      BY <2>9, <2>10, <2>11, <2>12
    <2>14. ASSUME NEW s \in Symbols, s \notin Delisted PROVE SharesKnown(s)'
      <3>1. SharesKnown(s)
        BY <2>4, <2>14 DEF Known
      <3> QED
        BY <2>2, <2>3, <2>4, <2>13, <3>1, SharesKept
    <2>15. CashKnown'
      <3>1. CashKnown
        BY <2>4 DEF Known
      <3> QED
        BY <2>2, <2>3, <2>4, <2>13, <3>1, CashSame
    <2> QED
      BY <2>4, <2>13, <2>14, <2>15 DEF Known
  <1> QED
    BY <1>1, <1>2

\* Of the shares of a symbol, one action's may change.
LEMMA SharesChange ==
  ASSUME IndInv, OrdersInv, FillsLeft, ClosesType, UNCHANGED <<world, fills>>, Applied' = Applied,
         NEW s \in Symbols, SharesKnown(s), NEW a \in Loaded,
         \A b \in Loaded : b # a => StockOf(s)'[b] = StockOf(s)[b] /\ UnlistedOf(s)'[b] = UnlistedOf(s)[b],
         NEW m \in Nat, NEW n \in Nat, StockOf(s)'[a] = m, UnlistedOf(s)'[a] = n,
         quantity'[s] = quantity[s] - StockOf(s)[a] + m, listing'[s] = listing[s] - UnlistedOf(s)[a] + n
  PROVE  SharesKnown(s)'
  <1>1. Loaded' = Loaded /\ FillsOf(s)' = FillsOf(s)
    BY WorldSame, FillsSame
  <1>2. /\ \A b \in Loaded : StockOf(s)[b] \in Int /\ UnlistedOf(s)[b] \in Int
        /\ \A i \in 1 .. Applied : FillsOf(s)[i] \in Int
    BY Summands
  <1>3. Total(StockOf(s)', Loaded) = Total(StockOf(s), Loaded) - StockOf(s)[a] + m
    BY <1>2, LoadedFinite, SumChanges
  <1>4. Total(UnlistedOf(s)', Loaded) = Total(UnlistedOf(s), Loaded) - UnlistedOf(s)[a] + n
    BY <1>2, LoadedFinite, SumChanges
  <1>5. Total(StockOf(s), Loaded) \in Int /\ Total(UnlistedOf(s), Loaded) \in Int
    BY <1>2, LoadedFinite, SumInt
  <1>6. Total(FillsOf(s), 1 .. Applied) \in Int
    <2>1. IsFiniteSet(1 .. Applied)
      BY AppliedType, FS_Interval
    <2> QED
      BY <1>2, <2>1, SumInt
  <1>7. /\ quantity[s] = Total(FillsOf(s), 1 .. Applied) + Total(StockOf(s), Loaded)
        /\ listing[s] = Total(UnlistedOf(s), Loaded)
    BY DEF SharesKnown
  <1>8. StockOf(s)[a] \in Int /\ UnlistedOf(s)[a] \in Int
    BY <1>2
  <1>9. quantity'[s] = Total(FillsOf(s), 1 .. Applied) + Total(StockOf(s)', Loaded)
    BY <1>3, <1>5, <1>6, <1>7, <1>8
  <1>10. listing'[s] = Total(UnlistedOf(s)', Loaded)
    BY <1>4, <1>5, <1>7, <1>8
  <1> QED
    BY <1>1, <1>9, <1>10 DEF SharesKnown

LEMMA ConfirmStockKnown ==
  ASSUME IndInv, OrdersInv, InOrder, Captured, FillsLeft, DividendsInv, Known, NEW a \in ActionIds, ConfirmStock(a)
  PROVE  Known'
  <1>1. CASE Fail("action") \/ Fail("account")
    BY <1>1, FailKnown
  <1>2. CASE ~(Fail("action") \/ Fail("account"))
    <2> DEFINE y == Dividend(a).symbol
               booked == Entitlement(a) # 0 /\ Dividend(a).stock # 0
               shares == StockDividend(Entitlement(a), Dividend(a).stock)
    <2>1. /\ phase = "morning" /\ a \in Loaded /\ Todo("stock", a)
          /\ IF Dividend(a).record < day THEN Entitlement(a) = Held(a) /\ (Held(a) > 0 => Valid(a))
                                         ELSE Entitlement(a) = 0
          /\ StockDay(a) = day /\ (Dividend(a).list = day => Todo("list", a))
      BY BookingDue DEF ConfirmStock, Bookings
    <2>2. /\ Done("stock", a) /\ UNCHANGED <<cash, receivable, fills, made>>
          /\ ~booked => UNCHANGED <<quantity, listing, pendingStock>>
          /\ booked => /\ quantity' = [quantity EXCEPT ![y] = @ + shares]
                       /\ listing' = [listing EXCEPT ![y] = @ + shares]
                       /\ pendingStock' = [pendingStock EXCEPT ![a] = [symbol |-> y, quantity |-> shares]]
      BY <1>2 DEF ConfirmStock, AddStockDividend, portfolio, positions, broker
    <2>3. /\ UNCHANGED <<world, phase, day, closes>>
          /\ \A o \in Bookings : o # "stock" => (Todo(o, a)' <=> Todo(o, a))
          /\ ~Todo("stock", a)'
      BY <2>1, <2>2, BookingDone
    <2>4. /\ Unfinished /\ ClosesType /\ Applied' = Applied /\ Loaded' = Loaded /\ Delisted' = Delisted
      BY <2>1, <2>2, <2>3, WorldSame, DelistedSame DEF Unfinished, Captured, Applied
    <2>5. /\ pendingStock[a] = None /\ pendingStock \in [ActionIds -> [symbol : Symbols, quantity : Nat] \cup {None}]
          /\ quantity \in [Symbols -> Nat] /\ listing \in [Symbols -> Nat]
      BY <2>1 DEF DividendsInv, IndInv, Account, PortfolioType
    <2>6. /\ (CashGiven(a)' <=> CashGiven(a)) /\ (CashPaid(a)' <=> CashPaid(a))
          /\ Dividend(a)' = Dividend(a) /\ Held(a)' = Held(a) /\ Shares(a)' = Shares(a)
      BY <2>1, <2>3, GivenSame DEF Bookings
    <2>7. /\ Held(a) \in Nat /\ Dividend(a).stock \in Nat /\ day \in Nat /\ Dividend(a).record \in Nat
          /\ Dividend(a).ex \in Nat \cup {None} /\ Dividend(a).list \in Nat \cup {None}
          /\ y \in Symbols /\ Shares(a) \in Nat
      BY <2>1, <2>4, HeldType, SharesType, LoadedType, DayType DEF IndInv
    <2>8. StockGiven(a)' <=> Held(a) > 0 /\ Dividend(a).stock > 0 /\ Dividend(a).record < day
      <3>1. StockDay(a)' = day
        BY <2>1, <2>6 DEF StockDay
      <3>2. Since(a, StockDay(a))' <=> Dividend(a).record < day
        BY <2>3, <2>6, <2>7, <3>1, NoneAssumption DEF Since
      <3> QED
        BY <2>3, <2>6, <3>2 DEF StockGiven
    <2>9. ~StockGiven(a) /\ ~Unlisted(a)
      BY <2>1 DEF StockGiven, Unlisted
    <2>10. \A s : StockOf(s)[a] = 0 /\ UnlistedOf(s)[a] = 0
      BY <2>1, <2>9 DEF StockOf, UnlistedOf
    <2>11. CASE ~booked
      <3>1. ~StockGiven(a)' /\ ~Unlisted(a)'
        BY <2>1, <2>7, <2>8, <2>11 DEF Unlisted
      <3>2. \A s : StockOf(s)'[a] = 0 /\ UnlistedOf(s)'[a] = 0
        BY <2>1, <2>4, <3>1 DEF StockOf, UnlistedOf
      <3>3. Coming(a)'
        BY <2>2, <2>5, <2>11, <3>1 DEF Coming
      <3>4. UNCHANGED <<quantity, listing, pendingStock>>
        BY <2>2, <2>11
      <3>5. Owed(a)'
        <4>1. Owed(a)
          BY <2>1, <2>4 DEF Known
        <4> QED
          BY <2>2, <2>6, <4>1 DEF Owed
      <3>6. Paid'[a] = Paid[a]
        BY <2>1, <2>4, <2>6 DEF Paid
      <3>7. \A b \in Loaded : b # a => /\ \A s : StockOf(s)'[b] = StockOf(s)[b] /\ UnlistedOf(s)'[b] = UnlistedOf(s)[b]
                                       /\ Paid'[b] = Paid[b] /\ Owed(b)' /\ Coming(b)'
        BY <2>1, <2>2, <2>4, <3>4, OthersKnown
      <3>8. \A b \in Loaded : /\ \A s : StockOf(s)'[b] = StockOf(s)[b] /\ UnlistedOf(s)'[b] = UnlistedOf(s)[b]
                              /\ Paid'[b] = Paid[b] /\ Owed(b)' /\ Coming(b)'
        BY <2>10, <3>2, <3>3, <3>5, <3>6, <3>7
      <3>9. ASSUME NEW s \in Symbols, s \notin Delisted PROVE SharesKnown(s)'
        <4>1. SharesKnown(s)
          BY <2>4, <3>9 DEF Known
        <4> QED
          BY <2>2, <2>3, <2>4, <3>4, <3>8, <4>1, SharesKept
      <3>10. CashKnown'
        <4>1. CashKnown
          BY <2>4 DEF Known
        <4> QED
          BY <2>2, <2>3, <2>4, <3>8, <4>1, CashSame
      <3> QED
        BY <2>4, <3>8, <3>9, <3>10 DEF Known
    <2>12. CASE booked
      <3>1. Dividend(a).record < day /\ Entitlement(a) = Held(a) /\ Held(a) > 0 /\ Valid(a) /\ Dividend(a).stock > 0
        BY <2>1, <2>7, <2>12
      <3>2. shares = Shares(a)
        BY <3>1 DEF Shares
      <3> HIDE DEF shares, y
      <3>3. StockGiven(a)'
        BY <2>8, <3>1
      <3>4. Unlisted(a)'
        <4>1. Settles(Dividend(a).list, Dividend(a).record, Dividend(a).ex)
          BY <3>1 DEF Valid
        <4>2. Since(a, Dividend(a).list) => Todo("list", a)
          <5>1. SUFFICES ASSUME Dividend(a).list <= day, Dividend(a).list \in Nat PROVE Dividend(a).list = day
            BY <2>1, <2>7, <4>1 DEF Since, Settles
          <5>2. CASE Dividend(a).ex = None
            BY <2>1, <5>2 DEF StockDay
          <5>3. CASE Dividend(a).ex # None
            BY <2>1, <2>7, <4>1, <5>1, <5>3 DEF StockDay, Settles
          <5> QED
            BY <5>2, <5>3
        <4>3. Since(a, Dividend(a).list)' <=> Since(a, Dividend(a).list)
          BY <2>3, <2>6 DEF Since
        <4>4. Todo("list", a)' <=> Todo("list", a)
          BY <2>3 DEF Bookings
        <4> QED
          BY <2>6, <3>3, <4>2, <4>3, <4>4 DEF Unlisted
      <3>5. \A s : IF s = y THEN StockOf(s)'[a] = Shares(a) /\ UnlistedOf(s)'[a] = Shares(a)
                   ELSE StockOf(s)'[a] = 0 /\ UnlistedOf(s)'[a] = 0
        BY <2>1, <2>4, <2>6, <3>3, <3>4 DEF StockOf, UnlistedOf, y
      <3>6. /\ pendingStock'[a] = [symbol |-> y, quantity |-> Shares(a)]
            /\ \A b \in Loaded : b # a => pendingStock'[b] = pendingStock[b]
        BY <2>1, <2>2, <2>5, <2>12, <3>2 DEF Loaded
      <3>7. Coming(a)'
        BY <2>6, <3>4, <3>6 DEF Coming, y
      <3>8. Owed(a)'
        <4>1. Owed(a)
          BY <2>1, <2>4 DEF Known
        <4> QED
          BY <2>2, <2>6, <4>1 DEF Owed
      <3>9. Paid'[a] = Paid[a]
        BY <2>1, <2>4, <2>6 DEF Paid
      <3>10. \A b \in Loaded : b # a => /\ \A s : StockOf(s)'[b] = StockOf(s)[b] /\ UnlistedOf(s)'[b] = UnlistedOf(s)[b]
                                        /\ Paid'[b] = Paid[b] /\ Owed(b)' /\ Coming(b)'
        BY <2>1, <2>2, <2>4, <3>6, OthersKnown
      <3>11. ASSUME NEW s \in Symbols, s \notin Delisted PROVE SharesKnown(s)'
        <4>1. SharesKnown(s)
          BY <2>4, <3>11 DEF Known
        <4>2. CASE s = y
          <5>1. quantity'[s] = quantity[s] + Shares(a) /\ listing'[s] = listing[s] + Shares(a)
            BY <2>2, <2>5, <2>12, <3>2, <4>2
          <5>2. quantity[s] \in Nat /\ listing[s] \in Nat
            BY <2>5
          <5>3. /\ quantity'[s] = quantity[s] - StockOf(s)[a] + Shares(a)
                /\ listing'[s] = listing[s] - UnlistedOf(s)[a] + Shares(a)
            BY <2>10, <5>1, <5>2
          <5>4. StockOf(s)'[a] = Shares(a) /\ UnlistedOf(s)'[a] = Shares(a)
            BY <3>5, <4>2
          <5>5. \A b \in Loaded : b # a => StockOf(s)'[b] = StockOf(s)[b] /\ UnlistedOf(s)'[b] = UnlistedOf(s)[b]
            BY <3>10
          <5>6. UNCHANGED <<world, fills>> /\ Applied' = Applied /\ ClosesType /\ a \in Loaded /\ Shares(a) \in Nat
            BY <2>1, <2>2, <2>3, <2>4, <2>7
          <5> HIDE DEF booked
          <5> QED
            BY <4>1, <5>3, <5>4, <5>5, <5>6, SharesChange
        <4>3. CASE s # y
          <5>1. quantity'[s] = quantity[s] /\ listing'[s] = listing[s]
            BY <2>2, <2>5, <2>12, <4>3
          <5>2. \A b \in Loaded : StockOf(s)'[b] = StockOf(s)[b] /\ UnlistedOf(s)'[b] = UnlistedOf(s)[b]
            BY <2>10, <3>5, <3>10, <4>3
          <5> QED
            BY <2>2, <2>3, <2>4, <4>1, <5>1, <5>2, SharesKept
        <4> QED
          BY <4>2, <4>3
      <3>12. CashKnown'
        <4>1. CashKnown
          BY <2>4 DEF Known
        <4>2. \A b \in Loaded : Paid'[b] = Paid[b]
          BY <3>9, <3>10
        <4> QED
          BY <2>2, <2>3, <2>4, <4>1, <4>2, CashSame
      <3> QED
        BY <2>4, <3>7, <3>8, <3>10, <3>11, <3>12 DEF Known
    <2> QED
      BY <2>11, <2>12
  <1> QED
    BY <1>1, <1>2

LEMMA SettleKnown ==
  ASSUME IndInv, OrdersInv, InOrder, Captured, FillsLeft, Known, NEW a \in ActionIds, Settle(a)
  PROVE  Known'
  <1>1. /\ phase = "morning" /\ a \in Loaded /\ Todo("settle", a)
        /\ IF Dividend(a).record < day THEN Entitlement(a) = Held(a) /\ (Held(a) > 0 => Valid(a))
                                       ELSE Entitlement(a) = 0
        /\ Dividend(a).pay = day /\ ~Todo("cash", a)
    BY BookingDue DEF Settle, Bookings
  <1>2. /\ Done("settle", a) /\ UNCHANGED <<quantity, listing, pendingStock, fills, made>>
        /\ cash' = cash + IF receivable[a] = None THEN 0 ELSE receivable[a]
        /\ receivable' = [receivable EXCEPT ![a] = None]
    BY DEF Settle, SettleDividend, positions, broker
  <1>3. /\ UNCHANGED <<world, phase, day, closes>>
        /\ \A o \in Bookings : o # "settle" => (Todo(o, a)' <=> Todo(o, a))
        /\ ~Todo("settle", a)'
    BY <1>1, <1>2, BookingDone
  <1>4. /\ Unfinished /\ ClosesType /\ Applied' = Applied /\ Loaded' = Loaded /\ Delisted' = Delisted
    BY <1>1, <1>2, <1>3, WorldSame, DelistedSame DEF Unfinished, Captured, Applied
  <1>5. receivable \in [ActionIds -> Nat \cup {None}] /\ cash \in Nat
    BY DEF IndInv, Account, PortfolioType
  <1>6. /\ (StockGiven(a)' <=> StockGiven(a)) /\ (Unlisted(a)' <=> Unlisted(a)) /\ (CashGiven(a)' <=> CashGiven(a))
        /\ Dividend(a)' = Dividend(a) /\ Held(a)' = Held(a) /\ Shares(a)' = Shares(a)
    BY <1>1, <1>3, GivenSame DEF Bookings
  <1>7. /\ Held(a) \in Nat /\ Dividend(a).cash \in Nat /\ day \in Nat /\ Dividend(a).record \in Nat
        /\ Dividend(a).ex \in Nat \cup {None} /\ Held(a) * Dividend(a).cash \in Nat
    BY <1>1, <1>4, HeldType, LoadedType, DayType, Product DEF IndInv
  <1>8. CashPaid(a)' <=> Held(a) > 0 /\ Dividend(a).cash > 0 /\ Dividend(a).record < day
    <2>1. Since(a, Dividend(a).pay)' <=> Dividend(a).record < day
      BY <1>1, <1>3, <1>6, <1>7, NoneAssumption DEF Since
    <2> QED
      BY <1>3, <1>6, <2>1 DEF CashPaid
  <1>9. CashGiven(a) <=> Held(a) > 0 /\ Dividend(a).cash > 0 /\ Dividend(a).record < day
    <2>1. ASSUME Held(a) > 0, Dividend(a).cash > 0, Dividend(a).record < day
          PROVE  Since(a, CashDay(a))
      <3>1. Settles(Dividend(a).pay, Dividend(a).record, Dividend(a).ex)
        BY <1>1, <2>1 DEF Valid
      <3>2. CASE Dividend(a).ex = None
        BY <1>1, <1>7, <2>1, <3>2, NoneAssumption DEF CashDay, Since
      <3>3. CASE Dividend(a).ex # None
        BY <1>1, <1>7, <2>1, <3>1, <3>3 DEF CashDay, Since, Settles
      <3> QED
        BY <3>2, <3>3
    <2>2. Since(a, CashDay(a)) => Dividend(a).record < day
      BY DEF Since
    <2> QED
      BY <1>1, <2>1, <2>2 DEF CashGiven
  <1>10. ~CashPaid(a)
    BY <1>1 DEF CashPaid
  <1>11. receivable[a] = IF CashGiven(a) THEN Held(a) * Dividend(a).cash ELSE None
    BY <1>1, <1>4, <1>10 DEF Known, Owed
  <1>12. Paid[a] = 0 /\ Paid'[a] = IF CashGiven(a) THEN Held(a) * Dividend(a).cash ELSE 0
    BY <1>1, <1>4, <1>6, <1>8, <1>9, <1>10 DEF Paid
  <1>13. cash' = cash + Paid'[a] /\ Paid'[a] \in Nat
    BY <1>2, <1>5, <1>7, <1>11, <1>12, NoneAssumption
  <1>14. Owed(a)'
    <2>1. receivable'[a] = None
      BY <1>1, <1>2, <1>5
    <2> QED
      BY <1>6, <1>8, <1>9, <2>1 DEF Owed
  <1>15. Coming(a)'
    <2>1. Coming(a)
      BY <1>1, <1>4 DEF Known
    <2> QED
      BY <1>2, <1>4, <1>6, <2>1 DEF Coming
  <1>16. ASSUME NEW b \in Loaded, b # a
         PROVE  /\ \A s : StockOf(s)'[b] = StockOf(s)[b] /\ UnlistedOf(s)'[b] = UnlistedOf(s)[b]
                /\ Paid'[b] = Paid[b] /\ Owed(b)' /\ Coming(b)'
    <2>1. receivable'[b] = receivable[b] /\ pendingStock'[b] = pendingStock[b]
      BY <1>2, <1>5, <1>16 DEF Loaded
    <2> QED
      BY <1>1, <1>2, <1>4, <1>16, <2>1, OthersKnown
  <1>17. \A b \in Loaded : \A s : StockOf(s)'[b] = StockOf(s)[b] /\ UnlistedOf(s)'[b] = UnlistedOf(s)[b]
    <2>1. \A s : StockOf(s)'[a] = StockOf(s)[a] /\ UnlistedOf(s)'[a] = UnlistedOf(s)[a]
      BY <1>1, <1>4, <1>6 DEF StockOf, UnlistedOf
    <2> QED
      BY <1>16, <2>1
  <1>18. ASSUME NEW s \in Symbols, s \notin Delisted PROVE SharesKnown(s)'
    <2>1. SharesKnown(s)
      BY <1>4, <1>18 DEF Known
    <2> QED
      BY <1>2, <1>3, <1>4, <1>17, <2>1, SharesKept
  <1>19. CashKnown'
    <2>1. \A b \in Loaded : Paid[b] \in Int
      BY <1>4, Summands
    <2>2. Total(Paid', Loaded) = Total(Paid, Loaded) - Paid[a] + Paid'[a]
      <3>1. \A b \in Loaded \ {a} : Paid'[b] = Paid[b]
        BY <1>16
      <3>2. Paid'[a] \in Int
        BY <1>13
      <3> QED
        BY <1>1, <2>1, <3>1, <3>2, LoadedFinite, SumChanges
    <2>3. Total(Paid, Loaded) \in Int
      BY <2>1, LoadedFinite, SumInt
    <2>4. Total(Flows, 1 .. Applied) \in Int
      <3>1. IsFiniteSet(1 .. Applied) /\ \A i \in 1 .. Applied : Flows[i] \in Int
        BY <1>4, Summands, AppliedType, FS_Interval
      <3> QED
        BY <3>1, SumInt
    <2>5. cash = InitialCash + Total(Flows, 1 .. Applied) + Total(Paid, Loaded)
      BY <1>4 DEF Known, CashKnown
    <2>6. cash' = InitialCash + Total(Flows, 1 .. Applied) + Total(Paid', Loaded)
      BY <1>12, <1>13, <2>2, <2>3, <2>4, <2>5, CashAssumption
    <2>7. Flows' = Flows
      BY <1>2, <1>4, FillsSame
    <2> QED
      BY <1>4, <2>6, <2>7 DEF CashKnown
  <1> QED
    BY <1>4, <1>14, <1>15, <1>16, <1>18, <1>19 DEF Known

LEMMA ListKnown ==
  ASSUME IndInv, OrdersInv, InOrder, Captured, FillsLeft, Known, NEW a \in ActionIds, List(a)
  PROVE  Known'
  <1>1. CASE Fail("account")
    BY <1>1, FailKnown
  <1>2. CASE ~Fail("account")
    <2> DEFINE y == Dividend(a).symbol
    <2>1. /\ phase = "morning" /\ a \in Loaded /\ Todo("list", a) /\ Dividend(a).list = day
      BY BookingDue DEF List, Bookings
    <2>2. /\ Done("list", a) /\ UNCHANGED <<cash, quantity, receivable, fills, made>>
          /\ IF pendingStock[a] = None THEN UNCHANGED <<listing, pendingStock>>
             ELSE /\ listing' = [listing EXCEPT ![pendingStock[a].symbol] = @ - pendingStock[a].quantity]
                  /\ pendingStock' = [pendingStock EXCEPT ![a] = None]
      BY <1>2 DEF List, ListStockDividend, portfolio, positions, broker
    <2>3. /\ UNCHANGED <<world, phase, day, closes>>
          /\ \A o \in Bookings : o # "list" => (Todo(o, a)' <=> Todo(o, a))
          /\ ~Todo("list", a)'
      BY <2>1, <2>2, BookingDone
    <2>4. /\ Unfinished /\ ClosesType /\ Applied' = Applied /\ Loaded' = Loaded /\ Delisted' = Delisted
      BY <2>1, <2>2, <2>3, WorldSame, DelistedSame DEF Unfinished, Captured, Applied
    <2>5. /\ pendingStock \in [ActionIds -> [symbol : Symbols, quantity : Nat] \cup {None}]
          /\ listing \in [Symbols -> Nat] /\ quantity \in [Symbols -> Nat]
      BY DEF IndInv, Account, PortfolioType
    <2>6. /\ (StockGiven(a)' <=> StockGiven(a)) /\ (CashGiven(a)' <=> CashGiven(a)) /\ (CashPaid(a)' <=> CashPaid(a))
          /\ Dividend(a)' = Dividend(a) /\ Held(a)' = Held(a) /\ Shares(a)' = Shares(a)
      BY <2>1, <2>3, GivenSame DEF Bookings
    <2>7. /\ day \in Nat /\ Dividend(a).record \in Nat /\ y \in Symbols /\ Shares(a) \in Nat
      BY <2>1, <2>4, SharesType, LoadedType, DayType DEF IndInv
    <2>8. ~Unlisted(a)'
      <3>1. StockGiven(a)' => Since(a, Dividend(a).list)'
        BY <2>1, <2>3, <2>6, <2>7, NoneAssumption DEF StockGiven, Since
      <3> QED
        BY <2>3, <3>1 DEF Unlisted
    <2>9. Coming(a)
      BY <2>1, <2>4 DEF Known
    <2>10. pendingStock'[a] = None /\ \A b \in Loaded : b # a => pendingStock'[b] = pendingStock[b]
      BY <2>1, <2>2, <2>5 DEF Loaded
    <2>11. Coming(a)'
      BY <2>8, <2>10 DEF Coming
    <2>12. Owed(a)'
      <3>1. Owed(a)
        BY <2>1, <2>4 DEF Known
      <3> QED
        BY <2>2, <2>6, <3>1 DEF Owed
    <2>13. /\ \A s : StockOf(s)'[a] = StockOf(s)[a] /\ UnlistedOf(s)'[a] = 0
           /\ \A s : s # y => UnlistedOf(s)[a] = 0
           /\ Paid'[a] = Paid[a]
      BY <2>1, <2>4, <2>6, <2>8 DEF StockOf, UnlistedOf, Paid
    <2>14. \A b \in Loaded : b # a => /\ \A s : StockOf(s)'[b] = StockOf(s)[b] /\ UnlistedOf(s)'[b] = UnlistedOf(s)[b]
                                      /\ Paid'[b] = Paid[b] /\ Owed(b)' /\ Coming(b)'
      BY <2>1, <2>2, <2>4, <2>10, OthersKnown
    <2>15. y \notin Delisted => listing'[y] = listing[y] - UnlistedOf(y)[a]
      <3> SUFFICES ASSUME y \notin Delisted PROVE listing'[y] = listing[y] - UnlistedOf(y)[a]
        OBVIOUS
      <3>1. pendingStock[a] = IF Unlisted(a) THEN [symbol |-> y, quantity |-> Shares(a)] ELSE None
        BY <2>9 DEF Coming
      <3>2. UnlistedOf(y)[a] = IF Unlisted(a) THEN Shares(a) ELSE 0
        BY <2>1 DEF UnlistedOf
      <3>3. CASE pendingStock[a] = None
        <4>1. ~Unlisted(a) /\ listing' = listing
          <5>1. [symbol |-> y, quantity |-> Shares(a)] # None
            BY <2>7, NoneAssumption
          <5> QED
            BY <2>2, <3>1, <3>3, <5>1
        <4> QED
          BY <2>5, <2>7, <3>2, <4>1
      <3>4. CASE pendingStock[a] # None
        <4>1. Unlisted(a) /\ pendingStock[a].symbol = y /\ pendingStock[a].quantity = Shares(a)
          BY <3>1, <3>4
        <4> QED
          BY <2>2, <2>5, <2>7, <3>2, <3>4, <4>1
      <3> QED
        BY <3>3, <3>4
    <2>16. \A s \in Symbols : s # y => listing'[s] = listing[s]
      BY <2>2, <2>5, <2>9 DEF Coming
    <2> HIDE DEF y
    <2>17. ASSUME NEW s \in Symbols, s \notin Delisted PROVE SharesKnown(s)'
      <3>1. SharesKnown(s)
        BY <2>4, <2>17 DEF Known
      <3>2. listing'[s] = listing[s] - UnlistedOf(s)[a] /\ quantity'[s] = quantity[s]
        <4>1. CASE s = y
          BY <2>2, <2>15, <2>17, <4>1
        <4>2. CASE s # y
          BY <2>2, <2>5, <2>13, <2>16, <4>2
        <4> QED
          BY <4>1, <4>2
      <3>3. StockOf(s)[a] \in Nat /\ UnlistedOf(s)[a] \in Nat
        BY <2>1, <2>4, Summands
      <3>4. quantity[s] \in Nat /\ listing[s] \in Nat
        BY <2>5
      <3>5. /\ quantity'[s] = quantity[s] - StockOf(s)[a] + StockOf(s)[a]
            /\ listing'[s] = listing[s] - UnlistedOf(s)[a] + 0
        BY <3>2, <3>3, <3>4
      <3>6. StockOf(s)'[a] = StockOf(s)[a] /\ UnlistedOf(s)'[a] = 0
        BY <2>13
      <3>7. \A b \in Loaded : b # a => StockOf(s)'[b] = StockOf(s)[b] /\ UnlistedOf(s)'[b] = UnlistedOf(s)[b]
        BY <2>14
      <3>8. UNCHANGED <<world, fills>> /\ Applied' = Applied /\ ClosesType /\ a \in Loaded
        BY <2>1, <2>2, <2>3, <2>4
      <3> QED
        BY <3>1, <3>3, <3>5, <3>6, <3>7, <3>8, SharesChange
    <2>18. CashKnown'
      <3>1. CashKnown
        BY <2>4 DEF Known
      <3>2. \A b \in Loaded : Paid'[b] = Paid[b]
        BY <2>13, <2>14
      <3> QED
        BY <2>2, <2>3, <2>4, <3>1, <3>2, CashSame
    <2> QED
      BY <2>4, <2>11, <2>12, <2>14, <2>17, <2>18 DEF Known
  <1> QED
    BY <1>1, <1>2

LEMMA MorningOrEveningKnown ==
  ASSUME IndInv, OrdersInv, InOrder, Captured, FillsLeft, DividendsInv, Known, MorningOrEvening
  PROVE  Known'
  <1> PICK a \in ActionIds :
        Capture(a) \/ CancelOnEx(a) \/ ConfirmCash(a) \/ ConfirmStock(a) \/ Settle(a) \/ List(a)
    BY DEF MorningOrEvening
  <1>1. CASE Capture(a)
    <2>1. CASE Fail("action")
      BY <2>1, FailKnown
    <2>2. CASE CaptureEntitlement(a, Dividend(a).symbol) /\ Done("capture", a) /\ UNCHANGED broker
      BY <1>1, <2>2, DoneKnown DEF Capture, CaptureEntitlement, positions, broker, matching, Bookings
    <2> QED
      BY <1>1, <2>1, <2>2 DEF Capture
  <1>2. CASE CancelOnEx(a)
    BY <1>2, DoneKnown DEF CancelOnEx, CancelSymbols, CancelOrders, portfolio, positions, matching, Bookings
  <1> QED
    BY <1>1, <1>2, ConfirmCashKnown, ConfirmStockKnown, SettleKnown, ListKnown

LEMMA NextKnown ==
  ASSUME IndInv, OrdersInv, InOrder, Captured, RunningInv, FillsLeft, DividendsInv, Gone, Known, [Next]_vars,
         IndInv', OrdersInv', FillsLeft', Captured'
  PROVE  Known'
  BY StartSessionKnown, MorningOrEveningKnown, CheckLifecyclesKnown, FillKnown, EndSessionKnown, ElsewhereKnown
     DEF Next, Ended

\* Nothing but zeros.
LEMMA SumZero ==
  ASSUME NEW S, IsFiniteSet(S), NEW f, \A x \in S : f[x] = 0
  PROVE  Total(f, S) = 0
  <1>1. Total(f, S) = Total(f, {})
    BY SumSame
  <1>2. Total(f, {}) = 0
    BY SumFacts
  <1> QED
    BY <1>1, <1>2

LEMMA InitKnown == Init => Known
  <1> SUFFICES ASSUME Init PROVE Known
    OBVIOUS
  <1>1. /\ phase = "closed" /\ closes = [d \in {} |-> 0] /\ fills = <<>> /\ cash = InitialCash
        /\ quantity = [s \in Symbols |-> 0] /\ listing = [s \in Symbols |-> 0]
        /\ receivable = [a \in ActionIds |-> None] /\ pendingStock = [a \in ActionIds |-> None]
    BY DEF Init, PortfolioInit, BrokerInit
  <1>2. \A a \in Loaded : Held(a) = 0
    BY <1>1 DEF Held
  <1>3. \A a \in Loaded : ~StockGiven(a) /\ ~Unlisted(a) /\ ~CashGiven(a) /\ ~CashPaid(a)
    BY <1>2 DEF StockGiven, Unlisted, CashGiven, CashPaid
  <1>4. \A a \in Loaded : Owed(a) /\ Coming(a)
    BY <1>1, <1>3 DEF Owed, Coming, Loaded
  <1>5. Applied = 0 /\ 1 .. 0 = {}
    BY <1>1 DEF Applied
  <1>6. IsFiniteSet({})
    BY FS_EmptySet
  <1>7. \A s : Total(FillsOf(s), {}) = 0
    BY <1>6, SumZero
  <1>8. Total(Flows, {}) = 0
    BY <1>6, SumZero
  <1>9. \A s : \A a \in Loaded : StockOf(s)[a] = 0 /\ UnlistedOf(s)[a] = 0
    BY <1>3 DEF StockOf, UnlistedOf
  <1>10. \A s : Total(StockOf(s), Loaded) = 0 /\ Total(UnlistedOf(s), Loaded) = 0
    BY <1>9, LoadedFinite, SumZero
  <1>11. \A a \in Loaded : Paid[a] = 0
    BY <1>3 DEF Paid
  <1>12. Total(Paid, Loaded) = 0
    BY <1>11, LoadedFinite, SumZero
  <1>13. ASSUME NEW s \in Symbols PROVE SharesKnown(s)
    <2>1. Total(FillsOf(s), 1 .. Applied) = 0 /\ Total(StockOf(s), Loaded) = 0 /\ Total(UnlistedOf(s), Loaded) = 0
      BY <1>5, <1>7, <1>10
    <2>2. quantity[s] = 0 /\ listing[s] = 0
      BY <1>1
    <2>3. quantity[s] = Total(FillsOf(s), 1 .. Applied) + Total(StockOf(s), Loaded)
      BY <2>1, <2>2
    <2> QED
      BY <2>1, <2>2, <2>3 DEF SharesKnown
  <1>14. CashKnown
    BY <1>1, <1>5, <1>8, <1>12, CashAssumption DEF CashKnown
  <1> QED
    BY <1>4, <1>13, <1>14 DEF Known
-----------------------------------------------------------------------------
(* In a session, what has been given is what is due. *)

LEMMA KnownAccounted ==
  ASSUME IndInv, OrdersInv, FillsLeft, Captured, Gone, Known, phase = "open"
  PROVE  SharesAccounted /\ ListingAccounted /\ CashAccounted
  <1> DEFINE shares == [a \in Loaded |-> Shares(a)]
             dividends == [a \in Loaded |-> Held(a) * Dividend(a).cash]
             bookings == [i \in DOMAIN fills |-> Bought(i)]
             flows == [i \in DOMAIN fills |-> Flow(fills[i])]
  <1>1. /\ Unfinished /\ ClosesType /\ \A a, op : ~Todo(op, a)
        /\ Applied = Len(fills) /\ DOMAIN fills = 1 .. Applied /\ IsFiniteSet(1 .. Applied)
    <2>1. Applied = Len(fills) /\ Len(fills) \in Nat /\ DOMAIN fills = 1 .. Len(fills)
      BY DEF Applied, OrdersInv, IndInv, Books
    <2> QED
      BY <2>1, FS_Interval DEF Unfinished, Captured, OrdersInv, AgendaOpen, Todo
  <1>2. ASSUME NEW a \in Loaded
        PROVE  /\ Held(a) \in Nat /\ Dividend(a).stock \in Nat /\ Dividend(a).cash \in Nat
               /\ StockGiven(a) <=> Held(a) > 0 /\ Dividend(a).stock > 0 /\ Confirmed(a)
               /\ Unlisted(a) <=> StockGiven(a) /\ ~Since(a, Dividend(a).list)
               /\ CashPaid(a) <=> Held(a) > 0 /\ Dividend(a).cash > 0 /\ Since(a, Dividend(a).pay)
               /\ ~(Held(a) > 0 /\ Dividend(a).stock > 0) => Shares(a) = 0
               /\ ~(Held(a) > 0 /\ Dividend(a).cash > 0) => Held(a) * Dividend(a).cash = 0
    <2>1. Held(a) \in Nat /\ Dividend(a).stock \in Nat /\ Dividend(a).cash \in Nat
      BY <1>1, HeldType, LoadedType DEF IndInv
    <2>2. StockGiven(a) <=> Held(a) > 0 /\ Dividend(a).stock > 0 /\ Confirmed(a)
      BY <1>1 DEF StockGiven, Confirmed, StockDay
    <2>3. Unlisted(a) <=> StockGiven(a) /\ ~Since(a, Dividend(a).list)
      BY <1>1 DEF Unlisted
    <2>4. CashPaid(a) <=> Held(a) > 0 /\ Dividend(a).cash > 0 /\ Since(a, Dividend(a).pay)
      BY <1>1 DEF CashPaid
    <2>5. ASSUME NEW x \in Nat, NEW y \in Nat, ~(x > 0 /\ y > 0) PROVE x * y = 0
      BY <2>5
    <2>6. ~(Held(a) > 0 /\ Dividend(a).stock > 0) => Shares(a) = 0
      <3>1. 0 \div RatioUnit = 0
        BY CashAssumption
      <3> QED
        BY <2>1, <2>5, <3>1 DEF Shares, StockDividend
    <2> QED
      BY <2>1, <2>2, <2>3, <2>4, <2>5, <2>6
  <1>3. /\ \A s : \A a \in Loaded : StockOf(s)[a] \in Int /\ UnlistedOf(s)[a] \in Int
        /\ \A a \in Loaded : Paid[a] \in Int
        /\ \A s : \A i \in 1 .. Applied : FillsOf(s)[i] \in Int
        /\ \A i \in 1 .. Applied : Flows[i] \in Int
    BY <1>1, Summands
  <1>4. ASSUME NEW s
        PROVE  Total(StockOf(s), Loaded) = Total(shares, {a \in Loaded : Dividend(a).symbol = s /\ Confirmed(a)})
    <2> DEFINE given == {a \in Loaded : Dividend(a).symbol = s /\ Confirmed(a)}
    <2>1. \A a \in given : shares[a] = StockOf(s)[a]
      BY <1>2 DEF StockOf
    <2>2. \A a \in Loaded \ given : StockOf(s)[a] = 0
      BY <1>2 DEF StockOf
    <2> HIDE DEF shares
    <2> QED
      BY <1>3, <2>1, <2>2, LoadedFinite, SumSame
  <1>5. ASSUME NEW s
        PROVE  Total(UnlistedOf(s), Loaded) =
                 Total(shares, {a \in Loaded : Dividend(a).symbol = s /\ Confirmed(a) /\ ~Since(a, Dividend(a).list)})
    <2> DEFINE coming == {a \in Loaded : Dividend(a).symbol = s /\ Confirmed(a) /\ ~Since(a, Dividend(a).list)}
    <2>1. \A a \in coming : shares[a] = UnlistedOf(s)[a]
      BY <1>2 DEF UnlistedOf
    <2>2. \A a \in Loaded \ coming : UnlistedOf(s)[a] = 0
      BY <1>2 DEF UnlistedOf
    <2> HIDE DEF shares
    <2> QED
      BY <1>3, <2>1, <2>2, LoadedFinite, SumSame
  <1>6. Total(Paid, Loaded) = Total(dividends, {a \in Loaded : Since(a, Dividend(a).pay)})
    <2> DEFINE paid == {a \in Loaded : Since(a, Dividend(a).pay)}
    <2>1. \A a \in paid : dividends[a] = Paid[a]
      BY <1>2 DEF Paid
    <2>2. \A a \in Loaded \ paid : Paid[a] = 0
      BY <1>2 DEF Paid
    <2> HIDE DEF dividends
    <2> QED
      BY <1>3, <2>1, <2>2, LoadedFinite, SumSame
  <1>7. ASSUME NEW s
        PROVE  Total(FillsOf(s), 1 .. Applied) = Total(bookings, {i \in DOMAIN fills : fills[i].symbol = s})
    <2> DEFINE own == {i \in DOMAIN fills : fills[i].symbol = s}
    <2>1. \A i \in own : bookings[i] = FillsOf(s)[i]
      BY <1>1 DEF FillsOf
    <2>2. (\A i \in (1 .. Applied) \ own : FillsOf(s)[i] = 0) /\ own \in SUBSET (1 .. Applied)
      BY <1>1 DEF FillsOf
    <2> HIDE DEF bookings, own
    <2>3. Total(FillsOf(s), 1 .. Applied) = Total(bookings, own)
      <3> DEFINE f == FillsOf(s)
                 all == 1 .. Applied
      <3>1. IsFiniteSet(all) /\ \A i \in all : f[i] \in Int
        BY <1>1, <1>3
      <3>2. own \in SUBSET all /\ (\A i \in own : bookings[i] = f[i]) /\ \A i \in all \ own : f[i] = 0
        BY <2>1, <2>2
      <3> HIDE DEF f, all
      <3>3. Total(f, all) = Total(bookings, own)
        BY <3>1, <3>2, SumSame
      <3> QED
        BY <3>3 DEF f, all
    <2> QED
      BY <2>3 DEF own
  <1>8. Total(Flows, 1 .. Applied) = Total(flows, DOMAIN fills)
    <2>1. \A i \in 1 .. Applied : flows[i] = Flows[i]
      BY <1>1 DEF Flows
    <2> HIDE DEF flows
    <2>2. Total(flows, 1 .. Applied) = Total(Flows, 1 .. Applied)
      BY <1>1, <1>3, <2>1, SumSameAll
    <2> QED
      BY <1>1, <2>2
  <1> HIDE DEF shares, dividends, bookings, flows
  <1>9. ASSUME NEW s \in Delisted PROVE quantity[s] = 0 /\ listing[s] = 0
    <2>1. quantity[s] = 0 /\ s \in Symbols
      BY DEF Gone, Delisted
    <2>2. sellable[s] \in Nat /\ listing[s] \in Nat /\ sellable[s] + listing[s] <= quantity[s]
      BY <2>1 DEF IndInv, Account, PortfolioType
    <2> QED
      BY <2>1, <2>2
  <1>10. ASSUME NEW s \in Symbols, s \notin Delisted
         PROVE  /\ quantity[s] = Total(FillsOf(s), 1 .. Applied) + Total(StockOf(s), Loaded)
                /\ listing[s] = Total(UnlistedOf(s), Loaded)
    BY <1>1, <1>10 DEF Known, SharesKnown
  <1>11. SharesAccounted
    <2>1. ASSUME NEW s \in Symbols
          PROVE  quantity[s] = IF s \in Delisted THEN 0
                               ELSE Total(bookings, {i \in DOMAIN fills : fills[i].symbol = s})
                                  + Total(shares, {a \in Loaded : Dividend(a).symbol = s /\ Confirmed(a)})
      BY <1>4, <1>7, <1>9, <1>10
    <2> QED
      BY <2>1 DEF SharesAccounted, bookings, shares
  <1>12. ListingAccounted
    <2>1. ASSUME NEW s \in Symbols
          PROVE  listing[s] = IF s \in Delisted THEN 0
                   ELSE Total(shares, {a \in Loaded : Dividend(a).symbol = s /\ Confirmed(a) /\ ~Since(a, Dividend(a).list)})
      BY <1>5, <1>9, <1>10
    <2> QED
      BY <2>1 DEF ListingAccounted, shares
  <1>13. CashAccounted
    <2>1. cash = InitialCash + Total(flows, DOMAIN fills)
                 + Total(dividends, {a \in Loaded : Since(a, Dividend(a).pay)})
      BY <1>1, <1>6, <1>8 DEF Known, CashKnown
    <2> QED
      BY <2>1 DEF CashAccounted, flows, dividends
  <1> QED
    BY <1>11, <1>12, <1>13

AccountedInv == JointInv /\ InOrder /\ Captured /\ Gone /\ FillsLeft /\ Known

\* What the account holds is known at every step, in the midst of the morning and
\* of the fills too.
THEOREM KnownThroughout == Spec => []AccountedInv
  <1>1. Init => AccountedInv
    <2>1. Init => JointInv
      BY InitInv, InitOrders, InitDividends, InitListing, InitRunning, InitError DEF JointInv
    <2> QED
      BY <2>1, InitCaptured, InitGone, InitKnown DEF AccountedInv
  <1>2. AccountedInv /\ [Next]_vars => AccountedInv'
    <2> SUFFICES ASSUME AccountedInv, [Next]_vars PROVE AccountedInv'
      OBVIOUS
    <2>1. JointInv'
      BY NextInv, NextOrders, NextDividends, NextListing, NextRunning, NextError DEF AccountedInv, JointInv
    <2>2. InOrder' /\ Captured' /\ Gone' /\ FillsLeft'
      BY NextInOrder, NextCaptured, NextGone DEF AccountedInv, JointInv
    <2>3. Known'
      BY <2>1, <2>2, NextKnown DEF AccountedInv, JointInv
    <2> QED
      BY <2>1, <2>2, <2>3 DEF AccountedInv
  <1> QED
    BY <1>1, <1>2, PTL DEF Spec

\* Portfolio and CorporateActionProcessor: whenever the strategy can look, every share,
\* every share that is not listed yet and every unit of cash follow from the fills and
\* from what was held at the record days, each dividend once, on any calendar and with
\* any corporate actions, delistings and orders.
THEOREM EverythingAccounted == Spec => []Accounted
  <1>1. AccountedInv => Accounted
    BY KnownAccounted DEF AccountedInv, JointInv, Accounted, SharesAccounted, ListingAccounted, CashAccounted
  <1> QED
    BY <1>1, KnownThroughout, PTL

-----------------------------------------------------------------------------
(* A position that is given up. *)

\* The shares an order is for; those of a symbol among some orders.
Sizes == [i \in DOMAIN orders |-> orders[i].quantity]
OwnIn(s, ids) == {i \in ids : orders[i].symbol = s}

\* They sell, and all are of the maximum but for the last, with which nothing is left to order.
SellsIn(s, ids, rest) ==
  \A i \in OwnIn(s, ids) :
    /\ orders[i].side = "sell" /\ orders[i].quantity \in 1 .. Maximum
    /\ orders[i].quantity = Maximum \/ (rest = 0 /\ \A j \in OwnIn(s, ids) : j <= i)

\* The orders that wait for the next bar, and what is still to order, are all that is held.
Asked(s, rest) ==
  /\ sellable[s] = quantity[s] /\ quantity[s] = Total(Sizes, OwnIn(s, pending)) + rest
  /\ SellsIn(s, pending, rest)
  /\ \A i \in OwnIn(s, pending) : SubmittedBy(i, day, slot)
  /\ \A g \in plan : g.symbol = s => g.side = "sell" /\ g.out /\ g.left = rest
  /\ rest = 0 \/ \E g \in plan : g.symbol = s

\* The bar lets the symbol trade as much as is asked for.
Freely(s) ==
  LET price == ExecutionPrice("sell", bars[s]) IN
  Tradable("sell", bars[s]) /\ bars[s].capacity = None /\ price >= Fee(price)

\* The fills of the symbol among some fills sell it, from one number of shares to another.
Leads(seq, s, start, end) ==
  /\ \A k \in DOMAIN seq : seq[k].symbol = s => seq[k].side = "sell"
  /\ \E h \in [0 .. Len(seq) -> Nat] :
       /\ h[0] = start /\ h[Len(seq)] = end
       /\ \A k \in 1 .. Len(seq) : h[k] = h[k - 1] - (IF seq[k].symbol = s THEN seq[k].quantity ELSE 0)

\* The fills under way leave so much.
Leaves(s, end) == sellable[s] = quantity[s] /\ Leads(made, s, sellable[s], end)

LeavingInv ==
  /\ leaving \subseteq Symbols
  /\ phase = "morning" => leaving = {}
  /\ phase = "ordering" => \A s \in leaving : \E rest \in Nat : Asked(s, rest)
  /\ phase = "open" => \A s \in leaving : Asked(s, 0)
  /\ phase = "matching" =>
       \A s \in leaving : Freely(s) =>
         /\ runSellable[s] = Total(Sizes, OwnIn(s, batch)) /\ SellsIn(s, batch, 0)
         /\ Leaves(s, runSellable[s])
  /\ phase = "filling" /\ Events[slot + 1] = "bar" => \A s \in leaving : Freely(s) => Leaves(s, 0)

LEMMA SumNat ==
  ASSUME NEW S, IsFiniteSet(S), NEW f, \A x \in S : f[x] \in Nat
  PROVE  Total(f, S) \in Nat
  <1> DEFINE P == {T \in SUBSET S : Total(f, T) \in Nat}
  <1>1. ASSUME NEW T \in SUBSET S, \A x \in T : T \ {x} \in P PROVE T \in P
    <2>1. IsFiniteSet(T) /\ \A x \in T : f[x] \in Int
      BY FS_Subset
    <2>2. CASE T = {}
      BY <2>1, <2>2, SumFacts
    <2>3. CASE T # {}
      <3>1. PICK x \in T : TRUE
        BY <2>3
      <3>2. Total(f, T) = f[x] + Total(f, T \ {x})
        BY <2>1, <3>1, SumFacts
      <3>3. Total(f, T \ {x}) \in Nat /\ f[x] \in Nat
        BY <1>1, <3>1
      <3> QED
        BY <3>2, <3>3
    <2> QED
      BY <2>2, <2>3
  <1>2. \A T \in SUBSET S : T \in P
    <2> HIDE DEF P
    <2> QED
      BY <1>1, SubsetInduction
  <1> QED
    BY <1>2

\* Orders have sizes, and a set of them has a sum.
LEMMA SizesType ==
  ASSUME Books, NEW s, NEW ids \in SUBSET DOMAIN orders
  PROVE  /\ IsFiniteSet(OwnIn(s, ids)) /\ OwnIn(s, ids) \subseteq DOMAIN orders
         /\ \A i \in DOMAIN orders : Sizes[i] = orders[i].quantity /\ Sizes[i] \in Nat
         /\ Total(Sizes, OwnIn(s, ids)) \in Nat
         /\ \A i \in OwnIn(s, ids) :
              /\ Total(Sizes, OwnIn(s, ids)) = Sizes[i] + Total(Sizes, OwnIn(s, ids) \ {i})
              /\ Total(Sizes, OwnIn(s, ids) \ {i}) \in Nat
  <1> DEFINE own == OwnIn(s, ids)
  <1>1. DOMAIN orders = 1 .. Len(orders) /\ Len(orders) \in Nat
    BY DEF Books
  <1>2. IsFiniteSet(DOMAIN orders) /\ own \subseteq DOMAIN orders
    BY <1>1, FS_Interval DEF OwnIn
  <1>3. \A i \in DOMAIN orders : Sizes[i] = orders[i].quantity /\ Sizes[i] \in Nat
    <2> SUFFICES ASSUME NEW i \in DOMAIN orders PROVE Sizes[i] = orders[i].quantity /\ Sizes[i] \in Nat
      OBVIOUS
    <2>1. orders[i] \in OrderType
      BY DEF Books
    <2> QED
      BY <2>1 DEF Sizes, OrderType
  <1> HIDE DEF own
  <1>4. \A T \in SUBSET own : IsFiniteSet(T) /\ (\A i \in T : Sizes[i] \in Nat) /\ \A i \in T : Sizes[i] \in Int
    <2>1. \A T \in SUBSET own : IsFiniteSet(T)
      BY <1>2, FS_Subset
    <2> QED
      BY <1>2, <1>3, <2>1
  <1>5. \A T \in SUBSET own : Total(Sizes, T) \in Nat
    BY <1>4, SumNat
  <1>6. \A i \in own : Total(Sizes, own) = Sizes[i] + Total(Sizes, own \ {i})
    BY <1>4, SumFacts
  <1> QED
    BY <1>2, <1>3, <1>4, <1>5, <1>6 DEF own

LEMMA NothingAsked == Total(Sizes, {}) = 0
  BY FS_EmptySet, SumZero

-----------------------------------------------------------------------------
LEMMA RebalanceLeaving ==
  ASSUME IndInv, LeavingInv, NEW w \in Weights, NEW e, Rebalance(w, e)
  PROVE  LeavingInv'
  <1>1. /\ phase = "open" /\ phase' = "ordering" /\ UNCHANGED <<sellable, quantity, orders, pending, day, slot>>
        /\ plan' = {Gap(s, Target(s, w[s], lastClose[s], e)) : s \in Symbols}
        /\ leaving' = {s \in Symbols : w[s] = 0 /\ sellable[s] = quantity[s] /\ ~Waiting(s)}
    BY DEF Rebalance, Calling, portfolio, positions, broker
  <1>2. quantity \in [Symbols -> Nat]
    BY DEF IndInv, Account, PortfolioType
  <1>3. ASSUME NEW s \in leaving' PROVE Asked(s, quantity[s])'
    <2>1. s \in Symbols /\ w[s] = 0 /\ sellable[s] = quantity[s] /\ quantity[s] \in Nat
      BY <1>1, <1>2, <1>3
    <2>2. OwnIn(s, pending)' = {}
      BY <1>1, <1>3 DEF OwnIn, Waiting
    <2>3. Total(Sizes, OwnIn(s, pending))' = 0
      BY <1>1, <2>2, NothingAsked DEF Sizes
    <2>4. Gap(s, Target(s, w[s], lastClose[s], e)) = [symbol |-> s, side |-> "sell", out |-> TRUE, left |-> quantity[s]]
      <3>1. Target(s, w[s], lastClose[s], e) = 0
        BY <2>1 DEF Target
      <3>2. ~(0 > quantity[s]) /\ quantity[s] - 0 = quantity[s]
        BY <2>1
      <3>3. Gap(s, 0) = [symbol |-> s, side |-> "sell", out |-> TRUE, left |-> quantity[s]]
        BY <3>2 DEF Gap
      <3> QED
        BY <3>1, <3>3
    <2>5. /\ \A g \in plan' : g.symbol = s => g.side = "sell" /\ g.out /\ g.left = quantity[s]
          /\ \E g \in plan' : g.symbol = s
      <3>1. \A t \in Symbols : Gap(t, Target(t, w[t], lastClose[t], e)).symbol = t
        BY DEF Gap
      <3> QED
        BY <1>1, <2>1, <2>4, <3>1
    <2> QED
      BY <1>1, <2>1, <2>2, <2>3, <2>5 DEF Asked, SellsIn
  <1>4. leaving' \subseteq Symbols
    BY <1>1
  <1>5. \A s \in leaving' : \E rest \in Nat : Asked(s, rest)'
    BY <1>1, <1>2, <1>3, <1>4
  <1> QED
    BY <1>1, <1>4, <1>5 DEF LeavingInv

\* The orders of a symbol stay when others come.
LEMMA OwnSame ==
  ASSUME Books, NEW s, NEW ids \in SUBSET DOMAIN orders, DOMAIN orders \subseteq DOMAIN orders',
         \A i \in DOMAIN orders : orders'[i] = orders[i]
  PROVE  Total(Sizes', OwnIn(s, ids)) = Total(Sizes, OwnIn(s, ids))
  <1>1. /\ IsFiniteSet(OwnIn(s, ids)) /\ OwnIn(s, ids) \subseteq DOMAIN orders
        /\ \A i \in DOMAIN orders : Sizes[i] = orders[i].quantity /\ Sizes[i] \in Nat
    BY SizesType
  <1>2. \A i \in OwnIn(s, ids) : Sizes[i] \in Int /\ Sizes'[i] = Sizes[i]
    BY <1>1 DEF Sizes
  <1> QED
    BY <1>1, <1>2, SumSameAll

LEMMA OrderGapLeaving == ASSUME IndInv, LeavingInv, OrderGap PROVE LeavingInv'
  <1>1. PICK g \in plan :
          IF Amount(g) = 0 THEN plan' = plan \ {g} /\ UNCHANGED broker
          ELSE /\ plan' = (plan \ {g}) \cup {[g EXCEPT !.left = @ - Amount(g)]}
               /\ Submit(g.symbol, g.side, Amount(g), day, slot)
    BY DEF OrderGap
  <1>2. phase = "ordering" /\ UNCHANGED <<phase, day, slot, leaving, quantity, sellable>>
    BY DEF OrderGap, portfolio, positions, ghosts
  <1>3. g \in GapType /\ plan \subseteq GapType /\ quantity \in [Symbols -> Nat] /\ leaving \subseteq Symbols
    BY <1>1 DEF IndInv, Engine, Account, PortfolioType, LeavingInv
  <1>4. DOMAIN orders = 1 .. Len(orders) /\ Len(orders) \in Nat /\ pending \subseteq DOMAIN orders /\ Books
    BY DEF IndInv, Books
  <1> DEFINE n == Len(orders)
             more == [symbol |-> g.symbol, side |-> g.side, quantity |-> Amount(g), day |-> day, instant |-> slot]
  <1>5. \/ UNCHANGED <<orders, pending>>
        \/ /\ orders' = Append(orders, more) /\ pending' = pending \cup {n + 1}
           /\ orders'[n + 1] = more /\ DOMAIN orders' = 1 .. n + 1
    BY <1>1, <1>4 DEF Submit, broker, Books
  <1> HIDE DEF more
  <1>6. /\ DOMAIN orders \subseteq DOMAIN orders' /\ \A i \in DOMAIN orders : orders'[i] = orders[i]
        /\ pending' \subseteq pending \cup {n + 1} /\ pending \subseteq pending'
    BY <1>4, <1>5 DEF Books
  <1>7. day \in Nat /\ slot \in Nat
    BY DayType DEF IndInv
  <1>8. ASSUME NEW s \in leaving PROVE \E rest \in Nat : Asked(s, rest)'
    <2>1. PICK rest \in Nat : Asked(s, rest)
      BY <1>2, <1>8 DEF LeavingInv
    <2>2. Total(Sizes', OwnIn(s, pending)) = Total(Sizes, OwnIn(s, pending))
      BY <1>4, <1>6, OwnSame
    <2>3. CASE g.symbol # s
      <3>1. OwnIn(s, pending)' = OwnIn(s, pending)
        BY <1>4, <1>5, <1>6, <2>3 DEF OwnIn, more
      <3>2. Total(Sizes, OwnIn(s, pending))' = Total(Sizes, OwnIn(s, pending))
        BY <2>2, <3>1
      <3>3. /\ SellsIn(s, pending, rest)'
            /\ \A i \in OwnIn(s, pending)' : SubmittedBy(i, day, slot)'
        <4>1. \A i \in OwnIn(s, pending) : orders'[i] = orders[i]
          BY <1>4, <1>6 DEF OwnIn
        <4> QED
          BY <1>2, <2>1, <3>1, <4>1 DEF Asked, SellsIn, SubmittedBy
      <3>4. \A h : h.symbol = s => (h \in plan' <=> h \in plan)
        <4>1. [g EXCEPT !.left = @ - Amount(g)].symbol = g.symbol
          BY <1>3 DEF GapType
        <4> QED
          BY <1>1, <2>3, <4>1
      <3>5. Asked(s, rest)'
        BY <1>2, <2>1, <3>2, <3>3, <3>4 DEF Asked
      <3> QED
        BY <3>5
    <2>4. CASE g.symbol = s
      <3>1. g.side = "sell" /\ g.out = TRUE /\ g.left = rest
        BY <1>1, <1>3, <2>1, <2>4 DEF Asked, GapType
      <3>2. Amount(g) = Least(rest, Maximum)
        BY <3>1 DEF Amount
      <3>3. Maximum \in Nat \ {0}
        BY RuleAssumption
      <3>4. CASE Amount(g) = 0
        <4>1. rest = 0
          BY <3>2, <3>3, <3>4 DEF Least
        <4>2. plan' = plan \ {g} /\ UNCHANGED <<orders, pending>>
          BY <1>1, <3>4 DEF broker
        <4>3. Asked(s, rest)'
          BY <1>2, <2>1, <4>1, <4>2 DEF Asked, SellsIn, OwnIn, Sizes, SubmittedBy
        <4> QED
          BY <4>3
      <3>5. CASE Amount(g) # 0
        <4> DEFINE a == Amount(g)
        <4>1. a \in 1 .. Maximum /\ a <= rest /\ (a = Maximum \/ a = rest)
          BY <3>2, <3>3, <3>5 DEF Least
        <4>2. plan' = (plan \ {g}) \cup {[g EXCEPT !.left = @ - a]}
          BY <1>1, <3>5
        <4>3. /\ pending' = pending \cup {n + 1} /\ orders'[n + 1] = more /\ DOMAIN orders' = 1 .. n + 1
          BY <1>1, <1>4, <3>5 DEF Submit, more, Books
        <4>4. more.symbol = s /\ more.side = "sell" /\ more.quantity = a /\ more.day = day /\ more.instant = slot
          BY <2>4, <3>1 DEF more
        <4> HIDE DEF a
        <4>5. OwnIn(s, pending)' = OwnIn(s, pending) \cup {n + 1} /\ n + 1 \notin OwnIn(s, pending)
          BY <1>4, <1>6, <4>3, <4>4 DEF OwnIn
        <4>6. Total(Sizes, OwnIn(s, pending))' = a + Total(Sizes, OwnIn(s, pending))
          <5> DEFINE own == OwnIn(s, pending)
                     sizes == Sizes'
          <5>1. IsFiniteSet(own) /\ (\A i \in own : Sizes[i] \in Nat /\ sizes[i] = Sizes[i]) /\ own \subseteq DOMAIN orders
            <6>1. /\ IsFiniteSet(own) /\ own \subseteq DOMAIN orders
                  /\ \A i \in DOMAIN orders : Sizes[i] = orders[i].quantity /\ Sizes[i] \in Nat
              BY <1>4, SizesType
            <6> QED
              BY <1>6, <6>1 DEF Sizes
          <5>2. sizes[n + 1] = a
            BY <1>4, <4>3, <4>4 DEF Sizes
          <5>3. Total(sizes, own) = Total(Sizes, own)
            BY <2>2
          <5> HIDE DEF own, sizes
          <5>4. IsFiniteSet(own \cup {n + 1})
            BY <5>1, FS_AddElement
          <5>5. (own \cup {n + 1}) \ {n + 1} = own
            BY <4>5 DEF own
          <5>6. \A i \in own \cup {n + 1} : sizes[i] \in Int
            BY <4>1, <5>1, <5>2
          <5>7. Total(sizes, own \cup {n + 1}) = sizes[n + 1] + Total(sizes, (own \cup {n + 1}) \ {n + 1})
            BY <5>4, <5>6, SumFacts
          <5>8. Total(sizes, own \cup {n + 1}) = a + Total(Sizes, own)
            BY <5>2, <5>3, <5>5, <5>7
          <5> QED
            BY <4>5, <5>8 DEF own, sizes
        <4>7. Total(Sizes, OwnIn(s, pending)) \in Nat /\ quantity[s] = Total(Sizes, OwnIn(s, pending)) + rest
          BY <1>4, <2>1, SizesType DEF Asked
        <4>8. quantity'[s] = Total(Sizes, OwnIn(s, pending))' + (rest - a) /\ sellable'[s] = quantity'[s]
          BY <1>2, <2>1, <4>1, <4>6, <4>7 DEF Asked
        <4>9. ASSUME NEW i \in OwnIn(s, pending)'
              PROVE  /\ orders'[i].side = "sell" /\ orders'[i].quantity \in 1 .. Maximum
                     /\ orders'[i].quantity = Maximum \/ (rest - a = 0 /\ \A j \in OwnIn(s, pending)' : j <= i)
                     /\ SubmittedBy(i, day, slot)'
          <5>1. CASE i = n + 1
            <6>1. orders'[i] = more
              BY <4>3, <5>1
            <6>2. \A j \in OwnIn(s, pending)' : j <= n + 1
              BY <1>4, <4>5 DEF OwnIn
            <6>3. SubmittedBy(i, day, slot)'
              BY <1>2, <1>7, <4>4, <6>1 DEF SubmittedBy
            <6>4. a = Maximum \/ rest - a = 0
              BY <4>1
            <6> QED
              BY <4>1, <4>4, <5>1, <6>1, <6>2, <6>3, <6>4
          <5>2. CASE i \in OwnIn(s, pending)
            <6>1. orders'[i] = orders[i]
              BY <1>4, <1>6, <5>2 DEF OwnIn
            <6>2. orders[i].side = "sell" /\ orders[i].quantity \in 1 .. Maximum /\ orders[i].quantity = Maximum
              BY <2>1, <4>1, <5>2 DEF Asked, SellsIn
            <6>3. SubmittedBy(i, day, slot)'
              BY <1>2, <2>1, <5>2, <6>1 DEF Asked, SubmittedBy
            <6> QED
              BY <6>1, <6>2, <6>3
          <5> QED
            BY <4>5, <4>9, <5>1, <5>2
        <4>10. \A h \in plan' : h.symbol = s => h.side = "sell" /\ h.out /\ h.left = rest - a
          <5> SUFFICES ASSUME NEW h \in plan', h.symbol = s PROVE h.side = "sell" /\ h.out /\ h.left = rest - a
            OBVIOUS
          <5>1. CASE h = [g EXCEPT !.left = @ - a]
            BY <1>3, <3>1, <5>1 DEF GapType
          <5>2. CASE h \in plan \ {g}
            <6>1. h.side = "sell" /\ h.out = TRUE /\ h.left = rest /\ h \in GapType
              BY <1>3, <2>1, <5>2 DEF Asked, GapType
            <6>2. h = g
              BY <1>3, <2>4, <3>1, <6>1 DEF GapType
            <6> QED
              BY <5>2, <6>2
          <5> QED
            BY <4>2, <5>1, <5>2
        <4>11. \E h \in plan' : h.symbol = s
          <5>1. [g EXCEPT !.left = @ - a].symbol = s
            BY <1>3, <2>4 DEF GapType
          <5> QED
            BY <4>2, <5>1
        <4>12. Asked(s, rest - a)'
          BY <4>8, <4>9, <4>10, <4>11 DEF Asked, SellsIn
        <4> QED
          BY <4>1, <4>12
      <3> QED
        BY <3>4, <3>5
    <2> QED
      BY <2>3, <2>4
  <1> QED
    BY <1>2, <1>3, <1>8 DEF LeavingInv

LEMMA MarketEventLeaving == ASSUME IndInv, RunningInv, LeavingInv, MarketEvent PROVE LeavingInv'
  <1>1. /\ phase = "open" /\ UNCHANGED <<leaving, slot, day, orders, quantity, sellable>>
        /\ made' = <<>> /\ slot < Len(Events)
        /\ \/ phase' = "filling" /\ Events[slot + 1] = "auction"
           \/ /\ phase' = "matching" /\ runSellable' = sellable
              /\ batch' = {i \in pending : SubmittedBy(i, day, slot)}
    BY DEF MarketEvent, TakeOrders, RunningInv, portfolio, positions, broker, ghosts
  <1>2. CASE phase' = "filling"
    BY <1>1, <1>2 DEF LeavingInv
  <1>3. CASE phase' = "matching"
    <2>1. ASSUME NEW s \in leaving
          PROVE  /\ runSellable'[s] = Total(Sizes, OwnIn(s, batch))' /\ SellsIn(s, batch, 0)'
                 /\ Leaves(s, runSellable[s])'
      <3>1. Asked(s, 0) /\ s \in Symbols
        BY <1>1, <2>1 DEF LeavingInv
      <3>2. OwnIn(s, batch)' = OwnIn(s, pending)
        BY <1>1, <1>3, <3>1 DEF Asked, OwnIn
      <3>3. sellable[s] = quantity[s] /\ sellable[s] \in Nat
        BY <3>1 DEF Asked, IndInv, Account, PortfolioType
      <3>4. Total(Sizes, OwnIn(s, pending)) \in Nat
        BY SizesType DEF IndInv, Books
      <3>5. runSellable'[s] = Total(Sizes, OwnIn(s, batch))'
        BY <1>1, <1>3, <3>1, <3>2, <3>3, <3>4 DEF Asked, Sizes
      <3>6. SellsIn(s, batch, 0)'
        BY <1>1, <3>1, <3>2 DEF Asked, SellsIn
      <3>7. \E h \in [0 .. 0 -> Nat] : h[0] = sellable[s]
        <4>1. [k \in 0 .. 0 |-> sellable[s]] \in [0 .. 0 -> Nat] /\ [k \in 0 .. 0 |-> sellable[s]][0] = sellable[s]
          BY <3>3
        <4> QED
          BY <4>1
      <3>8. Leaves(s, runSellable[s])'
        BY <1>1, <1>3, <3>3, <3>7 DEF Leaves, Leads
      <3> QED
        BY <3>5, <3>6, <3>8
    <2> QED
      BY <1>1, <1>3, <2>1 DEF LeavingInv
  <1> QED
    BY <1>1, <1>2, <1>3

LEMMA MatchedLeaving == ASSUME IndInv, LeavingInv, Matched PROVE LeavingInv'
  <1>1. /\ phase = "matching" /\ phase' = "filling" /\ batch = {}
        /\ UNCHANGED <<leaving, slot, bars, quantity, sellable, made>>
    BY DEF Matched, EndMatching, portfolio, positions, ghosts
  <1>2. ASSUME NEW s \in leaving, Freely(s) PROVE Leaves(s, 0)'
    <2>1. Leaves(s, runSellable[s]) /\ runSellable[s] = Total(Sizes, OwnIn(s, batch))
      BY <1>1, <1>2 DEF LeavingInv
    <2>2. OwnIn(s, batch) = {}
      BY <1>1 DEF OwnIn
    <2>3. Leaves(s, 0)
      BY <2>1, <2>2, NothingAsked
    <2> QED
      BY <1>1, <2>3 DEF Leaves, Leads
  <1>3. \A s : Freely(s)' <=> Freely(s)
    BY <1>1 DEF Freely
  <1> QED
    BY <1>1, <1>2, <1>3 DEF LeavingInv

LEMMA FillLeaving == ASSUME IndInv, RunningInv, LeavingInv, Fill PROVE LeavingInv'
  <1> DEFINE fill == Head(made)
             n == Len(made)
  <1>1. CASE Fail("account")
    BY <1>1 DEF Fail, LeavingInv, ghosts
  <1>2. CASE ApplyFill(fill) /\ made' = Tail(made) /\ UNCHANGED <<phase, leaving, slot, bars>>
    <2>1. /\ phase = "filling" /\ made \in Seq(FillType) /\ n \in Nat \ {0} /\ fill = made[1] /\ fill \in FillType
          /\ Len(made') = n - 1 /\ \A k \in 1 .. n - 1 : made'[k] = made[k + 1]
      BY <1>2 DEF Fill, IndInv, Books
    <2>2. quantity \in [Symbols -> Nat] /\ sellable \in [Symbols -> Nat] /\ leaving \subseteq Symbols
      BY DEF IndInv, Account, PortfolioType, LeavingInv
    <2>3. /\ fill.symbol \in Symbols /\ fill.quantity \in Nat
          /\ fill.side = "buy" \/ fill.side = "sell"
      BY <2>1 DEF FillType
    <2>4. ASSUME NEW s \in leaving, Leaves(s, 0) PROVE Leaves(s, 0)'
      <3> DEFINE taken == IF fill.symbol = s THEN fill.quantity ELSE 0
      <3>1. /\ sellable[s] = quantity[s] /\ \A k \in 1 .. n : made[k].symbol = s => made[k].side = "sell"
        BY <2>1, <2>4 DEF Leaves, Leads
      <3>2. PICK h \in [0 .. n -> Nat] :
              /\ h[0] = sellable[s] /\ h[n] = 0
              /\ \A k \in 1 .. n : h[k] = h[k - 1] - (IF made[k].symbol = s THEN made[k].quantity ELSE 0)
        BY <2>4 DEF Leaves, Leads
      <3>3. quantity'[s] = quantity[s] - taken /\ sellable'[s] = sellable[s] - taken
        <4>1. CASE fill.symbol = s
          <5>1. fill.side = "sell"
            BY <2>1, <3>1, <4>1
          <5> QED
            BY <1>2, <2>2, <4>1, <5>1 DEF ApplyFill, ApplySell
        <4>2. CASE fill.symbol # s
          BY <1>2, <2>2, <4>2 DEF ApplyFill, ApplySell, ApplyBuy
        <4> QED
          BY <4>1, <4>2
      <3>4. h[1] = sellable'[s]
        BY <2>1, <3>2, <3>3
      <3> DEFINE g == [k \in 0 .. n - 1 |-> h[k + 1]]
      <3>5. g \in [0 .. n - 1 -> Nat] /\ g[0] = sellable'[s] /\ g[n - 1] = 0
        <4>1. \A k \in 0 .. n - 1 : k + 1 \in 0 .. n
          BY <2>1
        <4> QED
          BY <2>1, <3>2, <3>4, <4>1
      <3>6. \A k \in 1 .. n - 1 : g[k] = g[k - 1] - (IF made'[k].symbol = s THEN made'[k].quantity ELSE 0)
        <4> SUFFICES ASSUME NEW k \in 1 .. n - 1
                     PROVE  g[k] = g[k - 1] - (IF made'[k].symbol = s THEN made'[k].quantity ELSE 0)
          OBVIOUS
        <4>1. g[k] = h[k + 1] /\ g[k - 1] = h[k] /\ made'[k] = made[k + 1] /\ k + 1 \in 1 .. n /\ (k + 1) - 1 = k
          BY <2>1
        <4>2. h[k + 1] = h[(k + 1) - 1] - (IF made[k + 1].symbol = s THEN made[k + 1].quantity ELSE 0)
          BY <3>2, <4>1
        <4> QED
          BY <4>1, <4>2
      <3> HIDE DEF g, taken
      <3>7. \A k \in DOMAIN made' : made'[k].symbol = s => made'[k].side = "sell"
        <4> SUFFICES ASSUME NEW k \in 1 .. n - 1 PROVE made'[k].symbol = s => made'[k].side = "sell"
          BY <1>2, <2>1
        <4>1. made'[k] = made[k + 1] /\ k + 1 \in 1 .. n
          BY <2>1
        <4> QED
          BY <3>1, <4>1
      <3>8. sellable'[s] = quantity'[s]
        BY <3>1, <3>3
      <3>9. \E f \in [0 .. Len(made') -> Nat] :
              /\ f[0] = sellable'[s] /\ f[Len(made')] = 0
              /\ \A k \in 1 .. Len(made') : f[k] = f[k - 1] - (IF made'[k].symbol = s THEN made'[k].quantity ELSE 0)
        BY <2>1, <3>5, <3>6
      <3> QED
        BY <3>7, <3>8, <3>9 DEF Leaves, Leads
    <2>5. \A s : Freely(s)' <=> Freely(s)
      BY <1>2 DEF Freely
    <2> QED
      BY <1>2, <2>1, <2>2, <2>4, <2>5 DEF LeavingInv
  <1> QED
    BY <1>1, <1>2 DEF Fill, engine

\* One more fill under way.
LEMMA OneMoreFill ==
  ASSUME Books, NEW fill, made' = Append(made, fill), UNCHANGED <<sellable, quantity>>,
         NEW s, NEW before, Leaves(s, before), NEW after \in Nat,
         after = before - (IF fill.symbol = s THEN fill.quantity ELSE 0),
         fill.symbol = s => fill.side = "sell"
  PROVE  sellable'[s] = quantity'[s] /\ Leads(made', s, sellable'[s], after)
  <1> DEFINE n == Len(made)
  <1>1. n \in Nat /\ Len(made') = n + 1 /\ made'[n + 1] = fill /\ DOMAIN made' = 1 .. n + 1
        /\ \A k \in 1 .. n : made'[k] = made[k] /\ k \in DOMAIN made
    BY DEF Books
  <1>2. sellable[s] = quantity[s] /\ \A k \in DOMAIN made : made[k].symbol = s => made[k].side = "sell"
    BY DEF Leaves, Leads
  <1>3. PICK h \in [0 .. n -> Nat] :
          /\ h[0] = sellable[s] /\ h[n] = before
          /\ \A k \in 1 .. n : h[k] = h[k - 1] - (IF made[k].symbol = s THEN made[k].quantity ELSE 0)
    BY DEF Leaves, Leads
  <1> HIDE DEF n
  <1>4. ASSUME NEW k \in 1 .. n + 1 PROVE k = n + 1 \/ k \in 1 .. n
    BY <1>1
  <1>5. \A k \in DOMAIN made' : made'[k].symbol = s => made'[k].side = "sell"
    <2> SUFFICES ASSUME NEW k \in 1 .. n + 1 PROVE made'[k].symbol = s => made'[k].side = "sell"
      BY <1>1
    <2>1. CASE k = n + 1
      BY <1>1, <2>1
    <2>2. CASE k \in 1 .. n
      BY <1>1, <1>2, <2>2
    <2> QED
      BY <1>4, <2>1, <2>2
  <1> DEFINE g == [k \in 0 .. n + 1 |-> IF k = n + 1 THEN after ELSE h[k]]
  <1>6. g \in [0 .. n + 1 -> Nat] /\ g[0] = h[0] /\ g[n + 1] = after /\ \A k \in 0 .. n : g[k] = h[k]
    BY <1>1, <1>3
  <1> HIDE DEF g
  <1>7. ASSUME NEW k \in 1 .. n + 1
        PROVE  g[k] = g[k - 1] - (IF made'[k].symbol = s THEN made'[k].quantity ELSE 0)
    <2>1. CASE k = n + 1
      <3>1. g[k] = after /\ g[k - 1] = before /\ made'[k] = fill
        BY <1>1, <1>3, <1>6, <2>1
      <3> QED
        BY <3>1
    <2>2. CASE k \in 1 .. n
      <3>1. g[k] = h[k] /\ g[k - 1] = h[k - 1] /\ made'[k] = made[k]
        BY <1>1, <1>6, <2>2
      <3>2. h[k] = h[k - 1] - (IF made[k].symbol = s THEN made[k].quantity ELSE 0)
        BY <1>3, <2>2
      <3> QED
        BY <3>1, <3>2
    <2> QED
      BY <1>4, <2>1, <2>2
  <1>8. g[0] = sellable'[s]
    BY <1>3, <1>6
  <1>9. \E f \in [0 .. Len(made') -> Nat] :
          /\ f[0] = sellable'[s] /\ f[Len(made')] = after
          /\ \A k \in 1 .. Len(made') : f[k] = f[k - 1] - (IF made'[k].symbol = s THEN made'[k].quantity ELSE 0)
    <2>1. /\ g \in [0 .. n + 1 -> Nat] /\ g[0] = sellable'[s] /\ g[n + 1] = after
          /\ \A k \in 1 .. n + 1 : g[k] = g[k - 1] - (IF made'[k].symbol = s THEN made'[k].quantity ELSE 0)
      BY <1>6, <1>7, <1>8
    <2>2. Len(made') = n + 1
      BY <1>1
    <2> QED
      BY <2>1, <2>2
  <1>10. sellable'[s] = quantity'[s]
    BY <1>2
  <1> QED
    BY <1>5, <1>9, <1>10 DEF Leads

\* The maximum is a size the rule allows.
LEMMA MaximumValid == Maximum \in Nat \ {0} /\ \A l \in BOOLEAN : ValidQuantity(Maximum, l)
  <1>1. Maximum \in Nat \ {0} /\ Minimum <= Maximum /\ Step \in Nat \ {0} /\ Minimum \in Nat
    BY RuleAssumption
  <1>2. PICK n \in 1 .. Maximum : Maximum = n * Step
    BY RuleAssumption
  <1>3. (n * Step) \div Step = n
    BY <1>1
  <1>4. Least(Maximum, Maximum) = Maximum
    BY DEF Least
  <1>5. (Maximum \div Step) * Step = Maximum
    BY <1>2, <1>3
  <1>6. RoundDown(Maximum) = Maximum
    BY <1>1, <1>4, <1>5 DEF RoundDown
  <1> QED
    BY <1>1, <1>6 DEF ValidQuantity

\* Where one share pays for its fee, several do.
LEMMA FeePaid ==
  ASSUME NEW price \in Nat, price >= Fee(price), NEW q \in Nat \ {0}
  PROVE  q * price >= Fee(q * price)
  <1>1. MinimumCommission \in Nat /\ FeeDivisor \in Nat \ {0}
    BY RuleAssumption
  <1>2. price >= MinimumCommission
    <2>1. price \div FeeDivisor \in Nat
      BY <1>1, QuotientType
    <2> QED
      BY <1>1, <2>1 DEF Fee, Greatest
  <1>3. q * price \in Nat /\ q * price >= price
    <2>1. q - 1 \in Nat /\ q * price = (q - 1) * price + price
      OBVIOUS
    <2>2. (q - 1) * price \in Nat
      BY <2>1, Product
    <2> QED
      BY <2>1, <2>2, Product
  <1> DEFINE x == q * price
  <1>4. x \in Nat /\ x >= MinimumCommission
    BY <1>1, <1>2, <1>3
  <1> HIDE DEF x
  <1>5. x \div FeeDivisor <= x
    <2> DEFINE y == x \div FeeDivisor
    <2>1. y \in Nat /\ y * FeeDivisor <= x
      BY <1>1, <1>4, QuotientType
    <2>2. FeeDivisor - 1 \in Nat /\ y * FeeDivisor = y * (FeeDivisor - 1) + y
      BY <1>1, <2>1
    <2>3. y * (FeeDivisor - 1) \in Nat
      BY <2>1, <2>2, Product
    <2> HIDE DEF y
    <2>4. y <= x
      BY <1>4, <2>1, <2>2, <2>3
    <2> QED
      BY <2>4 DEF y
  <1>6. x >= Fee(x)
    BY <1>4, <1>5 DEF Fee, Greatest
  <1> QED
    BY <1>6 DEF x

\* A sell order of a symbol that trades freely, of an allowed size or of all that is left, is filled.
LEMMA SoldInFull ==
  ASSUME IndInv, NEW o \in OrderType, o.side = "sell", NEW shares \in Nat, NEW money \in Nat,
         o.quantity \in 1 .. Maximum, o.quantity <= shares, o.quantity = Maximum \/ o.quantity = shares,
         Freely(o.symbol), NEW q \in Nat, Executes(o, q, bars[o.symbol], money, shares)
  PROVE  q = o.quantity
  <1> DEFINE bar == bars[o.symbol]
             price == ExecutionPrice("sell", bar)
  <1>1. o.symbol \in Symbols /\ o.quantity \in Nat \ {0} /\ Maximum \in Nat
    BY RuleAssumption DEF OrderType
  <1>2. bar \in Bars /\ bar.open \in Nat /\ bar.down \in Nat
    <2>1. bar \in Bars
      BY <1>1 DEF IndInv, Engine
    <2>2. bar.open # None
      BY DEF Freely, Tradable
    <2> QED
      BY <2>1, <2>2, WorldAssumption
  <1>3. price \in Nat /\ price >= Fee(price) /\ Tradable("sell", bar) /\ bar.capacity = None
    <2>1. price \in Nat
      BY <1>2, RuleAssumption DEF ExecutionPrice, Greatest
    <2> QED
      BY <2>1 DEF Freely
  <1>4. ValidQuantity(o.quantity, o.side = "sell" /\ o.quantity = shares)
    <2>1. CASE o.quantity = Maximum
      BY <2>1, MaximumValid
    <2>2. CASE o.quantity = shares
      BY <1>1, <2>2 DEF ValidQuantity
    <2> QED
      BY <2>1, <2>2
  <1>5. Capped(o.quantity, bar.capacity) = o.quantity /\ Least(o.quantity, shares) = o.quantity
    BY <1>1, <1>3 DEF Capped, Least
  <1>6. o.quantity * price \in Nat /\ Fee(o.quantity * price) <= o.quantity * price
    BY <1>1, <1>3, FeePaid, Product
  <1>7. Fee(o.quantity * price) \in Nat
    <2>1. (o.quantity * price) \div FeeDivisor \in Nat /\ MinimumCommission \in Nat
      BY <1>6, QuotientType, RuleAssumption
    <2> QED
      BY <2>1 DEF Fee, Greatest
  <1>8. ~(money + o.quantity * price - Fee(o.quantity * price) < 0)
    BY <1>6, <1>7
  <1> HIDE DEF price, bar
  <1>9. ExecutionPrice(o.side, bar) = price /\ Tradable(o.side, bar) /\ o.side # "buy"
    BY <1>3 DEF price
  <1>10. Executes(o, q, bar, money, shares)
    BY DEF bar
  <1> QED
    BY <1>4, <1>5, <1>8, <1>9, <1>10 DEF Executes

LEMMA MatchLeaving == ASSUME IndInv, RunningInv, LeavingInv, Match PROVE LeavingInv'
  <1>1. PICK i \in batch : TryOrder(i, bars, day)
    BY DEF Match
  <1> DEFINE o == orders[i]
             bar == bars[o.symbol]
  <1>2. i \in DOMAIN orders /\ o \in OrderType /\ i \in Nat /\ batch \in SUBSET DOMAIN orders /\ Books
    BY DEF IndInv, Books
  <1>3. PICK q \in 0 .. o.quantity :
          /\ Executes(o, q, bar, runCash, runSellable[o.symbol])
          /\ made' = IF q = 0 THEN made ELSE Append(made, FillOf(i, q, bar, day))
          /\ runSellable' = IF o.side = "buy" THEN runSellable ELSE [runSellable EXCEPT ![o.symbol] = @ - q]
    BY <1>1 DEF TryOrder
  <1>4. /\ \A j \in batch : Precedes(i, j)
        /\ batch' = batch \ {i} /\ UNCHANGED orders
    BY <1>1 DEF TryOrder
  <1>5. q \in Nat /\ o.symbol \in Symbols /\ o.side \in {"buy", "sell"} /\ o.quantity \in Nat
    BY <1>2 DEF OrderType
  <1>6. phase = "matching" /\ UNCHANGED <<phase, bars, leaving, sellable, quantity>>
    BY DEF Match, engine, portfolio, positions, ghosts
  <1>7. runCash \in Nat /\ runSellable \in [Symbols -> Nat]
    <2>1. PICK p \in [0 .. Len(made) -> Nat], h \in [0 .. Len(made) -> [Symbols -> Nat]] : LeadsTo(p, h)
      BY <1>6 DEF RunningInv, Covered
    <2>2. Len(made) \in 0 .. Len(made)
      BY DEF IndInv, Books
    <2> QED
      BY <1>6, <2>1, <2>2 DEF LeadsTo
  <1> DEFINE fill == FillOf(i, q, bar, day)
  <1>8. fill.symbol = o.symbol /\ fill.side = o.side /\ fill.quantity = q
    BY DEF FillOf
  <1>9. made' = IF q = 0 THEN made ELSE Append(made, fill)
    BY <1>3
  <1> HIDE DEF fill
  <1>10. leaving \subseteq Symbols
    BY DEF LeavingInv
  <1>11. ASSUME NEW s \in leaving, Freely(s)
         PROVE  /\ runSellable'[s] = Total(Sizes, OwnIn(s, batch))' /\ SellsIn(s, batch, 0)'
                /\ Leaves(s, runSellable[s])'
    <2>1. runSellable[s] = Total(Sizes, OwnIn(s, batch)) /\ SellsIn(s, batch, 0) /\ Leaves(s, runSellable[s])
      BY <1>6, <1>11 DEF LeavingInv
    <2>2. SellsIn(s, batch, 0)'
      <3>1. OwnIn(s, batch)' \subseteq OwnIn(s, batch)
        BY <1>4 DEF OwnIn
      <3> QED
        BY <1>4, <2>1, <3>1 DEF SellsIn
    <2>3. runSellable[s] \in Nat /\ s \in Symbols
      BY <1>7, <1>10, <1>11
    <2>4. CASE o.symbol # s
      <3>1. OwnIn(s, batch)' = OwnIn(s, batch) /\ Sizes' = Sizes
        BY <1>4, <2>4 DEF OwnIn, Sizes
      <3>2. runSellable'[s] = runSellable[s]
        BY <1>3, <1>7, <2>3, <2>4
      <3>3. runSellable'[s] = Total(Sizes, OwnIn(s, batch))'
        BY <2>1, <3>1, <3>2
      <3>4. Leaves(s, runSellable[s])'
        <4>1. CASE q = 0
          <5>1. made' = made
            BY <1>9, <4>1
          <5> QED
            BY <1>6, <2>1, <3>2, <5>1 DEF Leaves
        <4>2. CASE q # 0
          <5>1. made' = Append(made, fill)
            BY <1>9, <4>2
          <5>2. runSellable'[s] = runSellable[s] - (IF fill.symbol = s THEN fill.quantity ELSE 0)
            BY <1>8, <2>3, <2>4, <3>2
          <5>3. fill.symbol # s /\ runSellable'[s] \in Nat
            BY <1>8, <2>3, <2>4, <3>2
          <5> DEFINE before == runSellable[s]
                     after == runSellable'[s]
          <5>4. Books /\ UNCHANGED <<sellable, quantity>> /\ Leaves(s, before) /\ after \in Nat
            BY <1>2, <1>6, <2>1, <5>3
          <5>5. after = before - (IF fill.symbol = s THEN fill.quantity ELSE 0) /\ (fill.symbol = s => fill.side = "sell")
            BY <5>2, <5>3
          <5> HIDE DEF before, after
          <5>6. sellable'[s] = quantity'[s] /\ Leads(made', s, sellable'[s], after)
            BY <5>1, <5>4, <5>5, OneMoreFill
          <5> QED
            BY <5>6 DEF Leaves, after
        <4> QED
          BY <4>1, <4>2
      <3> QED
        BY <2>2, <3>3, <3>4
    <2>5. CASE o.symbol = s
      <3> DEFINE own == OwnIn(s, batch)
      <3>1. /\ i \in own /\ o.side = "sell" /\ o.quantity \in 1 .. Maximum
            /\ o.quantity = Maximum \/ \A j \in own : j <= i
        BY <2>1, <2>5 DEF OwnIn, SellsIn
      <3>2. /\ Total(Sizes, own) = o.quantity + Total(Sizes, own \ {i}) /\ Total(Sizes, own \ {i}) \in Nat
        BY <1>2, <3>1, SizesType
      <3>3. o.quantity = Maximum \/ o.quantity = runSellable[s]
        <4>1. SUFFICES ASSUME \A j \in own : j <= i PROVE o.quantity = runSellable[s]
          BY <3>1
        <4>2. ASSUME NEW j \in own PROVE j = i
          <5>1. orders[j].symbol = s /\ orders[j].side = "sell" /\ j \in batch /\ j \in Nat
            BY <1>2, <2>1, <4>2 DEF OwnIn, SellsIn, IndInv, Books
          <5>2. i <= j
            BY <1>4, <2>5, <3>1, <5>1 DEF Precedes
          <5> QED
            BY <1>2, <4>1, <5>1, <5>2
        <4>3. own \ {i} = {}
          BY <4>2
        <4>4. Total(Sizes, own \ {i}) = 0
          BY <4>3, NothingAsked
        <4>5. Total(Sizes, own) = o.quantity
          BY <1>5, <3>2, <4>4
        <4> QED
          BY <2>1, <4>5
      <3>4. o.quantity <= runSellable[s]
        BY <1>5, <2>1, <3>2
      <3>5. q = o.quantity
        BY <1>2, <1>3, <1>5, <1>7, <1>11, <2>3, <2>5, <3>1, <3>3, <3>4, SoldInFull
      <3>6. runSellable'[s] = runSellable[s] - q /\ runSellable'[s] \in Nat /\ q # 0
        BY <1>3, <1>5, <1>7, <2>3, <2>5, <3>1, <3>4, <3>5
      <3>7. OwnIn(s, batch)' = own \ {i} /\ Sizes' = Sizes
        BY <1>4 DEF OwnIn, Sizes
      <3>8. runSellable'[s] = Total(Sizes, OwnIn(s, batch))'
        BY <1>5, <2>1, <3>2, <3>5, <3>6, <3>7
      <3>9. Leaves(s, runSellable[s])'
        <4>1. made' = Append(made, fill)
          BY <1>9, <3>6
        <4>2. runSellable'[s] = runSellable[s] - (IF fill.symbol = s THEN fill.quantity ELSE 0) /\ fill.side = "sell"
          BY <1>8, <2>5, <3>1, <3>6
        <4> DEFINE before == runSellable[s]
                   after == runSellable'[s]
        <4>3. Books /\ UNCHANGED <<sellable, quantity>> /\ Leaves(s, before) /\ after \in Nat
          BY <1>2, <1>6, <2>1, <3>6
        <4>4. after = before - (IF fill.symbol = s THEN fill.quantity ELSE 0) /\ (fill.symbol = s => fill.side = "sell")
          BY <4>2
        <4> HIDE DEF before, after
        <4>5. sellable'[s] = quantity'[s] /\ Leads(made', s, sellable'[s], after)
          BY <4>1, <4>3, <4>4, OneMoreFill
        <4> QED
          BY <4>5 DEF Leaves, after
      <3> QED
        BY <2>2, <3>8, <3>9
    <2> QED
      BY <2>4, <2>5
  <1>12. \A s : Freely(s)' <=> Freely(s)
    BY <1>6 DEF Freely
  <1> QED
    BY <1>6, <1>10, <1>11, <1>12 DEF LeavingInv

\* The steps that end with nothing leaving, or outside of trading, and the end of ordering.
LEMMA OtherLeaving ==
  ASSUME IndInv, LeavingInv,
         \/ StartSession \/ MorningOrEvening \/ CheckLifecycles \/ Mark \/ EndOrdering
         \/ (\E s \in Symbols, side \in {"buy", "sell"}, n \in Quantities : OrderShares(s, side, n))
         \/ (\E i \in DOMAIN orders : Cancel(i))
         \/ EndSession \/ CloseSession \/ FinishRun \/ UNCHANGED vars
  PROVE  LeavingInv'
  <1>1. ASSUME leaving' = {} PROVE LeavingInv'
    BY <1>1 DEF LeavingInv
  <1>2. ASSUME phase' \notin {"morning", "ordering", "open", "matching", "filling"}, leaving' = leaving PROVE LeavingInv'
    BY <1>2 DEF LeavingInv
  <1>3. ASSUME NEW kind, Fail(kind) PROVE LeavingInv'
    BY <1>2, <1>3 DEF Fail, ghosts
  <1>4. CASE StartSession
    BY <1>1, <1>4 DEF StartSession
  <1>5. CASE MorningOrEvening
    <2> PICK a \in ActionIds :
          Capture(a) \/ CancelOnEx(a) \/ ConfirmCash(a) \/ ConfirmStock(a) \/ Settle(a) \/ List(a)
      BY <1>5 DEF MorningOrEvening
    <2>1. phase \in {"morning", "evening"}
      BY DEF Capture, CancelOnEx, ConfirmCash, ConfirmStock, Settle, List, Due
    <2>2. \/ Fail("action") \/ Fail("account")
          \/ phase' = phase /\ leaving' = leaving
      BY DEF Capture, CancelOnEx, ConfirmCash, ConfirmStock, Settle, List, Done, ghosts
    <2> QED
      BY <1>1, <1>2, <1>3, <2>1, <2>2 DEF LeavingInv
  <1>6. CASE CheckLifecycles
    BY <1>1, <1>3, <1>6 DEF CheckLifecycles, LeavingInv, ghosts
  <1>7. CASE Mark
    BY <1>1, <1>3, <1>7 DEF Mark
  <1>8. CASE EndOrdering
    <2>1. /\ phase = "ordering" /\ phase' = "open" /\ plan = {}
          /\ UNCHANGED <<leaving, plan, orders, pending, quantity, sellable, day, slot>>
      BY <1>8 DEF EndOrdering, portfolio, positions, broker, ghosts
    <2>2. ASSUME NEW s \in leaving PROVE Asked(s, 0)'
      <3>1. PICK rest \in Nat : Asked(s, rest)
        BY <2>1, <2>2 DEF LeavingInv
      <3>2. rest = 0
        BY <2>1, <3>1 DEF Asked
      <3> QED
        BY <2>1, <3>1, <3>2 DEF Asked, SellsIn, OwnIn, Sizes, SubmittedBy
    <2> QED
      BY <2>1, <2>2 DEF LeavingInv
  <1>9. CASE \E s \in Symbols, side \in {"buy", "sell"}, n \in Quantities : OrderShares(s, side, n)
    BY <1>1, <1>9 DEF OrderShares
  <1>10. CASE \E i \in DOMAIN orders : Cancel(i)
    BY <1>1, <1>10 DEF Cancel
  <1>11. CASE EndSession \/ CloseSession \/ FinishRun
    BY <1>2, <1>11 DEF EndSession, CloseSession, FinishRun, ghosts
  <1>12. CASE UNCHANGED vars
    <2>1. \A s, rest : Asked(s, rest)' <=> Asked(s, rest)
      BY <1>12 DEF vars, Asked, SellsIn, OwnIn, Sizes, SubmittedBy
    <2>2. \A s : (Leaves(s, 0)' <=> Leaves(s, 0)) /\ (Leaves(s, runSellable[s])' <=> Leaves(s, runSellable[s]))
      BY <1>12 DEF vars, Leaves
    <2>3. \A s : (Freely(s)' <=> Freely(s)) /\ (SellsIn(s, batch, 0)' <=> SellsIn(s, batch, 0))
                 /\ Total(Sizes, OwnIn(s, batch))' = Total(Sizes, OwnIn(s, batch))
      BY <1>12 DEF vars, Freely, SellsIn, OwnIn, Sizes
    <2>4. UNCHANGED <<phase, leaving, slot, runSellable>>
      BY <1>12 DEF vars
    <2> QED
      BY <2>1, <2>2, <2>3, <2>4 DEF LeavingInv
  <1> QED
    BY <1>4, <1>5, <1>6, <1>7, <1>8, <1>9, <1>10, <1>11, <1>12

LEMMA NextLeaving == IndInv /\ RunningInv /\ LeavingInv /\ [Next]_vars => LeavingInv'
  BY RebalanceLeaving, OrderGapLeaving, MarketEventLeaving, MatchLeaving, MatchedLeaving, FillLeaving, OtherLeaving
     DEF Next, Strategy, Ended

LEMMA InitLeaving == Init => LeavingInv
  BY DEF Init, LeavingInv

LEMMA LeavingSold == ASSUME IndInv, LeavingInv PROVE SoldOut
  <1> SUFFICES ASSUME phase = "filling", made = <<>>, Events[slot + 1] = "bar", NEW s \in leaving, Freely(s)
               PROVE  quantity[s] = 0
    BY DEF SoldOut, Freely
  <1>1. Leaves(s, 0)
    BY DEF LeavingInv
  <1>2. PICK h \in [0 .. Len(made) -> Nat] : h[0] = sellable[s] /\ h[Len(made)] = 0
    BY <1>1 DEF Leaves, Leads
  <1> QED
    BY <1>1, <1>2 DEF Leaves, Leads

SoldInv == JointInv /\ LeavingInv

\* create_orders and match_bar: from the target of 0 to the last fill of the bar, the
\* orders of a position that is given up add up to what is held of it.
THEOREM LeavingThroughout == Spec => []SoldInv
  <1>1. Init => SoldInv
    BY InitInv, InitOrders, InitDividends, InitListing, InitRunning, InitError, InitLeaving DEF JointInv, SoldInv
  <1>2. SoldInv /\ [Next]_vars => SoldInv'
    <2> SUFFICES ASSUME SoldInv, [Next]_vars PROVE SoldInv'
      OBVIOUS
    <2>1. JointInv'
      BY NextInv, NextOrders, NextDividends, NextListing, NextRunning, NextError DEF SoldInv, JointInv
    <2>2. LeavingInv'
      BY NextLeaving DEF SoldInv, JointInv
    <2> QED
      BY <2>1, <2>2 DEF SoldInv
  <1> QED
    BY <1>1, <1>2, PTL DEF Spec

\* create_orders, match_bar and the account's fills: a target of 0 for a position that
\* may all be sold leaves nothing of it after a bar that lets it trade, however many
\* orders the maximum splits it into, its last, odd lot included.
THEOREM GivenUpIsSoldOut == Spec => []SoldOut
  <1>1. SoldInv => SoldOut
    BY LeavingSold DEF SoldInv, JointInv
  <1> QED
    BY <1>1, LeavingThroughout, PTL
=============================================================================
