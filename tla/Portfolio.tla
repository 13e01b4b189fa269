----------------------------- MODULE Portfolio -----------------------------
(***************************************************************************)
(* backtest/portfolio.py: the account of a simulated A-share investor.     *)
(* One action per method; a method that raises has a predicate for it, and *)
(* whoever calls the method ends the run when the predicate holds.         *)
(*                                                                         *)
(* Money is counted in whole units.  Of the prices only the last valuation *)
(* price is kept, not whether it is stale, which no other step reads.      *)
(***************************************************************************)
EXTENDS Integers

CONSTANTS
  Symbols,     \* the securities, by their stable identity
  ActionIds,   \* the corporate actions, by their id
  InitialCash, \* config.initial_cash
  RatioUnit,   \* a stock dividend of n gives n / RatioUnit new shares for one
  None

ASSUME CashAssumption == InitialCash \in Nat \ {0} /\ RatioUnit \in Nat \ {0}

VARIABLES
  cash,
  quantity,    \* symbol -> all shares held
  sellable,    \* symbol -> shares that may be sold today
  listing,     \* symbol -> dividend shares that are not listed yet
  lastPrice,   \* symbol -> the last valuation price, or None
  receivable,  \* action -> confirmed dividend that is not paid yet, or None
  entitled,    \* action -> shares held at the close of the record day, or None
  pendingStock \* action -> dividend shares that are not listed yet, or None

positions == <<quantity, sellable, listing>>
portfolio == <<cash, quantity, sellable, listing, lastPrice, receivable, entitled, pendingStock>>

PortfolioInit ==
  /\ cash = InitialCash
  /\ quantity = [s \in Symbols |-> 0]
  /\ sellable = [s \in Symbols |-> 0]
  /\ listing = [s \in Symbols |-> 0]
  /\ lastPrice = [s \in Symbols |-> None]
  /\ receivable = [a \in ActionIds |-> None]
  /\ entitled = [a \in ActionIds |-> None]
  /\ pendingStock = [a \in ActionIds |-> None]

-----------------------------------------------------------------------------
(* Mutant: dividend shares that are not listed become sellable too. *)
UnlockEverything ==
  /\ sellable' = quantity
  /\ UNCHANGED <<cash, quantity, listing, lastPrice, receivable, entitled, pendingStock>>

\* What was bought before today becomes sellable.
UnlockT1 ==
  /\ sellable' = [s \in Symbols |-> quantity[s] - listing[s]]
  /\ UNCHANGED <<cash, quantity, listing, lastPrice, receivable, entitled, pendingStock>>

Cost(fill) == fill.notional + fill.fee
Proceeds(fill) == fill.notional - fill.fee

FillRefused(fill) ==
  \/ fill.quantity <= 0 \/ fill.notional < 0 \/ fill.fee < 0
  \/ fill.side = "buy" /\ Cost(fill) > cash
  \/ /\ fill.side = "sell"
     /\ fill.quantity > quantity[fill.symbol] \/ fill.quantity > sellable[fill.symbol]
                                              \/ cash + Proceeds(fill) < 0

\* Mutant: what was bought today may be sold today.
ApplyBuySellable(fill) ==
  /\ cash' = cash - Cost(fill)
  /\ quantity' = [quantity EXCEPT ![fill.symbol] = @ + fill.quantity]
  /\ sellable' = [sellable EXCEPT ![fill.symbol] = @ + fill.quantity]
  /\ UNCHANGED <<listing, lastPrice, receivable, entitled, pendingStock>>

ApplyBuy(fill) ==
  /\ cash' = cash - Cost(fill)
  /\ quantity' = [quantity EXCEPT ![fill.symbol] = @ + fill.quantity]
  /\ UNCHANGED <<sellable, listing, lastPrice, receivable, entitled, pendingStock>>

ApplySell(fill) ==
  /\ cash' = cash + Proceeds(fill)
  /\ quantity' = [quantity EXCEPT ![fill.symbol] = @ - fill.quantity]
  /\ sellable' = [sellable EXCEPT ![fill.symbol] = @ - fill.quantity]
  /\ lastPrice' = [lastPrice EXCEPT ![fill.symbol] = IF quantity'[fill.symbol] = 0 THEN None ELSE @]
  /\ UNCHANGED <<listing, receivable, entitled, pendingStock>>

ApplyFill(fill) ==
  /\ ~FillRefused(fill)
  /\ IF fill.side = "buy" THEN ApplyBuy(fill) ELSE ApplySell(fill)

\* A held symbol has never had a price.
Unpriced(prices) == \E s \in Symbols : quantity[s] > 0 /\ prices[s] = None /\ lastPrice[s] = None

MarkToMarket(prices) ==
  /\ ~Unpriced(prices)
  /\ lastPrice' = [s \in Symbols |->
       IF quantity[s] > 0 /\ prices[s] # None THEN prices[s] ELSE lastPrice[s]]
  /\ UNCHANGED <<cash, positions, receivable, entitled, pendingStock>>

-----------------------------------------------------------------------------
(* Corporate actions. *)

\* The shares held are kept; a second time changes nothing.
CaptureEntitlement(a, s) ==
  /\ entitled' = [entitled EXCEPT ![a] = IF @ = None THEN quantity[s] ELSE @]
  /\ UNCHANGED <<cash, positions, lastPrice, receivable, pendingStock>>

\* The dividend is owed: it counts as equity but cannot be spent.
RecognizeDividend(a, amount) ==
  /\ receivable[a] = None
  /\ receivable' = [receivable EXCEPT ![a] = amount]
  /\ UNCHANGED <<cash, positions, lastPrice, entitled, pendingStock>>

\* The dividend that is owed becomes cash.
SettleDividend(a) ==
  /\ cash' = cash + IF receivable[a] = None THEN 0 ELSE receivable[a]
  /\ receivable' = [receivable EXCEPT ![a] = None]
  /\ UNCHANGED <<positions, lastPrice, entitled, pendingStock>>

StockDividend(entitlement, ratio) == (entitlement * ratio) \div RatioUnit

\* Dividend shares are held, but not listed.
AddStockDividend(a, s, entitlement, ratio) ==
  LET shares == StockDividend(entitlement, ratio) IN
  /\ pendingStock[a] = None
  /\ quantity' = [quantity EXCEPT ![s] = @ + shares]
  /\ listing' = [listing EXCEPT ![s] = @ + shares]
  /\ pendingStock' = [pendingStock EXCEPT ![a] = [symbol |-> s, quantity |-> shares]]
  /\ UNCHANGED <<cash, sellable, lastPrice, receivable, entitled>>

ListedTooMany(a) == pendingStock[a] # None /\ pendingStock[a].quantity > listing[pendingStock[a].symbol]

\* The shares of the action are listed: they become sellable.
ListStockDividend(a) ==
  IF pendingStock[a] = None THEN UNCHANGED portfolio
  ELSE LET s == pendingStock[a].symbol
           shares == pendingStock[a].quantity IN
       /\ ~ListedTooMany(a)
       /\ listing' = [listing EXCEPT ![s] = @ - shares]
       /\ sellable' = [sellable EXCEPT ![s] = @ + shares]
       /\ pendingStock' = [pendingStock EXCEPT ![a] = None]
       /\ UNCHANGED <<cash, quantity, lastPrice, receivable, entitled>>

Zeroed(f, gone) == [s \in Symbols |-> IF s \in gone THEN 0 ELSE f[s]]

\* Mutant: dividend shares that are not listed survive.
PendingAll(gone) == pendingStock

\* The dividend shares of other symbols.
PendingWithout(gone) ==
  [a \in ActionIds |->
    IF pendingStock[a] # None /\ pendingStock[a].symbol \in gone THEN None ELSE pendingStock[a]]

\* Delisted symbols are worth nothing; dividends that are owed remain.
WriteOff(gone) ==
  /\ quantity' = Zeroed(quantity, gone)
  /\ sellable' = Zeroed(sellable, gone)
  /\ listing' = Zeroed(listing, gone)
  /\ lastPrice' = [s \in Symbols |-> IF s \in gone THEN None ELSE lastPrice[s]]
  /\ pendingStock' = PendingWithout(gone)
  /\ UNCHANGED <<cash, receivable, entitled>>
-----------------------------------------------------------------------------
\* assert_valid holds the account to this after every operation.
PortfolioType ==
  /\ cash \in Nat
  /\ quantity \in [Symbols -> Nat] /\ sellable \in [Symbols -> Nat] /\ listing \in [Symbols -> Nat]
  /\ \A s \in Symbols : sellable[s] + listing[s] <= quantity[s]
  /\ receivable \in [ActionIds -> Nat \cup {None}]
  /\ entitled \in [ActionIds -> Nat \cup {None}]
  /\ pendingStock \in [ActionIds -> [symbol : Symbols, quantity : Nat] \cup {None}]
=============================================================================
