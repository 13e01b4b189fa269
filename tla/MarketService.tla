--------------------------- MODULE MarketService ---------------------------
(***************************************************************************)
(* qmt_agent/service.py with subscription_callback.py: HTTP worker threads *)
(* subscribe, unsubscribe and read while XtData's callback threads push    *)
(* quotes through one QuoteCallbackGate per subscription.                  *)
(*                                                                         *)
(* A step is the code between two lock operations.  The two operation      *)
(* locks, the gateway's call lock and the gate locks are held across steps *)
(* and are variables; the sequence and quote locks are never held across   *)
(* another lock and each use of them is one step.  XtData is external: it  *)
(* may push for a subscription as soon as subscribe is called, and a push  *)
(* may reach its gate at any later time, also after unsubscribe.           *)
(***************************************************************************)
EXTENDS Integers, Sequences, FiniteSets, SequencesExt

CONSTANTS
  Markets,   \* numbers standing for market names; sorted() is their order
  Stocks,    \* numbers standing for stock codes, none of them a market
  Periods,   \* XtData periods; a market subscription has none
  StockLimit, \* max_stock_subscriptions
  Workers,   \* HTTP worker threads
  Callers,   \* XtData callback threads
  MaxGates,  \* bound: subscriptions created
  MaxPushes, \* bound: pushes XtData makes
  None

ASSUME NamesAssumption == Markets \cup Stocks \subseteq Nat /\ Markets \cap Stocks = {}
ASSUME ThreadsAssumption ==
  None \notin Workers \cup Callers /\ Workers \cap Callers = {} /\ None \notin Nat
ASSUME StocksAssumption == IsFiniteSet(Stocks)
ASSUME LimitAssumption == StockLimit \in Nat \ {0} /\ MaxGates \in Nat /\ MaxPushes \in Nat

VARIABLES
  opLock,   \* kind -> the worker that holds _market/_stock_operation_lock, or None
  callLock, \* the worker inside the gateway's _call_lock, or None
  subs,     \* _market_subscriptions and _stock_subscriptions: name -> gate, or None
  cache,    \* _market_quotes and _stock_quotes: name -> the last push, or None
  tape,     \* gate -> what it has put on _quote_sequence, in order
  gates,    \* every QuoteCallbackGate made: [name, period, state, pending, lock]
  feed,     \* external: the gates XtData delivers to
  pushes,   \* external: how many pushes XtData has made
  caller,   \* callback thread -> the push it carries and how far it is
  worker,   \* HTTP worker -> its operation and how far it is
  down,     \* whether close() has been called
  arrived   \* ghost: gate -> the pushes that got in before it closed, in order

vars == <<opLock, callLock, subs, cache, tape, gates, feed, pushes, caller, worker, down, arrived>>

Names == Markets \cup Stocks
Kinds == {"market", "stock"}
Kind(name) == IF name \in Markets THEN "market" ELSE "stock"
NamesOf(kind) == IF kind = "market" THEN Markets ELSE Stocks
Current(kind) == {n \in NamesOf(kind) : subs[n] # None}
GateIds == DOMAIN gates

Idle == [pc |-> "idle"]

Init ==
  /\ opLock = [k \in Kinds |-> None]
  /\ callLock = None
  /\ subs = [n \in Names |-> None]
  /\ cache = [n \in Names |-> None]
  /\ tape = <<>>
  /\ gates = <<>>
  /\ feed = {}
  /\ pushes = 0
  /\ caller = [c \in Callers |-> Idle]
  /\ worker = [t \in Workers |-> Idle]
  /\ down = FALSE
  /\ arrived = <<>>

-----------------------------------------------------------------------------
(* QuoteCallbackGate as XtData's threads see it. *)

\* External: XtData makes a push for a live subscription in one of its threads.
Push(c, g) ==
  /\ caller[c] = Idle /\ g \in feed /\ pushes < MaxPushes
  /\ pushes' = pushes + 1
  /\ caller' = [caller EXCEPT ![c] = [pc |-> "called", push |-> [gate |-> g, n |-> pushes + 1]]]
  /\ UNCHANGED <<opLock, callLock, subs, cache, tape, gates, feed, worker, down, arrived>>

GateUnlocked(g) == gates[g].lock = None

\* __call__ on a closed gate.
Drop(c) ==
  /\ caller[c].pc = "called"
  /\ LET g == caller[c].push.gate IN GateUnlocked(g) /\ gates[g].state = "closed"
  /\ caller' = [caller EXCEPT ![c] = Idle]
  /\ UNCHANGED <<opLock, callLock, subs, cache, tape, gates, feed, pushes, worker, down, arrived>>

\* __call__ on a pending gate.
Hold(c) ==
  LET p == caller[c].push IN
  /\ caller[c].pc = "called"
  /\ GateUnlocked(p.gate) /\ gates[p.gate].state = "pending"
  /\ gates' = [gates EXCEPT ![p.gate].pending = Append(@, p)]
  /\ arrived' = [arrived EXCEPT ![p.gate] = Append(@, p)]
  /\ caller' = [caller EXCEPT ![c] = Idle]
  /\ UNCHANGED <<opLock, callLock, subs, cache, tape, feed, pushes, worker, down>>

\* __call__ on an active gate: the handler appends to the sequence first.
Deliver(c) ==
  LET p == caller[c].push IN
  /\ caller[c].pc = "called"
  /\ GateUnlocked(p.gate) /\ gates[p.gate].state = "active"
  /\ gates' = [gates EXCEPT ![p.gate].lock = c]
  /\ tape' = [tape EXCEPT ![p.gate] = Append(@, p)]
  /\ arrived' = [arrived EXCEPT ![p.gate] = Append(@, p)]
  /\ caller' = [caller EXCEPT ![c].pc = "caching"]
  /\ UNCHANGED <<opLock, callLock, subs, cache, feed, pushes, worker, down>>

\* ... and then, under the quote lock, updates the latest values.
Cache(c) ==
  LET p == caller[c].push IN
  /\ caller[c].pc = "caching"
  /\ cache' = [cache EXCEPT ![gates[p.gate].name] = p]
  /\ gates' = [gates EXCEPT ![p.gate].lock = None]
  /\ caller' = [caller EXCEPT ![c] = Idle]
  /\ UNCHANGED <<opLock, callLock, subs, tape, feed, pushes, worker, down, arrived>>

Callback(c) == Drop(c) \/ Hold(c) \/ Deliver(c) \/ Cache(c)

-----------------------------------------------------------------------------
(* HTTP workers.  worker[t] is the call's local state: the operation asked *)
(* for, the names still to do, and the gate being worked on.               *)

Doing(t, pc) == worker[t].pc = pc
To(t, pc) == worker' = [worker EXCEPT ![t].pc = pc]

\* The call returns or raises: `with` gives its operation locks back.
Leave(t) ==
  /\ opLock' = [k \in Kinds |-> IF opLock[k] = t THEN None ELSE opLock[k]]
  /\ worker' = [worker EXCEPT ![t] = Idle]

Call(t, op, kind, names, period) ==
  /\ Doing(t, "idle") /\ ~down
  /\ worker' = [worker EXCEPT ![t] = [pc |-> "locking", op |-> op, kind |-> kind, todo |-> names,
                                      period |-> period, gate |-> 0, push |-> None, failed |-> FALSE]]
  /\ UNCHANGED <<opLock, callLock, subs, cache, tape, gates, feed, pushes, caller, down, arrived>>

\* The gates that calls under way may still make.
Planned == MapThenSumSet(LAMBDA u : IF ~Doing(u, "idle") /\ worker[u].op = "subscribe"
                                    THEN Cardinality(worker[u].todo) ELSE 0, Workers)
Bounded(ns) == Len(gates) + Planned + Cardinality(ns) <= MaxGates

CallSubscribeMarkets(t) ==
  \E ns \in (SUBSET Markets) \ {{}} : Bounded(ns) /\ Call(t, "subscribe", "market", ns, None)
CallUnsubscribeMarkets(t) == \E ns \in (SUBSET Markets) \ {{}} : Call(t, "unsubscribe", "market", ns, None)
CallSubscribeStocks(t) ==
  \E ns \in (SUBSET Stocks) \ {{}}, p \in Periods :
    Bounded(ns) /\ Call(t, "subscribe", "stock", ns, p)
CallUnsubscribeStocks(t) ==
  \E ns \in (SUBSET Stocks) \ {{}}, p \in Periods : Call(t, "unsubscribe", "stock", ns, p)
\* status, called by /health and /v1/subscriptions.
CallStatus(t) == Call(t, "status", "market", {}, None)
\* The lifespan's shutdown, once the server has no request left.
CallClose(t) ==
  /\ \A u \in Workers : Doing(u, "idle")
  /\ ~down /\ down' = TRUE
  /\ worker' = [worker EXCEPT ![t] = [pc |-> "locking", op |-> "close", kind |-> "market", todo |-> {},
                                      period |-> None, gate |-> 0, push |-> None, failed |-> FALSE]]
  /\ UNCHANGED <<opLock, callLock, subs, cache, tape, gates, feed, pushes, caller, arrived>>

\* The names the period differs for: a conflict when subscribing, a mismatch when not.
OtherPeriod(names, period) ==
  {n \in names : subs[n] # None /\ gates[subs[n]].period # period}

TooMany(w) == w.kind = "stock" /\ Cardinality(Current("stock") \cup w.todo) > StockLimit

\* subscribe_*, refused under the lock: the limit is exceeded or a period conflicts.
Refuse(t) ==
  LET w == worker[t] IN
  /\ Doing(t, "locking") /\ w.op = "subscribe" /\ opLock[w.kind] = None
  /\ TooMany(w) \/ OtherPeriod(w.todo, w.period) # {}
  /\ worker' = [worker EXCEPT ![t] = Idle]
  /\ UNCHANGED <<opLock, callLock, subs, cache, tape, gates, feed, pushes, caller, down, arrived>>

StartSubscribe(t) ==
  LET w == worker[t] IN
  /\ Doing(t, "locking") /\ w.op = "subscribe" /\ opLock[w.kind] = None
  /\ ~TooMany(w) /\ OtherPeriod(w.todo, w.period) = {}
  /\ opLock' = [opLock EXCEPT ![w.kind] = t]
  /\ worker' = [worker EXCEPT ![t].pc = "subscribing", ![t].todo = @ \ Current(w.kind)]
  /\ UNCHANGED <<callLock, subs, cache, tape, gates, feed, pushes, caller, down, arrived>>

StartUnsubscribe(t) ==
  LET w == worker[t] IN
  /\ Doing(t, "locking") /\ w.op = "unsubscribe" /\ opLock[w.kind] = None
  /\ opLock' = [opLock EXCEPT ![w.kind] = t]
  /\ worker' = [worker EXCEPT ![t].pc = "unsubscribing",
                              ![t].todo = (@ \cap Current(w.kind)) \ OtherPeriod(@, w.period)]
  /\ UNCHANGED <<callLock, subs, cache, tape, gates, feed, pushes, caller, down, arrived>>

\* status and close: `with market lock, stock lock` takes the locks in this order.
LockMarket(t) ==
  /\ Doing(t, "locking") /\ worker[t].op \in {"status", "close"} /\ opLock["market"] = None
  /\ opLock' = [opLock EXCEPT !["market"] = t]
  /\ To(t, "locking_stock")
  /\ UNCHANGED <<callLock, subs, cache, tape, gates, feed, pushes, caller, down, arrived>>

LockStock(t) ==
  /\ Doing(t, "locking_stock") /\ opLock["stock"] = None
  /\ opLock' = [opLock EXCEPT !["stock"] = t]
  /\ worker' = [worker EXCEPT ![t].pc = IF worker[t].op = "close" THEN "unsubscribing" ELSE "reporting",
                              ![t].todo = Current("market") \cup Current("stock")]
  /\ UNCHANGED <<callLock, subs, cache, tape, gates, feed, pushes, caller, down, arrived>>

Report(t) ==
  /\ Doing(t, "reporting")
  /\ Leave(t)
  /\ UNCHANGED <<callLock, subs, cache, tape, gates, feed, pushes, caller, down, arrived>>

\* The loop has no name left.
Done(t) ==
  /\ worker[t].pc \in {"subscribing", "unsubscribing"} /\ worker[t].todo = {}
  /\ Leave(t)
  /\ UNCHANGED <<callLock, subs, cache, tape, gates, feed, pushes, caller, down, arrived>>

\* The next name's old cache is cleared and its gate made, still pending.
MakeGate(t) ==
  LET w == worker[t]
      n == Min(w.todo)
      g == Len(gates) + 1
  IN
  /\ Doing(t, "subscribing") /\ w.todo # {}
  /\ cache' = [cache EXCEPT ![n] = None]
  /\ gates' = Append(gates, [name |-> n, period |-> w.period, state |-> "pending",
                             pending |-> <<>>, lock |-> None])
  /\ tape' = Append(tape, <<>>)
  /\ arrived' = Append(arrived, <<>>)
  /\ worker' = [worker EXCEPT ![t].pc = "calling", ![t].todo = @ \ {n}, ![t].gate = g]
  /\ UNCHANGED <<opLock, callLock, subs, feed, pushes, caller, down>>

\* gateway.subscribe_* takes the call lock; XtData may push from now on.
GatewaySubscribe(t) ==
  /\ Doing(t, "calling") /\ worker[t].op = "subscribe" /\ callLock = None
  /\ callLock' = t
  /\ feed' = feed \cup {worker[t].gate}
  /\ To(t, "returning")
  /\ UNCHANGED <<opLock, subs, cache, tape, gates, pushes, caller, down, arrived>>

Subscribed(t) ==
  LET g == worker[t].gate IN
  /\ Doing(t, "returning") /\ worker[t].op = "subscribe"
  /\ callLock' = None
  /\ subs' = [subs EXCEPT ![gates[g].name] = g]
  /\ To(t, "activating")
  /\ UNCHANGED <<opLock, cache, tape, gates, feed, pushes, caller, down, arrived>>

\* External: XtData refuses, or returns no usable number; it will not push again.
SubscribeFails(t) ==
  /\ Doing(t, "returning") /\ worker[t].op = "subscribe"
  /\ callLock' = None
  /\ feed' = feed \ {worker[t].gate}
  /\ worker' = [worker EXCEPT ![t].pc = "closing", ![t].failed = TRUE]
  /\ UNCHANGED <<opLock, subs, cache, tape, gates, pushes, caller, down, arrived>>

\* Mutant: the gate is opened before what it holds has been delivered.
ActivateEarly(t) ==
  LET g == worker[t].gate IN
  /\ Doing(t, "activating") /\ GateUnlocked(g)
  /\ gates' = [gates EXCEPT ![g].state = "active"]
  /\ To(t, "draining")
  /\ UNCHANGED <<opLock, callLock, subs, cache, tape, feed, pushes, caller, down, arrived>>

\* activate takes the gate's lock and keeps it until everything held is out.
Activate(t) ==
  LET g == worker[t].gate IN
  /\ Doing(t, "activating") /\ GateUnlocked(g)
  /\ gates' = [gates EXCEPT ![g].lock = t]
  /\ To(t, "draining")
  /\ UNCHANGED <<opLock, callLock, subs, cache, tape, feed, pushes, caller, down, arrived>>

DrainSequence(t) ==
  LET g == worker[t].gate IN
  /\ Doing(t, "draining") /\ gates[g].pending # <<>>
  /\ tape' = [tape EXCEPT ![g] = Append(@, Head(gates[g].pending))]
  /\ worker' = [worker EXCEPT ![t].pc = "drain_caching", ![t].push = Head(gates[g].pending)]
  /\ gates' = [gates EXCEPT ![g].pending = Tail(@)]
  /\ UNCHANGED <<opLock, callLock, subs, cache, feed, pushes, caller, down, arrived>>

DrainCache(t) ==
  /\ Doing(t, "drain_caching")
  /\ cache' = [cache EXCEPT ![gates[worker[t].gate].name] = worker[t].push]
  /\ worker' = [worker EXCEPT ![t].pc = "draining", ![t].push = None]
  /\ UNCHANGED <<opLock, callLock, subs, tape, gates, feed, pushes, caller, down, arrived>>

\* Nothing is held any more: active; a failed unsubscribe then raises.
Activated(t) ==
  LET g == worker[t].gate IN
  /\ Doing(t, "draining") /\ gates[g].pending = <<>>
  /\ gates' = [gates EXCEPT ![g].state = "active", ![g].lock = None]
  /\ IF worker[t].failed THEN Leave(t) ELSE To(t, "subscribing") /\ UNCHANGED opLock
  /\ UNCHANGED <<callLock, subs, cache, tape, feed, pushes, caller, down, arrived>>

\* Mutant: suspend does not wait for a delivery under way.
SuspendUnlocked(t) ==
  LET n == Min(worker[t].todo) IN
  /\ Doing(t, "unsubscribing") /\ worker[t].todo # {}
  /\ gates' = [gates EXCEPT ![subs[n]].state = IF @ = "active" THEN "pending" ELSE @,
                            ![subs[n]].lock = None]
  /\ worker' = [worker EXCEPT ![t].pc = "calling", ![t].todo = @ \ {n}, ![t].gate = subs[n]]
  /\ UNCHANGED <<opLock, callLock, subs, cache, tape, feed, pushes, caller, down, arrived>>

Suspend(t) ==
  LET n == Min(worker[t].todo)
      g == subs[n]
  IN
  /\ Doing(t, "unsubscribing") /\ worker[t].todo # {} /\ GateUnlocked(g)
  /\ gates' = [gates EXCEPT ![g].state = IF @ = "active" THEN "pending" ELSE @]
  /\ worker' = [worker EXCEPT ![t].pc = "calling", ![t].todo = @ \ {n}, ![t].gate = g]
  /\ UNCHANGED <<opLock, callLock, subs, cache, tape, feed, pushes, caller, down, arrived>>

GatewayUnsubscribe(t) ==
  /\ Doing(t, "calling") /\ worker[t].op # "subscribe" /\ callLock = None
  /\ callLock' = t
  /\ To(t, "returning")
  /\ UNCHANGED <<opLock, subs, cache, tape, gates, feed, pushes, caller, down, arrived>>

Unsubscribed(t) ==
  /\ Doing(t, "returning") /\ worker[t].op # "subscribe"
  /\ callLock' = None
  /\ feed' = feed \ {worker[t].gate}
  /\ To(t, "closing")
  /\ UNCHANGED <<opLock, subs, cache, tape, gates, pushes, caller, down, arrived>>

\* Mutant: a failed unsubscribe raises and leaves the gate suspended.
UnsubscribeFailsSuspended(t) ==
  /\ Doing(t, "returning") /\ worker[t].op # "subscribe"
  /\ callLock' = None
  /\ Leave(t)
  /\ UNCHANGED <<subs, cache, tape, gates, feed, pushes, caller, down, arrived>>

\* External: XtData raises, and the subscription stays. close() only logs it.
UnsubscribeFails(t) ==
  /\ Doing(t, "returning") /\ worker[t].op # "subscribe"
  /\ callLock' = None
  /\ worker' = [worker EXCEPT ![t].pc = IF worker[t].op = "close" THEN "closing" ELSE "activating",
                              ![t].failed = TRUE]
  /\ UNCHANGED <<opLock, subs, cache, tape, gates, feed, pushes, caller, down, arrived>>

Closed(gate) == [gate EXCEPT !.state = "closed", !.pending = <<>>]

\* gate.close(); a failed subscribe raises here.
CloseGate(t) ==
  LET g == worker[t].gate IN
  /\ Doing(t, "closing") /\ GateUnlocked(g)
  /\ gates' = [gates EXCEPT ![g] = Closed(@)]
  /\ IF worker[t].op = "subscribe" THEN Leave(t) ELSE To(t, "forgetting") /\ UNCHANGED opLock
  /\ UNCHANGED <<callLock, subs, cache, tape, feed, pushes, caller, down, arrived>>

\* del, and unsubscribe_* also clears the cache.
Forget(t) ==
  LET n == gates[worker[t].gate].name IN
  /\ Doing(t, "forgetting")
  /\ subs' = [subs EXCEPT ![n] = None]
  /\ cache' = IF worker[t].op = "close" THEN cache ELSE [cache EXCEPT ![n] = None]
  /\ To(t, "unsubscribing")
  /\ UNCHANGED <<opLock, callLock, tape, gates, feed, pushes, caller, down, arrived>>

Request(t) ==
  \/ CallSubscribeMarkets(t) \/ CallUnsubscribeMarkets(t) \/ CallSubscribeStocks(t)
  \/ CallUnsubscribeStocks(t) \/ CallStatus(t) \/ CallClose(t)

Work(t) ==
  \/ Refuse(t) \/ StartSubscribe(t) \/ StartUnsubscribe(t) \/ LockMarket(t) \/ LockStock(t)
  \/ Report(t) \/ Done(t) \/ MakeGate(t) \/ GatewaySubscribe(t) \/ Subscribed(t)
  \/ SubscribeFails(t) \/ Activate(t) \/ DrainSequence(t) \/ DrainCache(t) \/ Activated(t)
  \/ Suspend(t) \/ GatewayUnsubscribe(t) \/ Unsubscribed(t) \/ UnsubscribeFails(t)
  \/ CloseGate(t) \/ Forget(t)

\* The server has shut down.
Stopped ==
  /\ down /\ \A t \in Workers : Doing(t, "idle")
  /\ UNCHANGED vars

Next ==
  \/ Stopped
  \/ \E c \in Callers : Callback(c) \/ \E g \in GateIds : Push(c, g)
  \/ \E t \in Workers : Request(t) \/ Work(t)

Spec == Init /\ [][Next]_vars
-----------------------------------------------------------------------------
PushType == [gate : GateIds, n : 1 .. MaxPushes]

\* The variables have the types the code declares.
TypeOK ==
  /\ opLock \in [Kinds -> Workers \cup {None}]
  /\ callLock \in Workers \cup {None}
  /\ subs \in [Names -> GateIds \cup {None}]
  /\ cache \in [Names -> PushType \cup {None}]
  /\ tape \in [GateIds -> Seq(PushType)]
  /\ gates \in Seq([name : Names, period : Periods \cup {None}, state : {"pending", "active", "closed"},
                    pending : Seq(PushType), lock : Workers \cup Callers \cup {None}])
  /\ feed \subseteq GateIds
  /\ pushes \in 0 .. MaxPushes
  /\ arrived \in [GateIds -> Seq(PushType)]

\* Nothing that reaches a gate before it closes is lost, doubled or reordered:
\* what a gate let in is what it has put on the sequence followed by what it
\* still holds, across suspension, a failed unsubscribe and re-activation; a
\* closed gate gave up only what it still held.
ArrivalOrder ==
  \A g \in GateIds :
    IF gates[g].state = "closed" THEN IsPrefix(tape[g], arrived[g])
    ELSE arrived[g] = tape[g] \o gates[g].pending

\* The latest-value cache of a subscription agrees with the sequence: when no
\* delivery is under way it holds the last push of this very subscription that
\* is on the sequence, never one of an earlier subscription of the same name.
CacheIsLatest ==
  \A n \in Names :
    LET g == subs[n] IN
    g # None /\ gates[g].lock = None =>
      cache[n] = IF tape[g] = <<>> THEN None ELSE Last(tape[g])

\* What the sequence and the caches have of every subscription agrees with what came in.
QuotesAgree == TypeOK /\ ArrivalOrder /\ CacheIsLatest

\* XtData is never asked for more stock subscriptions at once than the limit,
\* also while calls overlap, fail half-way or are retried.
WithinStockLimit == Cardinality({g \in feed : gates[g].name \in Stocks}) <= StockLimit

\* What other calls may rely on once the operation lock is free: a name is
\* subscribed exactly when one active gate serves it, XtData feeds exactly the
\* registered gates, and only subscribed names have cached quotes; the limit holds always.
SettledWhenUnlocked ==
  WithinStockLimit /\ \A k \in Kinds : opLock[k] = None /\ ~down =>
    LET mine == {g \in GateIds : Kind(gates[g].name) = k}
        registered == {subs[n] : n \in Current(k)}
    IN /\ {g \in mine : gates[g].state # "closed"} = registered
       /\ feed \cap mine = registered
       /\ \A g \in registered : gates[g].state = "active" /\ subs[gates[g].name] = g
       /\ \A n \in NamesOf(k) : cache[n] # None => subs[n] # None

\* Once a gate is closed, none of its pushes reaches the sequence or a cache.
NothingAfterClose ==
  [][\A g \in GateIds : gates[g].state = "closed" =>
       /\ tape'[g] = tape[g]
       /\ \A n \in Names : cache'[n] # cache[n] /\ cache'[n] # None => cache'[n].gate # g]_vars
=============================================================================
