---------------------------- MODULE MarketProofs ----------------------------
(***************************************************************************)
(* Proofs about the two ends of the market data.                           *)
(*                                                                         *)
(* MarketService, for any markets, stocks, periods, limit and threads:     *)
(* what reaches the sequence and the caches agrees with what came in,      *)
(* subscriptions are settled whenever an operation lock is free, and       *)
(* nothing of a closed gate comes through.  The inductive invariant says   *)
(* what each thread may rely on at each of its steps.  A gate is worked on *)
(* by at most one worker, which holds the operation lock of its kind; a    *)
(* gate nobody works on is settled, that is registered, fed and active, or *)
(* closed.                                                                 *)
(*                                                                         *)
(* MarketReader, for any tables, histories of codes, requests and          *)
(* instants: which of its codes names a security changes no answer, a      *)
(* stock is said to trade only if its suspensions allow it, and what is    *)
(* not visible yet changes no answer when it is stored.  The views and the *)
(* mapped request are all that an answer depends on, and neither knows     *)
(* more than the first code of a security; each query depends on what its  *)
(* tables show at the instant, and a row stored before it is visible is    *)
(* not shown, nor was the row of its key that it replaces.  What a query   *)
(* chooses from only grows from one instant to the next, and of more       *)
(* versions the newest is the same one or a later.                         *)
(***************************************************************************)
EXTENDS MarketService, MarketReader, TLAPS, FiniteSetTheorems, SequenceTheorems, NaturalsInduction

-----------------------------------------------------------------------------
(* The subscriptions: the inductive invariant. *)

Ops == {"subscribe", "unsubscribe", "status", "close"}
DrainPcs == {"draining", "drain_caching"}
ActivatePcs == DrainPcs \cup {"activating"}
GatePcs == ActivatePcs \cup {"calling", "returning", "closing", "forgetting"}
Pcs == GatePcs \cup {"locking", "locking_stock", "subscribing", "unsubscribing", "reporting"}

Gate == [name : Names, period : Periods \cup {None}, state : {"pending", "active", "closed"},
         pending : Seq(PushType), lock : Workers \cup Callers \cup {None}]
Busy == [pc : Pcs, op : Ops, kind : Kinds, todo : SUBSET Names, period : Periods \cup {None},
         gate : Nat, push : PushType \cup {None}, failed : BOOLEAN]
Carrying == [pc : {"called", "caching"}, push : PushType]

ThreadTypes ==
  /\ worker \in [Workers -> {Idle} \cup Busy]
  /\ caller \in [Callers -> {Idle} \cup Carrying]
  /\ down \in BOOLEAN

\* The operation locks that worker t has taken at its step.
Holds(t, k) ==
  /\ worker[t].pc \notin {"idle", "locking"}
  /\ IF worker[t].op \in {"subscribe", "unsubscribe"} THEN worker[t].kind = k
     ELSE k = "market" \/ worker[t].pc # "locking_stock"

OpLocks == \A t \in Workers, k \in Kinds : Holds(t, k) => opLock[k] = t

\* What a worker's operation is at each step, and which names it has still to do.
WorkerOp(t) ==
  LET w == worker[t] IN
  /\ w.op = "close" <=> down
  /\ w.op \in {"subscribe", "unsubscribe"} => w.todo \subseteq NamesOf(w.kind)
  /\ w.pc \in {"locking_stock", "reporting"} => w.op \in {"status", "close"}
  /\ w.pc = "subscribing" => w.op = "subscribe"
  /\ w.pc \in {"unsubscribing", "forgetting"} => w.op \in {"unsubscribe", "close"}
  /\ w.pc \in ActivatePcs => w.op \in {"subscribe", "unsubscribe"} /\ (w.failed <=> w.op = "unsubscribe")
  /\ w.pc \in GatePcs => w.op # "status"
  /\ w.op = "subscribe" /\ w.pc # "closing" => ~w.failed
  /\ w.pc \notin {"locking", "locking_stock", "reporting"} =>
       \A n \in w.todo : Holds(t, Kind(n)) /\ (subs[n] = None <=> w.op = "subscribe")

WorkerOps == \A t \in Workers : worker[t].pc # "idle" => WorkerOp(t)

WorksOn(t, g) == worker[t].pc \in GatePcs /\ worker[t].gate = g

\* The gate a worker is busy with: held back, registered and fed as far as the call has come.
WorkedGate(t) ==
  LET w == worker[t]
      g == w.gate
      n == gates[g].name
      unregistered == w.op = "subscribe" /\ w.pc \in {"calling", "returning", "closing"}
  IN
  /\ g \in GateIds /\ n \notin w.todo /\ Holds(t, Kind(n))
  /\ gates[g].state = IF w.pc = "forgetting" THEN "closed" ELSE "pending"
  /\ subs[n] = IF unregistered THEN None ELSE g
  /\ unregistered => tape[g] = <<>>
  /\ w.op = "subscribe" => (g \in feed <=> w.pc \notin {"calling", "closing"})
  /\ w.op = "unsubscribe" => (g \in feed <=> w.pc \notin {"closing", "forgetting"})
  /\ w.pc \in DrainPcs => gates[g].lock = t
  /\ w.pc = "drain_caching" =>
       w.push.gate = g /\ tape[g] # <<>> /\ Last(tape[g]) = w.push

WorkedGates == \A t \in Workers : worker[t].pc \in GatePcs => WorkedGate(t)

\* A callback thread between the sequence and the cache keeps its gate locked and open.
CachingGate(c) ==
  LET p == caller[c].push IN
  /\ gates[p.gate].lock = c /\ gates[p.gate].state = "active"
  /\ tape[p.gate] # <<>> /\ Last(tape[p.gate]) = p

CachingGates == \A c \in Callers : caller[c].pc = "caching" => CachingGate(c)

\* A gate nobody works on.
SettledGate(g) ==
  IF subs[gates[g].name] = g THEN gates[g].state = "active" /\ g \in feed
  ELSE gates[g].state = "closed" /\ (g \in feed => down)

SettledGates == \A g \in GateIds : (\A t \in Workers : ~WorksOn(t, g)) => SettledGate(g)

\* Gates hold back only pushes of their own, and only while they are pending.
HeldBack ==
  \A g \in GateIds :
    /\ gates[g].state # "pending" => gates[g].pending = <<>>
    /\ \A i \in 1 .. Len(gates[g].pending) : gates[g].pending[i].gate = g

Registered == \A n \in Names : subs[n] # None => gates[subs[n]].name = n

\* The cache also between the sequence and the cache of a delivery.
CacheFollows ==
  \A n \in Names :
    IF subs[n] = None THEN ~down => cache[n] = None
    ELSE \/ \E c \in Callers : caller[c].pc = "caching" /\ caller[c].push.gate = subs[n]
         \/ \E t \in Workers : worker[t].pc = "drain_caching" /\ worker[t].gate = subs[n]
         \/ cache[n] = IF tape[subs[n]] = <<>> THEN None ELSE Last(tape[subs[n]])

FedOnce == \A g, h \in feed : gates[g].name = gates[h].name => g = h

\* The stocks XtData feeds, and those a subscribe under way will still ask for.
FedStocks == {gates[g].name : g \in feed} \cap Stocks
ToFeed(t) == worker[t].todo \cup (IF worker[t].pc = "calling" THEN {gates[worker[t].gate].name} ELSE {})

LimitKept ==
  /\ Cardinality(FedStocks) <= StockLimit
  /\ \A t \in Workers :
       Holds(t, "stock") /\ worker[t].op = "subscribe" =>
         Cardinality(FedStocks \cup ToFeed(t)) <= StockLimit

IndInv ==
  /\ TypeOK /\ ThreadTypes /\ OpLocks /\ WorkerOps /\ WorkedGates /\ CachingGates
  /\ SettledGates /\ HeldBack /\ Registered /\ ArrivalOrder /\ CacheFollows
  /\ FedOnce /\ LimitKept
-----------------------------------------------------------------------------
(* Facts about the data the steps use. *)

LEMMA LeastIs ==
  ASSUME NEW S \in SUBSET Nat, S # {}
  PROVE  Min(S) \in S /\ \A m \in S : Min(S) <= m
<1>1. PICK n \in S : \A m \in S : ~(<<m, n>> \in OpToRel(<, Nat))
  BY NatLessThanWellFounded, WFMin
<1>2. \A m \in S : n <= m
  <2> TAKE m \in S
  <2>1. ~(m < n)
    BY <1>1 DEF OpToRel
  <2> QED BY <2>1
<1> QED BY <1>2 DEF Min

\* What sorted() puts first of a set of names is one of them.
LEMMA FirstIsOne ==
  ASSUME NEW S \in SUBSET Names, S # {}
  PROVE  Min(S) \in S
<1>1. S \subseteq Nat
  BY NamesAssumption DEF Names
<1> QED BY <1>1, LeastIs

LEMMA LastOfAppend ==
  ASSUME NEW T, NEW s \in Seq(T), NEW e \in T
  PROVE  Append(s, e) \in Seq(T) /\ Append(s, e) # <<>> /\ Last(Append(s, e)) = e
BY AppendProperties DEF Last

\* What is appended at the end of the second half is appended to the whole; its
\* head may move to the first half.
LEMMA Halves ==
  ASSUME NEW T, NEW s \in Seq(T), NEW t \in Seq(T), NEW e \in T
  PROVE  /\ Append(s \o t, e) = s \o Append(t, e)
         /\ t # <<>> => Append(s, Head(t)) \o Tail(t) = s \o t
         /\ s \o <<>> = s
<1>1. Append(s \o t, e) = s \o Append(t, e)
  <2>1. Append(t, e) = t \o <<e>> /\ <<e>> \in Seq(T) /\ s \o t \in Seq(T)
    BY AppendIsConcat
  <2>2. Append(s \o t, e) = (s \o t) \o <<e>>
    BY <2>1, AppendIsConcat
  <2> QED BY <2>1, <2>2, ConcatAssociative
<1>2. ASSUME t # <<>> PROVE Append(s, Head(t)) \o Tail(t) = s \o t
  <2>1. Head(t) \in T /\ Tail(t) \in Seq(T) /\ <<Head(t)>> \in Seq(T)
    BY <1>2, HeadTailProperties
  <2>2. Append(s, Head(t)) = s \o <<Head(t)>>
    BY <2>1, AppendIsConcat
  <2>3. <<Head(t)>> \o Tail(t) = t
    BY <1>2, <2>1
  <2> QED BY <2>1, <2>2, <2>3, ConcatAssociative
<1>3. s \o <<>> = s
  BY ConcatEmptySeq
<1> QED BY <1>1, <1>2, <1>3

LEMMA PrefixOfWhole ==
  ASSUME NEW T, NEW s \in Seq(T), NEW t \in Seq(T)
  PROVE  IsPrefix(s, s \o t)
<1>1. s \o t \in Seq(T) /\ Len(s \o t) = Len(s) + Len(t) /\ Len(s) \in Nat /\ Len(t) \in Nat
  BY ConcatProperties
<1>2. SubSeq(s \o t, 1, Len(s)) = s /\ SubSeq(s, 1, Len(s)) = s
  OBVIOUS
<1> QED BY <1>1, <1>2 DEF IsPrefix

\* An array with an entry per gate is a sequence as long as the gates.
LEMMA ArrayIsSeq ==
  ASSUME NEW T, NEW n \in Nat, NEW a \in [1 .. n -> T]
  PROVE  a \in Seq(T) /\ Len(a) = n
OBVIOUS

LEMMA GateFacts ==
  ASSUME IndInv
  PROVE  /\ Len(gates) \in Nat /\ GateIds = 1 .. Len(gates) /\ gates \in Seq(Gate)
         /\ \A g \in GateIds : gates[g] \in Gate /\ gates[g].pending \in Seq(PushType) /\ gates[g].name \in Names
         /\ \A g \in GateIds : tape[g] \in Seq(PushType) /\ arrived[g] \in Seq(PushType)
<1>1. gates \in Seq(Gate)
  BY DEF IndInv, TypeOK, Gate
<1>2. Len(gates) \in Nat /\ GateIds = 1 .. Len(gates) /\ \A g \in GateIds : gates[g] \in Gate
  BY <1>1 DEF GateIds
<1>3. \A g \in GateIds : gates[g].pending \in Seq(PushType) /\ gates[g].name \in Names
  BY <1>2 DEF Gate
<1> QED BY <1>1, <1>2, <1>3 DEF IndInv, TypeOK

\* A callback thread that is not idle carries a push of one of the gates.
LEMMA CallerFacts ==
  ASSUME IndInv
  PROVE  \A c \in Callers : caller[c].pc \in {"called", "caching"} =>
           caller[c].push \in PushType /\ caller[c].push.gate \in GateIds
<1>1. \A c \in Callers : caller[c].pc \in {"called", "caching"} => caller[c].push \in PushType
  BY DEF IndInv, ThreadTypes, Idle, Carrying
<1> QED BY <1>1 DEF PushType

\* The parts of the invariant that speak of the gates alone, or of them and
\* what else a step leaves as it was.
LEMMA Undisturbed ==
  ASSUME IndInv, UNCHANGED gates
  PROVE  /\ HeldBack'
         /\ UNCHANGED subs => Registered'
         /\ UNCHANGED <<tape, arrived>> => ArrivalOrder'
         /\ UNCHANGED feed => FedOnce'
<1>1. HeldBack' BY DEF IndInv, HeldBack, GateIds
<1>2. UNCHANGED subs => Registered' BY DEF IndInv, Registered
<1>3. UNCHANGED <<tape, arrived>> => ArrivalOrder' BY DEF IndInv, ArrivalOrder, GateIds
<1>4. UNCHANGED feed => FedOnce' BY DEF IndInv, FedOnce
<1> QED BY <1>1, <1>2, <1>3, <1>4

\* One gate of the service becomes v.
LEMMA GateChange ==
  ASSUME IndInv, NEW g \in GateIds, NEW v \in Gate, v.name = gates[g].name,
         gates' = [gates EXCEPT ![g] = v]
  PROVE  /\ GateIds' = GateIds /\ PushType' = PushType /\ gates' \in Seq(Gate)
         /\ gates'[g] = v
         /\ \A h \in GateIds : h # g => gates'[h] = gates[h]
         /\ \A h \in GateIds : gates'[h].name = gates[h].name
         /\ UNCHANGED subs => Registered'
         /\ UNCHANGED feed => FedOnce' /\ FedStocks' = FedStocks
<1> USE DEF GateIds
<1>1. gates \in Seq(Gate) /\ feed \subseteq GateIds /\ subs \in [Names -> GateIds \cup {None}]
  BY DEF IndInv, TypeOK, Gate
<1>2. GateIds = 1 .. Len(gates) /\ Len(gates) \in Nat
  BY <1>1
<1>3. /\ gates' \in Seq(Gate) /\ GateIds' = GateIds /\ gates'[g] = v
      /\ \A h \in GateIds : h # g => gates'[h] = gates[h]
  BY <1>1, <1>2
<1>4. \A h \in GateIds : gates'[h].name = gates[h].name
  BY <1>3
<1>5. PushType' = PushType
  BY <1>3 DEF PushType
<1>6. UNCHANGED subs => Registered'
  BY <1>1, <1>3, <1>4 DEF IndInv, Registered
<1>7. UNCHANGED feed => FedOnce' /\ FedStocks' = FedStocks
  BY <1>1, <1>4 DEF IndInv, FedOnce, FedStocks
<1> QED BY <1>3, <1>4, <1>5, <1>6, <1>7

LEMMA DropStep ==
  ASSUME IndInv, NEW c \in Callers, Drop(c)
  PROVE  IndInv'
<1> USE DEF Drop
<1>1. HeldBack' /\ Registered' /\ ArrivalOrder' /\ FedOnce'
  BY Undisturbed
<1>2. TypeOK'
  BY DEF TypeOK, IndInv, GateIds, PushType
<1>3. ThreadTypes'
  BY DEF ThreadTypes, IndInv, PushType, GateIds, Busy, Carrying
<1>4. OpLocks'
  BY DEF OpLocks, IndInv, Holds
<1>5. WorkerOps'
  BY DEF WorkerOps, IndInv, WorkerOp, Holds
<1>6. WorkedGates'
  BY DEF WorkedGates, IndInv, WorkedGate, Holds, GateIds
<1>7. CachingGates'
  BY DEF CachingGates, IndInv, CachingGate, ThreadTypes, Idle
<1>8. SettledGates'
  BY DEF SettledGates, IndInv, SettledGate, WorksOn, GateIds
<1>9. CacheFollows'
  BY DEF CacheFollows, IndInv, ThreadTypes
<1>10. LimitKept'
  BY DEF LimitKept, IndInv, FedStocks, ToFeed, Holds
<1> QED BY <1>1, <1>2, <1>3, <1>4, <1>5, <1>6, <1>7, <1>8, <1>9, <1>10 DEF IndInv

LEMMA HoldStep ==
  ASSUME IndInv, NEW c \in Callers, Hold(c)
  PROVE  IndInv'
<1> DEFINE p == caller[c].push
           g == p.gate
           v == [gates[g] EXCEPT !.pending = Append(@, p)]
<1> USE DEF IndInv
<1>1. p \in PushType /\ g \in GateIds /\ caller[c].pc = "called"
  BY CallerFacts DEF Hold
<1>2. gates[g] \in Gate /\ gates[g].state = "pending" /\ gates[g].lock = None /\ gates[g].pending \in Seq(PushType)
  BY <1>1, GateFacts DEF Hold, GateUnlocked
<1>3. /\ v \in Gate /\ v.name = gates[g].name /\ v.state = "pending" /\ v.lock = None
      /\ v.pending = Append(gates[g].pending, p)
  <2>1. Append(gates[g].pending, p) \in Seq(PushType)
    BY <1>1, <1>2, AppendProperties
  <2> QED BY <1>2, <2>1 DEF Gate
<1>4. /\ gates' = [gates EXCEPT ![g] = v] /\ arrived' = [arrived EXCEPT ![g] = Append(arrived[g], p)]
      /\ caller' = [caller EXCEPT ![c] = Idle]
      /\ UNCHANGED <<opLock, callLock, subs, cache, tape, feed, pushes, worker, down>>
  BY DEF Hold
<1> HIDE DEF v
<1>5. /\ GateIds' = GateIds /\ PushType' = PushType /\ gates' \in Seq(Gate)
      /\ gates'[g] = v /\ \A h \in GateIds : h # g => gates'[h] = gates[h]
      /\ \A h \in GateIds : gates'[h].name = gates[h].name
      /\ Registered' /\ FedOnce' /\ FedStocks' = FedStocks
  BY <1>1, <1>3, <1>4, GateChange
<1>6. \A d \in Callers : d # c => caller'[d] = caller[d]
  BY <1>4 DEF ThreadTypes
<1>7. caller'[c].pc = "idle"
  BY <1>4 DEF ThreadTypes, Idle
<1> HIDE DEF g, p
<1>8. TypeOK'
  <2>1. Append(arrived[g], p) \in Seq(PushType)
    BY <1>1, GateFacts, AppendProperties
  <2> QED BY <1>1, <1>4, <1>5, <2>1 DEF TypeOK, Gate
<1>9. ThreadTypes' /\ OpLocks' /\ WorkerOps'
  BY <1>1, <1>4, <1>5 DEF ThreadTypes, OpLocks, WorkerOps, Holds, WorkerOp, Busy, Carrying
<1>10. WorkedGates'
  BY <1>1, <1>3, <1>2, <1>4, <1>5 DEF WorkedGates, WorkedGate, Holds
<1>11. CachingGates'
  <2>1. \A d \in Callers : caller'[d].pc = "caching" =>
          caller'[d] = caller[d] /\ caller[d].push.gate \in GateIds /\ caller[d].push.gate # g
    BY <1>2, <1>6, <1>7, CallerFacts, ThreadsAssumption DEF CachingGates, CachingGate
  <2> QED BY <1>4, <1>5, <2>1 DEF CachingGates, CachingGate
<1>12. SettledGates'
  BY <1>1, <1>2, <1>3, <1>4, <1>5 DEF SettledGates, SettledGate, WorksOn
<1>13. HeldBack'
  <2>1. p.gate = g
    BY DEF g
  <2>2. \A i \in 1 .. Len(v.pending) : v.pending[i].gate = g
    BY <1>1, <1>2, <1>3, <2>1, AppendProperties DEF HeldBack
  <2>3. \A h \in GateIds : h # g => gates'[h] = gates[h]
    BY <1>5
  <2>4. gates'[g] = v /\ v.state = "pending" /\ GateIds' = GateIds /\ HeldBack
    BY <1>3, <1>5
  <2> QED BY ONLY <2>2, <2>3, <2>4 DEF HeldBack
<1>14. ArrivalOrder'
  <2>1. arrived[g] = tape[g] \o gates[g].pending /\ tape[g] \in Seq(PushType)
    BY <1>1, <1>2, GateFacts DEF ArrivalOrder
  <2>2. Append(arrived[g], p) = tape[g] \o Append(gates[g].pending, p)
    <3> DEFINE a == tape[g]
               b == gates[g].pending
    <3> HIDE DEF a, b
    <3>1. a \in Seq(PushType) /\ b \in Seq(PushType)
      BY <1>2, <2>1 DEF a, b
    <3>2. Append(a \o b, p) = a \o Append(b, p)
      BY <1>1, <3>1, Halves
    <3> QED BY <2>1, <3>2 DEF a, b
  <2>3. arrived'[g] = tape'[g] \o gates'[g].pending
    BY <1>1, <1>3, <1>4, <1>5, <2>2 DEF TypeOK
  <2>4. \A h \in GateIds : h # g => arrived'[h] = arrived[h]
    BY <1>4 DEF TypeOK
  <2> QED BY <1>1, <1>2, <1>3, <1>4, <1>5, <2>3, <2>4 DEF ArrivalOrder
<1>15. CacheFollows'
  BY <1>1, <1>4, <1>6, <1>7 DEF CacheFollows
<1>16. LimitKept'
  <2>1. \A t \in Workers : ToFeed(t)' = ToFeed(t)
    BY <1>4, <1>5 DEF ToFeed, WorkedGates, WorkedGate, GatePcs
  <2> QED BY <1>4, <1>5, <2>1 DEF LimitKept, Holds
<1> QED BY <1>5, <1>8, <1>9, <1>10, <1>11, <1>12, <1>13, <1>14, <1>15, <1>16

LEMMA DeliverStep ==
  ASSUME IndInv, NEW c \in Callers, Deliver(c)
  PROVE  IndInv'
<1> DEFINE p == caller[c].push
           g == p.gate
           v == [gates[g] EXCEPT !.lock = c]
<1> USE DEF IndInv
<1>1. p \in PushType /\ g \in GateIds /\ caller[c].pc = "called" /\ caller[c] \in Carrying
  BY CallerFacts DEF Deliver, ThreadTypes, Idle
<1>2. gates[g] \in Gate /\ gates[g].state = "active" /\ gates[g].lock = None /\ gates[g].pending = <<>>
  BY <1>1, GateFacts DEF Deliver, GateUnlocked, HeldBack
<1>3. /\ v \in Gate /\ v.name = gates[g].name /\ v.state = "active" /\ v.lock = c
      /\ v.pending = <<>>
  BY <1>2 DEF Gate
<1>4. /\ gates' = [gates EXCEPT ![g] = v] /\ arrived' = [arrived EXCEPT ![g] = Append(arrived[g], p)]
      /\ tape' = [tape EXCEPT ![g] = Append(tape[g], p)]
      /\ caller' = [caller EXCEPT ![c].pc = "caching"]
      /\ UNCHANGED <<opLock, callLock, subs, cache, feed, pushes, worker, down>>
  BY DEF Deliver
<1> HIDE DEF v
<1>5. /\ GateIds' = GateIds /\ PushType' = PushType /\ gates' \in Seq(Gate)
      /\ gates'[g] = v /\ \A h \in GateIds : h # g => gates'[h] = gates[h]
      /\ \A h \in GateIds : gates'[h].name = gates[h].name
      /\ Registered' /\ FedOnce' /\ FedStocks' = FedStocks
  BY <1>1, <1>3, <1>4, GateChange
<1>6. \A d \in Callers : d # c => caller'[d] = caller[d]
  BY <1>4 DEF ThreadTypes
<1>7. caller'[c].pc = "caching" /\ caller'[c].push = p /\ caller'[c] \in Carrying
  BY <1>1, <1>4 DEF ThreadTypes, Carrying
<1>8. p.gate = g
  OBVIOUS
<1> HIDE DEF g, p
<1>9. /\ tape[g] \in Seq(PushType) /\ arrived[g] \in Seq(PushType)
      /\ Append(arrived[g], p) \in Seq(PushType)
      /\ Append(tape[g], p) \in Seq(PushType) /\ Append(tape[g], p) # <<>> /\ Last(Append(tape[g], p)) = p
  BY <1>1, GateFacts, LastOfAppend
<1>10. /\ tape'[g] = Append(tape[g], p) /\ arrived'[g] = Append(arrived[g], p)
       /\ \A h \in GateIds : h # g => tape'[h] = tape[h] /\ arrived'[h] = arrived[h]
  BY <1>1, <1>4 DEF TypeOK
<1>11. TypeOK'
  BY <1>1, <1>4, <1>5, <1>9 DEF TypeOK, Gate
<1>12. ThreadTypes'
  BY <1>4, <1>5, <1>7 DEF ThreadTypes, Busy, Carrying
<1>13. OpLocks' /\ WorkerOps'
  BY <1>4, <1>5 DEF OpLocks, WorkerOps, Holds, WorkerOp
<1>14. WorkedGates'
  <2>1. \A t \in Workers : worker[t].pc \in GatePcs => worker[t].gate # g
    BY <1>2 DEF WorkedGates, WorkedGate
  <2> QED BY <1>4, <1>5, <1>10, <2>1 DEF WorkedGates, WorkedGate, Holds
<1>15. CachingGates'
  <2>1. \A d \in Callers : d # c /\ caller'[d].pc = "caching" =>
          caller'[d] = caller[d] /\ caller[d].push.gate \in GateIds /\ caller[d].push.gate # g
    BY <1>2, <1>6, CallerFacts, ThreadsAssumption DEF CachingGates, CachingGate
  <2> QED BY <1>3, <1>4, <1>5, <1>7, <1>8, <1>9, <1>10, <2>1 DEF CachingGates, CachingGate
<1>16. SettledGates'
  BY <1>1, <1>2, <1>3, <1>4, <1>5 DEF SettledGates, SettledGate, WorksOn
<1>17. HeldBack'
  BY <1>1, <1>3, <1>5 DEF HeldBack
<1>18. ArrivalOrder'
  <2>1. arrived[g] = tape[g]
    BY <1>1, <1>2, <1>9, ConcatEmptySeq DEF ArrivalOrder
  <2>2. arrived'[g] = tape'[g] \o gates'[g].pending
    BY <1>3, <1>5, <1>9, <1>10, <2>1, ConcatEmptySeq
  <2> QED BY <1>1, <1>2, <1>3, <1>5, <1>10, <2>2 DEF ArrivalOrder
<1>19. CacheFollows'
  <2>1. \A n \in Names : subs[n] # None => subs[n] \in GateIds
    BY DEF TypeOK
  <2>2. \A d \in Callers : caller[d].pc = "caching" => caller'[d] = caller[d]
    BY <1>1, <1>6
  <2> QED BY <1>1, <1>4, <1>7, <1>8, <1>10, <2>1, <2>2 DEF CacheFollows
<1>20. LimitKept'
  <2>1. \A t \in Workers : ToFeed(t)' = ToFeed(t)
    BY <1>4, <1>5 DEF ToFeed, WorkedGates, WorkedGate, GatePcs
  <2> QED BY <1>4, <1>5, <2>1 DEF LimitKept, Holds
<1> QED BY <1>5, <1>11, <1>12, <1>13, <1>14, <1>15, <1>16, <1>17, <1>18, <1>19, <1>20

LEMMA CacheStep ==
  ASSUME IndInv, NEW c \in Callers, Cache(c)
  PROVE  IndInv'
<1> DEFINE p == caller[c].push
           g == p.gate
           n == gates[g].name
           v == [gates[g] EXCEPT !.lock = None]
<1> USE DEF IndInv
<1>1. p \in PushType /\ g \in GateIds /\ caller[c].pc = "caching" /\ n \in Names
  BY CallerFacts, GateFacts DEF Cache
<1>2. /\ gates[g] \in Gate /\ gates[g].state = "active" /\ gates[g].lock = c
      /\ tape[g] # <<>> /\ Last(tape[g]) = p
  BY <1>1, GateFacts DEF CachingGates, CachingGate
<1>3. /\ v \in Gate /\ v.name = n /\ v.state = "active" /\ v.lock = None
      /\ v.pending = gates[g].pending
  BY <1>2 DEF Gate
<1>4. /\ gates' = [gates EXCEPT ![g] = v] /\ cache' = [cache EXCEPT ![n] = p]
      /\ caller' = [caller EXCEPT ![c] = Idle]
      /\ UNCHANGED <<opLock, callLock, subs, tape, feed, pushes, worker, down, arrived>>
  BY DEF Cache
<1> HIDE DEF v
<1>5. /\ GateIds' = GateIds /\ PushType' = PushType /\ gates' \in Seq(Gate)
      /\ gates'[g] = v /\ \A h \in GateIds : h # g => gates'[h] = gates[h]
      /\ \A h \in GateIds : gates'[h].name = gates[h].name
      /\ Registered' /\ FedOnce' /\ FedStocks' = FedStocks
  BY <1>1, <1>3, <1>4, GateChange
<1>6. \A d \in Callers : d # c => caller'[d] = caller[d]
  BY <1>4 DEF ThreadTypes
<1>7. caller'[c].pc = "idle"
  BY <1>4 DEF ThreadTypes, Idle
<1>8. p = caller[c].push /\ p.gate = g
  OBVIOUS
<1> HIDE DEF g, p
<1>9. \A t \in Workers : worker[t].pc \in GatePcs => worker[t].gate # g
  BY <1>2 DEF WorkedGates, WorkedGate
<1>10. subs[n] = g
  BY <1>1, <1>2, <1>9 DEF SettledGates, SettledGate, WorksOn
<1>11. TypeOK'
  BY <1>1, <1>4, <1>5 DEF TypeOK, Gate
<1>12. ThreadTypes' /\ OpLocks' /\ WorkerOps'
  BY <1>1, <1>4, <1>5 DEF ThreadTypes, OpLocks, WorkerOps, Holds, WorkerOp, Busy, Carrying
<1>13. WorkedGates'
  BY <1>4, <1>5, <1>9 DEF WorkedGates, WorkedGate, Holds
<1>14. CachingGates'
  <2>1. \A d \in Callers : caller'[d].pc = "caching" =>
          caller'[d] = caller[d] /\ caller[d].push.gate \in GateIds /\ caller[d].push.gate # g
    BY <1>2, <1>6, <1>7, CallerFacts DEF CachingGates, CachingGate
  <2> QED BY <1>4, <1>5, <2>1 DEF CachingGates, CachingGate
<1>15. SettledGates'
  BY <1>1, <1>2, <1>3, <1>4, <1>5 DEF SettledGates, SettledGate, WorksOn
<1>16. HeldBack'
  BY <1>1, <1>2, <1>3, <1>5 DEF HeldBack
<1>17. ArrivalOrder'
  <2>1. \A h \in GateIds : gates'[h].state = gates[h].state /\ gates'[h].pending = gates[h].pending
    BY <1>2, <1>3, <1>5
  <2> QED BY <1>4, <1>5, <2>1 DEF ArrivalOrder
<1>18. CacheFollows'
  <2>1. cache'[n] = p /\ \A m \in Names : m # n => cache'[m] = cache[m]
    BY <1>1, <1>4 DEF TypeOK
  <2>2. \A m \in Names : m # n /\ subs[m] # None => subs[m] # g
    BY DEF Registered
  <2>3. subs'[n] # None /\ cache'[n] = IF tape'[subs'[n]] = <<>> THEN None ELSE Last(tape'[subs'[n]])
    BY <1>1, <1>2, <1>4, <1>10, <2>1, GateFacts, ThreadsAssumption
  <2>4. ASSUME NEW m \in Names, m # n, subs[m] # None
        PROVE  (\E d \in Callers : caller[d].pc = "caching" /\ caller[d].push.gate = subs[m])
               => \E d \in Callers : caller'[d].pc = "caching" /\ caller'[d].push.gate = subs'[m]
    BY <1>4, <1>6, <1>8, <2>2, <2>4
  <2> QED BY <1>4, <2>1, <2>3, <2>4 DEF CacheFollows
<1>19. LimitKept'
  <2>1. \A t \in Workers : ToFeed(t)' = ToFeed(t)
    BY <1>4, <1>5 DEF ToFeed, WorkedGates, WorkedGate, GatePcs
  <2> QED BY <1>4, <1>5, <2>1 DEF LimitKept, Holds
<1> QED BY <1>5, <1>11, <1>12, <1>13, <1>14, <1>15, <1>16, <1>17, <1>18, <1>19

LEMMA PushStep ==
  ASSUME IndInv, NEW c \in Callers, NEW g \in GateIds, Push(c, g)
  PROVE  IndInv'
<1> DEFINE w == [pc |-> "called", push |-> [gate |-> g, n |-> pushes + 1]]
<1> USE DEF IndInv
<1>1. /\ caller' = [caller EXCEPT ![c] = w] /\ pushes' = pushes + 1 /\ pushes < MaxPushes
      /\ UNCHANGED <<opLock, callLock, subs, cache, tape, gates, feed, worker, down, arrived>>
  BY DEF Push
<1>2. caller[c].pc = "idle" /\ PushType' = PushType /\ GateIds' = GateIds
  BY <1>1 DEF Push, Idle, PushType, GateIds
<1>3. w \in Carrying /\ w.pc = "called" /\ pushes' \in 0 .. MaxPushes
  BY <1>1, LimitAssumption DEF Carrying, PushType, TypeOK
<1> HIDE DEF w
<1>4. HeldBack' /\ Registered' /\ ArrivalOrder' /\ FedOnce'
  BY <1>1, Undisturbed
<1>5. TypeOK'
  BY <1>1, <1>2, <1>3 DEF TypeOK
<1>6. ThreadTypes'
  BY <1>1, <1>2, <1>3 DEF ThreadTypes, Busy, Carrying
<1>7. OpLocks' /\ WorkerOps' /\ WorkedGates' /\ SettledGates'
  BY <1>1, <1>2 DEF OpLocks, Holds, WorkerOps, WorkerOp, WorkedGates, WorkedGate, SettledGates, SettledGate, WorksOn
<1>8. \A d \in Callers : IF d = c THEN caller'[d].pc = "called" ELSE caller'[d] = caller[d]
  BY <1>1, <1>3 DEF ThreadTypes
<1>9. CachingGates'
  BY <1>1, <1>8 DEF CachingGates, CachingGate
<1>10. CacheFollows'
  BY <1>1, <1>2, <1>8 DEF CacheFollows
<1>11. LimitKept'
  BY <1>1 DEF LimitKept, FedStocks, ToFeed, Holds
<1> QED BY <1>4, <1>5, <1>6, <1>7, <1>9, <1>10, <1>11

-----------------------------------------------------------------------------
(* The workers between gates: taking and giving back locks, names to do.   *)

LEMMA WorkerFacts ==
  ASSUME IndInv, NEW t \in Workers, worker[t].pc # "idle"
  PROVE  worker[t] \in Busy /\ WorkerOp(t)
BY DEF IndInv, ThreadTypes, Idle, WorkerOps

\* Of two workers at most one holds an operation lock.
LEMMA OneHolder ==
  ASSUME IndInv, NEW t \in Workers, NEW u \in Workers, NEW n \in Names,
         Holds(t, Kind(n)), Holds(u, Kind(n))
  PROVE  t = u
BY DEF IndInv, OpLocks, Kind, Kinds

\* A worker that keeps away from the gates disturbs nothing but what is said of itself.
LEMMA OffGate ==
  ASSUME IndInv, NEW t \in Workers, NEW w \in {Idle} \cup Busy,
         worker[t].pc \notin GatePcs, w.pc \notin GatePcs,
         worker' = [worker EXCEPT ![t] = w],
         UNCHANGED <<subs, cache, tape, gates, feed, pushes, caller, arrived>>,
         callLock' \in Workers \cup {None}, opLock' \in [Kinds -> Workers \cup {None}],
         down' \in BOOLEAN, down => down',
         \A k \in Kinds : Holds(t, k)' => opLock'[k] = t,
         \A k \in Kinds : opLock[k] # t => opLock'[k] = opLock[k] \/ opLock[k] = None,
         \A u \in Workers : u # t /\ worker[u].pc # "idle" => down' = down,
         w.pc # "idle" => WorkerOp(t)',
         Holds(t, "stock")' /\ w.op = "subscribe" => Cardinality(FedStocks \cup w.todo) <= StockLimit
  PROVE  IndInv'
<1> USE DEF IndInv
<1>1. worker'[t] = w /\ \A u \in Workers : u # t => worker'[u] = worker[u]
  BY DEF ThreadTypes
<1>2. PushType' = PushType /\ GateIds' = GateIds
  BY DEF PushType, GateIds
<1>3. HeldBack' /\ Registered' /\ ArrivalOrder' /\ FedOnce'
  BY Undisturbed
<1>4. TypeOK'
  BY <1>2 DEF TypeOK
<1>5. ThreadTypes'
  BY <1>2 DEF ThreadTypes, Busy, Carrying
<1>6. OpLocks'
  BY <1>1, ThreadsAssumption DEF OpLocks, Holds
<1>7. WorkerOps'
  BY <1>1 DEF WorkerOps, WorkerOp, Holds
<1>8. WorkedGates'
  BY <1>1, <1>2 DEF WorkedGates, WorkedGate, Holds
<1>9. CachingGates'
  BY DEF CachingGates, CachingGate
<1>10. SettledGates'
  BY <1>1, <1>2 DEF SettledGates, SettledGate, WorksOn
<1>11. CacheFollows'
  BY <1>1, <1>2 DEF CacheFollows, GatePcs, ActivatePcs, DrainPcs
<1>12. LimitKept'
  <2>1. FedStocks' = FedStocks
    BY DEF FedStocks
  <2>2. ToFeed(t)' = w.todo
    BY <1>1 DEF ToFeed, GatePcs
  <2>3. \A u \in Workers : u # t => ToFeed(u)' = ToFeed(u)
    BY <1>1 DEF ToFeed
  <2> QED BY <1>1, <2>1, <2>2, <2>3 DEF LimitKept, Holds
<1> QED BY <1>3, <1>4, <1>5, <1>6, <1>7, <1>8, <1>9, <1>10, <1>11, <1>12

\* A call that has only been made holds nothing.
LEMMA CallStep ==
  ASSUME IndInv, NEW t \in Workers, NEW op \in {"subscribe", "unsubscribe", "status"}, NEW kind \in Kinds,
         NEW names \in SUBSET NamesOf(kind), NEW period \in Periods \cup {None}, Call(t, op, kind, names, period)
  PROVE  IndInv'
<1> DEFINE w == [pc |-> "locking", op |-> op, kind |-> kind, todo |-> names,
                 period |-> period, gate |-> 0, push |-> None, failed |-> FALSE]
<1> USE DEF IndInv
<1>1. /\ worker' = [worker EXCEPT ![t] = w] /\ worker[t].pc = "idle" /\ ~down
      /\ UNCHANGED <<opLock, callLock, subs, cache, tape, gates, feed, pushes, caller, down, arrived>>
  BY DEF Call, Doing
<1>2. /\ w \in Busy /\ w.pc = "locking" /\ w.op = op /\ w.kind = kind /\ w.todo = names
      /\ w.pc \notin GatePcs /\ ~w.failed
  BY DEF Busy, Ops, Pcs, GatePcs, ActivatePcs, DrainPcs, Names, NamesOf
<1> HIDE DEF w
<1>3. worker'[t] = w
  BY <1>1 DEF ThreadTypes
<1>4. \A k \in Kinds : ~Holds(t, k)'
  BY <1>2, <1>3 DEF Holds
<1>5. WorkerOp(t)'
  BY <1>1, <1>2, <1>3 DEF WorkerOp, NamesOf, ActivatePcs, DrainPcs, GatePcs
<1>6. "stock" \in Kinds /\ worker[t].pc \notin GatePcs
  BY <1>1 DEF Kinds, GatePcs, ActivatePcs, DrainPcs
<1>7. opLock' \in [Kinds -> Workers \cup {None}] /\ callLock' \in Workers \cup {None} /\ down' \in BOOLEAN
  BY <1>1 DEF TypeOK, ThreadTypes
<1> QED BY <1>1, <1>2, <1>4, <1>5, <1>6, <1>7, OffGate

LEMMA CloseStep ==
  ASSUME IndInv, NEW t \in Workers, CallClose(t)
  PROVE  IndInv'
<1> DEFINE w == [pc |-> "locking", op |-> "close", kind |-> "market", todo |-> {},
                 period |-> None, gate |-> 0, push |-> None, failed |-> FALSE]
<1> USE DEF IndInv
<1>1. /\ worker' = [worker EXCEPT ![t] = w] /\ down'
      /\ \A u \in Workers : worker[u].pc = "idle"
      /\ UNCHANGED <<opLock, callLock, subs, cache, tape, gates, feed, pushes, caller, arrived>>
  BY DEF CallClose, Doing
<1>2. w \in Busy /\ w.pc = "locking" /\ w.op = "close" /\ w.todo = {} /\ w.pc \notin GatePcs
  BY DEF Busy, Ops, Pcs, GatePcs, ActivatePcs, DrainPcs, Names, Kinds
<1> HIDE DEF w
<1>3. worker'[t] = w
  BY <1>1 DEF ThreadTypes
<1>4. \A k \in Kinds : ~Holds(t, k)'
  BY <1>2, <1>3 DEF Holds
<1>5. WorkerOp(t)'
  BY <1>1, <1>2, <1>3 DEF WorkerOp, NamesOf, ActivatePcs, DrainPcs, GatePcs
<1>6. "stock" \in Kinds /\ worker[t].pc \notin GatePcs
  BY <1>1 DEF Kinds, GatePcs, ActivatePcs, DrainPcs
<1>7. opLock' \in [Kinds -> Workers \cup {None}] /\ callLock' \in Workers \cup {None} /\ down' \in BOOLEAN
  BY <1>1 DEF TypeOK, ThreadTypes, CallClose
<1> QED BY <1>1, <1>2, <1>4, <1>5, <1>6, <1>7, OffGate

LEMMA RequestStep ==
  ASSUME IndInv, NEW t \in Workers, Request(t)
  PROVE  IndInv'
<1>1. CASE CallSubscribeMarkets(t)
  BY <1>1, CallStep DEF CallSubscribeMarkets, Kinds, NamesOf
<1>2. CASE CallUnsubscribeMarkets(t)
  BY <1>2, CallStep DEF CallUnsubscribeMarkets, Kinds, NamesOf
<1>3. CASE CallSubscribeStocks(t)
  BY <1>3, CallStep DEF CallSubscribeStocks, Kinds, NamesOf
<1>4. CASE CallUnsubscribeStocks(t)
  BY <1>4, CallStep DEF CallUnsubscribeStocks, Kinds, NamesOf
<1>5. CASE CallStatus(t)
  BY <1>5, CallStep DEF CallStatus, Kinds, NamesOf
<1>6. CASE CallClose(t)
  BY <1>6, CloseStep
<1> QED BY <1>1, <1>2, <1>3, <1>4, <1>5, <1>6 DEF Request

\* Leave gives back only what the worker holds, and the worker is idle.
LEMMA LeaveLocks ==
  ASSUME IndInv, NEW t \in Workers, Leave(t)
  PROVE  /\ opLock' \in [Kinds -> Workers \cup {None}]
         /\ \A k \in Kinds : opLock[k] # t => opLock'[k] = opLock[k]
         /\ worker'[t].pc = "idle" /\ \A u \in Workers : u # t => worker'[u] = worker[u]
         /\ OpLocks'
<1> USE DEF IndInv, Leave
<1>1. opLock' \in [Kinds -> Workers \cup {None}] /\ \A k \in Kinds : opLock[k] # t => opLock'[k] = opLock[k]
  BY DEF TypeOK
<1>2. worker'[t].pc = "idle" /\ \A u \in Workers : u # t => worker'[u] = worker[u]
  BY DEF ThreadTypes, Idle
<1>3. OpLocks'
  BY <1>1, <1>2 DEF OpLocks, Holds
<1> QED BY <1>1, <1>2, <1>3

LEMMA LeaveStep ==
  ASSUME IndInv, NEW t \in Workers, worker[t].pc \notin GatePcs, Leave(t),
         UNCHANGED <<callLock, subs, cache, tape, gates, feed, pushes, caller, down, arrived>>
  PROVE  IndInv'
<1> USE DEF IndInv
<1>1. worker' = [worker EXCEPT ![t] = Idle] /\ Idle.pc = "idle" /\ Idle.pc \notin GatePcs
  BY DEF Leave, Idle, GatePcs, ActivatePcs, DrainPcs
<1>2. \A k \in Kinds : ~Holds(t, k)'
  BY LeaveLocks DEF Holds
<1>3. callLock' \in Workers \cup {None} /\ down' \in BOOLEAN /\ "stock" \in Kinds
  BY DEF TypeOK, ThreadTypes, Kinds
<1> QED BY <1>1, <1>2, <1>3, LeaveLocks, OffGate

LEMMA RefuseStep ==
  ASSUME IndInv, NEW t \in Workers, Refuse(t)
  PROVE  IndInv'
<1> USE DEF IndInv
<1>1. /\ worker' = [worker EXCEPT ![t] = Idle] /\ Idle.pc = "idle" /\ Idle.pc \notin GatePcs
      /\ worker[t].pc \notin GatePcs
      /\ UNCHANGED <<opLock, callLock, subs, cache, tape, gates, feed, pushes, caller, down, arrived>>
  BY DEF Refuse, Doing, Idle, GatePcs, ActivatePcs, DrainPcs
<1>2. \A k \in Kinds : ~Holds(t, k)'
  BY <1>1 DEF Holds, ThreadTypes
<1>3. callLock' \in Workers \cup {None} /\ down' \in BOOLEAN /\ "stock" \in Kinds
      /\ opLock' \in [Kinds -> Workers \cup {None}]
  BY <1>1 DEF TypeOK, ThreadTypes, Kinds
<1> QED BY <1>1, <1>2, <1>3, OffGate

\* While nobody holds the stock lock and the service is up, XtData feeds registered stocks only.
LEMMA FedAreRegistered ==
  ASSUME IndInv, ~down, \A t \in Workers : ~Holds(t, "stock")
  PROVE  FedStocks \subseteq Current("stock")
<1> USE DEF IndInv
<1> SUFFICES ASSUME NEW g \in feed, gates[g].name \in Stocks PROVE gates[g].name \in Current("stock")
  BY DEF FedStocks
<1>1. g \in GateIds /\ Kind(gates[g].name) = "stock"
  BY NamesAssumption DEF TypeOK, Kind
<1>2. \A t \in Workers : ~WorksOn(t, g)
  BY <1>1 DEF WorksOn, WorkedGates, WorkedGate
<1>3. subs[gates[g].name] = g
  BY <1>1, <1>2 DEF SettledGates, SettledGate
<1> QED BY <1>1, <1>3, GateFacts, ThreadsAssumption DEF Current, NamesOf

LEMMA StartSubscribeStep ==
  ASSUME IndInv, NEW t \in Workers, StartSubscribe(t)
  PROVE  IndInv'
<1> DEFINE o == worker[t]
           w == [worker[t] EXCEPT !.pc = "subscribing", !.todo = @ \ Current(o.kind)]
<1> USE DEF IndInv
<1>1. /\ o.pc = "locking" /\ o.op = "subscribe" /\ opLock[o.kind] = None /\ ~TooMany(o)
      /\ opLock' = [opLock EXCEPT ![o.kind] = t] /\ worker' = [worker EXCEPT ![t] = w]
      /\ UNCHANGED <<callLock, subs, cache, tape, gates, feed, pushes, caller, down, arrived>>
  BY DEF StartSubscribe, Doing
<1>2. o \in Busy /\ o.kind \in Kinds /\ o.todo \subseteq NamesOf(o.kind) /\ ~down /\ ~o.failed
  BY <1>1, WorkerFacts DEF WorkerOp, Busy
<1>3. /\ w \in Busy /\ w.pc = "subscribing" /\ w.op = "subscribe" /\ w.kind = o.kind /\ ~w.failed
      /\ w.todo = o.todo \ Current(o.kind) /\ w.pc \notin GatePcs /\ o.pc \notin GatePcs
  BY <1>1, <1>2 DEF Busy, Pcs, GatePcs, ActivatePcs, DrainPcs
<1> HIDE DEF w, o
<1>4. worker'[t] = w
  BY <1>1 DEF ThreadTypes
<1>5. \A k \in Kinds : Holds(t, k)' <=> k = o.kind
  BY <1>3, <1>4 DEF Holds
<1>6. opLock' \in [Kinds -> Workers \cup {None}] /\ \A k \in Kinds : opLock'[k] = IF k = o.kind THEN t ELSE opLock[k]
  BY <1>1, <1>2 DEF TypeOK
<1>7. WorkerOp(t)'
  <2>1. \A n \in w.todo : Kind(n) = o.kind /\ subs[n] = None /\ n \in NamesOf(o.kind)
    BY <1>2, <1>3, NamesAssumption DEF Kind, NamesOf, Current, Kinds
  <2>2. \A n \in w.todo : Holds(t, Kind(n))'
    BY <1>2, <1>5, <2>1
  <2> QED BY <1>1, <1>2, <1>3, <1>4, <2>1, <2>2 DEF WorkerOp, ActivatePcs, DrainPcs, GatePcs
<1>8. ASSUME o.kind = "stock" PROVE Cardinality(FedStocks \cup w.todo) <= StockLimit
  <2>1. \A u \in Workers : ~Holds(u, "stock")
    BY <1>1, <1>8, ThreadsAssumption DEF OpLocks, Kinds
  <2>2. FedStocks \cup w.todo \in SUBSET (Current("stock") \cup o.todo)
    BY <1>2, <1>3, <1>8, <2>1, FedAreRegistered
  <2>3. IsFiniteSet(Current("stock") \cup o.todo)
    BY <1>2, <1>8, StocksAssumption, FS_Subset DEF Current, NamesOf
  <2>4. Cardinality(FedStocks \cup w.todo) <= Cardinality(Current("stock") \cup o.todo)
    BY <2>2, <2>3, FS_Subset
  <2>5. Cardinality(Current("stock") \cup o.todo) <= StockLimit
    <3>1. Cardinality(Current("stock") \cup o.todo) \in Nat
      BY <2>3, FS_CardinalityType
    <3> QED BY <1>1, <1>8, <3>1, LimitAssumption DEF TooMany
  <2>6. Cardinality(Current("stock") \cup o.todo) \in Nat /\ Cardinality(FedStocks \cup w.todo) \in Nat
    BY <2>2, <2>3, FS_CardinalityType, FS_Subset
  <2> QED BY <2>4, <2>5, <2>6, LimitAssumption
<1>9. callLock' \in Workers \cup {None} /\ down' \in BOOLEAN /\ "stock" \in Kinds
  BY <1>1 DEF TypeOK, ThreadTypes, Kinds
<1> QED BY <1>1, <1>3, <1>5, <1>6, <1>7, <1>8, <1>9, OffGate DEF o

LEMMA StartUnsubscribeStep ==
  ASSUME IndInv, NEW t \in Workers, StartUnsubscribe(t)
  PROVE  IndInv'
<1> DEFINE o == worker[t]
           w == [worker[t] EXCEPT !.pc = "unsubscribing",
                                  !.todo = (@ \cap Current(o.kind)) \ OtherPeriod(@, o.period)]
<1> USE DEF IndInv
<1>1. /\ o.pc = "locking" /\ o.op = "unsubscribe" /\ opLock[o.kind] = None
      /\ opLock' = [opLock EXCEPT ![o.kind] = t] /\ worker' = [worker EXCEPT ![t] = w]
      /\ UNCHANGED <<callLock, subs, cache, tape, gates, feed, pushes, caller, down, arrived>>
  BY DEF StartUnsubscribe, Doing
<1>2. o \in Busy /\ o.kind \in Kinds /\ o.todo \subseteq NamesOf(o.kind) /\ ~down
  BY <1>1, WorkerFacts DEF WorkerOp, Busy
<1>3. /\ w \in Busy /\ w.pc = "unsubscribing" /\ w.op = "unsubscribe" /\ w.kind = o.kind
      /\ w.todo \subseteq o.todo \cap Current(o.kind) /\ w.pc \notin GatePcs /\ o.pc \notin GatePcs
  BY <1>1, <1>2 DEF Busy, Pcs, GatePcs, ActivatePcs, DrainPcs
<1> HIDE DEF w, o
<1>4. worker'[t] = w
  BY <1>1 DEF ThreadTypes
<1>5. \A k \in Kinds : Holds(t, k)' <=> k = o.kind
  BY <1>3, <1>4 DEF Holds
<1>6. opLock' \in [Kinds -> Workers \cup {None}] /\ \A k \in Kinds : opLock'[k] = IF k = o.kind THEN t ELSE opLock[k]
  BY <1>1, <1>2 DEF TypeOK
<1>7. WorkerOp(t)'
  <2>1. \A n \in w.todo : Kind(n) = o.kind /\ subs[n] # None /\ n \in NamesOf(o.kind)
    BY <1>2, <1>3, NamesAssumption DEF Kind, NamesOf, Current, Kinds
  <2>2. \A n \in w.todo : Holds(t, Kind(n))'
    BY <1>2, <1>5, <2>1
  <2> QED BY <1>1, <1>2, <1>3, <1>4, <2>1, <2>2 DEF WorkerOp, ActivatePcs, DrainPcs, GatePcs
<1>8. callLock' \in Workers \cup {None} /\ down' \in BOOLEAN /\ "stock" \in Kinds
  BY <1>1 DEF TypeOK, ThreadTypes, Kinds
<1> QED BY <1>1, <1>3, <1>5, <1>6, <1>7, <1>8, OffGate DEF o

LEMMA LockMarketStep ==
  ASSUME IndInv, NEW t \in Workers, LockMarket(t)
  PROVE  IndInv'
<1> DEFINE o == worker[t]
           w == [worker[t] EXCEPT !.pc = "locking_stock"]
<1> USE DEF IndInv
<1>1. /\ o.pc = "locking" /\ o.op \in {"status", "close"} /\ opLock["market"] = None
      /\ opLock' = [opLock EXCEPT !["market"] = t] /\ worker' = [worker EXCEPT ![t] = w]
      /\ UNCHANGED <<callLock, subs, cache, tape, gates, feed, pushes, caller, down, arrived>>
  BY DEF LockMarket, Doing, To
<1>2. o \in Busy /\ WorkerOp(t)
  BY <1>1, WorkerFacts
<1>3. /\ w \in Busy /\ w.pc = "locking_stock" /\ w.op = o.op
      /\ w.pc \notin GatePcs /\ o.pc \notin GatePcs
  BY <1>1, <1>2 DEF Busy, Pcs, GatePcs, ActivatePcs, DrainPcs
<1> HIDE DEF w
<1>4. worker'[t] = w
  BY <1>1 DEF ThreadTypes
<1>5. \A k \in Kinds : Holds(t, k)' => k = "market"
  BY <1>1, <1>3, <1>4 DEF Holds
<1>6. opLock' \in [Kinds -> Workers \cup {None}] /\ \A k \in Kinds : opLock'[k] = IF k = "market" THEN t ELSE opLock[k]
  BY <1>1 DEF TypeOK, Kinds
<1>7. WorkerOp(t)'
  BY <1>1, <1>2, <1>3, <1>4 DEF WorkerOp, ActivatePcs, DrainPcs, GatePcs
<1>8. callLock' \in Workers \cup {None} /\ down' \in BOOLEAN /\ "stock" \in Kinds
  BY <1>1 DEF TypeOK, ThreadTypes, Kinds
<1> QED BY <1>1, <1>3, <1>5, <1>6, <1>7, <1>8, OffGate

LEMMA LockStockStep ==
  ASSUME IndInv, NEW t \in Workers, LockStock(t)
  PROVE  IndInv'
<1> DEFINE o == worker[t]
           w == [worker[t] EXCEPT !.pc = IF o.op = "close" THEN "unsubscribing" ELSE "reporting",
                                  !.todo = Current("market") \cup Current("stock")]
<1> USE DEF IndInv
<1>1. /\ o.pc = "locking_stock" /\ opLock["stock"] = None
      /\ opLock' = [opLock EXCEPT !["stock"] = t] /\ worker' = [worker EXCEPT ![t] = w]
      /\ UNCHANGED <<callLock, subs, cache, tape, gates, feed, pushes, caller, down, arrived>>
  BY DEF LockStock, Doing
<1>2. o \in Busy /\ WorkerOp(t) /\ o.op \in {"status", "close"}
  BY <1>1, WorkerFacts DEF WorkerOp
<1>3. /\ w \in Busy /\ w.pc = (IF o.op = "close" THEN "unsubscribing" ELSE "reporting") /\ w.op = o.op
      /\ w.todo = Current("market") \cup Current("stock") /\ w.pc \notin GatePcs /\ o.pc \notin GatePcs
  BY <1>1, <1>2 DEF Busy, Pcs, GatePcs, ActivatePcs, DrainPcs, Current, NamesOf, Names
<1> HIDE DEF w
<1>4. worker'[t] = w
  BY <1>1 DEF ThreadTypes
<1>5. \A k \in Kinds : Holds(t, k)'
  BY <1>1, <1>2, <1>3, <1>4 DEF Holds
<1>6. opLock' \in [Kinds -> Workers \cup {None}] /\ \A k \in Kinds : opLock'[k] = IF k = "stock" THEN t ELSE opLock[k]
  BY <1>1 DEF TypeOK, Kinds
<1>7. opLock["market"] = t
  BY <1>1, <1>2 DEF OpLocks, Holds, Kinds
<1>8. WorkerOp(t)'
  <2>1. \A n \in w.todo : subs[n] # None /\ Kind(n) \in Kinds
    BY <1>3 DEF Current, Kind, Kinds
  <2>2. \A n \in w.todo : Holds(t, Kind(n))'
    BY <1>5, <2>1
  <2> QED BY <1>1, <1>2, <1>3, <1>4, <2>1, <2>2 DEF WorkerOp, ActivatePcs, DrainPcs, GatePcs
<1>9. callLock' \in Workers \cup {None} /\ down' \in BOOLEAN /\ "stock" \in Kinds
  BY <1>1 DEF TypeOK, ThreadTypes, Kinds
<1>10. \A k \in Kinds : opLock'[k] = t
  BY <1>6, <1>7 DEF Kinds
<1> QED BY <1>1, <1>2, <1>3, <1>6, <1>8, <1>9, <1>10, OffGate

LEMMA LeavingSteps ==
  ASSUME IndInv, NEW t \in Workers, Report(t) \/ Done(t)
  PROVE  IndInv'
<1>1. worker[t].pc \in {"reporting", "subscribing", "unsubscribing"} /\ worker[t].pc \notin GatePcs
  BY DEF Report, Done, Doing, GatePcs, ActivatePcs, DrainPcs
<1> QED BY <1>1, LeaveStep DEF Report, Done

-----------------------------------------------------------------------------
(* The workers at a gate. *)

\* Worker t may change the gate g and the name n it serves, of which it holds
\* the operation lock: then all that is said of other workers, gates and names stays.
LEMMA OnGate ==
  ASSUME IndInv, NEW t \in Workers, NEW g \in GateIds, NEW n \in Names, gates[g].name = n, Holds(t, Kind(n)),
         gates[g].state = "active" => gates[g].lock = None,
         worker[t].pc \in GatePcs => worker[t].gate = g, subs[n] \in {g, None},
         TypeOK', ThreadTypes', OpLocks', FedOnce', LimitKept',
         \A u \in Workers : u # t => worker'[u] = worker[u],
         UNCHANGED <<caller, down>>, GateIds' = GateIds,
         \A h \in GateIds : gates'[h].name = gates[h].name,
         \A h \in GateIds : h # g =>
           gates'[h] = gates[h] /\ tape'[h] = tape[h] /\ arrived'[h] = arrived[h] /\ (h \in feed' <=> h \in feed),
         \A m \in Names : m # n => subs'[m] = subs[m] /\ cache'[m] = cache[m],
         worker'[t].pc # "idle" => WorkerOp(t)',
         IF worker'[t].pc \in GatePcs THEN worker'[t].gate = g /\ WorkedGate(t)' ELSE SettledGate(g)',
         subs'[n] \in {g, None},
         gates'[g].state # "pending" => gates'[g].pending = <<>>,
         \A i \in 1 .. Len(gates'[g].pending) : gates'[g].pending[i].gate = g,
         IF gates'[g].state = "closed" THEN IsPrefix(tape'[g], arrived'[g])
         ELSE arrived'[g] = tape'[g] \o gates'[g].pending,
         IF subs'[n] = None THEN ~down => cache'[n] = None
         ELSE worker'[t].pc = "drain_caching" \/ cache'[n] = IF tape'[g] = <<>> THEN None ELSE Last(tape'[g])
  PROVE  IndInv'
<1> USE DEF IndInv
<1>1. \A u \in Workers, m \in Names : u # t /\ Holds(u, Kind(m)) => m # n
  BY OneHolder
<1>2. \A u \in Workers : u # t /\ worker[u].pc \in GatePcs =>
        /\ worker[u].gate \in GateIds /\ worker[u].gate # g
        /\ gates[worker[u].gate].name \in Names /\ gates[worker[u].gate].name # n
  BY <1>1, GateFacts DEF WorkedGates, WorkedGate
<1>3. WorkedGates'
  <2>1. \A u \in Workers : u # t /\ worker'[u].pc \in GatePcs => WorkedGate(u)'
    BY <1>2 DEF WorkedGates, WorkedGate, Holds
  <2> QED BY <2>1 DEF WorkedGates
<1>4. WorkerOps'
  <2>1. ASSUME NEW u \in Workers, u # t, worker[u].pc # "idle" PROVE WorkerOp(u)'
    <3>1. WorkerOp(u) /\ worker[u] \in Busy
      BY <2>1, WorkerFacts
    <3>2. ASSUME worker[u].pc \notin {"locking", "locking_stock", "reporting"}, NEW m \in worker[u].todo
          PROVE  subs'[m] = subs[m]
      <4>1. m \in Names /\ Holds(u, Kind(m))
        BY <3>1, <3>2 DEF WorkerOp, Busy
      <4> QED BY <1>1, <2>1, <4>1
    <3> QED BY <2>1, <3>1, <3>2 DEF WorkerOp, Holds
  <2> QED BY <2>1 DEF WorkerOps
<1>5. CachingGates'
  BY CallerFacts, ThreadsAssumption DEF CachingGates, CachingGate
<1>6. SettledGates'
  <2>1. ASSUME NEW h \in GateIds, h # g, \A u \in Workers : ~WorksOn(u, h)' PROVE SettledGate(h)'
    <3>1. \A u \in Workers : ~WorksOn(u, h)
      BY <2>1 DEF WorksOn
    <3>2. SettledGate(h) /\ gates[h].name \in Names
      BY <2>1, <3>1, GateFacts DEF SettledGates
    <3>3. CASE gates[h].name # n
      BY <2>1, <3>2, <3>3 DEF SettledGate
    <3>4. CASE gates[h].name = n
      <4>1. subs[n] # h /\ subs'[n] # h
        BY <2>1, GateFacts, ThreadsAssumption
      <4> QED BY <2>1, <3>2, <3>4, <4>1, GateFacts, ThreadsAssumption DEF SettledGate
    <3> QED BY <3>3, <3>4
  <2> QED BY <2>1 DEF SettledGates, WorksOn
<1>7. HeldBack'
  BY DEF HeldBack
<1>8. Registered'
  <2>1. \A m \in Names : subs[m] # None => subs[m] \in GateIds
    BY DEF TypeOK
  <2> QED BY <2>1 DEF Registered
<1>9. ArrivalOrder'
  BY DEF ArrivalOrder
<1>10. CacheFollows'
  <2>1. ASSUME NEW m \in Names, m # n, subs[m] # None PROVE subs[m] \in GateIds /\ subs[m] # g
    <3>1. subs[m] \in GateIds
      BY <2>1 DEF TypeOK
    <3>2. gates[subs[m]].name = m
      BY <2>1 DEF Registered
    <3> QED BY <2>1, <3>1, <3>2
  <2>2. \A u \in Workers : worker[u].pc = "drain_caching" => worker[u].pc \in GatePcs
    BY DEF GatePcs, ActivatePcs, DrainPcs
  <2>3. ASSUME NEW m \in Names, m # n, subs[m] # None
        PROVE  (\E u \in Workers : worker[u].pc = "drain_caching" /\ worker[u].gate = subs[m])
               => \E u \in Workers : worker'[u].pc = "drain_caching" /\ worker'[u].gate = subs'[m]
    BY <2>1, <2>2, <2>3
  <2>4. ASSUME NEW m \in Names, m # n
        PROVE  IF subs'[m] = None THEN ~down' => cache'[m] = None
               ELSE \/ \E c \in Callers : caller'[c].pc = "caching" /\ caller'[c].push.gate = subs'[m]
                    \/ \E u \in Workers : worker'[u].pc = "drain_caching" /\ worker'[u].gate = subs'[m]
                    \/ cache'[m] = IF tape'[subs'[m]] = <<>> THEN None ELSE Last(tape'[subs'[m]])
    BY <2>1, <2>3, <2>4 DEF CacheFollows
  <2>5. worker'[t].pc = "drain_caching" => worker'[t].gate = g
    BY DEF GatePcs, ActivatePcs, DrainPcs
  <2> QED BY <2>4, <2>5 DEF CacheFollows
<1> QED BY <1>3, <1>4, <1>5, <1>6, <1>7, <1>8, <1>9, <1>10

\* A worker at a gate, and what it may rely on.
LEMMA AtGate ==
  ASSUME IndInv, NEW t \in Workers, worker[t].pc \in GatePcs
  PROVE  LET g == worker[t].gate
             n == gates[g].name
         IN  /\ worker[t] \in Busy /\ WorkerOp(t) /\ WorkedGate(t) /\ worker[t].op # "status"
             /\ g \in GateIds /\ n \in Names /\ Holds(t, Kind(n)) /\ subs[n] \in {g, None}
             /\ gates[g] \in Gate /\ gates[g].state # "active" /\ gates[g].pending \in Seq(PushType)
             /\ tape[g] \in Seq(PushType) /\ arrived[g] \in Seq(PushType)
<1>1. worker[t] \in Busy /\ WorkerOp(t) /\ WorkedGate(t)
  BY WorkerFacts DEF IndInv, WorkedGates, GatePcs, ActivatePcs, DrainPcs
<1> QED BY <1>1, GateFacts DEF WorkedGate, WorkerOp

LEMMA WorkerBecomes ==
  ASSUME IndInv, NEW t \in Workers, NEW w \in {Idle} \cup Busy, worker' = [worker EXCEPT ![t] = w],
         GateIds' = GateIds, UNCHANGED <<caller, down>>
  PROVE  /\ worker'[t] = w /\ \A u \in Workers : u # t => worker'[u] = worker[u]
         /\ ThreadTypes' /\ PushType' = PushType
         /\ UNCHANGED opLock /\ (\A k \in Kinds : Holds(t, k)' => Holds(t, k)) => OpLocks'
<1> USE DEF IndInv
<1>1. PushType' = PushType
  BY DEF PushType
<1>2. ThreadTypes'
  BY <1>1 DEF ThreadTypes, Busy, Carrying
<1>3. worker'[t] = w /\ \A u \in Workers : u # t => worker'[u] = worker[u]
  BY DEF ThreadTypes
<1> QED BY <1>1, <1>2, <1>3 DEF OpLocks, Holds

\* XtData is only asked to feed what the limit was checked for.
LEMMA LimitStays ==
  ASSUME IndInv, NEW t \in Workers,
         \A u \in Workers : u # t => worker'[u] = worker[u],
         \A g \in GateIds : gates'[g].name = gates[g].name,
         FedStocks' \subseteq FedStocks
           \/ (Holds(t, "stock") /\ worker[t].op = "subscribe" /\ FedStocks' \subseteq FedStocks \cup ToFeed(t)),
         Holds(t, "stock")' /\ worker'[t].op = "subscribe" =>
           /\ Holds(t, "stock") /\ worker[t].op = "subscribe"
           /\ (FedStocks \cup ToFeed(t))' \subseteq FedStocks \cup ToFeed(t)
  PROVE  LimitKept'
<1> USE DEF IndInv
<1>1. \A u \in Workers : Holds(u, "stock") /\ worker[u].op = "subscribe" =>
        ToFeed(u) \subseteq Stocks
  <2> SUFFICES ASSUME NEW u \in Workers, Holds(u, "stock"), worker[u].op = "subscribe" PROVE ToFeed(u) \subseteq Stocks
    OBVIOUS
  <2>1. worker[u].kind = "stock" /\ worker[u].pc # "idle"
    BY DEF Holds
  <2>2. worker[u].todo \subseteq Stocks
    BY <2>1, WorkerFacts DEF WorkerOp, NamesOf
  <2>3. worker[u].pc = "calling" => gates[worker[u].gate].name \in Stocks
    <3> HAVE worker[u].pc = "calling"
    <3>1. WorkedGate(u) /\ gates[worker[u].gate].name \in Names
      BY AtGate DEF GatePcs
    <3> QED BY <3>1, <2>1 DEF WorkedGate, Holds, Kind, Names
  <2> QED BY <2>2, <2>3 DEF ToFeed
<1>2. FedStocks \subseteq Stocks
  BY DEF FedStocks
<1>3. ASSUME NEW S \in SUBSET Stocks, NEW T \in SUBSET S, Cardinality(S) <= StockLimit
      PROVE  Cardinality(T) <= StockLimit
  <2>1. IsFiniteSet(S) /\ Cardinality(S) \in Nat
    BY StocksAssumption, FS_Subset, FS_CardinalityType
  <2>2. Cardinality(T) <= Cardinality(S) /\ Cardinality(T) \in Nat
    BY <2>1, FS_Subset, FS_CardinalityType
  <2> QED BY <1>3, <2>1, <2>2, LimitAssumption
<1>4. Cardinality(FedStocks') <= StockLimit
  <2>1. CASE FedStocks' \subseteq FedStocks
    BY <1>2, <1>3, <2>1 DEF LimitKept
  <2>2. CASE Holds(t, "stock") /\ worker[t].op = "subscribe" /\ FedStocks' \subseteq FedStocks \cup ToFeed(t)
    BY <1>1, <1>2, <1>3, <2>2 DEF LimitKept
  <2> QED BY <2>1, <2>2
<1>5. ASSUME NEW u \in Workers, Holds(u, "stock")', worker'[u].op = "subscribe"
      PROVE  Cardinality((FedStocks \cup ToFeed(u))') <= StockLimit
  <2>1. CASE u = t
    BY <1>1, <1>2, <1>3, <1>5, <2>1 DEF LimitKept
  <2>2. CASE u # t
    <3>1. worker'[u] = worker[u] /\ Holds(u, "stock") /\ worker[u].op = "subscribe"
      BY <1>5, <2>2 DEF Holds
    <3>2. ToFeed(u)' = ToFeed(u)
      <4>1. worker[u].pc = "calling" => worker[u].gate \in GateIds
        BY AtGate DEF GatePcs
      <4> QED BY <3>1, <4>1 DEF ToFeed
    <3>3. ~Holds(t, "stock")
      BY <2>2, <3>1 DEF OpLocks, Kinds
    <3>4. (FedStocks \cup ToFeed(u))' \subseteq FedStocks \cup ToFeed(u)
      BY <3>2, <3>3
    <3> QED BY <1>1, <1>2, <1>3, <3>1, <3>4 DEF LimitKept
  <2> QED BY <2>1, <2>2
<1> QED BY <1>4, <1>5 DEF LimitKept

LEMMA GatewaySubscribeStep ==
  ASSUME IndInv, NEW t \in Workers, GatewaySubscribe(t)
  PROVE  IndInv'
<1> DEFINE o == worker[t]
           g == o.gate
           n == gates[g].name
           w == [worker[t] EXCEPT !.pc = "returning"]
<1> USE DEF IndInv
<1>1. /\ o.pc = "calling" /\ o.pc \in GatePcs /\ o.op = "subscribe"
      /\ feed' = feed \cup {g} /\ callLock' = t /\ worker' = [worker EXCEPT ![t] = w]
      /\ UNCHANGED <<opLock, subs, cache, tape, gates, pushes, caller, down, arrived>>
  BY DEF GatewaySubscribe, Doing, To, GatePcs
<1>2. /\ o \in Busy /\ WorkerOp(t) /\ WorkedGate(t) /\ g \in GateIds /\ n \in Names /\ Holds(t, Kind(n))
      /\ gates[g] \in Gate /\ gates[g].state # "active" /\ subs[n] \in {g, None}
  BY <1>1, AtGate
<1>3. /\ w \in Busy /\ w.pc = "returning" /\ w.op = "subscribe" /\ w.gate = g /\ w.kind = o.kind
      /\ w.todo = o.todo /\ ~w.failed
  BY <1>1, <1>2 DEF Busy, Pcs, GatePcs, WorkerOp
<1> HIDE DEF w
<1>4. /\ worker'[t] = w /\ \A u \in Workers : u # t => worker'[u] = worker[u]
      /\ ThreadTypes' /\ PushType' = PushType /\ GateIds' = GateIds
  BY <1>1, <1>3, WorkerBecomes DEF GateIds
<1>5. /\ \A k \in Kinds : Holds(t, k)' <=> Holds(t, k)
      /\ \A m \in Names : Holds(t, Kind(m))' <=> Holds(t, Kind(m))
  BY <1>1, <1>3, <1>4 DEF Holds
<1>6. OpLocks'
  BY <1>1, <1>3, <1>4, <1>5, WorkerBecomes
<1>7. TypeOK'
  BY <1>1, <1>2, <1>4 DEF TypeOK
<1>8. subs[n] = None /\ tape[g] = <<>> /\ ~down /\ gates[g].state = "pending"
  BY <1>1, <1>2 DEF WorkedGate, WorkerOp
<1>9. FedOnce'
  <2>1. ASSUME NEW h \in feed, h # g, gates[h].name = n PROVE FALSE
    <3>1. h \in GateIds
      BY DEF TypeOK
    <3>2. \A u \in Workers : u # t => ~WorksOn(u, h)
      BY <1>2, <2>1, OneHolder DEF WorksOn, WorkedGates, WorkedGate
    <3>3. ~WorksOn(t, h)
      BY <2>1 DEF WorksOn
    <3>4. SettledGate(h)
      BY <3>1, <3>2, <3>3 DEF SettledGates
    <3> QED BY <1>8, <2>1, <3>1, <3>4, GateFacts, ThreadsAssumption DEF SettledGate
  <2> QED BY <1>1, <2>1 DEF FedOnce
<1>10. LimitKept'
  <2>1. FedStocks' \subseteq FedStocks \cup {n}
    BY <1>1 DEF FedStocks
  <2>2. ToFeed(t) = o.todo \cup {n} /\ ToFeed(t)' = o.todo
    BY <1>1, <1>3, <1>4 DEF ToFeed
  <2>3. n \in Stocks => Holds(t, "stock")
    BY <1>2, NamesAssumption DEF Kind
  <2>4. n \notin Stocks => FedStocks' \subseteq FedStocks
    BY <2>1 DEF FedStocks
  <2>5. Holds(t, "stock")' => Holds(t, "stock")
    BY <1>5 DEF Kinds
  <2> QED BY <1>1, <1>4, <2>1, <2>2, <2>3, <2>4, <2>5, LimitStays
<1>11. WorkerOp(t)'
  BY <1>1, <1>2, <1>3, <1>4, <1>5 DEF WorkerOp, GatePcs, ActivatePcs, DrainPcs, Kind, Kinds
<1>12. worker'[t].pc \in GatePcs /\ worker'[t].gate = g /\ WorkedGate(t)'
  BY <1>1, <1>2, <1>3, <1>4, <1>5, <1>8 DEF WorkedGate, GatePcs, DrainPcs
<1>13. gates[g].name = n
  OBVIOUS
<1>14. cache[n] = None /\ HeldBack /\ arrived[g] = tape[g] \o gates[g].pending
  BY <1>2, <1>8 DEF CacheFollows, ArrivalOrder
<1> HIDE DEF IndInv, o, g, n
<1>15. /\ worker[t].pc \in GatePcs => worker[t].gate = g
       /\ gates[g].state = "active" => gates[g].lock = None
       /\ \A h \in GateIds : h # g => (h \in feed' <=> h \in feed)
       /\ worker'[t].pc # "idle" => WorkerOp(t)'
       /\ gates'[g].state # "pending" => gates'[g].pending = <<>>
       /\ \A i \in 1 .. Len(gates'[g].pending) : gates'[g].pending[i].gate = g
       /\ IF gates'[g].state = "closed" THEN IsPrefix(tape'[g], arrived'[g])
          ELSE arrived'[g] = tape'[g] \o gates'[g].pending
       /\ IF subs'[n] = None THEN ~down => cache'[n] = None
          ELSE worker'[t].pc = "drain_caching" \/ cache'[n] = IF tape'[g] = <<>> THEN None ELSE Last(tape'[g])
  BY <1>1, <1>2, <1>8, <1>11, <1>12, <1>13, <1>14 DEF HeldBack, g, o
<1> QED BY <1>1, <1>2, <1>4, <1>6, <1>7, <1>9, <1>10, <1>12, <1>13, <1>15, OnGate

\* The steps of a worker that leave the gate, the sequence and the locks as they are
\* and ask XtData for nothing new.
LEMMA KeptGate ==
  ASSUME IndInv, NEW t \in Workers, worker[t].pc \in GatePcs,
         NEW g \in GateIds, g = worker[t].gate, NEW n \in Names, n = gates[g].name,
         NEW w \in Busy, w.pc \in (GatePcs \ {"calling"}) \cup {"unsubscribing"},
         w.op = worker[t].op, w.kind = worker[t].kind, w.todo = worker[t].todo, w.gate = g,
         w.pc \in {"unsubscribing", "forgetting"} => w.op \in {"unsubscribe", "close"},
         w.pc \in ActivatePcs => w.op \in {"subscribe", "unsubscribe"} /\ (w.failed <=> w.op = "unsubscribe"),
         w.op = "subscribe" /\ w.pc # "closing" => ~w.failed,
         worker' = [worker EXCEPT ![t] = w],
         UNCHANGED <<opLock, tape, gates, pushes, caller, down, arrived>>,
         callLock' \in Workers \cup {None},
         subs' \in [Names -> GateIds \cup {None}], cache' \in [Names -> PushType \cup {None}], feed' \subseteq feed,
         \A m \in Names : m # n => subs'[m] = subs[m] /\ cache'[m] = cache[m],
         \A h \in GateIds : h # g => (h \in feed' <=> h \in feed),
         subs'[n] \in {g, None},
         IF w.pc \in GatePcs THEN WorkedGate(t)' ELSE SettledGate(g)',
         IF subs'[n] = None THEN ~down => cache'[n] = None
         ELSE w.pc = "drain_caching" \/ cache'[n] = IF tape[g] = <<>> THEN None ELSE Last(tape[g])
  PROVE  IndInv'
<1> DEFINE o == worker[t]
<1> USE DEF IndInv
<1>1. /\ o \in Busy /\ WorkerOp(t) /\ WorkedGate(t) /\ g \in GateIds /\ n \in Names /\ Holds(t, Kind(n))
      /\ gates[g] \in Gate /\ gates[g].state # "active" /\ subs[n] \in {g, None}
  BY AtGate
<1>2. GateIds' = GateIds
  BY DEF GateIds
<1>3. /\ worker'[t] = w /\ \A u \in Workers : u # t => worker'[u] = worker[u]
      /\ ThreadTypes' /\ PushType' = PushType
  BY <1>2, WorkerBecomes
<1>4. /\ \A k \in Kinds : Holds(t, k)' <=> Holds(t, k)
      /\ \A m \in Names : Holds(t, Kind(m))' <=> Holds(t, Kind(m))
  BY <1>3 DEF Holds, GatePcs, ActivatePcs, DrainPcs
<1>5. OpLocks'
  BY <1>2, <1>3, <1>4, WorkerBecomes
<1>6. TypeOK'
  BY <1>2, <1>3 DEF TypeOK
<1>7. FedOnce'
  BY DEF FedOnce
<1>8. LimitKept'
  <2>1. FedStocks' \subseteq FedStocks
    BY DEF FedStocks
  <2>2. ToFeed(t)' \subseteq ToFeed(t)
    BY <1>3 DEF ToFeed, GatePcs
  <2>3. Holds(t, "stock")' => Holds(t, "stock")
    BY <1>4 DEF Kinds
  <2>4. (FedStocks \cup ToFeed(t))' \subseteq FedStocks \cup ToFeed(t)
    BY <2>1, <2>2
  <2>5. Holds(t, "stock")' /\ worker'[t].op = "subscribe" =>
          /\ Holds(t, "stock") /\ worker[t].op = "subscribe"
          /\ (FedStocks \cup ToFeed(t))' \subseteq FedStocks \cup ToFeed(t)
    BY <1>3, <2>3, <2>4
  <2>6. /\ \A h \in GateIds : gates'[h].name = gates[h].name
        /\ \A u \in Workers : u # t => worker'[u] = worker[u]
    BY <1>3
  <2> HIDE DEF IndInv, o
  <2> QED BY <2>1, <2>5, <2>6, LimitStays
<1>9. WorkerOp(t)'
  <2>1. n \notin o.todo
    BY <1>1 DEF WorkedGate
  <2>2. \A m \in o.todo : m \in Names /\ Holds(t, Kind(m)) /\ (subs[m] = None <=> o.op = "subscribe")
    BY <1>1 DEF WorkerOp, Busy, GatePcs, ActivatePcs, DrainPcs
  <2>3. \A m \in o.todo : Holds(t, Kind(m))' /\ (subs'[m] = None <=> o.op = "subscribe")
    BY <1>4, <2>1, <2>2
  <2> QED BY <1>1, <1>3, <2>3 DEF WorkerOp, GatePcs, ActivatePcs, DrainPcs
<1>10. /\ gates[g].state # "pending" => gates[g].pending = <<>>
       /\ \A i \in 1 .. Len(gates[g].pending) : gates[g].pending[i].gate = g
       /\ IF gates[g].state = "closed" THEN IsPrefix(tape[g], arrived[g])
          ELSE arrived[g] = tape[g] \o gates[g].pending
  BY <1>1 DEF HeldBack, ArrivalOrder
<1> HIDE DEF IndInv
<1>11. /\ gates[g].name = n /\ worker[t].pc \in GatePcs => worker[t].gate = g
       /\ gates[g].state = "active" => gates[g].lock = None
       /\ \A h \in GateIds : gates'[h].name = gates[h].name
       /\ \A h \in GateIds : h # g =>
            gates'[h] = gates[h] /\ tape'[h] = tape[h] /\ arrived'[h] = arrived[h] /\ (h \in feed' <=> h \in feed)
       /\ worker'[t].pc # "idle" => WorkerOp(t)'
       /\ IF worker'[t].pc \in GatePcs THEN worker'[t].gate = g /\ WorkedGate(t)' ELSE SettledGate(g)'
       /\ gates'[g].state # "pending" => gates'[g].pending = <<>>
       /\ \A i \in 1 .. Len(gates'[g].pending) : gates'[g].pending[i].gate = g
       /\ IF gates'[g].state = "closed" THEN IsPrefix(tape'[g], arrived'[g])
          ELSE arrived'[g] = tape'[g] \o gates'[g].pending
       /\ IF subs'[n] = None THEN ~down => cache'[n] = None
          ELSE worker'[t].pc = "drain_caching" \/ cache'[n] = IF tape'[g] = <<>> THEN None ELSE Last(tape'[g])
  BY <1>1, <1>3, <1>9, <1>10
<1> QED BY <1>1, <1>2, <1>3, <1>5, <1>6, <1>7, <1>8, <1>11, OnGate

LEMMA SubscribedStep ==
  ASSUME IndInv, NEW t \in Workers, Subscribed(t)
  PROVE  IndInv'
<1> DEFINE o == worker[t]
<1> SUFFICES ASSUME NEW g \in GateIds, g = o.gate, NEW n \in Names, n = gates[g].name PROVE IndInv'
  BY AtGate DEF Subscribed, Doing, GatePcs
<1> DEFINE w == [worker[t] EXCEPT !.pc = "activating"]
<1>1. /\ o.pc = "returning" /\ o.pc \in GatePcs /\ o.op = "subscribe"
      /\ worker' = [worker EXCEPT ![t] = w]
      /\ callLock' = None /\ subs' = [subs EXCEPT ![n] = g]
      /\ UNCHANGED <<opLock, cache, tape, gates, feed, pushes, caller, down, arrived>>
  BY DEF Subscribed, Doing, To, GatePcs, ActivatePcs, DrainPcs
<1>2. /\ o \in Busy /\ WorkerOp(t) /\ WorkedGate(t) /\ g \in GateIds /\ n \in Names /\ Holds(t, Kind(n))
      /\ gates[g] \in Gate /\ subs[n] \in {g, None} /\ o.op # "status"
  BY <1>1, AtGate
<1>3. /\ w \in Busy /\ w.pc = "activating" /\ w.failed = o.failed
      /\ w.op = o.op /\ w.kind = o.kind /\ w.todo = o.todo /\ w.gate = g
  BY <1>1, <1>2 DEF Busy, Pcs, GatePcs, ActivatePcs, DrainPcs
<1> HIDE DEF w
<1>4. worker'[t] = w /\ GateIds' = GateIds
  BY <1>1 DEF IndInv, ThreadTypes, GateIds
<1>5. \A m \in Names : Holds(t, Kind(m))' <=> Holds(t, Kind(m))
  BY <1>1, <1>3, <1>4 DEF Holds
<1>6. /\ callLock' \in Workers \cup {None}
      /\ subs' \in [Names -> GateIds \cup {None}] /\ cache' \in [Names -> PushType \cup {None}]
      /\ feed' \subseteq feed /\ \A h \in GateIds : h # g => (h \in feed' <=> h \in feed)
      /\ \A m \in Names : m # n => subs'[m] = subs[m] /\ cache'[m] = cache[m]
  BY <1>1, <1>2 DEF IndInv, TypeOK
<1>7. subs'[n] \in {g, None} /\ subs'[n] = g
  BY <1>1, <1>2 DEF IndInv, TypeOK
<1>8. WorkedGate(t)' /\ w.pc \in GatePcs
  BY <1>1, <1>2, <1>3, <1>4, <1>5, <1>7 DEF WorkedGate, WorkerOp, GatePcs, ActivatePcs, DrainPcs
<1>9. IF subs'[n] = None THEN ~down => cache'[n] = None ELSE cache'[n] = IF tape[g] = <<>> THEN None ELSE Last(tape[g])
  BY <1>1, <1>2, <1>7 DEF IndInv, CacheFollows, WorkedGate, WorkerOp
<1>10. /\ g = worker[t].gate /\ n = gates[g].name /\ worker[t].pc \in GatePcs
       /\ w.op = worker[t].op /\ w.kind = worker[t].kind /\ w.todo = worker[t].todo
       /\ w.pc \in (GatePcs \ {"calling"}) \cup {"unsubscribing"}
       /\ w.pc \in {"unsubscribing", "forgetting"} => w.op \in {"unsubscribe", "close"}
       /\ w.pc \in ActivatePcs => w.op \in {"subscribe", "unsubscribe"} /\ (w.failed <=> w.op = "unsubscribe")
       /\ w.op = "subscribe" /\ w.pc # "closing" => ~w.failed
  BY <1>1, <1>2, <1>3 DEF WorkerOp, GatePcs, ActivatePcs, DrainPcs
<1>11. /\ UNCHANGED <<opLock, tape, gates, pushes, caller, down, arrived>>
       /\ IF w.pc \in GatePcs THEN WorkedGate(t)' ELSE SettledGate(g)'
       /\ IF subs'[n] = None THEN ~down => cache'[n] = None
          ELSE w.pc = "drain_caching" \/ cache'[n] = IF tape[g] = <<>> THEN None ELSE Last(tape[g])
  BY <1>1, <1>3, <1>8, <1>9
<1> HIDE DEF o
<1>12. IndInv /\ t \in Workers /\ worker' = [worker EXCEPT ![t] = w] /\ w \in Busy /\ w.gate = g /\ g \in GateIds /\ n \in Names
  BY <1>1, <1>2, <1>3
<1> QED BY ONLY <1>6, <1>7, <1>10, <1>11, <1>12, KeptGate

LEMMA CacheAtGate ==
  ASSUME IndInv, NEW t \in Workers, worker[t].pc \in GatePcs, worker[t].pc # "drain_caching"
  PROVE  LET g == worker[t].gate
             n == gates[g].name
         IN  IF subs[n] = None THEN ~down => cache[n] = None
             ELSE cache[n] = IF tape[g] = <<>> THEN None ELSE Last(tape[g])
<1> DEFINE g == worker[t].gate
           n == gates[g].name
<1>1. /\ WorkedGate(t) /\ g \in GateIds /\ n \in Names /\ Holds(t, Kind(n))
      /\ gates[g].state # "active" /\ subs[n] \in {g, None}
  BY AtGate
<1>2. \A u \in Workers : worker[u].pc = "drain_caching" => worker[u].gate # g
  BY <1>1, OneHolder DEF IndInv, WorkedGates, WorkedGate, GatePcs, ActivatePcs, DrainPcs
<1>3. \A c \in Callers : caller[c].pc = "caching" => caller[c].push.gate # g
  BY <1>1 DEF IndInv, CachingGates, CachingGate
<1>4. IF subs[n] = None THEN ~down => cache[n] = None
      ELSE cache[n] = IF tape[subs[n]] = <<>> THEN None ELSE Last(tape[subs[n]])
  BY <1>1, <1>2, <1>3 DEF IndInv, CacheFollows
<1> QED BY <1>1, <1>4

LEMMA SubscribeFailsStep ==
  ASSUME IndInv, NEW t \in Workers, SubscribeFails(t)
  PROVE  IndInv'
<1> DEFINE o == worker[t]
<1> SUFFICES ASSUME NEW g \in GateIds, g = o.gate, NEW n \in Names, n = gates[g].name PROVE IndInv'
  BY AtGate DEF SubscribeFails, Doing, GatePcs
<1> DEFINE w == [worker[t] EXCEPT !.pc = "closing", !.failed = TRUE]
<1>1. /\ o.pc = "returning" /\ o.pc \in GatePcs /\ o.op = "subscribe"
      /\ worker' = [worker EXCEPT ![t] = w]
      /\ callLock' = None /\ feed' = feed \ {g}
      /\ UNCHANGED <<opLock, subs, cache, tape, gates, pushes, caller, down, arrived>>
  BY DEF SubscribeFails, Doing, To, GatePcs, ActivatePcs, DrainPcs
<1>2. /\ o \in Busy /\ WorkerOp(t) /\ WorkedGate(t) /\ g \in GateIds /\ n \in Names /\ Holds(t, Kind(n))
      /\ gates[g] \in Gate /\ subs[n] \in {g, None} /\ o.op # "status"
  BY <1>1, AtGate
<1>3. /\ w \in Busy /\ w.pc = "closing" /\ w.failed = TRUE
      /\ w.op = o.op /\ w.kind = o.kind /\ w.todo = o.todo /\ w.gate = g
  BY <1>1, <1>2 DEF Busy, Pcs, GatePcs, ActivatePcs, DrainPcs
<1> HIDE DEF w
<1>4. worker'[t] = w /\ GateIds' = GateIds
  BY <1>1 DEF IndInv, ThreadTypes, GateIds
<1>5. \A m \in Names : Holds(t, Kind(m))' <=> Holds(t, Kind(m))
  BY <1>1, <1>3, <1>4 DEF Holds
<1>6. /\ callLock' \in Workers \cup {None}
      /\ subs' \in [Names -> GateIds \cup {None}] /\ cache' \in [Names -> PushType \cup {None}]
      /\ feed' \subseteq feed /\ \A h \in GateIds : h # g => (h \in feed' <=> h \in feed)
      /\ \A m \in Names : m # n => subs'[m] = subs[m] /\ cache'[m] = cache[m]
  BY <1>1, <1>2 DEF IndInv, TypeOK
<1>7. subs'[n] \in {g, None} /\ subs'[n] = subs[n]
  BY <1>1, <1>2
<1>8. WorkedGate(t)' /\ w.pc \in GatePcs
  BY <1>1, <1>2, <1>3, <1>4, <1>5, <1>7 DEF WorkedGate, WorkerOp, GatePcs, ActivatePcs, DrainPcs
<1>9. IF subs'[n] = None THEN ~down => cache'[n] = None ELSE cache'[n] = IF tape[g] = <<>> THEN None ELSE Last(tape[g])
  BY <1>1, <1>2, CacheAtGate DEF DrainPcs
<1>10. /\ g = worker[t].gate /\ n = gates[g].name /\ worker[t].pc \in GatePcs
       /\ w.op = worker[t].op /\ w.kind = worker[t].kind /\ w.todo = worker[t].todo
       /\ w.pc \in (GatePcs \ {"calling"}) \cup {"unsubscribing"}
       /\ w.pc \in {"unsubscribing", "forgetting"} => w.op \in {"unsubscribe", "close"}
       /\ w.pc \in ActivatePcs => w.op \in {"subscribe", "unsubscribe"} /\ (w.failed <=> w.op = "unsubscribe")
       /\ w.op = "subscribe" /\ w.pc # "closing" => ~w.failed
  BY <1>1, <1>2, <1>3 DEF WorkerOp, GatePcs, ActivatePcs, DrainPcs
<1>11. /\ UNCHANGED <<opLock, tape, gates, pushes, caller, down, arrived>>
       /\ IF w.pc \in GatePcs THEN WorkedGate(t)' ELSE SettledGate(g)'
       /\ IF subs'[n] = None THEN ~down => cache'[n] = None
          ELSE w.pc = "drain_caching" \/ cache'[n] = IF tape[g] = <<>> THEN None ELSE Last(tape[g])
  BY <1>1, <1>3, <1>8, <1>9
<1> HIDE DEF o
<1>12. IndInv /\ t \in Workers /\ worker' = [worker EXCEPT ![t] = w] /\ w \in Busy /\ w.gate = g /\ g \in GateIds /\ n \in Names
  BY <1>1, <1>2, <1>3
<1> QED BY ONLY <1>6, <1>7, <1>10, <1>11, <1>12, KeptGate

LEMMA GatewayUnsubscribeStep ==
  ASSUME IndInv, NEW t \in Workers, GatewayUnsubscribe(t)
  PROVE  IndInv'
<1> DEFINE o == worker[t]
<1> SUFFICES ASSUME NEW g \in GateIds, g = o.gate, NEW n \in Names, n = gates[g].name PROVE IndInv'
  BY AtGate DEF GatewayUnsubscribe, Doing, GatePcs
<1> DEFINE w == [worker[t] EXCEPT !.pc = "returning"]
<1>1. /\ o.pc = "calling" /\ o.pc \in GatePcs /\ o.op # "subscribe"
      /\ worker' = [worker EXCEPT ![t] = w]
      /\ callLock' = t
      /\ UNCHANGED <<opLock, subs, cache, tape, gates, feed, pushes, caller, down, arrived>>
  BY DEF GatewayUnsubscribe, Doing, To, GatePcs, ActivatePcs, DrainPcs
<1>2. /\ o \in Busy /\ WorkerOp(t) /\ WorkedGate(t) /\ g \in GateIds /\ n \in Names /\ Holds(t, Kind(n))
      /\ gates[g] \in Gate /\ subs[n] \in {g, None} /\ o.op # "status"
  BY <1>1, AtGate
<1>3. /\ w \in Busy /\ w.pc = "returning" /\ w.failed = o.failed
      /\ w.op = o.op /\ w.kind = o.kind /\ w.todo = o.todo /\ w.gate = g
  BY <1>1, <1>2 DEF Busy, Pcs, GatePcs, ActivatePcs, DrainPcs
<1> HIDE DEF w
<1>4. worker'[t] = w /\ GateIds' = GateIds
  BY <1>1 DEF IndInv, ThreadTypes, GateIds
<1>5. \A m \in Names : Holds(t, Kind(m))' <=> Holds(t, Kind(m))
  BY <1>1, <1>3, <1>4 DEF Holds
<1>6. /\ callLock' \in Workers \cup {None}
      /\ subs' \in [Names -> GateIds \cup {None}] /\ cache' \in [Names -> PushType \cup {None}]
      /\ feed' \subseteq feed /\ \A h \in GateIds : h # g => (h \in feed' <=> h \in feed)
      /\ \A m \in Names : m # n => subs'[m] = subs[m] /\ cache'[m] = cache[m]
  BY <1>1, <1>2 DEF IndInv, TypeOK
<1>7. subs'[n] \in {g, None} /\ subs'[n] = subs[n]
  BY <1>1, <1>2
<1>8. WorkedGate(t)' /\ w.pc \in GatePcs
  BY <1>1, <1>2, <1>3, <1>4, <1>5, <1>7 DEF WorkedGate, WorkerOp, GatePcs, ActivatePcs, DrainPcs
<1>9. IF subs'[n] = None THEN ~down => cache'[n] = None ELSE cache'[n] = IF tape[g] = <<>> THEN None ELSE Last(tape[g])
  BY <1>1, <1>2, CacheAtGate DEF DrainPcs
<1>10. /\ g = worker[t].gate /\ n = gates[g].name /\ worker[t].pc \in GatePcs
       /\ w.op = worker[t].op /\ w.kind = worker[t].kind /\ w.todo = worker[t].todo
       /\ w.pc \in (GatePcs \ {"calling"}) \cup {"unsubscribing"}
       /\ w.pc \in {"unsubscribing", "forgetting"} => w.op \in {"unsubscribe", "close"}
       /\ w.pc \in ActivatePcs => w.op \in {"subscribe", "unsubscribe"} /\ (w.failed <=> w.op = "unsubscribe")
       /\ w.op = "subscribe" /\ w.pc # "closing" => ~w.failed
  BY <1>1, <1>2, <1>3 DEF WorkerOp, GatePcs, ActivatePcs, DrainPcs
<1>11. /\ UNCHANGED <<opLock, tape, gates, pushes, caller, down, arrived>>
       /\ IF w.pc \in GatePcs THEN WorkedGate(t)' ELSE SettledGate(g)'
       /\ IF subs'[n] = None THEN ~down => cache'[n] = None
          ELSE w.pc = "drain_caching" \/ cache'[n] = IF tape[g] = <<>> THEN None ELSE Last(tape[g])
  BY <1>1, <1>3, <1>8, <1>9
<1> HIDE DEF o
<1>12. IndInv /\ t \in Workers /\ worker' = [worker EXCEPT ![t] = w] /\ w \in Busy /\ w.gate = g /\ g \in GateIds /\ n \in Names
  BY <1>1, <1>2, <1>3
<1> QED BY ONLY <1>6, <1>7, <1>10, <1>11, <1>12, KeptGate

LEMMA UnsubscribedStep ==
  ASSUME IndInv, NEW t \in Workers, Unsubscribed(t)
  PROVE  IndInv'
<1> DEFINE o == worker[t]
<1> SUFFICES ASSUME NEW g \in GateIds, g = o.gate, NEW n \in Names, n = gates[g].name PROVE IndInv'
  BY AtGate DEF Unsubscribed, Doing, GatePcs
<1> DEFINE w == [worker[t] EXCEPT !.pc = "closing"]
<1>1. /\ o.pc = "returning" /\ o.pc \in GatePcs /\ o.op # "subscribe"
      /\ worker' = [worker EXCEPT ![t] = w]
      /\ callLock' = None /\ feed' = feed \ {g}
      /\ UNCHANGED <<opLock, subs, cache, tape, gates, pushes, caller, down, arrived>>
  BY DEF Unsubscribed, Doing, To, GatePcs, ActivatePcs, DrainPcs
<1>2. /\ o \in Busy /\ WorkerOp(t) /\ WorkedGate(t) /\ g \in GateIds /\ n \in Names /\ Holds(t, Kind(n))
      /\ gates[g] \in Gate /\ subs[n] \in {g, None} /\ o.op # "status"
  BY <1>1, AtGate
<1>3. /\ w \in Busy /\ w.pc = "closing" /\ w.failed = o.failed
      /\ w.op = o.op /\ w.kind = o.kind /\ w.todo = o.todo /\ w.gate = g
  BY <1>1, <1>2 DEF Busy, Pcs, GatePcs, ActivatePcs, DrainPcs
<1> HIDE DEF w
<1>4. worker'[t] = w /\ GateIds' = GateIds
  BY <1>1 DEF IndInv, ThreadTypes, GateIds
<1>5. \A m \in Names : Holds(t, Kind(m))' <=> Holds(t, Kind(m))
  BY <1>1, <1>3, <1>4 DEF Holds
<1>6. /\ callLock' \in Workers \cup {None}
      /\ subs' \in [Names -> GateIds \cup {None}] /\ cache' \in [Names -> PushType \cup {None}]
      /\ feed' \subseteq feed /\ \A h \in GateIds : h # g => (h \in feed' <=> h \in feed)
      /\ \A m \in Names : m # n => subs'[m] = subs[m] /\ cache'[m] = cache[m]
  BY <1>1, <1>2 DEF IndInv, TypeOK
<1>7. subs'[n] \in {g, None} /\ subs'[n] = subs[n]
  BY <1>1, <1>2
<1>8. WorkedGate(t)' /\ w.pc \in GatePcs
  BY <1>1, <1>2, <1>3, <1>4, <1>5, <1>7 DEF WorkedGate, WorkerOp, GatePcs, ActivatePcs, DrainPcs
<1>9. IF subs'[n] = None THEN ~down => cache'[n] = None ELSE cache'[n] = IF tape[g] = <<>> THEN None ELSE Last(tape[g])
  BY <1>1, <1>2, CacheAtGate DEF DrainPcs
<1>10. /\ g = worker[t].gate /\ n = gates[g].name /\ worker[t].pc \in GatePcs
       /\ w.op = worker[t].op /\ w.kind = worker[t].kind /\ w.todo = worker[t].todo
       /\ w.pc \in (GatePcs \ {"calling"}) \cup {"unsubscribing"}
       /\ w.pc \in {"unsubscribing", "forgetting"} => w.op \in {"unsubscribe", "close"}
       /\ w.pc \in ActivatePcs => w.op \in {"subscribe", "unsubscribe"} /\ (w.failed <=> w.op = "unsubscribe")
       /\ w.op = "subscribe" /\ w.pc # "closing" => ~w.failed
  BY <1>1, <1>2, <1>3 DEF WorkerOp, GatePcs, ActivatePcs, DrainPcs
<1>11. /\ UNCHANGED <<opLock, tape, gates, pushes, caller, down, arrived>>
       /\ IF w.pc \in GatePcs THEN WorkedGate(t)' ELSE SettledGate(g)'
       /\ IF subs'[n] = None THEN ~down => cache'[n] = None
          ELSE w.pc = "drain_caching" \/ cache'[n] = IF tape[g] = <<>> THEN None ELSE Last(tape[g])
  BY <1>1, <1>3, <1>8, <1>9
<1> HIDE DEF o
<1>12. IndInv /\ t \in Workers /\ worker' = [worker EXCEPT ![t] = w] /\ w \in Busy /\ w.gate = g /\ g \in GateIds /\ n \in Names
  BY <1>1, <1>2, <1>3
<1> QED BY ONLY <1>6, <1>7, <1>10, <1>11, <1>12, KeptGate

LEMMA UnsubscribeFailsStep ==
  ASSUME IndInv, NEW t \in Workers, UnsubscribeFails(t)
  PROVE  IndInv'
<1> DEFINE o == worker[t]
<1> SUFFICES ASSUME NEW g \in GateIds, g = o.gate, NEW n \in Names, n = gates[g].name PROVE IndInv'
  BY AtGate DEF UnsubscribeFails, Doing, GatePcs
<1> DEFINE w == [worker[t] EXCEPT !.pc = IF o.op = "close" THEN "closing" ELSE "activating", !.failed = TRUE]
<1>1. /\ o.pc = "returning" /\ o.pc \in GatePcs /\ o.op # "subscribe"
      /\ worker' = [worker EXCEPT ![t] = w]
      /\ callLock' = None
      /\ UNCHANGED <<opLock, subs, cache, tape, gates, feed, pushes, caller, down, arrived>>
  BY DEF UnsubscribeFails, Doing, To, GatePcs, ActivatePcs, DrainPcs
<1>2. /\ o \in Busy /\ WorkerOp(t) /\ WorkedGate(t) /\ g \in GateIds /\ n \in Names /\ Holds(t, Kind(n))
      /\ gates[g] \in Gate /\ subs[n] \in {g, None} /\ o.op # "status"
  BY <1>1, AtGate
<1>3. /\ w \in Busy /\ w.pc = (IF o.op = "close" THEN "closing" ELSE "activating") /\ w.failed = TRUE
      /\ w.op = o.op /\ w.kind = o.kind /\ w.todo = o.todo /\ w.gate = g
  BY <1>1, <1>2 DEF Busy, Pcs, GatePcs, ActivatePcs, DrainPcs
<1> HIDE DEF w
<1>4. worker'[t] = w /\ GateIds' = GateIds
  BY <1>1 DEF IndInv, ThreadTypes, GateIds
<1>5. \A m \in Names : Holds(t, Kind(m))' <=> Holds(t, Kind(m))
  BY <1>1, <1>3, <1>4 DEF Holds
<1>6. /\ callLock' \in Workers \cup {None}
      /\ subs' \in [Names -> GateIds \cup {None}] /\ cache' \in [Names -> PushType \cup {None}]
      /\ feed' \subseteq feed /\ \A h \in GateIds : h # g => (h \in feed' <=> h \in feed)
      /\ \A m \in Names : m # n => subs'[m] = subs[m] /\ cache'[m] = cache[m]
  BY <1>1, <1>2 DEF IndInv, TypeOK
<1>7. subs'[n] \in {g, None} /\ subs'[n] = subs[n]
  BY <1>1, <1>2
<1>8. WorkedGate(t)' /\ w.pc \in GatePcs
  BY <1>1, <1>2, <1>3, <1>4, <1>5, <1>7 DEF WorkedGate, WorkerOp, GatePcs, ActivatePcs, DrainPcs
<1>9. IF subs'[n] = None THEN ~down => cache'[n] = None ELSE cache'[n] = IF tape[g] = <<>> THEN None ELSE Last(tape[g])
  BY <1>1, <1>2, CacheAtGate DEF DrainPcs
<1>10. /\ g = worker[t].gate /\ n = gates[g].name /\ worker[t].pc \in GatePcs
       /\ w.op = worker[t].op /\ w.kind = worker[t].kind /\ w.todo = worker[t].todo
       /\ w.pc \in (GatePcs \ {"calling"}) \cup {"unsubscribing"}
       /\ w.pc \in {"unsubscribing", "forgetting"} => w.op \in {"unsubscribe", "close"}
       /\ w.pc \in ActivatePcs => w.op \in {"subscribe", "unsubscribe"} /\ (w.failed <=> w.op = "unsubscribe")
       /\ w.op = "subscribe" /\ w.pc # "closing" => ~w.failed
  BY <1>1, <1>2, <1>3 DEF WorkerOp, Busy, Ops, GatePcs, ActivatePcs, DrainPcs
<1>11. /\ UNCHANGED <<opLock, tape, gates, pushes, caller, down, arrived>>
       /\ IF w.pc \in GatePcs THEN WorkedGate(t)' ELSE SettledGate(g)'
       /\ IF subs'[n] = None THEN ~down => cache'[n] = None
          ELSE w.pc = "drain_caching" \/ cache'[n] = IF tape[g] = <<>> THEN None ELSE Last(tape[g])
  BY <1>1, <1>3, <1>8, <1>9
<1> HIDE DEF o
<1>12. IndInv /\ t \in Workers /\ worker' = [worker EXCEPT ![t] = w] /\ w \in Busy /\ w.gate = g /\ g \in GateIds /\ n \in Names
  BY <1>1, <1>2, <1>3
<1> QED BY ONLY <1>6, <1>7, <1>10, <1>11, <1>12, KeptGate

LEMMA ForgetStep ==
  ASSUME IndInv, NEW t \in Workers, Forget(t)
  PROVE  IndInv'
<1> DEFINE o == worker[t]
<1> SUFFICES ASSUME NEW g \in GateIds, g = o.gate, NEW n \in Names, n = gates[g].name PROVE IndInv'
  BY AtGate DEF Forget, Doing, GatePcs
<1> DEFINE w == [worker[t] EXCEPT !.pc = "unsubscribing"]
<1>1. /\ o.pc = "forgetting" /\ o.pc \in GatePcs /\ o.op \in {"unsubscribe", "close"}
      /\ worker' = [worker EXCEPT ![t] = w]
      /\ subs' = [subs EXCEPT ![n] = None] /\ cache' = (IF o.op = "close" THEN cache ELSE [cache EXCEPT ![n] = None])
      /\ UNCHANGED <<opLock, callLock, tape, gates, feed, pushes, caller, down, arrived>>
  <2>1. o.pc = "forgetting" /\ WorkerOp(t)
    BY WorkerFacts DEF Forget, Doing
  <2> QED BY <2>1 DEF Forget, Doing, To, WorkerOp, GatePcs
<1>2. /\ o \in Busy /\ WorkerOp(t) /\ WorkedGate(t) /\ g \in GateIds /\ n \in Names /\ Holds(t, Kind(n))
      /\ gates[g] \in Gate /\ subs[n] \in {g, None} /\ o.op # "status"
  BY <1>1, AtGate
<1>3. /\ w \in Busy /\ w.pc = "unsubscribing" /\ w.failed = o.failed
      /\ w.op = o.op /\ w.kind = o.kind /\ w.todo = o.todo /\ w.gate = g
  BY <1>1, <1>2 DEF Busy, Pcs, GatePcs, ActivatePcs, DrainPcs
<1> HIDE DEF w
<1>4. worker'[t] = w /\ GateIds' = GateIds
  BY <1>1 DEF IndInv, ThreadTypes, GateIds
<1>5. \A m \in Names : Holds(t, Kind(m))' <=> Holds(t, Kind(m))
  BY <1>1, <1>3, <1>4 DEF Holds
<1>6. /\ callLock' \in Workers \cup {None}
      /\ subs' \in [Names -> GateIds \cup {None}] /\ cache' \in [Names -> PushType \cup {None}]
      /\ feed' \subseteq feed /\ \A h \in GateIds : h # g => (h \in feed' <=> h \in feed)
      /\ \A m \in Names : m # n => subs'[m] = subs[m] /\ cache'[m] = cache[m]
  BY <1>1, <1>2 DEF IndInv, TypeOK
<1>7. subs'[n] \in {g, None} /\ subs'[n] = None
  BY <1>1, <1>2 DEF IndInv, TypeOK
<1>8. SettledGate(g)' /\ w.pc \notin GatePcs
  BY <1>1, <1>2, <1>3, <1>4, <1>5, <1>7, GateFacts, ThreadsAssumption DEF SettledGate, WorkedGate, WorkerOp, GatePcs, ActivatePcs, DrainPcs
<1>9. IF subs'[n] = None THEN ~down => cache'[n] = None ELSE cache'[n] = IF tape[g] = <<>> THEN None ELSE Last(tape[g])
  BY <1>1, <1>2, <1>7 DEF WorkerOp, IndInv, TypeOK
<1>10. /\ g = worker[t].gate /\ n = gates[g].name /\ worker[t].pc \in GatePcs
       /\ w.op = worker[t].op /\ w.kind = worker[t].kind /\ w.todo = worker[t].todo
       /\ w.pc \in (GatePcs \ {"calling"}) \cup {"unsubscribing"}
       /\ w.pc \in {"unsubscribing", "forgetting"} => w.op \in {"unsubscribe", "close"}
       /\ w.pc \in ActivatePcs => w.op \in {"subscribe", "unsubscribe"} /\ (w.failed <=> w.op = "unsubscribe")
       /\ w.op = "subscribe" /\ w.pc # "closing" => ~w.failed
  BY <1>1, <1>2, <1>3 DEF WorkerOp, GatePcs, ActivatePcs, DrainPcs
<1>11. /\ UNCHANGED <<opLock, tape, gates, pushes, caller, down, arrived>>
       /\ IF w.pc \in GatePcs THEN WorkedGate(t)' ELSE SettledGate(g)'
       /\ IF subs'[n] = None THEN ~down => cache'[n] = None
          ELSE w.pc = "drain_caching" \/ cache'[n] = IF tape[g] = <<>> THEN None ELSE Last(tape[g])
  BY <1>1, <1>3, <1>8, <1>9
<1> HIDE DEF o
<1>12. IndInv /\ t \in Workers /\ worker' = [worker EXCEPT ![t] = w] /\ w \in Busy /\ w.gate = g /\ g \in GateIds /\ n \in Names
  BY <1>1, <1>2, <1>3
<1> QED BY ONLY <1>6, <1>7, <1>10, <1>11, <1>12, KeptGate

\* A step of worker t at gate g of the name n that changes the gate to v, what it
\* has put on the sequence to s, the worker to w and the cache of n, and leaves the
\* registrations and XtData alone.
TouchesGate(t, g, n, w, v, s) ==
  /\ gates[g].name = n /\ Holds(t, Kind(n)) /\ subs[n] \in {g, None}
  /\ worker[t].pc \in GatePcs => worker[t].gate = g /\ n \notin worker[t].todo
  /\ worker[t].pc \notin {"locking", "locking_stock", "reporting"}
  /\ gates[g].state = "active" => gates[g].lock = None
  /\ worker' = [worker EXCEPT ![t] = w] /\ gates' = [gates EXCEPT ![g] = v] /\ tape' = [tape EXCEPT ![g] = s]
  /\ cache' \in [Names -> PushType \cup {None}]
  /\ \A m \in Names : m # n => cache'[m] = cache[m]
  /\ UNCHANGED <<callLock, subs, feed, pushes, caller, down, arrived>>
  /\ IF w.pc = "idle" THEN Leave(t)
     ELSE /\ UNCHANGED opLock
          /\ w.op = worker[t].op /\ w.kind = worker[t].kind /\ w.gate = g /\ w.todo = worker[t].todo \ {n}
          /\ w.pc \in GatePcs \cup {"subscribing"}
          /\ w.pc = "calling" => w.op # "subscribe"
          /\ w.pc = "subscribing" => w.op = "subscribe"
          /\ w.pc = "forgetting" => w.op \in {"unsubscribe", "close"}
          /\ w.pc \in ActivatePcs => w.op \in {"subscribe", "unsubscribe"} /\ (w.failed <=> w.op = "unsubscribe")
          /\ w.op # "status"
          /\ w.op = "subscribe" /\ w.pc # "closing" => ~w.failed
  /\ IF w.pc \in GatePcs THEN WorkedGate(t)' ELSE SettledGate(g)'
  /\ v.name = n
  /\ v.state # "pending" => v.pending = <<>>
  /\ \A i \in 1 .. Len(v.pending) : v.pending[i].gate = g
  /\ IF v.state = "closed" THEN IsPrefix(s, arrived[g]) ELSE arrived[g] = s \o v.pending
  /\ IF subs[n] = None THEN ~down => cache'[n] = None
     ELSE w.pc = "drain_caching" \/ cache'[n] = IF s = <<>> THEN None ELSE Last(s)

LEMMA TouchedGate ==
  ASSUME IndInv, NEW t \in Workers, NEW g \in GateIds, NEW n \in Names,
         NEW w \in {Idle} \cup Busy, NEW v \in Gate, NEW s \in Seq(PushType), TouchesGate(t, g, n, w, v, s)
  PROVE  IndInv'
<1> DEFINE o == worker[t]
<1> USE DEF IndInv, TouchesGate
<1>1. /\ GateIds' = GateIds /\ PushType' = PushType /\ gates' \in Seq(Gate) /\ gates'[g] = v
      /\ \A h \in GateIds : h # g => gates'[h] = gates[h]
      /\ \A h \in GateIds : gates'[h].name = gates[h].name
      /\ FedOnce' /\ FedStocks' = FedStocks
  BY GateChange
<1>2. /\ worker'[t] = w /\ \A u \in Workers : u # t => worker'[u] = worker[u]
      /\ ThreadTypes'
  BY <1>1, WorkerBecomes
<1>3. w.pc # "idle" => \A k \in Kinds : Holds(t, k)' <=> Holds(t, k)
  BY <1>2 DEF Holds, GatePcs, ActivatePcs, DrainPcs
<1>4. OpLocks' /\ opLock' \in [Kinds -> Workers \cup {None}]
  <2>1. CASE w.pc = "idle"
    BY <2>1, LeaveLocks
  <2>2. CASE w.pc # "idle"
    <3>1. OpLocks'
      BY <1>1, <1>3, <2>2, WorkerBecomes
    <3> QED BY <2>2, <3>1 DEF TypeOK
  <2> QED BY <2>1, <2>2
<1>5. tape'[g] = s /\ \A h \in GateIds : h # g => tape'[h] = tape[h]
  BY DEF TypeOK
<1>6. TypeOK'
  BY <1>1, <1>4, <1>5 DEF TypeOK, Gate
<1>7. o \in Busy /\ WorkerOp(t)
  BY WorkerFacts DEF Holds
<1>8. WorkerOp(t)' \/ w.pc = "idle"
  <2> SUFFICES ASSUME w.pc # "idle" PROVE WorkerOp(t)'
    OBVIOUS
  <2>1. \A m \in Names : Kind(m) \in Kinds
    BY DEF Kind, Kinds
  <2>2. \A m \in o.todo : m \in Names /\ Holds(t, Kind(m)) /\ (subs[m] = None <=> o.op = "subscribe")
    BY <1>7 DEF WorkerOp, Busy
  <2>3. \A m \in w.todo : Holds(t, Kind(m))' /\ (subs'[m] = None <=> o.op = "subscribe")
    BY <1>3, <2>1, <2>2
  <2>4. w.todo \subseteq o.todo
    OBVIOUS
  <2> QED BY <1>2, <1>7, <2>3, <2>4 DEF WorkerOp, GatePcs, ActivatePcs, DrainPcs
<1>9. LimitKept'
  <2>1. ToFeed(t)' \subseteq ToFeed(t) \/ w.op = "unsubscribe" \/ w.op = "close" \/ w.pc = "idle"
    BY <1>2, <1>7 DEF ToFeed, Busy, Ops
  <2>2. Holds(t, "stock")' => Holds(t, "stock") /\ w.pc # "idle"
    <3>1. "stock" \in Kinds BY DEF Kinds
    <3> QED BY <1>2, <1>3, <3>1 DEF Holds
  <2>3. Holds(t, "stock")' /\ worker'[t].op = "subscribe" =>
          /\ Holds(t, "stock") /\ worker[t].op = "subscribe"
          /\ (FedStocks \cup ToFeed(t))' \subseteq FedStocks \cup ToFeed(t)
    BY <1>1, <1>2, <2>1, <2>2
  <2>4. FedStocks' \subseteq FedStocks
    BY <1>1
  <2> HIDE DEF IndInv, o
  <2> QED BY <1>1, <1>2, <2>3, <2>4, LimitStays
<1> HIDE DEF IndInv
<1>10. /\ \A h \in GateIds : h # g =>
            gates'[h] = gates[h] /\ tape'[h] = tape[h] /\ arrived'[h] = arrived[h] /\ (h \in feed' <=> h \in feed)
       /\ \A m \in Names : m # n => subs'[m] = subs[m] /\ cache'[m] = cache[m]
       /\ worker'[t].pc # "idle" => WorkerOp(t)'
       /\ IF worker'[t].pc \in GatePcs THEN worker'[t].gate = g /\ WorkedGate(t)' ELSE SettledGate(g)'
       /\ subs'[n] \in {g, None}
       /\ gates'[g].state # "pending" => gates'[g].pending = <<>>
       /\ \A i \in 1 .. Len(gates'[g].pending) : gates'[g].pending[i].gate = g
       /\ IF gates'[g].state = "closed" THEN IsPrefix(tape'[g], arrived'[g])
          ELSE arrived'[g] = tape'[g] \o gates'[g].pending
       /\ IF subs'[n] = None THEN ~down => cache'[n] = None
          ELSE worker'[t].pc = "drain_caching" \/ cache'[n] = IF tape'[g] = <<>> THEN None ELSE Last(tape'[g])
       /\ UNCHANGED <<caller, down>>
  <2>1. w.pc \in GatePcs => w.pc # "idle"
    BY DEF GatePcs, ActivatePcs, DrainPcs
  <2> QED BY <1>1, <1>2, <1>5, <1>8, <2>1
<1> HIDE DEF o
<1>11. /\ TypeOK' /\ ThreadTypes' /\ OpLocks' /\ FedOnce' /\ LimitKept' /\ GateIds' = GateIds
       /\ \A u \in Workers : u # t => worker'[u] = worker[u]
       /\ \A h \in GateIds : gates'[h].name = gates[h].name
  BY <1>1, <1>2, <1>4, <1>6, <1>9
<1>12. /\ IndInv /\ t \in Workers /\ g \in GateIds /\ n \in Names /\ subs[n] \in {g, None}
       /\ gates[g].name = n /\ Holds(t, Kind(n))
       /\ gates[g].state = "active" => gates[g].lock = None
       /\ worker[t].pc \in GatePcs => worker[t].gate = g
  OBVIOUS
<1> QED BY ONLY <1>10, <1>11, <1>12, OnGate

LEMMA ActivateStep ==
  ASSUME IndInv, NEW t \in Workers, Activate(t)
  PROVE  IndInv'
<1> DEFINE o == worker[t]
<1> SUFFICES ASSUME NEW g \in GateIds, g = o.gate, NEW n \in Names, n = gates[g].name PROVE IndInv'
  BY AtGate DEF Activate, Doing, GatePcs, ActivatePcs
<1> DEFINE w == [worker[t] EXCEPT !.pc = "draining"]
           v == [gates[g] EXCEPT !.lock = t]
           s == tape[g]
<1>1. /\ o.pc = "activating" /\ o.pc \in GatePcs
      /\ worker' = [worker EXCEPT ![t] = w] /\ gates' = [gates EXCEPT ![g] = v]
      /\ UNCHANGED <<opLock, callLock, subs, cache, tape, feed, pushes, caller, down, arrived>>
  BY DEF Activate, Doing, To, GatePcs, ActivatePcs
<1>2. /\ o \in Busy /\ WorkerOp(t) /\ WorkedGate(t) /\ Holds(t, Kind(n)) /\ subs[n] \in {g, None}
      /\ gates[g] \in Gate /\ o.op # "status" /\ gates[g].state = "pending" /\ gates[g].state # "active"
      /\ s \in Seq(PushType)
  BY <1>1, AtGate DEF WorkedGate
<1>3. /\ w \in Busy /\ w.pc = "draining" /\ w.failed = o.failed /\ w.op = o.op /\ w.kind = o.kind
      /\ w.todo = o.todo /\ w.gate = g
  BY <1>1, <1>2 DEF Busy, Pcs, GatePcs, ActivatePcs, DrainPcs
<1>4. /\ v \in Gate /\ v.name = n /\ v.state = "pending" /\ v.lock = t /\ v.pending = gates[g].pending
  BY <1>2 DEF Gate
<1>5. tape' = [tape EXCEPT ![g] = s] /\ cache' \in [Names -> PushType \cup {None}]
  BY <1>1 DEF IndInv, TypeOK
<1> HIDE DEF w, v, s
<1>6. worker'[t] = w /\ GateIds' = GateIds /\ gates'[g] = v
  <2>1. worker'[t] = w
    BY <1>1 DEF IndInv, ThreadTypes
  <2>2. v \in Gate /\ v.name = gates[g].name /\ gates' = [gates EXCEPT ![g] = v] /\ g \in GateIds /\ IndInv
    BY <1>1, <1>4
  <2> QED BY ONLY <2>1, <2>2, GateChange
<1>7. \A m \in Names : Holds(t, Kind(m))' <=> Holds(t, Kind(m))
  BY <1>1, <1>3, <1>6 DEF Holds
<1>8. n \notin o.todo /\ ~down
  BY <1>1, <1>2 DEF WorkedGate, WorkerOp, ActivatePcs
<1>9. WorkedGate(t)' /\ w.pc \in GatePcs
  BY <1>1, <1>2, <1>3, <1>4, <1>6, <1>7 DEF WorkedGate, WorkerOp, GatePcs, ActivatePcs, DrainPcs
<1>10. /\ \A i \in 1 .. Len(v.pending) : v.pending[i].gate = g
       /\ arrived[g] = s \o v.pending
  <2>1. \A i \in 1 .. Len(gates[g].pending) : gates[g].pending[i].gate = g
    BY DEF IndInv, HeldBack
  <2>2. arrived[g] = s \o gates[g].pending
    BY <1>2 DEF IndInv, ArrivalOrder, s
  <2>3. v.pending = gates[g].pending
    BY <1>4
  <2> QED BY <2>1, <2>2, <2>3
<1>11. IF subs[n] = None THEN ~down => cache'[n] = None ELSE cache'[n] = IF s = <<>> THEN None ELSE Last(s)
  BY <1>1, CacheAtGate DEF s
<1>12. /\ worker[t].pc \in GatePcs => worker[t].gate = g /\ n \notin worker[t].todo
       /\ worker[t].pc \notin {"locking", "locking_stock", "reporting"}
       /\ w.pc # "idle" /\ w.pc \in GatePcs \cup {"subscribing"}
       /\ w.todo = worker[t].todo \ {n}
       /\ w.pc \in ActivatePcs => w.op \in {"subscribe", "unsubscribe"} /\ (w.failed <=> w.op = "unsubscribe")
       /\ w.op = "subscribe" /\ w.pc # "closing" => ~w.failed
  BY <1>1, <1>2, <1>3, <1>8 DEF WorkerOp, GatePcs, ActivatePcs, DrainPcs
<1>13. TouchesGate(t, g, n, w, v, s)
  BY <1>1, <1>2, <1>3, <1>4, <1>5, <1>9, <1>10, <1>11, <1>12 DEF TouchesGate
<1> QED BY <1>2, <1>3, <1>4, <1>13, TouchedGate

LEMMA DrainSequenceStep ==
  ASSUME IndInv, NEW t \in Workers, DrainSequence(t)
  PROVE  IndInv'
<1> DEFINE o == worker[t]
<1> SUFFICES ASSUME NEW g \in GateIds, g = o.gate, NEW n \in Names, n = gates[g].name,
                    NEW p \in PushType, p = Head(gates[g].pending) PROVE IndInv'
  <2>1. worker[t].pc \in GatePcs /\ gates[worker[t].gate].pending # <<>>
    BY DEF DrainSequence, Doing, GatePcs, ActivatePcs, DrainPcs
  <2>2. Head(gates[worker[t].gate].pending) \in PushType
    BY <2>1, AtGate, HeadTailProperties
  <2> QED BY <2>1, <2>2, AtGate
<1> DEFINE w == [worker[t] EXCEPT !.pc = "drain_caching", !.push = p]
           v == [gates[g] EXCEPT !.pending = Tail(gates[g].pending)]
           s == Append(tape[g], p)
<1>1. /\ o.pc = "draining" /\ o.pc \in GatePcs /\ gates[g].pending # <<>>
      /\ worker' = [worker EXCEPT ![t] = w] /\ gates' = [gates EXCEPT ![g] = v]
      /\ tape' = [tape EXCEPT ![g] = s]
      /\ UNCHANGED <<opLock, callLock, subs, cache, feed, pushes, caller, down, arrived>>
  BY DEF DrainSequence, Doing, GatePcs, ActivatePcs, DrainPcs
<1>2. /\ o \in Busy /\ WorkerOp(t) /\ WorkedGate(t) /\ Holds(t, Kind(n)) /\ subs[n] \in {g, None}
      /\ gates[g] \in Gate /\ o.op # "status" /\ gates[g].state = "pending" /\ gates[g].lock = t
      /\ tape[g] \in Seq(PushType) /\ gates[g].pending \in Seq(PushType)
  BY <1>1, AtGate DEF WorkedGate, DrainPcs
<1>3. /\ w \in Busy /\ w.pc = "drain_caching" /\ w.failed = o.failed /\ w.op = o.op /\ w.kind = o.kind
      /\ w.todo = o.todo /\ w.gate = g /\ w.push = p
  BY <1>1, <1>2 DEF Busy, Pcs, GatePcs, ActivatePcs, DrainPcs
<1>4. /\ v \in Gate /\ v.name = n /\ v.state = "pending" /\ v.lock = t /\ v.pending = Tail(gates[g].pending)
  <2>1. Tail(gates[g].pending) \in Seq(PushType)
    BY <1>1, <1>2, HeadTailProperties
  <2> QED BY <1>2, <2>1 DEF Gate
<1>5. /\ s \in Seq(PushType) /\ s # <<>> /\ Last(s) = p /\ cache' \in [Names -> PushType \cup {None}]
  <2>1. s \in Seq(PushType) /\ s # <<>> /\ Last(s) = p
    BY <1>2, LastOfAppend
  <2> HIDE DEF s
  <2> QED BY <1>1, <2>1 DEF IndInv, TypeOK
<1> HIDE DEF w, v, s
<1>6. worker'[t] = w /\ gates'[g] = v /\ tape'[g] = s
  <2>1. v.name = gates[g].name
    BY <1>4
  <2>2. worker'[t] = w /\ tape'[g] = s
    BY <1>1 DEF IndInv, ThreadTypes, TypeOK
  <2> QED BY <1>1, <1>4, <2>1, <2>2, GateChange
<1>7. \A m \in Names : Holds(t, Kind(m))' <=> Holds(t, Kind(m))
  BY <1>1, <1>3, <1>6 DEF Holds
<1>8. n \notin o.todo /\ ~down
  BY <1>1, <1>2 DEF WorkedGate, WorkerOp, ActivatePcs, DrainPcs
<1>9. p.gate = g /\ \A i \in 1 .. Len(v.pending) : v.pending[i].gate = g
  <2>1. \A i \in 1 .. Len(gates[g].pending) : gates[g].pending[i].gate = g
    BY DEF IndInv, HeldBack
  <2> QED BY <1>1, <1>2, <1>4, <2>1, HeadTailProperties
<1>10. arrived[g] = s \o v.pending
  <2> DEFINE a == tape[g]
             b == gates[g].pending
  <2>1. arrived[g] = a \o b /\ a \in Seq(PushType) /\ b \in Seq(PushType) /\ b # <<>>
    BY <1>1, <1>2 DEF IndInv, ArrivalOrder
  <2>2. s = Append(a, Head(b)) /\ v.pending = Tail(b)
    BY <1>4 DEF s
  <2> HIDE DEF a, b
  <2> QED BY <2>1, <2>2, Halves
<1>11. WorkedGate(t)' /\ w.pc \in GatePcs
  <2>1. subs[n] = g /\ subs'[n] = g /\ gates'[g].name = n /\ gates'[g].lock = t /\ GateIds' = GateIds
    <3>1. v.name = gates[g].name
      BY <1>4
    <3>2. GateIds' = GateIds
      BY <1>1, <1>4, <3>1, GateChange
    <3> QED BY <1>1, <1>2, <1>4, <1>6, <3>2 DEF WorkedGate, DrainPcs
  <2>2. /\ o.op = "subscribe" => g \in feed
        /\ o.op = "unsubscribe" => g \in feed
    BY <1>1, <1>2 DEF WorkedGate
  <2>3. Holds(t, Kind(n))'
    BY <1>2, <1>7
  <2>4. w.pc \in GatePcs /\ w.pc \in DrainPcs /\ w.pc \notin {"calling", "returning", "closing", "forgetting"}
    BY <1>3 DEF GatePcs, ActivatePcs, DrainPcs
  <2>5. n \notin w.todo /\ w.gate = g /\ g \in GateIds' /\ feed' = feed
    BY <1>1, <1>3, <1>8, <2>1, <1>2 DEF WorkedGate
  <2>6. gates'[g].state = "pending" /\ tape'[g] # <<>> /\ Last(tape'[g]) = w.push /\ w.push.gate = g
    BY <1>3, <1>4, <1>5, <1>6, <1>9
  <2> HIDE DEF o
  <2> QED BY <1>3, <1>6, <2>1, <2>2, <2>3, <2>4, <2>5, <2>6 DEF WorkedGate
<1>12. IF subs[n] = None THEN ~down => cache'[n] = None ELSE w.pc = "drain_caching"
  BY <1>1, <1>2, <1>3, GateFacts, ThreadsAssumption DEF WorkedGate, DrainPcs
<1>13. /\ worker[t].pc \in GatePcs => worker[t].gate = g /\ n \notin worker[t].todo
       /\ worker[t].pc \notin {"locking", "locking_stock", "reporting"}
       /\ w.pc # "idle" /\ w.pc \in GatePcs \cup {"subscribing"}
       /\ w.todo = worker[t].todo \ {n}
       /\ w.pc \in ActivatePcs => w.op \in {"subscribe", "unsubscribe"} /\ (w.failed <=> w.op = "unsubscribe")
       /\ w.op = "subscribe" /\ w.pc # "closing" => ~w.failed
  BY <1>1, <1>2, <1>3, <1>8 DEF WorkerOp, GatePcs, ActivatePcs, DrainPcs
<1>14. TouchesGate(t, g, n, w, v, s)
  BY <1>1, <1>2, <1>3, <1>4, <1>5, <1>9, <1>10, <1>11, <1>12, <1>13 DEF TouchesGate
<1> QED BY <1>3, <1>4, <1>5, <1>14, TouchedGate

LEMMA DrainCacheStep ==
  ASSUME IndInv, NEW t \in Workers, DrainCache(t)
  PROVE  IndInv'
<1> DEFINE o == worker[t]
<1> SUFFICES ASSUME NEW g \in GateIds, g = o.gate, NEW n \in Names, n = gates[g].name PROVE IndInv'
  BY AtGate DEF DrainCache, Doing, GatePcs, ActivatePcs, DrainPcs
<1> DEFINE w == [worker[t] EXCEPT !.pc = "draining", !.push = None]
           v == gates[g]
           s == tape[g]
<1>1. /\ o.pc = "drain_caching" /\ o.pc \in GatePcs
      /\ worker' = [worker EXCEPT ![t] = w] /\ cache' = [cache EXCEPT ![n] = o.push]
      /\ UNCHANGED <<opLock, callLock, subs, tape, gates, feed, pushes, caller, down, arrived>>
  BY DEF DrainCache, Doing, GatePcs, ActivatePcs, DrainPcs
<1>2. /\ o \in Busy /\ WorkerOp(t) /\ WorkedGate(t) /\ Holds(t, Kind(n)) /\ subs[n] \in {g, None}
      /\ v \in Gate /\ v.name = n /\ o.op # "status" /\ v.state = "pending"
      /\ s \in Seq(PushType) /\ s # <<>> /\ Last(s) = o.push /\ o.push \in PushType \cup {None}
  BY <1>1, AtGate DEF WorkedGate, Busy
<1>3. /\ w \in Busy /\ w.pc = "draining" /\ w.failed = o.failed /\ w.op = o.op /\ w.kind = o.kind
      /\ w.todo = o.todo /\ w.gate = g
  BY <1>1, <1>2 DEF Busy, Pcs, GatePcs, ActivatePcs, DrainPcs
<1>4. tape' = [tape EXCEPT ![g] = s] /\ gates' = [gates EXCEPT ![g] = v] /\ GateIds' = GateIds
  <2>1. gates \in Seq(Gate) /\ tape \in [GateIds -> Seq(PushType)]
    BY GateFacts DEF IndInv, TypeOK
  <2> QED BY <1>1, <2>1 DEF GateIds
<1>5. /\ cache' \in [Names -> PushType \cup {None}] /\ cache'[n] = Last(s)
      /\ \A m \in Names : m # n => cache'[m] = cache[m]
  BY <1>1, <1>2 DEF IndInv, TypeOK
<1> HIDE DEF w
<1>6. worker'[t] = w
  BY <1>1 DEF IndInv, ThreadTypes
<1>7. \A m \in Names : Holds(t, Kind(m))' <=> Holds(t, Kind(m))
  BY <1>1, <1>3, <1>6 DEF Holds
<1>8. n \notin o.todo /\ ~down /\ subs[n] = g
  BY <1>1, <1>2 DEF WorkedGate, WorkerOp, ActivatePcs, DrainPcs
<1>9. WorkedGate(t)' /\ w.pc \in GatePcs
  <2>1. /\ subs'[n] = g /\ gates'[g] = v /\ feed' = feed /\ g \in GateIds' /\ w.gate = g /\ n \notin w.todo
    BY <1>1, <1>2, <1>3, <1>4, <1>8
  <2>2. v.lock = t /\ (o.op = "subscribe" => g \in feed) /\ (o.op = "unsubscribe" => g \in feed)
    BY <1>1, <1>2 DEF WorkedGate, DrainPcs
  <2>3. Holds(t, Kind(n))'
    BY <1>2, <1>7
  <2>4. /\ w.pc \in GatePcs /\ w.pc \in DrainPcs
        /\ w.pc \notin {"calling", "returning", "closing", "forgetting", "drain_caching"}
    BY <1>3 DEF GatePcs, ActivatePcs, DrainPcs
  <2>5. v.state = "pending" /\ v.name = n /\ w.op = o.op
    BY <1>2, <1>3
  <2> HIDE DEF o, v
  <2> QED BY <1>6, <2>1, <2>2, <2>3, <2>4, <2>5 DEF WorkedGate
<1>10. /\ \A i \in 1 .. Len(v.pending) : v.pending[i].gate = g
       /\ arrived[g] = s \o v.pending
  BY <1>2 DEF IndInv, HeldBack, ArrivalOrder
<1>11. IF subs[n] = None THEN ~down => cache'[n] = None ELSE cache'[n] = IF s = <<>> THEN None ELSE Last(s)
  BY <1>2, <1>5, <1>8, GateFacts, ThreadsAssumption
<1>12. /\ worker[t].pc \in GatePcs => worker[t].gate = g /\ n \notin worker[t].todo
       /\ worker[t].pc \notin {"locking", "locking_stock", "reporting"}
       /\ w.pc # "idle" /\ w.pc \in GatePcs \cup {"subscribing"}
       /\ w.todo = worker[t].todo \ {n}
       /\ w.pc \in ActivatePcs => w.op \in {"subscribe", "unsubscribe"} /\ (w.failed <=> w.op = "unsubscribe")
       /\ w.op = "subscribe" /\ w.pc # "closing" => ~w.failed
  BY <1>1, <1>2, <1>3, <1>8 DEF WorkerOp, GatePcs, ActivatePcs, DrainPcs
<1> HIDE DEF v, s
<1>13. TouchesGate(t, g, n, w, v, s)
  <2>1. gates[g].name = n /\ (gates[g].state = "active" => gates[g].lock = None)
    BY <1>2 DEF v
  <2> QED BY <1>1, <1>2, <1>3, <1>4, <1>5, <1>9, <1>10, <1>11, <1>12, <2>1 DEF TouchesGate
<1> QED BY <1>2, <1>3, <1>13, TouchedGate

LEMMA ActivatedStep ==
  ASSUME IndInv, NEW t \in Workers, Activated(t)
  PROVE  IndInv'
<1> DEFINE o == worker[t]
<1> SUFFICES ASSUME NEW g \in GateIds, g = o.gate, NEW n \in Names, n = gates[g].name PROVE IndInv'
  BY AtGate DEF Activated, Doing, GatePcs, ActivatePcs, DrainPcs
<1> DEFINE w == IF o.failed THEN Idle ELSE [worker[t] EXCEPT !.pc = "subscribing"]
           v == [gates[g] EXCEPT !.state = "active", !.lock = None]
           s == tape[g]
<1>1. /\ o.pc = "draining" /\ o.pc \in GatePcs /\ gates[g].pending = <<>>
      /\ worker' = [worker EXCEPT ![t] = w] /\ gates' = [gates EXCEPT ![g] = v]
      /\ IF o.failed THEN Leave(t) ELSE UNCHANGED opLock
      /\ UNCHANGED <<callLock, subs, cache, tape, feed, pushes, caller, down, arrived>>
  BY DEF Activated, Doing, To, Leave, GatePcs, ActivatePcs, DrainPcs
<1>2. /\ o \in Busy /\ WorkerOp(t) /\ WorkedGate(t) /\ Holds(t, Kind(n)) /\ subs[n] \in {g, None}
      /\ gates[g] \in Gate /\ o.op # "status" /\ gates[g].state = "pending"
      /\ s \in Seq(PushType)
  BY <1>1, AtGate DEF WorkedGate
<1>3. /\ w \in {Idle} \cup Busy /\ w.pc = IF o.failed THEN "idle" ELSE "subscribing"
      /\ ~o.failed => w.failed = o.failed /\ w.op = o.op /\ w.kind = o.kind /\ w.todo = o.todo /\ w.gate = g
  BY <1>1, <1>2 DEF Busy, Idle, Pcs
<1>4. /\ v \in Gate /\ v.name = n /\ v.state = "active" /\ v.pending = <<>>
  BY <1>1, <1>2 DEF Gate
<1>5. tape' = [tape EXCEPT ![g] = s] /\ cache' \in [Names -> PushType \cup {None}]
  BY <1>1 DEF IndInv, TypeOK
<1> HIDE DEF w, v, s
<1>6. gates'[g] = v
  <2>1. v.name = gates[g].name
    BY <1>4
  <2> QED BY <1>1, <1>4, <2>1, GateChange
<1>7. n \notin o.todo /\ ~down /\ subs[n] = g /\ g \in feed /\ o.op \in {"subscribe", "unsubscribe"}
      /\ (o.failed <=> o.op = "unsubscribe") /\ o.failed \in BOOLEAN
  BY <1>1, <1>2 DEF WorkedGate, WorkerOp, ActivatePcs, DrainPcs, Busy
<1>8. SettledGate(g)' /\ w.pc \notin GatePcs /\ w.pc \notin ActivatePcs
  BY <1>1, <1>3, <1>4, <1>6, <1>7 DEF SettledGate, GatePcs, ActivatePcs, DrainPcs
<1>9. \A i \in 1 .. Len(v.pending) : v.pending[i].gate = g
  BY <1>4
<1>10. arrived[g] = s \o v.pending
  BY <1>1, <1>2, <1>4 DEF IndInv, ArrivalOrder, s
<1>11. IF subs[n] = None THEN ~down => cache'[n] = None ELSE cache'[n] = IF s = <<>> THEN None ELSE Last(s)
  BY <1>1, CacheAtGate DEF s
<1>12. /\ worker[t].pc \in GatePcs => worker[t].gate = g /\ n \notin worker[t].todo
       /\ worker[t].pc \notin {"locking", "locking_stock", "reporting"}
       /\ IF w.pc = "idle" THEN Leave(t)
          ELSE /\ UNCHANGED opLock /\ w.op = "subscribe" /\ w.pc = "subscribing" /\ ~w.failed
               /\ w.op = worker[t].op /\ w.kind = worker[t].kind /\ w.gate = g
               /\ w.todo = worker[t].todo \ {n}
  BY <1>1, <1>2, <1>3, <1>7
<1>13. TouchesGate(t, g, n, w, v, s)
  BY <1>1, <1>2, <1>4, <1>5, <1>8, <1>9, <1>10, <1>11, <1>12 DEF TouchesGate
<1> QED BY <1>2, <1>3, <1>4, <1>13, TouchedGate

LEMMA CloseGateStep ==
  ASSUME IndInv, NEW t \in Workers, CloseGate(t)
  PROVE  IndInv'
<1> DEFINE o == worker[t]
<1> SUFFICES ASSUME NEW g \in GateIds, g = o.gate, NEW n \in Names, n = gates[g].name PROVE IndInv'
  BY AtGate DEF CloseGate, Doing, GatePcs, ActivatePcs, DrainPcs
<1> DEFINE w == IF o.op = "subscribe" THEN Idle ELSE [worker[t] EXCEPT !.pc = "forgetting"]
           v == Closed(gates[g])
           s == tape[g]
<1>1. /\ o.pc = "closing" /\ o.pc \in GatePcs
      /\ worker' = [worker EXCEPT ![t] = w] /\ gates' = [gates EXCEPT ![g] = v]
      /\ IF o.op = "subscribe" THEN Leave(t) ELSE UNCHANGED opLock
      /\ UNCHANGED <<callLock, subs, cache, tape, feed, pushes, caller, down, arrived>>
  BY DEF CloseGate, Doing, To, Leave, GatePcs
<1>2. /\ o \in Busy /\ WorkerOp(t) /\ WorkedGate(t) /\ Holds(t, Kind(n)) /\ subs[n] \in {g, None}
      /\ gates[g] \in Gate /\ o.op # "status" /\ gates[g].state = "pending"
      /\ gates[g].pending \in Seq(PushType) /\ s \in Seq(PushType)
  BY <1>1, AtGate DEF WorkedGate
<1>3. /\ w \in {Idle} \cup Busy /\ w.pc = (IF o.op = "subscribe" THEN "idle" ELSE "forgetting")
      /\ o.op # "subscribe" => w.failed = o.failed /\ w.op = o.op /\ w.kind = o.kind /\ w.todo = o.todo /\ w.gate = g
  BY <1>1, <1>2 DEF Busy, Idle, Pcs, GatePcs, ActivatePcs
<1>4. /\ v \in Gate /\ v.name = n /\ v.state = "closed" /\ v.pending = <<>>
  <2>1. <<>> \in Seq(PushType) /\ v = [gates[g] EXCEPT !.state = "closed", !.pending = <<>>]
    BY DEF Closed
  <2> QED BY <1>2, <2>1 DEF Gate
<1>5. tape' = [tape EXCEPT ![g] = s] /\ cache' \in [Names -> PushType \cup {None}]
  BY <1>1 DEF IndInv, TypeOK
<1> HIDE DEF w, v, s
<1>6. gates'[g] = v /\ GateIds' = GateIds /\ worker'[t] = w
  <2>1. v.name = gates[g].name
    BY <1>4
  <2>2. worker'[t] = w
    BY <1>1 DEF IndInv, ThreadTypes
  <2> QED BY <1>1, <1>4, <2>1, <2>2, GateChange
<1>7. /\ n \notin o.todo /\ o.op \in {"subscribe", "unsubscribe", "close"}
      /\ subs[n] = IF o.op = "subscribe" THEN None ELSE g
      /\ o.op \in {"subscribe", "unsubscribe"} => g \notin feed
      /\ o.op = "close" <=> down
  BY <1>1, <1>2 DEF WorkedGate, WorkerOp, Busy, Ops
<1>8. IF w.pc \in GatePcs THEN WorkedGate(t)' ELSE SettledGate(g)'
  <2>1. CASE o.op = "subscribe"
    <3>1. SettledGate(g)'
      BY <1>1, <1>2, <1>4, <1>6, <1>7, <2>1, GateFacts, ThreadsAssumption DEF SettledGate
    <3> QED BY <1>3, <2>1, <3>1 DEF GatePcs, ActivatePcs, DrainPcs
  <2>2. CASE o.op # "subscribe"
    <3>1. Holds(t, Kind(n))'
      BY <1>1, <1>2, <1>3, <1>6, <2>2 DEF Holds
    <3>2. w.pc = "forgetting" /\ w.op # "subscribe" /\ w.gate = g /\ w.todo = o.todo /\ (w.op = "unsubscribe" => g \notin feed)
      BY <1>3, <1>7, <2>2
    <3>3. gates'[g].name = n /\ gates'[g].state = "closed" /\ subs'[n] = g /\ feed' = feed
      BY <1>1, <1>4, <1>6, <1>7, <2>2
    <3>4. WorkedGate(t)'
      BY <1>6, <1>7, <3>1, <3>2, <3>3 DEF WorkedGate, DrainPcs
    <3> QED BY <3>2, <3>4 DEF GatePcs
  <2> QED BY <2>1, <2>2
<1>9. \A i \in 1 .. Len(v.pending) : v.pending[i].gate = g
  BY <1>4
<1>10. IsPrefix(s, arrived[g])
  <2> DEFINE b == gates[g].pending
  <2>1. arrived[g] = s \o b /\ b \in Seq(PushType)
    BY <1>2 DEF IndInv, ArrivalOrder, s
  <2> HIDE DEF b
  <2> QED BY <1>2, <2>1, PrefixOfWhole
<1>11. IF subs[n] = None THEN ~down => cache'[n] = None ELSE cache'[n] = IF s = <<>> THEN None ELSE Last(s)
  BY <1>1, CacheAtGate DEF s
<1>12. /\ worker[t].pc \in GatePcs => worker[t].gate = g /\ n \notin worker[t].todo
       /\ worker[t].pc \notin {"locking", "locking_stock", "reporting"}
       /\ IF w.pc = "idle" THEN Leave(t)
          ELSE /\ UNCHANGED opLock /\ w.op \in {"unsubscribe", "close"} /\ w.pc = "forgetting"
               /\ w.op = worker[t].op /\ w.kind = worker[t].kind /\ w.gate = g
               /\ w.todo = worker[t].todo \ {n}
       /\ w.pc \in GatePcs \cup {"idle"} /\ w.pc \notin ActivatePcs
  BY <1>1, <1>2, <1>3, <1>7 DEF GatePcs, ActivatePcs, DrainPcs
<1>13. TouchesGate(t, g, n, w, v, s)
  BY <1>1, <1>2, <1>4, <1>5, <1>8, <1>9, <1>10, <1>11, <1>12 DEF TouchesGate
<1> QED BY <1>2, <1>3, <1>4, <1>13, TouchedGate

LEMMA SuspendStep ==
  ASSUME IndInv, NEW t \in Workers, Suspend(t)
  PROVE  IndInv'
<1> DEFINE o == worker[t]
<1>1. /\ o.pc = "unsubscribing" /\ o.pc \notin GatePcs /\ o.todo # {} /\ o.todo \in SUBSET Names
      /\ o \in Busy /\ WorkerOp(t) /\ o.op \in {"unsubscribe", "close"}
      /\ \A m \in o.todo : Holds(t, Kind(m)) /\ subs[m] # None
  <2>1. o.pc = "unsubscribing" /\ o.todo # {}
    BY DEF Suspend, Doing
  <2>2. o \in Busy /\ WorkerOp(t)
    BY <2>1, WorkerFacts
  <2> QED BY <2>1, <2>2 DEF WorkerOp, Busy, GatePcs, ActivatePcs, DrainPcs
<1> SUFFICES ASSUME NEW n \in o.todo, n = Min(o.todo), n \in Names, NEW g \in GateIds, g = subs[n] PROVE IndInv'
  <2>1. Min(o.todo) \in o.todo
    BY <1>1, FirstIsOne
  <2> QED BY <1>1, <2>1 DEF IndInv, TypeOK
<1> DEFINE w == [worker[t] EXCEPT !.pc = "calling", !.todo = @ \ {n}, !.gate = g]
           v == [gates[g] EXCEPT !.state = IF @ = "active" THEN "pending" ELSE @]
           s == tape[g]
<1>2. /\ gates[g].lock = None
      /\ worker' = [worker EXCEPT ![t] = w] /\ gates' = [gates EXCEPT ![g] = v]
      /\ UNCHANGED <<opLock, callLock, subs, cache, tape, feed, pushes, caller, down, arrived>>
  BY DEF Suspend, GateUnlocked
<1>3. /\ w \in Busy /\ w.pc = "calling" /\ w.op = o.op /\ w.kind = o.kind /\ w.todo = o.todo \ {n} /\ w.gate = g
  <2>1. g \in Nat /\ o.todo \ {n} \in SUBSET Names /\ "calling" \in Pcs
    BY <1>1, GateFacts DEF Pcs, GatePcs
  <2> HIDE DEF o
  <2>2. w = [o EXCEPT !.pc = "calling", !.todo = o.todo \ {n}, !.gate = g]
    BY DEF o
  <2> HIDE DEF w
  <2> QED BY <1>1, <2>1, <2>2 DEF Busy
<1>4. gates[g].name = n /\ gates[g] \in Gate /\ Holds(t, Kind(n)) /\ s \in Seq(PushType)
  BY <1>1, GateFacts DEF IndInv, Registered
<1>5. \A u \in Workers : ~WorksOn(u, g)
  BY <1>1, <1>4, OneHolder DEF IndInv, WorksOn, WorkedGates, WorkedGate
<1>6. gates[g].state = "active" /\ g \in feed
  BY <1>4, <1>5 DEF IndInv, SettledGates, SettledGate
<1>7. v \in Gate /\ v.name = n /\ v.state = "pending" /\ v.pending = <<>> /\ gates[g].pending = <<>>
  BY <1>4, <1>6 DEF Gate, IndInv, HeldBack
<1>8. tape' = [tape EXCEPT ![g] = s] /\ cache' \in [Names -> PushType \cup {None}]
  BY <1>2 DEF IndInv, TypeOK
<1> HIDE DEF w, v, s
<1>9. gates'[g] = v /\ GateIds' = GateIds /\ worker'[t] = w
  <2>1. v.name = gates[g].name
    BY <1>4, <1>7
  <2>2. worker'[t] = w
    BY <1>2 DEF IndInv, ThreadTypes
  <2> QED BY <1>2, <1>7, <2>1, <2>2, GateChange
<1>10. WorkedGate(t)' /\ w.pc \in GatePcs
  <2>1. Holds(t, Kind(n))'
    BY <1>1, <1>2, <1>3, <1>4, <1>9 DEF Holds
  <2>2. gates'[g].name = n /\ gates'[g].state = "pending" /\ subs'[n] = g /\ g \in feed'
    BY <1>2, <1>6, <1>7, <1>9
  <2>3. w.pc = "calling" /\ w.op # "subscribe" /\ n \notin w.todo /\ w.gate = g
    BY <1>1, <1>3
  <2> HIDE DEF o
  <2> QED BY <1>9, <2>1, <2>2, <2>3 DEF WorkedGate, GatePcs, DrainPcs
<1>11. arrived[g] = s \o v.pending
  BY <1>6, <1>7 DEF IndInv, ArrivalOrder, s
<1>12. IF subs[n] = None THEN ~down => cache'[n] = None ELSE cache'[n] = IF s = <<>> THEN None ELSE Last(s)
  <2>1. \A u \in Workers : worker[u].pc = "drain_caching" => worker[u].gate # g
    BY <1>5 DEF WorksOn, GatePcs, ActivatePcs, DrainPcs
  <2>2. \A c \in Callers : caller[c].pc = "caching" => caller[c].push.gate # g
    BY <1>2, ThreadsAssumption DEF IndInv, CachingGates, CachingGate
  <2> QED BY <1>2, <2>1, <2>2, GateFacts, ThreadsAssumption DEF IndInv, CacheFollows, s
<1>13. TouchesGate(t, g, n, w, v, s)
  <2>1. /\ worker[t].pc \notin GatePcs /\ worker[t].pc \notin {"locking", "locking_stock", "reporting"}
        /\ w.pc # "idle" /\ w.op # "subscribe" /\ w.op # "status" /\ w.op = worker[t].op /\ w.kind = worker[t].kind
        /\ w.todo = worker[t].todo \ {n} /\ subs[n] \in {g, None}
        /\ w.pc \notin ActivatePcs /\ w.pc = "calling" /\ w.gate = g
    BY <1>1, <1>3 DEF ActivatePcs, DrainPcs
  <2>2. \A i \in 1 .. Len(v.pending) : v.pending[i].gate = g
    BY <1>7
  <2> QED BY <1>2, <1>4, <1>7, <1>8, <1>10, <1>11, <1>12, <2>1, <2>2 DEF TouchesGate
<1> QED BY <1>3, <1>4, <1>7, <1>13, TouchedGate

\* A gate is appended: nothing is said differently of those that were there.
LEMMA GateAdded ==
  ASSUME IndInv, NEW r \in Gate, gates' = Append(gates, r), tape' = Append(tape, <<>>), arrived' = Append(arrived, <<>>)
  PROVE  LET k == Len(gates) + 1
         IN  /\ k \in Nat /\ k \notin GateIds /\ k # None /\ GateIds' = GateIds \cup {k} /\ gates'[k] = r
             /\ tape'[k] = <<>> /\ arrived'[k] = <<>>
             /\ \A h \in GateIds : gates'[h] = gates[h] /\ tape'[h] = tape[h] /\ arrived'[h] = arrived[h]
             /\ PushType \subseteq PushType' /\ Seq(PushType) \subseteq Seq(PushType)'
             /\ gates' \in Seq(Gate') /\ tape' \in [GateIds' -> Seq(PushType)'] /\ arrived' \in [GateIds' -> Seq(PushType)']
<1> DEFINE k == Len(gates) + 1
<1> USE DEF IndInv
<1>1. gates \in Seq(Gate) /\ Len(gates) \in Nat /\ GateIds = 1 .. Len(gates)
  BY GateFacts
<1>2. k \in Nat /\ k \notin GateIds /\ k # None
  BY <1>1, ThreadsAssumption
<1>3. gates' \in Seq(Gate) /\ Len(gates') = k /\ GateIds' = 1 .. k /\ gates'[k] = r
      /\ \A h \in GateIds : gates'[h] = gates[h]
  <2>1. gates' \in Seq(Gate) /\ Len(gates') = k /\ gates'[k] = r /\ \A h \in 1 .. Len(gates) : gates'[h] = gates[h]
    BY <1>1, AppendProperties
  <2> QED BY <1>1, <2>1 DEF GateIds
<1>4. GateIds' = GateIds \cup {k}
  BY <1>1, <1>3
<1>5. PushType \subseteq PushType'
  BY <1>4 DEF PushType
<1>6. Seq(PushType) \subseteq Seq(PushType)'
  BY <1>5, SeqMonotonic
<1>7. Gate \subseteq Gate'
  BY <1>6 DEF Gate
<1>8. gates' \in Seq(Gate')
  BY <1>3, <1>7, SeqMonotonic
<1>9. ASSUME NEW a \in [GateIds -> Seq(PushType)]
      PROVE  /\ Append(a, <<>>) \in [GateIds' -> Seq(PushType)'] /\ Append(a, <<>>)[k] = <<>>
             /\ \A h \in GateIds : Append(a, <<>>)[h] = a[h]
  <2> DEFINE b == Append(a, <<>>)
  <2>1. a \in Seq(Seq(PushType)) /\ Len(a) = Len(gates) /\ <<>> \in Seq(PushType)
    <3>1. a \in [1 .. Len(gates) -> Seq(PushType)] /\ <<>> \in Seq(PushType)
      BY <1>1
    <3> HIDE DEF k
    <3> QED BY <1>1, <3>1, ArrayIsSeq
  <2>2. b \in Seq(Seq(PushType)) /\ Len(b) = k /\ b[k] = <<>> /\ \A h \in 1 .. Len(gates) : b[h] = a[h]
    BY <2>1, AppendProperties
  <2> HIDE DEF b
  <2>3. b \in [GateIds' -> Seq(PushType)]
    BY <1>2, <1>3, <2>2
  <2>4. b \in [GateIds' -> Seq(PushType)']
    BY <1>6, <2>3
  <2> QED BY <1>1, <2>2, <2>4 DEF b
<1>10. tape \in [GateIds -> Seq(PushType)] /\ arrived \in [GateIds -> Seq(PushType)]
  BY DEF TypeOK
<1> QED BY <1>2, <1>3, <1>4, <1>5, <1>6, <1>8, <1>9, <1>10

LEMMA MakeGateStep ==
  ASSUME IndInv, NEW t \in Workers, MakeGate(t)
  PROVE  IndInv'
<1> DEFINE o == worker[t]
<1>1. /\ o.pc = "subscribing" /\ o.pc \notin GatePcs /\ o.todo # {} /\ o.todo \in SUBSET Names
      /\ o \in Busy /\ WorkerOp(t) /\ o.op = "subscribe" /\ ~o.failed /\ ~down
      /\ \A m \in o.todo : Holds(t, Kind(m)) /\ subs[m] = None
  <2>1. o.pc = "subscribing" /\ o.todo # {}
    BY DEF MakeGate, Doing
  <2>2. o \in Busy /\ WorkerOp(t)
    BY <2>1, WorkerFacts
  <2> QED BY <2>1, <2>2 DEF WorkerOp, Busy, GatePcs, ActivatePcs, DrainPcs
<1> SUFFICES ASSUME NEW n \in o.todo, n = Min(o.todo), n \in Names, NEW g \in Nat, g = Len(gates) + 1 PROVE IndInv'
  <2>1. Min(o.todo) \in o.todo
    BY <1>1, FirstIsOne
  <2>2. Len(gates) \in Nat
    BY GateFacts
  <2> QED BY <1>1, <2>1, <2>2
<1> DEFINE w == [worker[t] EXCEPT !.pc = "calling", !.todo = @ \ {n}, !.gate = g]
           r == [name |-> n, period |-> o.period, state |-> "pending", pending |-> <<>>, lock |-> None]
<1>2. /\ worker' = [worker EXCEPT ![t] = w] /\ gates' = Append(gates, r)
      /\ tape' = Append(tape, <<>>) /\ arrived' = Append(arrived, <<>>) /\ cache' = [cache EXCEPT ![n] = None]
      /\ UNCHANGED <<opLock, callLock, subs, feed, pushes, caller, down>>
  BY DEF MakeGate
<1>3. /\ w \in Busy /\ w.pc = "calling" /\ w.op = "subscribe" /\ w.kind = o.kind /\ w.todo = o.todo \ {n}
      /\ w.gate = g /\ ~w.failed
  <2>1. o.todo \ {n} \in SUBSET Names /\ "calling" \in Pcs
    BY <1>1 DEF Pcs, GatePcs
  <2> HIDE DEF o
  <2>2. w = [o EXCEPT !.pc = "calling", !.todo = o.todo \ {n}, !.gate = g]
    BY DEF o
  <2> HIDE DEF w
  <2> QED BY <1>1, <2>1, <2>2 DEF Busy
<1>4. r \in Gate /\ r.name = n /\ r.state = "pending" /\ r.pending = <<>>
  <2>1. <<>> \in Seq(PushType) /\ o.period \in Periods \cup {None}
    BY <1>1 DEF Busy
  <2> QED BY <2>1 DEF Gate
<1> HIDE DEF w, r
<1>5. /\ g \notin GateIds /\ g # None /\ GateIds' = GateIds \cup {g} /\ gates'[g] = r
      /\ tape'[g] = <<>> /\ arrived'[g] = <<>>
      /\ \A h \in GateIds : gates'[h] = gates[h] /\ tape'[h] = tape[h] /\ arrived'[h] = arrived[h]
      /\ PushType \subseteq PushType' /\ Seq(PushType) \subseteq Seq(PushType)'
      /\ gates' \in Seq(Gate') /\ tape' \in [GateIds' -> Seq(PushType)'] /\ arrived' \in [GateIds' -> Seq(PushType)']
  BY <1>2, <1>4, GateAdded
<1>6. worker'[t] = w /\ \A u \in Workers : u # t => worker'[u] = worker[u]
  BY <1>2 DEF IndInv, ThreadTypes
<1>7. \A k \in Kinds : Holds(t, k)' <=> Holds(t, k)
  BY <1>1, <1>3, <1>6 DEF Holds
<1>8. \A m \in Names : Kind(m) \in Kinds
  BY DEF Kind, Kinds
<1>9. cache'[n] = None /\ \A m \in Names : m # n => cache'[m] = cache[m]
  BY <1>2 DEF IndInv, TypeOK
<1>10. \A u \in Workers : worker[u].pc \in GatePcs =>
         u # t /\ worker[u].gate \in GateIds /\ gates[worker[u].gate].name \in Names
  BY <1>1, GateFacts DEF IndInv, WorkedGates, WorkedGate
<1> USE DEF IndInv
<1>11. TypeOK'
  <2>1. /\ cache' \in [Names -> PushType' \cup {None}] /\ subs' \in [Names -> GateIds' \cup {None}]
        /\ feed' \subseteq GateIds'
    BY <1>2, <1>5 DEF TypeOK
  <2> QED BY <1>2, <1>5, <2>1 DEF TypeOK, Gate
<1>12. ThreadTypes'
  <2>1. Busy \subseteq Busy' /\ Carrying \subseteq Carrying'
    BY <1>5 DEF Busy, Carrying
  <2> QED BY <1>2, <1>3, <2>1 DEF ThreadTypes
<1>13. OpLocks'
  BY <1>2, <1>6, <1>7 DEF OpLocks, Holds
<1>14. WorkerOps'
  <2>1. \A m \in w.todo : Holds(t, Kind(m))' /\ subs'[m] = None
    BY <1>1, <1>2, <1>3, <1>7, <1>8
  <2>2. WorkerOp(t)'
    BY <1>1, <1>2, <1>3, <1>6, <2>1 DEF WorkerOp, GatePcs, ActivatePcs, DrainPcs
  <2>3. \A u \in Workers : u # t /\ worker[u].pc # "idle" => WorkerOp(u)'
    BY <1>2, <1>6 DEF WorkerOps, WorkerOp, Holds
  <2> QED BY <1>6, <2>2, <2>3 DEF WorkerOps
<1>15. WorkedGates'
  <2>1. WorkedGate(t)'
    <3>1. Holds(t, Kind(n))' /\ subs'[n] = None /\ g \notin feed'
      BY <1>1, <1>2, <1>5, <1>7, <1>8 DEF TypeOK
    <3> HIDE DEF IndInv, o
    <3> QED BY <1>3, <1>4, <1>5, <1>6, <3>1 DEF WorkedGate, DrainPcs
  <2>2. \A u \in Workers : u # t /\ worker[u].pc \in GatePcs => WorkedGate(u)'
    <3> SUFFICES ASSUME NEW u \in Workers, u # t, worker[u].pc \in GatePcs,
                        NEW h \in GateIds, h = worker[u].gate PROVE WorkedGate(u)'
      BY <1>10
    <3>1. WorkedGate(u) /\ worker'[u] = worker[u] /\ gates'[h] = gates[h] /\ tape'[h] = tape[h] /\ h \in GateIds'
      BY <1>5, <1>6 DEF WorkedGates
    <3>2. Holds(u, Kind(gates[h].name))' <=> Holds(u, Kind(gates[h].name))
      BY <1>5, <3>1 DEF Holds
    <3> HIDE DEF IndInv
    <3>3. subs' = subs /\ feed' = feed
      BY <1>2
    <3> QED BY ONLY <3>1, <3>2, <3>3, h = worker[u].gate DEF WorkedGate
  <2> QED BY <1>6, <2>1, <2>2 DEF WorkedGates
<1>16. CachingGates'
  <2>1. \A c \in Callers : caller[c].pc = "caching" => caller[c].push.gate \in GateIds /\ CachingGate(c)
    BY CallerFacts DEF CachingGates
  <2> SUFFICES ASSUME NEW c \in Callers, caller[c].pc = "caching", NEW h \in GateIds, h = caller[c].push.gate
               PROVE  CachingGate(c)'
    BY <1>2, <2>1 DEF CachingGates
  <2>2. gates'[h] = gates[h] /\ tape'[h] = tape[h] /\ caller' = caller
    BY <1>2, <1>5
  <2> HIDE DEF IndInv
  <2> QED BY <2>1, <2>2 DEF CachingGate
<1>17. SettledGates'
  <2>1. WorksOn(t, g)'
    BY <1>3, <1>6 DEF WorksOn, GatePcs
  <2>2. ASSUME NEW h \in GateIds, \A u \in Workers : ~WorksOn(u, h)' PROVE SettledGate(h)'
    <3>1. \A u \in Workers : ~WorksOn(u, h)
      BY <1>6, <1>10, <2>2 DEF WorksOn
    <3>2. SettledGate(h)
      BY <3>1 DEF SettledGates
    <3> QED BY <1>2, <1>5, <3>2 DEF SettledGate
  <2> QED BY <1>5, <2>1, <2>2 DEF SettledGates
<1>18. HeldBack'
  <2>1. gates'[g].pending = <<>> /\ gates'[g].state = "pending"
    BY <1>4, <1>5
  <2>2. \A h \in GateIds : gates'[h] = gates[h]
    BY <1>5
  <2>3. HeldBack /\ GateIds' = GateIds \cup {g}
    BY <1>5
  <2> QED BY ONLY <2>1, <2>2, <2>3 DEF HeldBack
<1>19. Registered'
  BY <1>2, <1>5 DEF Registered, TypeOK
<1>20. ArrivalOrder'
  <2>1. arrived'[g] = tape'[g] \o gates'[g].pending
    BY <1>4, <1>5
  <2> QED BY <1>4, <1>5, <2>1 DEF ArrivalOrder
<1>21. CacheFollows'
  <2>1. ASSUME NEW m \in Names, m # n, subs[m] # None PROVE subs[m] \in GateIds
    BY <2>1 DEF TypeOK
  <2>2. \A u \in Workers : worker[u].pc = "drain_caching" => worker'[u] = worker[u]
    BY <1>1, <1>6
  <2>3. ASSUME NEW m \in Names, m # n
        PROVE  IF subs'[m] = None THEN ~down' => cache'[m] = None
               ELSE \/ \E c \in Callers : caller'[c].pc = "caching" /\ caller'[c].push.gate = subs'[m]
                    \/ \E u \in Workers : worker'[u].pc = "drain_caching" /\ worker'[u].gate = subs'[m]
                    \/ cache'[m] = IF tape'[subs'[m]] = <<>> THEN None ELSE Last(tape'[subs'[m]])
    <3>1. subs'[m] = subs[m] /\ cache'[m] = cache[m] /\ caller' = caller /\ down' = down
      BY <1>2, <1>9, <2>3
    <3>2. subs[m] # None => tape'[subs[m]] = tape[subs[m]]
      BY <1>5, <2>1, <2>3
    <3> QED BY <2>2, <2>3, <3>1, <3>2 DEF CacheFollows
  <2> QED BY <1>1, <1>2, <1>9, <2>3 DEF CacheFollows
<1>22. FedOnce'
  <2>1. feed' = feed /\ \A h \in feed : gates'[h].name = gates[h].name
    BY <1>2, <1>5 DEF TypeOK
  <2> QED BY <2>1 DEF FedOnce
<1>23. LimitKept'
  <2>1. FedStocks' = FedStocks
    <3>1. feed' = feed /\ \A h \in feed : gates'[h].name = gates[h].name
      BY <1>2, <1>5 DEF TypeOK
    <3> HIDE DEF IndInv
    <3> QED BY ONLY <3>1 DEF FedStocks
  <2>2. ToFeed(t)' \subseteq ToFeed(t)
    BY <1>1, <1>3, <1>4, <1>5, <1>6 DEF ToFeed
  <2>3. Holds(t, "stock")' => Holds(t, "stock")
    BY <1>7 DEF Kinds
  <2>4. Holds(t, "stock")' /\ worker'[t].op = "subscribe" =>
          /\ Holds(t, "stock") /\ worker[t].op = "subscribe"
          /\ (FedStocks \cup ToFeed(t))' \subseteq FedStocks \cup ToFeed(t)
    BY <1>1, <2>1, <2>2, <2>3
  <2>5. FedStocks' \subseteq FedStocks /\ \A h \in GateIds : gates'[h].name = gates[h].name
    BY <1>5, <2>1
  <2> HIDE DEF IndInv, o
  <2> QED BY <1>6, <2>4, <2>5, LimitStays
<1> QED BY <1>11, <1>12, <1>13, <1>14, <1>15, <1>16, <1>17, <1>18, <1>19, <1>20, <1>21, <1>22, <1>23

-----------------------------------------------------------------------------
(* The invariant holds of every reachable state. *)

LEMMA InitialState ==
  ASSUME Init
  PROVE  IndInv
<1> USE DEF Init
<1>1. GateIds = {} /\ feed = {}
  BY DEF GateIds
<1>2. \A t \in Workers : worker[t] = Idle /\ worker[t].pc = "idle"
  BY DEF Idle
<1>3. \A c \in Callers : caller[c] = Idle /\ caller[c].pc = "idle"
  BY DEF Idle
<1>4. TypeOK
  BY <1>1, LimitAssumption DEF TypeOK
<1>5. ThreadTypes
  BY DEF ThreadTypes
<1>6. OpLocks /\ WorkerOps
  BY <1>2 DEF OpLocks, Holds, WorkerOps
<1>7. WorkedGates /\ CachingGates
  BY <1>2, <1>3 DEF WorkedGates, CachingGates, GatePcs, ActivatePcs, DrainPcs
<1>8. SettledGates /\ HeldBack /\ ArrivalOrder /\ FedOnce
  BY <1>1 DEF SettledGates, HeldBack, ArrivalOrder, FedOnce
<1>9. Registered /\ CacheFollows
  BY DEF Registered, CacheFollows
<1>10. LimitKept
  <2>1. FedStocks = {}
    BY <1>1 DEF FedStocks
  <2>2. Cardinality(FedStocks) <= StockLimit
    BY <2>1, FS_EmptySet, LimitAssumption
  <2>3. \A t \in Workers : ~Holds(t, "stock")
    BY <1>2 DEF Holds
  <2> QED BY <2>2, <2>3 DEF LimitKept
<1> QED BY <1>4, <1>5, <1>6, <1>7, <1>8, <1>9, <1>10 DEF IndInv

LEMMA CallbackStep ==
  ASSUME IndInv, NEW c \in Callers, Callback(c) \/ \E g \in GateIds : Push(c, g)
  PROVE  IndInv'
BY DropStep, HoldStep, DeliverStep, CacheStep, PushStep DEF Callback

LEMMA WorkStep ==
  ASSUME IndInv, NEW t \in Workers, Work(t)
  PROVE  IndInv'
<1>1. CASE Refuse(t) \/ StartSubscribe(t) \/ StartUnsubscribe(t) \/ LockMarket(t) \/ LockStock(t)
             \/ Report(t) \/ Done(t)
  BY <1>1, RefuseStep, StartSubscribeStep, StartUnsubscribeStep, LockMarketStep, LockStockStep, LeavingSteps
<1>2. CASE MakeGate(t) \/ GatewaySubscribe(t) \/ Subscribed(t) \/ SubscribeFails(t)
  BY <1>2, MakeGateStep, GatewaySubscribeStep, SubscribedStep, SubscribeFailsStep
<1>3. CASE Activate(t) \/ DrainSequence(t) \/ DrainCache(t) \/ Activated(t)
  BY <1>3, ActivateStep, DrainSequenceStep, DrainCacheStep, ActivatedStep
<1>4. CASE Suspend(t) \/ GatewayUnsubscribe(t) \/ Unsubscribed(t) \/ UnsubscribeFails(t)
             \/ CloseGate(t) \/ Forget(t)
  BY <1>4, SuspendStep, GatewayUnsubscribeStep, UnsubscribedStep, UnsubscribeFailsStep, CloseGateStep, ForgetStep
<1> QED BY <1>1, <1>2, <1>3, <1>4 DEF Work

LEMMA StutterStep ==
  ASSUME IndInv, UNCHANGED vars
  PROVE  IndInv'
<1> USE DEF vars, IndInv
<1>1. HeldBack' /\ Registered' /\ ArrivalOrder' /\ FedOnce'
  BY Undisturbed
<1>2. TypeOK'
  BY DEF TypeOK, GateIds, PushType
<1>3. ThreadTypes'
  BY DEF ThreadTypes, PushType, GateIds, Busy, Carrying
<1>4. OpLocks' /\ WorkerOps'
  BY DEF OpLocks, Holds, WorkerOps, WorkerOp
<1>5. WorkedGates' /\ CachingGates'
  BY DEF WorkedGates, WorkedGate, Holds, GateIds, CachingGates, CachingGate
<1>6. SettledGates' /\ CacheFollows'
  BY DEF SettledGates, SettledGate, WorksOn, GateIds, CacheFollows
<1>7. LimitKept'
  BY DEF LimitKept, FedStocks, ToFeed, Holds
<1> QED BY <1>1, <1>2, <1>3, <1>4, <1>5, <1>6, <1>7

\* What each thread relies on at each of its steps holds whatever the others do:
\* a gate is worked on under the operation lock of its kind, is fed and registered
\* as far as the call has come, and is settled when nobody works on it.
THEOREM Invariance == Spec => []IndInv
<1>1. Init => IndInv
  BY InitialState
<1>2. IndInv /\ [Next]_vars => IndInv'
  BY RequestStep, WorkStep, CallbackStep, StutterStep DEF Next, Stopped
<1> QED BY <1>1, <1>2, PTL DEF Spec

LEMMA LimitIsKept ==
  ASSUME IndInv
  PROVE  WithinStockLimit
<1> DEFINE S == {g \in feed : gates[g].name \in Stocks}
           f == [g \in S |-> gates[g].name]
<1>1. f \in Injection(S, FedStocks)
  BY DEF Injection, IsInjective, FedStocks, IndInv, FedOnce
<1>2. IsFiniteSet(FedStocks) /\ Cardinality(FedStocks) \in Nat /\ Cardinality(FedStocks) <= StockLimit
  BY StocksAssumption, FS_Subset, FS_CardinalityType DEF FedStocks, IndInv, LimitKept
<1>3. IsFiniteSet(S) /\ Cardinality(S) <= Cardinality(FedStocks)
  BY <1>1, <1>2, FS_Injection
<1>4. Cardinality(S) \in Nat
  BY <1>3, FS_CardinalityType
<1> QED BY <1>2, <1>3, <1>4, LimitAssumption DEF WithinStockLimit

\* While an operation lock is free nobody works on a gate of its kind.
LEMMA FreeIsSettled ==
  ASSUME IndInv, NEW k \in Kinds, opLock[k] = None, NEW g \in GateIds, Kind(gates[g].name) = k
  PROVE  SettledGate(g)
<1>1. \A t \in Workers : ~WorksOn(t, g)
  BY ThreadsAssumption DEF IndInv, WorksOn, WorkedGates, WorkedGate, OpLocks
<1> QED BY <1>1 DEF IndInv, SettledGates

LEMMA SettledFollows ==
  ASSUME IndInv
  PROVE  SettledWhenUnlocked
<1> SUFFICES ASSUME NEW k \in Kinds, opLock[k] = None, ~down
             PROVE  LET mine == {g \in GateIds : Kind(gates[g].name) = k}
                        registered == {subs[n] : n \in Current(k)}
                    IN /\ {g \in mine : gates[g].state # "closed"} = registered
                       /\ feed \cap mine = registered
                       /\ \A g \in registered : gates[g].state = "active" /\ subs[gates[g].name] = g
                       /\ \A n \in NamesOf(k) : cache[n] # None => subs[n] # None
  BY LimitIsKept DEF SettledWhenUnlocked
<1> DEFINE mine == {g \in GateIds : Kind(gates[g].name) = k}
           registered == {subs[n] : n \in Current(k)}
<1>1. \A n \in NamesOf(k) : n \in Names /\ Kind(n) = k
  BY NamesAssumption DEF NamesOf, Names, Kind, Kinds
<1>2. \A n \in Names : Kind(n) = k => n \in NamesOf(k)
  BY DEF NamesOf, Names, Kind, Kinds
<1>3. ASSUME NEW n \in Current(k)
      PROVE  subs[n] \in mine /\ gates[subs[n]].name = n /\ gates[subs[n]].state = "active" /\ subs[n] \in feed
  <2>1. n \in Names /\ Kind(n) = k /\ subs[n] # None
    BY <1>1 DEF Current
  <2>2. subs[n] \in GateIds /\ gates[subs[n]].name = n
    BY <2>1 DEF IndInv, TypeOK, Registered
  <2>3. SettledGate(subs[n])
    BY <2>1, <2>2, FreeIsSettled
  <2> QED BY <2>1, <2>2, <2>3 DEF SettledGate
<1>4. ASSUME NEW g \in mine, gates[g].state # "closed" \/ g \in feed
      PROVE  g \in registered
  <2>1. SettledGate(g) /\ gates[g].name \in Names /\ g # None
    BY FreeIsSettled, GateFacts, ThreadsAssumption
  <2>2. subs[gates[g].name] = g
    BY <1>4, <2>1 DEF SettledGate
  <2>3. gates[g].name \in Current(k)
    BY <1>2, <2>1, <2>2 DEF Current
  <2> QED BY <2>2, <2>3
<1>5. \A n \in NamesOf(k) : cache[n] # None => subs[n] # None
  BY <1>1 DEF IndInv, CacheFollows
<1>6. {g \in mine : gates[g].state # "closed"} = registered
  BY <1>3, <1>4
<1>7. feed \cap mine = registered
  BY <1>3, <1>4
<1>8. \A g \in registered : gates[g].state = "active" /\ subs[gates[g].name] = g
  BY <1>3
<1> QED BY <1>5, <1>6, <1>7, <1>8

LEMMA AgreementFollows ==
  ASSUME IndInv
  PROVE  QuotesAgree
<1> SUFFICES ASSUME NEW n \in Names, NEW g \in GateIds, g = subs[n], gates[g].lock = None
             PROVE  cache[n] = IF tape[g] = <<>> THEN None ELSE Last(tape[g])
  BY DEF QuotesAgree, CacheIsLatest, IndInv, TypeOK
<1>1. g # None
  BY GateFacts, ThreadsAssumption
<1>2. \A c \in Callers : caller[c].pc = "caching" => caller[c].push.gate # g
  BY ThreadsAssumption DEF IndInv, CachingGates, CachingGate
<1>3. \A t \in Workers : worker[t].pc = "drain_caching" => worker[t].gate # g
  BY ThreadsAssumption DEF IndInv, WorkedGates, WorkedGate, GatePcs, ActivatePcs, DrainPcs
<1> QED BY <1>1, <1>2, <1>3 DEF IndInv, CacheFollows

\* The quotes clients read agree with the pushes that came in: each gate has put
\* what it let in on the sequence in the order of arrival and holds back the rest,
\* across suspension, failed unsubscribes and re-activation, and the latest value of
\* a name is the last push of its own subscription whenever no delivery is under way.
THEOREM Agreement == Spec => []QuotesAgree
BY Invariance, AgreementFollows, PTL

\* Calls that overlap, fail half-way or are retried leave the service settled: XtData
\* feeds no more stocks than the limit, and whenever an operation lock is free exactly
\* the registered names of its kind have an active gate, are fed and may have quotes.
THEOREM Settlement == Spec => []SettledWhenUnlocked
BY Invariance, SettledFollows, PTL

-----------------------------------------------------------------------------
(* What a step may never do. *)

\* What a step puts on the sequence or in a cache is a push of a gate that is not closed.
OnlyOfOpenGates ==
  \A g \in GateIds : gates[g].state = "closed" =>
    /\ tape'[g] = tape[g]
    /\ \A n \in Names : cache'[n] # cache[n] /\ cache'[n] # None => cache'[n].gate # g

LEMMA CallbackDelivers ==
  ASSUME IndInv, NEW c \in Callers, Callback(c)
  PROVE  OnlyOfOpenGates
<1>1. CASE Drop(c) \/ Hold(c)
  BY <1>1 DEF Drop, Hold, OnlyOfOpenGates
<1>2. CASE Deliver(c)
  BY <1>2 DEF Deliver, OnlyOfOpenGates, IndInv, TypeOK
<1>3. CASE Cache(c)
  BY <1>3 DEF Cache, OnlyOfOpenGates, IndInv, TypeOK, CachingGates, CachingGate
<1> QED BY <1>1, <1>2, <1>3 DEF Callback

LEMMA WorkDelivers ==
  ASSUME IndInv, NEW t \in Workers, Work(t)
  PROVE  OnlyOfOpenGates
<1>1. CASE MakeGate(t)
  <2> DEFINE w == worker[t]
             n == Min(w.todo)
             r == [name |-> n, period |-> w.period, state |-> "pending", pending |-> <<>>, lock |-> None]
  <2>1. w.todo \in SUBSET Names /\ w.todo # {} /\ w.period \in Periods \cup {None}
    BY <1>1, WorkerFacts DEF MakeGate, Doing, Busy
  <2>2. r \in Gate
    <3>1. n \in Names /\ <<>> \in Seq(PushType)
      BY <2>1, FirstIsOne
    <3> QED BY <2>1, <3>1 DEF Gate
  <2>3. /\ gates' = Append(gates, r) /\ tape' = Append(tape, <<>>) /\ arrived' = Append(arrived, <<>>)
        /\ cache' = [cache EXCEPT ![n] = None]
    BY <1>1 DEF MakeGate
  <2> HIDE DEF r
  <2>4. \A g \in GateIds : tape'[g] = tape[g]
    BY <2>2, <2>3, GateAdded
  <2>5. \A m \in Names : cache'[m] = cache[m] \/ cache'[m] = None
    BY <2>3 DEF IndInv, TypeOK
  <2> QED BY <2>4, <2>5 DEF OnlyOfOpenGates
<1>2. CASE DrainSequence(t)
  <2>1. gates[worker[t].gate].state = "pending"
    BY <1>2, AtGate DEF DrainSequence, Doing, WorkedGate, GatePcs, ActivatePcs, DrainPcs
  <2> QED BY <1>2, <2>1 DEF DrainSequence, OnlyOfOpenGates, IndInv, TypeOK
<1>3. CASE DrainCache(t)
  <2>1. gates[worker[t].gate].state = "pending" /\ worker[t].push.gate = worker[t].gate
    BY <1>3, AtGate DEF DrainCache, Doing, WorkedGate, GatePcs, ActivatePcs, DrainPcs
  <2> QED BY <1>3, <2>1 DEF DrainCache, OnlyOfOpenGates, IndInv, TypeOK
<1>4. CASE Forget(t)
  BY <1>4 DEF Forget, OnlyOfOpenGates, IndInv, TypeOK
<1>5. CASE UNCHANGED <<tape, cache>>
  BY <1>5 DEF OnlyOfOpenGates
<1> QED BY <1>1, <1>2, <1>3, <1>4, <1>5 DEF Work, Refuse, StartSubscribe, StartUnsubscribe, LockMarket, LockStock,
           Report, Done, GatewaySubscribe, Subscribed, SubscribeFails, Activate, Activated,
           Suspend, GatewayUnsubscribe, Unsubscribed, UnsubscribeFails, CloseGate

LEMMA RequestDelivers ==
  ASSUME NEW t \in Workers, Request(t)
  PROVE  OnlyOfOpenGates
BY DEF Request, CallSubscribeMarkets, CallUnsubscribeMarkets, CallSubscribeStocks, CallUnsubscribeStocks,
       CallStatus, CallClose, Call, OnlyOfOpenGates

\* Once a gate is closed none of its pushes gets through, however late its callback
\* thread runs: not on the sequence and not in a cache of a later subscription.
THEOREM NothingLate == Spec => NothingAfterClose
<1>1. IndInv /\ [Next]_vars => [OnlyOfOpenGates]_vars
  <2> SUFFICES ASSUME IndInv, Next PROVE OnlyOfOpenGates \/ UNCHANGED vars
    OBVIOUS
  <2>1. ASSUME NEW c \in Callers, NEW g \in GateIds, Push(c, g) PROVE OnlyOfOpenGates
    BY <2>1 DEF Push, OnlyOfOpenGates
  <2> QED BY <2>1, CallbackDelivers, WorkDelivers, RequestDelivers DEF Next, Stopped
<1>2. [OnlyOfOpenGates]_vars <=>
        [\A g \in GateIds : gates[g].state = "closed" =>
           /\ tape'[g] = tape[g]
           /\ \A n \in Names : cache'[n] # cache[n] /\ cache'[n] # None => cache'[n].gate # g]_vars
  BY DEF OnlyOfOpenGates
<1> QED BY <1>1, <1>2, Invariance, PTL DEF Spec, NothingAfterClose


-----------------------------------------------------------------------------
(* The history of codes *)

IsHistory(h) == (\A i \in h : i.from \in Nat) /\ (h = {} \/ Accepts(h))

\* Each interval of a code names the security of the code.
LEMMA SidIs ==
  ASSUME NEW h, IsHistory(h), NEW i \in h
  PROVE  Sid(h, i.code) = i.sid
  <1>1. \E j \in h : j.code = i.code
    OBVIOUS
  <1>2. (CHOOSE j \in h : j.code = i.code) \in h /\ (CHOOSE j \in h : j.code = i.code).code = i.code
    BY <1>1
  <1> QED
    BY <1>2 DEF Sid, IsHistory, Accepts

\* A security has an earliest interval.
LEMMA FirstIs ==
  ASSUME NEW h, IsHistory(h), NEW sid, \E i \in h : i.sid = sid
  PROVE  First(h, sid) \in Aliases(h, sid)
  <1> DEFINE froms == {i.from : i \in {j \in h : j.sid = sid}}
             Earliest(i) == i.sid = sid /\ \A j \in h : j.sid = sid => i.from <= j.from
  <1>1. froms \in SUBSET Nat /\ froms # {}
    BY DEF IsHistory
  <1>2. PICK n \in froms : \A m \in froms : n <= m
    <2> HIDE DEF froms
    <2> QED
      BY <1>1, LeastIs
  <1>3. \E i \in h : Earliest(i)
    <2>1. PICK i \in h : i.sid = sid /\ i.from = n
      BY <1>2
    <2> QED
      BY <1>2, <2>1
  <1>4. (CHOOSE i \in h : Earliest(i)) \in h /\ (CHOOSE i \in h : Earliest(i)).sid = sid
    BY <1>3
  <1> QED
    BY <1>4 DEF First, Aliases

\* The first code of a security is one of its codes, and names the same security.
LEMMA CanonicalIs ==
  ASSUME NEW h, IsHistory(h), NEW code \in KnownCodes(h)
  PROVE  /\ Canonical(h, code) = First(h, Sid(h, code))
         /\ Canonical(h, code) \in KnownCodes(h)
         /\ Sid(h, Canonical(h, code)) = Sid(h, code)
  <1>1. PICK i \in h : i.code = code
    BY DEF KnownCodes
  <1>2. Sid(h, code) = i.sid
    BY <1>1, SidIs
  <1>3. First(h, i.sid) \in Aliases(h, i.sid)
    BY FirstIs
  <1>4. PICK j \in h : j.sid = i.sid /\ j.code = First(h, i.sid)
    BY <1>3 DEF Aliases
  <1>5. Sid(h, j.code) = j.sid
    BY SidIs
  <1> QED
    BY <1>1, <1>2, <1>4, <1>5 DEF Canonical, KnownCodes

LEMMA CanonicalTwice ==
  ASSUME NEW h, IsHistory(h), NEW code
  PROVE  Canonical(h, Canonical(h, code)) = Canonical(h, code)
  <1>1. CASE code \in KnownCodes(h)
    BY <1>1, CanonicalIs DEF Canonical
  <1>2. CASE code \notin KnownCodes(h)
    BY <1>2 DEF Canonical
  <1> QED
    BY <1>1, <1>2

\* Every code of a security has the same first code.
LEMMA AliasIs ==
  ASSUME NEW h, IsHistory(h), NEW sid, NEW alias \in Aliases(h, sid)
  PROVE  alias \in KnownCodes(h) /\ Sid(h, alias) = sid /\ Canonical(h, alias) = First(h, sid)
  <1>1. PICK i \in h : i.sid = sid /\ i.code = alias
    BY DEF Aliases
  <1>2. Sid(h, alias) = sid
    BY <1>1, SidIs
  <1>3. alias \in KnownCodes(h)
    BY <1>1 DEF KnownCodes
  <1> QED
    BY <1>2, <1>3 DEF Canonical

\* The code of the day is a code of the security and in force.
LEMMA CodeAtIs ==
  ASSUME NEW h, NEW sid, NEW day, HasCodeAt(h, sid, day)
  PROVE  /\ CodeAt(h, sid, day) \in Aliases(h, sid)
         /\ \E i \in h : i.code = CodeAt(h, sid, day) /\ InForce(i, sid, day)
  <1>1. PICK i \in h : i = (CHOOSE j \in h : InForce(j, sid, day)) /\ InForce(i, sid, day)
    BY DEF HasCodeAt
  <1> QED
    BY <1>1 DEF CodeAt, Aliases, InForce

-----------------------------------------------------------------------------
(* Type correctness *)

LEMMA HistoryIs ==
  ASSUME world \in DOMAIN Worlds
  PROVE  IsHistory(History)
  BY WorldsAssumption DEF IsHistory, History, World

LEMMA TypeHolds == ReaderSpec => [](world \in DOMAIN Worlds /\ ReaderTypeOK)
  <1> DEFINE Inv == world \in DOMAIN Worlds /\ ReaderTypeOK
  <1>1. ReaderInit => Inv
    BY WorldsAssumption DEF ReaderInit, ReaderTypeOK, World, RowsOf
  <1>2. Inv /\ [ReaderNext]_readerVars => Inv'
    <2> SUFFICES ASSUME Inv, [ReaderNext]_readerVars PROVE Inv'
      OBVIOUS
    <2>1. ASSUME NEW change \in World.pool, Store(change) PROVE Inv'
      <3>1. change.table \in Tables
        BY WorldsAssumption DEF World
      <3>2. DOMAIN db' = DOMAIN db
        BY <2>1 DEF Store
      <3>3. ASSUME NEW table \in Tables
            PROVE  db'[table] \subseteq RowsOf(World, table)
        <4> USE DEF RowsOf
        <4>1. db[table] \subseteq RowsOf(World, table)
          BY DEF ReaderTypeOK
        <4>2. CASE table # change.table
          BY <2>1, <4>1, <4>2 DEF Store, ReaderTypeOK
        <4>3. CASE table = change.table
          <5>1. db'[table] = {r \in db[table] : ~SameKey(table, r, change.row)} \cup {change.row}
            BY <2>1, <4>3 DEF Store, ReaderTypeOK
          <5>2. change.row \in {c.row : c \in {x \in World.pool : x.table = table}}
            BY <4>3
          <5> QED
            BY <4>1, <5>1, <5>2
        <4> QED
          BY <4>2, <4>3
      <3> QED
        BY <2>1, <3>2, <3>3 DEF Store, ReaderTypeOK, World, RowsOf
    <2>2. CASE UNCHANGED readerVars
      BY <2>2 DEF readerVars, ReaderTypeOK, World
    <2> QED
      BY <2>1, <2>2 DEF ReaderNext
  <1> QED
    BY <1>1, <1>2, PTL DEF ReaderSpec

LEMMA RowsAre ==
  ASSUME world \in DOMAIN Worlds, ReaderTypeOK, NEW table \in Tables, NEW r \in db[table]
  PROVE  IsRow(table, r)
  BY WorldsAssumption DEF ReaderTypeOK, World
-----------------------------------------------------------------------------
(* Suspensions *)

LEMMA OneElement ==
  ASSUME NEW S, NEW x, S = {x}
  PROVE  Cardinality(S) = 1 /\ (CHOOSE y \in S : TRUE) = x
  BY FS_Singleton

\* What a stock is said to trade by: no interval under way, an event that has begun or the
\* default, and a row that says something else than that it is suspended all day.
LEMMA TradingIs ==
  ASSUME NEW rows, NEW time \in Nat, NEW default,
         \A r \in rows : \A i \in r.intervals : i[1] \in Nat,
         SuspensionStatus(rows, time, default) = "trading",
         default = "trading" => PreOpen <= time
  PROVE  /\ \A r \in rows : r.type = "S" => ~\E i \in r.intervals : i[1] <= time /\ time < i[2]
         /\ PreOpen <= time \/ \E r \in rows : \E i \in r.intervals : i[1] <= time
         /\ rows # {} => \E r \in rows : r.type # "S" \/ r.intervals # {}
         /\ (\A r \in rows : r.intervals # {} /\ \A i \in r.intervals : time < i[1]) => default = "trading"
  <1> DEFINE State(r, still) == IF r.type = "S" /\ still THEN "suspended"
                                ELSE IF r.type \in {"S", "R"} THEN "trading" ELSE "unknown"
             Of(r) == IF r.intervals = {} THEN {[start |-> PreOpen, state |-> State(r, TRUE)]}
                      ELSE {[start |-> i[1], state |-> State(r, time < i[2])] : i \in r.intervals}
             begun == {e \in Events(rows, time) : e.start <= time}
             underway == \E r \in rows : r.type = "S" /\ \E i \in r.intervals : i[1] <= time /\ time < i[2]
             latest == {e.state : e \in {x \in begun : \A y \in begun : y.start <= x.start}}
  <1>1. Events(rows, time) = UNION {Of(r) : r \in rows}
    BY DEF Events
  <1>2. SuspensionStatus(rows, time, default) =
          IF underway THEN "suspended"
          ELSE IF begun = {} THEN default
          ELSE IF Cardinality(latest) = 1 THEN CHOOSE s \in latest : TRUE ELSE "unknown"
    BY DEF SuspensionStatus
  <1>3. ~underway /\ (begun = {} => default = "trading")
    BY <1>2
  <1>4. \A e \in begun : \E r \in rows : \/ r.intervals = {} /\ e = [start |-> PreOpen, state |-> State(r, TRUE)]
                                         \/ \E i \in r.intervals : e.start = i[1]
    BY <1>1
  <1>5. PreOpen <= time \/ \E r \in rows : \E i \in r.intervals : i[1] <= time
    <2>1. CASE begun = {}
      BY <1>3, <2>1
    <2>2. CASE begun # {}
      BY <1>4, <2>2
    <2> QED
      BY <2>1, <2>2
  <1>6. ASSUME rows # {}, \A r \in rows : r.type = "S" /\ r.intervals = {} PROVE FALSE
    <2>1. PreOpen <= time
      BY <1>5, <1>6
    <2>2. Events(rows, time) = {[start |-> PreOpen, state |-> "suspended"]}
      BY <1>1, <1>6
    <2>3. begun = {[start |-> PreOpen, state |-> "suspended"]}
      BY <2>1, <2>2
    <2>4. latest = {"suspended"}
      <3> DEFINE only == [start |-> PreOpen, state |-> "suspended"]
      <3>1. only.start <= only.start /\ only.state = "suspended"
        BY DEF PreOpen
      <3>2. begun = {only}
        BY <2>3
      <3> HIDE DEF begun, only
      <3>3. {x \in begun : \A y \in begun : y.start <= x.start} = {only}
        BY <3>1, <3>2
      <3> QED
        BY <3>1, <3>3
    <2>5. SuspensionStatus(rows, time, default) = "suspended"
      <3> HIDE DEF begun, latest, underway
      <3>1. begun # {}
        BY <2>3
      <3> QED
        BY <1>2, <1>3, <2>4, <3>1, OneElement
    <2> QED
      BY <2>5
  <1>7. ASSUME \A r \in rows : r.intervals # {} /\ \A i \in r.intervals : time < i[1] PROVE default = "trading"
    <2>1. begun = {}
      BY <1>4, <1>7
    <2> QED
      BY <1>3, <2>1
  <1> QED
    BY <1>3, <1>5, <1>6, <1>7

-----------------------------------------------------------------------------
(* What a view answers *)

LEMMA Refusing == \A why : ~Refused(why).ok /\ Refused(why).rows = {}
  BY DEF Refused

LEMMA WithinIs ==
  ASSUME NEW answer, Within(answer).ok
  PROVE  Within(answer) = answer
  BY Refusing DEF Within

\* A row as a view shows it: under the code of the day, beside its sid.
ShownAs(h, day, r) == WithSid(h, r, CodeAt(h, Sid(h, r.code), day))
IsShown(h, day, r) == r.code \in KnownCodes(h) /\ HasCodeAt(h, Sid(h, r.code), day)

LEMMA ResultIs ==
  ASSUME NEW h, NEW t, NEW answer, Result(h, t, answer).ok
  PROVE  /\ answer.ok
         /\ h = {} => Result(h, t, answer) = answer
         /\ h # {} => /\ \A r \in answer.rows : IsShown(h, DayOf(t), r)
                      /\ Result(h, t, answer).rows = {ShownAs(h, DayOf(t), r) : r \in answer.rows}
  <1>1. CASE h = {} \/ ~answer.ok
    <2>1. Result(h, t, answer) = Within(answer)
      BY <1>1 DEF Result
    <2> QED
      BY <1>1, <2>1, WithinIs
  <1>2. CASE h # {} /\ answer.ok
    <2>1. CASE \E r \in answer.rows : ~IsShown(h, DayOf(t), r)
      <3>1. Result(h, t, answer) = Refused("unmapped")
        BY <1>2, <2>1 DEF Result, IsShown
      <3> QED
        BY <3>1, Refusing
    <2>2. CASE \A r \in answer.rows : IsShown(h, DayOf(t), r)
      <3> DEFINE shown == Answered({ShownAs(h, DayOf(t), r) : r \in answer.rows})
      <3>1. Result(h, t, answer) = Within(shown)
        BY <1>2, <2>2 DEF Result, IsShown, ShownAs
      <3>2. shown.rows = {ShownAs(h, DayOf(t), r) : r \in answer.rows}
        BY DEF Answered
      <3>3. Result(h, t, answer) = shown
        <4> HIDE DEF shown
        <4> QED
          BY <3>1, WithinIs
      <3> QED
        BY <1>2, <2>2, <3>2, <3>3
    <2> QED
      BY <2>1, <2>2
  <1> QED
    BY <1>1, <1>2

\* The fields of a row that is shown.
LEMMA ShownFields ==
  ASSUME NEW h, NEW day, NEW r, "code" \in DOMAIN r
  PROVE  /\ ShownAs(h, day, r).code = CodeAt(h, Sid(h, r.code), day)
         /\ ShownAs(h, day, r).sid = Sid(h, r.code)
         /\ \A field \in DOMAIN r \ {"code", "sid"} : ShownAs(h, day, r)[field] = r[field]
  BY DEF ShownAs, WithSid

LEMMA CheckedIs ==
  ASSUME NEW valid \in BOOLEAN, NEW h, NEW q, NEW answer, Checked(valid, h, q, answer).ok
  PROVE  valid /\ Mapped(h, q.symbols.codes) /\ Checked(valid, h, q, answer) = answer
  BY Refusing DEF Checked, ForSymbols

LEMMA TushareIs ==
  ASSUME NEW q, NEW answer, Tushare(q, answer).ok
  PROVE  Tushare(q, answer) = answer
  BY Refusing DEF Tushare, From

LEMMA FetchIs ==
  ASSUME NEW v, NEW gated, NEW conflict, NEW covered, NEW rows, Fetch(v, gated, conflict, covered, rows).ok
  PROVE  Fetch(v, gated, conflict, covered, rows).rows = rows
  BY Refusing DEF Fetch, Answered

-----------------------------------------------------------------------------
(* The state of a stock *)

SuspendedOn(v, t, code) == {r \in v.suspend_d : r.date = DayOf(t) /\ r.code = code}

LEMMA SuspensionsAre ==
  ASSUME NEW v, NEW t, NEW q, ~q.symbols.all, Suspensions(v, t, q).ok
  PROVE  LET rows == {r \in v.suspend_d : r.date = DayOf(t)} IN
         Suspensions(v, t, q).rows
           = {[code |-> c, suspended |-> SuspensionStatus({r \in rows : r.code = c}, TimeOf(t), DefaultState(v, t))]
              : c \in q.symbols.codes}
  <1> DEFINE rows == {r \in v.suspend_d : r.date = DayOf(t)}
             states == {[code |-> c, suspended |-> SuspensionStatus({r \in rows : r.code = c}, TimeOf(t), DefaultState(v, t))]
                        : c \in q.symbols.codes}
             fetched == Fetch(v, {"suspend_d"}, FALSE, TRUE, states)
  <1>1. Suspensions(v, t, q) = fetched
    BY DEF Suspensions
  <1> HIDE DEF states
  <1>2. fetched.ok => fetched.rows = states
    BY FetchIs
  <1>3. Suspensions(v, t, q).rows = states
    <2> HIDE DEF fetched
    <2> QED
      BY <1>1, <1>2
  <1> QED
    BY <1>3 DEF states

\* The rows of the status, from what the three tables answered.
StatusParts(v, t, q) == <<Suspensions(v, t, q), PriceLimits(v, t, q), StStatus(v, t, q)>>
StatusOf(parts, c) ==
  LET Of(i) == {r \in parts[i].rows : r.code = c} IN
  [code |-> c,
   suspended |-> IF Of(1) = {} THEN "unknown" ELSE (CHOOSE r \in Of(1) : TRUE).suspended,
   limits |-> IF Of(2) = {} THEN "unknown" ELSE (CHOOSE r \in Of(2) : TRUE).status,
   up |-> IF Of(2) = {} THEN Missing ELSE (CHOOSE r \in Of(2) : TRUE).up,
   down |-> IF Of(2) = {} THEN Missing ELSE (CHOOSE r \in Of(2) : TRUE).down,
   st |-> IF Of(3) = {} THEN Missing ELSE (CHOOSE r \in Of(3) : TRUE).st]
StatusRows(v, t, q) ==
  LET parts == StatusParts(v, t, q)
  IN {StatusOf(parts, c) : c \in q.symbols.codes \cup UNION {{r.code : r \in parts[i].rows} : i \in 1 .. 3}}

\* The status is answered for given symbols and if none of the three tables fails.
LEMMA StatusIsResult ==
  ASSUME NEW v, NEW h, NEW t, NEW q, Status(v, h, t, q).ok
  PROVE  /\ ~q.symbols.all /\ Suspensions(v, t, q).ok
         /\ Status(v, h, t, q) = Result(h, t, Answered(StatusRows(v, t, q)))
  <1> DEFINE parts == StatusParts(v, t, q)
             failed == {i \in 1 .. 3 : ~parts[i].ok}
             whole == IF failed # {} THEN parts[Min(failed)] ELSE Result(h, t, Answered(StatusRows(v, t, q)))
  <1>1. Status(v, h, t, q) = Checked(~q.symbols.all, h, q, Tushare(q, whole))
    BY DEF Status, StatusParts, StatusRows, StatusOf
  <1>2. /\ ~q.symbols.all
        /\ Status(v, h, t, q) = whole
    <2> HIDE DEF whole
    <2> DEFINE own == Tushare(q, whole)
               valid == ~q.symbols.all
    <2>1. ~q.symbols.all /\ Status(v, h, t, q) = Tushare(q, whole)
      <3>1. Status(v, h, t, q) = Checked(valid, h, q, own) /\ valid \in BOOLEAN
        BY <1>1
      <3> HIDE DEF own, valid
      <3>2. valid /\ Status(v, h, t, q) = own
        BY <3>1, CheckedIs
      <3> QED
        BY <3>2 DEF own, valid
    <2> QED
      BY <2>1, TushareIs
  <1>3. failed = {}
    <2> SUFFICES ASSUME failed # {} PROVE FALSE
      OBVIOUS
    <2>1. failed \in SUBSET Nat
      OBVIOUS
    <2>2. Min(failed) \in failed
      <3> HIDE DEF failed
      <3> QED
        BY <2>1, LeastIs
    <2>3. ~parts[Min(failed)].ok
      BY <2>2
    <2> QED
      BY <1>2, <2>3
  <1>4. Suspensions(v, t, q).ok
    <2>1. parts[1] = Suspensions(v, t, q)
      BY DEF StatusParts
    <2>2. 1 \notin failed
      BY <1>3
    <2> QED
      BY <2>1, <2>2
  <1> QED
    BY <1>2, <1>3, <1>4

\* A row that says "trading" says so of a security by its suspensions of the day.
LEMMA StatusIs ==
  ASSUME NEW v, NEW h, IsHistory(h), NEW t, NEW q, \A c \in q.symbols.codes : Canonical(h, c) = c,
         Status(v, h, t, q).ok, NEW s \in Status(v, h, t, q).rows, s.suspended = "trading"
  PROVE  SuspensionStatus(SuspendedOn(v, t, Canonical(h, s.code)), TimeOf(t), DefaultState(v, t)) = "trading"
  <1> DEFINE parts == StatusParts(v, t, q)
             codes == q.symbols.codes \cup UNION {{r.code : r \in parts[i].rows} : i \in 1 .. 3}
             Row(c) == StatusOf(parts, c)
             Of(c) == {r \in parts[1].rows : r.code = c}
             answer == Answered(StatusRows(v, t, q))
  <1>1. ~q.symbols.all /\ Suspensions(v, t, q).ok /\ Status(v, h, t, q) = Result(h, t, answer)
    BY StatusIsResult
  <1>2. parts[1] = Suspensions(v, t, q)
    BY DEF StatusParts
  <1>3. /\ \A c : Row(c).code = c /\ {"code", "suspended"} \subseteq DOMAIN Row(c)
        /\ \A c : Row(c).suspended = IF Of(c) = {} THEN "unknown" ELSE (CHOOSE r \in Of(c) : TRUE).suspended
    BY DEF StatusOf
  <1>4. answer.rows = {Row(c) : c \in codes}
    BY DEF Answered, StatusRows
  <1> HIDE DEF parts, answer, Row
  <1>5. PICK c \in codes : /\ Row(c).suspended = "trading"
                           /\ h = {} => s = Row(c)
                           /\ h # {} => IsShown(h, DayOf(t), Row(c)) /\ s = ShownAs(h, DayOf(t), Row(c))
    <2> DEFINE rows == {Row(c) : c \in codes}
    <2>1. answer.rows = rows
      BY <1>4
    <2>2. PICK row \in rows : /\ h = {} => s = row
                              /\ h # {} => IsShown(h, DayOf(t), row) /\ s = ShownAs(h, DayOf(t), row)
      <3> HIDE DEF rows
      <3> QED
        BY <1>1, <2>1, ResultIs
    <2>3. PICK c \in codes : row = Row(c)
      OBVIOUS
    <2>4. "code" \in DOMAIN row /\ "suspended" \in DOMAIN row
      BY <1>3, <2>3
    <2>5. row.suspended = "trading"
      <3> HIDE DEF rows
      <3>1. ShownAs(h, DayOf(t), row)["suspended"] = row["suspended"]
        BY <2>4, ShownFields
      <3> QED
        BY <2>2, <3>1
    <2> QED
      BY <2>2, <2>3, <2>5
  <1>6. PICK x \in Suspensions(v, t, q).rows : x.code = c /\ x.suspended = "trading"
    <2>1. Of(c) # {} /\ (CHOOSE r \in Of(c) : TRUE).suspended = "trading"
      BY <1>3, <1>5
    <2>2. (CHOOSE r \in Of(c) : TRUE) \in Of(c)
      <3> HIDE DEF Of
      <3> QED
        BY <2>1
    <2> QED
      BY <1>2, <2>1, <2>2
  <1>7. /\ Canonical(h, c) = c
        /\ SuspensionStatus(SuspendedOn(v, t, c), TimeOf(t), DefaultState(v, t)) = "trading"
    <2> DEFINE rows == {r \in v.suspend_d : r.date = DayOf(t)}
               StateOf(b) == SuspensionStatus({r \in rows : r.code = b}, TimeOf(t), DefaultState(v, t))
    <2>1. Suspensions(v, t, q).rows
            = {[code |-> b, suspended |-> StateOf(b)] : b \in q.symbols.codes}
      BY <1>1, SuspensionsAre
    <2>2. StateOf(c) = "trading" /\ c \in q.symbols.codes
      <3> HIDE DEF StateOf
      <3> QED
        BY <1>6, <2>1
    <2>3. {r \in rows : r.code = c} = SuspendedOn(v, t, c)
      BY DEF SuspendedOn
    <2> QED
      BY <2>2, <2>3
  <1>8. Canonical(h, s.code) = c
    <2>1. Row(c).code = c /\ "code" \in DOMAIN Row(c)
      BY <1>3
    <2>2. CASE h = {}
      BY <1>5, <1>7, <2>1, <2>2
    <2>3. CASE h # {}
      <3>1. c \in KnownCodes(h) /\ HasCodeAt(h, Sid(h, c), DayOf(t))
        BY <1>5, <2>1, <2>3 DEF IsShown
      <3>2. s.code = CodeAt(h, Sid(h, c), DayOf(t))
        BY <1>5, <2>1, <2>3, ShownFields
      <3>3. s.code \in Aliases(h, Sid(h, c))
        BY <3>1, <3>2, CodeAtIs
      <3> QED
        BY <1>7, <3>1, <3>3, AliasIs, CanonicalIs
    <2> QED
      BY <2>2, <2>3
  <1> QED
    BY <1>7, <1>8

-----------------------------------------------------------------------------
(* Requests and views *)

\* A request whose codes have been mapped.
LEMMA MappingIs ==
  ASSUME NEW h, IsHistory(h), NEW q, IsRequest(q)
  PROVE  /\ Mapping(h, q).route = q.route
         /\ Mapping(h, q).symbols.codes = {Canonical(h, c) : c \in q.symbols.codes}
         /\ \A c \in Mapping(h, q).symbols.codes : Canonical(h, c) = c
  <1>1. /\ Mapping(h, q).route = q.route
        /\ Mapping(h, q).symbols.codes = {Canonical(h, c) : c \in q.symbols.codes}
    BY DEF Mapping, IsRequest
  <1> QED
    BY <1>1, CanonicalTwice

LEMMA ViewsAre ==
  ASSUME NEW d, NEW h
  PROVE  /\ \A table \in DOMAIN d \ (WithoutCodes \cup {"checked"}) : Views(d, h)[table] = View(d, h, table)
         /\ \A name \in WithoutCodes \cap DOMAIN d : Views(d, h)[name] = d[name]
  BY DEF Views, WithoutCodes

\* The rows under which a view finds the suspensions of a security on a day.
LEMMA SuspendedOnIs ==
  ASSUME world \in DOMAIN Worlds, ReaderTypeOK, NEW t, NEW code
  PROVE  LET today == {r \in db.suspend_d : Canonical(History, r.code) = code /\ r.date = DayOf(t)}
         IN SuspendedOn(Views(db, History), t, code) = {[r EXCEPT !.code = code] : r \in today}
  <1> DEFINE Named(r) == [r EXCEPT !.code = Canonical(History, r.code)]
             today == {r \in db.suspend_d : Canonical(History, r.code) = code /\ r.date = DayOf(t)}
  <1>1. \A r \in db.suspend_d : {"code", "date"} \subseteq DOMAIN r
    BY RowsAre DEF IsRow, Key, Tables
  <1>2. \A r \in db.suspend_d : Named(r).code = Canonical(History, r.code) /\ Named(r).date = r.date
    BY <1>1
  <1>3. SuspendedOn(Views(db, History), t, code) = {Named(r) : r \in today}
    <2>1. "suspend_d" \in DOMAIN db \ (WithoutCodes \cup {"checked"})
      BY DEF ReaderTypeOK, Tables, Key, WithoutCodes
    <2>2. Views(db, History)["suspend_d"] = View(db, History, "suspend_d")
      BY <2>1, ViewsAre
    <2>3. View(db, History, "suspend_d") = {Named(r) : r \in db.suspend_d}
      BY DEF View
    <2> HIDE DEF Named
    <2> QED
      BY <1>2, <2>2, <2>3 DEF SuspendedOn
  <1>4. \A r \in today : Named(r) = [r EXCEPT !.code = code]
    OBVIOUS
  <1> HIDE DEF Named
  <1>5. {Named(r) : r \in today} = {[r EXCEPT !.code = code] : r \in today}
    BY <1>4
  <1> QED
    BY <1>3, <1>5

\* A stock is said to trade only if no suspension is under way, if its rows of the day do
\* not all say suspended, and if, without one that has begun, the day was synchronised.
THEOREM TradingIsKnown == ReaderSpec => []NotTradingWhileSuspended
  <1>1. world \in DOMAIN Worlds /\ ReaderTypeOK => NotTradingWhileSuspended
    <2> SUFFICES ASSUME world \in DOMAIN Worlds, ReaderTypeOK,
                        NEW t \in Instants, NEW q \in World.queries,
                        q.route = "status", Answer(db, History, t, q).ok,
                        NEW s \in Answer(db, History, t, q).rows, s.suspended = "trading"
                 PROVE  LET today == {r \in db.suspend_d : Canonical(History, r.code) = Canonical(History, s.code)
                                                             /\ r.date = DayOf(t)} IN
                        /\ TimeOf(t) >= PreOpen \/ \E r \in today : \E i \in r.intervals : i[1] <= TimeOf(t)
                        /\ \A r \in today : r.type = "S" => ~\E i \in r.intervals : i[1] <= TimeOf(t) /\ TimeOf(t) < i[2]
                        /\ today # {} => \E r \in today : r.type # "S" \/ r.intervals # {}
                        /\ (\A r \in today : \A i \in r.intervals : TimeOf(t) < i[1]) /\ (\A r \in today : r.intervals # {})
                             => DayOf(t) \in UNION {g.start .. g.end : g \in db.suspend_ranges}
      BY DEF NotTradingWhileSuspended
    <2> DEFINE code == Canonical(History, s.code)
               today == {r \in db.suspend_d : Canonical(History, r.code) = code /\ r.date = DayOf(t)}
               As(r) == [r EXCEPT !.code = code]
               rows == {As(r) : r \in today}
               default == DefaultState(Views(db, History), t)
    <2>1. SuspensionStatus(rows, TimeOf(t), default) = "trading"
      <3> DEFINE asked == Mapping(History, q)
      <3>1. IsRequest(q)
        BY WorldsAssumption DEF World
      <3>2. asked.route = "status" /\ \A c \in asked.symbols.codes : Canonical(History, c) = c
        BY <3>1, HistoryIs, MappingIs
      <3>3. Answer(db, History, t, q) = Status(Views(db, History), History, t, asked)
        BY <3>2 DEF Answer, Read
      <3>4. SuspensionStatus(SuspendedOn(Views(db, History), t, code), TimeOf(t), default) = "trading"
        <4> HIDE DEF asked
        <4> QED
          BY <3>2, <3>3, HistoryIs, StatusIs
      <3>5. SuspendedOn(Views(db, History), t, code) = rows
        BY SuspendedOnIs
      <3> QED
        BY <3>4, <3>5
    <2>2. t \in Nat /\ TimeOf(t) \in Nat /\ DayOf(t) \in Nat
      BY InstantsAssumption DEF TimeOf, DayOf, Times
    <2>3. \A r \in today : /\ {"type", "intervals"} \subseteq DOMAIN r
                           /\ \A i \in r.intervals : i[1] \in Nat
      <3>1. \A r \in db.suspend_d : {"type", "intervals"} \subseteq DOMAIN r
        BY RowsAre DEF IsRow, Key, Tables
      <3>2. \A r \in db.suspend_d : \A i \in r.intervals : i[1] \in Nat
        BY RowsAre DEF IsRow, Key, Tables
      <3> QED
        BY <3>1, <3>2
    <2>4. \A r \in today : As(r).type = r.type /\ As(r).intervals = r.intervals
      BY <2>3
    <2>5. default = "trading" => PreOpen <= TimeOf(t) /\ DayOf(t) \in UNION {g.start .. g.end : g \in db.suspend_ranges}
      <3>1. \A g \in db.suspend_ranges : g.start \in Nat /\ g.end \in Nat
        BY RowsAre DEF IsRow, Dated, Tables, Key
      <3>2. Views(db, History)["suspend_ranges"] = db["suspend_ranges"]
        <4>1. "suspend_ranges" \in WithoutCodes \cap DOMAIN db
          BY DEF WithoutCodes, ReaderTypeOK, Tables, Key
        <4> QED
          BY <4>1, ViewsAre
      <3> QED
        BY <2>2, <3>1, <3>2 DEF DefaultState
    <2>6. \A r \in rows : \A i \in r.intervals : i[1] \in Nat
      BY <2>3, <2>4
    <2> HIDE DEF default, As
    <2>7. /\ \A r \in rows : r.type = "S" => ~\E i \in r.intervals : i[1] <= TimeOf(t) /\ TimeOf(t) < i[2]
          /\ PreOpen <= TimeOf(t) \/ \E r \in rows : \E i \in r.intervals : i[1] <= TimeOf(t)
          /\ rows # {} => \E r \in rows : r.type # "S" \/ r.intervals # {}
          /\ (\A r \in rows : r.intervals # {} /\ \A i \in r.intervals : TimeOf(t) < i[1]) => default = "trading"
      <3> HIDE DEF rows
      <3> QED
        BY <2>1, <2>2, <2>5, <2>6, TradingIs
    <2>8. TimeOf(t) >= PreOpen <=> PreOpen <= TimeOf(t)
      BY <2>2 DEF PreOpen
    <2> QED
      BY <2>4, <2>5, <2>7, <2>8
  <1> QED
    BY <1>1, TypeHolds, PTL

-----------------------------------------------------------------------------
(* The codes of a security *)

LEMMA CodedTables ==
  /\ \A table \in Tables \ WithoutCodes : "code" \in Key[table] /\ table # "checked" /\ table # "unavailable"
  /\ "checked" \notin Tables \cup {"unavailable"} \cup WithoutCodes
  BY DEF Tables, Key, WithoutCodes

LEMMA RelabelledRows ==
  ASSUME world \in DOMAIN Worlds, ReaderTypeOK, NEW code \in KnownCodes(History), NEW table \in Tables \ WithoutCodes
  PROVE  View(Relabelled(db, code), History, table) = View(db, History, table)
  <1> DEFINE h == History
             aliases == Aliases(h, Sid(h, code))
             Labelled(r) == IF r.code \in aliases THEN [r EXCEPT !.code = code] ELSE r
             Named(r) == [r EXCEPT !.code = Canonical(h, r.code)]
  <1>1. Relabelled(db, code)[table] = {Labelled(r) : r \in db[table]}
    BY DEF Relabelled
  <1>2. ASSUME NEW r \in db[table] PROVE Named(Labelled(r)) = Named(r)
    <2>1. r = [field \in DOMAIN r |-> r[field]] /\ "code" \in DOMAIN r
      BY RowsAre, CodedTables DEF IsRow
    <2>2. CASE r.code \in aliases
      <3>1. Canonical(h, r.code) = Canonical(h, code)
        BY <2>2, HistoryIs, AliasIs, CanonicalIs
      <3>2. Labelled(r) = [r EXCEPT !.code = code] /\ Labelled(r).code = code
        BY <2>1, <2>2
      <3>3. [[r EXCEPT !.code = code] EXCEPT !.code = Canonical(h, code)] = [r EXCEPT !.code = Canonical(h, code)]
        BY <2>1
      <3> QED
        BY <3>1, <3>2, <3>3
    <2>3. CASE r.code \notin aliases
      BY <2>3
    <2> QED
      BY <2>2, <2>3
  <1>3. {Named(x) : x \in {Labelled(r) : r \in db[table]}} = {Named(r) : r \in db[table]}
    <2> HIDE DEF Named, Labelled
    <2> QED
      BY <1>2
  <1> QED
    BY <1>1, <1>3 DEF View

LEMMA RelabelledIs ==
  ASSUME world \in DOMAIN Worlds, ReaderTypeOK, NEW code \in KnownCodes(History)
  PROVE  Views(Relabelled(db, code), History) = Views(db, History)
  <1> DEFINE h == History
             other == Relabelled(db, code)
             names == Tables \cup {"unavailable"}
             v == Views(db, h)
             w == Views(other, h)
  <1>1. DOMAIN db = names /\ DOMAIN other = names
    BY DEF ReaderTypeOK, Relabelled
  <1>2. \A table \in Tables \ WithoutCodes : View(other, h, table) = View(db, h, table)
    BY RelabelledRows
  <1>3. /\ v = [name \in DOMAIN v |-> v[name]] /\ w = [name \in DOMAIN w |-> w[name]]
        /\ DOMAIN v = names \cup {"checked"} /\ DOMAIN w = names \cup {"checked"}
    BY <1>1 DEF Views
  <1>4. w["checked"] = v["checked"]
    BY DEF Views
  <1>5. \A name \in names : w[name] = v[name]
    <2> TAKE name \in names
    <2>1. CASE name \in WithoutCodes
      <3>1. other[name] = db[name]
        BY <2>1 DEF Relabelled
      <3> QED
        BY <1>1, <2>1, <3>1, ViewsAre
    <2>2. CASE name \notin WithoutCodes
      <3>1. name \in Tables \ WithoutCodes
        BY <2>2 DEF WithoutCodes
      <3>2. w[name] = View(other, h, name) /\ v[name] = View(db, h, name)
        BY <1>1, <2>2, CodedTables, ViewsAre
      <3> QED
        BY <1>2, <3>1, <3>2
    <2> QED
      BY <2>1, <2>2
  <1> HIDE DEF v, w
  <1>6. w = v
    BY <1>3, <1>4, <1>5
  <1> QED
    BY <1>6 DEF v, w

\* A request that names a security by another of its codes is the same when it is mapped.
LEMMA RenamedIs ==
  ASSUME NEW h, IsHistory(h), NEW code \in KnownCodes(h), NEW q, IsRequest(q)
  PROVE  LET aliases == Aliases(h, Sid(h, code)) IN
         Mapping(h, [q EXCEPT !.symbols.codes = IF @ \cap aliases = {} THEN @ ELSE (@ \ aliases) \cup {code}])
           = Mapping(h, q)
  <1> DEFINE aliases == Aliases(h, Sid(h, code))
             codes == q.symbols.codes
             others == IF codes \cap aliases = {} THEN codes ELSE (codes \ aliases) \cup {code}
             p == [q EXCEPT !.symbols.codes = others]
             FirstCodes(S) == {Canonical(h, c) : c \in S}
  <1>1. \A c \in aliases : Canonical(h, c) = Canonical(h, code)
    BY AliasIs, CanonicalIs
  <1>2. FirstCodes(others) = FirstCodes(codes)
    <2>1. CASE codes \cap aliases = {}
      BY <2>1
    <2>2. CASE codes \cap aliases # {}
      <3>1. others = (codes \ aliases) \cup {code}
        BY <2>2
      <3> HIDE DEF others, aliases, codes
      <3> QED
        BY <1>1, <2>2, <3>1
    <2> QED
      BY <2>1, <2>2
  <1>3. p.symbols.codes = others /\ p.symbols = [q.symbols EXCEPT !.codes = others]
    BY DEF IsRequest
  <1>4. Mapping(h, p) = [p EXCEPT !.symbols.codes = FirstCodes(others)]
    BY <1>3 DEF Mapping
  <1>5. Mapping(h, q) = [q EXCEPT !.symbols.codes = FirstCodes(codes)]
    BY DEF Mapping
  <1>6. [p EXCEPT !.symbols.codes = FirstCodes(others)] = [q EXCEPT !.symbols.codes = FirstCodes(others)]
    <2> HIDE DEF others, FirstCodes
    <2> QED
      BY DEF IsRequest
  <1> QED
    BY <1>2, <1>4, <1>5, <1>6

-----------------------------------------------------------------------------
(* What is shown *)

IsResult(h, t, answer) == \E rows : answer = Result(h, t, rows)

\* Every answer but those on the calendar and for the account is such a result.
LEMMA ReadIsResult ==
  ASSUME NEW v, NEW h, NEW t, NEW q, q.route \in Routes \ (ForAccountOnly \cup {"sessions", "previous_session"}),
         Read(v, h, t, q).ok
  PROVE  IsResult(h, t, Read(v, h, t, q))
  <1>1. ASSUME NEW valid \in BOOLEAN, NEW p, NEW rows, Checked(valid, h, p, Result(h, t, rows)).ok
        PROVE  IsResult(h, t, Checked(valid, h, p, Result(h, t, rows)))
    BY <1>1, CheckedIs DEF IsResult
  <1>2. ASSUME NEW valid \in BOOLEAN, NEW p, NEW rows, Checked(valid, h, p, Tushare(p, Result(h, t, rows))).ok
        PROVE  IsResult(h, t, Checked(valid, h, p, Tushare(p, Result(h, t, rows))))
    BY <1>2, CheckedIs, TushareIs DEF IsResult
  <1>3. CASE q.route = "bars"
    <2>1. Read(v, h, t, q) = Bars(v, h, t, q)
      BY <1>3 DEF Read
    <2> DEFINE p == UpTo(q, t)
               valid == p.count > 0 \/ (p.start < p.end /\ p.end <= t)
    <2>2. PICK rows : Bars(v, h, t, q) = Checked(valid, h, p, Result(h, t, rows))
      BY DEF Bars
    <2>3. valid \in BOOLEAN
      OBVIOUS
    <2> HIDE DEF p, valid
    <2>4. Checked(valid, h, p, Result(h, t, rows)).ok
      BY <2>1, <2>2
    <2> QED
      BY <1>1, <2>1, <2>2, <2>3, <2>4
  <1>4. CASE q.route = "current"
    <2>1. Read(v, h, t, q) = CurrentQuotes(v, h, t, q)
      BY <1>4 DEF Read
    <2>2. \E rows : CurrentQuotes(v, h, t, q) = Checked(TRUE, h, q, Result(h, t, rows))
      BY DEF CurrentQuotes
    <2> QED
      BY <1>1, <2>1, <2>2
  <1>5. CASE q.route = "status"
    <2>1. Read(v, h, t, q) = Status(v, h, t, q)
      BY <1>5 DEF Read
    <2> QED
      BY <2>1, StatusIsResult DEF IsResult
  <1>6. CASE q.route \in {"daily_metrics", "moneyflow"}
    <2>1. Read(v, h, t, q) = DayTable(v, h, t, q)
      BY <1>6 DEF Read
    <2> DEFINE p == UpTo(q, DayOf(t) + 1)
               valid == p.start < p.end
    <2>2. PICK rows : DayTable(v, h, t, q) = Checked(valid, h, p, Tushare(p, Result(h, t, rows)))
      BY DEF DayTable
    <2>3. valid \in BOOLEAN
      OBVIOUS
    <2> HIDE DEF p, valid
    <2>4. Checked(valid, h, p, Tushare(p, Result(h, t, rows))).ok
      BY <2>1, <2>2
    <2> QED
      BY <1>2, <2>1, <2>2, <2>3, <2>4
  <1>7. CASE q.route \in {"statements", "indicators"}
    <2>1. Read(v, h, t, q) = Reports(v, h, t, q)
      BY <1>7 DEF Read
    <2> DEFINE p == UpTo(q, Never)
               valid == p.periods > 0 \/ p.start < p.end
    <2>2. PICK rows : Reports(v, h, t, q) = Checked(valid, h, p, Tushare(p, Result(h, t, rows)))
      BY DEF Reports
    <2>3. valid \in BOOLEAN
      OBVIOUS
    <2> HIDE DEF p, valid
    <2>4. Checked(valid, h, p, Tushare(p, Result(h, t, rows))).ok
      BY <2>1, <2>2
    <2> QED
      BY <1>2, <2>1, <2>2, <2>3, <2>4
  <1>8. CASE q.route \in {"disclosures", "dividends"}
    <2>1. Read(v, h, t, q) = Announcements(v, h, t, q)
      BY <1>8 DEF Read
    <2> DEFINE p == UpTo(q, t)
               valid == p.end <= t /\ p.start <= p.end
    <2>2. PICK rows : Announcements(v, h, t, q) = Checked(valid, h, p, Tushare(p, Result(h, t, rows)))
      BY DEF Announcements
    <2>3. valid \in BOOLEAN
      OBVIOUS
    <2> HIDE DEF p, valid
    <2>4. Checked(valid, h, p, Tushare(p, Result(h, t, rows))).ok
      BY <2>1, <2>2
    <2> QED
      BY <1>2, <2>1, <2>2, <2>3, <2>4
  <1>9. CASE q.route = "factors"
    <2>1. Read(v, h, t, q) = Factors(v, h, t, q)
      BY <1>9 DEF Read
    <2> DEFINE p == UpTo(q, Never)
               valid == p.start < p.end
    <2>2. PICK rows : Factors(v, h, t, q) = Checked(valid, h, p, Tushare(p, Result(h, t, rows)))
      BY DEF Factors
    <2>3. valid \in BOOLEAN
      OBVIOUS
    <2> HIDE DEF p, valid
    <2>4. Checked(valid, h, p, Tushare(p, Result(h, t, rows))).ok
      BY <2>1, <2>2
    <2> QED
      BY <1>2, <2>1, <2>2, <2>3, <2>4
  <1>10. CASE q.route = "industry"
    <2>1. Read(v, h, t, q) = IndustryOf(v, h, t, q)
      BY <1>10 DEF Read
    <2>2. \E rows : IndustryOf(v, h, t, q) = Checked(TRUE, h, q, Tushare(q, Result(h, t, rows)))
      BY DEF IndustryOf
    <2> QED
      BY <1>2, <2>1, <2>2
  <1>11. CASE q.route = "stocks"
    <2>1. Read(v, h, t, q) = StockPool(v, h, t, q)
      BY <1>11 DEF Read
    <2>2. \E rows : StockPool(v, h, t, q) = Tushare(q, Result(h, t, rows))
      BY DEF StockPool
    <2> QED
      BY <2>1, <2>2, TushareIs DEF IsResult
  <1> QED
    BY <1>3, <1>4, <1>5, <1>6, <1>7, <1>8, <1>9, <1>10, <1>11 DEF Routes, ForAccountOnly

\* The calendar is no security's.
LEMMA CalendarWithoutSid ==
  ASSUME NEW v, NEW h, NEW t, NEW q, q.route \in {"sessions", "previous_session"}, Read(v, h, t, q).ok,
         \A c \in v.trade_cal : "sid" \notin DOMAIN c
  PROVE  \A r \in Read(v, h, t, q).rows : "sid" \notin DOMAIN r
  <1>1. CASE q.route = "sessions"
    <2> DEFINE p == UpTo(q, DayOf(t) + 1)
               days == {c \in v.trade_cal : c.date <= DayOf(t) /\ InDates(p, c.date) /\ c.exchange = p.exchange}
               fetched == Fetch(v, {"trade_cal"}, FALSE, TRUE, days)
    <2>1. Read(v, h, t, q) = Calendar(v, h, t, q)
      BY <1>1 DEF Read
    <2>2. Calendar(v, h, t, q) = IF p.start < p.end THEN Tushare(p, Within(fetched)) ELSE Refused("invalid")
      BY DEF Calendar, Sessions
    <2>3. fetched.ok => fetched.rows = days
      <3> HIDE DEF days
      <3> QED
        BY FetchIs
    <2> HIDE DEF fetched, p
    <2>4. Read(v, h, t, q) = Tushare(p, Within(fetched))
      BY <2>1, <2>2, Refusing
    <2>5. Read(v, h, t, q) = fetched
      BY <2>4, TushareIs, WithinIs
    <2> QED
      BY <2>3, <2>5
  <1>2. CASE q.route = "previous_session"
    <2> DEFINE open == {c.date : c \in {x \in v.trade_cal : x.open /\ x.date < DayOf(t) /\ x.exchange = q.exchange}}
               days == {[date |-> d] : d \in {e \in open : \A f \in open : f <= e}}
               fetched == Fetch(v, {"trade_cal"}, FALSE, TRUE, days)
    <2>1. Read(v, h, t, q) = LastSession(v, h, t, q)
      BY <1>2 DEF Read
    <2>2. LastSession(v, h, t, q) = Tushare(q, fetched)
      BY DEF LastSession, PreviousSession
    <2>3. \A r \in days : "sid" \notin DOMAIN r
      OBVIOUS
    <2>4. fetched.ok => fetched.rows = days
      <3> HIDE DEF days
      <3> QED
        BY FetchIs
    <2> HIDE DEF fetched, days
    <2>5. Read(v, h, t, q) = fetched
      BY <2>1, <2>2, TushareIs
    <2> QED
      BY <2>3, <2>4, <2>5
  <1> QED
    BY <1>1, <1>2

\* A row shown beside its sid is shown under the code of the day.
LEMMA ResultInForce ==
  ASSUME NEW h, IsHistory(h), h # {}, NEW t, NEW answer, IsResult(h, t, answer), answer.ok, NEW s \in answer.rows
  PROVE  \E i \in h : i.code = s.code /\ InForce(i, s.sid, DayOf(t))
  <1>1. PICK rows : answer = Result(h, t, rows)
    BY DEF IsResult
  <1>2. PICK r \in rows.rows : IsShown(h, DayOf(t), r) /\ s = ShownAs(h, DayOf(t), r)
    BY <1>1, ResultIs
  <1>3. s.code = CodeAt(h, Sid(h, r.code), DayOf(t)) /\ s.sid = Sid(h, r.code)
    BY <1>2 DEF ShownAs, WithSid
  <1> QED
    BY <1>2, <1>3, CodeAtIs DEF IsShown

\* Whichever code names a security and whichever the source stored, the answers are the
\* same, and each row is shown under a code in force on the day of the view.
THEOREM CodesDoNotMatter == ReaderSpec => []AliasesAgree
  <1>1. world \in DOMAIN Worlds /\ ReaderTypeOK => AliasesAgree
    <2> SUFFICES ASSUME world \in DOMAIN Worlds, ReaderTypeOK, NEW code \in KnownCodes(History),
                        NEW t \in Instants, NEW q \in World.queries
                 PROVE  LET a == Answer(db, History, t, q)
                            aliases == Aliases(History, Sid(History, code))
                            renamed == [q EXCEPT !.symbols.codes = IF @ \cap aliases = {} THEN @ ELSE (@ \ aliases) \cup {code}]
                        IN /\ a = Answer(Relabelled(db, code), History, t, renamed)
                           /\ (a.ok /\ q.route \notin ForAccountOnly) =>
                                \A r \in a.rows : "sid" \in DOMAIN r =>
                                  \E i \in History : i.code = r.code /\ InForce(i, r.sid, DayOf(t))
      BY DEF AliasesAgree
    <2> DEFINE asked == Mapping(History, q)
               v == Views(db, History)
               a == Read(v, History, t, asked)
    <2>1. IsRequest(q) /\ IsHistory(History) /\ History # {}
      BY WorldsAssumption, HistoryIs DEF World, KnownCodes
    <2>2. Answer(Relabelled(db, code), History, t,
                 [q EXCEPT !.symbols.codes = IF @ \cap Aliases(History, Sid(History, code)) = {} THEN @
                                             ELSE (@ \ Aliases(History, Sid(History, code))) \cup {code}]) = a
      BY <2>1, RelabelledIs, RenamedIs DEF Answer
    <2>3. asked.route = q.route
      BY <2>1, MappingIs
    <2>4. ASSUME a.ok, q.route \notin ForAccountOnly, NEW r \in a.rows, "sid" \in DOMAIN r
          PROVE  \E i \in History : i.code = r.code /\ InForce(i, r.sid, DayOf(t))
      <3>1. CASE q.route \in {"sessions", "previous_session"}
        <4>1. v["trade_cal"] = db["trade_cal"]
          <5>1. "trade_cal" \in WithoutCodes \cap DOMAIN db
            BY DEF WithoutCodes, ReaderTypeOK, Tables, Key
          <5> QED
            BY <5>1, ViewsAre
        <4>2. \A c \in db["trade_cal"] : "sid" \notin DOMAIN c
          BY RowsAre DEF IsRow, Tables, Key
        <4> HIDE DEF v, asked
        <4> QED
          BY <2>3, <2>4, <3>1, <4>1, <4>2, CalendarWithoutSid
      <3>2. CASE q.route \notin {"sessions", "previous_session"}
        <4>1. asked.route \in Routes \ (ForAccountOnly \cup {"sessions", "previous_session"})
          BY <2>1, <2>3, <2>4, <3>2 DEF IsRequest
        <4> HIDE DEF v, asked
        <4>2. IsResult(History, t, a)
          BY <2>4, <4>1, ReadIsResult
        <4> HIDE DEF a
        <4> QED
          BY <2>1, <2>4, <4>2, ResultInForce
      <3> QED
        BY <3>1, <3>2
    <2>5. Answer(db, History, t, q) = a
      BY DEF Answer
    <2> HIDE DEF a
    <2> QED
      BY <2>2, <2>4, <2>5
  <1> QED
    BY <1>1, TypeHolds, PTL


-----------------------------------------------------------------------------
(* What the queries can see at an instant *)

\* The next session after a day has begun, by a calendar.
OpenedIn(calendar, day, t) == \E c \in calendar : c.open /\ c.date > day /\ At(c.date, PreOpen) <= t
Opened(v, day, t) == OpenedIn(v.trade_cal, day, t)

\* A suspension of today that has begun.
HasBegun(r, time) == IF r.intervals = {} THEN PreOpen <= time ELSE \E i \in r.intervals : i[1] <= time

\* What the query of a table asks of a row before it is chosen.
Shows(calendar, table, r, t) ==
  CASE table \in {"daily", "qmt_daily"} -> At(r.date, DailyReady) <= t
    [] table = "daily_basic" -> At(r.date, BasicReady) <= t
    [] table \in {"adj_factor", "stk_limit", "stock_st"} -> At(r.date, PreOpen) <= t
    [] table = "suspend_d" -> r.date = DayOf(t) /\ HasBegun(r, TimeOf(t))
    [] table \in {"suspend_ranges", "factor_ranges"} -> At(r.start, PreOpen) <= t
    [] table = "dividend_factors" -> At(r.ex, PreOpen) <= t
    [] table = "qmt_intraday" -> r.end <= t
    [] table = "qmt_ticks" -> r.received <= t
    [] table = "trade_cal" -> r.date <= DayOf(t)
    [] table = "moneyflow" -> OpenedIn(calendar, r.date, t)
    [] table = "income" -> r.f_ann # Missing /\ r.type \in {1, 4} /\ OpenedIn(calendar, r.f_ann, t)
    [] table \in {"fina_indicator", "forecast", "fina_audit"} -> r.ann # Missing /\ OpenedIn(calendar, r.ann, t)
    [] table = "dividend" -> VersionDate(r) # Missing /\ OpenedIn(calendar, VersionDate(r), t)
    [] table = "sw_industry" -> At(r.in, PreOpen) <= t /\ DayOf(t) < r.out
    [] table = "stock_basic" -> ListedAt(r, t)

\* What it makes of one: a class and a stock do not say when they end, nor a plan when it is paid.
Fact(r) == [r EXCEPT !.ex = DividendDate(r, r.ex)]
Class(r) == [code |-> r.code, in |-> r.in, value |-> r.value]
Listing(r) == [code |-> r.code, list |-> r.list]
Known(table, r) ==
  CASE table = "dividend" -> Fact(r) [] table = "sw_industry" -> Class(r) [] table = "stock_basic" -> Listing(r) [] OTHER -> r

Seen(v, table, t) == {Known(table, r) : r \in {x \in v[table] : Shows(v.trade_cal, table, x, t)}}

\* The open of a day is seen before the rest of its bar.
DayOpen(r) == [code |-> r.code, date |-> r.date, open |-> r.open]
Opens(v, t) == {DayOpen(r) : r \in {x \in v.daily : At(x.date, Open) <= t}}

\* Two sets of views that show the same at an instant.
Alike(v, w, t) ==
  /\ \A table \in Tables : Seen(v, table, t) = Seen(w, table, t)
  /\ Opens(v, t) = Opens(w, t)
  /\ v.unavailable = w.unavailable /\ v.checked = w.checked

LEMMA TablesAre ==
  Tables = {"daily", "adj_factor", "daily_basic", "moneyflow", "suspend_d", "stk_limit", "stock_st", "income", "fina_indicator",
            "forecast", "fina_audit", "dividend", "sw_industry", "stock_basic", "trade_cal", "suspend_ranges", "qmt_daily",
            "qmt_intraday", "qmt_ticks", "dividend_factors", "factor_ranges"}
  BY DEF Tables, Key

\* What the rows of views are: their days are numbers, the classes can be counted, and a
\* dividend has the fields of its versions.
Regular(v) ==
  /\ \A c \in v.trade_cal : c.date \in Nat
  /\ \A r \in v.qmt_daily \cup v.qmt_intraday : r.date \in Nat
  /\ \A g \in v.factor_ranges \cup v.suspend_ranges : g.start \in Nat
  /\ \A r \in v.suspend_d : r.date \in Nat /\ \A i \in r.intervals : i[1] \in Nat
  /\ IsFiniteSet(v.sw_industry)
  /\ \A r \in v.dividend : {"code", "end", "proc", "ann", "imp_ann", "ex", "value"} \subseteq DOMAIN r

\* An answer that stands: the same, or withheld for one of some reasons.
Stands(a, b, reasons) == a = b \/ \E why \in reasons : Refused(why) \in {a, b}

LEMMA ConflictIs ==
  ASSUME NEW v, NEW w, NEW t, Alike(v, w, t), NEW table, NEW reached
  PROVE  Conflict(v, table, reached) = Conflict(w, table, reached) /\ Conflict(v, table, reached) \in BOOLEAN
  BY DEF Conflict, Alike

\* Bars
LEMMA DailySame ==
  ASSUME NEW rows, NEW others, NEW t, NEW q, NEW symbols,
         {r \in rows : At(r.date, DailyReady) <= t} = {r \in others : At(r.date, DailyReady) <= t}
  PROVE  /\ Completed(rows, t, q) = Completed(others, t, q)
         /\ Daily(WantedOf(rows, symbols), t, q) = Daily(WantedOf(others, symbols), t, q)
  <1>1. Completed(rows, t, q) = Completed(others, t, q)
    BY DEF Completed
  <1>2. \A some : Completed(WantedOf(some, symbols), t, q) = WantedOf(Completed(some, t, q), symbols)
    BY DEF Completed, WantedOf
  <1>3. Completed(WantedOf(rows, symbols), t, q) = Completed(WantedOf(others, symbols), t, q)
    BY <1>1, <1>2
  <1> QED
    BY <1>1, <1>3 DEF Daily

LEMMA TushareForwardSame ==
  ASSUME NEW v, NEW w, NEW t, Alike(v, w, t), NEW raw, NEW k \in BOOLEAN
  PROVE  TushareForward(v, t, raw, k) = TushareForward(w, t, raw, k)
  <1> DEFINE OfDay(factors, r) == {f \in factors : f.code = r.code /\ f.date = r.date}
             Anchor(factors, code) == (CHOOSE f \in factors : f.code = code
                                         /\ \A g \in factors : g.code = code => g.date <= f.date).value
             Invalid(factors) == \E r \in raw : OfDay(factors, r) = {} \/ Anchor(factors, r.code) = 0
             Factor(factors, r) == (CHOOSE f \in OfDay(factors, r) : TRUE).value
             Adjusting(factors) == IF Invalid(factors) THEN {}
                              ELSE {Bar(r, <<r.value * Factor(factors, r), Anchor(factors, r.code)>>) : r \in raw}
             Refusal(x, factors) == k \/ Conflict(x, "adj_factor", factors)
             Got(x, factors) == AdjustedOr(Fetch(x, {"daily", "adj_factor"}, Refusal(x, factors), TRUE, Adjusting(factors)),
                                           Invalid(factors))
  <1>1. VisibleFactors(v.adj_factor, t) = VisibleFactors(w.adj_factor, t)
    BY TablesAre DEF VisibleFactors, Alike, Seen, Shows, Known
  <1>2. \A x : TushareForward(x, t, raw, k) = Got(x, VisibleFactors(x.adj_factor, t))
    BY DEF TushareForward
  <1>3. ASSUME NEW factors PROVE Got(v, factors) = Got(w, factors)
    <2> HIDE DEF Adjusting, Invalid
    <2>1. Refusal(v, factors) = Refusal(w, factors)
      BY ConflictIs
    <2> HIDE DEF Refusal
    <2>2. Fetch(v, {"daily", "adj_factor"}, Refusal(v, factors), TRUE, Adjusting(factors))
            = Fetch(w, {"daily", "adj_factor"}, Refusal(w, factors), TRUE, Adjusting(factors))
      BY <2>1 DEF Fetch, Alike
    <2> QED
      BY <2>2
  <1> HIDE DEF Got
  <1> QED
    BY <1>1, <1>2, <1>3

LEMMA TushareDailySame ==
  ASSUME NEW v, NEW w, NEW t, Alike(v, w, t), NEW q
  PROVE  TushareDaily(v, t, q) = TushareDaily(w, t, q)
  <1> DEFINE Days(x) == Daily(WantedOf(x.daily, q.symbols), t, q)
             Refusal(x) == Conflict(x, "daily", Completed(x.daily, t, q))
             Got(x, days, k) == LET raw == {DayBar(r) : r \in days}
                                IN IF q.forward THEN TushareForward(x, t, raw, k)
                                   ELSE Fetch(x, {"daily"}, k, TRUE, Raw(raw))
  <1>1. Days(v) = Days(w) /\ Completed(v.daily, t, q) = Completed(w.daily, t, q)
    BY DailySame, TablesAre DEF Alike, Seen, Shows, Known
  <1>2. \A x : TushareDaily(x, t, q) = Got(x, Days(x), Refusal(x))
    BY DEF TushareDaily
  <1>3. ASSUME NEW days, NEW k \in BOOLEAN PROVE Got(v, days, k) = Got(w, days, k)
    <2> DEFINE raw == {DayBar(r) : r \in days}
    <2>1. TushareForward(v, t, raw, k) = TushareForward(w, t, raw, k)
      BY TushareForwardSame
    <2>2. Fetch(v, {"daily"}, k, TRUE, Raw(raw)) = Fetch(w, {"daily"}, k, TRUE, Raw(raw))
      BY DEF Fetch, Alike
    <2> QED
      BY <2>1, <2>2
  <1>4. Refusal(v) = Refusal(w) /\ Refusal(v) \in BOOLEAN
    BY <1>1, ConflictIs
  <1> HIDE DEF Got, Days, Refusal
  <1> QED
    BY <1>1, <1>2, <1>3, <1>4

\* A bar is covered by a range that has begun by the last day of factors.
LEMMA SyncedSame ==
  ASSUME NEW v, NEW w, NEW t \in Nat, Alike(v, w, t), Regular(v), Regular(w), NEW code, NEW date \in Int
  PROVE  FactorsSynced(v.factor_ranges, code, date, FactorEnd(t)) = FactorsSynced(w.factor_ranges, code, date, FactorEnd(t))
  <1>1. FactorEnd(t) \in Int
    BY DEF FactorEnd, DayOf, TimeOf, Times
  <1>2. \A day \in Nat : day <= FactorEnd(t) => At(day, PreOpen) <= t
    BY DEF FactorEnd, DayOf, TimeOf, Times, At, PreOpen
  <1>3. \A x \in {v, w} : \A g \in x.factor_ranges :
          (date < FactorEnd(t) /\ g.start <= date + 1) => g \in {r \in x.factor_ranges : At(r.start, PreOpen) <= t}
    <2> SUFFICES ASSUME NEW x \in {v, w}, NEW g \in x.factor_ranges, date < FactorEnd(t), g.start <= date + 1
                 PROVE  g \in {r \in x.factor_ranges : At(r.start, PreOpen) <= t}
      OBVIOUS
    <2>1. g.start \in Nat
      BY DEF Regular
    <2>2. g.start <= FactorEnd(t)
      BY <1>1, <2>1
    <2> QED
      BY <1>2, <2>1, <2>2
  <1>4. {r \in v.factor_ranges : At(r.start, PreOpen) <= t} = {r \in w.factor_ranges : At(r.start, PreOpen) <= t}
    BY TablesAre DEF Alike, Seen, Shows, Known
  <1>5. \A x \in {v, w} : FactorsSynced(x.factor_ranges, code, date, FactorEnd(t)) <=>
          (date < FactorEnd(t) => \E g \in {r \in x.factor_ranges : At(r.start, PreOpen) <= t} :
                                    g.code = code /\ g.start <= date + 1 /\ FactorEnd(t) <= g.end)
    <2>1. \A x : {r \in x.factor_ranges : At(r.start, PreOpen) <= t} \subseteq x.factor_ranges
      OBVIOUS
    <2> QED
      BY <1>3, <2>1 DEF FactorsSynced
  <1>6. /\ FactorsSynced(v.factor_ranges, code, date, FactorEnd(t)) \in BOOLEAN
        /\ FactorsSynced(w.factor_ranges, code, date, FactorEnd(t)) \in BOOLEAN
    BY DEF FactorsSynced
  <1> QED
    BY <1>4, <1>5, <1>6

LEMMA QmtForwardSame ==
  ASSUME NEW v, NEW w, NEW t \in Nat, Alike(v, w, t), Regular(v), Regular(w), NEW raw, \A r \in raw : r.date \in Nat, NEW k \in BOOLEAN
  PROVE  QmtForward(v, t, raw, k) = QmtForward(w, t, raw, k)
  <1> DEFINE Applied(factors, r) == {f \in factors : f.code = r.code /\ r.date < f.ex}
             Divisors(x) == {f \in x.dividend_factors : f.ex <= FactorEnd(t) /\ At(f.ex, PreOpen) <= t}
             Refusal(x, factors) == k \/ Conflict(x, "dividend_factors", factors)
             Unsynced(x) == {r \in raw : ~FactorsSynced(x.factor_ranges, r.code, r.date, FactorEnd(t))}
             Invalid(factors, unsynced) == \E r \in raw : (\E f \in Applied(factors, r) : f.dr <= 0) \/ r \in unsynced
             Adjusting(factors) == {Bar(r, <<r.value, Compounded(Applied(factors, r))>>) : r \in raw}
             Got(x, factors, unsynced) ==
               AdjustedOr(Fetch(x, {}, Refusal(x, factors), TRUE, Adjusting(factors)), Invalid(factors, unsynced))
  <1>1. Divisors(v) = Divisors(w)
    <2>1. {f \in v.dividend_factors : At(f.ex, PreOpen) <= t} = {f \in w.dividend_factors : At(f.ex, PreOpen) <= t}
      BY TablesAre DEF Alike, Seen, Shows, Known
    <2> QED
      BY <2>1
  <1>2. Unsynced(v) = Unsynced(w)
    BY SyncedSame
  <1>3. \A x : QmtForward(x, t, raw, k) = Got(x, Divisors(x), Unsynced(x))
    <2> TAKE x
    <2> DEFINE invalid == \E r \in raw : \/ \E f \in Applied(Divisors(x), r) : f.dr <= 0
                                         \/ ~FactorsSynced(x.factor_ranges, r.code, r.date, FactorEnd(t))
    <2>1. QmtForward(x, t, raw, k)
            = AdjustedOr(Fetch(x, {}, Refusal(x, Divisors(x)), TRUE, Adjusting(Divisors(x))), invalid)
      BY DEF QmtForward
    <2>2. invalid = Invalid(Divisors(x), Unsynced(x))
      <3> HIDE DEF Applied, Divisors
      <3> QED
        OBVIOUS
    <2> HIDE DEF invalid, Refusal, Adjusting, Invalid, Divisors, Unsynced
    <2> QED
      BY <2>1, <2>2
  <1>4. ASSUME NEW factors, NEW unsynced PROVE Got(v, factors, unsynced) = Got(w, factors, unsynced)
    <2>1. Refusal(v, factors) = Refusal(w, factors)
      BY ConflictIs
    <2> HIDE DEF Refusal, Adjusting, Invalid
    <2>2. Fetch(v, {}, Refusal(v, factors), TRUE, Adjusting(factors))
            = Fetch(w, {}, Refusal(w, factors), TRUE, Adjusting(factors))
      BY <2>1 DEF Fetch, Alike
    <2> QED
      BY <2>2
  <1> HIDE DEF Got, Divisors, Unsynced
  <1> QED
    BY <1>1, <1>2, <1>3, <1>4

\* A raw bar of a day keeps its date.
LEMMA QmtDailySame ==
  ASSUME NEW v, NEW w, NEW t \in Nat, Alike(v, w, t), Regular(v), Regular(w), NEW q
  PROVE  QmtDaily(v, t, q) = QmtDaily(w, t, q)
  <1> DEFINE Some(x) == Unadjusted(x.qmt_daily)
             DayBars(x) == {DayBar(r) : r \in Daily(WantedOf(Some(x), q.symbols), t, q)}
             Refusal(x) == Conflict(x, "qmt_daily", Completed(Some(x), t, q))
             Got(x, raw, k) == IF q.forward THEN QmtForward(x, t, raw, k) ELSE Fetch(x, {}, k, TRUE, Raw(raw))
  <1>1. /\ Completed(Some(v), t, q) = Completed(Some(w), t, q)
        /\ Daily(WantedOf(Some(v), q.symbols), t, q) = Daily(WantedOf(Some(w), q.symbols), t, q)
    <2>1. {r \in v.qmt_daily : At(r.date, DailyReady) <= t} = {r \in w.qmt_daily : At(r.date, DailyReady) <= t}
      BY TablesAre DEF Alike, Seen, Shows, Known
    <2>2. {r \in Some(v) : At(r.date, DailyReady) <= t} = {r \in Some(w) : At(r.date, DailyReady) <= t}
      BY <2>1 DEF Unadjusted
    <2> HIDE DEF Some
    <2> QED
      BY <2>2, DailySame
  <1>2. DayBars(v) = DayBars(w)
    <2> HIDE DEF Some
    <2> QED
      BY <1>1
  <1>3. \A x : QmtDaily(x, t, q) = Got(x, DayBars(x), Refusal(x))
    BY DEF QmtDaily
  <1>4. \A b \in DayBars(v) : b.date \in Nat
    <2>1. Daily(WantedOf(Some(v), q.symbols), t, q) \subseteq Some(v)
      <3> HIDE DEF Some
      <3> QED
        BY DEF Daily, Recent, Completed, WantedOf
    <2>2. \A r \in Some(v) : r.date \in Nat
      BY DEF Regular, Unadjusted
    <2> HIDE DEF Some
    <2> QED
      BY <2>1, <2>2 DEF DayBar
  <1>5. ASSUME NEW k \in BOOLEAN PROVE Got(v, DayBars(v), k) = Got(w, DayBars(v), k)
    <2> HIDE DEF DayBars
    <2>1. QmtForward(v, t, DayBars(v), k) = QmtForward(w, t, DayBars(v), k)
      BY <1>4, QmtForwardSame
    <2>2. Fetch(v, {}, k, TRUE, Raw(DayBars(v))) = Fetch(w, {}, k, TRUE, Raw(DayBars(v)))
      BY DEF Fetch, Alike
    <2> QED
      BY <2>1, <2>2
  <1>6. Refusal(v) = Refusal(w) /\ Refusal(v) \in BOOLEAN
    <2> HIDE DEF Some
    <2> QED
      BY <1>1, ConflictIs
  <1> HIDE DEF Got, DayBars, Refusal
  <1> QED
    BY <1>2, <1>3, <1>5, <1>6

LEMMA QmtIntradaySame ==
  ASSUME NEW v, NEW w, NEW t \in Nat, Alike(v, w, t), Regular(v), Regular(w), NEW q
  PROVE  QmtIntraday(v, t, q) = QmtIntraday(w, t, q)
  <1> DEFINE Some(x) == Unadjusted(x.qmt_intraday)
             Of(x) == Intraday(WantedOf(Some(x), q.symbols), t, q)
             Refusal(x) == Conflict(x, "qmt_intraday", Ended(Some(x), t, q))
             Got(x, raw, k) == IF q.forward THEN QmtForward(x, t, raw, k) ELSE Fetch(x, {}, k, TRUE, Raw(raw))
  <1>1. Ended(Some(v), t, q) = Ended(Some(w), t, q)
    <2>1. {r \in v.qmt_intraday : r.end <= t} = {r \in w.qmt_intraday : r.end <= t}
      BY TablesAre DEF Alike, Seen, Shows, Known
    <2>2. {r \in Some(v) : r.end <= t} = {r \in Some(w) : r.end <= t}
      BY <2>1 DEF Unadjusted
    <2> HIDE DEF Some
    <2> QED
      BY <2>2 DEF Ended
  <1>2. Of(v) = Of(w)
    <2>1. \A some : Ended(WantedOf(some, q.symbols), t, q) = WantedOf(Ended(some, t, q), q.symbols)
      BY DEF Ended, WantedOf
    <2> HIDE DEF Some
    <2>2. Ended(WantedOf(Some(v), q.symbols), t, q) = Ended(WantedOf(Some(w), q.symbols), t, q)
      BY <1>1, <2>1
    <2> QED
      BY <2>2 DEF Intraday
  <1>3. \A x : QmtIntraday(x, t, q) = Got(x, Of(x), Refusal(x))
    BY DEF QmtIntraday
  <1>4. \A r \in Of(v) : r.date \in Nat
    <2>1. Of(v) \subseteq Some(v)
      <3> HIDE DEF Some
      <3> QED
        BY DEF Intraday, Recent, Ended, WantedOf
    <2>2. \A r \in Some(v) : r.date \in Nat
      BY DEF Regular, Unadjusted
    <2> HIDE DEF Of, Some
    <2> QED
      BY <2>1, <2>2
  <1>5. ASSUME NEW k \in BOOLEAN PROVE Got(v, Of(v), k) = Got(w, Of(v), k)
    <2> HIDE DEF Of
    <2>1. QmtForward(v, t, Of(v), k) = QmtForward(w, t, Of(v), k)
      BY <1>4, QmtForwardSame
    <2>2. Fetch(v, {}, k, TRUE, Raw(Of(v))) = Fetch(w, {}, k, TRUE, Raw(Of(v)))
      BY DEF Fetch, Alike
    <2> QED
      BY <2>1, <2>2
  <1>6. Refusal(v) = Refusal(w) /\ Refusal(v) \in BOOLEAN
    <2> HIDE DEF Some
    <2> QED
      BY <1>1, ConflictIs
  <1> HIDE DEF Got, Of, Refusal
  <1> QED
    BY <1>2, <1>3, <1>5, <1>6

\* The quote of the day: its open from 09:30, the rest once the bar is complete.
LEMMA TushareCurrentStands ==
  ASSUME NEW v, NEW w, NEW t \in Nat, Alike(v, w, t), NEW q
  PROVE  Stands(TushareCurrent(v, t, q), TushareCurrent(w, t, q), {"unavailable", "conflict"})
  <1> DEFINE today == DayOf(t)
             Quote(r, last) == [code |-> r.code, time |-> At(r.date, Open), open |-> r.open, last |-> last]
             Rows(x) == {r \in WantedOf(x.daily, q.symbols) : r.date = today /\ At(r.date, Open) <= t}
             Quotes(x) == {Quote(r, IF At(r.date, DailyReady) <= t THEN r.value ELSE Missing) : r \in Rows(x)}
             Refusal(x) == Conflict(x, "daily", {r \in x.daily : r.date = today /\ At(r.date, Open) <= t})
  <1>1. \A x : TushareCurrent(x, t, q) = Fetch(x, {"daily"}, Refusal(x), TRUE, Quotes(x))
    <2> TAKE x
    <2>1. Rows(x) = WantedOf({r \in x.daily : r.date = today /\ At(r.date, Open) <= t}, q.symbols)
      BY DEF WantedOf
    <2> HIDE DEF Rows
    <2> QED
      BY <2>1 DEF TushareCurrent
  <1>2. Quotes(v) = Quotes(w)
    <2>1. CASE At(today, DailyReady) <= t
      <3> DEFINE Of(rows) == {Quote(r, r.value) : r \in {x \in WantedOf(rows, q.symbols) : x.date = today}}
      <3>1. {r \in v.daily : At(r.date, DailyReady) <= t} = {r \in w.daily : At(r.date, DailyReady) <= t}
        BY TablesAre DEF Alike, Seen, Shows, Known
      <3>2. At(today, Open) <= t
        BY <2>1 DEF At, Open, DailyReady, Times, DayOf
      <3>3. \A x : Quotes(x) = Of({r \in x.daily : At(r.date, DailyReady) <= t})
        BY <2>1, <3>2 DEF WantedOf
      <3> HIDE DEF Quotes, Of
      <3> QED
        BY <3>1, <3>3
    <2>2. CASE ~(At(today, DailyReady) <= t)
      <3> DEFINE Of(opens) == {Quote(r, Missing) : r \in {x \in WantedOf(opens, q.symbols) : x.date = today}}
      <3>1. Opens(v, t) = Opens(w, t)
        BY DEF Alike
      <3>2. \A x : Quotes(x) = {Quote(r, Missing) : r \in Rows(x)}
        BY <2>2
      <3>3. ASSUME NEW x PROVE {Quote(r, Missing) : r \in Rows(x)} = Of(Opens(x, t))
        <4>1. \A r : Quote(DayOpen(r), Missing) = Quote(r, Missing)
          BY DEF DayOpen
        <4>2. \A r \in Rows(x) : DayOpen(r) \in WantedOf(Opens(x, t), q.symbols) /\ DayOpen(r).date = today
          BY DEF WantedOf, Opens, DayOpen
        <4>3. \A s \in WantedOf(Opens(x, t), q.symbols) : s.date = today
                => \E r \in Rows(x) : s = DayOpen(r)
          BY DEF WantedOf, Opens, DayOpen
        <4> HIDE DEF Quote, Rows
        <4> QED
          BY <4>1, <4>2, <4>3
      <3> HIDE DEF Quotes, Of, Rows
      <3> QED
        BY <3>1, <3>2, <3>3
    <2> QED
      BY <2>1, <2>2
  <1>3. Refusal(v) \in BOOLEAN /\ Refusal(w) \in BOOLEAN
    BY ConflictIs DEF Conflict
  <1> HIDE DEF Quotes, Refusal
  <1> QED
    BY <1>1, <1>2, <1>3 DEF Fetch, Alike, Stands

\* The queries whose rows are chosen from a set that two alike views share.
LEMMA QmtCurrentSame ==
  ASSUME NEW v, NEW w, NEW t, Alike(v, w, t), NEW q
  PROVE  QmtCurrent(v, t, q) = QmtCurrent(w, t, q)
  <1> DEFINE Rows(x) == {r \in WantedOf(x.qmt_ticks, q.symbols) : r.date = DayOf(t) /\ r.received <= t}
             Newer(r, s) == r.received > s.received \/ (r.received = s.received /\ r.seq > s.seq)
             Quotes(rows) == {[code |-> r.code, time |-> r.event, last |-> r.value] : r \in Recent(rows, 1, Newer)}
  <1>1. Rows(v) = Rows(w)
    <2>1. {r \in v.qmt_ticks : r.received <= t} = {r \in w.qmt_ticks : r.received <= t}
      BY TablesAre DEF Alike, Seen, Shows, Known
    <2> QED
      BY <2>1 DEF WantedOf
  <1>2. \A x : QmtCurrent(x, t, q) = Fetch(x, {}, FALSE, TRUE, Quotes(Rows(x)))
    BY DEF QmtCurrent
  <1> HIDE DEF Rows, Quotes
  <1>3. ASSUME NEW rows PROVE Fetch(v, {}, FALSE, TRUE, rows) = Fetch(w, {}, FALSE, TRUE, rows)
    BY DEF Fetch, Alike
  <1> QED
    BY <1>1, <1>2, <1>3

LEMMA DailyMetricsSame ==
  ASSUME NEW v, NEW w, NEW t, Alike(v, w, t), NEW q
  PROVE  DailyMetrics(v, t, q) = DailyMetrics(w, t, q)
  <1> DEFINE Rows(x) == {r \in x.daily_basic : InDates(q, r.date) /\ At(r.date, BasicReady) <= t}
             Shown(rows) == {Payload(r) : r \in WantedOf(rows, q.symbols)}
  <1>1. Rows(v) = Rows(w)
    <2>1. {r \in v.daily_basic : At(r.date, BasicReady) <= t} = {r \in w.daily_basic : At(r.date, BasicReady) <= t}
      BY TablesAre DEF Alike, Seen, Shows, Known
    <2> QED
      BY <2>1
  <1>2. \A x : DailyMetrics(x, t, q) = Fetch(x, {"daily_basic"}, Conflict(x, "daily_basic", Rows(x)), TRUE, Shown(Rows(x)))
    BY DEF DailyMetrics
  <1> HIDE DEF Rows, Shown
  <1>3. Conflict(v, "daily_basic", Rows(v)) = Conflict(w, "daily_basic", Rows(v))
    BY ConflictIs
  <1>4. ASSUME NEW k, NEW rows PROVE Fetch(v, {"daily_basic"}, k, TRUE, rows) = Fetch(w, {"daily_basic"}, k, TRUE, rows)
    BY DEF Fetch, Alike
  <1> QED
    BY <1>1, <1>2, <1>3, <1>4

LEMMA AdjustmentFactorsSame ==
  ASSUME NEW v, NEW w, NEW t, Alike(v, w, t), NEW q
  PROVE  AdjustmentFactors(v, t, q) = AdjustmentFactors(w, t, q)
  <1> DEFINE Rows(x) == {r \in x.adj_factor : InDates(q, r.date) /\ At(r.date, PreOpen) <= t}
             Shown(rows) == {Payload(r) : r \in WantedOf(rows, q.symbols)}
  <1>1. Rows(v) = Rows(w)
    <2>1. {r \in v.adj_factor : At(r.date, PreOpen) <= t} = {r \in w.adj_factor : At(r.date, PreOpen) <= t}
      BY TablesAre DEF Alike, Seen, Shows, Known
    <2> QED
      BY <2>1
  <1>2. \A x : AdjustmentFactors(x, t, q) = Fetch(x, {"adj_factor"}, Conflict(x, "adj_factor", Rows(x)), TRUE, Shown(Rows(x)))
    BY DEF AdjustmentFactors
  <1> HIDE DEF Rows, Shown
  <1>3. Conflict(v, "adj_factor", Rows(v)) = Conflict(w, "adj_factor", Rows(v))
    BY ConflictIs
  <1>4. ASSUME NEW k, NEW rows PROVE Fetch(v, {"adj_factor"}, k, TRUE, rows) = Fetch(w, {"adj_factor"}, k, TRUE, rows)
    BY DEF Fetch, Alike
  <1> QED
    BY <1>1, <1>2, <1>3, <1>4

LEMMA PriceLimitsSame ==
  ASSUME NEW v, NEW w, NEW t, Alike(v, w, t), NEW q
  PROVE  PriceLimits(v, t, q) = PriceLimits(w, t, q)
  <1> DEFINE Rows(x) == {r \in x.stk_limit : r.date = DayOf(t) /\ At(r.date, PreOpen) <= t}
             Of(r) == IF 0 < r.down /\ r.down <= r.up THEN "limited" ELSE "unknown"
             Shown(rows) == {[code |-> r.code, up |-> r.up, down |-> r.down, status |-> Of(r)] : r \in WantedOf(rows, q.symbols)}
  <1>1. Rows(v) = Rows(w)
    <2>1. {r \in v.stk_limit : At(r.date, PreOpen) <= t} = {r \in w.stk_limit : At(r.date, PreOpen) <= t}
      BY TablesAre DEF Alike, Seen, Shows, Known
    <2> QED
      BY <2>1
  <1>2. \A x : PriceLimits(x, t, q) = Fetch(x, {"stk_limit"}, Conflict(x, "stk_limit", Rows(x)), TRUE, Shown(Rows(x)))
    BY DEF PriceLimits
  <1> HIDE DEF Rows, Shown
  <1>3. Conflict(v, "stk_limit", Rows(v)) = Conflict(w, "stk_limit", Rows(v))
    BY ConflictIs
  <1>4. ASSUME NEW k, NEW rows PROVE Fetch(v, {"stk_limit"}, k, TRUE, rows) = Fetch(w, {"stk_limit"}, k, TRUE, rows)
    BY DEF Fetch, Alike
  <1> QED
    BY <1>1, <1>2, <1>3, <1>4

LEMMA StStatusSame ==
  ASSUME NEW v, NEW w, NEW t, Alike(v, w, t), NEW q
  PROVE  StStatus(v, t, q) = StStatus(w, t, q)
  <1> DEFINE Rows(x) == {r \in WantedOf(x.stock_st, q.symbols) : r.date = DayOf(t) /\ At(r.date, PreOpen) <= t}
             Newer(r, s) == r.type < s.type
             Shown(rows) == {[code |-> r.code, st |-> r.type] : r \in Recent(rows, 1, Newer)}
  <1>1. Rows(v) = Rows(w)
    <2>1. {r \in v.stock_st : At(r.date, PreOpen) <= t} = {r \in w.stock_st : At(r.date, PreOpen) <= t}
      BY TablesAre DEF Alike, Seen, Shows, Known
    <2> QED
      BY <2>1 DEF WantedOf
  <1>2. \A x : StStatus(x, t, q) = Fetch(x, {"stock_st"}, FALSE, TRUE, Shown(Rows(x)))
    BY DEF StStatus
  <1> HIDE DEF Rows, Shown
  <1>3. ASSUME NEW rows
        PROVE  Fetch(v, {"stock_st"}, FALSE, TRUE, rows)
                 = Fetch(w, {"stock_st"}, FALSE, TRUE, rows)
    BY DEF Fetch, Alike
  <1> QED
    BY <1>1, <1>2, <1>3

LEMMA ListedStocksStand ==
  ASSUME NEW v, NEW w, NEW t, Alike(v, w, t)
  PROVE  Stands(ListedStocks(v, t), ListedStocks(w, t), {"unavailable", "conflict"})
  <1> DEFINE Listings(x) == {Listing(r) : r \in {s \in x.stock_basic : ListedAt(s, t)}}
             Refusal(x) == Conflict(x, "stock_basic", x.stock_basic)
  <1>1. Listings(v) = Listings(w)
    BY TablesAre DEF Alike, Seen, Shows, Known
  <1>2. \A x : ListedStocks(x, t) = Fetch(x, {"stock_basic"}, Refusal(x), TRUE, Listings(x))
    BY DEF ListedStocks, Listing
  <1>3. Refusal(v) \in BOOLEAN /\ Refusal(w) \in BOOLEAN
    BY DEF Conflict
  <1> HIDE DEF Listings, Refusal
  <1> QED
    BY <1>1, <1>2, <1>3 DEF Fetch, Alike, Stands

LEMMA SessionsSame ==
  ASSUME NEW v, NEW w, NEW t, Alike(v, w, t), NEW q
  PROVE  Sessions(v, t, q) = Sessions(w, t, q)
  <1> DEFINE Rows(x) == {c \in x.trade_cal : c.date <= DayOf(t) /\ InDates(q, c.date) /\ c.exchange = q.exchange}
  <1>1. Rows(v) = Rows(w)
    <2>1. {c \in v.trade_cal : c.date <= DayOf(t)} = {c \in w.trade_cal : c.date <= DayOf(t)}
      BY TablesAre DEF Alike, Seen, Shows, Known
    <2> QED
      BY <2>1
  <1>2. \A x : Sessions(x, t, q) = Fetch(x, {"trade_cal"}, FALSE, TRUE, Rows(x))
    BY DEF Sessions
  <1> HIDE DEF Rows
  <1>3. ASSUME NEW rows
        PROVE  Fetch(v, {"trade_cal"}, FALSE, TRUE, rows)
                 = Fetch(w, {"trade_cal"}, FALSE, TRUE, rows)
    BY DEF Fetch, Alike
  <1> QED
    BY <1>1, <1>2, <1>3

LEMMA PreviousSessionSame ==
  ASSUME NEW v, NEW w, NEW t \in Nat, Alike(v, w, t), Regular(v), Regular(w), NEW q
  PROVE  PreviousSession(v, t, q) = PreviousSession(w, t, q)
  <1> DEFINE OpenDays(x) == {c.date : c \in {y \in x.trade_cal : y.open /\ y.date < DayOf(t) /\ y.exchange = q.exchange}}
             LastOf(days) == {[date |-> d] : d \in {e \in days : \A f \in days : f <= e}}
  <1>1. OpenDays(v) = OpenDays(w)
    <2>1. {c \in v.trade_cal : c.date <= DayOf(t)} = {c \in w.trade_cal : c.date <= DayOf(t)}
      BY TablesAre DEF Alike, Seen, Shows, Known
    <2>2. DayOf(t) \in Int
      BY DEF DayOf, Times
    <2>3. \A x \in {v, w} : {y \in x.trade_cal : y.open /\ y.date < DayOf(t) /\ y.exchange = q.exchange}
                  = {y \in {c \in x.trade_cal : c.date <= DayOf(t)} : y.open /\ y.date < DayOf(t) /\ y.exchange = q.exchange}
      BY <2>2 DEF Regular
    <2> QED
      BY <2>1, <2>3
  <1>2. \A x : PreviousSession(x, t, q) = Fetch(x, {"trade_cal"}, FALSE, TRUE, LastOf(OpenDays(x)))
    BY DEF PreviousSession
  <1> HIDE DEF OpenDays, LastOf
  <1>3. ASSUME NEW rows
        PROVE  Fetch(v, {"trade_cal"}, FALSE, TRUE, rows)
                 = Fetch(w, {"trade_cal"}, FALSE, TRUE, rows)
    BY DEF Fetch, Alike
  <1> QED
    BY <1>1, <1>2, <1>3

\* The class a symbol entered last, of those it has not left.
LEMMA LastIn ==
  ASSUME NEW rows, IsFiniteSet(rows)
  PROVE  {r \in rows : Cardinality({s \in rows : s.code = r.code /\ s.in > r.in}) < 1}
           = {r \in rows : \A s \in rows : s.code = r.code => ~(s.in > r.in)}
  <1> SUFFICES ASSUME NEW r \in rows
               PROVE  Cardinality({s \in rows : s.code = r.code /\ s.in > r.in}) < 1
                        <=> \A s \in rows : s.code = r.code => ~(s.in > r.in)
    OBVIOUS
  <1> DEFINE above == {s \in rows : s.code = r.code /\ s.in > r.in}
  <1>1. IsFiniteSet(above)
    BY FS_Subset
  <1>2. Cardinality(above) \in Nat /\ (Cardinality(above) = 0 <=> above = {})
    <2> HIDE DEF above
    <2> QED
      BY <1>1, FS_CardinalityType, FS_EmptySet
  <1>3. above = {} <=> \A s \in rows : s.code = r.code => ~(s.in > r.in)
    OBVIOUS
  <1> HIDE DEF above
  <1> QED
    BY <1>2, <1>3 DEF above

LEMMA IndustrySame ==
  ASSUME NEW v, NEW w, NEW t, Alike(v, w, t), Regular(v), Regular(w), NEW q
  PROVE  Industry(v, t, q) = Industry(w, t, q)
  <1> DEFINE Held(x) == {r \in x.sw_industry : At(r.in, PreOpen) <= t /\ DayOf(t) < r.out}
             Classes(x) == {Class(r) : r \in Held(x)}
             Rows(x) == {r \in WantedOf(x.sw_industry, q.symbols) : At(r.in, PreOpen) <= t /\ DayOf(t) < r.out}
             Top(x) == {r \in Rows(x) : Cardinality({s \in Rows(x) : s.code = r.code /\ s.in > r.in}) < 1}
             Shown(r) == [code |-> r.code, value |-> r.value]
             LastOf(rows) == {r \in rows : \A s \in rows : s.code = r.code => ~(s.in > r.in)}
             Wanted(rows) == {r \in rows : q.symbols.all \/ r.code \in q.symbols.codes}
             Fetched(x) == Fetch(x, {}, FALSE, TRUE, {Shown(r) : r \in Top(x)})
             Of(classes) == {Shown(r) : r \in LastOf(Wanted(classes))}
  <1>1. Classes(v) = Classes(w)
    BY TablesAre DEF Alike, Seen, Shows, Known
  <1>2. ASSUME NEW x, Regular(x) PROVE {Shown(r) : r \in Top(x)} = Of(Classes(x))
    <2>1. IsFiniteSet(Rows(x))
      BY <1>2, FS_Subset DEF WantedOf, Regular
    <2>2. Top(x) = LastOf(Rows(x))
      <3> HIDE DEF Rows
      <3> QED
        BY <2>1, LastIn
    <2>3. Rows(x) = Wanted(Held(x))
      BY DEF WantedOf
    <2>4. \A r : Class(r).code = r.code /\ Class(r).in = r.in /\ Shown(Class(r)) = Shown(r)
      BY DEF Class
    <2>6. Wanted(Classes(x)) = {Class(r) : r \in Wanted(Held(x))}
      <3> HIDE DEF Held
      <3> QED
        BY <2>4
    <2>7. \A rows : LastOf({Class(r) : r \in rows}) = {Class(r) : r \in LastOf(rows)}
      BY <2>4
    <2>8. \A rows : {Shown(r) : r \in {Class(s) : s \in rows}} = {Shown(r) : r \in rows}
      <3> HIDE DEF Shown
      <3> QED
        BY <2>4
    <2> HIDE DEF Top, Rows, Held, Classes, Shown, LastOf, Wanted
    <2>9. LastOf(Wanted(Classes(x))) = {Class(r) : r \in LastOf(Wanted(Held(x)))}
      BY <2>6, <2>7
    <2>10. Of(Classes(x)) = {Shown(r) : r \in LastOf(Wanted(Held(x)))}
      BY <2>8, <2>9
    <2> QED
      BY <2>2, <2>3, <2>10
  <1>3. \A x : Industry(x, t, q) = IF "sw_industry" \in x.unavailable \/ t < At(SupportedFrom, PreOpen)
                                   THEN Refused("unavailable") ELSE Fetched(x)
    BY DEF Industry, Recent
  <1> HIDE DEF Top, Rows, Shown, Of, Classes
  <1>4. ASSUME NEW rows PROVE Fetch(v, {}, FALSE, TRUE, rows) = Fetch(w, {}, FALSE, TRUE, rows)
    BY DEF Fetch, Alike
  <1>5. {Shown(r) : r \in Top(v)} = {Shown(r) : r \in Top(w)}
    BY <1>1, <1>2
  <1>6. v.unavailable = w.unavailable
    BY DEF Alike
  <1>7. Fetched(v) = Fetched(w)
    BY <1>4, <1>5
  <1> HIDE DEF Fetched
  <1> QED
    BY <1>3, <1>6, <1>7

\* Only what has begun decides whether a stock is suspended.
LEMMA BegunDecides ==
  ASSUME NEW rows, NEW time, NEW default
  PROVE  SuspensionStatus(rows, time, default) = SuspensionStatus({r \in rows : HasBegun(r, time)}, time, default)
  <1> DEFINE some == {r \in rows : HasBegun(r, time)}
             Begun(x) == {e \in Events(x, time) : e.start <= time}
             Underway(x) == \E r \in x : r.type = "S" /\ \E i \in r.intervals : i[1] <= time /\ time < i[2]
             LastStates(begun) == {e.state : e \in {x \in begun : \A y \in begun : y.start <= x.start}}
             Of(underway, begun) == IF underway THEN "suspended"
                                    ELSE IF begun = {} THEN default
                                    ELSE IF Cardinality(LastStates(begun)) = 1 THEN CHOOSE s \in LastStates(begun) : TRUE ELSE "unknown"
  <1>1. Underway(rows) <=> Underway(some)
    BY DEF HasBegun
  <1>2. Begun(rows) = Begun(some)
    <2> DEFINE State(r, still) == IF r.type = "S" /\ still THEN "suspended"
                                  ELSE IF r.type \in {"S", "R"} THEN "trading" ELSE "unknown"
               EventsOf(r) == IF r.intervals = {} THEN {[start |-> PreOpen, state |-> State(r, TRUE)]}
                              ELSE {[start |-> i[1], state |-> State(r, time < i[2])] : i \in r.intervals}
    <2>1. \A x : Events(x, time) = UNION {EventsOf(r) : r \in x}
      BY DEF Events
    <2>2. ASSUME NEW r \in rows, NEW e \in EventsOf(r), e.start <= time PROVE HasBegun(r, time)
      <3> HIDE DEF State
      <3>1. CASE r.intervals = {}
        BY <2>2, <3>1 DEF HasBegun
      <3>2. CASE r.intervals # {}
        <4>1. PICK i \in r.intervals : e = [start |-> i[1], state |-> State(r, time < i[2])]
          BY <3>2
        <4>2. e.start = i[1]
          BY <4>1
        <4> QED
          BY <2>2, <3>2, <4>2 DEF HasBegun
      <3> QED
        BY <3>1, <3>2
    <2> HIDE DEF EventsOf
    <2> QED
      BY <2>1, <2>2
  <1>3. \A x : SuspensionStatus(x, time, default) = Of(Underway(x), Begun(x))
    BY DEF SuspensionStatus
  <1> HIDE DEF Of, Begun, Underway
  <1>4. Underway(rows) \in BOOLEAN /\ Underway(some) \in BOOLEAN
    BY DEF Underway
  <1> QED
    BY <1>1, <1>2, <1>3, <1>4

LEMMA DefaultSame ==
  ASSUME NEW v, NEW w, NEW t \in Nat, Alike(v, w, t), Regular(v), Regular(w)
  PROVE  DefaultState(v, t) = DefaultState(w, t)
  <1>1. {r \in v.suspend_ranges : At(r.start, PreOpen) <= t} = {r \in w.suspend_ranges : At(r.start, PreOpen) <= t}
    BY TablesAre DEF Alike, Seen, Shows, Known
  <1>2. ASSUME NEW x, Regular(x), TimeOf(t) >= PreOpen
        PROVE  (\E g \in x.suspend_ranges : g.start <= DayOf(t) /\ DayOf(t) <= g.end)
                 <=> \E g \in {r \in x.suspend_ranges : At(r.start, PreOpen) <= t} : g.start <= DayOf(t) /\ DayOf(t) <= g.end
    <2>1. \A day \in Nat : day <= DayOf(t) => At(day, PreOpen) <= t
      BY <1>2 DEF DayOf, TimeOf, Times, At, PreOpen
    <2> QED
      BY <1>2, <2>1 DEF Regular
  <1> QED
    BY <1>1, <1>2 DEF DefaultState

LEMMA SuspensionsSame ==
  ASSUME NEW v, NEW w, NEW t \in Nat, Alike(v, w, t), Regular(v), Regular(w), NEW q, ~q.symbols.all
  PROVE  Suspensions(v, t, q) = Suspensions(w, t, q)
  <1> DEFINE Rows(x) == {r \in x.suspend_d : r.date = DayOf(t)}
             Begun(x) == {r \in x.suspend_d : r.date = DayOf(t) /\ HasBegun(r, TimeOf(t))}
             OfCode(rows, c) == {r \in rows : r.code = c}
             StateOf(rows, default, c) == [code |-> c, suspended |-> SuspensionStatus(OfCode(rows, c), TimeOf(t), default)]
             States(rows, default) == {StateOf(rows, default, c) : c \in q.symbols.codes}
             Fetched(x) == Fetch(x, {"suspend_d"}, FALSE, TRUE, States(Rows(x), DefaultState(x, t)))
  <1>1. Begun(v) = Begun(w)
    BY TablesAre DEF Alike, Seen, Shows, Known
  <1>2. DefaultState(v, t) = DefaultState(w, t)
    BY DefaultSame
  <1>3. \A x, default, c : StateOf(Rows(x), default, c) = StateOf(Begun(x), default, c)
    <2> TAKE x, default, c
    <2>1. {r \in OfCode(Rows(x), c) : HasBegun(r, TimeOf(t))} = OfCode(Begun(x), c)
      OBVIOUS
    <2>2. {r \in OfCode(Begun(x), c) : HasBegun(r, TimeOf(t))} = OfCode(Begun(x), c)
      OBVIOUS
    <2> HIDE DEF OfCode, Rows, Begun
    <2> QED
      BY <2>1, <2>2, BegunDecides
  <1>4. \A x, default : States(Rows(x), default) = States(Begun(x), default)
    <2> HIDE DEF StateOf, Rows, Begun
    <2> QED
      BY <1>3
  <1>5. \A x : Suspensions(x, t, q) = Fetched(x)
    BY DEF Suspensions
  <1> HIDE DEF States, Rows, Begun
  <1>6. ASSUME NEW rows
        PROVE  Fetch(v, {"suspend_d"}, FALSE, TRUE, rows)
                 = Fetch(w, {"suspend_d"}, FALSE, TRUE, rows)
    BY DEF Fetch, Alike
  <1>7. Fetched(v) = Fetched(w)
    BY <1>1, <1>2, <1>4, <1>6
  <1> HIDE DEF Fetched
  <1> QED
    BY <1>5, <1>7

\* The next session of a day, if it has begun, is the same in alike views.
LEMMA OpenedIs ==
  ASSUME NEW v, NEW t \in Nat, Regular(v), NEW day
  PROVE  Opened(v, day, t) <=> \E d \in OpenAfter(v, day) : d <= DayOf(t) /\ At(d, PreOpen) <= t
  <1>1. \A d \in Nat : At(d, PreOpen) <= t => d <= DayOf(t)
    BY DEF DayOf, Times, At, PreOpen
  <1>2. \A c \in v.trade_cal : c.date \in Nat
    BY DEF Regular
  <1> QED
    BY <1>1, <1>2 DEF Opened, OpenedIn, OpenAfter

LEMMA OpenDaysSame ==
  ASSUME NEW v, NEW w, NEW t \in Nat, Alike(v, w, t), NEW day
  PROVE  {d \in OpenAfter(v, day) : d <= DayOf(t)} = {d \in OpenAfter(w, day) : d <= DayOf(t)}
  <1>1. {c \in v.trade_cal : c.date <= DayOf(t)} = {c \in w.trade_cal : c.date <= DayOf(t)}
    BY TablesAre DEF Alike, Seen, Shows, Known
  <1>2. \A x : {d \in OpenAfter(x, day) : d <= DayOf(t)}
                 = {c.date : c \in {y \in {z \in x.trade_cal : z.date <= DayOf(t)} : y.open /\ y.date > day}}
    BY DEF OpenAfter
  <1> QED
    BY <1>1, <1>2

LEMMA OpenedSame ==
  ASSUME NEW v, NEW w, NEW t \in Nat, Alike(v, w, t), Regular(v), Regular(w), NEW day
  PROVE  Opened(v, day, t) <=> Opened(w, day, t)
  BY OpenedIs, OpenDaysSame

LEMMA SessionIs ==
  ASSUME NEW v, NEW t \in Nat, Regular(v), NEW day, OpenAfter(v, day) # {}
  PROVE  NextSessionAt(v, day) <= t <=> Opened(v, day, t)
  <1>1. OpenAfter(v, day) \in SUBSET Nat
    BY DEF OpenAfter, Regular
  <1>2. Min(OpenAfter(v, day)) \in OpenAfter(v, day) /\ \A d \in OpenAfter(v, day) : Min(OpenAfter(v, day)) <= d
    BY <1>1, LeastIs
  <1>3. \A d, e \in Nat : d <= e /\ At(e, PreOpen) <= t => At(d, PreOpen) <= t
    BY DEF At, PreOpen, Times
  <1>4. \A d \in Nat : At(d, PreOpen) <= t => d <= DayOf(t)
    BY DEF DayOf, Times, At, PreOpen
  <1> QED
    BY <1>1, <1>2, <1>3, <1>4, OpenedIs DEF NextSessionAt

LEMMA SessionSame ==
  ASSUME NEW v, NEW w, NEW t \in Nat, Alike(v, w, t), Regular(v), Regular(w), NEW day,
         OpenAfter(v, day) # {}, OpenAfter(w, day) # {}, Opened(v, day, t)
  PROVE  NextSessionAt(v, day) = NextSessionAt(w, day)
  <1> DEFINE m == Min(OpenAfter(v, day))
             n == Min(OpenAfter(w, day))
  <1>1. OpenAfter(v, day) \in SUBSET Nat /\ OpenAfter(w, day) \in SUBSET Nat
    BY DEF OpenAfter, Regular
  <1>2. /\ m \in OpenAfter(v, day) /\ \A d \in OpenAfter(v, day) : m <= d
        /\ n \in OpenAfter(w, day) /\ \A d \in OpenAfter(w, day) : n <= d
    BY <1>1, LeastIs
  <1>3. PICK d \in OpenAfter(v, day) : d <= DayOf(t)
    BY OpenedIs
  <1>4. PICK e \in OpenAfter(w, day) : e <= DayOf(t)
    BY <1>3, OpenDaysSame
  <1>5. DayOf(t) \in Int
    BY DEF DayOf, Times
  <1> HIDE DEF m, n
  <1>6. m <= DayOf(t) /\ n <= DayOf(t)
    BY <1>1, <1>2, <1>3, <1>4, <1>5
  <1>7. m \in OpenAfter(w, day) /\ n \in OpenAfter(v, day)
    BY <1>2, <1>6, OpenDaysSame
  <1>8. m = n
    BY <1>1, <1>2, <1>7
  <1> QED
    BY <1>8 DEF NextSessionAt, m, n

LEMMA MoneyflowStands ==
  ASSUME NEW v, NEW w, NEW t \in Nat, Alike(v, w, t), Regular(v), Regular(w), NEW q
  PROVE  Stands(Moneyflow(v, t, q), Moneyflow(w, t, q), {"unavailable", "conflict"})
  <1> DEFINE Rows(x) == {r \in WantedOf(x.moneyflow, q.symbols) : InDates(q, r.date)}
             Days(x) == {r.date : r \in Rows(x)}
             Begun(x) == {r \in Rows(x) : NextSessionAt(x, r.date) <= t}
             Shown(x) == {Payload(r) : r \in Begun(x)}
             Visible(x) == {r \in x.moneyflow : Opened(x, r.date, t)}
             Refusal(x) == Conflict(x, "moneyflow", {r \in x.moneyflow : InDates(q, r.date)})
  <1>1. Visible(v) = Visible(w)
    BY TablesAre DEF Alike, Seen, Shows, Known, Opened
  <1>2. ASSUME NEW x \in {v, w}, Covered(x, Days(x))
        PROVE  Begun(x) = {r \in WantedOf(Visible(x), q.symbols) : InDates(q, r.date)}
    <2>1. \A r \in Rows(x) : OpenAfter(x, r.date) # {}
      BY <1>2 DEF Covered
    <2>2. \A r \in Rows(x) : NextSessionAt(x, r.date) <= t <=> Opened(x, r.date, t)
      BY <2>1, SessionIs
    <2> QED
      BY <2>2 DEF WantedOf
  <1>3. \A x : Moneyflow(x, t, q) = Fetch(x, {"moneyflow"}, Refusal(x), Covered(x, Days(x)), Shown(x))
    <2> TAKE x
    <2>1. Rows(x) = WantedOf({r \in x.moneyflow : InDates(q, r.date)}, q.symbols)
      BY DEF WantedOf
    <2> HIDE DEF Rows
    <2> QED
      BY <2>1 DEF Moneyflow
  <1> HIDE DEF Days, Visible, Begun
  <1>4. Covered(v, Days(v)) /\ Covered(w, Days(w)) => Shown(v) = Shown(w)
    BY <1>1, <1>2
  <1>5. /\ Covered(v, Days(v)) \in BOOLEAN /\ Covered(w, Days(w)) \in BOOLEAN
        /\ Refusal(v) \in BOOLEAN /\ Refusal(w) \in BOOLEAN
    BY DEF Covered, Conflict
  <1> HIDE DEF Shown, Refusal
  <1> QED
    BY <1>3, <1>4, <1>5 DEF Fetch, Alike, Stands

\* The reports and announcements that a session has made known.
LEMMA StatementsStand ==
  ASSUME NEW v, NEW w, NEW t \in Nat, Alike(v, w, t), Regular(v), Regular(w), NEW q
  PROVE  Stands(Statements(v, t, q), Statements(w, t, q), {"unavailable"})
  <1> DEFINE Rows(x) == {r \in WantedOf(x.income, q.symbols) : r.f_ann # Missing /\ r.type \in {1, 4} /\ InReports(q, r.end)}
             Days(x) == {r.f_ann : r \in Rows(x)}
             Begun(x) == {r \in Rows(x) : NextSessionAt(x, r.f_ann) <= t}
             Chosen(rows) == LET latest == Latest(rows, SameStatement, StatementRank)
                             IN {y \in latest : InPeriods(latest, q, y) /\ (q.comp = Missing \/ y.comp = q.comp)}
             Row(x, r) == [code |-> r.code, end |-> r.end, visible |-> NextSessionAt(x, r.f_ann), f_ann |-> r.f_ann,
                           comp |-> r.comp, value |-> r.value]
             Shown(x) == {Row(x, r) : r \in Chosen(Begun(x))}
             Visible(x) == {r \in x.income : r.f_ann # Missing /\ r.type \in {1, 4} /\ Opened(x, r.f_ann, t)}
  <1>1. Visible(v) = Visible(w)
    BY TablesAre DEF Alike, Seen, Shows, Known, Opened
  <1>2. ASSUME NEW x \in {v, w}, Covered(x, Days(x))
        PROVE  /\ Begun(x) = {r \in WantedOf(Visible(x), q.symbols) : InReports(q, r.end)}
               /\ \A r \in Begun(x) : OpenAfter(x, r.f_ann) # {} /\ Opened(x, r.f_ann, t)
    <2>1. \A r \in Rows(x) : OpenAfter(x, r.f_ann) # {}
      BY <1>2 DEF Covered
    <2>2. \A r \in Rows(x) : NextSessionAt(x, r.f_ann) <= t <=> Opened(x, r.f_ann, t)
      BY <2>1, SessionIs
    <2> QED
      BY <2>1, <2>2 DEF WantedOf
  <1>3. \A x : Statements(x, t, q) = Fetch(x, {"income"}, FALSE, Covered(x, Days(x)), Shown(x))
    BY DEF Statements, LatestStatements
  <1>4. \A rows : Chosen(rows) \subseteq rows
    BY DEF Latest
  <1> HIDE DEF Days, Visible, Begun, Chosen
  <1>5. Covered(v, Days(v)) /\ Covered(w, Days(w)) => Shown(v) = Shown(w)
    <2> SUFFICES ASSUME Covered(v, Days(v)), Covered(w, Days(w)) PROVE Shown(v) = Shown(w)
      OBVIOUS
    <2>1. Begun(v) = Begun(w)
      BY <1>1, <1>2
    <2>2. \A r \in Begun(v) : NextSessionAt(v, r.f_ann) = NextSessionAt(w, r.f_ann)
      BY <1>2, <2>1, SessionSame
    <2>3. \A r \in Begun(v) : Row(v, r) = Row(w, r)
      BY <2>2
    <2> HIDE DEF Row
    <2> QED
      BY <1>4, <2>1, <2>3
  <1>6. Covered(v, Days(v)) \in BOOLEAN /\ Covered(w, Days(w)) \in BOOLEAN
    BY DEF Covered
  <1> HIDE DEF Shown
  <1> QED
    BY <1>3, <1>5, <1>6 DEF Fetch, Alike, Stands

LEMMA IndicatorsStand ==
  ASSUME NEW v, NEW w, NEW t \in Nat, Alike(v, w, t), Regular(v), Regular(w), NEW q
  PROVE  Stands(Indicators(v, t, q), Indicators(w, t, q), {"unavailable"})
  <1> DEFINE Rows(x) == {r \in WantedOf(x.fina_indicator, q.symbols) : r.ann # Missing /\ InReports(q, r.end)}
             Days(x) == {r.ann : r \in Rows(x)}
             Begun(x) == {r \in Rows(x) : NextSessionAt(x, r.ann) <= t}
             Chosen(rows) == LET latest == Latest(rows, SameReport, AnnouncementRank)
                             IN {y \in latest : InPeriods(latest, q, y)}
             Shown(x) == {Announced(x, r) : r \in Chosen(Begun(x))}
             Visible(x) == {r \in x.fina_indicator : r.ann # Missing /\ Opened(x, r.ann, t)}
  <1>1. Visible(v) = Visible(w)
    BY TablesAre DEF Alike, Seen, Shows, Known, Opened
  <1>2. ASSUME NEW x \in {v, w}, Covered(x, Days(x))
        PROVE  /\ Begun(x) = {r \in WantedOf(Visible(x), q.symbols) : InReports(q, r.end)}
               /\ \A r \in Begun(x) : OpenAfter(x, r.ann) # {} /\ Opened(x, r.ann, t)
    <2>1. \A r \in Rows(x) : OpenAfter(x, r.ann) # {}
      BY <1>2 DEF Covered
    <2>2. \A r \in Rows(x) : NextSessionAt(x, r.ann) <= t <=> Opened(x, r.ann, t)
      BY <2>1, SessionIs
    <2> QED
      BY <2>1, <2>2 DEF WantedOf
  <1>3. \A x : Indicators(x, t, q) = Fetch(x, {"fina_indicator"}, FALSE, Covered(x, Days(x)), Shown(x))
    BY DEF Indicators
  <1>4. \A rows : Chosen(rows) \subseteq rows
    BY DEF Latest
  <1> HIDE DEF Days, Visible, Begun, Chosen
  <1>5. Covered(v, Days(v)) /\ Covered(w, Days(w)) => Shown(v) = Shown(w)
    <2> SUFFICES ASSUME Covered(v, Days(v)), Covered(w, Days(w)) PROVE Shown(v) = Shown(w)
      OBVIOUS
    <2>1. Begun(v) = Begun(w)
      BY <1>1, <1>2
    <2>2. \A r \in Begun(v) : NextSessionAt(v, r.ann) = NextSessionAt(w, r.ann)
      BY <1>2, <2>1, SessionSame
    <2>3. \A r \in Begun(v) : Announced(v, r) = Announced(w, r)
      BY <2>2 DEF Announced
    <2> QED
      BY <1>4, <2>1, <2>3
  <1>6. Covered(v, Days(v)) \in BOOLEAN /\ Covered(w, Days(w)) \in BOOLEAN
    BY DEF Covered
  <1> HIDE DEF Shown
  <1> QED
    BY <1>3, <1>5, <1>6 DEF Fetch, Alike, Stands

LEMMA DisclosuresStand ==
  ASSUME NEW v, NEW w, NEW t \in Nat, Alike(v, w, t), Regular(v), Regular(w), NEW q, q.kind \in {"forecast", "fina_audit"}
  PROVE  Stands(Disclosures(v, t, q), Disclosures(w, t, q), {"unavailable"})
  <1> DEFINE Rows(x) == {r \in WantedOf(x[q.kind], q.symbols) : r.ann # Missing}
             Days(x) == {r.ann : r \in Rows(x)}
             InRange(at) == q.start <= at /\ at <= q.end
             Rank(r) == IF q.kind = "fina_audit" THEN <<r.ann>> ELSE AnnouncementRank(r)
             Begun(x) == {r \in Rows(x) : NextSessionAt(x, r.ann) <= t /\ InRange(NextSessionAt(x, r.ann))}
             Chosen(rows) == {r \in rows : \A s \in rows : SameReport(r, s) => ~Before(Rank(r), Rank(s))}
             Shown(x) == {Announced(x, r) : r \in Chosen(Begun(x))}
             Visible(x) == {r \in x[q.kind] : r.ann # Missing /\ Opened(x, r.ann, t)}
  <1>1. Visible(v) = Visible(w)
    BY TablesAre DEF Alike, Seen, Shows, Known, Opened
  <1>2. ASSUME NEW x \in {v, w}, Covered(x, Days(x))
        PROVE  /\ Begun(x) = {r \in WantedOf(Visible(x), q.symbols) : InRange(NextSessionAt(x, r.ann))}
               /\ \A r \in WantedOf(Visible(x), q.symbols) : OpenAfter(x, r.ann) # {} /\ Opened(x, r.ann, t)
    <2>1. \A r \in Rows(x) : OpenAfter(x, r.ann) # {}
      BY <1>2 DEF Covered
    <2>2. \A r \in Rows(x) : NextSessionAt(x, r.ann) <= t <=> Opened(x, r.ann, t)
      BY <2>1, SessionIs
    <2> HIDE DEF InRange
    <2> QED
      BY <2>1, <2>2 DEF WantedOf
  <1>3. \A x : Disclosures(x, t, q) = Fetch(x, {q.kind}, FALSE, Covered(x, Days(x)), Shown(x))
    BY DEF Disclosures, Latest
  <1>4. \A rows : Chosen(rows) \subseteq rows
    OBVIOUS
  <1> HIDE DEF Days, Visible, Begun, Chosen, InRange
  <1>5. Covered(v, Days(v)) /\ Covered(w, Days(w)) => Shown(v) = Shown(w)
    <2> SUFFICES ASSUME Covered(v, Days(v)), Covered(w, Days(w)) PROVE Shown(v) = Shown(w)
      OBVIOUS
    <2>1. \A r \in WantedOf(Visible(v), q.symbols) : NextSessionAt(v, r.ann) = NextSessionAt(w, r.ann)
      BY <1>1, <1>2, SessionSame
    <2>2. Begun(v) = Begun(w)
      BY <1>1, <1>2, <2>1
    <2>3. \A r \in Begun(v) : Announced(v, r) = Announced(w, r)
      BY <1>2, <2>1 DEF Announced
    <2> QED
      BY <1>4, <2>2, <2>3
  <1>6. Covered(v, Days(v)) \in BOOLEAN /\ Covered(w, Days(w)) \in BOOLEAN
    BY DEF Covered
  <1> HIDE DEF Shown
  <1> QED
    BY <1>3, <1>5, <1>6 DEF Fetch, Alike, Stands

LEMMA DividendsStand ==
  ASSUME NEW v, NEW w, NEW t \in Nat, Alike(v, w, t), Regular(v), Regular(w), NEW q
  PROVE  Stands(Dividends(v, t, q), Dividends(w, t, q), {"unavailable"})
  <1> DEFINE Row(x, r) == [code |-> r.code, visible |-> NextSessionAt(x, VersionDate(r)), end |-> r.end, proc |-> r.proc,
                           ann |-> r.ann, ex |-> DividendDate(r, r.ex), imp_ann |-> DividendDate(r, r.imp_ann), value |-> r.value]
             InRange(at) == q.start <= at /\ at <= q.end
             Past(r) == (q.symbols.all \/ r.code \in q.symbols.codes) /\ VersionDate(r) # Missing /\ VersionDate(r) < DayOf(t)
             Rows(x) == {r \in WantedOf(x.dividend, q.symbols) : VersionDate(r) # Missing /\ VersionDate(r) < DayOf(t)}
             Days(x) == {VersionDate(r) : r \in Rows(x)}
             InTime(x, r) == NextSessionAt(x, VersionDate(r)) <= t /\ InRange(NextSessionAt(x, VersionDate(r)))
             Shown(x) == {Row(x, r) : r \in {y \in Rows(x) : InTime(x, y)}}
             Versions(x) == {r \in x.dividend : VersionDate(r) # Missing /\ Opened(x, VersionDate(r), t)}
             Visible(x) == {Fact(r) : r \in Versions(x)}
             Of(x, facts) == {Row(x, r) : r \in {y \in facts : Past(y) /\ InRange(NextSessionAt(x, VersionDate(y)))}}
  <1>1. Visible(v) = Visible(w)
    BY TablesAre DEF Alike, Seen, Shows, Known, Opened
  <1>2. ASSUME NEW x \in {v, w}, NEW r \in x.dividend
        PROVE  /\ VersionDate(Fact(r)) = VersionDate(r) /\ (Past(Fact(r)) <=> Past(r))
               /\ \A y : Row(y, Fact(r)) = Row(y, r)
    <2>1. {"code", "end", "proc", "ann", "imp_ann", "ex", "value"} \subseteq DOMAIN r
      BY DEF Regular
    <2>2. /\ Fact(r).code = r.code /\ Fact(r).end = r.end /\ Fact(r).proc = r.proc /\ Fact(r).ann = r.ann
          /\ Fact(r).imp_ann = r.imp_ann /\ Fact(r).value = r.value /\ Fact(r).ex = DividendDate(r, r.ex)
      BY <2>1 DEF Fact
    <2>3. Implemented(Fact(r)) <=> Implemented(r)
      BY <2>2 DEF Implemented
    <2>4. VersionDate(Fact(r)) = VersionDate(r)
      BY <2>2, <2>3 DEF VersionDate
    <2>5. DividendDate(Fact(r), Fact(r).ex)
            = DividendDate(r, r.ex) /\ DividendDate(Fact(r), Fact(r).imp_ann) = DividendDate(r, r.imp_ann)
      BY <2>2, <2>3 DEF DividendDate
    <2> HIDE DEF Fact
    <2> QED
      BY <2>2, <2>4, <2>5
  <1>3. ASSUME NEW x \in {v, w}, Covered(x, Days(x))
        PROVE  /\ Shown(x) = Of(x, Visible(x))
               /\ \A f \in Visible(x) : Past(f) => OpenAfter(x, VersionDate(f)) # {} /\ Opened(x, VersionDate(f), t)
    <2>1. \A r : r \in Rows(x) <=> r \in x.dividend /\ Past(r)
      BY DEF WantedOf
    <2>2. \A r \in Rows(x) : OpenAfter(x, VersionDate(r)) # {}
      BY <1>3 DEF Covered
    <2>3. \A r \in Rows(x) : NextSessionAt(x, VersionDate(r)) <= t <=> Opened(x, VersionDate(r), t)
      BY <2>2, SessionIs
    <2>4. \A r \in Rows(x) : VersionDate(r) # Missing
      OBVIOUS
    <2> HIDE DEF Rows, Past, Row, InRange
    <2>5. \A f \in Visible(x) : Past(f) => OpenAfter(x, VersionDate(f)) # {} /\ Opened(x, VersionDate(f), t)
      BY <1>2, <2>1, <2>2
    <2>6. \A r \in Rows(x) : InTime(x, r) =>
            /\ Fact(r) \in Visible(x) /\ Past(Fact(r)) /\ InRange(NextSessionAt(x, VersionDate(Fact(r))))
            /\ Row(x, Fact(r)) = Row(x, r)
      BY <1>2, <2>1, <2>3, <2>4
    <2>7. \A f \in Visible(x) : (Past(f) /\ InRange(NextSessionAt(x, VersionDate(f))))
            => \E r \in Rows(x) : InTime(x, r) /\ Row(x, r) = Row(x, f)
      BY <1>2, <2>1, <2>3
    <2> HIDE DEF Visible, InTime
    <2>8. Shown(x) \subseteq Of(x, Visible(x))
      BY <2>6
    <2>9. Of(x, Visible(x)) \subseteq Shown(x)
      BY <2>7
    <2> QED
      BY <2>5, <2>8, <2>9
  <1>4. \A x : Dividends(x, t, q) = Fetch(x, {"dividend"}, FALSE, Covered(x, Days(x)), Shown(x))
    BY DEF Dividends
  <1> HIDE DEF Days, Visible, Shown, Past, InRange
  <1>5. Covered(v, Days(v)) /\ Covered(w, Days(w)) => Shown(v) = Shown(w)
    <2> SUFFICES ASSUME Covered(v, Days(v)), Covered(w, Days(w)) PROVE Shown(v) = Shown(w)
      OBVIOUS
    <2>1. \A f \in Visible(v) : Past(f) => NextSessionAt(v, VersionDate(f)) = NextSessionAt(w, VersionDate(f))
      BY <1>1, <1>3, SessionSame
    <2>2. \A f \in Visible(v) : Past(f) => Row(v, f) = Row(w, f)
      BY <2>1
    <2> HIDE DEF Row
    <2>3. Of(v, Visible(v)) = Of(w, Visible(v))
      BY <2>1, <2>2
    <2> QED
      BY <1>1, <1>3, <2>3
  <1>6. Covered(v, Days(v)) \in BOOLEAN /\ Covered(w, Days(w)) \in BOOLEAN
    BY DEF Covered
  <1> QED
    BY <1>4, <1>5, <1>6 DEF Fetch, Alike, Stands

\* What a view makes of an answer stands if the answer does.
LEMMA ResultStands ==
  ASSUME NEW a, NEW b, NEW reasons, Stands(a, b, reasons), NEW h, NEW t
  PROVE  Stands(Result(h, t, a), Result(h, t, b), reasons)
  <1>1. ASSUME NEW x, ~x.ok PROVE Result(h, t, x) = x
    <2>1. Result(h, t, x) = Within(x)
      BY <1>1 DEF Result
    <2> QED
      BY <1>1, <2>1 DEF Within
  <1>2. \A why : Result(h, t, Refused(why)) = Refused(why)
    BY <1>1, Refusing
  <1> QED
    BY <1>2 DEF Stands

LEMMA CheckedStands ==
  ASSUME NEW a, NEW b, NEW reasons, Stands(a, b, reasons), NEW h, NEW q, NEW valid
  PROVE  /\ Stands(Tushare(q, a), Tushare(q, b), reasons)
         /\ Stands(Checked(valid, h, q, a), Checked(valid, h, q, b), reasons)
         /\ Stands(Checked(valid, h, q, Tushare(q, a)), Checked(valid, h, q, Tushare(q, b)), reasons)
  <1>1. Stands(Tushare(q, a), Tushare(q, b), reasons)
    BY DEF Tushare, From, Stands
  <1>2. \A x, y : Stands(x, y, reasons) => Stands(Checked(valid, h, q, x), Checked(valid, h, q, y), reasons)
    BY DEF Checked, ForSymbols, Stands
  <1> QED
    BY <1>1, <1>2

LEMMA StatusSame ==
  ASSUME NEW v, NEW w, NEW t \in Nat, Alike(v, w, t), Regular(v), Regular(w), NEW q, NEW h
  PROVE  Status(v, h, t, q) = Status(w, h, t, q)
  <1> DEFINE Codes(parts) == q.symbols.codes \cup UNION {{r.code : r \in parts[i].rows} : i \in 1 .. 3}
             Whole(parts) == LET failed == {i \in 1 .. 3 : ~parts[i].ok}
                             IN IF failed # {} THEN parts[Min(failed)]
                                ELSE Result(h, t, Answered({StatusOf(parts, c) : c \in Codes(parts)}))
             Got(parts) == Checked(~q.symbols.all, h, q, Tushare(q, Whole(parts)))
  <1>1. \A x : Status(x, h, t, q) = Got(StatusParts(x, t, q))
    BY DEF Status, StatusParts, StatusOf
  <1>2. CASE q.symbols.all
    <2> HIDE DEF Whole
    <2> QED
      BY <1>1, <1>2 DEF Checked
  <1>3. CASE ~q.symbols.all
    <2>1. StatusParts(v, t, q) = StatusParts(w, t, q)
      BY <1>3, SuspensionsSame, PriceLimitsSame, StStatusSame DEF StatusParts
    <2> HIDE DEF Got
    <2> QED
      BY <1>1, <2>1
  <1> QED
    BY <1>2, <1>3

\* What alike views answer to a strategy.
LEMMA ReadStands ==
  ASSUME NEW v, NEW w, NEW t \in Nat, Alike(v, w, t), Regular(v), Regular(w), NEW h,
         NEW q, IsRequest(q), q.route \notin ForAccountOnly
  PROVE  Stands(Read(v, h, t, q), Read(w, h, t, q), MayBeWithheld(q))
  <1> DEFINE reasons == MayBeWithheld(q)
  <1>1. \A a, b : a = b => Stands(a, b, reasons)
    BY DEF Stands
  <1>0. /\ \A a, b : Stands(a, b, {"unavailable"}) => Stands(a, b, reasons)
        /\ q.route \in ChecksAhead => \A a, b : Stands(a, b, {"unavailable", "conflict"}) => Stands(a, b, reasons)
    BY DEF Stands, MayBeWithheld
  <1> HIDE DEF reasons
  <1>2. CASE q.route = "bars"
    <2> DEFINE p == UpTo(q, t)
               valid == p.count > 0 \/ (p.start < p.end /\ p.end <= t)
               Got(x) == IF p.frequency = "1d"
                         THEN IF p.source = "tushare" THEN TushareDaily(x, t, p) ELSE QmtDaily(x, t, p)
                         ELSE From(p.source, {"qmt"}, QmtIntraday(x, t, p))
    <2>1. \A x : Read(x, h, t, q) = Checked(valid, h, p, Result(h, t, Got(x)))
      BY <1>2 DEF Read, Bars
    <2> HIDE DEF p
    <2>2. Got(v) = Got(w)
      BY TushareDailySame, QmtDailySame, QmtIntradaySame
    <2> HIDE DEF valid, Got
    <2> QED
      BY <1>1, <2>1, <2>2 DEF reasons
  <1>3. CASE q.route = "current"
    <2> DEFINE Got(x) == IF q.source = "tushare" THEN TushareCurrent(x, t, q) ELSE QmtCurrent(x, t, q)
    <2>1. \A x : Read(x, h, t, q) = Checked(TRUE, h, q, Result(h, t, Got(x)))
      BY <1>3 DEF Read, CurrentQuotes
    <2>2. Stands(Got(v), Got(w), reasons)
      <3>1. q.route \in ChecksAhead
        BY <1>3 DEF ChecksAhead
      <3> QED
        BY <1>0, <1>1, <3>1, TushareCurrentStands, QmtCurrentSame
    <2> HIDE DEF Got
    <2>3. Stands(Result(h, t, Got(v)), Result(h, t, Got(w)), reasons)
      BY <2>2, ResultStands
    <2> DEFINE Given(x) == Checked(TRUE, h, q, Result(h, t, Got(x)))
    <2>4. Stands(Given(v), Given(w), reasons)
      BY <2>3, CheckedStands
    <2>5. Read(v, h, t, q) = Given(v) /\ Read(w, h, t, q) = Given(w)
      BY <2>1
    <2> HIDE DEF Given
    <2> QED
      BY <2>4, <2>5 DEF reasons
  <1>4. CASE q.route = "status"
    BY <1>1, <1>4, StatusSame DEF Read, reasons
  <1>5. CASE q.route \in {"daily_metrics", "moneyflow"}
    <2> DEFINE p == UpTo(q, DayOf(t) + 1)
               Got(x) == IF p.route = "daily_metrics" THEN DailyMetrics(x, t, p) ELSE Moneyflow(x, t, p)
    <2>1. \A x : Read(x, h, t, q) = Checked(p.start < p.end, h, p, Tushare(p, Result(h, t, Got(x))))
      BY <1>5 DEF Read, DayTable
    <2>2. p.route = q.route
      BY DEF IsRequest, UpTo
    <2>3. q.route # "daily_metrics" => q.route \in ChecksAhead
      BY <1>5 DEF ChecksAhead
    <2> HIDE DEF p
    <2>4. Stands(Got(v), Got(w), reasons)
      BY <1>0, <1>1, <2>2, <2>3, DailyMetricsSame, MoneyflowStands
    <2> HIDE DEF Got
    <2>5. Stands(Result(h, t, Got(v)), Result(h, t, Got(w)), reasons)
      BY <2>4, ResultStands
    <2> QED
      BY <2>1, <2>5, CheckedStands DEF reasons
  <1>6. CASE q.route \in {"statements", "indicators"}
    <2> DEFINE p == UpTo(q, Never)
               valid == p.periods > 0 \/ p.start < p.end
               Got(x) == IF p.route = "statements" THEN Statements(x, t, p) ELSE Indicators(x, t, p)
    <2>1. \A x : Read(x, h, t, q) = Checked(valid, h, p, Tushare(p, Result(h, t, Got(x))))
      BY <1>6 DEF Read, Reports
    <2> HIDE DEF p
    <2>2. Stands(Got(v), Got(w), reasons)
      BY <1>0, StatementsStand, IndicatorsStand
    <2> HIDE DEF Got, valid
    <2>3. Stands(Result(h, t, Got(v)), Result(h, t, Got(w)), reasons)
      BY <2>2, ResultStands
    <2> QED
      BY <2>1, <2>3, CheckedStands DEF reasons
  <1>7. CASE q.route \in {"disclosures", "dividends"}
    <2> DEFINE p == UpTo(q, t)
               valid == p.end <= t /\ p.start <= p.end
               Got(x) == IF p.route = "disclosures" THEN Disclosures(x, t, p) ELSE Dividends(x, t, p)
    <2>1. \A x : Read(x, h, t, q) = Checked(valid, h, p, Tushare(p, Result(h, t, Got(x))))
      BY <1>7 DEF Read, Announcements
    <2>2. p.route = "disclosures" => p.kind \in {"forecast", "fina_audit"}
      BY DEF IsRequest, UpTo
    <2> HIDE DEF p
    <2>3. Stands(Got(v), Got(w), reasons)
      BY <1>0, <2>2, DisclosuresStand, DividendsStand
    <2> HIDE DEF Got, valid
    <2>4. Stands(Result(h, t, Got(v)), Result(h, t, Got(w)), reasons)
      BY <2>3, ResultStands
    <2> QED
      BY <2>1, <2>4, CheckedStands DEF reasons
  <1>8. CASE q.route = "factors"
    <2> DEFINE p == UpTo(q, Never)
    <2>1. \A x : Read(x, h, t, q) = Checked(p.start < p.end, h, p, Tushare(p, Result(h, t, AdjustmentFactors(x, t, p))))
      BY <1>8 DEF Read, Factors
    <2> HIDE DEF p
    <2>2. AdjustmentFactors(v, t, p) = AdjustmentFactors(w, t, p)
      BY AdjustmentFactorsSame
    <2> QED
      BY <1>1, <2>1, <2>2 DEF reasons
  <1>9. CASE q.route = "industry"
    <2>1. \A x : Read(x, h, t, q) = Checked(TRUE, h, q, Tushare(q, Result(h, t, Industry(x, t, q))))
      BY <1>9 DEF Read, IndustryOf
    <2>2. Industry(v, t, q) = Industry(w, t, q)
      BY IndustrySame
    <2> QED
      BY <1>1, <2>1, <2>2 DEF reasons
  <1>10. CASE q.route = "stocks"
    <2>1. \A x : Read(x, h, t, q) = Tushare(q, Result(h, t, ListedStocks(x, t)))
      BY <1>10 DEF Read, StockPool
    <2>2. Stands(ListedStocks(v, t), ListedStocks(w, t), reasons)
      <3>1. q.route \in ChecksAhead
        BY <1>10 DEF ChecksAhead
      <3> QED
        BY <1>0, <3>1, ListedStocksStand
    <2>3. Stands(Result(h, t, ListedStocks(v, t)), Result(h, t, ListedStocks(w, t)), reasons)
      BY <2>2, ResultStands
    <2> QED
      BY <2>1, <2>3, CheckedStands DEF reasons
  <1>11. CASE q.route = "sessions"
    <2> DEFINE p == UpTo(q, DayOf(t) + 1)
    <2>1. \A x : Read(x, h, t, q) = IF p.start < p.end THEN Tushare(p, Within(Sessions(x, t, p))) ELSE Refused("invalid")
      BY <1>11 DEF Read, Calendar
    <2> HIDE DEF p
    <2>2. Sessions(v, t, p) = Sessions(w, t, p)
      BY SessionsSame
    <2> QED
      BY <1>1, <2>1, <2>2 DEF reasons
  <1>12. CASE q.route = "previous_session"
    <2>1. \A x : Read(x, h, t, q) = Tushare(q, PreviousSession(x, t, q))
      BY <1>12 DEF Read, LastSession
    <2>2. PreviousSession(v, t, q) = PreviousSession(w, t, q)
      BY PreviousSessionSame
    <2> QED
      BY <1>1, <2>1, <2>2 DEF reasons
  <1> QED
    BY <1>2, <1>3, <1>4, <1>5, <1>6, <1>7, <1>8, <1>9, <1>10, <1>11, <1>12 DEF IsRequest, Routes, ForAccountOnly

-----------------------------------------------------------------------------
(* What a row that is stored changes in what the queries see *)

OneRowPerKey ==
  \A table \in Tables : IsFiniteSet(db[table]) /\ \A r, s \in db[table] : SameKey(table, r, s) => r = s

LEMMA StoredOnce == ReaderSpec => [](world \in DOMAIN Worlds /\ ReaderTypeOK /\ OneRowPerKey)
  <1> DEFINE Typed == world \in DOMAIN Worlds /\ ReaderTypeOK
  <1>1. ReaderInit => OneRowPerKey
    BY WorldsAssumption DEF ReaderInit, World, OneRowPerKey
  <1>2. Typed /\ OneRowPerKey /\ [ReaderNext]_readerVars => OneRowPerKey'
    <2> SUFFICES ASSUME Typed, OneRowPerKey, [ReaderNext]_readerVars PROVE OneRowPerKey'
      OBVIOUS
    <2>1. ASSUME NEW change \in World.pool, Store(change), NEW table \in Tables
          PROVE  IsFiniteSet(db'[table]) /\ \A r, s \in db'[table] : SameKey(table, r, s) => r = s
      <3>1. CASE table # change.table
        <4>1. db'[table] = db[table]
          BY <2>1, <3>1 DEF Store, ReaderTypeOK
        <4> QED
          BY <4>1 DEF OneRowPerKey
      <3>2. CASE table = change.table
        <4> DEFINE kept == {r \in db[table] : ~SameKey(table, r, change.row)}
        <4>1. db'[table] = kept \cup {change.row}
          BY <2>1, <3>2 DEF Store, ReaderTypeOK
        <4>2. IsFiniteSet(kept)
          BY FS_Subset DEF OneRowPerKey
        <4>3. IsFiniteSet(kept \cup {change.row})
          <5> HIDE DEF kept
          <5> QED
            BY <4>2, FS_AddElement
        <4>4. \A r, s : SameKey(table, r, s) <=> SameKey(table, s, r)
          BY DEF SameKey
        <4>5. \A r, s \in kept \cup {change.row} : SameKey(table, r, s) => r = s
          BY <4>4 DEF OneRowPerKey
        <4> QED
          BY <4>1, <4>3, <4>5
      <3> QED
        BY <3>1, <3>2
    <2>2. CASE UNCHANGED readerVars
      BY <2>2 DEF readerVars, OneRowPerKey, SameKey
    <2> QED
      BY <2>1, <2>2 DEF ReaderNext, OneRowPerKey, SameKey
  <1> QED
    BY <1>1, <1>2, TypeHolds, PTL DEF ReaderSpec

\* A row and the one it replaces are both hidden, or show the same.
HidesChange(calendar, table, r, old, t) ==
  \/ ~Shows(calendar, table, r, t) /\ \A o \in old : ~Shows(calendar, table, o, t)
  \/ \E o : old = {o} /\ (Shows(calendar, table, o, t) <=> Shows(calendar, table, r, t)) /\ Known(table, o) = Known(table, r)

\* A row replaces one of its key at most.
Replaces(table, r, old) ==
  /\ IsRow(table, r) /\ \A o \in old : IsRow(table, o) /\ SameKey(table, o, r)
  /\ \A o, p \in old : o = p

\* The session in which a day's news is known.
LEMMA NotOpened ==
  ASSUME NEW calendar, \A c \in calendar : c.date \in Nat, NEW t \in Nat, NEW day,
         LET opens == {At(c.date, PreOpen) : c \in {x \in calendar : x.open /\ x.date > day}}
         IN t < IF opens = {} THEN 0 ELSE Min(opens)
  PROVE  ~OpenedIn(calendar, day, t)
  <1> DEFINE opens == {At(c.date, PreOpen) : c \in {x \in calendar : x.open /\ x.date > day}}
  <1>1. opens \in SUBSET Nat
    BY DEF At, PreOpen, Times
  <1>2. opens # {} /\ t < Min(opens)
    OBVIOUS
  <1>3. \A c \in calendar : c.open /\ c.date > day => At(c.date, PreOpen) \in opens
    OBVIOUS
  <1> HIDE DEF opens
  <1>4. Min(opens) \in Nat /\ \A m \in opens : Min(opens) <= m
    BY <1>1, <1>2, LeastIs
  <1> SUFFICES ASSUME NEW c \in calendar, c.open, c.date > day, At(c.date, PreOpen) <= t PROVE FALSE
    BY DEF OpenedIn
  <1>5. At(c.date, PreOpen) \in Nat /\ Min(opens) <= At(c.date, PreOpen)
    BY <1>1, <1>3, <1>4
  <1> QED
    BY <1>2, <1>4, <1>5

\* Before the earlier of two days it is before both.
LEMMA BeforeBoth ==
  ASSUME NEW m \in Nat, NEW n \in Nat, NEW t \in Nat, t < At(Min({m, n}), Midnight)
  PROVE  DayOf(t) < m /\ DayOf(t) < n
  <1>1. {m, n} \in SUBSET Nat /\ {m, n} # {}
    OBVIOUS
  <1>2. Min({m, n}) \in {m, n} /\ \A k \in {m, n} : Min({m, n}) <= k
    BY <1>1, LeastIs
  <1>3. Min({m, n}) \in Nat /\ Min({m, n}) <= m /\ Min({m, n}) <= n
    BY <1>2
  <1> QED
    BY <1>3 DEF At, Midnight, DayOf, Times

\* Before the instant a row is visible at, its table shows the same without it.
LEMMA HiddenUntil ==
  ASSUME NEW d, \A c \in d.trade_cal : c.date \in Nat, NEW t \in Nat, NEW table \in Tables, NEW r, NEW old,
         Replaces(table, r, old), t < VisibleAt(d, table, r, old)
  PROVE  HidesChange(d.trade_cal, table, r, old, t)
  <1> DEFINE cal == d.trade_cal
             Session(day) == LET opens == {At(c.date, PreOpen) : c \in {x \in d.trade_cal : x.open /\ x.date > day}}
                             IN IF opens = {} THEN 0 ELSE Min(opens)
             Announcement(day) == IF day = Missing THEN At(Never, 0) ELSE Session(day)
             OnlyLastDate(field) == \E o \in old : [o EXCEPT ![field] = r[field]] = r
             Earliest(field) == At(Min({r[field]} \cup {o[field] : o \in old}), Midnight)
             Hidden == ~Shows(cal, table, r, t) /\ \A o \in old : ~Shows(cal, table, o, t)
  <1> SUFFICES \/ Hidden
               \/ \E o : old = {o} /\ (Shows(cal, table, o, t) <=> Shows(cal, table, r, t)) /\ Known(table, o) = Known(table, r)
    BY DEF HidesChange
  <1>1. \A o \in old : SameKey(table, o, r) /\ IsRow(table, o)
    BY DEF Replaces
  <1>2. \A day : t < Session(day) => ~OpenedIn(cal, day, t)
    BY NotOpened
  <1>3. \A day : t < Announcement(day) => day = Missing \/ ~OpenedIn(cal, day, t)
    BY <1>2
  <1>4. CASE table \in {"daily", "qmt_daily", "daily_basic", "adj_factor", "stk_limit", "stock_st"}
    <2>1. r.date \in Nat /\ \A o \in old : o.date = r.date
      BY <1>1, <1>4 DEF Replaces, IsRow, Dated, SameKey, Key
    <2>2. CASE table = "daily"
      <3>1. t < At(r.date, DailyReady)
        <4>1. VisibleAt(d, table, r, old) \in {At(r.date, DailyReady), At(r.date, Open)}
          BY <2>2 DEF VisibleAt
        <4> QED
          BY <2>1, <4>1 DEF At, Open, DailyReady, Times
      <3> QED
        BY <2>1, <2>2, <3>1 DEF Shows, At, DailyReady, Times
    <2>3. CASE table = "qmt_daily"
      <3>1. t < At(r.date, DailyReady)
        BY <2>3 DEF VisibleAt
      <3> QED
        BY <2>1, <2>3, <3>1 DEF Shows, At, DailyReady, Times
    <2>4. CASE table = "daily_basic"
      <3>1. t < At(r.date, BasicReady)
        BY <2>4 DEF VisibleAt
      <3> QED
        BY <2>1, <2>4, <3>1 DEF Shows, At, BasicReady, Times
    <2>5. CASE table \in {"adj_factor", "stk_limit", "stock_st"}
      <3>1. t < At(r.date, PreOpen)
        BY <2>5 DEF VisibleAt
      <3> QED
        <4>1. \A o : Shows(cal, table, o, t) <=> At(o.date, PreOpen) <= t
          BY <2>5 DEF Shows
        <4> QED
          BY <2>1, <3>1, <4>1 DEF At, PreOpen, Times
    <2> QED
      BY <1>4, <2>2, <2>3, <2>4, <2>5
  <1>5. CASE table = "suspend_d"
    <2>1. r.date \in Nat /\ \A o \in old : o.date = r.date /\ o.intervals = r.intervals
      BY <1>1, <1>5 DEF Replaces, IsRow, Dated, SameKey, Key
    <2>2. t < At(r.date, IF r.intervals = {} THEN PreOpen ELSE Min({i[1] : i \in r.intervals}))
      BY <1>5 DEF VisibleAt
    <2>3. \A i \in r.intervals : i[1] \in Nat
      BY <1>5 DEF Replaces, IsRow
    <2>4. ~(r.date = DayOf(t) /\ HasBegun(r, TimeOf(t)))
      <3> DEFINE starts == {i[1] : i \in r.intervals}
      <3>1. CASE r.intervals = {}
        BY <2>1, <2>2, <3>1 DEF HasBegun, At, PreOpen, DayOf, TimeOf, Times
      <3>2. CASE r.intervals # {}
        <4>1. starts \in SUBSET Nat /\ starts # {}
          BY <2>3, <3>2
        <4>2. Min(starts) \in Nat /\ \A n \in starts : Min(starts) <= n
          <5> HIDE DEF starts
          <5> QED
            BY <4>1, LeastIs
        <4>3. t < At(r.date, Min(starts))
          BY <2>2, <3>2
        <4>4. r.date = DayOf(t) => TimeOf(t) < Min(starts)
          <5> HIDE DEF starts
          <5> QED
            BY <2>1, <4>2, <4>3 DEF At, DayOf, TimeOf, Times
        <4>5. TimeOf(t) \in Nat
          BY DEF TimeOf, Times
        <4>6. ASSUME r.date = DayOf(t), NEW i \in r.intervals, i[1] <= TimeOf(t) PROVE FALSE
          <5>1. i[1] \in starts /\ i[1] \in Nat
            BY <2>3
          <5> HIDE DEF starts
          <5> QED
            BY <4>2, <4>4, <4>5, <4>6, <5>1
        <4> QED
          BY <3>2, <4>6 DEF HasBegun
      <3> QED
        BY <3>1, <3>2
    <2>5. \A o : Shows(cal, table, o, t) <=> o.date = DayOf(t) /\ HasBegun(o, TimeOf(t))
      BY <1>5 DEF Shows
    <2>6. \A o \in old : HasBegun(o, TimeOf(t)) <=> HasBegun(r, TimeOf(t))
      BY <2>1 DEF HasBegun
    <2> QED
      BY <2>1, <2>4, <2>5, <2>6
  <1>6. CASE table \in {"suspend_ranges", "factor_ranges"}
    <2>1. r.start \in Nat /\ \A o \in old : o.start = r.start
      BY <1>1, <1>6 DEF Replaces, IsRow, Dated, SameKey, Key
    <2>2. t < At(r.start, PreOpen)
      BY <1>6 DEF VisibleAt
    <2>3. \A o : Shows(cal, table, o, t) <=> At(o.start, PreOpen) <= t
      BY <1>6 DEF Shows
    <2> QED
      BY <2>1, <2>2, <2>3 DEF At, PreOpen, Times
  <1>7. CASE table = "dividend_factors"
    <2>1. r.ex \in Nat /\ \A o \in old : o.ex = r.ex
      BY <1>1, <1>7 DEF Replaces, IsRow, Dated, SameKey, Key
    <2>2. t < At(r.ex, PreOpen)
      BY <1>7 DEF VisibleAt
    <2> QED
      BY <1>7, <2>1, <2>2 DEF Shows, At, PreOpen, Times
  <1>8. CASE table = "qmt_intraday"
    <2>1. r.end \in Nat /\ \A o \in old : o.end = r.end
      BY <1>1, <1>8 DEF Replaces, IsRow, Dated, SameKey, Key
    <2>2. t < r.end
      BY <1>8 DEF VisibleAt
    <2> QED
      BY <1>8, <2>1, <2>2 DEF Shows
  <1>9. CASE table = "qmt_ticks"
    <2>1. r.received \in Nat /\ \A o \in old : o.received \in Nat
      BY <1>1, <1>9 DEF Replaces, IsRow, Dated
    <2>2. t < Min({r.received} \cup {o.received : o \in old})
      BY <1>9 DEF VisibleAt
    <2>3. \A n \in {r.received} \cup {o.received : o \in old} : t < n
      <3> DEFINE times == {r.received} \cup {o.received : o \in old}
      <3>1. times \in SUBSET Nat /\ times # {}
        BY <2>1
      <3> HIDE DEF times
      <3>2. Min(times) \in Nat /\ \A n \in times : Min(times) <= n
        BY <3>1, LeastIs
      <3>3. t < Min(times)
        BY <2>2 DEF times
      <3>4. \A n \in times : t < n
        BY <3>1, <3>2, <3>3
      <3> QED
        BY <3>4 DEF times
    <2>4. \A o : Shows(cal, table, o, t) <=> o.received <= t
      BY <1>9 DEF Shows
    <2>5. t < r.received /\ \A o \in old : t < o.received
      BY <2>3
    <2> QED
      BY <2>1, <2>4, <2>5
  <1>10. CASE table = "trade_cal"
    <2>1. r.date \in Nat /\ \A o \in old : o.date = r.date
      BY <1>1, <1>10 DEF Replaces, IsRow, Dated, SameKey, Key
    <2>2. t < At(r.date, Midnight)
      BY <1>10 DEF VisibleAt
    <2>3. DayOf(t) < r.date
      BY <2>1, <2>2 DEF At, Midnight, DayOf, Times
    <2>4. \A o : Shows(cal, table, o, t) <=> o.date <= DayOf(t)
      BY <1>10 DEF Shows
    <2> QED
      BY <2>1, <2>3, <2>4 DEF DayOf, Times
  <1>11. CASE table = "moneyflow"
    <2>1. \A o \in old : o.date = r.date
      BY <1>1, <1>11 DEF SameKey, Key
    <2>2. t < Session(r.date)
      BY <1>11 DEF VisibleAt
    <2> QED
      BY <1>2, <1>11, <2>1, <2>2 DEF Shows
  <1>12. CASE table = "income"
    <2>1. \A o \in old : o.f_ann = r.f_ann /\ o.type = r.type
      BY <1>1, <1>12 DEF SameKey, Key
    <2>2. r.type \in {1, 4} => t < Announcement(r.f_ann)
      BY <1>12 DEF VisibleAt
    <2> QED
      BY <1>3, <1>12, <2>1, <2>2 DEF Shows
  <1>13. CASE table \in {"fina_indicator", "forecast", "fina_audit"}
    <2>1. \A o \in old : o.ann = r.ann
      BY <1>1, <1>13 DEF SameKey, Key
    <2>2. t < Announcement(r.ann)
      BY <1>13 DEF VisibleAt
    <2> QED
      BY <1>3, <1>13, <2>1, <2>2 DEF Shows
  <1>14. CASE table = "dividend"
    <2>1. \A o \in old : VersionDate(o) = VersionDate(r) /\ (Implemented(o) <=> Implemented(r))
      BY <1>1, <1>14 DEF SameKey, Key, VersionDate, Implemented
    <2>2. \A o : Shows(cal, table, o, t) <=> VersionDate(o) # Missing /\ OpenedIn(cal, VersionDate(o), t)
      BY <1>14 DEF Shows
    <2>3. CASE ~Implemented(r) /\ OnlyLastDate("ex")
      <3>1. PICK o \in old : [o EXCEPT !["ex"] = r["ex"]] = r
        BY <2>3
      <3>2. old = {o}
        BY DEF Replaces
      <3>3. Fact(o) = Fact(r)
        <4>1. Fact(o) = [o EXCEPT !.ex = Missing] /\ Fact(r) = [r EXCEPT !.ex = Missing]
          BY <2>1, <2>3 DEF Fact, DividendDate
        <4>2. [r EXCEPT !.ex = Missing] = [o EXCEPT !.ex = Missing]
          BY <3>1
        <4> QED
          BY <4>1, <4>2
      <3>4. Known(table, o) = Known(table, r)
        BY <1>14, <3>3 DEF Known
      <3> QED
        BY <2>1, <2>2, <3>2, <3>4
    <2>4. CASE ~(~Implemented(r) /\ OnlyLastDate("ex"))
      <3>1. t < Announcement(VersionDate(r))
        BY <1>14, <2>4 DEF VisibleAt
      <3> QED
        BY <1>3, <2>1, <2>2, <3>1
    <2> QED
      BY <2>3, <2>4
  <1>15. CASE table = "sw_industry"
    <2>1. /\ r.in \in Nat /\ r.out \in Nat
          /\ \A o \in old : o.in = r.in /\ o.code = r.code /\ o.out \in Nat /\ {"out", "value"} \subseteq DOMAIN o
      BY <1>1, <1>15 DEF Replaces, IsRow, Dated, SameKey, Key, Beside
    <2>2. \A o : Shows(cal, table, o, t) <=> At(o.in, PreOpen) <= t /\ DayOf(t) < o.out
      BY <1>15 DEF Shows
    <2>3. CASE OnlyLastDate("out")
      <3>1. PICK o \in old : [o EXCEPT !["out"] = r["out"]] = r
        BY <2>3
      <3>2. old = {o}
        BY DEF Replaces
      <3>3. t < Earliest("out")
        BY <1>15, <2>3 DEF VisibleAt
      <3>4. {r["out"]} \cup {p["out"] : p \in old} = {r.out, o.out}
        BY <3>2
      <3>5. DayOf(t) < r.out /\ DayOf(t) < o.out
        BY <2>1, <3>3, <3>4, BeforeBoth
      <3>6. Class(o) = Class(r)
        BY <2>1, <3>1 DEF Class
      <3>7. Known(table, o) = Known(table, r)
        BY <1>15, <3>6 DEF Known
      <3> QED
        BY <2>1, <2>2, <3>2, <3>5, <3>7
    <2>4. CASE ~OnlyLastDate("out")
      <3>1. t < At(r.in, PreOpen)
        BY <1>15, <2>4 DEF VisibleAt
      <3> QED
        BY <2>1, <2>2, <3>1 DEF At, PreOpen, Times
    <2> QED
      BY <2>3, <2>4
  <1>16. CASE table = "stock_basic"
    <2>1. /\ r.list \in Nat /\ r.delist \in Nat
          /\ \A o \in old : o.list = r.list /\ o.code = r.code /\ o.delist \in Nat
      BY <1>1, <1>16 DEF Replaces, IsRow, Dated, SameKey, Key
    <2>2. \A o : Shows(cal, table, o, t) <=> At(o.list, PreOpen) <= t /\ DayOf(t) < o.delist
      BY <1>16 DEF Shows, ListedAt
    <2>3. CASE OnlyLastDate("delist")
      <3>1. PICK o \in old : [o EXCEPT !["delist"] = r["delist"]] = r
        BY <2>3
      <3>2. old = {o}
        BY DEF Replaces
      <3>3. t < Earliest("delist")
        BY <1>16, <2>3 DEF VisibleAt
      <3>4. {r["delist"]} \cup {p["delist"] : p \in old} = {r.delist, o.delist}
        BY <3>2
      <3>5. DayOf(t) < r.delist /\ DayOf(t) < o.delist
        BY <2>1, <3>3, <3>4, BeforeBoth
      <3>6. Known(table, o) = Known(table, r)
        BY <1>16, <2>1 DEF Known, Listing
      <3> QED
        BY <2>1, <2>2, <3>2, <3>5, <3>6
    <2>4. CASE ~OnlyLastDate("delist")
      <3>1. t < At(r.list, PreOpen)
        BY <1>16, <2>4 DEF VisibleAt
      <3> QED
        BY <2>1, <2>2, <3>1 DEF At, PreOpen, Times
    <2> QED
      BY <2>3, <2>4
  <1> QED
    BY <1>4, <1>5, <1>6, <1>7, <1>8, <1>9, <1>10, <1>11, <1>12, <1>13, <1>14, <1>15, <1>16, TablesAre

\* The open of a stored row is not seen yet, or it replaces a row with the same open.
OpenKept(t, r, old) == \/ \A o \in {r} \cup old : ~(At(o.date, Open) <= t)
                       \/ \E o : old = {o} /\ o.date = r.date /\ DayOpen(o) = DayOpen(r)

LEMMA OpenHiddenUntil ==
  ASSUME NEW d, NEW t \in Nat, NEW r, NEW old, Replaces("daily", r, old), t < VisibleAt(d, "daily", r, old)
  PROVE  OpenKept(t, r, old)
  <1>1. r.date \in Nat /\ \A o \in old : o.date = r.date /\ o.code = r.code
    BY DEF Replaces, IsRow, Dated, SameKey, Key
  <1>2. CASE \E o \in old : o.open = r.open
    <2>1. PICK o \in old : o.open = r.open
      BY <1>2
    <2>2. old = {o}
      BY DEF Replaces
    <2> QED
      BY <1>1, <2>1, <2>2 DEF DayOpen, OpenKept
  <1>3. CASE ~\E o \in old : o.open = r.open
    <2>1. t < At(r.date, Open)
      BY <1>3 DEF VisibleAt
    <2> QED
      BY <1>1, <2>1 DEF At, Open, Times, OpenKept
  <1> QED
    BY <1>2, <1>3

\* A row as the views have it, under the first code of its security.
AsViewed(h, table, r) == IF table \in WithoutCodes THEN r ELSE [r EXCEPT !.code = Canonical(h, r.code)]

LEMMA ViewRows ==
  ASSUME NEW d, NEW h, DOMAIN d = Tables \cup {"unavailable"}
  PROVE  /\ \A table \in Tables : Views(d, h)[table] = {AsViewed(h, table, r) : r \in d[table]}
         /\ Views(d, h).unavailable = d.unavailable /\ Views(d, h).trade_cal = d.trade_cal
  <1>1. \A table \in Tables : table # "checked" /\ table \in DOMAIN d
    BY TablesAre
  <1>2. \A table \in Tables : table \notin WithoutCodes => Views(d, h)[table] = {AsViewed(h, table, r) : r \in d[table]}
    BY <1>1, ViewsAre DEF View, AsViewed
  <1>3. \A table \in Tables : table \in WithoutCodes => Views(d, h)[table] = {AsViewed(h, table, r) : r \in d[table]}
    BY <1>1, ViewsAre DEF AsViewed
  <1>4. Views(d, h).unavailable = d.unavailable /\ Views(d, h).trade_cal = d.trade_cal
    BY TablesAre, ViewsAre DEF WithoutCodes
  <1> QED
    BY <1>2, <1>3, <1>4

LEMMA ViewedFields ==
  ASSUME NEW h, NEW table \in Tables, NEW r, IsRow(table, r)
  PROVE  /\ \A field \in DOMAIN r \ {"code"} : AsViewed(h, table, r)[field] = r[field]
         /\ "code" \in DOMAIN r /\ table \notin WithoutCodes => AsViewed(h, table, r).code = Canonical(h, r.code)
         /\ DOMAIN AsViewed(h, table, r) = DOMAIN r
  BY DEF AsViewed, IsRow

\* What the queries ask of a row is not its code.
LEMMA ViewedShows ==
  ASSUME NEW h, NEW table \in Tables, NEW r, IsRow(table, r), NEW cal, NEW t
  PROVE  Shows(cal, table, AsViewed(h, table, r), t) <=> Shows(cal, table, r, t)
  <1> DEFINE x == AsViewed(h, table, r)
  <1>1. \A field \in DOMAIN r \ {"code"} : x[field] = r[field]
    BY ViewedFields
  <1>2. Key[table] \subseteq DOMAIN r /\ (table \in DOMAIN Beside => Beside[table] \subseteq DOMAIN r)
    BY DEF IsRow
  <1> HIDE DEF x
  <1>3. CASE table \in {"daily", "qmt_daily", "daily_basic", "adj_factor", "stk_limit", "stock_st", "trade_cal", "moneyflow"}
    <2>1. x.date = r.date
      BY <1>1, <1>2, <1>3 DEF Key
    <2> QED
      BY <1>3, <2>1 DEF Shows, x
  <1>4. CASE table = "suspend_d"
    <2>1. x.date = r.date /\ x.intervals = r.intervals
      BY <1>1, <1>2, <1>4 DEF Key
    <2> QED
      BY <1>4, <2>1 DEF Shows, HasBegun, x
  <1>5. CASE table \in {"suspend_ranges", "factor_ranges"}
    <2>1. x.start = r.start
      BY <1>1, <1>2, <1>5 DEF Key
    <2> QED
      BY <1>5, <2>1 DEF Shows, x
  <1>6. CASE table = "dividend_factors"
    <2>1. x.ex = r.ex
      BY <1>1, <1>2, <1>6 DEF Key
    <2> QED
      BY <1>6, <2>1 DEF Shows, x
  <1>7. CASE table = "qmt_intraday"
    <2>1. x.end = r.end
      BY <1>1, <1>2, <1>7 DEF Key
    <2> QED
      BY <1>7, <2>1 DEF Shows, x
  <1>8. CASE table = "qmt_ticks"
    <2>1. x.received = r.received
      BY <1>1, <1>2, <1>8 DEF Beside
    <2> QED
      BY <1>8, <2>1 DEF Shows, x
  <1>9. CASE table = "income"
    <2>1. x.f_ann = r.f_ann /\ x.type = r.type
      BY <1>1, <1>2, <1>9 DEF Key
    <2> QED
      BY <1>9, <2>1 DEF Shows, x
  <1>10. CASE table \in {"fina_indicator", "forecast", "fina_audit"}
    <2>1. x.ann = r.ann
      BY <1>1, <1>2, <1>10 DEF Key
    <2> QED
      BY <1>10, <2>1 DEF Shows, x
  <1>11. CASE table = "dividend"
    <2>1. VersionDate(x) = VersionDate(r)
      BY <1>1, <1>2, <1>11 DEF Key, VersionDate, Implemented
    <2> QED
      BY <1>11, <2>1 DEF Shows, x
  <1>12. CASE table = "sw_industry"
    <2>1. x.in = r.in /\ x.out = r.out
      BY <1>1, <1>2, <1>12 DEF Key, Beside
    <2> QED
      BY <1>12, <2>1 DEF Shows, x
  <1>13. CASE table = "stock_basic"
    <2>1. x.list = r.list /\ x.delist = r.delist
      BY <1>1, <1>2, <1>13 DEF Key, Beside
    <2> QED
      BY <1>13, <2>1 DEF Shows, ListedAt, x
  <1> QED
    BY <1>3, <1>4, <1>5, <1>6, <1>7, <1>8, <1>9, <1>10, <1>11, <1>12, <1>13, TablesAre

\* Rows that show the same do so under the first codes.
LEMMA ViewedKnown ==
  ASSUME NEW h, NEW table \in Tables, NEW r, NEW s, IsRow(table, r), IsRow(table, s), Known(table, r) = Known(table, s)
  PROVE  Known(table, AsViewed(h, table, r)) = Known(table, AsViewed(h, table, s))
  <1> DEFINE x == AsViewed(h, table, r)
             y == AsViewed(h, table, s)
  <1>1. CASE table \notin {"dividend", "sw_industry", "stock_basic"}
    BY <1>1 DEF Known
  <1>2. CASE table = "dividend"
    <2>1. ASSUME NEW z, IsRow("dividend", z)
          PROVE  /\ Fact(z).code = z.code
                 /\ Fact([z EXCEPT !.code = Canonical(h, z.code)]) = [Fact(z) EXCEPT !.code = Canonical(h, z.code)]
      <3> DEFINE w == [z EXCEPT !.code = Canonical(h, z.code)]
      <3>1. {"code", "end", "proc", "ann", "imp_ann", "ex"} \subseteq DOMAIN z
        BY <2>1 DEF IsRow, Key, Beside
      <3>2. (Implemented(w) <=> Implemented(z)) /\ w.ex = z.ex
        BY <3>1 DEF Implemented
      <3>3. DividendDate(w, w.ex) = DividendDate(z, z.ex)
        BY <3>2 DEF DividendDate
      <3> DEFINE date == DividendDate(z, z.ex)
      <3>4. Fact(w) = [w EXCEPT !.ex = date] /\ Fact(z) = [z EXCEPT !.ex = date]
        BY <3>3 DEF Fact
      <3> HIDE DEF date
      <3> QED
        BY <3>1, <3>4
    <2>2. AsViewed(h, table, r)
            = [r EXCEPT !.code = Canonical(h, r.code)] /\ AsViewed(h, table, s) = [s EXCEPT !.code = Canonical(h, s.code)]
      BY <1>2 DEF AsViewed, WithoutCodes
    <2>3. Fact(r) = Fact(s)
      BY <1>2 DEF Known
    <2>4. Fact(AsViewed(h, table, r)) = Fact(AsViewed(h, table, s))
      <3>1. IsRow("dividend", r) /\ IsRow("dividend", s)
        BY <1>2
      <3>2. /\ Fact(AsViewed(h, table, r)) = [Fact(r) EXCEPT !.code = Canonical(h, r.code)] /\ Fact(r).code = r.code
            /\ Fact(AsViewed(h, table, s)) = [Fact(s) EXCEPT !.code = Canonical(h, s.code)] /\ Fact(s).code = s.code
        BY <2>1, <2>2, <3>1
      <3> QED
        BY <2>3, <3>2
    <2> QED
      BY <1>2, <2>4 DEF Known
  <1>3. CASE table = "sw_industry"
    <2>1. \A z : IsRow(table, z) => {"code", "in", "value"} \subseteq DOMAIN z
      BY <1>3 DEF IsRow, Key, Beside
    <2>2. r.code = s.code /\ r.in = s.in /\ r.value = s.value
      BY <1>3 DEF Known, Class
    <2>3. x.code = y.code /\ x.in = y.in /\ x.value = y.value
      BY <1>3, <2>1, <2>2, ViewedFields DEF WithoutCodes
    <2> QED
      BY <1>3, <2>3 DEF Known, Class
  <1>4. CASE table = "stock_basic"
    <2>1. \A z : IsRow(table, z) => {"code", "list"} \subseteq DOMAIN z
      BY <1>4 DEF IsRow, Key
    <2>2. r.code = s.code /\ r.list = s.list
      BY <1>4 DEF Known, Listing
    <2>3. x.code = y.code /\ x.list = y.list
      BY <1>4, <2>1, <2>2, ViewedFields DEF WithoutCodes
    <2> QED
      BY <1>4, <2>3 DEF Known, Listing
  <1> QED
    BY <1>1, <1>2, <1>3, <1>4

LEMMA ViewsAreRegular ==
  ASSUME NEW d, NEW h, DOMAIN d = Tables \cup {"unavailable"},
         \A table \in Tables : IsFiniteSet(d[table]) /\ \A r \in d[table] : IsRow(table, r)
  PROVE  Regular(Views(d, h))
  <1> DEFINE v == Views(d, h)
  <1>1. ASSUME NEW table \in Tables, NEW x \in v[table]
        PROVE  \E r \in d[table] : /\ IsRow(table, r) /\ DOMAIN x = DOMAIN r
                                   /\ \A field \in DOMAIN r \ {"code"} : x[field] = r[field]
    BY ViewRows, ViewedFields
  <1>2. \A c \in v.trade_cal : c.date \in Nat
    BY <1>1, TablesAre DEF IsRow, Dated, Key
  <1>3. \A r \in v.qmt_daily \cup v.qmt_intraday : r.date \in Nat
    <2>1. \A r \in v.qmt_daily : r.date \in Nat
      BY <1>1, TablesAre DEF IsRow, Dated, Key
    <2>2. \A r \in v.qmt_intraday : r.date \in Nat
      BY <1>1, TablesAre DEF IsRow, Dated, Beside
    <2> QED
      BY <2>1, <2>2
  <1>4. \A g \in v.factor_ranges \cup v.suspend_ranges : g.start \in Nat
    <2>1. \A g \in v.factor_ranges : g.start \in Nat
      BY <1>1, TablesAre DEF IsRow, Dated, Key
    <2>2. \A g \in v.suspend_ranges : g.start \in Nat
      BY <1>1, TablesAre DEF IsRow, Dated, Key
    <2> QED
      BY <2>1, <2>2
  <1>5. \A r \in v.suspend_d : r.date \in Nat /\ \A i \in r.intervals : i[1] \in Nat
    BY <1>1, TablesAre DEF IsRow, Dated, Key
  <1>6. IsFiniteSet(v.sw_industry)
    <2>1. v.sw_industry = {AsViewed(h, "sw_industry", r) : r \in d.sw_industry}
      BY ViewRows, TablesAre
    <2>2. IsFiniteSet(d.sw_industry)
      BY TablesAre
    <2> DEFINE viewed == [r \in d.sw_industry |-> AsViewed(h, "sw_industry", r)]
    <2>3. viewed \in Surjection(d.sw_industry, v.sw_industry)
      BY <2>1 DEF Surjection
    <2> HIDE DEF viewed
    <2> QED
      BY <2>2, <2>3, FS_Surjection
  <1>7. \A r \in v.dividend : {"code", "end", "proc", "ann", "imp_ann", "ex", "value"} \subseteq DOMAIN r
    BY <1>1, TablesAre DEF IsRow, Key, Beside
  <1> HIDE DEF v
  <1> QED
    BY <1>2, <1>3, <1>4, <1>5, <1>6, <1>7 DEF Regular, v

\* What a view shows of some rows of a table.
ShownOf(h, cal, table, rows, t) == {Known(table, AsViewed(h, table, r)) : r \in {x \in rows : Shows(cal, table, x, t)}}

\* A row stored before it is visible leaves the views as they were.
LEMMA StoredUnseen ==
  ASSUME NEW h, NEW t \in Nat, NEW table \in Tables, NEW cal, NEW rows, NEW old \in SUBSET rows, NEW new,
         \A r \in rows : IsRow(table, r), Replaces(table, new, old), HidesChange(cal, table, new, old, t)
  PROVE  ShownOf(h, cal, table, (rows \ old) \cup {new}, t) = ShownOf(h, cal, table, rows, t)
  <1> USE DEF ShownOf
  <1>1. CASE ~Shows(cal, table, new, t) /\ \A o \in old : ~Shows(cal, table, o, t)
    <2>1. {x \in (rows \ old) \cup {new} : Shows(cal, table, x, t)} = {x \in rows : Shows(cal, table, x, t)}
      BY <1>1
    <2> QED
      BY <2>1
  <1>2. CASE \E o : old = {o} /\ (Shows(cal, table, o, t) <=> Shows(cal, table, new, t)) /\ Known(table, o) = Known(table, new)
    <2>1. PICK o : old = {o} /\ (Shows(cal, table, o, t) <=> Shows(cal, table, new, t)) /\ Known(table, o) = Known(table, new)
      BY <1>2
    <2>2. Known(table, AsViewed(h, table, o)) = Known(table, AsViewed(h, table, new))
      BY <2>1, ViewedKnown DEF Replaces
    <2> QED
      BY <2>1, <2>2
  <1> QED
    BY <1>1, <1>2 DEF HidesChange

LEMMA SeenIs ==
  ASSUME NEW d, NEW h, DOMAIN d = Tables \cup {"unavailable"}, NEW table \in Tables, \A r \in d[table] : IsRow(table, r), NEW t
  PROVE  Seen(Views(d, h), table, t) = ShownOf(h, d.trade_cal, table, d[table], t)
  <1>1. Views(d, h)[table] = {AsViewed(h, table, r) : r \in d[table]} /\ Views(d, h).trade_cal = d.trade_cal
    BY ViewRows
  <1>2. \A r \in d[table] : Shows(d.trade_cal, table, AsViewed(h, table, r), t) <=> Shows(d.trade_cal, table, r, t)
    BY ViewedShows
  <1> QED
    BY <1>1, <1>2 DEF Seen, ShownOf

LEMMA OpensAre ==
  ASSUME NEW d, NEW h, DOMAIN d = Tables \cup {"unavailable"}, \A r \in d.daily : IsRow("daily", r), NEW t
  PROVE  Opens(Views(d, h), t) = {DayOpen(AsViewed(h, "daily", r)) : r \in {x \in d.daily : At(x.date, Open) <= t}}
  <1>1. Views(d, h).daily = {AsViewed(h, "daily", r) : r \in d.daily}
    BY ViewRows, TablesAre
  <1>2. \A r \in d.daily : AsViewed(h, "daily", r).date = r.date
    <2> TAKE r \in d.daily
    <2>1. IsRow("daily", r) /\ "daily" \in Tables
      BY TablesAre
    <2>2. "date" \in DOMAIN r \ {"code"}
      BY <2>1 DEF IsRow, Key
    <2> QED
      BY <2>1, <2>2, ViewedFields
  <1> QED
    BY <1>1, <1>2 DEF Opens

LEMMA ViewedOpen ==
  ASSUME NEW h, NEW r, NEW s, IsRow("daily", r), IsRow("daily", s), DayOpen(r) = DayOpen(s)
  PROVE  DayOpen(AsViewed(h, "daily", r)) = DayOpen(AsViewed(h, "daily", s))
  <1>1. r.code = s.code /\ r.date = s.date /\ r.open = s.open
    BY DEF DayOpen
  <1>2. \A z : IsRow("daily", z) => {"code", "date", "open"} \subseteq DOMAIN z
    BY DEF IsRow, Key, Beside
  <1>3. \A z : IsRow("daily", z) => /\ AsViewed(h, "daily", z).code = Canonical(h, z.code)
                                    /\ AsViewed(h, "daily", z).date = z.date /\ AsViewed(h, "daily", z).open = z.open
    <2> TAKE z
    <2> HAVE IsRow("daily", z)
    <2>1. "daily" \in Tables /\ "daily" \notin WithoutCodes
      BY TablesAre DEF WithoutCodes
    <2> QED
      BY <1>2, <2>1, ViewedFields
  <1> QED
    BY <1>1, <1>3 DEF DayOpen

\* Before an instant's rows are visible the views of that instant stay as they are.
LEMMA StoreAlike ==
  ASSUME world \in DOMAIN Worlds, ReaderTypeOK, ReaderTypeOK', OneRowPerKey,
         NEW change \in World.pool, Store(change), NEW t \in Nat,
         \A table \in Tables : \A r \in Stored(table) : t < VisibleAt(db', table, r, Dropped(table))
  PROVE  Alike(Views(db, History), Views(db', History), t)
  <1> DEFINE T == change.table
             row == change.row
             old == {r \in db[T] : SameKey(T, r, row)}
             h == History
             v == Views(db, h)
             w == Views(db', h)
  <1>1. T \in Tables /\ T \in DOMAIN db
    BY WorldsAssumption DEF World, ReaderTypeOK
  <1>2. /\ DOMAIN db = Tables \cup {"unavailable"} /\ DOMAIN db' = Tables \cup {"unavailable"}
        /\ db'.unavailable = db.unavailable
        /\ \A table \in Tables \ {T} : db'[table] = db[table]
        /\ db'[T] = (db[T] \ old) \cup {row}
    BY <1>1, TablesAre DEF Store, ReaderTypeOK
  <1>3. /\ \A table \in Tables : \A r \in db[table] : IsRow(table, r)
        /\ \A table \in Tables : \A r \in db'[table] : IsRow(table, r)
    <2>1. World' = World
      BY DEF Store, World
    <2> QED
      BY <2>1, WorldsAssumption DEF ReaderTypeOK, World, Store
  <1>4. Replaces(T, row, old)
    <2>1. \A r, s, z : SameKey(T, r, z) /\ SameKey(T, s, z) => SameKey(T, r, s)
      BY DEF SameKey
    <2> QED
      BY <1>1, <1>2, <1>3, <2>1 DEF Replaces, OneRowPerKey
  <1>5. Stored(T) = {row} /\ Dropped(T) = old
    <2>1. row \notin db[T]
      BY DEF Store
    <2>2. row \notin old
      BY <2>1
    <2> QED
      BY <1>2, <2>1 DEF Stored, Dropped
  <1> HIDE DEF T, row, old
  <1>6. t < VisibleAt(db', T, row, old)
    BY <1>1, <1>5
  <1>7. \A c \in db'.trade_cal : c.date \in Nat
    BY <1>3, TablesAre DEF IsRow, Dated
  <1>8. HidesChange(db'.trade_cal, T, row, old, t)
    BY <1>1, <1>4, <1>6, <1>7, HiddenUntil
  <1>9. ASSUME NEW table \in Tables PROVE Seen(v, table, t) = Seen(w, table, t)
    <2>1. Seen(v, table, t)
            = ShownOf(h, db.trade_cal, table, db[table], t) /\ Seen(w, table, t) = ShownOf(h, db'.trade_cal, table, db'[table], t)
      BY <1>2, <1>3, SeenIs
    <2>2. \A r : Shows(db.trade_cal, table, r, t) <=> Shows(db'.trade_cal, table, r, t)
      <3>1. \A day : OpenedIn(db.trade_cal, day, t) <=> OpenedIn(db'.trade_cal, day, t)
        <4>1. CASE T # "trade_cal"
          BY <1>2, <4>1, TablesAre
        <4>2. CASE T = "trade_cal"
          <5>1. row.date \in Nat /\ \A o \in old : o.date = row.date
            BY <1>4, <4>2 DEF Replaces, IsRow, Dated, SameKey, Key
          <5>2. t < At(row.date, Midnight)
            BY <1>6, <4>2 DEF VisibleAt
          <5>3. \A o \in {row} \cup old : ~(At(o.date, PreOpen) <= t)
            BY <5>1, <5>2 DEF At, Midnight, PreOpen, Times
          <5> QED
            BY <1>2, <4>2, <5>3 DEF OpenedIn, old
        <4> QED
          BY <4>1, <4>2
      <3> QED
        BY <3>1 DEF Shows
    <2>3. CASE table = T
      <3>1. old \in SUBSET db[T] /\ \A r \in db[T] : IsRow(T, r)
        BY <1>1, <1>3 DEF old
      <3>2. ShownOf(h, db'.trade_cal, T, (db[T] \ old) \cup {row}, t) = ShownOf(h, db'.trade_cal, T, db[T], t)
        BY <1>1, <1>4, <1>8, <3>1, StoredUnseen
      <3>3. ShownOf(h, db'.trade_cal, table, db'[table], t) = ShownOf(h, db'.trade_cal, table, db[table], t)
        BY <1>2, <2>3, <3>2
      <3> QED
        BY <2>1, <2>2, <3>3 DEF ShownOf
    <2>4. CASE table # T
      BY <1>2, <2>1, <2>2, <2>4 DEF ShownOf
    <2> QED
      BY <2>3, <2>4
  <1>10. Opens(v, t) = Opens(w, t)
    <2> DEFINE Shown(some) == {DayOpen(AsViewed(h, "daily", r)) : r \in {x \in some : At(x.date, Open) <= t}}
    <2>1. Opens(v, t) = Shown(db.daily) /\ Opens(w, t) = Shown(db'.daily)
      BY <1>2, <1>3, OpensAre, TablesAre
    <2>2. CASE T # "daily"
      BY <1>2, <2>1, <2>2, TablesAre
    <2>3. CASE T = "daily"
      <3>1. db'.daily = (db.daily \ old) \cup {row} /\ old \subseteq db.daily
        BY <1>2, <2>3 DEF old
      <3>2. CASE \A o \in {row} \cup old : ~(At(o.date, Open) <= t)
        <4>1. {x \in db'.daily : At(x.date, Open) <= t} = {x \in db.daily : At(x.date, Open) <= t}
          BY <3>1, <3>2
        <4> QED
          BY <2>1, <4>1
      <3>3. CASE \E o : old = {o} /\ o.date = row.date /\ DayOpen(o) = DayOpen(row)
        <4>1. PICK o : old = {o} /\ o.date = row.date /\ DayOpen(o) = DayOpen(row)
          BY <3>3
        <4>2. DayOpen(AsViewed(h, "daily", o)) = DayOpen(AsViewed(h, "daily", row))
          BY <1>4, <2>3, <4>1, ViewedOpen DEF Replaces
        <4> QED
          BY <2>1, <3>1, <4>1, <4>2
      <3>4. Replaces("daily", row, old) /\ t < VisibleAt(db', "daily", row, old)
        BY <1>4, <1>6, <2>3
      <3>5. \/ \A o \in {row} \cup old : ~(At(o.date, Open) <= t)
            \/ \E o : old = {o} /\ o.date = row.date /\ DayOpen(o) = DayOpen(row)
        <4>1. OpenKept(t, row, old)
          BY <3>4, OpenHiddenUntil
        <4> QED
          BY <4>1 DEF OpenKept
      <3> QED
        BY <3>2, <3>3, <3>5
    <2> QED
      BY <2>2, <2>3
  <1>11. v.unavailable = w.unavailable /\ v.checked = w.checked
    <2>1. v.checked = (h # {}) /\ w.checked = (h # {})
      BY DEF Views
    <2> QED
      BY <1>2, <2>1, ViewRows
  <1> HIDE DEF v, w
  <1>12. Alike(v, w, t)
    BY <1>9, <1>10, <1>11 DEF Alike
  <1> QED
    BY <1>12 DEF v, w

\* A request stays one when its symbols are mapped, and asks for the same.
LEMMA MappedIsRequest ==
  ASSUME NEW h, NEW q, IsRequest(q)
  PROVE  /\ IsRequest(Mapping(h, q)) /\ DOMAIN Mapping(h, q) = DOMAIN q
         /\ \A field \in DOMAIN q \ {"symbols"} : Mapping(h, q)[field] = q[field]
  <1> DEFINE p == Mapping(h, q)
  <1>1. DOMAIN p = DOMAIN q /\ (\A field \in DOMAIN q \ {"symbols"} : p[field] = q[field]) /\ "codes" \in DOMAIN p.symbols
    BY DEF IsRequest, Mapping
  <1> HIDE DEF p
  <1>2. /\ p.route = q.route /\ p.kind = q.kind /\ p.lasting = q.lasting /\ p.count = q.count /\ p.periods = q.periods
    BY <1>1 DEF IsRequest
  <1>3. IsRequest(p)
    BY <1>1, <1>2 DEF IsRequest, IsLasting
  <1> QED
    BY <1>1, <1>3 DEF p

\* A step that stores what is not visible yet changes no answer of that instant.
LEMMA StoreStands ==
  ASSUME world \in DOMAIN Worlds, ReaderTypeOK, ReaderTypeOK', OneRowPerKey, OneRowPerKey',
         NEW change \in World.pool, Store(change), NEW t \in Instants,
         \A table \in Tables : \A r \in Stored(table) : t < VisibleAt(db', table, r, Dropped(table)),
         NEW q \in World.queries, q.route \notin ForAccountOnly
  PROVE  LET before == Answer(db, History, t, q)
             after == Answer(db', History, t, q)
         IN before = after \/ {before.why, after.why} \cap MayBeWithheld(q) # {}
  <1> DEFINE h == History
             p == Mapping(h, q)
  <1>1. t \in Nat
    BY InstantsAssumption
  <1>2. Alike(Views(db, h), Views(db', h), t)
    BY <1>1, StoreAlike
  <1>3. Regular(Views(db, h)) /\ Regular(Views(db', h))
    <2>1. World' = World
      BY DEF Store, World
    <2>2. /\ \A table \in Tables : \A r \in db[table] : IsRow(table, r)
          /\ \A table \in Tables : \A r \in db'[table] : IsRow(table, r)
      BY <2>1, WorldsAssumption DEF ReaderTypeOK, World, Store
    <2>3. \A table \in Tables : IsFiniteSet(db[table]) /\ IsFiniteSet(db'[table])
      BY DEF OneRowPerKey
    <2>4. DOMAIN db = Tables \cup {"unavailable"} /\ DOMAIN db' = Tables \cup {"unavailable"}
      BY DEF ReaderTypeOK
    <2> QED
      BY <2>2, <2>3, <2>4, ViewsAreRegular
  <1>4. IsRequest(q)
    BY WorldsAssumption DEF World
  <1>5. IsRequest(p) /\ p.route = q.route
    <2>1. p.route = q.route
      BY <1>4, MappedIsRequest DEF IsRequest
    <2> QED
      BY <1>4, <2>1, MappedIsRequest
  <1> HIDE DEF h, p
  <1>6. Stands(Read(Views(db, h), h, t, p), Read(Views(db', h), h, t, p), MayBeWithheld(q))
    <2>1. MayBeWithheld(p) = MayBeWithheld(q)
      BY <1>5 DEF MayBeWithheld
    <2> QED
      BY <1>1, <1>2, <1>3, <1>5, <2>1, ReadStands
  <1>7. \A why : Refused(why).why = why
    BY DEF Refused
  <1> HIDE DEF Refused
  <1> QED
    BY <1>6, <1>7 DEF Stands, Answer, h, p

\* Nothing a strategy reads comes from its future: what is stored before it is visible changes
\* no answer of the queries' visibility rules, nor does a conflict of two codes of a security
\* that it brings, except that an answer may be withheld for want of a calendar or by one of
\* the three queries whose check for conflicts looks ahead.
THEOREM NothingFromTheFuture == ReaderSpec => AnswersStand
  <1> DEFINE Inv == world \in DOMAIN Worlds /\ ReaderTypeOK /\ OneRowPerKey
             Hidden(t) == \A table \in Tables : \A r \in Stored(table) : t < VisibleAt(db', table, r, Dropped(table))
             Answered2 == \A t \in Instants : Hidden(t) =>
               \A q \in World.queries \ {x \in World.queries : x.route \in ForAccountOnly} :
                 LET before == Answer(db, History, t, q)
                     after == Answer(db', History, t, q)
                 IN before = after \/ {before.why, after.why} \cap MayBeWithheld(q) # {}
  <1>1. Inv /\ Inv' /\ [ReaderNext]_readerVars => [Answered2]_readerVars
    <2> SUFFICES ASSUME Inv, Inv', NEW change \in World.pool, Store(change),
                        NEW t \in Instants, Hidden(t), NEW q \in World.queries, q.route \notin ForAccountOnly
                 PROVE  LET before == Answer(db, History, t, q)
                            after == Answer(db', History, t, q)
                        IN before = after \/ {before.why, after.why} \cap MayBeWithheld(q) # {}
      BY DEF ReaderNext
    <2> QED
      BY StoreStands
  <1> QED
    BY <1>1, StoredOnce, PTL DEF ReaderSpec, AnswersStand

-----------------------------------------------------------------------------
(* Ranks *)

\* Ranks of one length are numbers in their order of importance.
RankOf(n) == [1 .. n -> Int]

LEMMA BeforeOrders ==
  ASSUME NEW n \in Nat, NEW a \in RankOf(n), NEW b \in RankOf(n), NEW c \in RankOf(n)
  PROVE  /\ ~Before(a, a)
         /\ Before(a, b) /\ Before(b, c) => Before(a, c)
         /\ ~Before(a, b) /\ ~Before(b, a) => a = b
  <1>1. DOMAIN a = 1 .. n /\ DOMAIN b = 1 .. n /\ DOMAIN c = 1 .. n
    BY DEF RankOf
  <1>2. \A i \in 1 .. n : a[i] \in Int /\ b[i] \in Int /\ c[i] \in Int
    BY DEF RankOf
  <1>3. ~Before(a, a)
    BY <1>1, <1>2 DEF Before
  <1>4. ASSUME Before(a, b), Before(b, c) PROVE Before(a, c)
    <2>1. PICK i \in 1 .. n : a[i] < b[i] /\ \A j \in 1 .. (i - 1) : a[j] = b[j]
      BY <1>1, <1>4 DEF Before
    <2>2. PICK k \in 1 .. n : b[k] < c[k] /\ \A j \in 1 .. (k - 1) : b[j] = c[j]
      BY <1>1, <1>4 DEF Before
    <2>3. CASE i <= k
      <3>1. a[i] < c[i]
        BY <1>2, <2>1, <2>2, <2>3
      <3>2. \A j \in 1 .. (i - 1) : a[j] = c[j]
        BY <2>1, <2>2, <2>3
      <3> QED
        BY <1>1, <3>1, <3>2 DEF Before
    <2>4. CASE k < i
      <3>1. a[k] < c[k]
        BY <1>2, <2>1, <2>2, <2>4
      <3>2. \A j \in 1 .. (k - 1) : a[j] = c[j]
        BY <2>1, <2>2, <2>4
      <3> QED
        BY <1>1, <3>1, <3>2 DEF Before
    <2> QED
      BY <2>3, <2>4
  <1>5. ASSUME a # b PROVE Before(a, b) \/ Before(b, a)
    <2> DEFINE apart == {i \in 1 .. n : a[i] # b[i]}
    <2>1. apart \in SUBSET Nat /\ apart # {}
      <3>1. \E i \in 1 .. n : a[i] # b[i]
        BY <1>5 DEF RankOf
      <3> QED
        BY <3>1
    <2>2. PICK i \in apart : \A j \in apart : i <= j
      <3> HIDE DEF apart
      <3> QED
        BY <2>1, LeastIs
    <2>3. \A j \in 1 .. (i - 1) : a[j] = b[j]
      BY <2>2
    <2>4. a[i] < b[i] \/ b[i] < a[i]
      BY <1>2, <2>2
    <2> QED
      BY <1>1, <2>2, <2>3, <2>4 DEF Before
  <1> QED
    BY <1>3, <1>4, <1>5

\* Of finitely many there is one before which none other comes.
LEMMA HighestRank ==
  ASSUME NEW S, IsFiniteSet(S), S # {}, NEW n \in Nat, NEW rank \in [S -> RankOf(n)]
  PROVE  \E x \in S : \A y \in S : ~Before(rank[x], rank[y])
  <1> DEFINE Above(x) == {y \in S : Before(rank[x], rank[y])}
             sizes == {Cardinality(Above(x)) : x \in S}
  <1>1. \A x \in S : IsFiniteSet(Above(x)) /\ Cardinality(Above(x)) \in Nat
    BY FS_Subset, FS_CardinalityType
  <1>2. sizes \in SUBSET Nat /\ sizes # {}
    <2> HIDE DEF Above
    <2> QED
      BY <1>1
  <1>3. PICK x \in S : \A y \in S : Cardinality(Above(x)) <= Cardinality(Above(y))
    <2>1. PICK m \in sizes : \A k \in sizes : m <= k
      <3> HIDE DEF sizes
      <3> QED
        BY <1>2, LeastIs
    <2> HIDE DEF Above
    <2> QED
      BY <2>1
  <1>4. ASSUME NEW y \in Above(x) PROVE FALSE
    <2>1. Above(y) \subseteq Above(x) /\ y \notin Above(y)
      BY <1>4, BeforeOrders
    <2>2. Above(y) # Above(x)
      BY <1>4, <2>1
    <2> HIDE DEF Above
    <2>3. Cardinality(Above(y)) <= Cardinality(Above(x)) /\ Cardinality(Above(y)) # Cardinality(Above(x))
      BY <1>1, <2>1, <2>2, FS_Subset
    <2>4. y \in S
      BY <1>4 DEF Above
    <2> QED
      BY <1>1, <1>3, <2>3, <2>4
  <1> QED
    BY <1>4

\* Two versions that nothing tells apart, of which row_number() takes either: two aliases have
\* the same one, or a plan is stored again with the dates of its implementation.
VersionKey ==
  [income |-> {"end", "type", "comp", "f_ann", "ann", "flag"}, fina_indicator |-> {"end", "ann", "flag"},
   forecast |-> {"end", "ann", "flag"}, fina_audit |-> {"end", "ann"}, dividend |-> {"end", "ann", "proc"}]
Tied(d) ==
  \E table \in DOMAIN VersionKey : \E r, s \in View(d, History, table) :
    /\ r # s /\ r.code = s.code /\ \A field \in VersionKey[table] : r[field] = s[field]
    /\ table = "dividend" => DividendDate(r, r.imp_ann) = DividendDate(s, s.imp_ann)

-----------------------------------------------------------------------------
(* What a view has shown and a later one shows *)

\* What identifies a row before it is shown under the code of the day.
Marks(r) == {"end", "comp", "date", "proc", "imp_ann"} \cup (IF "proc" \in DOMAIN r THEN {"ann"} ELSE {})
Mark(r) == [field \in (DOMAIN r \cap Marks(r)) \cup {"code"} |-> r[field]]

\* A row under the first code of its security.
IsPlain(h, r) == Canonical(h, r.code) = r.code /\ "code" \in DOMAIN r /\ "sid" \notin DOMAIN r

LEMMA MarkIs ==
  ASSUME NEW r, NEW s
  PROVE  Mark(r) = Mark(s) <=>
           /\ r.code = s.code /\ DOMAIN r \cap Marks(r) = DOMAIN s \cap Marks(s)
           /\ \A field \in DOMAIN r \cap Marks(r) : r[field] = s[field]
  <1> DEFINE F(x) == DOMAIN x \cap Marks(x)
  <1>1. "code" \notin F(r) /\ "code" \notin F(s)
    BY DEF Marks
  <1>2. ASSUME Mark(r) = Mark(s) PROVE F(r) = F(s) /\ r.code = s.code /\ \A field \in F(r) : r[field] = s[field]
    <2>1. \A x \in {r, s} : Mark(x) = [field \in F(x) \cup {"code"} |-> x[field]]
      BY DEF Mark
    <2> HIDE DEF F
    <2>2. \A x \in {r, s} : DOMAIN Mark(x) = F(x) \cup {"code"} /\ \A field \in F(x) \cup {"code"} : Mark(x)[field] = x[field]
      BY <2>1
    <2>3. F(r) = F(s)
      BY <1>1, <1>2, <2>2
    <2> QED
      BY <1>2, <2>2, <2>3
  <1>3. ASSUME F(r) = F(s), r.code = s.code, \A field \in F(r) : r[field] = s[field] PROVE Mark(r) = Mark(s)
    <2>1. \A x \in {r, s} : Mark(x) = [field \in F(x) \cup {"code"} |-> x[field]]
      BY DEF Mark
    <2> HIDE DEF F
    <2> QED
      BY <1>3, <2>1
  <1> QED
    BY <1>2, <1>3

\* A row is shown as it is, or under the code of the day beside its sid.
IsShownOf(h, day, r, x) == IF h = {} THEN x = r ELSE IsShown(h, day, r) /\ x = ShownAs(h, day, r)

\* The fields of a row that is shown, and the code of its security.
KeepsFields(h, r, x) ==
  /\ Canonical(h, x.code) = r.code
  /\ DOMAIN x \ {"sid"} = DOMAIN r /\ ("sid" \in DOMAIN x <=> h # {}) /\ (h # {} => x.sid = Sid(h, r.code))
  /\ \A field \in DOMAIN r \ {"code"} : x[field] = r[field]

LEMMA ShownIs ==
  ASSUME NEW h, IsHistory(h), NEW day, NEW r, IsPlain(h, r), NEW x, IsShownOf(h, day, r, x)
  PROVE  KeepsFields(h, r, x)
  <1> USE DEF KeepsFields
  <1>1. CASE h = {}
    BY <1>1 DEF IsShownOf, IsPlain
  <1>2. CASE h # {}
    <2>1. r.code \in KnownCodes(h) /\ HasCodeAt(h, Sid(h, r.code), day) /\ x = ShownAs(h, day, r)
      BY <1>2 DEF IsShownOf, IsShown
    <2>2. x.code = CodeAt(h, Sid(h, r.code), day) /\ x.sid = Sid(h, r.code) /\ DOMAIN x = DOMAIN r \cup {"code", "sid"}
      BY <2>1 DEF ShownAs, WithSid
    <2>3. \A field \in DOMAIN r \ {"code"} : x[field] = r[field]
      BY <2>1, ShownFields DEF IsPlain
    <2>4. Canonical(h, x.code) = First(h, Sid(h, r.code))
      BY <2>1, <2>2, CodeAtIs, AliasIs
    <2>5. Canonical(h, r.code) = First(h, Sid(h, r.code))
      BY <2>1, CanonicalIs
    <2> QED
      BY <1>2, <2>2, <2>3, <2>4, <2>5 DEF IsPlain
  <1> QED
    BY <1>1, <1>2

LEMMA IdentityIs ==
  ASSUME IsHistory(History), NEW day, NEW later, NEW r, IsPlain(History, r), NEW s, IsPlain(History, s),
         NEW x, IsShownOf(History, day, r, x), NEW y, IsShownOf(History, later, s, y)
  PROVE  Identity(x) = Identity(y) <=> Mark(r) = Mark(s)
  <1> DEFINE h == History
             Fields(z) == {"sid", "end", "comp", "date", "proc", "imp_ann"} \cup (IF "proc" \in DOMAIN z THEN {"ann"} ELSE {})
             F(z) == DOMAIN z \cap Fields(z)
             G(z) == DOMAIN z \cap Marks(z)
             Own == IF h = {} THEN {} ELSE {"sid"}
  <1>1. /\ Canonical(h, x.code) = r.code
        /\ DOMAIN x \ {"sid"} = DOMAIN r /\ ("sid" \in DOMAIN x <=> h # {}) /\ (h # {} => x.sid = Sid(h, r.code))
        /\ \A field \in DOMAIN r \ {"code"} : x[field] = r[field]
    <2>1. KeepsFields(h, r, x)
      BY ShownIs
    <2> QED
      BY <2>1 DEF KeepsFields
  <1>2. /\ Canonical(h, y.code) = s.code
        /\ DOMAIN y \ {"sid"} = DOMAIN s /\ ("sid" \in DOMAIN y <=> h # {}) /\ (h # {} => y.sid = Sid(h, s.code))
        /\ \A field \in DOMAIN s \ {"code"} : y[field] = s[field]
    <2>1. KeepsFields(h, s, y)
      BY ShownIs
    <2> QED
      BY <2>1 DEF KeepsFields
  <1>3. F(x) = G(r) \cup Own /\ F(y) = G(s) \cup Own
    BY <1>1, <1>2 DEF Marks
  <1>4. /\ "security" \notin F(x) \cup F(y) /\ "code" \notin F(x) \cup F(y)
        /\ Own \cap (G(r) \cup G(s)) = {} /\ G(r) \subseteq DOMAIN r \ {"code"} /\ G(s) \subseteq DOMAIN s \ {"code"}
    BY DEF Marks
  <1>5. \A z \in {x, y} : Identity(z) = [field \in F(z) \cup {"security"} |->
                                          IF field = "security" THEN Canonical(h, z.code) ELSE z[field]]
    BY DEF Identity
  <1> HIDE DEF F
  <1>6. \A z \in {x, y} : /\ DOMAIN Identity(z) = F(z) \cup {"security"} /\ Identity(z).security = Canonical(h, z.code)
                          /\ \A field \in F(z) : Identity(z)[field] = z[field]
    BY <1>4, <1>5
  <1>7. Identity(x) = Identity(y) <=> F(x) = F(y) /\ r.code = s.code /\ \A field \in F(x) : x[field] = y[field]
    <2>1. ASSUME Identity(x) = Identity(y) PROVE F(x) = F(y) /\ r.code = s.code /\ \A field \in F(x) : x[field] = y[field]
      <3>1. F(x) = F(y)
        BY <1>4, <1>6, <2>1
      <3> QED
        BY <1>1, <1>2, <1>6, <2>1, <3>1
    <2>2. ASSUME F(x) = F(y), r.code = s.code, \A field \in F(x) : x[field] = y[field] PROVE Identity(x) = Identity(y)
      BY <1>1, <1>2, <1>4, <1>5, <2>2
    <2> QED
      BY <2>1, <2>2
  <1> HIDE DEF G
  <1>8. F(x) = F(y) <=> G(r) = G(s)
    BY <1>3, <1>4
  <1>9. ASSUME G(r) = G(s), r.code = s.code
        PROVE  (\A field \in F(x) : x[field] = y[field]) <=> (\A field \in G(r) : r[field] = s[field])
    <2>1. \A field \in G(r) : x[field] = r[field] /\ y[field] = s[field]
      BY <1>1, <1>2, <1>4, <1>9
    <2>2. \A field \in Own : x[field] = y[field]
      BY <1>1, <1>2, <1>9
    <2> QED
      BY <1>3, <2>1, <2>2
  <1>10. Mark(r) = Mark(s) <=> r.code = s.code /\ G(r) = G(s) /\ \A field \in G(r) : r[field] = s[field]
    BY MarkIs DEF G
  <1> QED
    BY <1>7, <1>8, <1>9, <1>10

\* What a view showed a later one shows, if what was fetched only grows: one row for what
\* identifies it, and later the same or a later version of it.
HasOneOfEach(rows) == \A r, s \in rows : Mark(r) = Mark(s) => r = s
LivesOn(rows, later) == \A r \in rows : \E s \in later : Mark(s) = Mark(r) /\ VersionOf(s) >= VersionOf(r)
Grows(h, a, b) ==
  /\ a.ok => HasOneOfEach(a.rows) /\ \A r \in a.rows : IsPlain(h, r)
  /\ a.ok /\ b.ok => LivesOn(a.rows, b.rows) /\ \A r \in b.rows : IsPlain(h, r)
Remembered(a, b) ==
  /\ a.ok => \A r, s \in a.rows : Identity(r) = Identity(s) => r = s
  /\ a.ok /\ b.ok => \A r \in a.rows : \E s \in b.rows : Identity(s) = Identity(r) /\ VersionOf(s) >= VersionOf(r)

LEMMA ResultRows ==
  ASSUME NEW h, NEW t, NEW answer, Result(h, t, answer).ok
  PROVE  /\ answer.ok
         /\ \A x \in Result(h, t, answer).rows : \E r \in answer.rows : IsShownOf(h, DayOf(t), r, x)
         /\ \A r \in answer.rows : \E x \in Result(h, t, answer).rows : IsShownOf(h, DayOf(t), r, x)
         /\ \A r, x, y : IsShownOf(h, DayOf(t), r, x) /\ IsShownOf(h, DayOf(t), r, y) => x = y
  BY ResultIs DEF IsShownOf

LEMMA VersionShown ==
  ASSUME NEW h, IsHistory(h), NEW day, NEW r, IsPlain(h, r), NEW x, IsShownOf(h, day, r, x)
  PROVE  VersionOf(x) = VersionOf(r)
  <1>1. KeepsFields(h, r, x)
    BY ShownIs
  <1> QED
    BY <1>1 DEF KeepsFields, VersionOf

LEMMA ResultRemembers ==
  ASSUME IsHistory(History), NEW t, NEW u, NEW x, NEW y, Grows(History, x, y), NEW a, NEW b,
         a.ok => a = Result(History, t, x), b.ok => b = Result(History, u, y)
  PROVE  Remembered(a, b)
  <1> DEFINE h == History
  <1>1. ASSUME a.ok, NEW r \in a.rows, NEW s \in a.rows, Identity(r) = Identity(s) PROVE r = s
    <2>1. x.ok /\ \A p, m, n : IsShownOf(h, DayOf(t), p, m) /\ IsShownOf(h, DayOf(t), p, n) => m = n
      BY <1>1, ResultRows
    <2>2. PICK p \in x.rows : IsShownOf(h, DayOf(t), p, r)
      BY <1>1, ResultRows
    <2>3. PICK n \in x.rows : IsShownOf(h, DayOf(t), n, s)
      BY <1>1, ResultRows
    <2>4. IsPlain(h, p) /\ IsPlain(h, n)
      BY <2>1 DEF Grows
    <2>5. Mark(p) = Mark(n)
      BY <1>1, <2>2, <2>3, <2>4, IdentityIs
    <2>6. p = n
      BY <2>1, <2>5 DEF Grows, HasOneOfEach
    <2> QED
      BY <2>1, <2>2, <2>3, <2>6
  <1>2. ASSUME a.ok, b.ok, NEW r \in a.rows
        PROVE  \E s \in b.rows : Identity(s) = Identity(r) /\ VersionOf(s) >= VersionOf(r)
    <2>1. x.ok /\ y.ok
      BY <1>2, ResultRows
    <2>2. PICK p \in x.rows : IsShownOf(h, DayOf(t), p, r)
      BY <1>2, ResultRows
    <2>3. PICK n \in y.rows : Mark(n) = Mark(p) /\ VersionOf(n) >= VersionOf(p)
      BY <2>1 DEF Grows, LivesOn
    <2>4. PICK s \in b.rows : IsShownOf(h, DayOf(u), n, s)
      BY <1>2, ResultRows
    <2>5. IsPlain(h, p) /\ IsPlain(h, n)
      BY <2>1 DEF Grows
    <2>6. Identity(s) = Identity(r)
      BY <2>2, <2>3, <2>4, <2>5, IdentityIs
    <2>7. VersionOf(s) = VersionOf(n) /\ VersionOf(r) = VersionOf(p)
      BY <2>2, <2>4, <2>5, VersionShown
    <2> QED
      BY <2>3, <2>6, <2>7
  <1> QED
    BY <1>1, <1>2 DEF Remembered

-----------------------------------------------------------------------------
(* What grows: bars and the other rows of a day *)

Dailies == {"daily", "adj_factor", "daily_basic", "moneyflow", "qmt_daily", "qmt_intraday"}

\* What the queries rely on in the views.
Orderly(h, v) ==
  /\ Regular(v)
  /\ \A table \in Dailies \cup DOMAIN VersionKey : \A r \in v[table] : Canonical(h, r.code) = r.code
  /\ \A table \in Dailies : /\ \A r \in v[table] : r.date \in Nat
                            /\ ~v.checked =>
                                 \A r, s \in v[table] : (\A key \in UniqueKey[table] : r[key] = s[key]) => r = s
  /\ \A r \in v.qmt_intraday : r.end \in Nat
  /\ \A table \in DOMAIN VersionKey :
       /\ IsFiniteSet(v[table])
       /\ \A r \in v[table] : \A field \in Nullable[table] : r[field] \in Nat \cup {Missing}
       /\ \A r, s \in v[table] : (r.code = s.code /\ (\A field \in VersionKey[table] : r[field] = s[field])
                                   /\ (table = "dividend" => DividendDate(r, r.imp_ann) = DividendDate(s, s.imp_ann))) => r = s

\* What a query that looks up no session, and one without a check, give to Fetch.
Certain == TRUE
NoConflict == FALSE

LEMMA FetchOpens ==
  ASSUME NEW v, NEW gated, NEW k, NEW covered, NEW rows, Fetch(v, gated, k, covered, rows).ok
  PROVE  ~k /\ covered /\ Fetch(v, gated, k, covered, rows).rows = rows
  BY Refusing DEF Fetch, Answered

\* Rows that a view has checked are there once for their key.
LEMMA CheckedOnce ==
  ASSUME NEW h, NEW v, Orderly(h, v), NEW table \in Dailies, NEW rows, rows \subseteq v[table], ~Conflict(v, table, rows)
  PROVE  \A r, s \in rows : (\A key \in UniqueKey[table] : r[key] = s[key]) => r = s
  BY DEF Orderly, Conflict

\* Rows of one table shown by their code and day.
LEMMA PayloadsGrow ==
  ASSUME NEW h, NEW rows, NEW later, rows \subseteq later, \A r \in later : Canonical(h, r.code) = r.code,
         NEW a, NEW b, a.ok => a.rows = {Payload(r) : r \in rows}, b.ok => b.rows = {Payload(r) : r \in later},
         a.ok => \A r, s \in rows : r.code = s.code /\ r.date = s.date => r = s
  PROVE  Grows(h, a, b)
  <1>1. \A r : /\ Payload(r).code = r.code /\ Payload(r).date = r.date
               /\ DOMAIN Payload(r) = {"code", "date", "value"}
    BY DEF Payload
  <1>2. \A r \in later : IsPlain(h, Payload(r))
    BY <1>1 DEF IsPlain
  <1>3. \A r, s : Mark(Payload(r)) = Mark(Payload(s)) => r.code = s.code /\ r.date = s.date
    BY <1>1, MarkIs DEF Marks
  <1>4. ASSUME a.ok PROVE HasOneOfEach(a.rows) /\ \A r \in a.rows : IsPlain(h, r)
    BY <1>2, <1>3, <1>4 DEF HasOneOfEach
  <1>5. ASSUME a.ok, b.ok PROVE LivesOn(a.rows, b.rows) /\ \A r \in b.rows : IsPlain(h, r)
    <2>1. a.rows \subseteq b.rows
      BY <1>5
    <2>2. \A r \in a.rows : VersionOf(r) = 0
      BY <1>1, <1>5 DEF VersionOf
    <2> QED
      BY <1>2, <1>5, <2>1, <2>2 DEF LivesOn
  <1> QED
    BY <1>4, <1>5 DEF Grows

\* A request for the same of a range that ends later.
Asked == {"route", "source", "symbols", "start", "count", "forward", "frequency", "periods", "comp", "kind"}
Wider(q, p) ==
  /\ \A field \in Asked : p[field] = q[field]
  /\ p.end = q.end \/ (q.end \in Nat /\ p.end \in Nat /\ q.end <= p.end)

LEMMA WiderIs ==
  ASSUME NEW q, NEW p, Wider(q, p)
  PROVE  /\ p.symbols = q.symbols /\ p.start = q.start /\ p.count = q.count /\ p.forward = q.forward /\ p.frequency = q.frequency
         /\ p.periods = q.periods /\ p.comp = q.comp /\ p.kind = q.kind /\ p.route = q.route /\ p.source = q.source
         /\ \A n \in Int : (n < q.end => n < p.end) /\ (n <= q.end => n <= p.end)
  BY DEF Wider, Asked

LEMMA UpToIs ==
  ASSUME NEW q, Asked \cup {"end"} \subseteq DOMAIN q, NEW m \in Nat, NEW n \in Nat, m <= n
  PROVE  Wider(UpTo(q, m), UpTo(q, n)) /\ Wider(q, q) /\ \A field \in Asked : UpTo(q, m)[field] = q[field]
  <1>1. CASE q.end = Missing
    <2>1. UpTo(q, m) = [q EXCEPT !.end = m] /\ UpTo(q, n) = [q EXCEPT !.end = n]
      BY <1>1 DEF UpTo
    <2> QED
      BY <2>1 DEF Wider, Asked
  <1>2. CASE q.end # Missing
    BY <1>2 DEF Wider, UpTo
  <1> QED
    BY <1>1, <1>2

LEMMA MetricsGrow ==
  ASSUME NEW h, NEW v, Orderly(h, v), NEW t \in Nat, NEW u \in Nat, t <= u, NEW q, NEW p, Wider(q, p)
  PROVE  Grows(h, DailyMetrics(v, t, q), DailyMetrics(v, u, p))
  <1> DEFINE Reached(i, r) == {x \in v.daily_basic : InDates(r, x.date) /\ At(x.date, BasicReady) <= i}
             Rows(i, r) == WantedOf(Reached(i, r), r.symbols)
             Refusal(i, r) == Conflict(v, "daily_basic", Reached(i, r))
             Shown(i, r) == {Payload(x) : x \in Rows(i, r)}
             a == DailyMetrics(v, t, q)
             b == DailyMetrics(v, u, p)
  <1>1. a = Fetch(v, {"daily_basic"}, Refusal(t, q), Certain, Shown(t, q))
        /\ b = Fetch(v, {"daily_basic"}, Refusal(u, p), Certain, Shown(u, p))
    BY DEF DailyMetrics, Certain
  <1>2. (a.ok => a.rows = Shown(t, q) /\ ~Refusal(t, q)) /\ (b.ok => b.rows = Shown(u, p))
    <2>1. Refusal(t, q) \in BOOLEAN /\ Refusal(u, p) \in BOOLEAN
      BY DEF Conflict
    <2> HIDE DEF Shown, Refusal, a, b
    <2> QED
      BY <1>1, <2>1, FetchOpens
  <1> HIDE DEF Shown, a, b
  <1>3. Rows(t, q) \subseteq Rows(u, p)
    <2>1. \A x \in v.daily_basic : x.date \in Nat
      BY DEF Orderly, Dailies
    <2>2. \A x \in v.daily_basic : InDates(q, x.date) => InDates(p, x.date)
      BY <2>1, WiderIs DEF InDates
    <2>3. \A x \in v.daily_basic : At(x.date, BasicReady) <= t => At(x.date, BasicReady) <= u
      BY <2>1 DEF At, Times, BasicReady
    <2> QED
      BY <2>2, <2>3, WiderIs DEF WantedOf
  <1>4. Rows(u, p) \subseteq v.daily_basic
    BY DEF WantedOf
  <1>5. \A x \in v.daily_basic : Canonical(h, x.code) = x.code
    BY DEF Orderly, Dailies
  <1>6. ~Refusal(t, q) => \A x, y \in Reached(t, q) : x.code = y.code /\ x.date = y.date => x = y
    <2>1. Reached(t, q) \subseteq v.daily_basic
      OBVIOUS
    <2>2. "daily_basic" \in Dailies /\ UniqueKey["daily_basic"] = {"code", "date"}
      BY DEF Dailies, UniqueKey
    <2> HIDE DEF Reached
    <2> QED
      BY <2>1, <2>2, CheckedOnce
  <1>7. (a.ok => a.rows = {Payload(x) : x \in Rows(t, q)}) /\ (b.ok => b.rows = {Payload(x) : x \in Rows(u, p)})
    BY <1>2 DEF Shown
  <1>8. a.ok => \A x, y \in Rows(t, q) : x.code = y.code /\ x.date = y.date => x = y
    BY <1>2, <1>6 DEF WantedOf
  <1> HIDE DEF Rows
  <1>9. \A x \in Rows(u, p) : Canonical(h, x.code) = x.code
    BY <1>4, <1>5
  <1>10. Grows(h, a, b)
    BY <1>3, <1>7, <1>8, <1>9, PayloadsGrow
  <1> QED
    BY <1>10 DEF a, b

LEMMA FactorsGrow ==
  ASSUME NEW h, NEW v, Orderly(h, v), NEW t \in Nat, NEW u \in Nat, t <= u, NEW q, NEW p, Wider(q, p)
  PROVE  Grows(h, AdjustmentFactors(v, t, q), AdjustmentFactors(v, u, p))
  <1> DEFINE Reached(i, r) == {x \in v.adj_factor : InDates(r, x.date) /\ At(x.date, PreOpen) <= i}
             Rows(i, r) == WantedOf(Reached(i, r), r.symbols)
             Refusal(i, r) == Conflict(v, "adj_factor", Reached(i, r))
             Shown(i, r) == {Payload(x) : x \in Rows(i, r)}
             a == AdjustmentFactors(v, t, q)
             b == AdjustmentFactors(v, u, p)
  <1>1. a = Fetch(v, {"adj_factor"}, Refusal(t, q), Certain, Shown(t, q))
        /\ b = Fetch(v, {"adj_factor"}, Refusal(u, p), Certain, Shown(u, p))
    BY DEF AdjustmentFactors, Certain
  <1>2. (a.ok => a.rows = Shown(t, q) /\ ~Refusal(t, q)) /\ (b.ok => b.rows = Shown(u, p))
    <2>1. Refusal(t, q) \in BOOLEAN /\ Refusal(u, p) \in BOOLEAN
      BY DEF Conflict
    <2> HIDE DEF Shown, Refusal, a, b
    <2> QED
      BY <1>1, <2>1, FetchOpens
  <1> HIDE DEF Shown, a, b
  <1>3. Rows(t, q) \subseteq Rows(u, p)
    <2>1. \A x \in v.adj_factor : x.date \in Nat
      BY DEF Orderly, Dailies
    <2>2. \A x \in v.adj_factor : InDates(q, x.date) => InDates(p, x.date)
      BY <2>1, WiderIs DEF InDates
    <2>3. \A x \in v.adj_factor : At(x.date, PreOpen) <= t => At(x.date, PreOpen) <= u
      BY <2>1 DEF At, Times, PreOpen
    <2> QED
      BY <2>2, <2>3, WiderIs DEF WantedOf
  <1>4. Rows(u, p) \subseteq v.adj_factor
    BY DEF WantedOf
  <1>5. \A x \in v.adj_factor : Canonical(h, x.code) = x.code
    BY DEF Orderly, Dailies
  <1>6. ~Refusal(t, q) => \A x, y \in Reached(t, q) : x.code = y.code /\ x.date = y.date => x = y
    <2>1. Reached(t, q) \subseteq v.adj_factor
      OBVIOUS
    <2>2. "adj_factor" \in Dailies /\ UniqueKey["adj_factor"] = {"code", "date"}
      BY DEF Dailies, UniqueKey
    <2> HIDE DEF Reached
    <2> QED
      BY <2>1, <2>2, CheckedOnce
  <1>7. (a.ok => a.rows = {Payload(x) : x \in Rows(t, q)}) /\ (b.ok => b.rows = {Payload(x) : x \in Rows(u, p)})
    BY <1>2 DEF Shown
  <1>8. a.ok => \A x, y \in Rows(t, q) : x.code = y.code /\ x.date = y.date => x = y
    BY <1>2, <1>6 DEF WantedOf
  <1> HIDE DEF Rows
  <1>9. \A x \in Rows(u, p) : Canonical(h, x.code) = x.code
    BY <1>4, <1>5
  <1>10. Grows(h, a, b)
    BY <1>3, <1>7, <1>8, <1>9, PayloadsGrow
  <1> QED
    BY <1>10 DEF a, b

LEMMA MoneyflowGrows ==
  ASSUME NEW h, NEW v, Orderly(h, v), NEW t \in Nat, NEW u \in Nat, t <= u, NEW q, NEW p, Wider(q, p)
  PROVE  Grows(h, Moneyflow(v, t, q), Moneyflow(v, u, p))
  <1> DEFINE Inside(r) == {x \in WantedOf(v.moneyflow, r.symbols) : InDates(r, x.date)}
             Rows(i, r) == {x \in Inside(r) : NextSessionAt(v, x.date) <= i}
             Shown(i, r) == {Payload(x) : x \in Rows(i, r)}
             Refusal(r) == Conflict(v, "moneyflow", {x \in v.moneyflow : InDates(r, x.date)})
             Begun(r) == Covered(v, {x.date : x \in Inside(r)})
             a == Moneyflow(v, t, q)
             b == Moneyflow(v, u, p)
  <1>1. a = Fetch(v, {"moneyflow"}, Refusal(q), Begun(q), Shown(t, q))
        /\ b = Fetch(v, {"moneyflow"}, Refusal(p), Begun(p), Shown(u, p))
    <2>1. \A r : Inside(r) = WantedOf({x \in v.moneyflow : InDates(r, x.date)}, r.symbols)
      BY DEF WantedOf
    <2> HIDE DEF Inside
    <2> QED
      BY <2>1 DEF Moneyflow
  <1>2. Begun(q) \in BOOLEAN /\ Begun(p) \in BOOLEAN /\ Refusal(q) \in BOOLEAN /\ Refusal(p) \in BOOLEAN
    BY DEF Covered, Conflict
  <1> HIDE DEF Shown, Begun, Refusal, a, b
  <1>3. (a.ok => a.rows = Shown(t, q) /\ ~Refusal(q)) /\ (b.ok => b.rows = Shown(u, p))
    BY <1>1, <1>2, FetchOpens
  <1>4. a.ok => Rows(t, q) \subseteq Rows(u, p)
    <2> SUFFICES ASSUME a.ok PROVE Rows(t, q) \subseteq Rows(u, p)
      OBVIOUS
    <2>1. \A x \in v.moneyflow : x.date \in Nat
      BY DEF Orderly, Dailies
    <2>2. \A x \in v.moneyflow : InDates(q, x.date) => InDates(p, x.date)
      BY <2>1, WiderIs DEF InDates
    <2>3. Begun(q)
      BY <1>1, <1>2, FetchOpens
    <2>4. \A x \in Inside(q) : NextSessionAt(v, x.date) \in Int
      <3> TAKE x \in Inside(q)
      <3>1. OpenAfter(v, x.date) # {}
        BY <2>3 DEF Begun, Covered
      <3>2. OpenAfter(v, x.date) \in SUBSET Nat
        BY DEF OpenAfter, Orderly, Regular
      <3> QED
        BY <3>1, <3>2, LeastIs DEF NextSessionAt, At, Times, PreOpen
    <2> QED
      BY <2>2, <2>4, WiderIs DEF WantedOf
  <1>5. Rows(u, p) \subseteq v.moneyflow /\ Rows(t, q) \subseteq {x \in v.moneyflow : InDates(q, x.date)}
    BY DEF WantedOf
  <1>6. \A x \in v.moneyflow : Canonical(h, x.code) = x.code
    BY DEF Orderly, Dailies
  <1>7. ~Refusal(q) => \A x, y \in {z \in v.moneyflow : InDates(q, z.date)} : x.code = y.code /\ x.date = y.date => x = y
    <2> DEFINE reached == {z \in v.moneyflow : InDates(q, z.date)}
    <2>1. reached \subseteq v.moneyflow
      OBVIOUS
    <2>2. "moneyflow" \in Dailies /\ UniqueKey["moneyflow"] = {"code", "date"}
      BY DEF Dailies, UniqueKey
    <2>3. Refusal(q) = Conflict(v, "moneyflow", reached)
      BY DEF Refusal
    <2> HIDE DEF reached
    <2>4. ~Refusal(q) => \A x, y \in reached : x.code = y.code /\ x.date = y.date => x = y
      BY <2>1, <2>2, <2>3, CheckedOnce
    <2> QED
      BY <2>4 DEF reached
  <1>8. (a.ok => a.rows = {Payload(x) : x \in Rows(t, q)}) /\ (b.ok => b.rows = {Payload(x) : x \in Rows(u, p)})
    BY <1>3 DEF Shown
  <1>9. a.ok => \A x, y \in Rows(t, q) : x.code = y.code /\ x.date = y.date => x = y
    BY <1>3, <1>5, <1>7
  <1> HIDE DEF Rows
  <1>10. CASE a.ok
    <2>1. \A x \in Rows(u, p) : Canonical(h, x.code) = x.code
      BY <1>5, <1>6
    <2>2. Grows(h, a, b)
      BY <1>4, <1>8, <1>9, <1>10, <2>1, PayloadsGrow
    <2> QED
      BY <2>2 DEF a, b
  <1>11. CASE ~a.ok
    BY <1>11 DEF Grows, a
  <1> QED
    BY <1>10, <1>11

\* An answer has a bar for each of some rows, whatever its price.
HasBars(answer, raw) == \E price : answer.rows = {Bar(r, price[r]) : r \in raw}

LEMMA BarsGrow ==
  ASSUME NEW h, NEW raw, NEW later, raw \subseteq later, \A r \in later : Canonical(h, r.code) = r.code,
         NEW a, NEW b, a.ok => HasBars(a, raw), b.ok => HasBars(b, later),
         a.ok => \A r, s \in raw : r.code = s.code /\ r.date = s.date /\ r.end = s.end => r = s
  PROVE  Grows(h, a, b)
  <1>1. \A r, x : /\ Bar(r, x).code = r.code /\ Bar(r, x).date = r.date /\ Bar(r, x).end = r.end
                  /\ DOMAIN Bar(r, x) = {"code", "date", "end", "price"}
    BY DEF Bar
  <1>2. \A r \in later : \A x : IsPlain(h, Bar(r, x))
    BY <1>1 DEF IsPlain
  <1>3. \A r, s, x, y : Mark(Bar(r, x)) = Mark(Bar(s, y)) <=> r.code = s.code /\ r.date = s.date /\ r.end = s.end
    <2> TAKE r, s, x, y
    <2>1. DOMAIN Bar(r, x) \cap Marks(Bar(r, x)) = {"date", "end"} /\ DOMAIN Bar(s, y) \cap Marks(Bar(s, y)) = {"date", "end"}
      BY <1>1 DEF Marks
    <2> QED
      BY <1>1, <2>1, MarkIs
  <1>4. ASSUME a.ok PROVE HasOneOfEach(a.rows) /\ \A r \in a.rows : IsPlain(h, r)
    <2>1. PICK price : a.rows = {Bar(r, price[r]) : r \in raw}
      BY <1>4 DEF HasBars
    <2> QED
      BY <1>2, <1>3, <1>4, <2>1 DEF HasOneOfEach
  <1>5. ASSUME a.ok, b.ok PROVE LivesOn(a.rows, b.rows) /\ \A r \in b.rows : IsPlain(h, r)
    <2>1. PICK price : a.rows = {Bar(r, price[r]) : r \in raw}
      BY <1>5 DEF HasBars
    <2>2. PICK other : b.rows = {Bar(r, other[r]) : r \in later}
      BY <1>5 DEF HasBars
    <2>3. \A r, x : VersionOf(Bar(r, x)) = 0
      BY <1>1 DEF VersionOf
    <2>4. ASSUME NEW x \in a.rows PROVE \E y \in b.rows : Mark(y) = Mark(x) /\ VersionOf(y) >= VersionOf(x)
      <3>1. PICK r \in raw : x = Bar(r, price[r])
        BY <2>1
      <3>2. Bar(r, other[r]) \in b.rows
        BY <2>2
      <3>3. Mark(Bar(r, other[r])) = Mark(x)
        BY <1>3, <3>1
      <3> QED
        BY <2>3, <3>1, <3>2, <3>3
    <2> QED
      BY <1>2, <2>2, <2>4 DEF LivesOn
  <1> QED
    BY <1>4, <1>5 DEF Grows

LEMMA AdjustedIs ==
  ASSUME NEW fetched, NEW invalid \in BOOLEAN, AdjustedOr(fetched, invalid).ok
  PROVE  AdjustedOr(fetched, invalid) = fetched /\ ~invalid
  BY Refusing DEF AdjustedOr

LEMMA TushareForwardBars ==
  ASSUME NEW v, NEW t, NEW raw, NEW k \in BOOLEAN, TushareForward(v, t, raw, k).ok
  PROVE  ~k /\ HasBars(TushareForward(v, t, raw, k), raw)
  <1> DEFINE factors == VisibleFactors(v.adj_factor, t)
             FactorsOf(r) == {f \in factors : f.code = r.code /\ f.date = r.date}
             Anchor(code) == (CHOOSE f \in factors : f.code = code
                                /\ \A g \in factors : g.code = code => g.date <= f.date).value
             invalid == \E r \in raw : FactorsOf(r) = {} \/ Anchor(r.code) = 0
             Factor(r) == (CHOOSE f \in FactorsOf(r) : TRUE).value
             bars == {Bar(r, <<r.value * Factor(r), Anchor(r.code)>>) : r \in raw}
             shown == IF invalid THEN {} ELSE bars
             refusal == k \/ Conflict(v, "adj_factor", factors)
             fetched == Fetch(v, {"daily", "adj_factor"}, refusal, Certain, shown)
             price == [r \in raw |-> <<r.value * Factor(r), Anchor(r.code)>>]
  <1>1. TushareForward(v, t, raw, k) = AdjustedOr(fetched, invalid)
    BY DEF TushareForward, Certain
  <1>2. bars = {Bar(r, price[r]) : r \in raw}
    <2> HIDE DEF Factor, Anchor
    <2> QED
      OBVIOUS
  <1>3. invalid \in BOOLEAN /\ refusal \in BOOLEAN /\ (k => refusal)
    BY DEF Conflict
  <1> HIDE DEF invalid, bars, price, refusal, fetched
  <1>4. TushareForward(v, t, raw, k) = fetched /\ ~invalid
    BY <1>1, <1>3, AdjustedIs
  <1>5. fetched.rows = bars /\ ~refusal
    BY <1>3, <1>4, FetchOpens DEF fetched
  <1> QED
    BY <1>2, <1>3, <1>4, <1>5 DEF HasBars

LEMMA QmtForwardBars ==
  ASSUME NEW v, NEW t, NEW raw, NEW k \in BOOLEAN, QmtForward(v, t, raw, k).ok
  PROVE  ~k /\ HasBars(QmtForward(v, t, raw, k), raw)
  <1> DEFINE anchor == FactorEnd(t)
             factors == {f \in v.dividend_factors : f.ex <= anchor /\ At(f.ex, PreOpen) <= t}
             Applied(r) == {f \in factors : f.code = r.code /\ r.date < f.ex}
             invalid == \E r \in raw : \/ \E f \in Applied(r) : f.dr <= 0
                                       \/ ~FactorsSynced(v.factor_ranges, r.code, r.date, anchor)
             bars == {Bar(r, <<r.value, Compounded(Applied(r))>>) : r \in raw}
             refusal == k \/ Conflict(v, "dividend_factors", factors)
             fetched == Fetch(v, {}, refusal, Certain, bars)
             price == [r \in raw |-> <<r.value, Compounded(Applied(r))>>]
  <1>1. QmtForward(v, t, raw, k) = AdjustedOr(fetched, invalid)
    BY DEF QmtForward, Certain
  <1>2. bars = {Bar(r, price[r]) : r \in raw}
    <2> HIDE DEF Applied
    <2> QED
      OBVIOUS
  <1>3. invalid \in BOOLEAN /\ refusal \in BOOLEAN /\ (k => refusal)
    BY DEF Conflict
  <1> HIDE DEF invalid, bars, price, refusal, fetched
  <1>4. QmtForward(v, t, raw, k) = fetched /\ ~invalid
    BY <1>1, <1>3, AdjustedIs
  <1>5. fetched.rows = bars /\ ~refusal
    BY <1>3, <1>4, FetchOpens DEF fetched
  <1> QED
    BY <1>2, <1>3, <1>4, <1>5 DEF HasBars

LEMMA RawBars ==
  ASSUME NEW v, NEW gated, NEW k \in BOOLEAN, NEW raw, NEW c, c = Fetch(v, gated, k, TRUE, Raw(raw)), c.ok
  PROVE  ~k /\ HasBars(c, raw)
  <1> DEFINE price == [r \in raw |-> <<r.value, 1>>]
  <1>1. Raw(raw) = {Bar(r, price[r]) : r \in raw}
    BY DEF Raw
  <1> HIDE DEF price
  <1>2. c = Fetch(v, gated, k, Certain, Raw(raw))
    BY DEF Certain
  <1> DEFINE rows == Raw(raw)
  <1>3. Fetch(v, gated, k, Certain, rows).ok
    BY <1>2
  <1> HIDE DEF rows
  <1>4. Fetch(v, gated, k, Certain, rows).rows = rows /\ ~k
    BY <1>3, FetchOpens
  <1>5. c.rows = Raw(raw)
    BY <1>2, <1>4 DEF rows
  <1> QED
    BY <1>1, <1>4, <1>5 DEF HasBars

\* A range of daily bars widens, and keeps one bar of a day.
LEMMA DailyWidens ==
  ASSUME NEW rows, \A r \in rows : r.date \in Nat, NEW t \in Nat, NEW u \in Nat, t <= u, NEW q, NEW p, Wider(q, p), q.count = 0
  PROVE  Daily(rows, t, q) \subseteq Daily(rows, u, p) /\ Daily(rows, u, p) \subseteq rows
  <1>1. p.count = 0 /\ p.start = q.start /\ \A n \in Int : n < q.end => n < p.end
    BY WiderIs
  <1>2. \A i, r : r.count = 0 => Daily(rows, i, r) = {x \in rows : /\ At(x.date, DailyReady) <= i
                                                                  /\ r.start <= At(x.date, Open) /\ At(x.date, Open) < r.end}
    BY DEF Daily, Completed
  <1>3. \A x \in rows : At(x.date, Open) \in Int /\ (At(x.date, DailyReady) <= t => At(x.date, DailyReady) <= u)
    BY DEF At, Times, Open, DailyReady
  <1> QED
    BY <1>1, <1>2, <1>3

LEMMA DayBarsGrow ==
  ASSUME NEW h, NEW rows, NEW later, rows \subseteq later, \A r \in later : Canonical(h, r.code) = r.code, NEW a, NEW b,
         a.ok => HasBars(a, {DayBar(r) : r \in rows}), b.ok => HasBars(b, {DayBar(r) : r \in later}),
         a.ok => \A r, s \in rows : r.code = s.code /\ r.date = s.date => r = s
  PROVE  Grows(h, a, b)
  <1> DEFINE raw == {DayBar(r) : r \in rows}
             rest == {DayBar(r) : r \in later}
  <1>1. \A r : DayBar(r).code = r.code /\ DayBar(r).date = r.date
    BY DEF DayBar
  <1>2. raw \subseteq rest /\ \A r \in rest : Canonical(h, r.code) = r.code
    BY <1>1
  <1>3. a.ok => \A r, s \in raw : r.code = s.code /\ r.date = s.date /\ r.end = s.end => r = s
    BY <1>1
  <1> HIDE DEF raw, rest
  <1> QED
    BY <1>2, <1>3, BarsGrow DEF raw, rest

LEMMA TushareDailyGrows ==
  ASSUME NEW h, NEW v, Orderly(h, v), NEW t \in Nat, NEW u \in Nat, t <= u, NEW q, NEW p, Wider(q, p), q.count = 0
  PROVE  Grows(h, TushareDaily(v, t, q), TushareDaily(v, u, p))
  <1> DEFINE Rows(i, r) == Daily(WantedOf(v.daily, r.symbols), i, r)
             Of(i, r) == {DayBar(x) : x \in Rows(i, r)}
             Refusal(i, r) == Conflict(v, "daily", Completed(v.daily, i, r))
             a == TushareDaily(v, t, q)
             b == TushareDaily(v, u, p)
  <1>1. ASSUME NEW i, NEW r, TushareDaily(v, i, r).ok
        PROVE  ~Refusal(i, r) /\ HasBars(TushareDaily(v, i, r), Of(i, r))
    <2>1. TushareDaily(v, i, r) = IF r.forward THEN TushareForward(v, i, Of(i, r), Refusal(i, r))
                                  ELSE Fetch(v, {"daily"}, Refusal(i, r), TRUE, Raw(Of(i, r)))
      BY DEF TushareDaily
    <2>2. Refusal(i, r) \in BOOLEAN
      BY DEF Conflict
    <2> HIDE DEF Of, Refusal
    <2>3. CASE r.forward
      BY <1>1, <2>1, <2>2, <2>3, TushareForwardBars
    <2>4. CASE ~r.forward
      <3>1. TushareDaily(v, i, r) = Fetch(v, {"daily"}, Refusal(i, r), TRUE, Raw(Of(i, r)))
        BY <2>1, <2>4
      <3> QED
        BY <1>1, <2>2, <3>1, RawBars
    <2> QED
      BY <2>3, <2>4
  <1>2. WantedOf(v.daily, p.symbols) = WantedOf(v.daily, q.symbols) /\ WantedOf(v.daily, q.symbols) \subseteq v.daily
    BY WiderIs DEF WantedOf
  <1>3. \A r \in v.daily : r.date \in Nat /\ Canonical(h, r.code) = r.code
    BY DEF Orderly, Dailies
  <1>4. Rows(t, q) \subseteq Rows(u, p) /\ Rows(u, p) \subseteq v.daily
    <2> DEFINE wanted == WantedOf(v.daily, q.symbols)
    <2>1. Rows(t, q) = Daily(wanted, t, q) /\ Rows(u, p) = Daily(wanted, u, p)
      BY <1>2
    <2>2. wanted \subseteq v.daily /\ \A r \in wanted : r.date \in Nat
      BY <1>2, <1>3
    <2> HIDE DEF wanted, Rows
    <2>3. Daily(wanted, t, q) \subseteq Daily(wanted, u, p) /\ Daily(wanted, u, p) \subseteq wanted
      BY <2>2, DailyWidens
    <2> QED
      BY <2>1, <2>2, <2>3
  <1>5. ~Refusal(t, q) => \A r, s \in Completed(v.daily, t, q) : r.code = s.code /\ r.date = s.date => r = s
    <2>1. "daily" \in Dailies /\ UniqueKey["daily"] = {"code", "date"}
      BY DEF Dailies, UniqueKey
    <2>2. Completed(v.daily, t, q) \subseteq v.daily
      BY DEF Completed
    <2> QED
      BY <2>1, <2>2, CheckedOnce
  <1>6. Rows(t, q) \subseteq Completed(v.daily, t, q)
    BY DEF Daily, Completed, WantedOf
  <1>7. (a.ok => ~Refusal(t, q) /\ HasBars(a, Of(t, q))) /\ (b.ok => HasBars(b, Of(u, p)))
    BY <1>1
  <1> HIDE DEF a, b, Rows, Refusal
  <1>8. a.ok => \A r, s \in Rows(t, q) : r.code = s.code /\ r.date = s.date => r = s
    BY <1>5, <1>6, <1>7
  <1>9. Grows(h, a, b)
    BY <1>3, <1>4, <1>7, <1>8, DayBarsGrow
  <1> QED
    BY <1>9 DEF a, b

LEMMA QmtDailyGrows ==
  ASSUME NEW h, NEW v, Orderly(h, v), NEW t \in Nat, NEW u \in Nat, t <= u, NEW q, NEW p, Wider(q, p), q.count = 0
  PROVE  Grows(h, QmtDaily(v, t, q), QmtDaily(v, u, p))
  <1> DEFINE some == Unadjusted(v.qmt_daily)
             Rows(i, r) == Daily(WantedOf(some, r.symbols), i, r)
             Of(i, r) == {DayBar(x) : x \in Rows(i, r)}
             Refusal(i, r) == Conflict(v, "qmt_daily", Completed(some, i, r))
             a == QmtDaily(v, t, q)
             b == QmtDaily(v, u, p)
  <1>1. ASSUME NEW i, NEW r, QmtDaily(v, i, r).ok
        PROVE  ~Refusal(i, r) /\ HasBars(QmtDaily(v, i, r), Of(i, r))
    <2>1. QmtDaily(v, i, r) = IF r.forward THEN QmtForward(v, i, Of(i, r), Refusal(i, r))
                              ELSE Fetch(v, {}, Refusal(i, r), TRUE, Raw(Of(i, r)))
      BY DEF QmtDaily
    <2>2. Refusal(i, r) \in BOOLEAN
      BY DEF Conflict
    <2> HIDE DEF Of, Refusal
    <2>3. CASE r.forward
      BY <1>1, <2>1, <2>2, <2>3, QmtForwardBars
    <2>4. CASE ~r.forward
      <3>1. QmtDaily(v, i, r) = Fetch(v, {}, Refusal(i, r), TRUE, Raw(Of(i, r)))
        BY <2>1, <2>4
      <3> QED
        BY <1>1, <2>2, <3>1, RawBars
    <2> QED
      BY <2>3, <2>4
  <1>2. some \subseteq v.qmt_daily /\ \A r \in some : r.adjustment = "none"
    BY DEF Unadjusted
  <1>3. \A r \in v.qmt_daily : r.date \in Nat /\ Canonical(h, r.code) = r.code
    BY DEF Orderly, Dailies
  <1> HIDE DEF some
  <1>4. Rows(t, q) \subseteq Rows(u, p) /\ Rows(u, p) \subseteq some
    <2> DEFINE wanted == WantedOf(some, q.symbols)
    <2>1. Rows(t, q) = Daily(wanted, t, q) /\ Rows(u, p) = Daily(wanted, u, p)
      BY WiderIs
    <2>2. wanted \subseteq some /\ \A r \in wanted : r.date \in Nat
      BY <1>2, <1>3 DEF WantedOf
    <2> HIDE DEF wanted, Rows
    <2>3. Daily(wanted, t, q) \subseteq Daily(wanted, u, p) /\ Daily(wanted, u, p) \subseteq wanted
      BY <2>2, DailyWidens
    <2> QED
      BY <2>1, <2>2, <2>3
  <1>5. ~Refusal(t, q) => \A r, s \in Completed(some, t, q) :
          r.code = s.code /\ r.date = s.date /\ r.adjustment = s.adjustment => r = s
    <2>1. "qmt_daily" \in Dailies /\ UniqueKey["qmt_daily"] = {"code", "date", "adjustment"}
      BY DEF Dailies, UniqueKey
    <2>2. Completed(some, t, q) \subseteq v.qmt_daily
      BY <1>2 DEF Completed
    <2> QED
      BY <2>1, <2>2, CheckedOnce
  <1>6. Rows(t, q) \subseteq Completed(some, t, q)
    BY DEF Daily, Completed, WantedOf
  <1>7. (a.ok => ~Refusal(t, q) /\ HasBars(a, Of(t, q))) /\ (b.ok => HasBars(b, Of(u, p)))
    BY <1>1
  <1> HIDE DEF a, b, Rows, Refusal
  <1>8. a.ok => \A r, s \in Rows(t, q) : r.code = s.code /\ r.date = s.date => r = s
    BY <1>2, <1>4, <1>5, <1>6, <1>7
  <1>9. \A r \in Rows(u, p) : Canonical(h, r.code) = r.code
    BY <1>2, <1>3, <1>4
  <1>10. Grows(h, a, b)
    BY <1>4, <1>7, <1>8, <1>9, DayBarsGrow
  <1> QED
    BY <1>10 DEF a, b

LEMMA QmtIntradayGrows ==
  ASSUME NEW h, NEW v, Orderly(h, v), NEW t \in Nat, NEW u \in Nat, t <= u, NEW q, NEW p, Wider(q, p), q.count = 0
  PROVE  Grows(h, QmtIntraday(v, t, q), QmtIntraday(v, u, p))
  <1> DEFINE some == Unadjusted(v.qmt_intraday)
             Rows(i, r) == Intraday(WantedOf(some, r.symbols), i, r)
             Refusal(i, r) == Conflict(v, "qmt_intraday", Ended(some, i, r))
             a == QmtIntraday(v, t, q)
             b == QmtIntraday(v, u, p)
  <1>1. ASSUME NEW i, NEW r, QmtIntraday(v, i, r).ok
        PROVE  ~Refusal(i, r) /\ HasBars(QmtIntraday(v, i, r), Rows(i, r))
    <2>1. QmtIntraday(v, i, r) = IF r.forward THEN QmtForward(v, i, Rows(i, r), Refusal(i, r))
                                 ELSE Fetch(v, {}, Refusal(i, r), TRUE, Raw(Rows(i, r)))
      BY DEF QmtIntraday
    <2>2. Refusal(i, r) \in BOOLEAN
      BY DEF Conflict
    <2> HIDE DEF Rows, Refusal
    <2>3. CASE r.forward
      BY <1>1, <2>1, <2>2, <2>3, QmtForwardBars
    <2>4. CASE ~r.forward
      <3>1. QmtIntraday(v, i, r) = Fetch(v, {}, Refusal(i, r), TRUE, Raw(Rows(i, r)))
        BY <2>1, <2>4
      <3> QED
        BY <1>1, <2>2, <3>1, RawBars
    <2> QED
      BY <2>3, <2>4
  <1>2. some \subseteq v.qmt_intraday /\ \A r \in some : r.adjustment = "none"
    BY DEF Unadjusted
  <1>3. \A r \in v.qmt_intraday : r.date \in Nat /\ r.end \in Nat /\ Canonical(h, r.code) = r.code
    BY DEF Orderly, Dailies
  <1> HIDE DEF some
  <1>4. Rows(t, q) \subseteq Rows(u, p) /\ Rows(u, p) \subseteq some
    <2>1. p.count = 0 /\ p.start = q.start /\ p.symbols = q.symbols /\ \A n \in Int : n < q.end => n < p.end
      BY WiderIs
    <2>2. \A i, r : r.count = 0 => Rows(i, r) = {x \in WantedOf(some, r.symbols) :
                                                  x.end <= i /\ r.start <= StartOf(x) /\ StartOf(x) < r.end}
      BY DEF Intraday, Ended
    <2>3. \A x \in some : StartOf(x) \in Int /\ (x.end <= t => x.end <= u)
      BY <1>2, <1>3 DEF StartOf, At, Times, Auction
    <2>4. WantedOf(some, q.symbols) \subseteq some
      BY DEF WantedOf
    <2> HIDE DEF Rows
    <2> QED
      BY <2>1, <2>2, <2>3, <2>4
  <1>5. ~Refusal(t, q) => \A r, s \in Ended(some, t, q) :
          r.code = s.code /\ r.end = s.end /\ r.adjustment = s.adjustment => r = s
    <2>1. "qmt_intraday" \in Dailies /\ UniqueKey["qmt_intraday"] = {"code", "end", "adjustment"}
      BY DEF Dailies, UniqueKey
    <2>2. Ended(some, t, q) \subseteq v.qmt_intraday
      BY <1>2 DEF Ended
    <2> QED
      BY <2>1, <2>2, CheckedOnce
  <1>6. Rows(t, q) \subseteq Ended(some, t, q)
    BY DEF Intraday, Ended, WantedOf
  <1>7. (a.ok => ~Refusal(t, q) /\ HasBars(a, Rows(t, q))) /\ (b.ok => HasBars(b, Rows(u, p)))
    BY <1>1
  <1> HIDE DEF a, b, Rows, Refusal
  <1>8. a.ok => \A r, s \in Rows(t, q) : r.code = s.code /\ r.date = s.date /\ r.end = s.end => r = s
    BY <1>2, <1>4, <1>5, <1>6, <1>7
  <1>9. \A r \in Rows(u, p) : Canonical(h, r.code) = r.code
    BY <1>2, <1>3, <1>4
  <1>10. Grows(h, a, b)
    BY <1>4, <1>7, <1>8, <1>9, BarsGrow
  <1> QED
    BY <1>10 DEF a, b

-----------------------------------------------------------------------------
(* What grows: the newest versions *)

\* The first in its group of near or far versions.
Newest(rows, group, rank) == {r \in rows : \A s \in rows : group[r] = group[s] => ~Before(rank[r], rank[s])}

\* Versions of which the first of each group is shown, near and far.
Chosen(h, near, far, n, rank, group, keep, shown, a, b) ==
  /\ near \subseteq far /\ IsFiniteSet(far) /\ n \in Nat \ {0} /\ rank \in [far -> RankOf(n)]
  /\ \A r, s \in far : group[r] = group[s] => (r \in keep <=> s \in keep)
  /\ \A r, s \in far : group[r] = group[s] /\ rank[r] = rank[s] => r = s
  /\ \A r \in far : IsPlain(h, shown[r])
  /\ \A r, s \in far : Mark(shown[r]) = Mark(shown[s]) <=> group[r] = group[s]
  /\ a.ok => \A r, s \in far : rank[r][1] <= rank[s][1] => VersionOf(shown[s]) >= VersionOf(shown[r])
  /\ a.ok => a.rows = {shown[r] : r \in Newest(near, group, rank) \cap keep}
  /\ b.ok => b.rows = {shown[r] : r \in Newest(far, group, rank) \cap keep}

\* Of each group the newest version is shown.  With more versions it is the same or a later one.
LEMMA NewestGrow ==
  ASSUME NEW h, NEW near, NEW far, NEW n, NEW rank, NEW group, NEW keep, NEW shown, NEW a, NEW b,
         Chosen(h, near, far, n, rank, group, keep, shown, a, b)
  PROVE  Grows(h, a, b)
  <1> SUFFICES ASSUME near \subseteq far, IsFiniteSet(far), n \in Nat \ {0}, rank \in [far -> RankOf(n)],
                      \A r, s \in far : group[r] = group[s] => (r \in keep <=> s \in keep),
                      \A r, s \in far : group[r] = group[s] /\ rank[r] = rank[s] => r = s,
                      \A r \in far : IsPlain(h, shown[r]),
                      \A r, s \in far : Mark(shown[r]) = Mark(shown[s]) <=> group[r] = group[s],
                      a.ok => \A r, s \in far : rank[r][1] <= rank[s][1] => VersionOf(shown[s]) >= VersionOf(shown[r]),
                      a.ok => a.rows = {shown[r] : r \in Newest(near, group, rank) \cap keep},
                      b.ok => b.rows = {shown[r] : r \in Newest(far, group, rank) \cap keep}
               PROVE  Grows(h, a, b)
    BY DEF Chosen
  <1>1. \A r, s, x \in far : /\ ~Before(rank[r], rank[r])
                             /\ Before(rank[r], rank[s]) /\ Before(rank[s], rank[x]) => Before(rank[r], rank[x])
                             /\ ~Before(rank[r], rank[s]) /\ ~Before(rank[s], rank[r]) => rank[r] = rank[s]
    BY BeforeOrders
  <1>2. \A r, s \in far : ~Before(rank[s], rank[r]) => rank[r][1] <= rank[s][1]
    <2> TAKE r, s \in far
    <2>1. /\ 1 \in 1 .. n /\ rank[r][1] \in Int /\ rank[s][1] \in Int /\ DOMAIN rank[s] = 1 .. n
      BY DEF RankOf
    <2>2. ASSUME rank[s][1] < rank[r][1] PROVE Before(rank[s], rank[r])
      BY <2>1, <2>2 DEF Before
    <2> QED
      BY <2>1, <2>2
  <1>3. Newest(near, group, rank) \subseteq near /\ Newest(far, group, rank) \subseteq far
    BY DEF Newest
  <1>4. ASSUME a.ok, NEW x \in a.rows, NEW y \in a.rows, Mark(x) = Mark(y) PROVE x = y
    <2>1. PICK r \in Newest(near, group, rank) : x = shown[r]
      BY <1>4
    <2>2. PICK s \in Newest(near, group, rank) : y = shown[s]
      BY <1>4
    <2>3. group[r] = group[s] /\ r \in near /\ s \in near /\ r \in far /\ s \in far
      BY <1>3, <1>4, <2>1, <2>2
    <2>4. ~Before(rank[r], rank[s]) /\ ~Before(rank[s], rank[r])
      BY <2>3 DEF Newest
    <2>5. rank[r] = rank[s]
      BY <1>1, <2>3, <2>4
    <2> QED
      BY <2>1, <2>2, <2>3, <2>5
  <1>5. ASSUME a.ok, b.ok, NEW x \in a.rows PROVE \E y \in b.rows : Mark(y) = Mark(x) /\ VersionOf(y) >= VersionOf(x)
    <2>1. PICK r \in Newest(near, group, rank) \cap keep : x = shown[r]
      BY <1>5
    <2> DEFINE own == {z \in far : group[z] = group[r]}
    <2>2. r \in own /\ IsFiniteSet(own) /\ [z \in own |-> rank[z]] \in [own -> RankOf(n)]
      BY <1>3, <2>1, FS_Subset
    <2>3. PICK s \in own : \A z \in own : ~Before(rank[s], rank[z])
      <3>1. PICK f : f = [z \in own |-> rank[z]]
        OBVIOUS
      <3>2. f \in [own -> RankOf(n)] /\ \A z \in own : f[z] = rank[z]
        BY <2>2, <3>1
      <3> HIDE DEF own
      <3>3. own # {} /\ n \in Nat
        BY <2>2
      <3>4. \E z \in own : \A y \in own : ~Before(f[z], f[y])
        BY ONLY <2>2, <3>2, <3>3, HighestRank
      <3> QED
        BY <3>2, <3>4
    <2>4. s \in Newest(far, group, rank)
      BY <2>3 DEF Newest
    <2>5. s \in keep /\ r \in far /\ s \in far /\ group[s] = group[r]
      BY <1>3, <2>1, <2>3
    <2>6. rank[r][1] <= rank[s][1]
      BY <1>2, <2>2, <2>3, <2>5
    <2>7. shown[s] \in b.rows
      BY <1>5, <2>4, <2>5
    <2>8. VersionOf(shown[s]) >= VersionOf(shown[r])
      BY <1>5, <2>5, <2>6
    <2> QED
      BY <2>1, <2>5, <2>7, <2>8
  <1>6. (a.ok => \A x \in a.rows : IsPlain(h, x)) /\ (b.ok => \A x \in b.rows : IsPlain(h, x))
    BY <1>3
  <1> QED
    BY <1>4, <1>5, <1>6 DEF Grows, HasOneOfEach, LivesOn

\* The next session of a later day does not come sooner.
LEMMA SessionsInOrder ==
  ASSUME NEW v, \A c \in v.trade_cal : c.date \in Nat, NEW d \in Int, NEW e \in Int, d <= e,
         OpenAfter(v, d) # {}, OpenAfter(v, e) # {}
  PROVE  /\ NextSessionAt(v, d) \in Int /\ NextSessionAt(v, e) \in Int
         /\ NextSessionAt(v, d) <= NextSessionAt(v, e)
  <1> DEFINE D == OpenAfter(v, d)
             E == OpenAfter(v, e)
  <1>1. D \in SUBSET Nat /\ E \in SUBSET Nat /\ E \subseteq D
    BY DEF OpenAfter
  <1> HIDE DEF D, E
  <1>2. /\ D # {} /\ E # {}
    BY DEF D, E
  <1>3. Min(D) \in D /\ Min(E) \in E /\ \A m \in D : Min(D) <= m
    BY <1>1, <1>2, LeastIs
  <1>4. Min(D) \in Nat /\ Min(E) \in Nat /\ Min(D) <= Min(E)
    BY <1>1, <1>3
  <1>5. NextSessionAt(v, d) = Min(D) * Times + PreOpen /\ NextSessionAt(v, e) = Min(E) * Times + PreOpen
    BY DEF NextSessionAt, At, D, E
  <1> QED
    BY <1>4, <1>5 DEF Times, PreOpen

\* Of statements the newest one of a company type and a report's end is shown.
LEMMA StatementsGrow ==
  ASSUME NEW h, NEW v, Orderly(h, v), NEW t \in Nat, NEW u \in Nat, t <= u, NEW q, q.periods = 0
  PROVE  Grows(h, Statements(v, t, q), Statements(v, u, q))
  <1> DEFINE All == {r \in WantedOf(v.income, q.symbols) : r.f_ann # Missing /\ r.type \in {1, 4} /\ InReports(q, r.end)}
             Visible(i) == {r \in All : NextSessionAt(v, r.f_ann) <= i}
             rank == [r \in All |-> StatementRank(r)]
             group == [r \in All |-> <<r.code, r.end, r.comp>>]
             keep == {r \in All : q.comp = Missing \/ r.comp = q.comp}
             shown == [r \in All |-> [code |-> r.code, end |-> r.end, visible |-> NextSessionAt(v, r.f_ann), f_ann |-> r.f_ann,
                                      comp |-> r.comp, value |-> r.value]]
             Shown(i) == {shown[r] : r \in Newest(Visible(i), group, rank) \cap keep}
             begun == Covered(v, {r.f_ann : r \in All})
             a == Statements(v, t, q)
             b == Statements(v, u, q)
  <1>1. ASSUME NEW i PROVE Statements(v, i, q) = Fetch(v, {"income"}, NoConflict, begun, Shown(i))
    <2> DEFINE latest == LatestStatements(v, i, All)
    <2>1. Newest(Visible(i), group, rank) = latest
      BY DEF Newest, LatestStatements, Latest, SameStatement
    <2>2. \A x : InPeriods(latest, q, x)
      BY DEF InPeriods
    <2>3. latest \subseteq All
      BY DEF LatestStatements, Latest
    <2>4. Statements(v, i, q)
            = Fetch(v, {"income"}, NoConflict, begun,
                {[code |-> r.code, end |-> r.end, visible |-> NextSessionAt(v, r.f_ann), f_ann |-> r.f_ann,
                  comp |-> r.comp, value |-> r.value]
                 : r \in {x \in latest : InPeriods(latest, q, x) /\ (q.comp = Missing \/ x.comp = q.comp)}})
      BY DEF Statements, NoConflict
    <2> HIDE DEF latest
    <2>5. {x \in latest : InPeriods(latest, q, x) /\ (q.comp = Missing \/ x.comp = q.comp)} = latest \cap keep
      BY <2>2, <2>3
    <2> DEFINE chosen == latest \cap keep
               Whole(r) == [code |-> r.code, end |-> r.end, visible |-> NextSessionAt(v, r.f_ann), f_ann |-> r.f_ann,
                            comp |-> r.comp, value |-> r.value]
    <2>6. \A r \in chosen : shown[r] = Whole(r)
      BY <2>3
    <2>7. Statements(v, i, q) = Fetch(v, {"income"}, NoConflict, begun, {Whole(r) : r \in chosen})
      BY <2>4, <2>5
    <2>8. Shown(i) = {shown[r] : r \in chosen}
      BY <2>1
    <2> HIDE DEF shown, Shown, begun, chosen, Whole
    <2>9. {Whole(r) : r \in chosen} = {shown[r] : r \in chosen}
      BY ONLY <2>6
    <2> QED
      BY ONLY <2>7, <2>8, <2>9
  <1>2. /\ All \subseteq v.income /\ IsFiniteSet(v.income)
        /\ \A r \in v.income : /\ Canonical(h, r.code) = r.code /\ r.f_ann \in Nat \cup {Missing}
                               /\ r.ann \in Nat \cup {Missing} /\ r.flag \in Nat \cup {Missing}
        /\ \A r, s \in v.income : (r.code = s.code /\ \A field \in VersionKey["income"] : r[field] = s[field]) => r = s
    <2>1. "income" \in DOMAIN VersionKey /\ "income" # "dividend" /\ Nullable["income"] = {"f_ann", "ann", "flag"}
      BY DEF VersionKey, Nullable
    <2>2. All \subseteq v.income
      BY DEF WantedOf
    <2> QED
      BY <2>1, <2>2 DEF Orderly
  <1>3. begun \in BOOLEAN
    BY DEF Covered
  <1>4. ASSUME begun, NEW r \in All, NEW s \in All, r.f_ann <= s.f_ann
        PROVE  NextSessionAt(v, r.f_ann) <= NextSessionAt(v, s.f_ann)
    <2>1. OpenAfter(v, r.f_ann) # {} /\ OpenAfter(v, s.f_ann) # {}
      BY <1>4 DEF Covered
    <2>2. r.f_ann \in Int /\ s.f_ann \in Int
      BY <1>2
    <2> QED
      BY <1>4, <2>1, <2>2, SessionsInOrder DEF Orderly, Regular
  <1>5. ASSUME begun, NEW r \in All PROVE NextSessionAt(v, r.f_ann) \in Int
    <2>1. OpenAfter(v, r.f_ann) # {}
      BY <1>5 DEF Covered
    <2>2. r.f_ann \in Int
      BY <1>2
    <2> QED
      BY <2>1, <2>2, SessionsInOrder DEF Orderly, Regular
  <1>6. rank \in [All -> RankOf(4)] /\ \A r \in All : rank[r][1] = r.f_ann
    <2>1. ASSUME NEW r \in All PROVE StatementRank(r) \in RankOf(4) /\ StatementRank(r)[1] = r.f_ann
      <3>1. r.f_ann \in Int /\ r.ann \in Int /\ r.flag \in Int /\ (IF r.type = 4 THEN 1 ELSE 0) \in Int
        BY <1>2, MissingAssumption
      <3> QED
        BY <3>1 DEF StatementRank, RankOf
    <2> HIDE DEF All
    <2> QED
      BY <2>1
  <1>7. \A r, s \in All : group[r] = group[s] => (r \in keep <=> s \in keep)
    OBVIOUS
  <1>8. ASSUME NEW r \in All, NEW s \in All, group[r] = group[s], rank[r] = rank[s] PROVE r = s
    <2>1. r.code = s.code /\ r.end = s.end /\ r.comp = s.comp
      BY <1>8
    <2>2. StatementRank(r) = StatementRank(s)
      BY <1>8
    <2>3. r.f_ann = s.f_ann /\ r.ann = s.ann /\ r.flag = s.flag /\ (r.type = 4 <=> s.type = 4)
      BY <2>2 DEF StatementRank
    <2>4. r.type = s.type
      BY <2>3
    <2>5. \A field \in VersionKey["income"] : r[field] = s[field]
      BY <2>1, <2>3, <2>4 DEF VersionKey
    <2> QED
      BY <1>2, <2>1, <2>5
  <1>9. \A r \in All : /\ shown[r].code = r.code /\ shown[r].end = r.end /\ shown[r].comp = r.comp
                       /\ shown[r].visible = NextSessionAt(v, r.f_ann)
                       /\ DOMAIN shown[r] = {"code", "end", "visible", "f_ann", "comp", "value"}
    OBVIOUS
  <1>10. \A r, s \in All : group[r] = group[s] <=> r.code = s.code /\ r.end = s.end /\ r.comp = s.comp
    OBVIOUS
  <1> HIDE DEF shown, rank, group, keep
  <1>11. \A r \in All : IsPlain(h, shown[r])
    BY <1>2, <1>9 DEF IsPlain
  <1>12. \A r, s \in All : Mark(shown[r]) = Mark(shown[s]) <=> group[r] = group[s]
    <2> TAKE r, s \in All
    <2>1. DOMAIN shown[r] \cap Marks(shown[r]) = {"end", "comp"} /\ DOMAIN shown[s] \cap Marks(shown[s]) = {"end", "comp"}
      BY <1>9 DEF Marks
    <2>2. Mark(shown[r]) = Mark(shown[s]) <=>
            shown[r].code = shown[s].code /\ \A field \in {"end", "comp"} : shown[r][field] = shown[s][field]
      BY <2>1, MarkIs
    <2> QED
      BY <1>9, <1>10, <2>2
  <1> HIDE DEF All, Shown, begun
  <1>13. (a.ok => begun /\ a.rows = Shown(t)) /\ (b.ok => b.rows = Shown(u))
    BY <1>1, <1>3, FetchOpens
  <1>14. a.ok => \A r, s \in All : rank[r][1] <= rank[s][1] => VersionOf(shown[s]) >= VersionOf(shown[r])
    BY <1>4, <1>5, <1>6, <1>9, <1>13 DEF VersionOf
  <1>15. IsFiniteSet(All)
    BY <1>2, FS_Subset
  <1> HIDE DEF a, b
  <1>16. ASSUME a.ok PROVE Visible(t) \subseteq Visible(u)
    BY <1>5, <1>13, <1>16
  <1>17. Visible(u) \subseteq All /\ Visible(t) \subseteq All
    OBVIOUS
  <1> DEFINE near == Visible(t)
             far == Visible(u)
             r4 == [r \in far |-> rank[r]]
  <1>18. r4 \in [far -> RankOf(4)] /\ IsFiniteSet(far) /\ 4 \in Nat \ {0}
    BY <1>6, <1>15, <1>17, FS_Subset
  <1>19. \A r \in far : r4[r] = rank[r]
    OBVIOUS
  <1> HIDE DEF Visible, r4
  <1>20. CASE a.ok
    <2>1. near \subseteq far
      BY <1>16, <1>20
    <2>2. Newest(near, group, r4) = Newest(near, group, rank) /\ Newest(far, group, r4) = Newest(far, group, rank)
      BY <1>19, <2>1 DEF Newest
    <2>3. a.rows = {shown[r] : r \in Newest(near, group, r4) \cap keep}
      BY <1>13, <1>20, <2>2 DEF Shown
    <2>4. b.ok => b.rows = {shown[r] : r \in Newest(far, group, r4) \cap keep}
      BY <1>13, <2>2 DEF Shown
    <2>5. \A r, s \in far : group[r] = group[s] => (r \in keep <=> s \in keep)
      BY <1>7, <1>17
    <2>6. \A r, s \in far : group[r] = group[s] /\ r4[r] = r4[s] => r = s
      BY <1>8, <1>17, <1>19
    <2>7. \A r \in far : IsPlain(h, shown[r])
      BY <1>11, <1>17
    <2>8. \A r, s \in far : Mark(shown[r]) = Mark(shown[s]) <=> group[r] = group[s]
      BY <1>12, <1>17
    <2>9. \A r, s \in far : r4[r][1] <= r4[s][1] => VersionOf(shown[s]) >= VersionOf(shown[r])
      BY <1>14, <1>17, <1>19, <1>20
    <2> HIDE DEF near, far
    <2>10. Grows(h, a, b)
      <3>1. Chosen(h, near, far, 4, r4, group, keep, shown, a, b)
        BY ONLY <1>18, <2>1, <2>3, <2>4, <2>5, <2>6, <2>7, <2>8, <2>9 DEF Chosen
      <3> QED
        BY ONLY <3>1, NewestGrow
    <2> QED
      BY <2>10 DEF a, b
  <1>21. CASE ~a.ok
    BY <1>21 DEF Grows, a
  <1> QED
    BY <1>20, <1>21

\* The newest report of each end.
Reported(v, rows, rank) ==
  {Announced(v, r) : r \in {x \in rows : \A y \in rows : SameReport(x, y) => ~Before(rank[x], rank[y])}}

\* Reports of one of the tables that are announced, the first of each end shown, near and far.
Disclosed(v, table, near, far, n, rank, a, b) ==
  /\ near \subseteq v[table] /\ far \subseteq v[table] /\ n \in Nat \ {0} /\ rank \in [v[table] -> RankOf(n)]
  /\ \A r \in near \cup far : r.ann \in Int /\ rank[r][1] = r.ann
  /\ \A r, s \in v[table] : SameReport(r, s) /\ rank[r] = rank[s] => r = s
  /\ a.ok => near \subseteq far /\ \A r \in far : OpenAfter(v, r.ann) # {}
  /\ a.ok => a.rows = Reported(v, near, rank)
  /\ b.ok => b.rows = Reported(v, far, rank)

LEMMA AnnouncedGrow ==
  ASSUME NEW h, NEW v, Orderly(h, v), NEW table \in {"fina_indicator", "forecast", "fina_audit"},
         NEW near, NEW far, NEW n, NEW rank, NEW a, NEW b, Disclosed(v, table, near, far, n, rank, a, b)
  PROVE  Grows(h, a, b)
  <1>1. CASE ~a.ok
    BY <1>1 DEF Grows
  <1>2. CASE a.ok
    <2> DEFINE group == [r \in far |-> <<r.code, r.end>>]
               own == [r \in far |-> rank[r]]
               shown == [r \in far |-> Announced(v, r)]
    <2>1. /\ near \subseteq far /\ far \subseteq v[table] /\ n \in Nat \ {0} /\ rank \in [v[table] -> RankOf(n)]
          /\ \A r \in far : r.ann \in Int /\ rank[r][1] = r.ann /\ OpenAfter(v, r.ann) # {}
          /\ \A r, s \in v[table] : SameReport(r, s) /\ rank[r] = rank[s] => r = s
          /\ a.rows = Reported(v, near, rank)
          /\ b.ok => b.rows = Reported(v, far, rank)
      BY <1>2 DEF Disclosed
    <2>2. IsFiniteSet(v[table]) /\ \A r \in v[table] : Canonical(h, r.code) = r.code
      <3>1. table \in DOMAIN VersionKey
        BY DEF VersionKey
      <3> QED
        BY <3>1 DEF Orderly
    <2>3. \A r \in far : own[r] = rank[r] /\ shown[r] = Announced(v, r)
      OBVIOUS
    <2>4. \A r, s \in far : group[r] = group[s] <=> r.code = s.code /\ r.end = s.end
      OBVIOUS
    <2>5. own \in [far -> RankOf(n)] /\ IsFiniteSet(far)
      BY <2>1, <2>2, FS_Subset
    <2>6. \A r \in far : /\ shown[r].code = r.code /\ shown[r].end = r.end /\ shown[r].visible = NextSessionAt(v, r.ann)
                         /\ DOMAIN shown[r] = {"code", "end", "visible", "ann", "value"}
      BY DEF Announced
    <2> HIDE DEF own, group, shown
    <2>7. \A r \in far : IsPlain(h, shown[r])
      BY <2>1, <2>2, <2>6 DEF IsPlain
    <2>8. \A r, s \in far : Mark(shown[r]) = Mark(shown[s]) <=> group[r] = group[s]
      <3> TAKE r, s \in far
      <3>1. DOMAIN shown[r] \cap Marks(shown[r]) = {"end"} /\ DOMAIN shown[s] \cap Marks(shown[s]) = {"end"}
        BY <2>6 DEF Marks
      <3>2. Mark(shown[r]) = Mark(shown[s]) <=>
              shown[r].code = shown[s].code /\ \A field \in {"end"} : shown[r][field] = shown[s][field]
        BY <3>1, MarkIs
      <3> QED
        BY <2>4, <2>6, <3>2
    <2>9. \A r, s \in far : own[r][1] <= own[s][1] => VersionOf(shown[s]) >= VersionOf(shown[r])
      <3> TAKE r, s \in far
      <3>1. r.ann \in Int /\ s.ann \in Int /\ own[r][1] = r.ann /\ own[s][1] = s.ann
        BY <2>1, <2>3
      <3>2. \A c \in v.trade_cal : c.date \in Nat
        BY DEF Orderly, Regular
      <3>3. r.ann <= s.ann =>
              /\ NextSessionAt(v, r.ann) \in Int /\ NextSessionAt(v, s.ann) \in Int
              /\ NextSessionAt(v, r.ann) <= NextSessionAt(v, s.ann)
        BY <2>1, <3>1, <3>2, SessionsInOrder
      <3>4. VersionOf(shown[r]) = NextSessionAt(v, r.ann) /\ VersionOf(shown[s]) = NextSessionAt(v, s.ann)
        BY <2>6 DEF VersionOf
      <3> QED
        BY <3>1, <3>3, <3>4
    <2>10. \A r, s \in far : group[r] = group[s] /\ own[r] = own[s] => r = s
      BY <2>1, <2>3, <2>4 DEF SameReport
    <2>11. \A rows \in SUBSET far :
             Reported(v, rows, rank) = {shown[r] : r \in Newest(rows, group, own) \cap far}
      <3> TAKE rows \in SUBSET far
      <3>1. {x \in rows : \A y \in rows : SameReport(x, y) => ~Before(rank[x], rank[y])} = Newest(rows, group, own) \cap far
        BY <2>3, <2>4 DEF SameReport, Newest
      <3> DEFINE chosen == Newest(rows, group, own) \cap far
      <3>2. Reported(v, rows, rank) = {Announced(v, r) : r \in chosen}
        BY <3>1 DEF Reported
      <3>3. \A r \in chosen : shown[r] = Announced(v, r)
        BY <2>3
      <3> HIDE DEF chosen
      <3>4. {Announced(v, r) : r \in chosen} = {shown[r] : r \in chosen}
        BY ONLY <3>3
      <3> QED
        BY <3>2, <3>4 DEF chosen
    <2>12. a.rows = {shown[r] : r \in Newest(near, group, own) \cap far}
      BY <2>1, <2>11
    <2>13. b.ok => b.rows = {shown[r] : r \in Newest(far, group, own) \cap far}
      BY <2>1, <2>11
    <2>14. near \subseteq far /\ n \in Nat \ {0}
      BY <2>1
    <2>15. \A r, s \in far : group[r] = group[s] => (r \in far <=> s \in far)
      OBVIOUS
    <2>16. Chosen(h, near, far, n, own, group, far, shown, a, b)
      BY ONLY <2>5, <2>7, <2>8, <2>9, <2>10, <2>12, <2>13, <2>14, <2>15 DEF Chosen
    <2> QED
      BY ONLY <2>16, NewestGrow
  <1> QED
    BY <1>1, <1>2

\* Of the indicators of a report's end the newest are shown.
LEMMA IndicatorsGrow ==
  ASSUME NEW h, NEW v, Orderly(h, v), NEW t \in Nat, NEW u \in Nat, t <= u, NEW q, q.periods = 0
  PROVE  Grows(h, Indicators(v, t, q), Indicators(v, u, q))
  <1> DEFINE All == {r \in WantedOf(v.fina_indicator, q.symbols) : r.ann # Missing /\ InReports(q, r.end)}
             Visible(i) == {r \in All : NextSessionAt(v, r.ann) <= i}
             rank == [r \in v.fina_indicator |-> AnnouncementRank(r)]
             Shown(i) == Reported(v, Visible(i), rank)
             begun == Covered(v, {r.ann : r \in All})
             a == Indicators(v, t, q)
             b == Indicators(v, u, q)
  <1>1. All \subseteq v.fina_indicator /\ \A r \in All : r.ann # Missing
    BY DEF WantedOf
  <1>2. \A r \in v.fina_indicator : rank[r] = AnnouncementRank(r)
    OBVIOUS
  <1>3. ASSUME NEW i PROVE Indicators(v, i, q) = Fetch(v, {"fina_indicator"}, NoConflict, begun, Shown(i))
    <2> DEFINE latest == Latest(Visible(i), SameReport, AnnouncementRank)
               shown == {x \in Visible(i) : \A y \in Visible(i) : SameReport(x, y) => ~Before(rank[x], rank[y])}
    <2>1. Indicators(v, i, q) = Fetch(v, {"fina_indicator"}, NoConflict, begun,
                                  {Announced(v, r) : r \in {x \in latest : InPeriods(latest, q, x)}})
      BY DEF Indicators, NoConflict
    <2>2. \A r \in Visible(i) : rank[r] = AnnouncementRank(r)
      BY <1>1, <1>2
    <2>3. latest = shown
      <3> HIDE DEF rank, Visible
      <3> QED
        BY <2>2 DEF Latest
    <2>4. \A x : InPeriods(latest, q, x)
      BY DEF InPeriods
    <2>5. Shown(i) = {Announced(v, r) : r \in shown}
      BY DEF Reported
    <2> HIDE DEF latest, shown, Shown, begun
    <2>6. {x \in latest : InPeriods(latest, q, x)} = shown
      BY <2>3, <2>4
    <2> QED
      BY <2>1, <2>5, <2>6
  <1>4. begun \in BOOLEAN
    BY DEF Covered
  <1>5. (a.ok => begun /\ a.rows = Shown(t)) /\ (b.ok => b.rows = Shown(u))
    <2> HIDE DEF begun, Shown
    <2> QED
      BY <1>3, <1>4, FetchOpens
  <1>6. \A r \in v.fina_indicator : r.ann \in Int /\ r.flag \in Int
    <2>1. "fina_indicator" \in DOMAIN VersionKey /\ Nullable["fina_indicator"] = {"ann", "flag"}
      BY DEF VersionKey, Nullable
    <2>2. \A r \in v.fina_indicator : r.ann \in Nat \cup {Missing} /\ r.flag \in Nat \cup {Missing}
      BY <2>1 DEF Orderly
    <2> QED
      BY <2>2, MissingAssumption
  <1>7. \A r, s \in v.fina_indicator : r.code = s.code /\ r.end = s.end /\ r.ann = s.ann /\ r.flag = s.flag => r = s
    <2>1. "fina_indicator" \in DOMAIN VersionKey /\ VersionKey["fina_indicator"] = {"end", "ann", "flag"}
      BY DEF VersionKey
    <2> QED
      BY <2>1 DEF Orderly
  <1>8. \A r \in v.fina_indicator : AnnouncementRank(r) \in RankOf(2) /\ AnnouncementRank(r)[1] = r.ann /\ AnnouncementRank(r)[2] = r.flag
    BY <1>6 DEF AnnouncementRank, RankOf
  <1>9. rank \in [v.fina_indicator -> RankOf(2)]
    BY <1>8
  <1>10. \A r, s \in v.fina_indicator : SameReport(r, s) /\ rank[r] = rank[s] => r = s
    BY <1>2, <1>7, <1>8 DEF SameReport
  <1> HIDE DEF rank
  <1>11. Visible(t) \subseteq All /\ Visible(u) \subseteq All
    OBVIOUS
  <1>12. ASSUME a.ok PROVE Visible(t) \subseteq Visible(u) /\ \A r \in All : OpenAfter(v, r.ann) # {}
    <2>1. \A r \in All : OpenAfter(v, r.ann) # {}
      BY <1>5, <1>12 DEF Covered
    <2>2. \A r \in All : NextSessionAt(v, r.ann) \in Int
      BY <1>1, <1>6, <2>1, SessionsInOrder DEF Orderly, Regular
    <2> QED
      BY <2>1, <2>2
  <1> HIDE DEF Visible, All, a, b
  <1>13. Disclosed(v, "fina_indicator", Visible(t), Visible(u), 2, rank, a, b)
    <2>1. /\ Visible(t) \subseteq v.fina_indicator /\ Visible(u) \subseteq v.fina_indicator
          /\ \A r \in Visible(t) \cup Visible(u) : r.ann \in Int /\ rank[r][1] = r.ann
      BY <1>1, <1>2, <1>6, <1>8, <1>11
    <2>2. a.ok => Visible(t) \subseteq Visible(u) /\ \A r \in Visible(u) : OpenAfter(v, r.ann) # {}
      BY <1>11, <1>12
    <2>3. a.ok => a.rows = Reported(v, Visible(t), rank)
      BY <1>5
    <2>4. b.ok => b.rows = Reported(v, Visible(u), rank)
      BY <1>5
    <2> QED
      BY <1>9, <1>10, <2>1, <2>2, <2>3, <2>4 DEF Disclosed
  <1>14. Grows(h, a, b)
    BY <1>13, AnnouncedGrow
  <1> QED
    BY <1>14 DEF a, b

\* What ranks a disclosure: its announcement, and a flag where the table has one.
RankIn(kind, r) == IF kind = "fina_audit" THEN <<r.ann>> ELSE AnnouncementRank(r)

LEMMA RankInIs ==
  ASSUME NEW h, NEW v, Orderly(h, v), NEW kind \in {"forecast", "fina_audit"}
  PROVE  \E n \in Nat \ {0} :
           /\ \A r \in v[kind] : r.ann \in Int /\ RankIn(kind, r) \in RankOf(n) /\ RankIn(kind, r)[1] = r.ann
           /\ \A r, s \in v[kind] : SameReport(r, s) /\ RankIn(kind, r) = RankIn(kind, s) => r = s
  <1>1. kind \in DOMAIN VersionKey /\ kind # "dividend"
    BY DEF VersionKey
  <1>2. \A r, s \in v[kind] : r.code = s.code /\ (\A field \in VersionKey[kind] : r[field] = s[field]) => r = s
    BY <1>1 DEF Orderly
  <1>3. \A r \in v[kind] : \A field \in Nullable[kind] : r[field] \in Int
    <2>1. \A r \in v[kind] : \A field \in Nullable[kind] : r[field] \in Nat \cup {Missing}
      BY <1>1 DEF Orderly
    <2> QED
      BY <2>1, MissingAssumption
  <1>4. CASE kind = "fina_audit"
    <2>1. Nullable[kind] = {"ann"} /\ VersionKey[kind] = {"end", "ann"}
      BY <1>4 DEF Nullable, VersionKey
    <2>2. \A r \in v[kind] : r.ann \in Int
      BY <1>3, <2>1
    <2>3. \A r : RankIn(kind, r) = <<r.ann>>
      BY <1>4 DEF RankIn
    <2>4. \A r \in v[kind] : RankIn(kind, r) \in RankOf(1) /\ RankIn(kind, r)[1] = r.ann
      BY <2>2, <2>3 DEF RankOf
    <2>5. \A r, s \in v[kind] : SameReport(r, s) /\ RankIn(kind, r) = RankIn(kind, s) => r = s
      BY <1>2, <2>1, <2>4 DEF SameReport
    <2>6. 1 \in Nat \ {0}
      OBVIOUS
    <2> QED
      BY <2>2, <2>4, <2>5, <2>6
  <1>5. CASE kind = "forecast"
    <2>1. Nullable[kind] = {"ann", "flag"} /\ VersionKey[kind] = {"end", "ann", "flag"}
      BY <1>5 DEF Nullable, VersionKey
    <2>2. \A r \in v[kind] : r.ann \in Int /\ r.flag \in Int
      BY <1>3, <2>1
    <2>3. \A r : RankIn(kind, r) = <<r.ann, r.flag>>
      BY <1>5 DEF RankIn, AnnouncementRank
    <2>4. \A r \in v[kind] : RankIn(kind, r) \in RankOf(2) /\ RankIn(kind, r)[1] = r.ann /\ RankIn(kind, r)[2] = r.flag
      BY <2>2, <2>3 DEF RankOf
    <2>5. \A r, s \in v[kind] : SameReport(r, s) /\ RankIn(kind, r) = RankIn(kind, s) => r = s
      BY <1>2, <2>1, <2>4 DEF SameReport
    <2>6. 2 \in Nat \ {0}
      OBVIOUS
    <2> QED
      BY <2>2, <2>4, <2>5, <2>6
  <1> QED
    BY <1>4, <1>5

\* Of the disclosures for a report's end the newest are shown.
LEMMA DisclosuresGrow ==
  ASSUME NEW h, NEW v, Orderly(h, v), NEW t \in Nat, NEW u \in Nat, t <= u, NEW q, NEW p, Wider(q, p),
         q.kind \in {"forecast", "fina_audit"}
  PROVE  Grows(h, Disclosures(v, t, q), Disclosures(v, u, p))
  <1> DEFINE kind == q.kind
             All == {r \in WantedOf(v[kind], q.symbols) : r.ann # Missing}
             Due(i, x, r) == /\ NextSessionAt(v, r.ann) <= i
                             /\ x.start <= NextSessionAt(v, r.ann) /\ NextSessionAt(v, r.ann) <= x.end
             Visible(i, x) == {r \in All : Due(i, x, r)}
             rank == [r \in v[kind] |-> RankIn(kind, r)]
             Shown(i, x) == Reported(v, Visible(i, x), rank)
             begun == Covered(v, {r.ann : r \in All})
             a == Disclosures(v, t, q)
             b == Disclosures(v, u, p)
  <1>1. All \subseteq v[kind]
    BY DEF WantedOf
  <1>2. \A r \in v[kind] : rank[r] = RankIn(kind, r)
    OBVIOUS
  <1>3. ASSUME NEW i, NEW x \in {q, p} PROVE Disclosures(v, i, x) = Fetch(v, {kind}, NoConflict, begun, Shown(i, x))
    <2> DEFINE Own == {r \in WantedOf(v[x.kind], x.symbols) : r.ann # Missing}
               Inside == {r \in Own : Due(i, x, r)}
               newest == {m \in Inside : \A n \in Inside : SameReport(m, n) => ~Before(RankIn(x.kind, m), RankIn(x.kind, n))}
               shown == {m \in Visible(i, x) : \A n \in Visible(i, x) : SameReport(m, n) => ~Before(rank[m], rank[n])}
    <2>1. x.kind = kind /\ x.symbols = q.symbols
      BY WiderIs
    <2>2. Disclosures(v, i, x) = Fetch(v, {x.kind}, NoConflict, Covered(v, {r.ann : r \in Own}), {Announced(v, r) : r \in newest})
      BY DEF Disclosures, RankIn, Latest, NoConflict
    <2>3. Own = All
      BY <2>1
    <2>4. Inside = Visible(i, x)
      BY <2>3
    <2>5. \A r \in Visible(i, x) : rank[r] = RankIn(kind, r)
      BY <1>1, <1>2
    <2>6. newest = shown
      <3> HIDE DEF rank, Visible, Inside
      <3> QED
        BY <2>1, <2>4, <2>5
    <2>7. Shown(i, x) = {Announced(v, r) : r \in shown}
      BY DEF Reported
    <2> HIDE DEF newest, shown, Shown, Own
    <2>8. begun = Covered(v, {r.ann : r \in Own})
      BY <2>3
    <2> HIDE DEF begun, kind
    <2> QED
      BY <2>1, <2>2, <2>6, <2>7, <2>8
  <1>4. begun \in BOOLEAN
    BY DEF Covered
  <1>5. (a.ok => begun /\ a.rows = Shown(t, q)) /\ (b.ok => b.rows = Shown(u, p))
    <2> HIDE DEF begun, Shown
    <2> QED
      BY <1>3, <1>4, FetchOpens
  <1>6. PICK n \in Nat \ {0} :
          /\ \A r \in v[kind] : r.ann \in Int /\ RankIn(kind, r) \in RankOf(n) /\ RankIn(kind, r)[1] = r.ann
          /\ \A r, s \in v[kind] : SameReport(r, s) /\ RankIn(kind, r) = RankIn(kind, s) => r = s
    BY RankInIs
  <1>7. rank \in [v[kind] -> RankOf(n)]
    BY <1>6
  <1>8. \A r, s \in v[kind] : SameReport(r, s) /\ rank[r] = rank[s] => r = s
    BY <1>2, <1>6
  <1> HIDE DEF rank
  <1>9. Visible(t, q) \subseteq All /\ Visible(u, p) \subseteq All
    OBVIOUS
  <1>10. ASSUME a.ok PROVE Visible(t, q) \subseteq Visible(u, p) /\ \A r \in All : OpenAfter(v, r.ann) # {}
    <2>1. \A r \in All : OpenAfter(v, r.ann) # {}
      BY <1>5, <1>10 DEF Covered
    <2>2. \A r \in All : NextSessionAt(v, r.ann) \in Int
      BY <1>1, <1>6, <2>1, SessionsInOrder DEF Orderly, Regular
    <2>3. p.start = q.start /\ \A m \in Int : m <= q.end => m <= p.end
      BY WiderIs
    <2>4. \A r \in All : Due(t, q, r) => Due(u, p, r)
      BY <2>2, <2>3
    <2> HIDE DEF Due
    <2> QED
      BY <2>1, <2>4
  <1> HIDE DEF Visible, All, a, b
  <1>11. Disclosed(v, kind, Visible(t, q), Visible(u, p), n, rank, a, b)
    <2>1. /\ Visible(t, q) \subseteq v[kind] /\ Visible(u, p) \subseteq v[kind]
          /\ \A r \in Visible(t, q) \cup Visible(u, p) : r.ann \in Int /\ rank[r][1] = r.ann
      BY <1>1, <1>2, <1>6, <1>9
    <2>2. a.ok => Visible(t, q) \subseteq Visible(u, p) /\ \A r \in Visible(u, p) : OpenAfter(v, r.ann) # {}
      BY <1>9, <1>10
    <2>3. a.ok => a.rows = Reported(v, Visible(t, q), rank)
      BY <1>5
    <2>4. b.ok => b.rows = Reported(v, Visible(u, p), rank)
      BY <1>5
    <2> QED
      BY <1>6, <1>7, <1>8, <2>1, <2>2, <2>3, <2>4 DEF Disclosed
  <1>12. kind \in {"fina_indicator", "forecast", "fina_audit"}
    OBVIOUS
  <1> HIDE DEF kind
  <1>13. Grows(h, a, b)
    BY <1>11, <1>12, AnnouncedGrow
  <1> QED
    BY <1>13 DEF a, b

\* A version of a dividend, without the dates of an implementation still to come.
Distributed(v, r) ==
  [code |-> r.code, visible |-> NextSessionAt(v, VersionDate(r)), end |-> r.end, proc |-> r.proc,
   ann |-> r.ann, ex |-> DividendDate(r, r.ex), imp_ann |-> DividendDate(r, r.imp_ann), value |-> r.value]

\* Every version of a dividend is shown, before and later.
LEMMA DividendsGrow ==
  ASSUME NEW h, NEW v, Orderly(h, v), NEW t \in Nat, NEW u \in Nat, t <= u, NEW q, NEW p, Wider(q, p)
  PROVE  Grows(h, Dividends(v, t, q), Dividends(v, u, p))
  <1> DEFINE All(i, x) == {r \in WantedOf(v.dividend, x.symbols) : VersionDate(r) # Missing /\ VersionDate(r) < DayOf(i)}
             Due(i, x, r) == /\ NextSessionAt(v, VersionDate(r)) <= i
                             /\ x.start <= NextSessionAt(v, VersionDate(r)) /\ NextSessionAt(v, VersionDate(r)) <= x.end
             Visible(i, x) == {r \in All(i, x) : Due(i, x, r)}
             Shown(i, x) == {Distributed(v, r) : r \in Visible(i, x)}
             Begun(i, x) == Covered(v, {VersionDate(r) : r \in All(i, x)})
             a == Dividends(v, t, q)
             b == Dividends(v, u, p)
  <1>1. ASSUME NEW i, NEW x PROVE Dividends(v, i, x) = Fetch(v, {"dividend"}, NoConflict, Begun(i, x), Shown(i, x))
    BY DEF Dividends, Distributed, NoConflict
  <1>2. ASSUME NEW i, NEW x PROVE Begun(i, x) \in BOOLEAN
    BY DEF Covered
  <1>3. (a.ok => Begun(t, q) /\ a.rows = Shown(t, q)) /\ (b.ok => b.rows = Shown(u, p))
    <2>1. a = Fetch(v, {"dividend"}, NoConflict, Begun(t, q), Shown(t, q)) /\ Begun(t, q) \in BOOLEAN
      BY <1>1, <1>2
    <2>2. b = Fetch(v, {"dividend"}, NoConflict, Begun(u, p), Shown(u, p)) /\ Begun(u, p) \in BOOLEAN
      BY <1>1, <1>2
    <2> HIDE DEF Begun, Shown, a, b
    <2> QED
      BY <2>1, <2>2, FetchOpens
  <1>4. \A r \in v.dividend : /\ Canonical(h, r.code) = r.code /\ VersionDate(r) \in Nat \cup {Missing}
                              /\ VersionDate(r) \in Int
    <2>1. "dividend" \in DOMAIN VersionKey /\ Nullable["dividend"] = {"ann", "imp_ann"}
      BY DEF VersionKey, Nullable
    <2>2. \A r \in v.dividend : Canonical(h, r.code) = r.code /\ r.ann \in Nat \cup {Missing} /\ r.imp_ann \in Nat \cup {Missing}
      BY <2>1 DEF Orderly
    <2> QED
      BY <2>2, MissingAssumption DEF VersionDate
  <1>5. \A r, s \in v.dividend :
          /\ r.code = s.code /\ r.end = s.end /\ r.ann = s.ann /\ r.proc = s.proc
          /\ DividendDate(r, r.imp_ann) = DividendDate(s, s.imp_ann)
          => r = s
    <2>1. "dividend" \in DOMAIN VersionKey /\ VersionKey["dividend"] = {"end", "ann", "proc"}
      BY DEF VersionKey
    <2> QED
      BY <2>1 DEF Orderly
  <1>6. ASSUME NEW i, NEW x PROVE Visible(i, x) \subseteq v.dividend
    BY DEF WantedOf
  <1>7. \A r : /\ Distributed(v, r).code = r.code /\ Distributed(v, r).end = r.end /\ Distributed(v, r).proc = r.proc
               /\ Distributed(v, r).ann = r.ann /\ Distributed(v, r).imp_ann = DividendDate(r, r.imp_ann)
               /\ Distributed(v, r).visible = NextSessionAt(v, VersionDate(r))
               /\ DOMAIN Distributed(v, r) = {"code", "visible", "end", "proc", "ann", "ex", "imp_ann", "value"}
    BY DEF Distributed
  <1>8. \A r, s : Mark(Distributed(v, r)) = Mark(Distributed(v, s)) =>
                    /\ r.code = s.code /\ r.end = s.end /\ r.ann = s.ann /\ r.proc = s.proc
                    /\ DividendDate(r, r.imp_ann) = DividendDate(s, s.imp_ann)
    <2> TAKE r, s
    <2>1. DOMAIN Distributed(v, r) \cap Marks(Distributed(v, r)) = {"end", "proc", "imp_ann", "ann"}
      BY <1>7 DEF Marks
    <2>2. Mark(Distributed(v, r)) = Mark(Distributed(v, s)) =>
            /\ Distributed(v, r).code = Distributed(v, s).code
            /\ \A field \in {"end", "proc", "imp_ann", "ann"} : Distributed(v, r)[field] = Distributed(v, s)[field]
      BY <2>1, MarkIs
    <2> QED
      BY <1>7, <2>2
  <1>9. \A r \in v.dividend : IsPlain(h, Distributed(v, r))
    BY <1>4, <1>7 DEF IsPlain
  <1>10. ASSUME a.ok PROVE /\ Visible(t, q) \subseteq Visible(u, p)
                           /\ \A r \in Visible(t, q) : NextSessionAt(v, VersionDate(r)) \in Int
    <2>1. \A r \in All(t, q) : r \in v.dividend /\ OpenAfter(v, VersionDate(r)) # {}
      BY <1>3, <1>10 DEF Covered, WantedOf
    <2>2. \A r \in All(t, q) : NextSessionAt(v, VersionDate(r)) \in Int
      <3> HIDE DEF All
      <3> QED
        BY <1>4, <2>1, SessionsInOrder DEF Orderly, Regular
    <2>3. p.start = q.start /\ p.symbols = q.symbols /\ \A m \in Int : m <= q.end => m <= p.end
      BY WiderIs
    <2>4. DayOf(t) \in Int /\ DayOf(u) \in Int /\ DayOf(t) <= DayOf(u)
      BY DEF DayOf, Times
    <2>5. All(t, q) \subseteq All(u, p)
      <3>1. \A r \in v.dividend : VersionDate(r) < DayOf(t) => VersionDate(r) < DayOf(u)
        BY <1>4, <2>4
      <3> QED
        BY <2>3, <3>1 DEF WantedOf
    <2> HIDE DEF All
    <2>6. \A r \in All(t, q) : Due(t, q, r) => Due(u, p, r)
      BY <2>2, <2>3
    <2> HIDE DEF Due
    <2> QED
      BY <2>2, <2>5, <2>6
  <1> HIDE DEF Visible, Begun, a, b
  <1>11. ASSUME a.ok PROVE HasOneOfEach(a.rows) /\ \A r \in a.rows : IsPlain(h, r)
    <2>1. ASSUME NEW x \in a.rows, NEW y \in a.rows, Mark(x) = Mark(y) PROVE x = y
      <3>1. PICK r \in Visible(t, q) : x = Distributed(v, r)
        BY <1>3, <1>11
      <3>2. PICK s \in Visible(t, q) : y = Distributed(v, s)
        BY <1>3, <1>11
      <3>3. r = s
        BY <1>5, <1>6, <1>8, <2>1, <3>1, <3>2
      <3> QED
        BY <3>1, <3>2, <3>3
    <2>2. \A x \in a.rows : IsPlain(h, x)
      BY <1>3, <1>6, <1>9, <1>11
    <2> QED
      BY <2>1, <2>2 DEF HasOneOfEach
  <1>12. ASSUME a.ok, b.ok PROVE LivesOn(a.rows, b.rows) /\ \A r \in b.rows : IsPlain(h, r)
    <2>1. a.rows \subseteq b.rows
      BY <1>3, <1>10, <1>12
    <2>2. \A x \in a.rows : VersionOf(x) \in Int
      BY <1>3, <1>7, <1>10, <1>12 DEF VersionOf
    <2>3. \A x \in b.rows : IsPlain(h, x)
      BY <1>3, <1>6, <1>9, <1>12
    <2> QED
      BY <2>1, <2>2, <2>3 DEF LivesOn
  <1> HIDE DEF Shown
  <1>13. Grows(h, a, b)
    BY <1>11, <1>12 DEF Grows
  <1> QED
    BY <1>13 DEF a, b

-----------------------------------------------------------------------------
(* What a request shows *)

\* A query that is answered gives what its adapter found.
LEMMA PassesOn ==
  ASSUME NEW valid \in BOOLEAN, NEW h, NEW q, NEW answer
  PROVE  /\ Checked(valid, h, q, answer).ok => Checked(valid, h, q, answer) = answer
         /\ Checked(valid, h, q, Tushare(q, answer)).ok => Checked(valid, h, q, Tushare(q, answer)) = answer
  BY Refusing DEF Checked, ForSymbols, Tushare, From

LEMMA BarsRemember ==
  ASSUME IsHistory(History), NEW v, Orderly(History, v), NEW t \in Nat, NEW u \in Nat, t <= u,
         NEW q, Asked \cup {"end"} \subseteq DOMAIN q, q.count = 0
  PROVE  Remembered(Bars(v, History, t, q), Bars(v, History, u, q))
  <1> DEFINE Own(i) == UpTo(q, i)
             Found(i) == IF Own(i).frequency = "1d"
                         THEN IF Own(i).source = "tushare" THEN TushareDaily(v, i, Own(i)) ELSE QmtDaily(v, i, Own(i))
                         ELSE From(Own(i).source, {"qmt"}, QmtIntraday(v, i, Own(i)))
             Valid(i) == Own(i).count > 0 \/ (Own(i).start < Own(i).end /\ Own(i).end <= i)
  <1>1. Wider(Own(t), Own(u)) /\ Own(t).count = 0
    BY UpToIs DEF Asked
  <1>2. Own(u).frequency = Own(t).frequency /\ Own(u).source = Own(t).source
    BY <1>1, WiderIs
  <1>3. ASSUME NEW i \in {t, u}, Bars(v, History, i, q).ok PROVE Bars(v, History, i, q) = Result(History, i, Found(i))
    <2>1. Bars(v, History, i, q) = Checked(Valid(i), History, Own(i), Result(History, i, Found(i)))
      BY DEF Bars
    <2>2. Valid(i) \in BOOLEAN
      OBVIOUS
    <2> HIDE DEF Valid, Own, Found
    <2> QED
      BY <1>3, <2>1, <2>2, PassesOn
  <1> HIDE DEF Own
  <1>4. Grows(History, Found(t), Found(u))
    <2>1. CASE Own(t).frequency = "1d" /\ Own(t).source = "tushare"
      BY <1>1, <1>2, <2>1, TushareDailyGrows
    <2>2. CASE Own(t).frequency = "1d" /\ Own(t).source # "tushare"
      BY <1>1, <1>2, <2>2, QmtDailyGrows
    <2>3. CASE Own(t).frequency # "1d" /\ Own(t).source = "qmt"
      <3>1. Found(t) = QmtIntraday(v, t, Own(t)) /\ Found(u) = QmtIntraday(v, u, Own(u))
        BY <1>2, <2>3 DEF From
      <3> QED
        BY <1>1, <3>1, QmtIntradayGrows
    <2>4. CASE Own(t).frequency # "1d" /\ Own(t).source # "qmt"
      <3>1. ~Found(t).ok
        BY <2>4, Refusing DEF From
      <3> QED
        BY <3>1 DEF Grows
    <2> QED
      BY <2>1, <2>2, <2>3, <2>4
  <1> HIDE DEF Found
  <1> QED
    BY <1>3, <1>4, ResultRemembers

LEMMA DayTablesRemember ==
  ASSUME IsHistory(History), NEW v, Orderly(History, v), NEW t \in Nat, NEW u \in Nat, t <= u,
         NEW q, Asked \cup {"end"} \subseteq DOMAIN q
  PROVE  Remembered(DayTable(v, History, t, q), DayTable(v, History, u, q))
  <1> DEFINE Own(i) == UpTo(q, DayOf(i) + 1)
             Found(i) == IF Own(i).route = "daily_metrics" THEN DailyMetrics(v, i, Own(i)) ELSE Moneyflow(v, i, Own(i))
             Valid(i) == Own(i).start < Own(i).end
  <1>1. Wider(Own(t), Own(u))
    <2>1. DayOf(t) + 1 \in Nat /\ DayOf(u) + 1 \in Nat /\ DayOf(t) + 1 <= DayOf(u) + 1
      BY DEF DayOf, Times
    <2> QED
      BY <2>1, UpToIs
  <1>2. Own(u).route = Own(t).route
    BY <1>1, WiderIs
  <1>3. ASSUME NEW i \in {t, u}, DayTable(v, History, i, q).ok PROVE DayTable(v, History, i, q) = Result(History, i, Found(i))
    <2>1. DayTable(v, History, i, q) = Checked(Valid(i), History, Own(i), Tushare(Own(i), Result(History, i, Found(i))))
      BY DEF DayTable
    <2>2. Valid(i) \in BOOLEAN
      OBVIOUS
    <2> HIDE DEF Valid, Own, Found
    <2> QED
      BY <1>3, <2>1, <2>2, PassesOn
  <1> HIDE DEF Own
  <1>4. Grows(History, Found(t), Found(u))
    <2>1. CASE Own(t).route = "daily_metrics"
      BY <1>1, <1>2, <2>1, MetricsGrow
    <2>2. CASE Own(t).route # "daily_metrics"
      BY <1>1, <1>2, <2>2, MoneyflowGrows
    <2> QED
      BY <2>1, <2>2
  <1> HIDE DEF Found
  <1> QED
    BY <1>3, <1>4, ResultRemembers

LEMMA ReportsRemember ==
  ASSUME IsHistory(History), NEW v, Orderly(History, v), NEW t \in Nat, NEW u \in Nat, t <= u,
         NEW q, Asked \cup {"end"} \subseteq DOMAIN q, q.periods = 0
  PROVE  Remembered(Reports(v, History, t, q), Reports(v, History, u, q))
  <1> DEFINE own == UpTo(q, Never)
             Found(i) == IF own.route = "statements" THEN Statements(v, i, own) ELSE Indicators(v, i, own)
             valid == own.periods > 0 \/ own.start < own.end
  <1>1. own.periods = 0
    BY DEF UpTo, Asked
  <1>2. ASSUME NEW i \in {t, u}, Reports(v, History, i, q).ok PROVE Reports(v, History, i, q) = Result(History, i, Found(i))
    <2>1. Reports(v, History, i, q) = Checked(valid, History, own, Tushare(own, Result(History, i, Found(i))))
      BY DEF Reports
    <2>2. valid \in BOOLEAN
      OBVIOUS
    <2> HIDE DEF valid, own, Found
    <2> QED
      BY <1>2, <2>1, <2>2, PassesOn
  <1> HIDE DEF own
  <1>3. Grows(History, Found(t), Found(u))
    <2>1. CASE own.route = "statements"
      BY <1>1, <2>1, StatementsGrow
    <2>2. CASE own.route # "statements"
      BY <1>1, <2>2, IndicatorsGrow
    <2> QED
      BY <2>1, <2>2
  <1> HIDE DEF Found
  <1> QED
    BY <1>2, <1>3, ResultRemembers

LEMMA AnnouncementsRemember ==
  ASSUME IsHistory(History), NEW v, Orderly(History, v), NEW t \in Nat, NEW u \in Nat, t <= u,
         NEW q, Asked \cup {"end"} \subseteq DOMAIN q, q.route = "disclosures" => q.kind \in {"forecast", "fina_audit"}
  PROVE  Remembered(Announcements(v, History, t, q), Announcements(v, History, u, q))
  <1> DEFINE Own(i) == UpTo(q, i)
             Found(i) == IF Own(i).route = "disclosures" THEN Disclosures(v, i, Own(i)) ELSE Dividends(v, i, Own(i))
             Valid(i) == Own(i).end <= i /\ Own(i).start <= Own(i).end
  <1>1. Wider(Own(t), Own(u)) /\ Own(t).route = q.route /\ Own(t).kind = q.kind
    BY UpToIs DEF Asked
  <1>2. Own(u).route = Own(t).route
    BY <1>1, WiderIs
  <1>3. ASSUME NEW i \in {t, u}, Announcements(v, History, i, q).ok
        PROVE  Announcements(v, History, i, q) = Result(History, i, Found(i))
    <2>1. Announcements(v, History, i, q) = Checked(Valid(i), History, Own(i), Tushare(Own(i), Result(History, i, Found(i))))
      BY DEF Announcements
    <2>2. Valid(i) \in BOOLEAN
      OBVIOUS
    <2> HIDE DEF Valid, Own, Found
    <2> QED
      BY <1>3, <2>1, <2>2, PassesOn
  <1> HIDE DEF Own
  <1>4. Grows(History, Found(t), Found(u))
    <2>1. CASE Own(t).route = "disclosures"
      BY <1>1, <1>2, <2>1, DisclosuresGrow
    <2>2. CASE Own(t).route # "disclosures"
      BY <1>1, <1>2, <2>2, DividendsGrow
    <2> QED
      BY <2>1, <2>2
  <1> HIDE DEF Found
  <1> QED
    BY <1>3, <1>4, ResultRemembers

LEMMA FactorsRemember ==
  ASSUME IsHistory(History), NEW v, Orderly(History, v), NEW t \in Nat, NEW u \in Nat, t <= u, NEW q
  PROVE  Remembered(Factors(v, History, t, q), Factors(v, History, u, q))
  <1> DEFINE own == UpTo(q, Never)
             Found(i) == AdjustmentFactors(v, i, own)
             valid == own.start < own.end
  <1>1. Wider(own, own)
    BY DEF Wider
  <1>2. ASSUME NEW i \in {t, u}, Factors(v, History, i, q).ok PROVE Factors(v, History, i, q) = Result(History, i, Found(i))
    <2>1. Factors(v, History, i, q) = Checked(valid, History, own, Tushare(own, Result(History, i, Found(i))))
      BY DEF Factors
    <2>2. valid \in BOOLEAN
      OBVIOUS
    <2> HIDE DEF valid, own, Found
    <2> QED
      BY <1>2, <2>1, <2>2, PassesOn
  <1> HIDE DEF own
  <1>3. Grows(History, Found(t), Found(u))
    BY <1>1, FactorsGrow
  <1> HIDE DEF Found
  <1> QED
    BY <1>2, <1>3, ResultRemembers

\* A request for everything of a range forgets nothing.
LEMMA ReadRemembers ==
  ASSUME IsHistory(History), NEW v, Orderly(History, v), NEW t \in Nat, NEW u \in Nat, t <= u, NEW q, IsRequest(q), q.lasting
  PROVE  Remembered(Read(v, History, t, q), Read(v, History, u, q))
  <1>1. Asked \cup {"end"} \subseteq DOMAIN q
    BY DEF IsRequest, Asked
  <1>2. /\ q.route \in {"bars", "daily_metrics", "moneyflow", "statements", "indicators", "disclosures", "dividends", "factors"}
        /\ q.count = 0 /\ q.periods = 0 /\ (q.route = "disclosures" => q.kind \in {"forecast", "fina_audit"})
    BY DEF IsRequest, IsLasting
  <1>3. CASE q.route = "bars"
    <2>1. \A i : Read(v, History, i, q) = Bars(v, History, i, q)
      BY <1>3 DEF Read
    <2> QED
      BY <1>1, <1>2, <2>1, BarsRemember
  <1>4. CASE q.route \in {"daily_metrics", "moneyflow"}
    <2>1. \A i : Read(v, History, i, q) = DayTable(v, History, i, q)
      BY <1>4 DEF Read
    <2> QED
      BY <1>1, <2>1, DayTablesRemember
  <1>5. CASE q.route \in {"statements", "indicators"}
    <2>1. \A i : Read(v, History, i, q) = Reports(v, History, i, q)
      BY <1>5 DEF Read
    <2> QED
      BY <1>1, <1>2, <2>1, ReportsRemember
  <1>6. CASE q.route \in {"disclosures", "dividends"}
    <2>1. \A i : Read(v, History, i, q) = Announcements(v, History, i, q)
      BY <1>6 DEF Read
    <2> QED
      BY <1>1, <1>2, <2>1, AnnouncementsRemember
  <1>7. CASE q.route = "factors"
    <2>1. \A i : Read(v, History, i, q) = Factors(v, History, i, q)
      BY <1>7 DEF Read
    <2> QED
      BY <2>1, FactorsRemember
  <1> QED
    BY <1>2, <1>3, <1>4, <1>5, <1>6, <1>7

\* What the views of rows that are stored once give the queries to rely on.
LEMMA OrderlyViews ==
  ASSUME NEW d, NEW h, IsHistory(h), DOMAIN d = Tables \cup {"unavailable"},
         \A table \in Tables : IsFiniteSet(d[table]) /\ \A r \in d[table] : IsRow(table, r),
         \A table \in Tables : \A r, s \in d[table] : SameKey(table, r, s) => r = s,
         \A table \in DOMAIN VersionKey : \A r, s \in View(d, h, table) :
           (r.code = s.code /\ (\A field \in VersionKey[table] : r[field] = s[field])
              /\ (table = "dividend" => DividendDate(r, r.imp_ann) = DividendDate(s, s.imp_ann))) => r = s
  PROVE  Orderly(h, Views(d, h))
  <1> DEFINE v == Views(d, h)
             Named == Dailies \cup DOMAIN VersionKey
  <1>1. \A table \in Named : table \in Tables /\ table \notin WithoutCodes \cup {"checked"} /\ table \in DOMAIN d
    <2>1. Named = Dailies \cup {"income", "fina_indicator", "forecast", "fina_audit", "dividend"}
      BY DEF VersionKey
    <2> QED
      BY <2>1, TablesAre DEF Dailies, WithoutCodes
  <1>2. \A table \in Named : v[table] = {AsViewed(h, table, r) : r \in d[table]} /\ v[table] = View(d, h, table)
    <2>1. \A table \in Tables : v[table] = {AsViewed(h, table, r) : r \in d[table]}
      BY ViewRows
    <2>2. \A table \in DOMAIN d \ (WithoutCodes \cup {"checked"}) : v[table] = View(d, h, table)
      BY ViewsAre
    <2> HIDE DEF v, Named
    <2> QED
      BY <1>1, <2>1, <2>2
  <1>3. ASSUME NEW table \in Named, NEW x \in v[table]
        PROVE  \E r \in d[table] : /\ IsRow(table, r) /\ x = AsViewed(h, table, r) /\ x.code = Canonical(h, r.code)
                                   /\ \A field \in DOMAIN r \ {"code"} : x[field] = r[field]
    <2>1. PICK r \in d[table] : x = AsViewed(h, table, r)
      BY <1>2, <1>3
    <2>2. IsRow(table, r) /\ "code" \in DOMAIN r
      <3>1. IsRow(table, r)
        BY <1>1
      <3>2. "code" \in Key[table]
        BY DEF Key, Dailies, VersionKey
      <3> QED
        BY <3>1, <3>2 DEF IsRow
    <2> QED
      BY <1>1, <2>1, <2>2, ViewedFields
  <1>4. \A table \in Named : \A x \in v[table] : Canonical(h, x.code) = x.code
    BY <1>3, CanonicalTwice
  <1>5. ASSUME NEW table \in Dailies, NEW x \in v[table] PROVE x.date \in Nat
    <2>1. PICK r \in d[table] : IsRow(table, r) /\ \A field \in DOMAIN r \ {"code"} : x[field] = r[field]
      BY <1>3, <1>5
    <2>2. table \in DOMAIN Dated /\ "date" \in Dated[table]
      BY DEF Dated, Dailies
    <2>3. "date" \in DOMAIN r
      <3>1. "date" \in Key[table] \/ (table \in DOMAIN Beside /\ "date" \in Beside[table])
        BY DEF Key, Beside, Dailies
      <3> QED
        BY <2>1, <3>1 DEF IsRow
    <2>4. r.date \in Nat
      BY <2>1, <2>2 DEF IsRow
    <2> QED
      BY <2>1, <2>3, <2>4
  <1>6. ASSUME NEW x \in v.qmt_intraday PROVE x.end \in Nat
    <2>1. "qmt_intraday" \in Named
      BY DEF Dailies
    <2>2. PICK r \in d.qmt_intraday : IsRow("qmt_intraday", r) /\ \A field \in DOMAIN r \ {"code"} : x[field] = r[field]
      BY <1>3, <1>6, <2>1
    <2>3. "end" \in DOMAIN r /\ r.end \in Nat
      BY <2>2 DEF IsRow, Key, Dated
    <2> QED
      BY <2>2, <2>3
  <1>7. ASSUME NEW table \in Dailies, ~v.checked, NEW x \in v[table], NEW y \in v[table],
               \A key \in UniqueKey[table] : x[key] = y[key]
        PROVE  x = y
    <2>1. UniqueKey[table] = Key[table] /\ table \in DOMAIN UniqueKey
      <3>1. /\ Key["daily"] = {"code", "date"} /\ Key["adj_factor"] = {"code", "date"}
            /\ Key["daily_basic"] = {"code", "date"} /\ Key["moneyflow"] = {"code", "date"}
            /\ Key["qmt_daily"] = {"code", "date", "adjustment"} /\ Key["qmt_intraday"] = {"code", "end", "adjustment"}
        BY DEF Key
      <3>2. /\ UniqueKey["daily"] = {"code", "date"} /\ UniqueKey["adj_factor"] = {"code", "date"}
            /\ UniqueKey["daily_basic"] = {"code", "date"} /\ UniqueKey["moneyflow"] = {"code", "date"}
            /\ UniqueKey["qmt_daily"] = {"code", "date", "adjustment"}
            /\ UniqueKey["qmt_intraday"] = {"code", "end", "adjustment"}
            /\ Dailies \subseteq DOMAIN UniqueKey
        BY DEF UniqueKey, Dailies
      <3> QED
        BY <3>1, <3>2 DEF Dailies
    <2>2. h = {}
      BY <1>7 DEF Views
    <2>3. PICK r \in d[table] : IsRow(table, r) /\ x = AsViewed(h, table, r)
      BY <1>3, <1>7
    <2>4. PICK s \in d[table] : IsRow(table, s) /\ y = AsViewed(h, table, s)
      BY <1>3, <1>7
    <2>5. \A code : Canonical(h, code) = code
      BY <2>2 DEF Canonical, KnownCodes
    <2>6. ASSUME NEW z \in d[table], IsRow(table, z) PROVE AsViewed(h, table, z) = z
      BY <2>5, <2>6, <1>1 DEF AsViewed, IsRow
    <2>7. x = r /\ y = s
      BY <2>3, <2>4, <2>6
    <2>8. SameKey(table, r, s)
      BY <1>7, <2>1, <2>7 DEF SameKey
    <2> QED
      BY <1>1, <2>7, <2>8
  <1>8. ASSUME NEW table \in DOMAIN VersionKey PROVE IsFiniteSet(v[table])
    <2>1. v[table] = {AsViewed(h, table, r) : r \in d[table]} /\ IsFiniteSet(d[table])
      BY <1>1, <1>2
    <2> DEFINE viewed == [r \in d[table] |-> AsViewed(h, table, r)]
    <2>2. viewed \in Surjection(d[table], v[table])
      BY <2>1 DEF Surjection
    <2> HIDE DEF viewed, v
    <2> QED
      BY <2>1, <2>2, FS_Surjection
  <1>9. ASSUME NEW table \in DOMAIN VersionKey, NEW x \in v[table], NEW field \in Nullable[table]
        PROVE  x[field] \in Nat \cup {Missing}
    <2>1. PICK r \in d[table] : IsRow(table, r) /\ \A other \in DOMAIN r \ {"code"} : x[other] = r[other]
      BY <1>3, <1>9
    <2>2. field \in DOMAIN r /\ r[field] \in Nat \cup {Missing}
      <3>1. table \in DOMAIN Nullable
        BY DEF Nullable, VersionKey
      <3> QED
        BY <1>9, <2>1, <3>1 DEF IsRow
    <2>3. field # "code"
      BY <1>9 DEF Nullable, VersionKey
    <2> QED
      BY <2>1, <2>2, <2>3
  <1>10. \A table \in DOMAIN VersionKey : \A x, y \in v[table] :
           (x.code = y.code /\ (\A field \in VersionKey[table] : x[field] = y[field])
              /\ (table = "dividend" => DividendDate(x, x.imp_ann) = DividendDate(y, y.imp_ann))) => x = y
    BY <1>2
  <1>11. Regular(v)
    BY ViewsAreRegular
  <1> HIDE DEF v
  <1>12. Orderly(h, v)
    BY <1>4, <1>5, <1>6, <1>7, <1>8, <1>9, <1>10, <1>11 DEF Orderly
  <1> QED
    BY <1>12 DEF v

\* What DataView has shown at one instant it shows at a later one, in the same or a later version:
\* row_number() over what was visible leaves out no report, announcement or bar because of rows
\* that became visible in between, unless nothing it orders by tells two versions apart.
THEOREM NothingIsForgotten == ReaderSpec => [](~Tied(db) => NothingForgotten)
  <1>1. world \in DOMAIN Worlds /\ ReaderTypeOK /\ OneRowPerKey => (~Tied(db) => NothingForgotten)
    <2> SUFFICES ASSUME world \in DOMAIN Worlds, ReaderTypeOK, OneRowPerKey, ~Tied(db),
                        NEW t \in Instants, NEW u \in Instants, t < u, NEW q \in World.queries, q.lasting
                 PROVE  Remembered(Answer(db, History, t, q), Answer(db, History, u, q))
      BY DEF NothingForgotten, Remembered
    <2> DEFINE p == Mapping(History, q)
    <2>1. IsHistory(History)
      BY HistoryIs
    <2>2. Orderly(History, Views(db, History))
      <3>1. \A table \in Tables : \A r \in db[table] : IsRow(table, r)
        BY WorldsAssumption DEF ReaderTypeOK, World
      <3>2. DOMAIN db = Tables \cup {"unavailable"}
        BY DEF ReaderTypeOK
      <3>3. \A table \in DOMAIN VersionKey : \A r, s \in View(db, History, table) :
              (r.code = s.code /\ (\A field \in VersionKey[table] : r[field] = s[field])
                 /\ (table = "dividend" => DividendDate(r, r.imp_ann) = DividendDate(s, s.imp_ann))) => r = s
        BY DEF Tied
      <3> QED
        BY <2>1, <3>1, <3>2, <3>3, OrderlyViews DEF OneRowPerKey
    <2>3. IsRequest(q)
      BY WorldsAssumption DEF World
    <2>4. IsRequest(p) /\ p.lasting
      <3>1. p.lasting = q.lasting
        BY <2>3, MappedIsRequest DEF IsRequest
      <3> QED
        BY <2>3, <3>1, MappedIsRequest
    <2>5. t \in Nat /\ u \in Nat /\ t <= u
      BY InstantsAssumption
    <2> HIDE DEF p
    <2>6. Remembered(Read(Views(db, History), History, t, p), Read(Views(db, History), History, u, p))
      BY <2>1, <2>2, <2>4, <2>5, ReadRemembers
    <2> QED
      BY <2>6 DEF Answer, p
  <1> QED
    BY <1>1, StoredOnce, PTL DEF ReaderSpec
=============================================================================
