---------------------------- MODULE QmtSyncProofs ----------------------------
(***************************************************************************)
(* What the history synchronisation has noted as complete is final, and is *)
(* there once, whatever is asked for, whatever fails, and however the days *)
(* go on meanwhile; and it is enough to adjust prices with, as long as     *)
(* factors are asked for only of days that have come.                      *)
(***************************************************************************)
EXTENDS QmtSync, OperatorProofs

\* What a row stands for at the vendor: a traded bar, an announced factor.
Known(k) ==
  /\ k[1] \in History => <<k[2], k[3]>> \in Traded
  /\ k[1] = "dividend_factors" => \E f \in Factors : f.code = k[2] /\ f.ex = k[3] /\ f.announced <= today

Busy == call.at \in {"batch", "downloaded", "write", "compact", "mark"}
Writing == call.at \in {"write", "compact", "mark"}

\* Batches as a dataset has them on a day: bars are asked for up to the day before only.
Proper(batches, dataset, day) ==
  /\ batches \in Seq([range : Int \X Int, codes : SUBSET Codes])
  /\ \A i \in DOMAIN batches :
       /\ dataset # "financial" => batches[i].range[1] <= batches[i].range[2]
       /\ dataset \in History => batches[i].range[2] < day

\* No two batches ask for the same day of a code, and from one on none asks for a noted day.
Disjoint(batches) ==
  \A i, j \in DOMAIN batches : i # j /\ batches[i].codes \cap batches[j].codes # {} =>
    batches[i].range[2] < batches[j].range[1] \/ batches[j].range[2] < batches[i].range[1]
Unmarked(batches, dataset, ms, from) ==
  \A i \in DOMAIN batches : i >= from =>
    \A code \in batches[i].codes : \A day \in DaysOf(ms[<<dataset, code>>]) : ~Within(day, batches[i].range)

Types ==
  /\ today \in FirstDay .. LastDay /\ faults \in 0 .. MaxFaults
  /\ stored \in [Keys -> Seq({Final})] /\ forced \subseteq Keys /\ missed \subseteq Keys
  /\ DOMAIN marks = (History \cup {"dividend_factors"}) \X Codes
  /\ marks = [m \in DOMAIN marks |-> marks[m]] /\ \A m \in DOMAIN marks : Apart(marks[m])

CallOK ==
  /\ call.at \in {"idle", "next", "batch", "downloaded", "write", "compact", "mark"}
  /\ call.at # "idle" => call.asked \in Calls /\ call.todo \in Seq(Tables)
  /\ Busy => call.dataset \in Tables /\ Proper(call.batches, call.dataset, today)
  /\ Busy /\ call.at # "batch" => call.batches # <<>>

\* A call that is not forced writes nothing that is noted.
NothingTwice ==
  Busy /\ ~call.asked.force /\ call.dataset # "financial" =>
    Disjoint(call.batches) /\ Unmarked(call.batches, call.dataset, marks, IF call.at = "mark" THEN 2 ELSE 1)

\* The agent's files hold final bars of the batch.
CacheOK ==
  call.at = "downloaded" =>
    /\ call.dataset \in History
    /\ call.cache = [k \in {x \in Keys : OfBatch(x)} |-> IF <<k[2], k[3]>> \in Traded THEN Final ELSE Nothing]

RowsOK ==
  Writing =>
    /\ call = [at |-> call.at, todo |-> call.todo, asked |-> call.asked, dataset |-> call.dataset,
               batches |-> call.batches, rows |-> call.rows, noted |-> call.noted, short |-> call.short,
               days |-> call.days]
    /\ \A k \in DOMAIN call.rows : k \in Keys /\ OfBatch(k) /\ call.rows[k] = Final /\ Known(k)
    /\ call.short \subseteq Keys
    /\ call.noted \subseteq Batch.codes /\ (call.dataset = "financial" => call.noted = {})
    /\ call.days \in Seq(Days)

\* What is noted after a batch is in its rows, or is what the answer did not have, and the rest is
\* not there at all.
NotedOK ==
  Writing => \A k \in Keys : OfBatch(k) /\ k[2] \in call.noted /\ k \notin DOMAIN call.rows \cup call.short =>
               stored[k] = <<>> /\ (k[1] \in History => <<k[2], k[3]>> \notin Traded)

\* How far writing has come.
Progress ==
  /\ call.at = "write" => \A k \in DOMAIN call.rows : k[3] \in ToSet(call.days) \/ stored[k] # <<>>
  /\ call.at \in {"compact", "mark"} => \A k \in DOMAIN call.rows : stored[k] # <<>>
  /\ call.at = "compact" => \A k \in DOMAIN call.rows : k[3] \in ToSet(call.days) \/ Len(stored[k]) <= 1
  /\ call.at = "mark" => \A k \in DOMAIN call.rows : Len(stored[k]) <= 1

StoredIsKnown == \A k \in Keys : stored[k] # <<>> => Known(k)

MarkedIsStored ==
  \A dataset \in History, code \in Codes : \A day \in Marked(dataset, code) :
    day < today /\ (<<code, day>> \in Traded => Stored(<<dataset, code, day>>) \/ <<dataset, code, day>> \in missed)

\* A forced call writes what is noted anew, and has it twice until it has compacted it.
MarkedIsSingle ==
  \A k \in Keys :
    /\ k[1] # "financial" /\ k[3] \in Marked(k[1], k[2]) /\ k \notin forced \cup missed
    /\ ~(call.at \in {"write", "compact"} /\ call.asked.force /\ k \in DOMAIN call.rows)
    => Len(stored[k]) <= 1

SyncInv ==
  /\ Types /\ CallOK /\ NothingTwice /\ CacheOK /\ RowsOK /\ NotedOK /\ Progress
  /\ StoredIsKnown /\ MarkedIsStored /\ MarkedIsSingle

-----------------------------------------------------------------------------
(* What the batches of a dataset are. *)

LEMMA PropertiesOfVendor ==
  /\ IsFiniteSet(Codes) /\ LastDay \in Nat /\ MaxFaults \in Nat /\ FirstDay \in Days
  /\ Days = 1 .. LastDay /\ IsFiniteSet(Days) /\ Days \in SUBSET Nat
  /\ Traded \subseteq Codes \X Days /\ ReportDays \subseteq Days
  /\ \A f \in Factors : f.code \in Codes /\ f.ex \in Days /\ f.announced \in Int
  BY VendorAssumption, FS_Interval DEF Days

LEMMA ImageIsFinite ==
  ASSUME NEW S, IsFiniteSet(S), NEW f, DOMAIN f = S
  PROVE  IsFiniteSet({f[x] : x \in S})
  <1> DEFINE T == {f[x] : x \in S}
             g == [x \in S |-> f[x]]
  <1>1. g \in Surjection(S, T)
    BY DEF Surjection
  <1> QED
    BY <1>1, FS_Surjection

LEMMA RangeIsFinite ==
  ASSUME NEW X, NEW s \in Seq(X)
  PROVE  IsFiniteSet(ToSet(s)) /\ ToSet(s) \subseteq X
  <1>1. DOMAIN s = 1 .. Len(s) /\ Len(s) \in Nat
    OBVIOUS
  <1>2. IsFiniteSet(DOMAIN s)
    BY <1>1, FS_Interval
  <1>3. IsFiniteSet({s[i] : i \in DOMAIN s})
    BY <1>2, ImageIsFinite
  <1> QED
    BY <1>3 DEF ToSet

LEMMA PrecedesIsLinear ==
  ASSUME NEW S \in SUBSET (Int \X Int)
  PROVE  Linear(S, {x \in S \X S : Precedes(x[1], x[2])})
  <1> DEFINE R == {x \in S \X S : Precedes(x[1], x[2])}
  <1>1. \A r \in S : r = <<r[1], r[2]>> /\ r[1] \in Int /\ r[2] \in Int
    OBVIOUS
  <1>2. \A r, s : <<r, s>> \in R <=> r \in S /\ s \in S /\ Precedes(r, s)
    OBVIOUS
  <1>3. ASSUME NEW r \in S PROVE ~Precedes(r, r)
    BY <1>1 DEF Precedes
  <1>4. ASSUME NEW r \in S, NEW s \in S PROVE r = s \/ Precedes(r, s) \/ Precedes(s, r)
    <2>1. r[1] \in Int /\ r[2] \in Int /\ s[1] \in Int /\ s[2] \in Int
      BY <1>1
    <2>2. (r[1] = s[1] /\ r[2] = s[2]) => r = s
      <3>1. r = <<r[1], r[2]>> /\ s = <<s[1], s[2]>>
        BY <1>1
      <3> QED
        BY <3>1
    <2> QED
      BY <2>1, <2>2 DEF Precedes
  <1>5. ASSUME NEW r \in S, NEW s \in S, NEW t \in S, Precedes(r, s), Precedes(s, t) PROVE Precedes(r, t)
    <2>1. r[1] \in Int /\ r[2] \in Int /\ s[1] \in Int /\ s[2] \in Int /\ t[1] \in Int /\ t[2] \in Int
      BY <1>1
    <2> QED
      BY <2>1, <1>5 DEF Precedes
  <1> HIDE DEF R
  <1>6. Linear(S, R)
    BY <1>2, <1>3, <1>4, <1>5 DEF Linear
  <1> QED
    BY <1>6 DEF R

\* A range of a day, and another range, of ranges apart.
LEMMA RangesApart ==
  ASSUME NEW rs, Apart(rs), NEW r \in ToSet(rs), NEW s \in ToSet(rs), r # s
  PROVE  r[2] < s[1] \/ s[2] < r[1]
  <1>1. PICK i \in DOMAIN rs, j \in DOMAIN rs : r = rs[i] /\ s = rs[j]
    BY DEF ToSet
  <1>2. i \in Nat /\ j \in Nat /\ i # j
    BY <1>1 DEF Apart
  <1>3. rs[i] \in Int \X Int /\ rs[j] \in Int \X Int
    BY DEF Apart
  <1>4. rs[i][2] \in Int /\ rs[j][2] \in Int /\ rs[i][1] \in Int /\ rs[j][1] \in Int
    BY <1>3
  <1>5. i < j => rs[i][2] + 1 < rs[j][1]
    BY DEF Apart
  <1>6. j < i => rs[j][2] + 1 < rs[i][1]
    BY DEF Apart
  <1> QED
    BY <1>1, <1>2, <1>4, <1>5, <1>6

LEMMA RangeOfDays ==
  ASSUME NEW rs, Apart(rs), NEW r \in ToSet(rs)
  PROVE  r \in Int \X Int /\ r[1] <= r[2] /\ \A day \in Int : Within(day, r) => day \in DaysOf(rs)
  <1>1. PICK i \in DOMAIN rs : r = rs[i]
    BY DEF ToSet
  <1>2. rs \in Seq(Int \X Int)
    BY DEF Apart
  <1>3. rs[i] \in Int \X Int /\ rs[i][1] <= rs[i][2]
    BY <1>2 DEF Apart
  <1>4. \A day \in Int : Within(day, rs[i]) => day \in DaysOf(rs)
    BY <1>2, DaysAre DEF In, Within
  <1> QED
    BY <1>1, <1>3, <1>4

\* The batches of _pending_batches.
LEMMA PendingIs ==
  ASSUME NEW dataset, NEW codes \in SUBSET Codes, NEW start \in Int, NEW end \in Int, NEW force \in BOOLEAN,
         \A code \in codes : Apart(marks[<<dataset, code>>]),
         NEW bs, bs = PendingBatches(dataset, codes, start, end, force)
  PROVE  /\ bs \in Seq([range : Int \X Int, codes : SUBSET codes])
         /\ \A i \in DOMAIN bs : bs[i].range[1] <= bs[i].range[2] /\ bs[i].range[2] <= end
         /\ Disjoint(bs) /\ (~force => Unmarked(bs, dataset, marks, 1))
  <1> DEFINE Completed(code) == IF force THEN <<>> ELSE marks[<<dataset, code>>]
             missing == [code \in codes |-> MissingDateRanges(start, end, Completed(code))]
             sets == [code \in codes |-> ToSet(missing[code])]
             ranges == UNION {sets[code] : code \in codes}
             R == {x \in ranges \X ranges : Precedes(x[1], x[2])}
             order == Arranged(ranges, R)
             Batch1(r) == [range |-> r, codes |-> {code \in codes : r \in sets[code]}]
  <1>1. bs = [i \in DOMAIN order |-> Batch1(order[i])]
    <2>1. \A code \in codes : ToSet(MissingDateRanges(start, end, Completed(code))) = sets[code]
      OBVIOUS
    <2>2. UNION {ToSet(MissingDateRanges(start, end, Completed(code))) : code \in codes} = ranges
      BY <2>1
    <2> DEFINE order0 == Arranged(UNION {ToSet(MissingDateRanges(start, end, Completed(code))) : code \in codes},
                           {x \in (UNION {ToSet(MissingDateRanges(start, end, Completed(code))) : code \in codes}) \X
                              (UNION {ToSet(MissingDateRanges(start, end, Completed(code))) : code \in codes}) : Precedes(x[1], x[2])})
    <2>3. bs = [i \in DOMAIN order0 |-> [range |-> order0[i],
                  codes |-> {code \in codes : order0[i] \in ToSet(MissingDateRanges(start, end, Completed(code)))}]]
      BY DEF PendingBatches
    <2>4. order0 = order
      BY <2>2
    <2> DEFINE Batch0(r) == [range |-> r, codes |-> {code \in codes : r \in ToSet(MissingDateRanges(start, end, Completed(code)))}]
    <2>5. ASSUME NEW r PROVE Batch0(r) = Batch1(r)
      <3> HIDE DEF sets, Completed
      <3>1. {code \in codes : r \in ToSet(MissingDateRanges(start, end, Completed(code)))} = {code \in codes : r \in sets[code]}
        BY <2>1
      <3> QED
        BY <3>1
    <2>6. bs = [i \in DOMAIN order0 |-> Batch0(order0[i])]
      <3> HIDE DEF order0
      <3> QED
        BY <2>3
    <2> HIDE DEF order0, order, Batch0, Batch1
    <2> QED
      BY <2>4, <2>5, <2>6
  <1>2. \A code \in codes : Apart(Completed(code))
    <2>1. Apart(<<>>)
      BY DEF Apart
    <2> QED
      BY <2>1
  <1> HIDE DEF Completed
  <1>3. ASSUME NEW code \in codes
        PROVE  /\ Apart(missing[code]) /\ sets[code] = ToSet(missing[code])
               /\ \A day \in Int : day \in DaysOf(missing[code]) <=>
                    start <= day /\ day <= end /\ day \notin DaysOf(Completed(code))
    BY <1>2, MissingIs
  <1> HIDE DEF missing
  <1>4. \A code \in codes : IsFiniteSet(sets[code]) /\ sets[code] \subseteq Int \X Int
    <2> TAKE code \in codes
    <2>1. missing[code] \in Seq(Int \X Int)
      BY <1>3 DEF Apart
    <2> HIDE DEF sets
    <2> QED
      BY <1>3, <2>1, RangeIsFinite
  <1>5. IsFiniteSet(ranges) /\ ranges \in SUBSET (Int \X Int)
    <2>1. IsFiniteSet(codes)
      BY PropertiesOfVendor, FS_Subset
    <2>2. IsFiniteSet({sets[code] : code \in codes})
      <3>1. DOMAIN sets = codes
        OBVIOUS
      <3> HIDE DEF sets
      <3> QED
        BY <2>1, <3>1, ImageIsFinite
    <2> HIDE DEF sets
    <2>3. \A T \in {sets[code] : code \in codes} : IsFiniteSet(T)
      BY <1>4
    <2> QED
      BY <1>4, <2>2, <2>3, FS_UNION
  <1>6. Linear(ranges, R)
    <2> HIDE DEF ranges
    <2> QED
      BY <1>5, PrecedesIsLinear
  <1> HIDE DEF R
  <1>7. InOrder(order, ranges, R)
    <2> HIDE DEF ranges
    <2> QED
      BY <1>5, <1>6, ArrangedInOrder
  <1> HIDE DEF order
  <1>8. \A i, j \in 1 .. Cardinality(ranges) : order[i] = order[j] => i = j
    <2> HIDE DEF ranges
    <2> QED
      BY <1>5, <1>6, <1>7, OrderIsBijective
  <1> DEFINE n == Cardinality(ranges)
  <1>9. n \in Nat /\ order \in [1 .. n -> ranges]
    BY <1>5, <1>7, FS_CardinalityType DEF InOrder
  <1> HIDE DEF n
  <1>10. DOMAIN order = 1 .. n /\ \A i \in 1 .. n : order[i] \in ranges
    BY <1>9
  <1>11. \A i \in 1 .. n : bs[i].range = order[i] /\ bs[i].codes = {code \in codes : order[i] \in sets[code]}
    <2> HIDE DEF ranges, sets
    <2> QED
      BY <1>1, <1>10
  <1>12. bs \in Seq([range : Int \X Int, codes : SUBSET codes]) /\ DOMAIN bs = 1 .. n
    <2> HIDE DEF ranges, sets
    <2>1. \A i \in 1 .. n : Batch1(order[i]) \in [range : Int \X Int, codes : SUBSET codes]
      BY <1>5, <1>10
    <2> HIDE DEF Batch1
    <2>2. bs \in [1 .. n -> [range : Int \X Int, codes : SUBSET codes]]
      BY <1>1, <1>10, <2>1
    <2> QED
      BY <1>9, <2>2, FunctionIsSequence
  <1>13. \A i \in 1 .. n : \E code \in codes : order[i] \in sets[code]
    <2> HIDE DEF sets
    <2> QED
      BY <1>10
  <1> HIDE DEF ranges, sets
  <1>14. ASSUME NEW i \in DOMAIN bs PROVE bs[i].range[1] <= bs[i].range[2] /\ bs[i].range[2] <= end
    <2>1. PICK code \in codes : order[i] \in ToSet(missing[code])
      BY <1>3, <1>12, <1>13
    <2>2. order[i] \in Int \X Int /\ order[i][1] <= order[i][2]
          /\ \A day \in Int : Within(day, order[i]) => day \in DaysOf(missing[code])
      BY <1>3, <2>1, RangeOfDays
    <2>3. order[i][2] \in Int /\ Within(order[i][2], order[i])
      BY <2>2 DEF Within
    <2>4. order[i][2] <= end
      BY <1>3, <2>2, <2>3
    <2> QED
      BY <1>11, <1>12, <2>2, <2>4
  <1>15. Disjoint(bs)
    <2> SUFFICES ASSUME NEW i \in DOMAIN bs, NEW j \in DOMAIN bs, i # j, NEW code \in bs[i].codes \cap bs[j].codes
                 PROVE  bs[i].range[2] < bs[j].range[1] \/ bs[j].range[2] < bs[i].range[1]
      BY DEF Disjoint
    <2>1. code \in codes /\ order[i] \in ToSet(missing[code]) /\ order[j] \in ToSet(missing[code])
      BY <1>3, <1>11, <1>12
    <2>2. order[i] # order[j]
      BY <1>8, <1>12 DEF n
    <2>3. order[i][2] < order[j][1] \/ order[j][2] < order[i][1]
      BY <1>3, <2>1, <2>2, RangesApart
    <2> QED
      BY <1>11, <1>12, <2>3
  <1>16. ASSUME ~force PROVE Unmarked(bs, dataset, marks, 1)
    <2> SUFFICES ASSUME NEW i \in DOMAIN bs, NEW code \in bs[i].codes, NEW day \in DaysOf(marks[<<dataset, code>>])
                 PROVE  ~Within(day, bs[i].range)
      BY DEF Unmarked
    <2>1. code \in codes /\ order[i] \in ToSet(missing[code]) /\ bs[i].range = order[i]
      BY <1>3, <1>11, <1>12
    <2>2. Completed(code) = marks[<<dataset, code>>]
      BY <1>16 DEF Completed
    <2>3. marks[<<dataset, code>>] \in Seq(Int \X Int)
      BY <2>1 DEF Apart
    <2>4. day \in Int
      BY <2>3, DaysAre
    <2>5. Within(day, order[i]) => day \in DaysOf(missing[code])
      BY <1>3, <2>1, <2>4, RangeOfDays
    <2> QED
      BY <1>3, <2>1, <2>2, <2>4, <2>5
  <1> QED
    BY <1>12, <1>14, <1>15, <1>16

-----------------------------------------------------------------------------
(* Steps of a call that leave what is stored as it is. *)

SameStore ==
  /\ today' = today /\ UNCHANGED <<stored, marks, missed, forced>>
  /\ faults \in 0 .. MaxFaults => faults' \in 0 .. MaxFaults

LEMMA StoreSame ==
  ASSUME SyncInv, SameStore
  PROVE  Types' /\ StoredIsKnown' /\ MarkedIsStored'
  <1>1. Types'
    BY DEF SyncInv, Types, SameStore
  <1>2. StoredIsKnown'
    BY DEF SyncInv, StoredIsKnown, SameStore, Known
  <1>3. MarkedIsStored'
    BY DEF SyncInv, MarkedIsStored, SameStore, Marked, Stored
  <1> QED
    BY <1>1, <1>2, <1>3

LEMMA SingleSame ==
  ASSUME SyncInv, SameStore, call.at \notin {"write", "compact"}
  PROVE  MarkedIsSingle'
  BY DEF SyncInv, MarkedIsSingle, SameStore, Marked

\* A call that has no dataset in hand.
LEMMA BetweenDatasets ==
  ASSUME SyncInv, SameStore, call.at \notin {"write", "compact"}, call'.at \in {"idle", "next"},
         call'.at # "idle" => call'.asked \in Calls /\ call'.todo \in Seq(Tables)
  PROVE  SyncInv'
  <1>1. Types' /\ StoredIsKnown' /\ MarkedIsStored' /\ MarkedIsSingle'
    BY StoreSame, SingleSame
  <1>2. CallOK' /\ NothingTwice' /\ CacheOK' /\ RowsOK' /\ NotedOK' /\ Progress'
    BY DEF CallOK, NothingTwice, CacheOK, RowsOK, NotedOK, Progress, Busy, Writing
  <1> QED
    BY <1>1, <1>2 DEF SyncInv

LEMMA SyncKeeps ==
  ASSUME SyncInv, NEW c \in Calls, Sync(c)
  PROVE  SyncInv'
  <1>1. SameStore /\ call.at = "idle"
    BY DEF Sync, SameStore, Idle
  <1>2. call'.at = "next" /\ call'.asked = c /\ call'.todo = c.datasets
    BY DEF Sync
  <1> QED
    BY <1>1, <1>2, BetweenDatasets, CallsAssumption

LEMMA ReturnKeeps ==
  ASSUME SyncInv, Return
  PROVE  SyncInv'
  <1>1. SameStore /\ call.at = "next" /\ call'.at = "idle"
    BY DEF Return, SameStore, Idle
  <1> QED
    BY <1>1, BetweenDatasets

LEMMA EndDatasetKeeps ==
  ASSUME SyncInv, EndDataset
  PROVE  SyncInv'
  <1>1. SameStore /\ call.at = "batch"
    BY DEF EndDataset, SameStore
  <1>2. call'.at = "next" /\ call'.asked = call.asked /\ call'.todo = call.todo
    BY DEF EndDataset
  <1>3. call.asked \in Calls /\ call.todo \in Seq(Tables)
    BY <1>1 DEF SyncInv, CallOK
  <1> QED
    BY <1>1, <1>2, <1>3, BetweenDatasets

LEMMA TailOf ==
  ASSUME NEW S, NEW s \in Seq(S), s # <<>>
  PROVE  /\ Head(s) \in S /\ Tail(s) \in Seq(S) /\ Len(Tail(s)) = Len(s) - 1 /\ Head(s) = s[1] /\ 1 \in DOMAIN s
         /\ \A i \in DOMAIN Tail(s) : i + 1 \in DOMAIN s /\ Tail(s)[i] = s[i + 1]
         /\ ToSet(s) = {Head(s)} \cup ToSet(Tail(s))
  <1>1. Len(s) \in Nat /\ Len(s) # 0 /\ DOMAIN s = 1 .. Len(s)
    OBVIOUS
  <1>2. /\ Head(s) \in S /\ Tail(s) \in Seq(S) /\ Len(Tail(s)) = Len(s) - 1 /\ Head(s) = s[1] /\ 1 \in DOMAIN s
    BY <1>1
  <1>3. DOMAIN Tail(s) = 1 .. Len(s) - 1 /\ \A i \in 1 .. Len(s) - 1 : Tail(s)[i] = s[i + 1]
    BY <1>1
  <1>4. \A i \in DOMAIN Tail(s) : i + 1 \in DOMAIN s /\ Tail(s)[i] = s[i + 1]
    BY <1>1, <1>3
  <1>5. \A x \in ToSet(s) : x = Head(s) \/ x \in ToSet(Tail(s))
    <2> TAKE x \in ToSet(s)
    <2>1. PICK i \in DOMAIN s : x = s[i]
      BY DEF ToSet
    <2>2. CASE i # 1
      <3>1. i - 1 \in DOMAIN Tail(s) /\ Tail(s)[i - 1] = s[i]
        BY <1>1, <1>3, <2>2
      <3> QED
        BY <2>1, <3>1 DEF ToSet
    <2> QED
      BY <2>1, <2>2, <1>2
  <1>6. Head(s) \in ToSet(s) /\ ToSet(Tail(s)) \subseteq ToSet(s)
    BY <1>2, <1>4 DEF ToSet
  <1> QED
    BY <1>2, <1>4, <1>5, <1>6

LEMMA BatchesOf ==
  ASSUME NEW codes \in SUBSET Codes, NEW bs \in Seq([range : Int \X Int, codes : SUBSET codes])
  PROVE  /\ bs \in Seq([range : Int \X Int, codes : SUBSET Codes])
         /\ \A i \in DOMAIN bs : /\ bs[i].range \in Int \X Int /\ bs[i].codes \in SUBSET codes
                                 /\ bs[i].range[1] \in Int /\ bs[i].range[2] \in Int
  <1> DEFINE S == [range : Int \X Int, codes : SUBSET codes]
             T == [range : Int \X Int, codes : SUBSET Codes]
  <1>1. DOMAIN bs = 1 .. Len(bs) /\ Len(bs) \in Nat /\ \A i \in DOMAIN bs : bs[i] \in S
    <2> HIDE DEF S
    <2>1. bs \in Seq(S)
      BY DEF S
    <2> QED
      BY <2>1
  <1>2. \A b \in S : b \in T /\ b.range \in Int \X Int /\ b.codes \in SUBSET codes
    OBVIOUS
  <1>3. \A b \in S : b.range[1] \in Int /\ b.range[2] \in Int
    BY <1>2
  <1>4. bs \in [1 .. Len(bs) -> T]
    <2> HIDE DEF S, T
    <2>1. bs \in Seq(S)
      BY DEF S
    <2>2. bs \in [1 .. Len(bs) -> S]
      BY <2>1
    <2> QED
      BY <2>2, <1>2
  <1> HIDE DEF T
  <1>5. bs \in Seq(T)
    BY <1>1, <1>4, FunctionIsSequence
  <1> HIDE DEF S
  <1> QED
    BY <1>1, <1>2, <1>3, <1>5 DEF T

LEMMA NextDatasetKeeps ==
  ASSUME SyncInv, NextDataset
  PROVE  SyncInv'
  <1> DEFINE c == call.asked
             d == Head(call.todo)
  <1>1. SameStore /\ call.at = "next" /\ call.todo # <<>>
    BY DEF NextDataset, SameStore
  <1>2. c \in Calls /\ call.todo \in Seq(Tables)
    BY <1>1 DEF SyncInv, CallOK
  <1>3. d \in Tables /\ Tail(call.todo) \in Seq(Tables)
    BY <1>1, <1>2, TailOf
  <1>4. c.codes \in SUBSET Codes /\ c.start \in Int /\ c.end \in Int /\ c.force \in BOOLEAN
    BY <1>2, CallsAssumption
  <1>5. today \in Int /\ HistoryEnd(c.end) \in Int /\ HistoryEnd(c.end) < today
    <2>1. today \in Int
      BY PropertiesOfVendor DEF SyncInv, Types
    <2> QED
      BY <2>1, <1>4 DEF HistoryEnd, Earlier
  <1> DEFINE bs == CASE d \in History -> PendingBatches(d, c.codes, c.start, HistoryEnd(c.end), c.force)
                     [] d = "dividend_factors" -> PendingBatches(d, c.codes, c.start, c.end, c.force)
                     [] d = "financial" -> <<[range |-> <<c.start, c.end>>, codes |-> c.codes]>>
  <1>6. call' = [at |-> "batch", todo |-> Tail(call.todo), asked |-> c, dataset |-> d, batches |-> bs]
    BY DEF NextDataset
  <1> HIDE DEF bs, c, d
  <1>7. Proper(bs, d, today) /\ (~c.force /\ d # "financial" => Disjoint(bs) /\ Unmarked(bs, d, marks, 1))
    <2>1. ASSUME d # "financial"
          PROVE  \A code \in c.codes : Apart(marks[<<d, code>>])
      <3>1. \A code \in c.codes : <<d, code>> \in DOMAIN marks
        BY <1>3, <1>4, <2>1 DEF SyncInv, Types, Tables
      <3> QED
        BY <3>1 DEF SyncInv, Types
    <2>2. CASE d \in History
      <3>1. bs = PendingBatches(d, c.codes, c.start, HistoryEnd(c.end), c.force) /\ d # "financial"
        BY <2>2 DEF bs, History
      <3>2. /\ bs \in Seq([range : Int \X Int, codes : SUBSET c.codes])
            /\ \A i \in DOMAIN bs : bs[i].range[1] <= bs[i].range[2] /\ bs[i].range[2] <= HistoryEnd(c.end)
            /\ Disjoint(bs) /\ (~c.force => Unmarked(bs, d, marks, 1))
        <4>1. HistoryEnd(c.end) \in Int /\ c.start \in Int /\ c.force \in BOOLEAN /\ c.codes \in SUBSET Codes
          BY <1>4, <1>5
        <4>2. \A code \in c.codes : Apart(marks[<<d, code>>])
          BY <2>1, <3>1
        <4>3. PICK codes \in SUBSET Codes, first \in Int, last \in Int, force \in BOOLEAN :
                codes = c.codes /\ first = c.start /\ last = HistoryEnd(c.end) /\ force = c.force
          BY <4>1
        <4>4. bs = PendingBatches(d, codes, first, last, force)
          BY ONLY <3>1, <4>3
        <4>5. \A code \in codes : Apart(marks[<<d, code>>])
          BY ONLY <4>2, <4>3
        <4>6. /\ bs \in Seq([range : Int \X Int, codes : SUBSET codes])
              /\ \A i \in DOMAIN bs : bs[i].range[1] <= bs[i].range[2] /\ bs[i].range[2] <= last
              /\ Disjoint(bs) /\ (~force => Unmarked(bs, d, marks, 1))
          BY ONLY codes \in SUBSET Codes, first \in Int, last \in Int, force \in BOOLEAN, <4>4, <4>5, PendingIs
        <4> QED
          BY ONLY <4>3, <4>6
      <3>3. ASSUME NEW i \in DOMAIN bs PROVE bs[i].range[2] < today
        <4>1. bs[i].range[2] \in Int
          BY <1>4, <3>2, BatchesOf
        <4> QED
          BY <4>1, <3>2, <1>5
      <3>4. bs \in Seq([range : Int \X Int, codes : SUBSET Codes])
        BY <1>4, <3>2, BatchesOf
      <3> QED
        BY <3>2, <3>3, <3>4 DEF Proper
    <2>3. CASE d = "dividend_factors"
      <3>1. bs = PendingBatches(d, c.codes, c.start, c.end, c.force) /\ d # "financial" /\ d \notin History
        BY <2>3 DEF bs, History
      <3>2. /\ bs \in Seq([range : Int \X Int, codes : SUBSET c.codes])
            /\ \A i \in DOMAIN bs : bs[i].range[1] <= bs[i].range[2]
            /\ Disjoint(bs) /\ (~c.force => Unmarked(bs, d, marks, 1))
        <4>1. c.end \in Int /\ c.start \in Int /\ c.force \in BOOLEAN /\ c.codes \in SUBSET Codes
          BY <1>4
        <4>2. \A code \in c.codes : Apart(marks[<<d, code>>])
          BY <2>1, <3>1
        <4>3. PICK codes \in SUBSET Codes, first \in Int, last \in Int, force \in BOOLEAN :
                codes = c.codes /\ first = c.start /\ last = c.end /\ force = c.force
          BY <4>1
        <4>4. bs = PendingBatches(d, codes, first, last, force)
          BY ONLY <3>1, <4>3
        <4>5. \A code \in codes : Apart(marks[<<d, code>>])
          BY ONLY <4>2, <4>3
        <4>6. /\ bs \in Seq([range : Int \X Int, codes : SUBSET codes])
              /\ \A i \in DOMAIN bs : bs[i].range[1] <= bs[i].range[2] /\ bs[i].range[2] <= last
              /\ Disjoint(bs) /\ (~force => Unmarked(bs, d, marks, 1))
          BY ONLY codes \in SUBSET Codes, first \in Int, last \in Int, force \in BOOLEAN, <4>4, <4>5, PendingIs
        <4> QED
          BY ONLY <4>3, <4>6
      <3>3. bs \in Seq([range : Int \X Int, codes : SUBSET Codes])
        BY <1>4, <3>2, BatchesOf
      <3> QED
        BY <3>1, <3>2, <3>3 DEF Proper
    <2>4. CASE d = "financial"
      <3>1. bs = <<[range |-> <<c.start, c.end>>, codes |-> c.codes]>> /\ d \notin History
        BY <2>4 DEF bs, History
      <3>2. bs \in Seq([range : Int \X Int, codes : SUBSET Codes])
        BY <1>4, <3>1
      <3> QED
        BY <2>4, <3>1, <3>2 DEF Proper
    <2> QED
      BY <1>3, <2>2, <2>3, <2>4 DEF Tables
  <1>8. /\ call'.at = "batch" /\ call'.todo = Tail(call.todo) /\ call'.asked = c /\ call'.dataset = d
        /\ call'.batches = bs
    BY <1>6
  <1>9. CallOK'
    BY <1>1, <1>2, <1>3, <1>7, <1>8 DEF CallOK, Busy, SameStore
  <1>10. NothingTwice'
    BY <1>1, <1>7, <1>8 DEF NothingTwice, Busy, SameStore
  <1>11. CacheOK' /\ RowsOK' /\ NotedOK' /\ Progress'
    BY <1>8 DEF CacheOK, RowsOK, NotedOK, Progress, Writing
  <1>12. Types' /\ StoredIsKnown' /\ MarkedIsStored' /\ MarkedIsSingle'
    BY <1>1, StoreSame, SingleSame
  <1> QED
    BY <1>9, <1>10, <1>11, <1>12 DEF SyncInv

\* The batch in hand.
LEMMA BatchIs ==
  ASSUME SyncInv, Busy, call.batches # <<>>
  PROVE  /\ Batch = call.batches[1] /\ 1 \in DOMAIN call.batches
         /\ Batch.codes \in SUBSET Codes
         /\ Batch.range \in Int \X Int /\ Batch.range[1] \in Int /\ Batch.range[2] \in Int
         /\ call.dataset # "financial" => Batch.range[1] <= Batch.range[2]
         /\ call.dataset \in History => Batch.range[2] < today
  <1>1. call.batches \in Seq([range : Int \X Int, codes : SUBSET Codes])
    BY DEF SyncInv, CallOK, Proper
  <1>2. Batch = call.batches[1] /\ 1 \in DOMAIN call.batches
    <2> DEFINE S == [range : Int \X Int, codes : SUBSET Codes]
    <2>1. call.batches \in Seq(S)
      BY <1>1
    <2> HIDE DEF S
    <2> QED
      BY <2>1, TailOf DEF Batch
  <1>3. /\ call.batches[1].codes \in SUBSET Codes /\ call.batches[1].range \in Int \X Int
        /\ call.batches[1].range[1] \in Int /\ call.batches[1].range[2] \in Int
    BY <1>1, <1>2, BatchesOf
  <1> QED
    BY <1>2, <1>3 DEF SyncInv, CallOK, Proper

LEMMA KeysAre ==
  \A k : k \in Keys => /\ k = <<k[1], k[2], k[3]>> /\ k[1] \in Tables /\ k[2] \in Codes /\ k[3] \in Days /\ k[3] \in Int
  BY PropertiesOfVendor DEF Keys

LEMMA DownloadKeeps ==
  ASSUME SyncInv, Download
  PROVE  SyncInv'
  <1>1. SameStore /\ call.at = "batch" /\ call.batches # <<>> /\ call.dataset \in History
    BY DEF Download, SameStore
  <1>2. /\ call'.at = "downloaded" /\ call'.todo = call.todo /\ call'.asked = call.asked
        /\ call'.dataset = call.dataset /\ call'.batches = call.batches
        /\ call'.cache = [k \in {x \in Keys : OfBatch(x)} |-> Bar(k[2], k[3])]
    BY DEF Download
  <1>3. Types' /\ StoredIsKnown' /\ MarkedIsStored' /\ MarkedIsSingle'
    BY <1>1, StoreSame, SingleSame
  <1>4. CallOK' /\ NothingTwice'
    BY <1>1, <1>2 DEF SyncInv, CallOK, NothingTwice, Busy, SameStore
  <1>5. \A k \in {x \in Keys : OfBatch(x)} : Bar(k[2], k[3]) = IF <<k[2], k[3]>> \in Traded THEN Final ELSE Nothing
    <2> SUFFICES ASSUME NEW k \in Keys, OfBatch(k)
                 PROVE  Bar(k[2], k[3]) = IF <<k[2], k[3]>> \in Traded THEN Final ELSE Nothing
      OBVIOUS
    <2>1. k[3] \in Int /\ today \in Int
      BY KeysAre, PropertiesOfVendor DEF SyncInv, Types
    <2>2. k[3] <= Batch.range[2] /\ Batch.range[2] < today /\ Batch.range[2] \in Int
      BY <1>1, BatchIs DEF OfBatch, Within, Busy
    <2>3. ~(k[3] > today) /\ k[3] # today
      BY <2>1, <2>2
    <2> QED
      BY <2>3 DEF Bar
  <1>6. \A k : OfBatch(k)' <=> OfBatch(k)
    BY <1>2 DEF OfBatch, Batch
  <1>7. CacheOK'
    <2>1. {x \in Keys : OfBatch(x)'} = {x \in Keys : OfBatch(x)}
      BY <1>6
    <2>2. call'.cache = [k \in {x \in Keys : OfBatch(x)} |-> IF <<k[2], k[3]>> \in Traded THEN Final ELSE Nothing]
      BY <1>2, <1>5
    <2> QED
      BY <1>1, <1>2, <2>1, <2>2 DEF CacheOK
  <1>8. RowsOK' /\ NotedOK' /\ Progress'
    BY <1>2 DEF RowsOK, NotedOK, Progress, Writing
  <1> QED
    BY <1>3, <1>4, <1>7, <1>8 DEF SyncInv

LEMMA DaysToWriteAre ==
  ASSUME NEW rows, \A k \in DOMAIN rows : k \in Keys
  PROVE  DaysToWrite(rows) \in Seq(Days) /\ \A k \in DOMAIN rows : k[3] \in ToSet(DaysToWrite(rows))
  <1> DEFINE S == {k[3] : k \in DOMAIN rows}
  <1>1. S \in SUBSET Days
    BY KeysAre
  <1>2. S \in SUBSET Nat /\ IsFiniteSet(S)
    BY <1>1, PropertiesOfVendor, FS_Subset
  <1>3. \A k \in DOMAIN rows : k[3] \in S
    OBVIOUS
  <1>4. DaysToWrite(rows) = Ascending(S)
    BY DEF DaysToWrite
  <1> HIDE DEF S
  <1>5. Ascending(S) \in Seq(S) /\ ToSet(Ascending(S)) = S
    BY <1>2, AscendingIs
  <1>6. Ascending(S) \in Seq(Days)
    <2>1. Ascending(S) \in [1 .. Len(Ascending(S)) -> S] /\ Len(Ascending(S)) \in Nat
      BY <1>5
    <2>2. Ascending(S) \in [1 .. Len(Ascending(S)) -> Days]
      BY <1>1, <2>1
    <2> QED
      BY <2>1, <2>2, FunctionIsSequence
  <1> QED
    BY <1>3, <1>4, <1>5, <1>6

LEMMA AnsweredFaults ==
  ASSUME NEW rows, NEW codes, NEW short, Answered(rows, codes, short), faults \in 0 .. MaxFaults
  PROVE  faults' \in 0 .. MaxFaults
  BY PropertiesOfVendor DEF Answered

\* An answer is to be written.
LEMMA AnsweredKeeps ==
  ASSUME SyncInv, SameStore, call.at \in {"batch", "downloaded"}, call.batches # <<>>,
         NEW rows, NEW codes, NEW short \in SUBSET Keys, Answered(rows, codes, short),
         \A k \in DOMAIN rows : k \in Keys /\ OfBatch(k) /\ rows[k] = Final /\ Known(k),
         codes \subseteq Batch.codes, call.dataset = "financial" => codes = {},
         \A k \in Keys : OfBatch(k) /\ k[2] \in codes /\ k \notin DOMAIN rows \cup short =>
           stored[k] = <<>> /\ (k[1] \in History => <<k[2], k[3]>> \notin Traded)
  PROVE  SyncInv'
  <1>1. call' = [at |-> "write", todo |-> call.todo, asked |-> call.asked, dataset |-> call.dataset,
                 batches |-> call.batches, rows |-> rows, noted |-> codes, short |-> short,
                 days |-> DaysToWrite(rows)]
    BY DEF Answered
  <1>2. /\ call'.at = "write" /\ call'.todo = call.todo /\ call'.asked = call.asked
        /\ call'.dataset = call.dataset /\ call'.batches = call.batches
        /\ call'.rows = rows /\ call'.noted = codes /\ call'.short = short /\ call'.days = DaysToWrite(rows)
    BY <1>1
  <1>3. Types' /\ StoredIsKnown' /\ MarkedIsStored'
    BY StoreSame
  <1>4. MarkedIsSingle'
    BY DEF SyncInv, MarkedIsSingle, SameStore, Marked
  <1>5. CallOK' /\ NothingTwice'
    BY <1>2 DEF SyncInv, CallOK, NothingTwice, Busy, SameStore
  <1>6. \A k : (OfBatch(k)' <=> OfBatch(k)) /\ (Known(k)' <=> Known(k)) /\ Batch' = Batch
    BY <1>2 DEF OfBatch, Batch, Known, SameStore
  <1>7. DaysToWrite(rows) \in Seq(Days) /\ \A k \in DOMAIN rows : k[3] \in ToSet(DaysToWrite(rows))
    BY DaysToWriteAre
  <1>8. RowsOK'
    <2>1. call' = [at |-> call'.at, todo |-> call'.todo, asked |-> call'.asked, dataset |-> call'.dataset,
                   batches |-> call'.batches, rows |-> call'.rows, noted |-> call'.noted, short |-> call'.short,
                   days |-> call'.days]
      BY <1>1, <1>2
    <2> QED
      BY <2>1, <1>2, <1>6, <1>7 DEF RowsOK
  <1>9. NotedOK'
    BY <1>2, <1>6 DEF NotedOK, SameStore
  <1>10. CacheOK' /\ Progress'
    BY <1>2, <1>7 DEF CacheOK, Progress
  <1> QED
    BY <1>3, <1>4, <1>5, <1>8, <1>9, <1>10 DEF SyncInv

LEMMA QueryHistoryKeeps ==
  ASSUME SyncInv, QueryHistory
  PROVE  SyncInv'
  <1>1. SameStore /\ call.at = "downloaded"
    <2>1. \E rows, codes, short : Answered(rows, codes, short)
      BY DEF QueryHistory
    <2> QED
      BY <2>1, AnsweredFaults DEF QueryHistory, SameStore
  <1>2. call.batches # <<>> /\ call.dataset \in History
    BY <1>1 DEF SyncInv, CallOK, CacheOK, Busy
  <1>3. /\ DOMAIN call.cache = {x \in Keys : OfBatch(x)}
        /\ \A k \in DOMAIN call.cache : call.cache[k] = IF <<k[2], k[3]>> \in Traded THEN Final ELSE Nothing
    BY <1>1 DEF SyncInv, CacheOK
  <1> DEFINE There(codes) == {k \in DOMAIN call.cache : k[2] \in codes /\ call.cache[k] # Nothing}
  <1>4. PICK codes \in SUBSET Batch.codes :
          \E found \in SUBSET There(codes) : Answered([k \in found |-> call.cache[k]], codes, There(codes) \ found)
    BY DEF QueryHistory
  <1>10. PICK found \in SUBSET There(codes) : Answered([k \in found |-> call.cache[k]], codes, There(codes) \ found)
    BY <1>4
  <1> DEFINE rows == [k \in found |-> call.cache[k]]
             short == There(codes) \ found
  <1>5. Answered(rows, codes, short) /\ short \in SUBSET Keys
    BY <1>3, <1>10
  <1>6. \A k \in DOMAIN rows : k \in Keys /\ OfBatch(k) /\ rows[k] = Final /\ <<k[2], k[3]>> \in Traded
    BY <1>3
  <1>7. \A k \in DOMAIN rows : Known(k)
    BY <1>2, <1>6 DEF Known, OfBatch, History
  <1>8. ASSUME NEW k \in Keys, OfBatch(k), k[2] \in codes, k \notin DOMAIN rows \cup short
        PROVE  stored[k] = <<>> /\ (k[1] \in History => <<k[2], k[3]>> \notin Traded)
    <2>1. k \in DOMAIN call.cache
      BY <1>3, <1>8
    <2>2. call.cache[k] = Nothing
      BY <1>8, <2>1
    <2>3. <<k[2], k[3]>> \notin Traded
      BY <1>3, <2>1, <2>2 DEF Final, Nothing
    <2>4. k[1] \in History
      BY <1>2, <1>8 DEF OfBatch
    <2> QED
      BY <1>8, <2>3, <2>4 DEF SyncInv, StoredIsKnown, Known
  <1> HIDE DEF rows, short
  <1>9. call.dataset = "financial" => codes = {}
    BY <1>2 DEF History
  <1> QED
    BY <1>1, <1>2, <1>5, <1>6, <1>7, <1>8, <1>9, AnsweredKeeps

LEMMA QueryFactorsKeeps ==
  ASSUME SyncInv, QueryFactors
  PROVE  SyncInv'
  <1> DEFINE Announced(k) == \E f \in Factors : f.code = k[2] /\ f.ex = k[3] /\ f.announced <= today
             there == {k \in Keys : OfBatch(k) /\ Announced(k)}
  <1>1. PICK codes \in SUBSET Batch.codes :
          Answered([k \in {x \in there : x[2] \in codes} |-> Final], Batch.codes, there \ {x \in there : x[2] \in codes})
    BY DEF QueryFactors
  <1> DEFINE found == {k \in there : k[2] \in codes}
             rows == [k \in found |-> Final]
             short == there \ found
  <1>2. SameStore /\ call.at = "batch" /\ call.batches # <<>> /\ call.dataset = "dividend_factors"
    BY <1>1, AnsweredFaults DEF QueryFactors, SameStore
  <1>3. Answered(rows, Batch.codes, short) /\ short \in SUBSET Keys
    BY <1>1
  <1>4. \A k \in DOMAIN rows : k \in Keys /\ OfBatch(k) /\ rows[k] = Final /\ Announced(k)
    OBVIOUS
  <1>5. \A k \in Keys : OfBatch(k) /\ k \notin DOMAIN rows \cup short => ~Announced(k)
    OBVIOUS
  <1>6. \A k : OfBatch(k) => k[1] = "dividend_factors" /\ k[1] \notin History
    BY <1>2 DEF OfBatch, History
  <1> HIDE DEF rows, short
  <1>7. \A k \in DOMAIN rows : Known(k)
    BY <1>4, <1>6 DEF Known
  <1>8. \A k \in Keys : OfBatch(k) /\ k \notin DOMAIN rows \cup short => stored[k] = <<>>
    BY <1>5, <1>6 DEF SyncInv, StoredIsKnown, Known
  <1>9. call.dataset # "financial"
    BY <1>2
  <1> HIDE DEF Announced
  <1> QED
    BY <1>2, <1>3, <1>4, <1>6, <1>7, <1>8, <1>9, AnsweredKeeps

LEMMA QueryFinancialKeeps ==
  ASSUME SyncInv, QueryFinancial
  PROVE  SyncInv'
  <1> DEFINE found == {k \in Keys : OfBatch(k) /\ k[3] \in ReportDays /\ k[3] <= today}
             rows == [k \in found |-> Final]
  <1>2. Answered(rows, {}, {})
    BY DEF QueryFinancial
  <1>1. SameStore /\ call.at = "batch" /\ call.batches # <<>> /\ call.dataset = "financial"
    <2> HIDE DEF rows
    <2> QED
      BY <1>2, AnsweredFaults DEF QueryFinancial, SameStore
  <1>3. \A k \in DOMAIN rows : k \in Keys /\ OfBatch(k) /\ rows[k] = Final
    OBVIOUS
  <1> HIDE DEF rows
  <1>4. \A k \in DOMAIN rows : Known(k)
    BY <1>1, <1>3 DEF Known, OfBatch, History
  <1> QED
    BY <1>1, <1>2, <1>3, <1>4, AnsweredKeeps

-----------------------------------------------------------------------------
(* Writing. *)

LEMMA WritingIs ==
  ASSUME SyncInv, Writing
  PROVE  /\ Busy /\ call.at # "idle" /\ call.batches # <<>>
         /\ call = [at |-> call.at, todo |-> call.todo, asked |-> call.asked, dataset |-> call.dataset,
                    batches |-> call.batches, rows |-> call.rows, noted |-> call.noted, short |-> call.short,
                    days |-> call.days]
         /\ call.asked \in Calls /\ call.asked.force \in BOOLEAN /\ call.dataset \in Tables
         /\ call.days \in Seq(Days) /\ call.noted \subseteq Batch.codes /\ call.short \subseteq Keys
         /\ \A k \in DOMAIN call.rows : k \in Keys /\ OfBatch(k) /\ call.rows[k] = Final /\ Known(k)
  BY CallsAssumption DEF SyncInv, CallOK, RowsOK, Writing, Busy

\* What is written by a call that is not forced is not noted before.
LEMMA WrittenIsUnmarked ==
  ASSUME SyncInv, call.at \in {"write", "compact"}, ~call.asked.force,
         NEW k \in DOMAIN call.rows, k[1] # "financial"
  PROVE  k[3] \notin Marked(k[1], k[2])
  <1>1. Writing /\ Busy /\ call.at # "mark"
    BY DEF Writing, Busy
  <1>2. k \in Keys /\ OfBatch(k)
    BY <1>1, WritingIs
  <1>3. k[1] = call.dataset /\ k[2] \in Batch.codes /\ Within(k[3], Batch.range)
    BY <1>2 DEF OfBatch
  <1>4. Unmarked(call.batches, call.dataset, marks, 1)
    BY <1>1, <1>3 DEF SyncInv, NothingTwice
  <1>5. Batch = call.batches[1] /\ 1 \in DOMAIN call.batches
    BY <1>1, WritingIs, BatchIs
  <1>6. \A day \in DaysOf(marks[<<call.dataset, k[2]>>]) : ~Within(day, Batch.range)
    BY <1>3, <1>4, <1>5 DEF Unmarked
  <1> QED
    BY <1>3, <1>6 DEF Marked

\* Rows of days are appended.
Appended(days) == stored' = [k \in Keys |-> AfterFlushOf(k, days)]

LEMMA AppendedIs ==
  ASSUME SyncInv, Writing, NEW days, Appended(days), today' = today, marks' = marks, missed' = missed
  PROVE  /\ stored' \in [Keys -> Seq({Final})] /\ StoredIsKnown' /\ MarkedIsStored'
         /\ \A k \in Keys : /\ k \notin DOMAIN call.rows => stored'[k] = stored[k]
                            /\ stored[k] # <<>> => stored'[k] # <<>>
                            /\ k \in DOMAIN call.rows /\ k[3] \in days => stored'[k] # <<>>
  <1>1. stored \in [Keys -> Seq({Final})]
    BY DEF SyncInv, Types
  <1>2. \A k \in DOMAIN call.rows : k \in Keys /\ call.rows[k] = Final /\ Known(k)
    BY WritingIs
  <1>3. ASSUME NEW k \in Keys
        PROVE  /\ stored'[k] \in Seq({Final})
               /\ k \notin DOMAIN call.rows => stored'[k] = stored[k]
               /\ stored[k] # <<>> => stored'[k] # <<>>
               /\ k \in DOMAIN call.rows /\ k[3] \in days => stored'[k] # <<>>
    <2>1. stored[k] \in Seq({Final}) /\ stored'[k] = AfterFlushOf(k, days)
      BY <1>1 DEF Appended
    <2>2. Append(stored[k], Final) \in Seq({Final}) /\ Append(stored[k], Final) # <<>>
      BY <2>1, Appending
    <2> QED
      BY <1>2, <2>1, <2>2 DEF AfterFlushOf
  <1>4. stored' \in [Keys -> Seq({Final})]
    <2>1. stored' = [k \in Keys |-> stored'[k]]
      BY DEF Appended
    <2> QED
      BY <1>3, <2>1
  <1>5. StoredIsKnown'
    <2>1. \A k : Known(k)' <=> Known(k)
      BY DEF Known
    <2>2. \A k \in Keys : stored'[k] # <<>> => Known(k)
      BY <1>2, <1>3 DEF SyncInv, StoredIsKnown
    <2> QED
      BY <2>1, <2>2 DEF StoredIsKnown
  <1>6. MarkedIsStored'
    <2> SUFFICES ASSUME NEW dataset \in History, NEW code \in Codes, NEW day \in Marked(dataset, code)
                 PROVE  day < today /\ (<<code, day>> \in Traded =>
                                  stored'[<<dataset, code, day>>] # <<>> \/ <<dataset, code, day>> \in missed)
      BY DEF MarkedIsStored, Marked, Stored
    <2>1. day < today /\ (<<code, day>> \in Traded =>
                            stored[<<dataset, code, day>>] # <<>> \/ <<dataset, code, day>> \in missed)
      BY DEF SyncInv, MarkedIsStored, Stored
    <2>2. <<code, day>> \in Traded => <<dataset, code, day>> \in Keys
      BY PropertiesOfVendor DEF Keys, Tables
    <2> QED
      BY <1>3, <2>1, <2>2
  <1> QED
    BY <1>3, <1>4, <1>5, <1>6

\* Only how far the call has come changes.
Onward(at, days) ==
  /\ call'.at = at /\ call'.todo = call.todo /\ call'.asked = call.asked /\ call'.dataset = call.dataset
  /\ call'.batches = call.batches /\ call'.rows = call.rows /\ call'.noted = call.noted
  /\ call'.short = call.short /\ call'.days = days
  /\ call' = [at |-> call'.at, todo |-> call'.todo, asked |-> call'.asked, dataset |-> call'.dataset,
              batches |-> call'.batches, rows |-> call'.rows, noted |-> call'.noted, short |-> call'.short,
              days |-> call'.days]

LEMMA OnwardIs ==
  ASSUME SyncInv, Writing
  PROVE  /\ \A days : call' = [call EXCEPT !.days = days] => Onward(call.at, days)
         /\ \A at, days : call' = [call EXCEPT !.at = at, !.days = days] => Onward(at, days)
         /\ \A at : call' = [call EXCEPT !.at = at] => Onward(at, call.days)
  <1>1. call = [at |-> call.at, todo |-> call.todo, asked |-> call.asked, dataset |-> call.dataset,
                batches |-> call.batches, rows |-> call.rows, noted |-> call.noted, short |-> call.short,
                days |-> call.days]
    BY WritingIs
  <1>2. PICK a, t, q, d, b, r, n, s, ds :
          /\ a = call.at /\ t = call.todo /\ q = call.asked /\ d = call.dataset /\ b = call.batches
          /\ r = call.rows /\ n = call.noted /\ s = call.short /\ ds = call.days
    OBVIOUS
  <1>3. call = [at |-> a, todo |-> t, asked |-> q, dataset |-> d, batches |-> b, rows |-> r, noted |-> n, short |-> s,
               days |-> ds]
    BY <1>1, <1>2
  <1>4. ASSUME NEW at, NEW days,
               call' = [at |-> at, todo |-> t, asked |-> q, dataset |-> d, batches |-> b, rows |-> r, noted |-> n,
                        short |-> s, days |-> days]
        PROVE  Onward(at, days)
    BY <1>2, <1>4 DEF Onward
  <1>5. ASSUME NEW days, call' = [call EXCEPT !.days = days] PROVE Onward(call.at, days)
    BY <1>2, <1>3, <1>4, <1>5
  <1>6. ASSUME NEW at, NEW days, call' = [call EXCEPT !.at = at, !.days = days] PROVE Onward(at, days)
    BY <1>2, <1>3, <1>4, <1>6
  <1>7. ASSUME NEW at, call' = [call EXCEPT !.at = at] PROVE Onward(at, call.days)
    BY <1>2, <1>3, <1>4, <1>7
  <1> QED
    BY <1>5, <1>6, <1>7

LEMMA OnwardKeeps ==
  ASSUME SyncInv, Writing, NEW at \in {"write", "compact", "mark"}, NEW days \in Seq(Days), Onward(at, days),
         today' = today, marks' = marks, at = "mark" \/ call.at # "mark"
  PROVE  CallOK' /\ NothingTwice' /\ CacheOK' /\ RowsOK' /\ \A k : OfBatch(k)' <=> OfBatch(k)
  <1>1. \A k : (OfBatch(k)' <=> OfBatch(k)) /\ (Known(k)' <=> Known(k)) /\ Batch' = Batch
    BY DEF Onward, OfBatch, Batch, Known
  <1>2. CallOK'
    BY DEF SyncInv, CallOK, Onward, Writing, Busy
  <1>3. NothingTwice'
    <2>1. ~call.asked.force /\ call.dataset # "financial" => Disjoint(call.batches)
          /\ Unmarked(call.batches, call.dataset, marks, IF call.at = "mark" THEN 2 ELSE 1)
      BY DEF SyncInv, NothingTwice, Writing, Busy
    <2>2. Unmarked(call.batches, call.dataset, marks, 1) => Unmarked(call.batches, call.dataset, marks, 2)
      <3>1. \A i \in DOMAIN call.batches : i >= 2 => i >= 1
        <4>1. Busy
          BY DEF Busy, Writing
        <4>2. call.batches \in Seq([range : Int \X Int, codes : SUBSET Codes])
          BY <4>1 DEF SyncInv, CallOK, Proper
        <4> QED
          BY <4>2
      <3> QED
        BY <3>1 DEF Unmarked
    <2> QED
      BY <2>1, <2>2 DEF NothingTwice, Onward
  <1>4. CacheOK'
    BY DEF CacheOK, Onward
  <1>5. RowsOK'
    BY <1>1 DEF SyncInv, RowsOK, Onward
  <1> QED
    BY <1>1, <1>2, <1>3, <1>4, <1>5

LEMMA FlushKeeps ==
  ASSUME SyncInv, Flush
  PROVE  SyncInv'
  <1>1. call.at = "write" /\ Writing /\ call.days # <<>> /\ Appended({Head(call.days)})
        /\ today' = today /\ marks' = marks /\ missed' = missed /\ forced' = forced /\ faults' = faults
    BY DEF Flush, Writing, Appended
  <1>2. call.days \in Seq(Days) /\ call.asked.force \in BOOLEAN
    BY <1>1, WritingIs
  <1>3. Tail(call.days) \in Seq(Days) /\ ToSet(call.days) = {Head(call.days)} \cup ToSet(Tail(call.days))
    BY <1>1, <1>2, TailOf
  <1>4. Onward("write", Tail(call.days))
    <2>1. call' = [call EXCEPT !.days = Tail(call.days)]
      BY DEF Flush
    <2> QED
      BY <1>1, <2>1, OnwardIs
  <1>5. CallOK' /\ NothingTwice' /\ CacheOK' /\ RowsOK' /\ \A k : OfBatch(k)' <=> OfBatch(k)
    BY <1>1, <1>3, <1>4, OnwardKeeps
  <1>6. /\ stored' \in [Keys -> Seq({Final})] /\ StoredIsKnown' /\ MarkedIsStored'
        /\ \A k \in Keys : /\ k \notin DOMAIN call.rows => stored'[k] = stored[k]
                           /\ stored[k] # <<>> => stored'[k] # <<>>
                           /\ k \in DOMAIN call.rows /\ k[3] = Head(call.days) => stored'[k] # <<>>
    BY <1>1, AppendedIs
  <1>7. Types'
    BY <1>1, <1>6 DEF SyncInv, Types
  <1>8. call'.at = "write" /\ call'.rows = call.rows /\ call'.noted = call.noted /\ call'.days = Tail(call.days)
        /\ call'.asked = call.asked /\ call'.short = call.short
    BY <1>4 DEF Onward
  <1>9. NotedOK'
    BY <1>1, <1>5, <1>6, <1>8 DEF SyncInv, NotedOK
  <1>10. Progress'
    <2>1. \A k \in DOMAIN call.rows : k \in Keys
      BY <1>1, WritingIs
    <2>2. \A k \in DOMAIN call.rows : k[3] \in ToSet(call.days) \/ stored[k] # <<>>
      BY <1>1 DEF SyncInv, Progress
    <2>3. \A k \in DOMAIN call.rows : k[3] \in ToSet(Tail(call.days)) \/ stored'[k] # <<>>
      BY <1>3, <1>6, <2>1, <2>2
    <2> QED
      BY <1>8, <2>3 DEF Progress
  <1>11. MarkedIsSingle'
    <2> SUFFICES ASSUME NEW k \in Keys, k[1] # "financial", k[3] \in Marked(k[1], k[2]), k \notin forced \cup missed,
                        ~(call.asked.force /\ k \in DOMAIN call.rows)
                 PROVE  Len(stored'[k]) <= 1
      BY <1>1, <1>8 DEF MarkedIsSingle, Marked
    <2>1. k \notin DOMAIN call.rows
      BY <1>1, <1>2, WrittenIsUnmarked
    <2>2. Len(stored[k]) <= 1
      BY <2>1 DEF SyncInv, MarkedIsSingle
    <2> QED
      BY <1>6, <2>1, <2>2
  <1> QED
    BY <1>5, <1>6, <1>7, <1>9, <1>10, <1>11 DEF SyncInv

LEMMA EndFlushKeeps ==
  ASSUME SyncInv, EndFlush
  PROVE  SyncInv'
  <1>1. SameStore /\ call.at = "write" /\ Writing /\ call.days = <<>> /\ marks' = marks /\ today' = today
    BY DEF EndFlush, Writing, SameStore
  <1>2. \A k \in DOMAIN call.rows : k \in Keys
    BY <1>1, WritingIs
  <1>3. DaysToWrite(call.rows) \in Seq(Days) /\ \A k \in DOMAIN call.rows : k[3] \in ToSet(DaysToWrite(call.rows))
    BY <1>2, DaysToWriteAre
  <1>4. Onward("compact", DaysToWrite(call.rows))
    <2>1. call' = [call EXCEPT !.at = "compact", !.days = DaysToWrite(call.rows)]
      BY DEF EndFlush, Flushed
    <2> QED
      BY <1>1, <2>1, OnwardIs
  <1>5. CallOK' /\ NothingTwice' /\ CacheOK' /\ RowsOK' /\ \A k : OfBatch(k)' <=> OfBatch(k)
    BY <1>1, <1>3, <1>4, OnwardKeeps
  <1>6. Types' /\ StoredIsKnown' /\ MarkedIsStored'
    BY <1>1, StoreSame
  <1>7. /\ call'.at = "compact" /\ call'.rows = call.rows /\ call'.noted = call.noted
        /\ call'.days = DaysToWrite(call.rows) /\ call'.asked = call.asked /\ call'.short = call.short
    BY <1>4 DEF Onward
  <1>8. NotedOK'
    BY <1>1, <1>5, <1>7 DEF SyncInv, NotedOK, SameStore
  <1>9. Progress'
    <2>1. ToSet(<<>>) = {}
      BY DEF ToSet
    <2>2. \A k \in DOMAIN call.rows : stored[k] # <<>>
      BY <1>1, <2>1 DEF SyncInv, Progress
    <2> QED
      BY <1>1, <1>3, <1>7, <2>2 DEF Progress, SameStore
  <1>10. MarkedIsSingle'
    BY <1>1, <1>7 DEF SyncInv, MarkedIsSingle, SameStore, Marked
  <1> QED
    BY <1>5, <1>6, <1>8, <1>9, <1>10 DEF SyncInv

LEMMA CompactKeeps ==
  ASSUME SyncInv, Compact
  PROVE  SyncInv'
  <1> DEFINE OfDay(k) == k[1] = call.dataset /\ k[3] = Head(call.days)
  <1>1. call.at = "compact" /\ Writing /\ call.days # <<>>
        /\ stored' = [k \in Keys |-> IF OfDay(k) /\ stored[k] # <<>> THEN <<Last(stored[k])>> ELSE stored[k]]
        /\ forced' = {k \in forced : ~OfDay(k)}
        /\ today' = today /\ marks' = marks /\ missed' = missed /\ faults' = faults
    BY DEF Compact, Writing
  <1>2. call.days \in Seq(Days) /\ call.asked.force \in BOOLEAN
        /\ \A k \in DOMAIN call.rows : k \in Keys /\ k[1] = call.dataset
    BY <1>1, WritingIs DEF OfBatch
  <1>3. Tail(call.days) \in Seq(Days) /\ ToSet(call.days) = {Head(call.days)} \cup ToSet(Tail(call.days))
    BY <1>1, <1>2, TailOf
  <1>4. Onward("compact", Tail(call.days))
    <2>1. call' = [call EXCEPT !.days = Tail(call.days)]
      BY DEF Compact
    <2> QED
      BY <1>1, <2>1, OnwardIs
  <1>5. CallOK' /\ NothingTwice' /\ CacheOK' /\ RowsOK' /\ \A k : OfBatch(k)' <=> OfBatch(k)
    BY <1>1, <1>3, <1>4, OnwardKeeps
  <1>6. ASSUME NEW k \in Keys
        PROVE  /\ stored'[k] \in Seq({Final}) /\ (stored'[k] = <<>> <=> stored[k] = <<>>)
               /\ Len(stored[k]) <= 1 => Len(stored'[k]) <= 1
               /\ OfDay(k) => Len(stored'[k]) <= 1
    <2>1. stored[k] \in Seq({Final}) /\ Len(stored[k]) \in Nat
      BY DEF SyncInv, Types
    <2>2. stored'[k] = IF OfDay(k) /\ stored[k] # <<>> THEN <<Last(stored[k])>> ELSE stored[k]
      BY <1>1
    <2>3. stored[k] # <<>> => <<Last(stored[k])>> \in Seq({Final})
      <3> HAVE stored[k] # <<>>
      <3>1. Last(stored[k]) = Final
        BY <2>1 DEF Last
      <3> QED
        BY <3>1
    <2>4. Len(<<Last(stored[k])>>) = 1 /\ <<Last(stored[k])>> # <<>>
      OBVIOUS
    <2>5. Len(<<>>) = 0
      OBVIOUS
    <2> HIDE DEF OfDay
    <2>6. CASE OfDay(k) /\ stored[k] # <<>>
      BY <2>1, <2>2, <2>3, <2>4, <2>6
    <2>7. CASE ~(OfDay(k) /\ stored[k] # <<>>)
      BY <2>1, <2>2, <2>5, <2>7
    <2> QED
      BY <2>6, <2>7
  <1>7. Types'
    <2>1. stored' = [k \in Keys |-> stored'[k]]
      BY <1>1
    <2>2. stored' \in [Keys -> Seq({Final})]
      BY <1>6, <2>1
    <2> QED
      BY <1>1, <2>2 DEF SyncInv, Types
  <1>8. StoredIsKnown'
    <2>1. \A k : Known(k)' <=> Known(k)
      BY <1>1 DEF Known
    <2> QED
      BY <1>6, <2>1 DEF SyncInv, StoredIsKnown
  <1>9. MarkedIsStored'
    <2> SUFFICES ASSUME NEW dataset \in History, NEW code \in Codes, NEW day \in Marked(dataset, code)
                 PROVE  day < today /\ (<<code, day>> \in Traded =>
                                  stored'[<<dataset, code, day>>] # <<>> \/ <<dataset, code, day>> \in missed)
      BY <1>1 DEF MarkedIsStored, Marked, Stored
    <2>1. day < today /\ (<<code, day>> \in Traded =>
                            stored[<<dataset, code, day>>] # <<>> \/ <<dataset, code, day>> \in missed)
      BY DEF SyncInv, MarkedIsStored, Stored
    <2>2. <<code, day>> \in Traded => <<dataset, code, day>> \in Keys
      BY PropertiesOfVendor DEF Keys, Tables
    <2> QED
      BY <1>6, <2>1, <2>2
  <1>10. /\ call'.at = "compact" /\ call'.rows = call.rows /\ call'.noted = call.noted /\ call'.days = Tail(call.days)
         /\ call'.asked = call.asked /\ call'.short = call.short
    BY <1>4 DEF Onward
  <1>11. NotedOK'
    BY <1>1, <1>5, <1>6, <1>10 DEF SyncInv, NotedOK
  <1>12. Progress'
    <2>1. \A k \in DOMAIN call.rows : stored[k] # <<>> /\ (k[3] \in ToSet(call.days) \/ Len(stored[k]) <= 1)
      BY <1>1 DEF SyncInv, Progress
    <2>2. \A k \in DOMAIN call.rows : stored'[k] # <<>> /\ (k[3] \in ToSet(Tail(call.days)) \/ Len(stored'[k]) <= 1)
      BY <1>2, <1>3, <1>6, <2>1
    <2> QED
      BY <1>10, <2>2 DEF Progress
  <1>13. MarkedIsSingle'
    <2> SUFFICES ASSUME NEW k \in Keys, k[1] # "financial", k[3] \in Marked(k[1], k[2]), k \notin forced' \cup missed,
                        ~(call.asked.force /\ k \in DOMAIN call.rows)
                 PROVE  Len(stored'[k]) <= 1
      BY <1>1, <1>10 DEF MarkedIsSingle, Marked
    <2>1. CASE OfDay(k)
      BY <1>6, <2>1
    <2>2. CASE ~OfDay(k)
      <3>1. k \notin forced \cup missed
        BY <1>1, <2>2
      <3>2. Len(stored[k]) <= 1
        BY <3>1 DEF SyncInv, MarkedIsSingle
      <3> QED
        BY <1>6, <3>2
    <2> QED
      BY <2>1, <2>2
  <1> QED
    BY <1>5, <1>7, <1>8, <1>9, <1>11, <1>12, <1>13 DEF SyncInv

LEMMA EndCompactKeeps ==
  ASSUME SyncInv, EndCompact
  PROVE  SyncInv'
  <1>1. SameStore /\ call.at = "compact" /\ Writing /\ call.days = <<>> /\ marks' = marks /\ today' = today
    BY DEF EndCompact, Writing, SameStore
  <1>2. call.days \in Seq(Days) /\ \A k \in DOMAIN call.rows : k \in Keys
    BY <1>1, WritingIs
  <1>3. Onward("mark", call.days)
    <2>1. call' = [call EXCEPT !.at = "mark"]
      BY DEF EndCompact
    <2> QED
      BY <1>1, <2>1, OnwardIs
  <1>4. CallOK' /\ NothingTwice' /\ CacheOK' /\ RowsOK' /\ \A k : OfBatch(k)' <=> OfBatch(k)
    BY <1>1, <1>2, <1>3, OnwardKeeps
  <1>5. Types' /\ StoredIsKnown' /\ MarkedIsStored'
    BY <1>1, StoreSame
  <1>6. call'.at = "mark" /\ call'.rows = call.rows /\ call'.noted = call.noted /\ call'.asked = call.asked
        /\ call'.short = call.short
    BY <1>3 DEF Onward
  <1>7. NotedOK'
    BY <1>1, <1>4, <1>6 DEF SyncInv, NotedOK, SameStore
  <1>8. \A k \in DOMAIN call.rows : stored[k] # <<>> /\ Len(stored[k]) <= 1
    <2>1. ToSet(<<>>) = {}
      BY DEF ToSet
    <2> QED
      BY <1>1, <2>1 DEF SyncInv, Progress
  <1>9. Progress'
    BY <1>1, <1>6, <1>8 DEF Progress, SameStore
  <1>10. MarkedIsSingle'
    BY <1>1, <1>6, <1>8 DEF SyncInv, MarkedIsSingle, SameStore, Marked
  <1> QED
    BY <1>4, <1>5, <1>7, <1>9, <1>10 DEF SyncInv

\* The days of a range are added to those that are noted.
LEMMA MarkIs ==
  ASSUME SyncInv, NEW dataset \in History \cup {"dividend_factors"}, NEW code \in Codes,
         NEW range \in Int \X Int, range[1] <= range[2], Mark(dataset, code, range)
  PROVE  /\ DOMAIN marks' = DOMAIN marks /\ marks' = [m \in DOMAIN marks' |-> marks'[m]]
         /\ \A m \in DOMAIN marks' : Apart(marks'[m])
         /\ \A m \in DOMAIN marks : m # <<dataset, code>> => marks'[m] = marks[m]
         /\ \A day : day \in DaysOf(marks'[<<dataset, code>>]) <=>
              day \in DaysOf(marks[<<dataset, code>>]) \/ (day \in Int /\ Within(day, range))
  <1> DEFINE m0 == <<dataset, code>>
             old == marks[m0]
             new == Append(old, range)
  <1>1. m0 \in DOMAIN marks /\ Apart(old)
    BY DEF SyncInv, Types
  <1>2. old \in Seq(Int \X Int)
    BY <1>1 DEF Apart
  <1>3. marks' = [marks EXCEPT ![m0] = MergeDateRanges(new)]
    BY DEF Mark
  <1>4. marks = [m \in DOMAIN marks |-> marks[m]]
    BY DEF SyncInv, Types
  <1>5. /\ DOMAIN marks' = DOMAIN marks /\ marks'[m0] = MergeDateRanges(new)
        /\ \A m \in DOMAIN marks : m # m0 => marks'[m] = marks[m]
        /\ marks' = [m \in DOMAIN marks' |-> marks'[m]]
    <2> HIDE DEF m0, new
    <2> QED
      BY <1>1, <1>3, <1>4
  <1> HIDE DEF m0, old
  <1>6. /\ new \in Seq(Int \X Int) /\ Len(new) = Len(old) + 1 /\ Len(old) \in Nat
        /\ DOMAIN new = 1 .. Len(old) + 1 /\ DOMAIN old = 1 .. Len(old)
        /\ \A i \in 1 .. Len(old) : new[i] = old[i]
        /\ new[Len(old) + 1] = range
    BY <1>2, Appending
  <1> HIDE DEF new
  <1>7. \A i \in DOMAIN new : (i \in DOMAIN old /\ new[i] = old[i]) \/ (i = Len(old) + 1 /\ new[i] = range)
    BY <1>6
  <1>8. \A i \in DOMAIN new : new[i][1] <= new[i][2]
    BY <1>1, <1>7 DEF Apart
  <1>9. Apart(MergeDateRanges(new)) /\ DaysOf(MergeDateRanges(new)) = DaysOf(new)
    BY <1>6, <1>8, MergeIs
  <1>10. ASSUME NEW day
         PROVE  day \in DaysOf(new) <=> day \in DaysOf(old) \/ (day \in Int /\ Within(day, range))
    <2>1. day \in DaysOf(new) <=> day \in Int /\ \E i \in DOMAIN new : In(day, new[i])
      BY <1>6, DaysAre
    <2>2. day \in DaysOf(old) <=> day \in Int /\ \E i \in DOMAIN old : In(day, old[i])
      BY <1>2, DaysAre
    <2>3. \A i \in DOMAIN old : i \in DOMAIN new /\ new[i] = old[i]
      BY <1>6
    <2>4. Len(old) + 1 \in DOMAIN new /\ new[Len(old) + 1] = range
      BY <1>6
    <2>5. In(day, range) <=> Within(day, range)
      BY DEF In, Within
    <2> QED
      BY <2>1, <2>2, <2>3, <2>4, <2>5, <1>7
  <1>11. \A m \in DOMAIN marks' : Apart(marks'[m])
    <2>1. \A m \in DOMAIN marks : Apart(marks[m])
      BY DEF SyncInv, Types
    <2> QED
      BY <1>5, <1>9, <2>1
  <1> QED
    BY <1>5, <1>9, <1>10, <1>11 DEF m0, old

LEMMA NotingIs ==
  ASSUME SyncInv, Writing, NEW codes, call' = [call EXCEPT !.noted = codes]
  PROVE  /\ call'.at = call.at /\ call'.todo = call.todo /\ call'.asked = call.asked /\ call'.dataset = call.dataset
         /\ call'.batches = call.batches /\ call'.rows = call.rows /\ call'.noted = codes
         /\ call'.short = call.short /\ call'.days = call.days
         /\ call' = [at |-> call'.at, todo |-> call'.todo, asked |-> call'.asked, dataset |-> call'.dataset,
                     batches |-> call'.batches, rows |-> call'.rows, noted |-> call'.noted, short |-> call'.short,
                     days |-> call'.days]
  <1>1. call = [at |-> call.at, todo |-> call.todo, asked |-> call.asked, dataset |-> call.dataset,
                batches |-> call.batches, rows |-> call.rows, noted |-> call.noted, short |-> call.short,
                days |-> call.days]
    BY WritingIs
  <1>2. PICK a, t, q, d, b, r, n, s, ds :
          /\ a = call.at /\ t = call.todo /\ q = call.asked /\ d = call.dataset /\ b = call.batches
          /\ r = call.rows /\ n = call.noted /\ s = call.short /\ ds = call.days
    OBVIOUS
  <1>3. call = [at |-> a, todo |-> t, asked |-> q, dataset |-> d, batches |-> b, rows |-> r, noted |-> n, short |-> s,
               days |-> ds]
    BY <1>1, <1>2
  <1>4. call' = [at |-> a, todo |-> t, asked |-> q, dataset |-> d, batches |-> b, rows |-> r, noted |-> codes,
                 short |-> s, days |-> ds]
    BY <1>3
  <1> QED
    BY <1>2, <1>4

LEMMA MarkCodeKeeps ==
  ASSUME SyncInv, MarkCode
  PROVE  SyncInv'
  <1>1. call.at = "mark" /\ Writing /\ Busy /\ today' = today /\ stored' = stored /\ forced' = forced /\ faults' = faults
    BY DEF MarkCode, Writing, Busy
  <1>2. PICK code \in call.noted :
          /\ Mark(call.dataset, code, Batch.range) /\ call' = [call EXCEPT !.noted = call.noted \ {code}]
          /\ missed' = {k \in missed : ~(OfBatch(k) /\ k[2] = code)} \cup {k \in call.short : k[2] = code}
    BY DEF MarkCode
  <1>3. /\ call'.at = "mark" /\ call'.todo = call.todo /\ call'.asked = call.asked /\ call'.dataset = call.dataset
        /\ call'.batches = call.batches /\ call'.rows = call.rows /\ call'.noted = call.noted \ {code}
        /\ call'.short = call.short /\ call'.days = call.days
        /\ call' = [at |-> call'.at, todo |-> call'.todo, asked |-> call'.asked, dataset |-> call'.dataset,
                    batches |-> call'.batches, rows |-> call'.rows, noted |-> call'.noted, short |-> call'.short,
                    days |-> call'.days]
    BY <1>1, <1>2, NotingIs
  <1>4. call.batches # <<>> /\ code \in Batch.codes /\ call.dataset \in Tables
    BY <1>1, <1>2, WritingIs
  <1>5. call.dataset # "financial"
    BY <1>1, <1>2 DEF SyncInv, RowsOK
  <1>6. call.dataset \in History \cup {"dividend_factors"}
    BY <1>4, <1>5 DEF Tables
  <1>7. /\ Batch = call.batches[1] /\ 1 \in DOMAIN call.batches /\ code \in Codes
        /\ Batch.range \in Int \X Int /\ Batch.range[1] \in Int /\ Batch.range[2] \in Int
        /\ Batch.range[1] <= Batch.range[2] /\ (call.dataset \in History => Batch.range[2] < today)
    BY <1>1, <1>4, <1>5, BatchIs
  <1>8. /\ DOMAIN marks' = DOMAIN marks /\ marks' = [m \in DOMAIN marks' |-> marks'[m]]
        /\ \A m \in DOMAIN marks' : Apart(marks'[m])
        /\ \A m \in DOMAIN marks : m # <<call.dataset, code>> => marks'[m] = marks[m]
        /\ \A day : day \in DaysOf(marks'[<<call.dataset, code>>]) <=>
             day \in DaysOf(marks[<<call.dataset, code>>]) \/ (day \in Int /\ Within(day, Batch.range))
    BY <1>2, <1>6, <1>7, MarkIs
  <1>9. \A dataset \in History \cup {"dividend_factors"}, c \in Codes : \A day :
          day \in Marked(dataset, c)' =>
            \/ day \in Marked(dataset, c)
            \/ dataset = call.dataset /\ c = code /\ day \in Int /\ Within(day, Batch.range)
    <2> TAKE dataset \in History \cup {"dividend_factors"}, c \in Codes
    <2>1. <<dataset, c>> \in DOMAIN marks
      BY DEF SyncInv, Types
    <2>2. <<dataset, c>> = <<call.dataset, code>> => dataset = call.dataset /\ c = code
      OBVIOUS
    <2> QED
      BY <1>8, <2>1, <2>2 DEF Marked
  <1>10. Types'
    <2>1. missed' \subseteq Keys
      BY <1>1, <1>2, WritingIs DEF SyncInv, Types
    <2> QED
      BY <1>1, <1>8, <2>1 DEF SyncInv, Types
  <1>11. CallOK' /\ CacheOK'
    BY <1>1, <1>3 DEF SyncInv, CallOK, CacheOK, Busy
  <1>12. NothingTwice'
    <2> SUFFICES ASSUME ~call.asked.force
                 PROVE  Disjoint(call.batches) /\ Unmarked(call.batches, call.dataset, marks', 2)
      BY <1>3 DEF NothingTwice
    <2>1. Disjoint(call.batches) /\ Unmarked(call.batches, call.dataset, marks, 2)
      BY <1>1, <1>5 DEF SyncInv, NothingTwice
    <2>2. call.batches \in Seq([range : Int \X Int, codes : SUBSET Codes])
      BY <1>1 DEF SyncInv, CallOK, Proper
    <2>3. ASSUME NEW i \in DOMAIN call.batches, i >= 2, NEW c \in call.batches[i].codes,
                 NEW day \in DaysOf(marks'[<<call.dataset, c>>])
          PROVE  ~Within(day, call.batches[i].range)
      <3>1. c \in Codes /\ call.batches[i].range[1] \in Int /\ call.batches[i].range[2] \in Int
        BY <2>2, BatchesOf
      <3>2. day \in DaysOf(marks[<<call.dataset, c>>]) \/ (c = code /\ day \in Int /\ Within(day, Batch.range))
        BY <1>6, <1>9, <3>1 DEF Marked
      <3>3. CASE day \in DaysOf(marks[<<call.dataset, c>>])
        BY <2>1, <2>3, <3>3 DEF Unmarked
      <3>4. CASE c = code /\ day \in Int /\ Within(day, Batch.range)
        <4>1. i # 1 /\ call.batches[1].codes \cap call.batches[i].codes # {}
          BY <1>4, <1>7, <2>2, <2>3, <3>4
        <4>2. call.batches[1].range[2] < call.batches[i].range[1] \/ call.batches[i].range[2] < call.batches[1].range[1]
          BY <1>7, <2>1, <4>1 DEF Disjoint
        <4> QED
          BY <1>7, <3>1, <3>4, <4>2 DEF Within
      <3> QED
        BY <3>2, <3>3, <3>4
    <2> QED
      BY <2>1, <2>3 DEF Unmarked
  <1>13. \A k : (OfBatch(k)' <=> OfBatch(k)) /\ (Known(k)' <=> Known(k)) /\ Batch' = Batch
    BY <1>1, <1>3 DEF OfBatch, Batch, Known
  <1>14. RowsOK'
    BY <1>1, <1>3, <1>13 DEF SyncInv, RowsOK, Writing
  <1>15. NotedOK' /\ Progress'
    BY <1>1, <1>3, <1>13 DEF SyncInv, NotedOK, Progress, Writing
  <1>16. StoredIsKnown'
    BY <1>1, <1>13 DEF SyncInv, StoredIsKnown
  <1>17. ASSUME NEW k \in Keys, k[1] = call.dataset, k[2] = code, Within(k[3], Batch.range)
         PROVE  \/ k \in DOMAIN call.rows /\ stored[k] # <<>> /\ Len(stored[k]) <= 1
                \/ k \in missed'
                \/ stored[k] = <<>> /\ (k[1] \in History => <<k[2], k[3]>> \notin Traded)
    <2>1. OfBatch(k) /\ k[2] \in call.noted
      BY <1>2, <1>4, <1>17 DEF OfBatch
    <2>2. k \in call.short => k \in missed'
      BY <1>2, <1>17
    <2> QED
      BY <1>1, <2>1, <2>2 DEF SyncInv, NotedOK, Progress
  <1>20. ASSUME NEW k \in missed, k \notin missed'
         PROVE  k[1] = call.dataset /\ k[2] = code /\ Within(k[3], Batch.range)
    BY <1>2, <1>20 DEF OfBatch
  <1>18. MarkedIsStored'
    <2> SUFFICES ASSUME NEW dataset \in History, NEW c \in Codes, NEW day \in Marked(dataset, c)'
                 PROVE  day < today /\ (<<c, day>> \in Traded =>
                                           Stored(<<dataset, c, day>>) \/ <<dataset, c, day>> \in missed')
      BY <1>1 DEF MarkedIsStored, Stored
    <2>3. ASSUME <<c, day>> \in Traded
          PROVE  \E k \in Keys : k = <<dataset, c, day>> /\ k[1] = dataset /\ k[2] = c /\ k[3] = day
      <3>1. <<dataset, c, day>> \in Keys
        BY <2>3, PropertiesOfVendor DEF Keys, Tables
      <3> QED
        BY <3>1
    <2>1. CASE day \in Marked(dataset, c)
      <3>1. day < today /\ (<<c, day>> \in Traded => Stored(<<dataset, c, day>>) \/ <<dataset, c, day>> \in missed)
        BY <2>1 DEF SyncInv, MarkedIsStored
      <3>2. ASSUME <<c, day>> \in Traded, ~Stored(<<dataset, c, day>>)
            PROVE  <<dataset, c, day>> \in missed'
        <4>1. PICK k \in Keys : k = <<dataset, c, day>> /\ k[1] = dataset /\ k[2] = c /\ k[3] = day
          BY <2>3, <3>2
        <4>2. k \in missed /\ stored[k] = <<>>
          BY <3>1, <3>2, <4>1 DEF Stored
        <4> QED
          BY <1>17, <1>20, <3>2, <4>1, <4>2
      <3> QED
        BY <3>1, <3>2
    <2>2. CASE dataset = call.dataset /\ c = code /\ day \in Int /\ Within(day, Batch.range)
      <3>1. today \in Int
        BY PropertiesOfVendor DEF SyncInv, Types
      <3>2. day < today
        BY <1>7, <2>2, <3>1 DEF Within
      <3>3. ASSUME <<c, day>> \in Traded PROVE Stored(<<dataset, c, day>>) \/ <<dataset, c, day>> \in missed'
        <4>1. PICK k \in Keys : k = <<dataset, c, day>> /\ k[1] = dataset /\ k[2] = c /\ k[3] = day
          BY <2>3, <3>3
        <4> QED
          BY <1>17, <2>2, <3>3, <4>1 DEF Stored
      <3> QED
        BY <3>2, <3>3
    <2> QED
      BY <1>9, <2>1, <2>2
  <1>19. MarkedIsSingle'
    <2> SUFFICES ASSUME NEW k \in Keys, k[1] # "financial", k[3] \in Marked(k[1], k[2])', k \notin forced \cup missed'
                 PROVE  Len(stored[k]) <= 1
      BY <1>1 DEF MarkedIsSingle
    <2>1. k[1] \in History \cup {"dividend_factors"} /\ k[2] \in Codes
      BY KeysAre DEF Tables
    <2>2. CASE k[3] \in Marked(k[1], k[2]) /\ k \notin missed
      BY <1>1, <2>2 DEF SyncInv, MarkedIsSingle
    <2>3. CASE k[1] = call.dataset /\ k[2] = code /\ Within(k[3], Batch.range)
      <3>1. stored[k] = <<>> => Len(stored[k]) <= 1
        OBVIOUS
      <3>2. stored[k] = <<>> \/ Len(stored[k]) <= 1
        BY ONLY <1>17, <2>3, k \in Keys, k \notin forced \cup missed'
      <3> QED
        BY <3>1, <3>2
    <2> QED
      BY <1>9, <1>20, <2>1, <2>2, <2>3
  <1> QED
    BY <1>10, <1>11, <1>12, <1>14, <1>15, <1>16, <1>18, <1>19 DEF SyncInv

LEMMA EndBatchKeeps ==
  ASSUME SyncInv, EndBatch
  PROVE  SyncInv'
  <1> DEFINE bs == call.batches
             rest == Tail(call.batches)
  <1>1. SameStore /\ call.at = "mark" /\ Writing /\ Busy
    BY DEF EndBatch, Writing, Busy, SameStore
  <1>2. /\ call'.at = "batch" /\ call'.todo = call.todo /\ call'.asked = call.asked /\ call'.dataset = call.dataset
        /\ call'.batches = rest
    BY DEF EndBatch
  <1>3. bs # <<>> /\ Proper(bs, call.dataset, today)
    BY <1>1 DEF SyncInv, CallOK
  <1>4. /\ rest \in Seq([range : Int \X Int, codes : SUBSET Codes])
        /\ \A i \in DOMAIN rest : i + 1 \in DOMAIN bs /\ rest[i] = bs[i + 1]
    <2> DEFINE S == [range : Int \X Int, codes : SUBSET Codes]
    <2>1. bs \in Seq(S)
      BY <1>3 DEF Proper
    <2> HIDE DEF S
    <2>2. rest \in Seq(S) /\ \A i \in DOMAIN rest : i + 1 \in DOMAIN bs /\ rest[i] = bs[i + 1]
      BY <1>3, <2>1, TailOf
    <2> QED
      BY <2>2 DEF S
  <1>5. \A i \in DOMAIN rest : i \in Nat /\ i >= 1
    BY <1>4
  <1> HIDE DEF rest
  <1>6. Proper(rest, call.dataset, today)
    BY <1>3, <1>4 DEF Proper
  <1>7. CallOK'
    BY <1>1, <1>2, <1>6 DEF SyncInv, CallOK, Busy, SameStore
  <1>8. NothingTwice'
    <2> SUFFICES ASSUME ~call.asked.force, call.dataset # "financial"
                 PROVE  Disjoint(rest) /\ Unmarked(rest, call.dataset, marks, 1)
      BY <1>1, <1>2 DEF NothingTwice, SameStore
    <2>1. Disjoint(bs) /\ Unmarked(bs, call.dataset, marks, 2)
      BY <1>1 DEF SyncInv, NothingTwice
    <2>2. \A i, j \in DOMAIN rest : i # j => i + 1 # j + 1
      BY <1>5
    <2>3. Disjoint(rest)
      BY <1>4, <2>1, <2>2 DEF Disjoint
    <2>4. \A i \in DOMAIN rest : i + 1 >= 2
      BY <1>5
    <2>5. Unmarked(rest, call.dataset, marks, 1)
      BY <1>4, <2>1, <2>4 DEF Unmarked
    <2> QED
      BY <2>3, <2>5
  <1>9. CacheOK' /\ RowsOK' /\ NotedOK' /\ Progress'
    BY <1>2 DEF CacheOK, RowsOK, NotedOK, Progress, Writing
  <1>10. Types' /\ StoredIsKnown' /\ MarkedIsStored' /\ MarkedIsSingle'
    BY <1>1, StoreSame, SingleSame
  <1> QED
    BY <1>7, <1>8, <1>9, <1>10 DEF SyncInv

-----------------------------------------------------------------------------
(* Faults, time and the theorems. *)

LEMMA InterruptedKeeps ==
  ASSUME SyncInv, Interrupted
  PROVE  SyncInv'
  <1>1. /\ faults < MaxFaults /\ faults' = faults + 1 /\ call' = Idle /\ today' = today /\ marks' = marks
        /\ missed' = missed
        /\ forced' = forced \cup {k \in Keys : call.at \in {"write", "compact"} /\ call.asked.force /\ k \in DOMAIN call.rows}
        /\ stored' = stored \/ (call.at = "write" /\ Appended(ToSet(call.days)))
    BY DEF Interrupted, Appended
  <1>2. call'.at = "idle"
    BY <1>1 DEF Idle
  <1>3. /\ stored' \in [Keys -> Seq({Final})] /\ StoredIsKnown' /\ MarkedIsStored'
        /\ \A k \in Keys : stored'[k] = stored[k] \/ (call.at = "write" /\ k \in DOMAIN call.rows)
    <2>1. CASE stored' = stored
      <3>1. \A k : Known(k)' <=> Known(k)
        BY <1>1 DEF Known
      <3> QED
        BY <1>1, <2>1, <3>1 DEF SyncInv, Types, StoredIsKnown, MarkedIsStored, Marked, Stored
    <2>2. CASE call.at = "write" /\ Appended(ToSet(call.days))
      <3>1. Writing
        BY <2>2 DEF Writing
      <3> QED
        BY <1>1, <2>2, <3>1, AppendedIs
    <2> QED
      BY <1>1, <2>1, <2>2
  <1>4. Types'
    <2>1. faults' \in 0 .. MaxFaults
      BY <1>1, PropertiesOfVendor DEF SyncInv, Types
    <2> QED
      BY <1>1, <1>3, <2>1 DEF SyncInv, Types
  <1>5. CallOK' /\ NothingTwice' /\ CacheOK' /\ RowsOK' /\ NotedOK' /\ Progress'
    BY <1>2 DEF CallOK, NothingTwice, CacheOK, RowsOK, NotedOK, Progress, Busy, Writing
  <1>6. MarkedIsSingle'
    <2> SUFFICES ASSUME NEW k \in Keys, k[1] # "financial", k[3] \in Marked(k[1], k[2]), k \notin forced' \cup missed
                 PROVE  Len(stored'[k]) <= 1
      BY <1>1, <1>2 DEF MarkedIsSingle, Marked
    <2>1. k \notin forced \cup missed /\ ~(call.at \in {"write", "compact"} /\ call.asked.force /\ k \in DOMAIN call.rows)
      BY <1>1
    <2>2. Len(stored[k]) <= 1
      BY <2>1 DEF SyncInv, MarkedIsSingle
    <2>3. ~(call.at = "write" /\ k \in DOMAIN call.rows)
      BY <2>1, WrittenIsUnmarked
    <2> QED
      BY <1>3, <2>2, <2>3
  <1> QED
    BY <1>3, <1>4, <1>5, <1>6 DEF SyncInv

LEMMA NextDayKeeps ==
  ASSUME SyncInv, NextDay
  PROVE  SyncInv'
  <1>1. today < LastDay /\ today' = today + 1 /\ UNCHANGED <<stored, marks, call, forced, missed, faults>>
    BY DEF NextDay
  <1>2. today \in Int /\ FirstDay \in Int /\ LastDay \in Int /\ today' \in FirstDay .. LastDay
    BY <1>1, PropertiesOfVendor DEF SyncInv, Types
  <1>3. Types'
    BY <1>1, <1>2 DEF SyncInv, Types
  <1>4. \A k : Known(k) => Known(k)'
    <2>1. \A f \in Factors : f.announced <= today => f.announced <= today'
      BY <1>1, <1>2, PropertiesOfVendor
    <2> QED
      BY <2>1 DEF Known
  <1>5. CallOK'
    <2>1. ASSUME Busy PROVE Proper(call.batches, call.dataset, today')
      <3>1. Proper(call.batches, call.dataset, today)
        BY <2>1 DEF SyncInv, CallOK
      <3>2. \A i \in DOMAIN call.batches : call.batches[i].range[2] \in Int
        BY <3>1, BatchesOf DEF Proper
      <3>3. \A i \in DOMAIN call.batches : call.batches[i].range[2] < today => call.batches[i].range[2] < today'
        BY <1>1, <1>2, <3>2
      <3> QED
        BY <3>1, <3>3 DEF Proper
    <2> QED
      BY <1>1, <2>1 DEF SyncInv, CallOK, Busy
  <1>6. NothingTwice' /\ CacheOK' /\ NotedOK' /\ Progress'
    BY <1>1 DEF SyncInv, NothingTwice, CacheOK, NotedOK, Progress, Busy, Writing, OfBatch, Batch
  <1>7. RowsOK'
    BY <1>1, <1>4 DEF SyncInv, RowsOK, Writing, OfBatch, Batch
  <1>8. StoredIsKnown'
    BY <1>1, <1>4 DEF SyncInv, StoredIsKnown
  <1>9. MarkedIsStored'
    <2>1. \A dataset \in History, code \in Codes : \A day \in Marked(dataset, code) : day \in Int
      <3> TAKE dataset \in History, code \in Codes
      <3>1. <<dataset, code>> \in DOMAIN marks
        BY DEF SyncInv, Types
      <3>2. marks[<<dataset, code>>] \in Seq(Int \X Int)
        BY <3>1 DEF SyncInv, Types, Apart
      <3> QED
        BY <3>2, DaysAre DEF Marked
    <2>2. \A day \in Int : day < today => day < today'
      BY <1>1, <1>2
    <2> QED
      BY <1>1, <2>1, <2>2 DEF SyncInv, MarkedIsStored, Marked, Stored
  <1>10. MarkedIsSingle'
    BY <1>1 DEF SyncInv, MarkedIsSingle, Marked
  <1> QED
    BY <1>3, <1>5, <1>6, <1>7, <1>8, <1>9, <1>10 DEF SyncInv

LEMMA InitIsGood ==
  ASSUME Init
  PROVE  SyncInv
  <1> DEFINE M == (History \cup {"dividend_factors"}) \X Codes
  <1>1. today = FirstDay /\ stored = [k \in Keys |-> <<>>] /\ marks = [m \in M |-> <<>>]
        /\ call.at = "idle" /\ forced = {} /\ missed = {} /\ faults = 0
    BY DEF Init, Idle
  <1>2. Apart(<<>>) /\ DaysOf(<<>>) = {}
    BY DEF Apart, DaysOf
  <1> HIDE DEF M
  <1>3. Types
    <2>1. DOMAIN marks = M /\ marks = [m \in DOMAIN marks |-> marks[m]] /\ \A m \in DOMAIN marks : Apart(marks[m])
      BY <1>1, <1>2
    <2>2. stored \in [Keys -> Seq({Final})]
      BY <1>1
    <2>3. today \in FirstDay .. LastDay /\ faults \in 0 .. MaxFaults
      BY <1>1, PropertiesOfVendor
    <2> QED
      BY <1>1, <2>1, <2>2, <2>3 DEF Types, M
  <1>4. \A dataset \in History \cup {"dividend_factors"}, code \in Codes : Marked(dataset, code) = {}
    BY <1>1, <1>2 DEF Marked, M
  <1>5. CallOK /\ NothingTwice /\ CacheOK /\ RowsOK /\ NotedOK /\ Progress
    BY <1>1 DEF CallOK, NothingTwice, CacheOK, RowsOK, NotedOK, Progress, Busy, Writing
  <1>6. StoredIsKnown /\ MarkedIsStored
    BY <1>1, <1>4 DEF StoredIsKnown, MarkedIsStored
  <1>7. MarkedIsSingle
    <2>1. Len(<<>>) = 0
      OBVIOUS
    <2> QED
      BY <1>1, <2>1 DEF MarkedIsSingle
  <1> QED
    BY <1>3, <1>5, <1>6, <1>7 DEF SyncInv

\* SyncInv holds in every state of every behaviour, however calls, failures and days interleave.
THEOREM Invariance == Spec => []SyncInv
  <1>1. Init => SyncInv
    BY InitIsGood
  <1>2. SyncInv /\ [Next]_vars => SyncInv'
    <2> SUFFICES ASSUME SyncInv, [Next]_vars PROVE SyncInv'
      OBVIOUS
    <2>1. CASE \E c \in Calls : Sync(c)
      BY <2>1, SyncKeeps
    <2>2. CASE Step
      BY <2>2, NextDatasetKeeps, ReturnKeeps, EndDatasetKeeps, DownloadKeeps, QueryHistoryKeeps, QueryFactorsKeeps,
         QueryFinancialKeeps, FlushKeeps, EndFlushKeeps, CompactKeeps, EndCompactKeeps, MarkCodeKeeps, EndBatchKeeps
         DEF Step
    <2>3. CASE Interrupted
      BY <2>3, InterruptedKeeps
    <2>4. CASE NextDay
      BY <2>4, NextDayKeeps
    <2>5. CASE UNCHANGED vars
      BY <2>5 DEF vars, SyncInv, Types, CallOK, NothingTwice, CacheOK, RowsOK, NotedOK, Progress, StoredIsKnown,
         MarkedIsStored, MarkedIsSingle, Busy, Writing, OfBatch, Batch, Known, Marked, Stored
    <2> QED
      BY <2>1, <2>2, <2>3, <2>4, <2>5 DEF Next
  <1> QED
    BY <1>1, <1>2, PTL DEF Spec

\* Whatever is asked for, fails or is left out, and however the days go on: a day noted as
\* complete is over, and the final bar of a code traded on it is read last, unless the answer it
\* was noted for named the code without this bar.
THEOREM MarkedAlwaysFinal == Spec => []MarkedIsFinal
  <1>1. SyncInv => MarkedIsFinal
    <2> SUFFICES ASSUME SyncInv PROVE MarkedIsFinal
      OBVIOUS
    <2>1. \A k \in Keys : stored[k] \in Seq({Final})
      BY DEF SyncInv, Types
    <2>2. \A s \in Seq({Final}) : s # <<>> => Last(s) = Final
      BY DEF Last
    <2>3. TypeOK
      <3>1. \A k \in Keys : \A i \in DOMAIN stored[k] : stored[k][i] \in {Snapshot, Final}
        BY <2>1
      <3>2. ASSUME NEW m \in DOMAIN marks, NEW i \in 2 .. Len(marks[m])
            PROVE  marks[m][i - 1][2] + 1 < marks[m][i][1]
        <4>1. Apart(marks[m])
          BY DEF SyncInv, Types
        <4>2. i - 1 \in DOMAIN marks[m] /\ i \in DOMAIN marks[m] /\ i - 1 < i
          BY <4>1 DEF Apart
        <4> QED
          BY <4>1, <4>2 DEF Apart
      <3> QED
        BY <3>1, <3>2 DEF SyncInv, Types, TypeOK
    <2>4. ASSUME NEW dataset \in History, NEW code \in Codes, NEW day \in Marked(dataset, code),
                 NEW k, k = <<dataset, code, day>>
          PROVE  /\ day < today
                 /\ <<code, day>> \in Traded => Stored(k) \/ k \in missed
                 /\ k \in Keys /\ Stored(k) => Last(stored[k]) = Final
      <3>1. day < today /\ (<<code, day>> \in Traded => Stored(k) \/ k \in missed)
        BY <2>4 DEF SyncInv, MarkedIsStored
      <3> QED
        BY <2>1, <2>2, <3>1 DEF Stored
    <2> QED
      BY <2>3, <2>4 DEF MarkedIsFinal
  <1> QED
    BY <1>1, Invariance, PTL

\* A row noted as complete is there once whenever no dataset is being written, but for what a
\* forced call was writing anew when it broke off and rows that the noting answer did not have.
THEOREM MarkedAlwaysOnce == Spec => []MarkedOnce
  <1>1. SyncInv => MarkedOnce
    BY DEF SyncInv, MarkedIsSingle, MarkedOnce
  <1> QED
    BY <1>1, Invariance, PTL

-----------------------------------------------------------------------------
(* What a reader gets. *)

Adjusted(factors, t, raw) == Reader!QmtForward(Catalog(factors), t, raw, FALSE)

RowOf(f) == [code |-> f.code, ex |-> f.ex, dr |-> f.dr]
Ranges == UNION {{[code |-> code, start |-> r[1], end |-> r[2]] :
                    r \in ToSet(marks[<<"dividend_factors", code>>])} : code \in Codes}

\* The factors between a bar and the instant.
AppliedOf(rows, t, r) ==
  {f \in rows : f.code = r.code /\ r.date < f.ex /\ f.ex <= Reader!FactorEnd(t) /\ Reader!At(f.ex, Reader!PreOpen) <= t}
Covering(t, r) == Reader!FactorsSynced(Ranges, r.code, r.date, Reader!FactorEnd(t))
Unusable(rows, t, raw) == \E r \in raw : (\E f \in AppliedOf(rows, t, r) : f.dr <= 0) \/ ~Covering(t, r)
AdjustedRows(rows, t, raw) ==
  {Reader!Bar(r, <<r.value, Reader!Compounded(AppliedOf(rows, t, r))>>) : r \in raw}

LEMMA AdjustedIs ==
  ASSUME NEW factors, NEW t, NEW raw
  PROVE  LET rows == {RowOf(f) : f \in factors} IN
         Adjusted(factors, t, raw) = IF Unusable(rows, t, raw) THEN Reader!Refused("unsupported")
                                     ELSE Reader!Answered(AdjustedRows(rows, t, raw))
  <1> DEFINE rows == {RowOf(f) : f \in factors}
             db == Catalog(factors)
             bars == AdjustedRows(rows, t, raw)
             visible == {f \in db.dividend_factors : f.ex <= Reader!FactorEnd(t) /\ Reader!At(f.ex, Reader!PreOpen) <= t}
             Applied(r) == {f \in visible : f.code = r.code /\ r.date < f.ex}
             refusal == FALSE \/ Reader!Conflict(db, "dividend_factors", visible)
             invalid == \E r \in raw : \/ \E f \in Applied(r) : f.dr <= 0
                                       \/ ~Reader!FactorsSynced(db.factor_ranges, r.code, r.date, Reader!FactorEnd(t))
             priced == {Reader!Bar(r, <<r.value, Reader!Compounded(Applied(r))>>) : r \in raw}
  <1>1. db.factor_ranges = Ranges /\ db.dividend_factors = rows
    BY DEF Catalog, Ranges, RowOf
  <1>2. ~db.checked
    BY DEF Catalog
  <1>3. db.unavailable = {}
    BY DEF Catalog
  <1>4. Adjusted(factors, t, raw) = Reader!AdjustedOr(Reader!Fetch(db, {}, refusal, TRUE, priced), invalid)
    BY DEF Adjusted, Reader!QmtForward
  <1> HIDE DEF rows, db
  <1>5. \A r : Applied(r) = AppliedOf(rows, t, r)
    BY <1>1 DEF AppliedOf
  <1> HIDE DEF Applied
  <1>6. priced = bars /\ invalid = Unusable(rows, t, raw)
    BY <1>1, <1>5 DEF AdjustedRows, Unusable, Covering
  <1>7. ~refusal
    BY <1>2 DEF Reader!Conflict
  <1> HIDE DEF priced, invalid, refusal, bars
  <1>8. Reader!Fetch(db, {}, refusal, TRUE, priced) = Reader!Answered(priced)
    BY <1>3, <1>7 DEF Reader!Fetch
  <1>9. Reader!Answered(priced).ok = TRUE
    BY DEF Reader!Answered
  <1> QED
    BY <1>4, <1>6, <1>8, <1>9 DEF Reader!AdjustedOr, rows, bars

\* Bars that are served have all factors, if those within the ranges noted are stored.
LEMMA SameAdjusted ==
  ASSUME NEW all, NEW some \in SUBSET all, NEW t, NEW raw,
         \A r \in raw, f \in all :
           f.code = r.code /\ r.date < f.ex /\ f.ex <= Reader!FactorEnd(t) /\ Covering(t, r) => f \in some,
         Adjusted(some, t, raw).ok
  PROVE  Adjusted(some, t, raw) = Adjusted(all, t, raw)
  <1> DEFINE few == {RowOf(f) : f \in some}
             many == {RowOf(f) : f \in all}
  <1>1. /\ Adjusted(some, t, raw) = IF Unusable(few, t, raw) THEN Reader!Refused("unsupported")
                                    ELSE Reader!Answered(AdjustedRows(few, t, raw))
        /\ Adjusted(all, t, raw) = IF Unusable(many, t, raw) THEN Reader!Refused("unsupported")
                                   ELSE Reader!Answered(AdjustedRows(many, t, raw))
    BY AdjustedIs
  <1>2. ~Reader!Refused("unsupported").ok
    BY DEF Reader!Refused
  <1>3. ~Unusable(few, t, raw)
    BY <1>1, <1>2
  <1>4. \A r \in raw : Covering(t, r)
    BY <1>3 DEF Unusable
  <1>5. ASSUME NEW r \in raw PROVE AppliedOf(many, t, r) = AppliedOf(few, t, r)
    <2>1. few \subseteq many
      OBVIOUS
    <2>2. ASSUME NEW row \in AppliedOf(many, t, r) PROVE row \in few
      <3>1. PICK f \in all : row = RowOf(f)
        BY <2>2 DEF AppliedOf
      <3>2. row.code = f.code /\ row.ex = f.ex
        BY <3>1 DEF RowOf
      <3>3. f \in some
        BY <1>4, <2>2, <3>2 DEF AppliedOf
      <3> QED
        BY <3>1, <3>3
    <2> HIDE DEF few, many
    <2> QED
      BY <2>1, <2>2 DEF AppliedOf
  <1> HIDE DEF few, many
  <1>6. Unusable(many, t, raw) <=> Unusable(few, t, raw)
    BY <1>5 DEF Unusable
  <1>7. AdjustedRows(many, t, raw) = AdjustedRows(few, t, raw)
    BY <1>5 DEF AdjustedRows
  <1> QED
    BY <1>1, <1>6, <1>7

-----------------------------------------------------------------------------
(* The factors that are noted. *)

Key(f) == <<"dividend_factors", f.code, f.ex>>

\* Factors are asked for up to a day that has come.
InForce ==
  /\ call.at # "idle" /\ "dividend_factors" \in ToSet(call.todo) => call.asked.end <= today
  /\ Busy /\ call.dataset = "dividend_factors" =>
       \A i \in DOMAIN call.batches : call.batches[i].range[2] <= today

\* What is about to be noted has all factors of the batch but those the answer did not have.
Complete ==
  Writing /\ call.dataset = "dividend_factors" =>
    \A f \in Factors : OfBatch(Key(f)) => Key(f) \in DOMAIN call.rows \cup call.short

FactorsStored ==
  \A f \in Factors : f.ex \in Marked("dividend_factors", f.code) => Stored(Key(f)) \/ Key(f) \in missed

FactorInv == InForce /\ Complete /\ FactorsStored

LEMMA FactorsAre ==
  ASSUME NEW f \in Factors
  PROVE  /\ Key(f) \in Keys /\ Key(f)[1] = "dividend_factors" /\ Key(f)[2] = f.code /\ Key(f)[3] = f.ex
         /\ f.code \in Codes /\ f.ex \in Int /\ f.announced \in Int /\ f.announced <= f.ex
  <1>1. f.code \in Codes /\ f.ex \in Days /\ f.announced \in Int /\ f.announced <= f.ex
    BY VendorAssumption
  <1> QED
    BY <1>1, PropertiesOfVendor DEF Key, Keys, Tables

\* Bars that the reader serves as adjusted are so.
LEMMA ServedComplete == ASSUME SyncInv, FactorInv PROVE AdjustedIsComplete
  <1> DEFINE Held == {f \in Factors : Stored(<<"dividend_factors", f.code, f.ex>>)}
             Due == {f \in Factors : \/ Stored(<<"dividend_factors", f.code, f.ex>>)
                                     \/ <<"dividend_factors", f.code, f.ex>> \notin missed}
             RawOf(code) == {[code |-> code, date |-> p[2], value |-> 1, end |-> Reader!At(p[2], Reader!Close)] :
                               p \in {x \in Traded : x[1] = code /\ x[2] < today}}
             t == Reader!At(today, Reader!Trading)
  <1>1. Reader!FactorEnd(t) \in Int
    <2>1. today \in Int
      BY PropertiesOfVendor DEF SyncInv, Types
    <2>2. t \in Int
      BY <2>1 DEF Reader!At, Reader!Times, Reader!Trading
    <2> HIDE DEF t
    <2>3. t \div 8 \in Int
      BY <2>2
    <2> QED
      BY <2>3 DEF Reader!FactorEnd, Reader!DayOf, Reader!Times
  <1>2. ASSUME NEW code \in Codes, Adjusted(Held, t, RawOf(code)).ok
        PROVE  Adjusted(Held, t, RawOf(code)) = Adjusted(Due, t, RawOf(code))
    <2> DEFINE raw == RawOf(code)
    <2>1. ASSUME NEW r \in raw PROVE r.code = code /\ r.date \in Int
      <3>1. PICK p \in Traded : r = [code |-> code, date |-> p[2], value |-> 1, end |-> Reader!At(p[2], Reader!Close)]
        BY <2>1
      <3>2. p[2] \in Int
        BY PropertiesOfVendor
      <3> QED
        BY <3>1, <3>2
    <2> HIDE DEF raw, t
    <2>2. ASSUME NEW r \in raw, NEW f \in Due, f.code = r.code, r.date < f.ex, f.ex <= Reader!FactorEnd(t), Covering(t, r)
          PROVE  f \in Held
      <3>1. r.code = code /\ r.date \in Int /\ f.ex \in Int
        BY <2>1, FactorsAre
      <3>2. r.date < Reader!FactorEnd(t)
        BY <1>1, <2>2, <3>1
      <3>3. PICK g \in Ranges : g.code = code /\ g.start <= r.date + 1 /\ Reader!FactorEnd(t) <= g.end
        BY <2>2, <3>1, <3>2 DEF Covering, Reader!FactorsSynced
      <3>4. PICK c \in Codes : g \in {[code |-> c, start |-> x[1], end |-> x[2]] : x \in ToSet(marks[<<"dividend_factors", c>>])}
        BY DEF Ranges
      <3>11. PICK range \in ToSet(marks[<<"dividend_factors", c>>]) : g = [code |-> c, start |-> range[1], end |-> range[2]]
        BY <3>4
      <3>5. c = code /\ range[1] <= r.date + 1 /\ Reader!FactorEnd(t) <= range[2]
        BY <3>3, <3>11
      <3>6. marks[<<"dividend_factors", code>>] \in Seq(Int \X Int)
        <4>1. <<"dividend_factors", code>> \in DOMAIN marks
          BY DEF SyncInv, Types
        <4> QED
          BY <4>1 DEF SyncInv, Types, Apart
      <3>7. PICK i \in DOMAIN marks[<<"dividend_factors", code>>] : range = marks[<<"dividend_factors", code>>][i]
        BY <3>5 DEF ToSet
      <3>8. range[1] \in Int /\ range[2] \in Int
        BY <3>6, <3>7
      <3>9. f.ex \in range[1] .. range[2]
        BY <1>1, <2>2, <3>1, <3>5, <3>8
      <3>10. f.ex \in Marked("dividend_factors", code)
        BY <3>7, <3>9 DEF Marked, DaysOf
      <3> QED
        BY <2>2, <3>1, <3>10 DEF FactorInv, FactorsStored, Key
    <2>3. Adjusted(Held, t, raw).ok /\ Held \in SUBSET Due
      BY <1>2 DEF raw
    <2> HIDE DEF Held, Due
    <2>4. \A r \in raw, f \in Due :
            f.code = r.code /\ r.date < f.ex /\ f.ex <= Reader!FactorEnd(t) /\ Covering(t, r) => f \in Held
      BY <2>2
    <2>5. Adjusted(Held, t, raw) = Adjusted(Due, t, raw)
      BY <2>3, <2>4, SameAdjusted
    <2> QED
      BY <2>5 DEF raw
  <1> QED
    BY <1>2 DEF AdjustedIsComplete, Adjusted

\* Nothing that is stored goes.
LEMMA StoredStays ==
  ASSUME SyncInv, [Next]_vars, NEW k \in Keys, stored[k] # <<>>
  PROVE  stored'[k] # <<>>
  <1>1. CASE stored' = stored
    BY <1>1
  <1>2. CASE Flush
    <2>1. Writing /\ Appended({Head(call.days)}) /\ today' = today /\ marks' = marks /\ missed' = missed
      BY <1>2 DEF Flush, Writing, Appended
    <2> QED
      BY <2>1, AppendedIs
  <1>3. CASE Compact
    <2>1. stored'[k] = <<Last(stored[k])>> \/ stored'[k] = stored[k]
      BY <1>3 DEF Compact
    <2> QED
      BY <2>1
  <1>4. CASE Interrupted
    <2>1. stored' = stored \/ (Writing /\ Appended(ToSet(call.days)) /\ UNCHANGED <<today, marks, missed>>)
      BY <1>4 DEF Interrupted, Writing, Appended
    <2>2. CASE stored' # stored
      BY <2>1, <2>2, AppendedIs
    <2> QED
      BY <1>1, <2>2
  <1> QED
    BY <1>1, <1>2, <1>3, <1>4
       DEF Next, Step, Sync, NextDataset, Return, EndDataset, Download, QueryHistory, QueryFactors, QueryFinancial,
           EndFlush, EndCompact, MarkCode, EndBatch, NextDay, vars

LEMMA FactorsStay ==
  ASSUME SyncInv, FactorsStored, [Next]_vars, marks' = marks, missed' = missed
  PROVE  FactorsStored'
  <1> SUFFICES ASSUME NEW f \in Factors, f.ex \in Marked("dividend_factors", f.code)
               PROVE  stored'[Key(f)] # <<>> \/ Key(f) \in missed'
    BY DEF FactorsStored, Marked, Key, Stored
  <1>1. Key(f) \in Keys /\ (stored[Key(f)] # <<>> \/ Key(f) \in missed)
    BY FactorsAre DEF FactorsStored, Stored
  <1> QED
    BY <1>1, StoredStays

\* A dataset stays in hand.
SameDataset ==
  /\ Busy /\ call'.at \in {"batch", "downloaded", "write", "compact", "mark"} /\ call'.dataset = call.dataset
  /\ call'.todo = call.todo /\ call'.asked = call.asked /\ call'.batches = call.batches /\ today' = today

LEMMA InForceStays == ASSUME InForce, SameDataset PROVE InForce'
  BY DEF InForce, SameDataset, Busy

\* What is written stays the same.
SameRows == SameDataset /\ Writing /\ call'.rows = call.rows /\ call'.short = call.short

LEMMA CompleteStays == ASSUME Complete, SameRows PROVE Complete'
  BY DEF Complete, SameRows, SameDataset, OfBatch, Batch

LEMMA NotWriting == ASSUME ~Writing' PROVE Complete'
  BY DEF Complete

LEMMA SameRowsOnward ==
  ASSUME SyncInv, Flush \/ EndFlush \/ Compact \/ EndCompact \/ MarkCode
  PROVE  SameRows
  <1>1. Writing /\ Busy /\ today' = today
    BY DEF Flush, EndFlush, Compact, EndCompact, MarkCode, Writing, Busy
  <1>2. CASE MarkCode
    <2>1. PICK code \in call.noted : call' = [call EXCEPT !.noted = call.noted \ {code}]
      BY <1>2 DEF MarkCode
    <2>2. /\ call'.at = call.at /\ call'.todo = call.todo /\ call'.asked = call.asked /\ call'.dataset = call.dataset
          /\ call'.batches = call.batches /\ call'.rows = call.rows /\ call'.short = call.short
      BY <1>1, <2>1, NotingIs
    <2> QED
      BY <1>1, <2>2 DEF SameRows, SameDataset, Busy
  <1>3. ASSUME NEW at \in {"write", "compact", "mark"}, NEW days, Onward(at, days) PROVE SameRows
    BY <1>1, <1>3 DEF SameRows, SameDataset, Onward
  <1>4. CASE Flush
    <2>1. call' = [call EXCEPT !.days = Tail(call.days)] /\ call.at = "write"
      BY <1>4 DEF Flush
    <2>2. Onward("write", Tail(call.days))
      BY <1>1, <2>1, OnwardIs
    <2> QED
      BY <1>3, <2>2
  <1>5. CASE EndFlush
    <2>1. call' = [call EXCEPT !.at = "compact", !.days = DaysToWrite(call.rows)]
      BY <1>5 DEF EndFlush, Flushed
    <2>2. Onward("compact", DaysToWrite(call.rows))
      BY <1>1, <2>1, OnwardIs
    <2> QED
      BY <1>3, <2>2
  <1>6. CASE Compact
    <2>1. call' = [call EXCEPT !.days = Tail(call.days)] /\ call.at = "compact"
      BY <1>6 DEF Compact
    <2>2. Onward("compact", Tail(call.days))
      BY <1>1, <2>1, OnwardIs
    <2> QED
      BY <1>3, <2>2
  <1>7. CASE EndCompact
    <2>1. call' = [call EXCEPT !.at = "mark"]
      BY <1>7 DEF EndCompact
    <2>2. Onward("mark", call.days)
      BY <1>1, <2>1, OnwardIs
    <2> QED
      BY <1>3, <2>2
  <1> QED
    BY <1>2, <1>4, <1>5, <1>6, <1>7

LEMMA NextDatasetFactors ==
  ASSUME SyncInv, FactorInv, NextDataset
  PROVE  FactorInv'
  <1> DEFINE c == call.asked
             d == Head(call.todo)
             bs == call'.batches
  <1>1. call.at = "next" /\ call.todo # <<>> /\ UNCHANGED <<today, stored, marks, missed>>
    BY DEF NextDataset
  <1>2. c \in Calls /\ call.todo \in Seq(Tables) /\ c.codes \in SUBSET Codes /\ c.start \in Int /\ c.end \in Int /\ c.force \in BOOLEAN
    <2>1. c \in Calls /\ call.todo \in Seq(Tables)
      BY <1>1 DEF SyncInv, CallOK
    <2> QED
      BY <2>1, CallsAssumption
  <1>3. d \in ToSet(call.todo) /\ ToSet(Tail(call.todo)) \subseteq ToSet(call.todo)
    BY <1>1, <1>2, TailOf
  <1>4. call'.at = "batch" /\ call'.todo = Tail(call.todo) /\ call'.asked = c /\ call'.dataset = d
    BY DEF NextDataset
  <1>5. d = "dividend_factors" => bs = PendingBatches(d, c.codes, c.start, c.end, c.force)
    BY DEF NextDataset, History
  <1>6. "dividend_factors" \in ToSet(call.todo) => c.end <= today
    BY <1>1 DEF FactorInv, InForce
  <1> HIDE DEF c, d, bs
  <1>7. ASSUME d = "dividend_factors" PROVE \A i \in DOMAIN bs : bs[i].range[2] <= today
    <2>1. \A code \in c.codes : Apart(marks[<<d, code>>])
      <3>1. \A code \in c.codes : <<d, code>> \in DOMAIN marks
        BY <1>2, <1>7 DEF SyncInv, Types
      <3> QED
        BY <3>1 DEF SyncInv, Types
    <2>2. bs \in Seq([range : Int \X Int, codes : SUBSET c.codes]) /\ \A i \in DOMAIN bs : bs[i].range[2] <= c.end
      BY <1>2, <1>5, <1>7, <2>1, PendingIs
    <2>3. \A i \in DOMAIN bs : bs[i].range[2] \in Int
      BY <1>2, <2>2, BatchesOf
    <2>4. c.end <= today /\ today \in Int
      BY <1>3, <1>6, <1>7, PropertiesOfVendor DEF SyncInv, Types
    <2> QED
      BY <1>2, <2>2, <2>3, <2>4
  <1>8. InForce'
    BY <1>1, <1>3, <1>4, <1>6, <1>7 DEF InForce, bs
  <1>9. Complete'
    BY <1>4 DEF Complete, Writing
  <1>10. FactorsStored'
    BY <1>1 DEF FactorInv, FactorsStored, Marked, Key, Stored
  <1> QED
    BY <1>8, <1>9, <1>10 DEF FactorInv

LEMMA QueryFactorsComplete ==
  ASSUME SyncInv, FactorInv, QueryFactors
  PROVE  Complete'
  <1>1. call.at = "batch" /\ Busy /\ call.batches # <<>> /\ call.dataset = "dividend_factors"
    BY DEF QueryFactors, Busy
  <1> DEFINE there == {k \in Keys : OfBatch(k) /\ \E f \in Factors : f.code = k[2] /\ f.ex = k[3] /\ f.announced <= today}
  <1>2. PICK found \in SUBSET there :
          /\ call'.dataset = call.dataset /\ call'.batches = call.batches
          /\ call'.rows = [k \in found |-> Final] /\ call'.short = there \ found
    <2>1. PICK codes \in SUBSET Batch.codes :
            Answered([k \in {x \in there : x[2] \in codes} |-> Final], Batch.codes, there \ {x \in there : x[2] \in codes})
      BY DEF QueryFactors
    <2>2. {x \in there : x[2] \in codes} \in SUBSET there
      OBVIOUS
    <2> HIDE DEF there
    <2> QED
      BY <2>1, <2>2 DEF Answered
  <1>3. ASSUME NEW f \in Factors, OfBatch(Key(f)) PROVE Key(f) \in there
    <2>1. Key(f) \in Keys /\ Key(f)[2] = f.code /\ Key(f)[3] = f.ex /\ f.ex \in Int /\ f.announced \in Int /\ f.announced <= f.ex
      BY FactorsAre
    <2>2. f.ex <= Batch.range[2]
      BY <1>3, <2>1 DEF OfBatch, Within
    <2>3. Batch.range[2] <= today /\ Batch.range[2] \in Int
      BY <1>1, BatchIs DEF FactorInv, InForce
    <2>4. today \in Int
      BY PropertiesOfVendor DEF SyncInv, Types
    <2>5. f.announced <= today
      BY <2>1, <2>2, <2>3, <2>4
    <2> QED
      BY <1>3, <2>1, <2>5
  <1>4. \A f : OfBatch(Key(f))' <=> OfBatch(Key(f))
    BY <1>2 DEF OfBatch, Batch, Key
  <1> HIDE DEF there
  <1>5. DOMAIN call'.rows \cup call'.short = there
    BY <1>2
  <1> QED
    BY <1>3, <1>4, <1>5 DEF Complete, Key

LEMMA MarkCodeFactors ==
  ASSUME SyncInv, FactorInv, MarkCode
  PROVE  FactorsStored'
  <1>1. call.at = "mark" /\ Writing /\ Busy /\ stored' = stored
    BY DEF MarkCode, Writing, Busy
  <1>2. PICK code \in call.noted :
          /\ Mark(call.dataset, code, Batch.range)
          /\ missed' = {k \in missed : ~(OfBatch(k) /\ k[2] = code)} \cup {k \in call.short : k[2] = code}
    BY DEF MarkCode
  <1>3. code \in Batch.codes /\ call.dataset \in Tables /\ call.batches # <<>> /\ call.dataset # "financial"
    BY <1>1, <1>2, WritingIs DEF SyncInv, RowsOK
  <1>4. /\ code \in Codes /\ Batch.range \in Int \X Int /\ Batch.range[1] <= Batch.range[2]
        /\ call.dataset \in History \cup {"dividend_factors"}
    BY <1>1, <1>3, BatchIs DEF Tables
  <1>5. /\ \A m \in DOMAIN marks : m # <<call.dataset, code>> => marks'[m] = marks[m]
        /\ \A day : day \in DaysOf(marks'[<<call.dataset, code>>]) <=>
             day \in DaysOf(marks[<<call.dataset, code>>]) \/ (day \in Int /\ Within(day, Batch.range))
    BY <1>2, <1>4, MarkIs
  <1> SUFFICES ASSUME NEW f \in Factors, f.ex \in Marked("dividend_factors", f.code)'
               PROVE  stored[Key(f)] # <<>> \/ Key(f) \in missed'
    BY <1>1 DEF FactorsStored, Key, Stored
  <1>6. <<"dividend_factors", f.code>> \in DOMAIN marks
    BY FactorsAre DEF SyncInv, Types
  <1>7. ASSUME call.dataset = "dividend_factors", code = f.code, Within(f.ex, Batch.range)
        PROVE  stored[Key(f)] # <<>> \/ Key(f) \in missed'
    <2>1. OfBatch(Key(f)) /\ Key(f)[2] = code
      BY <1>3, <1>7, FactorsAre DEF OfBatch
    <2>2. Key(f) \in DOMAIN call.rows \cup call.short
      BY <1>1, <1>7, <2>1 DEF FactorInv, Complete
    <2>3. Key(f) \in DOMAIN call.rows => stored[Key(f)] # <<>>
      BY <1>1 DEF SyncInv, Progress
    <2> QED
      BY <1>2, <2>1, <2>2, <2>3
  <1>8. CASE f.ex \in Marked("dividend_factors", f.code)
    <2>1. stored[Key(f)] # <<>> \/ Key(f) \in missed
      BY <1>8 DEF FactorInv, FactorsStored, Stored
    <2>2. ASSUME Key(f) \in missed, Key(f) \notin missed'
          PROVE  call.dataset = "dividend_factors" /\ code = f.code /\ Within(f.ex, Batch.range)
      BY <1>2, <2>2, FactorsAre DEF OfBatch
    <2> QED
      BY <1>7, <2>1, <2>2
  <1>9. CASE f.ex \notin Marked("dividend_factors", f.code)
    <2>1. call.dataset = "dividend_factors" /\ code = f.code /\ Within(f.ex, Batch.range)
      BY <1>5, <1>6, <1>9 DEF Marked
    <2> QED
      BY <1>7, <2>1
  <1> QED
    BY <1>8, <1>9

LEMMA EndBatchFactors ==
  ASSUME SyncInv, FactorInv, EndBatch
  PROVE  InForce'
  <1>1. Busy /\ call.at = "mark" /\ today' = today
    BY DEF EndBatch, Busy
  <1>2. /\ call'.at = "batch" /\ call'.todo = call.todo /\ call'.asked = call.asked /\ call'.dataset = call.dataset
        /\ call'.batches = Tail(call.batches)
    BY DEF EndBatch
  <1> DEFINE bs == call.batches
             rest == Tail(call.batches)
  <1>3. \A i \in DOMAIN rest : i + 1 \in DOMAIN bs /\ rest[i] = bs[i + 1]
    <2> DEFINE S == [range : Int \X Int, codes : SUBSET Codes]
    <2>1. bs \in Seq(S) /\ bs # <<>>
      BY <1>1 DEF SyncInv, CallOK, Proper
    <2> HIDE DEF S
    <2> QED
      BY <2>1, TailOf
  <1> HIDE DEF bs, rest
  <1>4. call.dataset = "dividend_factors" => \A i \in DOMAIN rest : rest[i].range[2] <= today
    BY <1>1, <1>3 DEF FactorInv, InForce, bs
  <1> QED
    BY <1>1, <1>2, <1>4 DEF FactorInv, InForce, rest

LEMMA NextDayFactors ==
  ASSUME SyncInv, FactorInv, NextDay
  PROVE  InForce' /\ Complete'
  <1>1. today' = today + 1 /\ UNCHANGED call
    BY DEF NextDay
  <1>2. today \in Int
    BY PropertiesOfVendor DEF SyncInv, Types
  <1>3. ASSUME call.at # "idle", "dividend_factors" \in ToSet(call.todo) PROVE call.asked.end <= today'
    <2>1. call.asked.end \in Int /\ call.asked.end <= today
      BY <1>3, CallsAssumption DEF SyncInv, CallOK, FactorInv, InForce
    <2> QED
      BY <1>1, <1>2, <2>1
  <1>4. ASSUME Busy, call.dataset = "dividend_factors", NEW i \in DOMAIN call.batches
        PROVE  call.batches[i].range[2] <= today'
    <2>1. call.batches \in Seq([range : Int \X Int, codes : SUBSET Codes])
      BY <1>4 DEF SyncInv, CallOK, Proper
    <2>2. call.batches[i].range[2] \in Int
      BY <2>1, BatchesOf
    <2>3. call.batches[i].range[2] <= today
      BY <1>4 DEF FactorInv, InForce
    <2> QED
      BY <1>1, <1>2, <2>2, <2>3
  <1>5. InForce'
    BY <1>1, <1>3, <1>4 DEF InForce, Busy
  <1>6. Complete'
    BY <1>1 DEF FactorInv, Complete, Writing, OfBatch, Batch
  <1> QED
    BY <1>5, <1>6

LEMMA NextFactors ==
  ASSUME ~AsksAhead, SyncInv, FactorInv, [Next]_vars
  PROVE  FactorInv'
  <1>1. ASSUME marks' = marks, missed' = missed PROVE FactorsStored'
    BY <1>1, FactorsStay DEF FactorInv
  <1>2. CASE \E c \in Calls : Sync(c)
    <2>1. PICK c \in Calls : Sync(c)
      BY <1>2
    <2>2. call'.at = "next" /\ call'.todo = c.datasets /\ call'.asked = c /\ today' = today /\ marks' = marks /\ missed' = missed
      BY <2>1 DEF Sync
    <2>3. "dividend_factors" \in ToSet(c.datasets) => c.end <= today
      BY <2>1 DEF Sync
    <2> QED
      BY <1>1, <2>2, <2>3 DEF FactorInv, InForce, Complete, Busy, Writing
  <1>3. CASE NextDataset
    BY <1>3, NextDatasetFactors
  <1>4. CASE Return \/ Interrupted
    <2>1. call'.at = "idle" /\ marks' = marks /\ missed' = missed
      BY <1>4 DEF Return, Interrupted, Idle
    <2> QED
      BY <1>1, <2>1 DEF FactorInv, InForce, Complete, Busy, Writing
  <1>5. CASE EndDataset
    <2>1. /\ call.at # "idle" /\ call'.at = "next" /\ call'.todo = call.todo /\ call'.asked = call.asked
          /\ today' = today /\ marks' = marks /\ missed' = missed
      BY <1>5 DEF EndDataset
    <2> QED
      BY <1>1, <2>1 DEF FactorInv, InForce, Complete, Busy, Writing
  <1>6. CASE Download
    <2>1. SameDataset /\ call'.at = "downloaded" /\ marks' = marks /\ missed' = missed
      BY <1>6 DEF Download, SameDataset, Busy
    <2> QED
      BY <1>1, <2>1, InForceStays DEF FactorInv, Complete, Writing
  <1>7. CASE QueryHistory \/ QueryFinancial
    <2>1. SameDataset /\ marks' = marks /\ missed' = missed
      <3>1. PICK rows, codes, short : Answered(rows, codes, short)
        BY <1>7 DEF QueryHistory, QueryFinancial
      <3> QED
        BY <1>7, <3>1 DEF QueryHistory, QueryFinancial, Answered, SameDataset, Busy
    <2>2. call.dataset # "dividend_factors"
      BY <1>7 DEF QueryHistory, QueryFinancial, SyncInv, CacheOK, History
    <2> QED
      BY <1>1, <2>1, <2>2, InForceStays DEF FactorInv, Complete, SameDataset
  <1>8. CASE QueryFactors
    <2>1. SameDataset /\ marks' = marks /\ missed' = missed
      BY <1>8 DEF QueryFactors, Answered, SameDataset, Busy
    <2> QED
      BY <1>1, <1>8, <2>1, InForceStays, QueryFactorsComplete DEF FactorInv
  <1>9. CASE Flush \/ EndFlush \/ Compact \/ EndCompact
    <2>1. SameRows /\ marks' = marks /\ missed' = missed
      BY <1>9, SameRowsOnward DEF Flush, EndFlush, Compact, EndCompact
    <2> QED
      BY <1>1, <2>1, InForceStays, CompleteStays DEF FactorInv, SameRows
  <1>10. CASE MarkCode
    <2>1. SameRows
      BY <1>10, SameRowsOnward
    <2> QED
      BY <1>10, <2>1, MarkCodeFactors, InForceStays, CompleteStays DEF FactorInv, SameRows
  <1>11. CASE EndBatch
    <2>1. marks' = marks /\ missed' = missed /\ ~Writing'
      BY <1>11 DEF EndBatch, Writing
    <2> QED
      BY <1>1, <1>11, <2>1, EndBatchFactors, NotWriting DEF FactorInv
  <1>12. CASE NextDay
    <2>1. marks' = marks /\ missed' = missed
      BY <1>12 DEF NextDay
    <2> QED
      BY <1>1, <1>12, <2>1, NextDayFactors DEF FactorInv
  <1>13. CASE UNCHANGED vars
    <2>1. UNCHANGED <<call, today, marks, missed>>
      BY <1>13 DEF vars
    <2> QED
      BY <1>1, <2>1 DEF FactorInv, InForce, Complete, Busy, Writing, OfBatch, Batch
  <1> QED
    BY <1>2, <1>3, <1>4, <1>5, <1>6, <1>7, <1>8, <1>9, <1>10, <1>11, <1>12, <1>13 DEF Next, Step

\* What the synchronisation has noted of the factors is all there is of them but what answers
\* did not have, on any day and after any failures, as long as no call asks for days to come.
THEOREM FactorsThroughout ==
  ASSUME ~AsksAhead
  PROVE  Spec => [](SyncInv /\ FactorInv)
  <1>1. Init => FactorInv
    <2> SUFFICES ASSUME Init PROVE FactorInv
      OBVIOUS
    <2>1. call.at = "idle"
      BY DEF Init, Idle
    <2>2. \A f \in Factors : Marked("dividend_factors", f.code) = {}
      <3> TAKE f \in Factors
      <3>1. marks[<<"dividend_factors", f.code>>] = <<>>
        BY FactorsAre DEF Init
      <3> QED
        BY <3>1 DEF Marked, DaysOf
    <2> QED
      BY <2>1, <2>2 DEF FactorInv, InForce, Complete, FactorsStored, Busy, Writing
  <1>2. SyncInv /\ FactorInv /\ [Next]_vars => FactorInv'
    BY NextFactors
  <1> QED
    BY <1>1, <1>2, Invariance, PTL DEF Spec

\* query_dividend_factors and _forward_bars: whatever is asked for, fails or breaks off, bars
\* that are served as adjusted are those of all factors in force but the ones answers did not
\* have, unless factors of days to come were asked for.
THEOREM AdjustedAlwaysComplete ==
  ASSUME ~AsksAhead
  PROVE  Spec => []AdjustedIsComplete
  <1>1. SyncInv /\ FactorInv => AdjustedIsComplete
    BY ServedComplete
  <1> QED
    BY <1>1, FactorsThroughout, PTL

=============================================================================
