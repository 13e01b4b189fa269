---------------------------- MODULE RepairProofs ----------------------------
(***************************************************************************)
(* A repair's journal has all that the repair changes, what undoes a       *)
(* repair restores it, and the quality gate serves what was checked: for   *)
(* every lake and upstream, any number of repairs, faults and crashes.     *)
(***************************************************************************)
EXTENDS Repair, OperatorProofs

-----------------------------------------------------------------------------
(* The inductive invariant. *)

Days == 0 .. LastDay

\* A partition as the store leaves it: rows of the calendar are in the partition of their day.
GoodPartition(path, content) ==
  /\ content.flaw \in Flaws \cup {"none"} /\ content.commit \in 0 .. commits
  /\ path[1] = "trade_cal" /\ path[2] # Missing => InPlace(content.rows, path[2])
DiskInv ==
  /\ world \in Worlds /\ commits \in Nat /\ faults \in 0 .. MaxFaults
  /\ DOMAIN disk \subseteq Path
  /\ \A p \in DOMAIN disk : GoodPartition(p, disk[p])

\* What a repair may be told by an issue: a partition there can be, and for a table of the
\* market that the day to fetch is the partition's.
GoodIssue(i, datasets) ==
  /\ i.dataset \in datasets
  /\ i.rule # "dataset_empty_v1" => i.day \in Days
  /\ i.rule = "dataset_empty_v1" => i.fix = "MANUAL" /\ i.suggested = Nothing
  /\ i.fix = "AUTO_FIX" => i.suggested = Delete \/ "date" \notin DOMAIN i.suggested.values
  /\ i.dataset \in MarketDate /\ i.suggested.action = "REFETCH" => i.suggested.day = i.day
ReportInv ==
  /\ report # NoReport => /\ report.scope \in Scopes(world)
                          /\ \A i \in report.issues : GoodIssue(i, report.scope.datasets)
  /\ status.found => status.errors \subseteq world.datasets

\* A partition that a repair has added to a table it backs up as a whole.
Added(j, path) ==
  path \notin DOMAIN j.origin /\ path[2] # Missing /\ path[1] \in DOMAIN j.before /\ path \notin j.before[path[1]]
Kept(e, origin) == e.found = (e.path \in DOMAIN origin) /\ (e.found => e.content = origin[e.path])

\* Each entry has what there was, but for the calendar that the repair had completed before,
\* and partitions that it had added; and what is changed has an entry or was added.
JournalFields ==
  {"status", "datasets", "output", "entries", "before", "origin", "left", "touched", "completed", "late"}
JournalInv(j) ==
  /\ DOMAIN j = JournalFields
  /\ j.status \in {"PREPARED", "COMMITTED", "ROLLED_BACK"} /\ j.datasets \subseteq world.datasets
  /\ j.entries \in Seq({j.entries[k] : k \in DOMAIN j.entries})
  /\ \A k, l \in DOMAIN j.entries : j.entries[k].path = j.entries[l].path => k = l
  /\ \A k \in DOMAIN j.entries : LET e == j.entries[k] IN
       /\ e.path \in Path /\ e.path[1] \in j.datasets /\ (e.found => GoodPartition(e.path, e.content))
       /\ e.path \in j.completed \/ Kept(e, j.origin) \/ Added(j, e.path)
  /\ DOMAIN j.before \subseteq FullSnapshot \cap j.datasets
  /\ \A d \in DOMAIN j.before : /\ j.before[d] = {p \in DOMAIN j.origin : p[1] = d /\ p[2] # Missing}
                                /\ j.before[d] \subseteq Backed(j)
  /\ j.touched \cup j.completed \subseteq Path /\ DOMAIN j.origin \subseteq Path
  /\ j.late \subseteq j.touched \cup j.completed
  /\ \A path \in j.touched \ j.completed : path \in Backed(j) \/ Added(j, path)
  /\ j.status = "COMMITTED" => /\ DOMAIN j.left \subseteq Path
                               /\ j.output = Fingerprint(Tables(j.left), j.datasets)

\* The steps come in an order: nothing after the last one, a commit after the last
\* detection, no patch before its backup, and nothing is removed once it is put back.
Finals == {"round", "detect", "commit", "restored"}
Comes(s, t) ==
  /\ s.do \notin Finals /\ (s.do = "last" => t.do = "commit")
  /\ s.do = "patch" /\ t.do = "backup" => s.path # t.path
  /\ s.do = "put" /\ t.do = "remove" => s.path # t.path
Ordered(todo) ==
  todo \in Seq(ToSet(todo)) /\ \A k, l \in DOMAIN todo : k < l => Comes(todo[k], todo[l])
TodoInv(todo) == Ordered(todo) /\ \E s \in ToSet(todo) : s.do \in Finals

\* What a range needs, and what is in the journal once it is backed up.
GoodRange(range, datasets) ==
  range.dataset \in datasets /\ (range.dataset \in MarketDate => range.first .. range.last \subseteq Days)
RangeBacked(j, range) ==
  LET d == range.dataset IN
  /\ Checkpoint(d) \in Backed(j)
  /\ IF d \in FullSnapshot THEN d \in DOMAIN j.before ELSE \A day \in range.first .. range.last : <<d, day>> \in Backed(j)
MayChange(j, path) == path \in Backed(j) \/ Added(j, path)

\* The rows asked for a range: of its days, for a table of the market.
GoodRows(range, rows) ==
  \A r \in rows : /\ r[PartitionField(range.dataset)] \in Days
                  /\ range.dataset \in MarketDate => r[PartitionField(range.dataset)] \in range.first .. range.last
                  /\ range.dataset = "trade_cal" => "date" \in DOMAIN r

\* A change as a repair makes it keeps the rows of the calendar where they are.
GoodChange(i) == i.fix = "AUTO_FIX" => i.suggested = Delete \/ "date" \notin DOMAIN i.suggested.values

RepairStep(s, j, todo) ==
  \/ s.do \in {"raise", "round", "detect", "last", "commit"}
  \/ s.do = "backup" /\ s.path \in Path /\ s.path[1] \in j.datasets
  \/ /\ s.do = "patch" /\ (\A i \in s.changes : GoodChange(i)) /\ s.path \in Path /\ s.path[2] # Missing
     /\ s.path \in Backed(j) \/ \E t \in ToSet(todo) : t.do = "backup" /\ t.path = s.path
  \/ s.do = "refetch" /\ GoodRange(s.range, j.datasets)
  \/ s.do = "fetch" /\ GoodRange(s.range, j.datasets) /\ RangeBacked(j, s.range)
  \/ s.do = "request" /\ GoodRange(s.range, j.datasets) /\ RangeBacked(j, s.range) /\ GoodRows(s.range, s.rows)
  \/ /\ s.do = "write" /\ s.path \in Path /\ s.path[2] # Missing
     /\ s.path[1] = "trade_cal" => InPlace(s.rows, s.path[2])
     /\ s.path[1] = "trade_cal" \/ MayChange(j, s.path)
     /\ s.path[1] \in FullSnapshot => s.path[1] \in DOMAIN j.before
  \/ s.do = "mark" /\ s.path[2] = Missing /\ s.path \in Backed(j)
  \/ s.do = "remove" /\ s.path \in Backed(j) /\ s.path[1] \notin FullSnapshot

\* What a partition has that nothing has changed; the partitions of a table that is fetched
\* as a whole are those it had, until then.
Untouched(j) == \A p \in Path : p \notin j.touched \cup j.completed => Same(disk, j.origin, p)
Listed(j) ==
  \A p \in Path : p[1] \in FullSnapshot \ DOMAIN j.before /\ p[2] # Missing => (p \in DOMAIN disk <=> p \in DOMAIN j.origin)
\* The report that a commit refers to is of the data as they are.
Fresh(j) == report.fingerprint = Fingerprint(Lake, j.datasets)
FreshInv(j) ==
  LET dos == {s.do : s \in ToSet(tool.todo)} IN
  /\ "commit" \in dos => "last" \in dos \/ (Fresh(j) /\ dos = {"commit"})
  /\ "round" \in dos => ~tool.detected \/ (Fresh(j) /\ dos = {"round"})

RepairInv(j) ==
  /\ tool.scope \in Scopes(world) /\ j.datasets = tool.scope.datasets
  /\ \A i \in tool.issues \cup tool.decided : GoodIssue(i, j.datasets)
  /\ \A i \in tool.decided : i.rule # "dataset_empty_v1"
  /\ \A s \in ToSet(tool.todo) : RepairStep(s, j, tool.todo)
  /\ Untouched(j) /\ Listed(j) /\ FreshInv(j)

\* What undoes a repair: each path is as it was, or will be put back as it was after it is
\* removed; what was not there is gone, or will be removed.
Puts(path, todo) == {s \in ToSet(todo) : s.do = "put" /\ s.path = path}
Removes(path, todo) == {s \in ToSet(todo) : s.do = "remove" /\ s.path = path}
Restorable(j, path) == MayChange(j, path) /\ path \notin j.completed /\ ~Readded(j, path)
Settled(j, path, todo) ==
  IF path \in DOMAIN j.origin
  THEN /\ \A s \in Puts(path, todo) : s.content = j.origin[path]
       /\ Puts(path, todo) # {} \/ (Same(disk, j.origin, path) /\ Removes(path, todo) = {})
  ELSE Puts(path, todo) = {} /\ (path \in DOMAIN disk => Removes(path, todo) # {})
RestoreInv(j, todo) ==
  /\ \A s \in ToSet(todo) :
       \/ s.do = "restored"
       \/ s.do = "remove" /\ s.path \in Path /\ MayChange(j, s.path)
       \/ s.do = "put" /\ s.path \in Path /\ GoodPartition(s.path, s.content)
  /\ \A path \in Path : Restorable(j, path) => Settled(j, path, todo)

Repairing == "restored" \notin {s.do : s \in ToSet(tool.todo)}
ToolInv ==
  tool # Idle =>
    /\ {"id", "todo"} \subseteq DOMAIN tool /\ tool.id \in DOMAIN repairs /\ TodoInv(tool.todo)
    /\ Repairing => {"scope", "issues", "decided", "rounds", "detected"} \subseteq DOMAIN tool
    /\ IF Repairing THEN RepairInv(Mine) ELSE RestoreInv(Mine, tool.todo)
RepairsInv ==
  /\ repairs \in Seq({repairs[k] : k \in DOMAIN repairs})
  /\ \A k \in DOMAIN repairs : JournalInv(repairs[k])

IInv == DiskInv /\ ReportInv /\ RepairsInv /\ ToolInv

\* What is still in the buffers: rows of partitions that the repair may change, which are
\* flushed once the repair is undone and each path of its is as it was, or has rows more.
Bufferable(s, j) ==
  /\ s.path \in Path /\ s.path[2] # Missing
  /\ s.path[1] = "trade_cal" => InPlace(s.rows, s.path[2])
  /\ s.path[1] = "trade_cal" \/ MayChange(j, s.path)
HasMore(j, path) ==
  path \in j.late /\ path \in DOMAIN disk /\ (path \in DOMAIN j.origin => j.origin[path].rows \subseteq disk[path].rows)
AllBefore(j) == \A path \in Path : Restorable(j, path) => Same(disk, j.origin, path) \/ HasMore(j, path)
BufferInv ==
  /\ store # Closed =>
       /\ DOMAIN store = {"id", "kept"} /\ store.id \in DOMAIN repairs /\ store.kept # {}
       /\ \A s \in store.kept : Bufferable(s, repairs[store.id])
       /\ tool # Idle => tool.id = store.id /\ ~Repairing
       /\ tool = Idle => repairs[store.id].status = "ROLLED_BACK" /\ AllBefore(repairs[store.id])
  /\ tool # Idle => Mine.status # "ROLLED_BACK"

-----------------------------------------------------------------------------
(* Sequences of steps. *)

LEMMA OrderedOne ==
  ASSUME NEW s
  PROVE  Ordered(<<s>>) /\ ToSet(<<s>>) = {s}
  BY DEF Ordered, ToSet

LEMMA OrderedNone == Ordered(<<>>) /\ ToSet(<<>>) = {}
  BY DEF Ordered, ToSet

\* The first step of a sequence, and the others.
LEMMA OrderedTail ==
  ASSUME NEW todo, Ordered(todo), todo # <<>>
  PROVE  /\ Ordered(Tail(todo)) /\ ToSet(todo) = {Head(todo)} \cup ToSet(Tail(todo))
         /\ \A t \in ToSet(Tail(todo)) : Comes(Head(todo), t)
  <1> DEFINE tail == Tail(todo)
             X == ToSet(todo)
  <1>1. todo \in Seq(X)
    BY DEF Ordered
  <1> HIDE DEF X
  <1>2. /\ Len(todo) \in Nat \ {0} /\ DOMAIN todo = 1 .. Len(todo) /\ DOMAIN tail = 1 .. Len(todo) - 1
        /\ tail \in Seq(X) /\ Head(todo) = todo[1] /\ \A k \in DOMAIN tail : tail[k] = todo[k + 1]
    BY <1>1
  <1> HIDE DEF tail
  <1>3. ToSet(todo) = {todo[1]} \cup ToSet(tail)
    <2>1. ASSUME NEW k \in DOMAIN todo PROVE todo[k] \in {todo[1]} \cup ToSet(tail)
      <3>1. CASE k # 1
        <4>1. k - 1 \in DOMAIN tail /\ tail[k - 1] = todo[(k - 1) + 1] /\ (k - 1) + 1 = k
          BY <1>2, <3>1
        <4> QED
          BY <4>1 DEF ToSet
      <3> QED
        BY <3>1
    <2>2. ASSUME NEW k \in DOMAIN tail PROVE tail[k] \in ToSet(todo)
      <3>1. k + 1 \in DOMAIN todo /\ tail[k] = todo[k + 1]
        BY <1>2
      <3> QED
        BY <3>1 DEF ToSet
    <2>3. todo[1] \in ToSet(todo)
      BY <1>2 DEF ToSet
    <2> QED
      BY <2>1, <2>2, <2>3 DEF ToSet
  <1>4. Ordered(tail)
    <2>1. tail \in Seq(ToSet(tail))
      <3>1. \A k \in DOMAIN tail : tail[k] \in ToSet(tail)
        BY DEF ToSet
      <3> QED
        BY <1>2, <3>1, SequenceInto
    <2>2. ASSUME NEW k \in DOMAIN tail, NEW l \in DOMAIN tail, k < l PROVE Comes(tail[k], tail[l])
      <3>1. k + 1 \in DOMAIN todo /\ l + 1 \in DOMAIN todo /\ k + 1 < l + 1
        BY <1>2, <2>2
      <3>2. Comes(todo[k + 1], todo[l + 1])
        BY <3>1 DEF Ordered
      <3> QED
        BY <1>2, <3>2
    <2> QED
      BY <2>1, <2>2 DEF Ordered
  <1>5. ASSUME NEW t \in ToSet(tail) PROVE Comes(Head(todo), t)
    <2>1. PICK k \in DOMAIN tail : t = tail[k]
      BY DEF ToSet
    <2>2. 1 \in DOMAIN todo /\ k + 1 \in DOMAIN todo /\ 1 < k + 1
      BY <1>2
    <2>3. Comes(todo[1], todo[k + 1])
      BY <2>2 DEF Ordered
    <2> QED
      BY <1>2, <2>1, <2>3
  <1> QED
    BY <1>2, <1>3, <1>4, <1>5 DEF tail

\* The relation between the steps of a sequence, as a set.
Order2(X) == {x \in X \X X : Comes(x[1], x[2])}
LEMMA OrderedIs ==
  ASSUME NEW X, NEW s \in Seq(X)
  PROVE  /\ Ordered(s) <=> OrderedBy(s, Order2(X))
         /\ \A x : Has(s, x) <=> x \in ToSet(s)
  <1>1. \A k \in DOMAIN s : s[k] \in X /\ s[k] \in ToSet(s)
    BY DEF ToSet
  <1>2. s \in Seq(ToSet(s))
    BY <1>1, SequenceInto
  <1>3. (\A k, l \in DOMAIN s : k < l => Comes(s[k], s[l])) <=> OrderedBy(s, Order2(X))
    BY <1>1 DEF OrderedBy, Order2
  <1>4. \A x : Has(s, x) <=> x \in ToSet(s)
    BY DEF Has, ToSet
  <1> QED
    BY <1>2, <1>3, <1>4 DEF Ordered

LEMMA OrderedConcat ==
  ASSUME NEW s, NEW t, Ordered(s), Ordered(t), \A x \in ToSet(s), y \in ToSet(t) : Comes(x, y)
  PROVE  Ordered(s \o t) /\ ToSet(s \o t) = ToSet(s) \cup ToSet(t)
  <1> DEFINE X == ToSet(s) \cup ToSet(t)
             u == s \o t
  <1>1. s \in Seq(X) /\ t \in Seq(X)
    <2>1. s \in Seq(ToSet(s)) /\ t \in Seq(ToSet(t))
      BY DEF Ordered
    <2>2. \A k \in DOMAIN s : s[k] \in X
      BY DEF ToSet
    <2>3. \A k \in DOMAIN t : t[k] \in X
      BY DEF ToSet
    <2> HIDE DEF X
    <2> QED
      BY <2>1, <2>2, <2>3, SequenceInto
  <1>2. Follow(s, t, Order2(X))
    BY DEF Follow, Order2, ToSet
  <1> HIDE DEF X
  <1>3. OrderedBy(s, Order2(X)) /\ OrderedBy(t, Order2(X))
    BY <1>1, OrderedIs
  <1>4. u \in Seq(X) /\ OrderedBy(u, Order2(X)) /\ \A x : Has(u, x) <=> Has(s, x) \/ Has(t, x)
    BY <1>1, <1>2, <1>3, ConcatenationIs
  <1> HIDE DEF u
  <1>5. Ordered(u)
    BY <1>4, OrderedIs
  <1>6. \A x : x \in ToSet(u) <=> x \in ToSet(s) \/ x \in ToSet(t)
    BY <1>4 DEF Has, ToSet
  <1>7. ToSet(u) = ToSet(s) \cup ToSet(t)
    BY <1>6
  <1> QED
    BY <1>5, <1>7 DEF u

LEMMA OrderedFlatten ==
  ASSUME NEW n \in Nat, NEW ss, DOMAIN ss = 1 .. n, ss = [k \in 1 .. n |-> ss[k]],
         \A k \in 1 .. n : Ordered(ss[k]),
         \A k, l \in 1 .. n : k < l => \A x \in ToSet(ss[k]), y \in ToSet(ss[l]) : Comes(x, y)
  PROVE  /\ Ordered(FlattenSeq(ss))
         /\ ToSet(FlattenSeq(ss)) = UNION {ToSet(ss[k]) : k \in 1 .. n}
  <1> DEFINE X == UNION {ToSet(ss[k]) : k \in 1 .. n}
             F == FlattenSeq(ss)
  <1>1. \A k \in 1 .. n : ss[k] \in Seq(X)
    <2> TAKE k \in 1 .. n
    <2>1. ss[k] \in Seq(ToSet(ss[k]))
      BY DEF Ordered
    <2>2. \A l \in DOMAIN ss[k] : ss[k][l] \in X
      BY DEF ToSet
    <2> HIDE DEF X
    <2> QED
      BY <2>1, <2>2, SequenceInto
  <1> HIDE DEF X
  <1>2. ss \in Seq(Seq(X))
    <2>1. ss \in [1 .. n -> Seq(X)]
      BY <1>1
    <2> QED
      BY <2>1, FunctionIsSequence
  <1>3. \A k \in DOMAIN ss : OrderedBy(ss[k], Order2(X))
    BY <1>1, OrderedIs
  <1>4. \A k, l \in DOMAIN ss : k < l => Follow(ss[k], ss[l], Order2(X))
    <2> SUFFICES ASSUME NEW k \in 1 .. n, NEW l \in 1 .. n, k < l, NEW i \in DOMAIN ss[k], NEW j \in DOMAIN ss[l]
                 PROVE <<ss[k][i], ss[l][j]>> \in Order2(X)
      BY DEF Follow
    <2>1. ss[k][i] \in X /\ ss[l][j] \in X
      BY <1>1
    <2>2. ss[k][i] \in ToSet(ss[k]) /\ ss[l][j] \in ToSet(ss[l])
      BY DEF ToSet
    <2>3. Comes(ss[k][i], ss[l][j])
      BY <2>2
    <2> QED
      BY <2>1, <2>3 DEF Order2
  <1>5. /\ F \in Seq(X) /\ \A x : Has(F, x) <=> \E k \in DOMAIN ss : Has(ss[k], x)
        /\ OrderedBy(F, Order2(X))
    BY <1>2, <1>3, <1>4, FlattenElements
  <1> HIDE DEF F
  <1>6. Ordered(F) /\ \A x : Has(F, x) <=> x \in ToSet(F)
    BY <1>5, OrderedIs
  <1>7. \A k \in DOMAIN ss : \A x : Has(ss[k], x) <=> x \in ToSet(ss[k])
    BY <1>1, OrderedIs
  <1>8. ToSet(F) = UNION {ToSet(ss[k]) : k \in 1 .. n}
    BY <1>5, <1>6, <1>7
  <1> QED
    BY <1>6, <1>8 DEF F

\* What SetToSeq makes of a finite set.
LEMMA SetToSeqIs ==
  ASSUME NEW S, IsFiniteSet(S)
  PROVE  LET q == SetToSeq(S)
         IN  /\ Cardinality(S) \in Nat /\ q \in [1 .. Cardinality(S) -> S] /\ DOMAIN q = 1 .. Cardinality(S)
             /\ \A k, l \in DOMAIN q : q[k] = q[l] => k = l
             /\ {q[k] : k \in DOMAIN q} = S
  <1> DEFINE n == Cardinality(S)
             q == SetToSeq(S)
  <1>1. n \in Nat /\ \E f \in [1 .. n -> S] : IsInjective(f) /\ \A x \in S : \E k \in 1 .. n : f[k] = x
    <2>1. n \in Nat /\ ExistsBijection(1 .. n, S)
      BY FS_CardinalityType
    <2>2. PICK f \in [1 .. n -> S] : f \in Bijection(1 .. n, S)
      BY <2>1 DEF ExistsBijection, Bijection, Injection
    <2> QED
      BY <2>1, <2>2 DEF Bijection, Injection, Surjection, IsInjective
  <1>2. q \in [1 .. n -> S] /\ IsInjective(q)
    BY <1>1 DEF SetToSeq
  <1> HIDE DEF q, n
  <1>3. IsFiniteSet(1 .. n) /\ Cardinality(1 .. n) = n
    BY <1>1, FS_Interval
  <1>4. \A x \in S : \E k \in 1 .. n : q[k] = x
    <2>1. q \in Injection(1 .. n, S)
      BY <1>2 DEF IsInjective, Injection
    <2>2. q \in Surjection(1 .. n, S)
      BY <1>3, <2>1, FS_Injection DEF n
    <2> QED
      BY <2>2 DEF Surjection
  <1> QED
    BY <1>1, <1>2, <1>4 DEF IsInjective, n, q

-----------------------------------------------------------------------------
(* What a detection finds. *)

Names == {"daily", "adj_factor", "suspend_d", "income", "fina_indicator", "trade_cal"}

LEMMA NamesAre ==
  /\ Range(Order) = Names /\ DOMAIN Order = 1 .. 6 /\ \A k \in 1 .. 6 : Order[k] \in Names
  /\ \A d \in Names : d \in MarketDate <=> d \notin FullSnapshot
  /\ FullSnapshot \subseteq Names /\ MarketDate \subseteq Names
  <1>1. DOMAIN Order = 1 .. 6
    BY DEF Order
  <1>2. \A k \in 1 .. 6 : k = 1 \/ k = 2 \/ k = 3 \/ k = 4 \/ k = 5 \/ k = 6
    OBVIOUS
  <1>3. /\ Order[1] = "daily" /\ Order[2] = "adj_factor" /\ Order[3] = "suspend_d" /\ Order[4] = "income"
        /\ Order[5] = "fina_indicator" /\ Order[6] = "trade_cal"
    BY DEF Order
  <1>4. Range(Order) = Names
    <2>1. \A k \in 1 .. 6 : Order[k] \in Names
      BY <1>2, <1>3 DEF Names
    <2>2. \A d \in Names : \E k \in 1 .. 6 : Order[k] = d
      BY <1>3 DEF Names
    <2> QED
      BY <1>1, <2>1, <2>2 DEF Range
  <1> QED
    BY <1>1, <1>2, <1>3, <1>4 DEF Names, MarketDate, DenseMarket, FullSnapshot, Announcement

LEMMA IssueGood ==
  ASSUME NEW datasets, NEW d \in datasets, NEW day \in Days, NEW key, NEW rule, rule # "dataset_empty_v1",
         NEW severity, NEW observed, NEW suggested,
         suggested.action \in {"DELETE", "VALUES"} => suggested = Delete \/ "date" \notin DOMAIN suggested.values,
         d \in MarketDate /\ suggested.action = "REFETCH" => suggested.day = day
  PROVE  GoodIssue(Issue(d, day, key, rule, severity, observed, suggested), datasets)
  BY DEF GoodIssue, Issue

LEMMA SuggestedGood ==
  ASSUME NEW d, NEW row, NEW day
  PROVE  LET s == SuggestedRefetch(d, row, day)
         IN s.action \notin {"DELETE", "VALUES"} /\ (d \in MarketDate => s.day = day)
  BY DEF SuggestedRefetch, Refetch, Nothing

LEMMA ManualGood ==
  ASSUME NEW datasets, NEW d \in datasets, NEW day \in Days, NEW row, NEW rule, rule # "dataset_empty_v1", NEW fields,
         NEW i \in Manual(d, day, row, rule, fields)
  PROVE  GoodIssue(i, datasets)
  BY IssueGood, SuggestedGood DEF Manual

LEMMA OfDayGood ==
  ASSUME NEW datasets, NEW d \in datasets, NEW day \in Days, NEW rule, rule # "dataset_empty_v1", NEW observed,
         NEW i \in OfDay(d, day, rule, observed)
  PROVE  GoodIssue(i, datasets)
  BY IssueGood DEF OfDay, Refetch

LEMMA IfIs == ASSUME NEW c, NEW issues, NEW i \in If(c, issues) PROVE i \in issues
  BY DEF If

\* The checks of the rows of one partition.
LEMMA CheckTableGood ==
  ASSUME NEW datasets, NEW d \in datasets, d \in Names, NEW day \in Days, NEW rows, NEW i \in CheckTable(d, day, rows)
  PROVE  GoodIssue(i, datasets)
  <1>1. ASSUME NEW row, NEW x \in CheckDaily(day, row), d = "daily" PROVE GoodIssue(x, datasets)
    <2>1. \A rule \in {"daily_missing_v1", "daily_range_v1", "daily_ohlc_v1", "daily_volume_amount_v1", "daily_arithmetic_v1"} :
            \A fields : \A y \in Manual("daily", day, row, rule, fields) : GoodIssue(y, datasets)
      BY <1>1, ManualGood
    <2> QED
      BY <1>1, <2>1 DEF CheckDaily, If
  <1>2. ASSUME NEW row, NEW x \in CheckFactor(day, row), d = "adj_factor" PROVE GoodIssue(x, datasets)
    BY <1>2, ManualGood, IfIs DEF CheckFactor
  <1>3. ASSUME NEW row, NEW x \in CheckSuspension(day, row), d = "suspend_d" PROVE GoodIssue(x, datasets)
    BY <1>3, ManualGood, IfIs DEF CheckSuspension
  <1>4. ASSUME NEW row, NEW x \in CheckCalendarDay(day, row), d = "trade_cal" PROVE GoodIssue(x, datasets)
    BY <1>4, ManualGood, IfIs DEF CheckCalendarDay
  <1>5. ASSUME NEW x \in CheckExchanges(day, rows), d = "trade_cal" PROVE GoodIssue(x, datasets)
    BY <1>5, OfDayGood, IfIs DEF CheckExchanges
  <1>6. ASSUME NEW row, NEW x \in CheckStatement(day, row), d = "income" PROVE GoodIssue(x, datasets)
    BY <1>6, ManualGood, IfIs DEF CheckStatement
  <1>7. ASSUME NEW x \in CheckIndicators(day, rows), d = "fina_indicator" PROVE GoodIssue(x, datasets)
    <2>1. \A row, fields : \A y \in Manual("fina_indicator", day, row, "fina_indicator_value_v1", fields) : GoodIssue(y, datasets)
      BY <1>7, ManualGood
    <2>2. \A key, observed : GoodIssue(Issue("fina_indicator", day, key, "fina_indicator_value_v1", "ERROR", observed, Delete), datasets)
      BY <1>7, IssueGood DEF Delete
    <2> QED
      BY <1>7, <2>1, <2>2 DEF CheckIndicators
  <1>8. \A x \in OfDay(d, day, "partition_value_v1", "rows") : GoodIssue(x, datasets)
    BY OfDayGood
  <1>9. \A key, count, row : GoodIssue(Issue(d, day, key, "duplicate_key_v1", "ERROR", count, SuggestedRefetch(d, row, day)), datasets)
    BY IssueGood, SuggestedGood
  <1>10. \A row, fields : \A x \in Manual(d, day, row, "required_value_v1", fields) : GoodIssue(x, datasets)
    BY ManualGood
  <1>11. ASSUME NEW row, NEW f \in Floats[d], NEW key, NEW observed
         PROVE GoodIssue(Issue(d, day, key, "finite_float_v1", "ERROR", observed,
                               IF f \in CriticalFloats(d) THEN SuggestedRefetch(d, row, day) ELSE Values([g \in {f} |-> Missing])), datasets)
    <2>1. f # "date"
      BY DEF Floats, Names
    <2>2. CASE f \in CriticalFloats(d)
      BY <2>2, IssueGood, SuggestedGood
    <2>3. CASE f \notin CriticalFloats(d)
      <3>1. Values([g \in {f} |-> Missing]).action = "VALUES" /\ DOMAIN Values([g \in {f} |-> Missing]).values = {f}
        BY DEF Values
      <3> QED
        BY <2>1, <2>3, <3>1, IssueGood
    <2> QED
      BY <2>2, <2>3
  <1>12. \/ i \in If(\E r \in rows : r[PartitionField(d)] # day, OfDay(d, day, "partition_value_v1", "rows"))
         \/ \E key, count, row : i = Issue(d, day, key, "duplicate_key_v1", "ERROR", count, SuggestedRefetch(d, row, day))
         \/ \E row, fields : i \in Manual(d, day, row, "required_value_v1", fields)
         \/ \E row, key, observed : \E f \in Floats[d] :
              i = Issue(d, day, key, "finite_float_v1", "ERROR", observed,
                        IF f \in CriticalFloats(d) THEN SuggestedRefetch(d, row, day) ELSE Values([g \in {f} |-> Missing]))
         \/ d = "daily" /\ \E row : i \in CheckDaily(day, row)
         \/ d = "adj_factor" /\ \E row : i \in CheckFactor(day, row)
         \/ d = "suspend_d" /\ \E row : i \in CheckSuspension(day, row)
         \/ d = "trade_cal" /\ (i \in CheckExchanges(day, rows) \/ \E row : i \in CheckCalendarDay(day, row))
         \/ d = "income" /\ \E row : i \in CheckStatement(day, row)
         \/ d = "fina_indicator" /\ i \in CheckIndicators(day, rows)
    <2> DEFINE Each(Check(_, _)) == UNION {Check(day, r) : r \in rows}
               keys == {RowKey(d, r) : r \in rows}
               Count(key) == Cardinality({r \in rows : RowKey(d, r) = key})
               Empty(r) == {f \in Required(d) : r[f] = Missing}
               Unbounded(r, f) == Issue(d, day, RowKey(d, r), "finite_float_v1", "ERROR", Fields(r, {f}),
                                        IF f \in CriticalFloats(d) THEN SuggestedRefetch(d, r, day) ELSE Values([g \in {f} |-> Missing]))
               misplaced == If(\E r \in rows : r[PartitionField(d)] # day, OfDay(d, day, "partition_value_v1", "rows"))
               duplicates == {Issue(d, day, key, "duplicate_key_v1", "ERROR", [count |-> Count(key)],
                                    SuggestedRefetch(d, CHOOSE r \in rows : RowKey(d, r) = key, day)) : key \in {k \in keys : Count(k) > 1}}
               empty == UNION {If(Empty(r) # {}, Manual(d, day, r, "required_value_v1", Empty(r))) : r \in rows}
               unbounded == UNION {{Unbounded(r, f) : f \in {g \in Floats[d] : r[g] = NaN}} : r \in rows}
               own == CASE d = "daily" -> Each(CheckDaily)
                        [] d = "adj_factor" -> Each(CheckFactor)
                        [] d = "suspend_d" -> Each(CheckSuspension)
                        [] d = "trade_cal" -> Each(CheckCalendarDay) \cup CheckExchanges(day, rows)
                        [] d = "income" -> Each(CheckStatement)
                        [] d = "fina_indicator" -> CheckIndicators(day, rows)
    <2>1. CheckTable(d, day, rows) = misplaced \cup duplicates \cup empty \cup unbounded \cup own
      BY DEF CheckTable
    <2>2. i \in duplicates => \E key, count, row : i = Issue(d, day, key, "duplicate_key_v1", "ERROR", count, SuggestedRefetch(d, row, day))
      OBVIOUS
    <2>3. i \in empty => \E row, fields : i \in Manual(d, day, row, "required_value_v1", fields)
      BY DEF If
    <2>4. i \in unbounded => \E row, key, observed : \E f \in Floats[d] :
              i = Issue(d, day, key, "finite_float_v1", "ERROR", observed,
                        IF f \in CriticalFloats(d) THEN SuggestedRefetch(d, row, day) ELSE Values([g \in {f} |-> Missing]))
      OBVIOUS
    <2>5. i \in own =>
            \/ d = "daily" /\ \E row : i \in CheckDaily(day, row)
            \/ d = "adj_factor" /\ \E row : i \in CheckFactor(day, row)
            \/ d = "suspend_d" /\ \E row : i \in CheckSuspension(day, row)
            \/ d = "trade_cal" /\ (i \in CheckExchanges(day, rows) \/ \E row : i \in CheckCalendarDay(day, row))
            \/ d = "income" /\ \E row : i \in CheckStatement(day, row)
            \/ d = "fina_indicator" /\ i \in CheckIndicators(day, rows)
      BY DEF Names
    <2> HIDE DEF misplaced, duplicates, empty, unbounded, own
    <2>6. i \in misplaced \/ i \in duplicates \/ i \in empty \/ i \in unbounded \/ i \in own
      BY <2>1
    <2> QED
      BY <2>2, <2>3, <2>4, <2>5, <2>6 DEF misplaced
  <1> QED
    BY <1>1, <1>2, <1>3, <1>4, <1>5, <1>6, <1>7, <1>8, <1>9, <1>10, <1>11, <1>12, IfIs

\* A lake with the partitions there can be.
GoodLake(lake) ==
  \A p \in DOMAIN lake : p = <<p[1], p[2]>> /\ p[2] \in Days /\ lake[p].flaw \in Flaws \cup {"none"}
GoodScope(scope) ==
  /\ scope.datasets \subseteq Names
  /\ scope.start \in {Missing} \cup Days /\ scope.through \in Days

LEMMA DaysInDays ==
  ASSUME NEW lake, GoodLake(lake), NEW d
  PROVE  DaysIn(lake, d) \subseteq Days /\ \A day \in DaysIn(lake, d) : <<d, day>> \in DOMAIN lake
  <1> SUFFICES ASSUME NEW p \in DOMAIN lake, p[1] = d
               PROVE p[2] \in Days /\ <<d, p[2]>> \in DOMAIN lake
    BY DEF DaysIn
  <1> QED
    BY DEF GoodLake

\* The least and the greatest of some days are among them.
LEMMA MinIs ==
  ASSUME NEW S \in SUBSET Days, S # {}
  PROVE  Min(S) \in S
  <1>1. S \in SUBSET Nat
    BY BoundsAssumption DEF Days
  <1>2. \E x \in S : \A y \in S : x <= y
    BY <1>1, LeastNumber
  <1> QED
    BY <1>2 DEF Min

LEMMA DetectDatasetGood ==
  ASSUME NEW lake, GoodLake(lake), NEW scope, NEW datasets, NEW d \in datasets, d \in Names,
         NEW i \in DetectDataset(lake, scope, d)
  PROVE  GoodIssue(i, datasets)
  <1> DEFINE flawed == {day \in Looked(lake, scope, d) : lake[<<d, day>>].flaw # "none"}
             ofFlaws == UNION {OfDay(d, day, FlawRule[lake[<<d, day>>].flaw], "flaw") : day \in flawed}
             ofRows == UNION {CheckTable(d, day, lake[<<d, day>>].rows) : day \in Observed(lake, scope, d)}
             none == Issue(d, Missing, [dataset |-> d], "dataset_empty_v1", "ERROR", [count |-> 0], Nothing)
  <1>1. i \in ofFlaws \/ i \in ofRows \/ i = none
    BY DEF DetectDataset, If
  <1>2. Looked(lake, scope, d) \subseteq Days /\ \A day \in Looked(lake, scope, d) : <<d, day>> \in DOMAIN lake
    BY DaysInDays DEF Looked
  <1>3. ASSUME i \in ofFlaws PROVE GoodIssue(i, datasets)
    <2>1. PICK day \in flawed : i \in OfDay(d, day, FlawRule[lake[<<d, day>>].flaw], "flaw")
      BY <1>3
    <2>2. day \in Days /\ lake[<<d, day>>].flaw \in Flaws
      BY <1>2 DEF GoodLake
    <2>3. \A flaw \in Flaws : FlawRule[flaw] # "dataset_empty_v1"
      BY DEF FlawRule, Flaws
    <2> HIDE DEF flawed
    <2> QED
      BY <2>1, <2>2, <2>3, OfDayGood
  <1>4. ASSUME i \in ofRows PROVE GoodIssue(i, datasets)
    <2>1. PICK day \in Observed(lake, scope, d) : i \in CheckTable(d, day, lake[<<d, day>>].rows)
      BY <1>4
    <2>2. day \in Days
      BY <1>2 DEF Observed
    <2> QED
      BY <2>1, <2>2, CheckTableGood
  <1>5. GoodIssue(none, datasets)
    BY DEF GoodIssue, Issue, Nothing
  <1> QED
    BY <1>1, <1>3, <1>4, <1>5

LEMMA CalendarSeriesGood ==
  ASSUME NEW lake, GoodLake(lake), NEW scope, GoodScope(scope), NEW datasets, "trade_cal" \in datasets,
         NEW i \in CalendarSeries(lake, scope)
  PROVE  GoodIssue(i, datasets)
  <1> DEFINE observed == Observed(lake, scope, "trade_cal")
             first == IF scope.start # Missing THEN scope.start ELSE Min(observed)
             absent == IF observed = {} THEN {} ELSE (first .. scope.through) \ observed
             index == Index(lake, [scope EXCEPT !.start = Missing], "trade_cal")
             ofDays == UNION {OfDay("trade_cal", day, "calendar_date_coverage_v1", "missing") : day \in absent}
  <1>1. observed \subseteq Days /\ index \subseteq Days
    BY DaysInDays DEF Observed, Looked, Index
  <1>2. absent \subseteq Days
    <2> SUFFICES ASSUME observed # {} PROVE first .. scope.through \subseteq Days
      OBVIOUS
    <2>1. first \in Days
      BY <1>1, MinIs DEF GoodScope
    <2>2. scope.through \in Days
      BY DEF GoodScope
    <2> HIDE DEF first
    <2> QED
      BY <2>1, <2>2, BoundsAssumption DEF Days
  <1>3. \/ i \in ofDays
        \/ \E day \in index : \E key, observed2 :
             i = Issue("trade_cal", day, key, "calendar_pretrade_v1", "WARNING", observed2, Refetch(day))
    <2> DEFINE OpenBefore(r, day) ==
                 {e \in index : e < day /\ \E s \in RowsOf(lake, "trade_cal", e) : s.exchange = r.exchange /\ s.open = 1}
               Wrong(r, day) == OpenBefore(r, day) # {} /\ r.pretrade # Max(OpenBefore(r, day))
               wrong == UNION {{Issue("trade_cal", day, RowKey("trade_cal", r), "calendar_pretrade_v1", "WARNING",
                                      Fields(r, {"open", "pretrade"}), Refetch(day)) :
                                  r \in {x \in RowsOf(lake, "trade_cal", day) : x.exchange \in {"SSE", "SZSE", "BSE"} /\ Wrong(x, day)}}
                               : day \in {x \in index : scope.start # Missing => x >= scope.start}}
    <2>1. CalendarSeries(lake, scope) = ofDays \cup wrong
      BY DEF CalendarSeries
    <2>2. i \in wrong => \E day \in index : \E key, observed2 :
             i = Issue("trade_cal", day, key, "calendar_pretrade_v1", "WARNING", observed2, Refetch(day))
      <3> HIDE DEF index, Wrong
      <3> QED
        OBVIOUS
    <2> HIDE DEF wrong, ofDays, index
    <2> QED
      BY <2>1, <2>2
  <1>4. ASSUME i \in ofDays PROVE GoodIssue(i, datasets)
    <2>1. PICK day \in absent : i \in OfDay("trade_cal", day, "calendar_date_coverage_v1", "missing")
      BY <1>4
    <2> QED
      BY <1>2, <2>1, OfDayGood
  <1>5. ASSUME NEW day \in index, NEW key, NEW observed2
        PROVE GoodIssue(Issue("trade_cal", day, key, "calendar_pretrade_v1", "WARNING", observed2, Refetch(day)), datasets)
    <2>1. Refetch(day).action = "REFETCH" /\ Refetch(day).day = day
      BY DEF Refetch
    <2> QED
      BY <1>1, <2>1, IssueGood
  <1> QED
    BY <1>3, <1>4, <1>5

LEMMA DenseDaysGood ==
  ASSUME NEW lake, GoodLake(lake), NEW scope, NEW datasets, NEW d \in datasets,
         NEW i \in DenseDays(lake, scope, d)
  PROVE  GoodIssue(i, datasets)
  <1> DEFINE actual == Observed(lake, scope, d)
             open == OpenDates(lake, scope)
             first == IF scope.start # Missing THEN scope.start ELSE Min(actual)
             expected == IF actual = {} /\ scope.start = Missing THEN {} ELSE {day \in open : first <= day}
  <1>1. actual \subseteq Days /\ open \subseteq Days
    BY DaysInDays DEF Observed, Looked, OpenDates, Index
  <1>2. expected \subseteq Days
    BY <1>1
  <1>3. \/ \E day \in actual : i \in OfDay(d, day, "closed_market_partition_v1", "closed")
        \/ \E day \in expected : i \in OfDay(d, day, "missing_market_partition_v1", "missing")
    BY DEF DenseDays
  <1> QED
    BY <1>1, <1>2, <1>3, OfDayGood

LEMMA FactorCoverageGood ==
  ASSUME NEW lake, GoodLake(lake), NEW scope, NEW datasets, "adj_factor" \in datasets,
         NEW i \in FactorCoverage(lake, scope)
  PROVE  GoodIssue(i, datasets)
  <1>1. \E day \in Index(lake, scope, "daily") : \E uncovered :
          i \in OfDay("adj_factor", day, "adj_factor_daily_coverage_v1", uncovered)
    BY DEF FactorCoverage, If
  <1>2. Index(lake, scope, "daily") \subseteq Days
    BY DaysInDays DEF Index
  <1> QED
    BY <1>1, <1>2, OfDayGood

\* What a detection finds can be repaired, or is for the operator.
LEMMA DetectedGood ==
  ASSUME NEW lake, GoodLake(lake), NEW scope, GoodScope(scope), NEW i \in Detected(lake, scope)
  PROVE  GoodIssue(i, scope.datasets)
  <1>1. \/ \E d \in scope.datasets : i \in DetectDataset(lake, scope, d)
        \/ "trade_cal" \in scope.datasets /\ i \in CalendarSeries(lake, scope)
        \/ \E d \in scope.datasets : i \in DenseDays(lake, scope, d)
        \/ "adj_factor" \in scope.datasets /\ i \in FactorCoverage(lake, scope)
    BY DEF Detected, If
  <1>2. scope.datasets \subseteq Names
    BY DEF GoodScope
  <1> QED
    BY <1>1, <1>2, DetectDatasetGood, CalendarSeriesGood, DenseDaysGood, FactorCoverageGood

-----------------------------------------------------------------------------
(* Paths, and the steps that commands consist of. *)

LEMMA PathIs ==
  ASSUME world \in Worlds
  PROVE  /\ "trade_cal" \in world.datasets /\ world.datasets \subseteq Names /\ Missing \notin Days
         /\ IsFiniteSet(Path) /\ IsFiniteSet(Days)
         /\ \A p \in Path : p = <<p[1], p[2]>> /\ p[1] \in world.datasets /\ (p[2] \in Days \/ p[2] = Missing)
         /\ \A d \in world.datasets, day \in Days \cup {Missing} : <<d, day>> \in Path
  <1>1. "trade_cal" \in world.datasets /\ world.datasets \subseteq Names
    BY WorldsAssumption, NamesAre
  <1>2. Missing \notin Days /\ LastDay \in Nat
    BY BoundsAssumption DEF Days
  <1>3. IsFiniteSet(Days) /\ IsFiniteSet(Days \cup {Missing})
    <2>1. IsFiniteSet(Days)
      BY <1>2, FS_Interval DEF Days
    <2> QED
      BY <2>1, FS_AddElement
  <1>4. IsFiniteSet(world.datasets)
    <2>1. IsFiniteSet(Names)
      <3>1. IsFiniteSet({"daily"}) /\ IsFiniteSet({"income"})
        BY FS_Singleton
      <3>2. IsFiniteSet({"daily"} \cup {"adj_factor"} \cup {"suspend_d"})
        BY <3>1, FS_AddElement
      <3>3. IsFiniteSet({"income"} \cup {"fina_indicator"} \cup {"trade_cal"})
        BY <3>1, FS_AddElement
      <3>4. Names = ({"daily"} \cup {"adj_factor"} \cup {"suspend_d"}) \cup ({"income"} \cup {"fina_indicator"} \cup {"trade_cal"})
        BY DEF Names
      <3> QED
        BY <3>2, <3>3, <3>4, FS_Union
    <2> QED
      BY <1>1, <2>1, FS_Subset
  <1>5. IsFiniteSet(Path)
    BY <1>3, <1>4, FS_Product DEF Path, Days
  <1>6. \A p \in Path : p = <<p[1], p[2]>> /\ p[1] \in world.datasets /\ (p[2] \in Days \/ p[2] = Missing)
    BY DEF Path, Days
  <1>7. \A d \in world.datasets, day \in Days \cup {Missing} : <<d, day>> \in Path
    BY DEF Path, Days
  <1> QED
    BY <1>1, <1>2, <1>3, <1>5, <1>6, <1>7

LEMMA LakeIs ==
  ASSUME DiskInv
  PROVE  GoodLake(Lake) /\ DOMAIN Lake = {p \in DOMAIN disk : p[2] # Missing}
  <1>1. DOMAIN Lake = {p \in DOMAIN disk : p[2] # Missing} /\ \A p \in DOMAIN Lake : Lake[p] = disk[p]
    BY DEF Lake, Tables, Restrict
  <1>2. \A p \in DOMAIN Lake : p = <<p[1], p[2]>> /\ p[2] \in Days /\ disk[p].flaw \in Flaws \cup {"none"}
    BY <1>1, PathIs DEF DiskInv, GoodPartition
  <1> QED
    BY <1>1, <1>2 DEF GoodLake

LEMMA ScopeGood ==
  ASSUME world \in Worlds, NEW scope \in Scopes(world)
  PROVE  GoodScope(scope) /\ scope.datasets \subseteq world.datasets
  BY PathIs, ScopesAssumption DEF GoodScope, Days

\* Steps that nothing has to come before.
Plain == {"raise", "backup", "refetch", "fetch", "request", "write", "mark", "remove"}
LEMMA PlainComes == ASSUME NEW s, s.do \in Plain, NEW t PROVE Comes(s, t)
  BY DEF Plain, Comes, Finals

LEMMA OrderedPlain ==
  ASSUME NEW n \in Nat, NEW f, DOMAIN f = 1 .. n, f = [k \in 1 .. n |-> f[k]], \A k \in 1 .. n : f[k].do \in Plain
  PROVE  Ordered(f) /\ ToSet(f) = {f[k] : k \in 1 .. n}
  <1>1. ToSet(f) = {f[k] : k \in 1 .. n}
    BY DEF ToSet
  <1>2. f \in [1 .. n -> ToSet(f)]
    BY <1>1
  <1>3. f \in Seq(ToSet(f))
    BY <1>2, FunctionIsSequence
  <1>4. \A k, l \in 1 .. n : Comes(f[k], f[l])
    BY PlainComes
  <1> QED
    BY <1>1, <1>3, <1>4 DEF Ordered

\* The partitions a fetch writes.
LEMMA WritesAre ==
  ASSUME NEW d, NEW rows, \A r \in rows : r[PartitionField(d)] \in Days
  PROVE  /\ Ordered(Writes(d, rows))
         /\ \A s \in ToSet(Writes(d, rows)) :
              /\ s.do = "write" /\ s.path = <<d, s.path[2]>> /\ s.rows \subseteq rows
              /\ \E r \in rows : s.path[2] = r[PartitionField(d)]
              /\ \A r \in s.rows : r[PartitionField(d)] = s.path[2]
  <1> DEFINE S == {r[PartitionField(d)] : r \in rows}
             days == Ascending(S)
             f == [k \in DOMAIN days |-> [do |-> "write", path |-> <<d, days[k]>>,
                                          rows |-> {r \in rows : r[PartitionField(d)] = days[k]}]]
  <1>1. S \in SUBSET Days /\ S \in SUBSET Nat
    BY BoundsAssumption DEF Days
  <1>2. IsFiniteSet(S)
    <2>1. IsFiniteSet(Days)
      BY BoundsAssumption, FS_Interval DEF Days
    <2> HIDE DEF S
    <2> QED
      BY <1>1, <2>1, FS_Subset
  <1>3. days \in Seq(S) /\ ToSet(days) = S
    <2> HIDE DEF S
    <2> QED
      BY <1>1, <1>2, AscendingIs
  <1>4. Len(days) \in Nat /\ DOMAIN days = 1 .. Len(days) /\ \A k \in DOMAIN days : days[k] \in S
    <2> HIDE DEF S, days
    <2> QED
      BY <1>3
  <1> HIDE DEF days
  <1>5. Ordered(f) /\ ToSet(f) = {f[k] : k \in 1 .. Len(days)}
    <2>1. DOMAIN f = 1 .. Len(days) /\ \A k \in 1 .. Len(days) : f[k].do \in Plain
      BY <1>4 DEF Plain
    <2>2. f = [k \in 1 .. Len(days) |-> f[k]]
      BY <1>4
    <2> HIDE DEF f
    <2> QED
      BY <1>4, <2>1, <2>2, OrderedPlain
  <1>6. Writes(d, rows) = f
    BY DEF Writes, days
  <1>7. \A k \in 1 .. Len(days) :
          /\ f[k].do = "write" /\ f[k].path = <<d, days[k]>> /\ f[k].rows = {r \in rows : r[PartitionField(d)] = days[k]}
          /\ \E r \in rows : days[k] = r[PartitionField(d)]
    BY <1>4
  <1> HIDE DEF f, S
  <1> QED
    BY <1>5, <1>6, <1>7

\* What a fetch does: the calendar that it completes, the days it asks for of a table of
\* the market, any partition of another; and its checkpoint.
FetchStep(s, range) ==
  \/ /\ s.do = "write" /\ s.path \in Path /\ s.path[2] # Missing
     /\ s.path[1] = "trade_cal" => InPlace(s.rows, s.path[2])
     /\ \/ s.path[1] = "trade_cal"
        \/ s.path[1] = range.dataset /\ (range.dataset \in MarketDate => s.path[2] \in range.first .. range.last)
  \/ s.do = "mark" /\ s.path = Checkpoint(range.dataset)

\* What a flush and a compaction leave of the calendar is in its partition.
LEMMA UpsertStays ==
  ASSUME NEW d, NEW day, NEW old, NEW new, InPlace(old, day), InPlace(new, day)
  PROVE  InPlace(Upsert(d, old, new), day) /\ InPlace(Appended(d, old, new), day)
  <1>1. ASSUME NEW rows, InPlace(rows, day) PROVE InPlace(Compacted(d, rows), day)
    <2> SUFFICES ASSUME NEW x \in rows PROVE LET r == Restrict(x, DOMAIN x \ {"copy"}) IN "date" \in DOMAIN r /\ r.date = day
      BY DEF Compacted, InPlace
    <2>1. "date" \in DOMAIN x /\ x.date = day
      BY <1>1 DEF InPlace
    <2> QED
      BY <2>1 DEF Restrict
  <1>2. InPlace({r \in old : SameKey(d, new, r) = {}}, day)
    BY DEF InPlace
  <1>3. InPlace(Upsert(d, old, new), day)
    <2>1. InPlace(Compacted(d, {r \in old : SameKey(d, new, r) = {}}), day)
      BY <1>1, <1>2
    <2> QED
      BY <2>1 DEF Upsert, InPlace
  <1>4. ASSUME NEW r \in new PROVE "date" \in DOMAIN Copy(r) /\ Copy(r).date = day
    BY <1>4 DEF InPlace, Copy
  <1>5. InPlace(Appended(d, old, new), day)
    BY <1>4 DEF Appended, InPlace
  <1> QED
    BY <1>3, <1>5

LEMMA ContentInPlace ==
  ASSUME DiskInv, NEW path, path[1] = "trade_cal", path[2] # Missing
  PROVE  InPlace(Content(path), path[2])
  BY DEF Content, DiskInv, GoodPartition, InPlace

\* What is fetched for a range: the days that the calendar lacks, and the rows of the range.
LEMMA FetchedAre ==
  ASSUME DiskInv, NEW range, GoodRange(range, world.datasets)
  PROVE  LET fetched == FetchedRows(range.dataset, range.first, range.last)
             cs == Writes("trade_cal", fetched.calendar)
         IN /\ Ordered(cs) /\ \A s \in ToSet(cs) : FetchStep(s, range) /\ s.do = "write"
            /\ GoodRows(range, fetched.rows)
  <1> DEFINE d == range.dataset
             asked == range.first .. range.last
             added == Upstream("trade_cal", CalendarDays(range.first, range.last))
             calendar == UNION {Upsert("trade_cal", Content(<<"trade_cal", day>>), {r \in added : r.date = day}) : day \in asked}
             open == {r.date : r \in {x \in calendar : x.open = 1}}
             traded == d \in MarketDate \ {"trade_cal"}
             fetched == FetchedRows(d, range.first, range.last)
  <1>1. /\ world \in Worlds /\ "trade_cal" \in world.datasets /\ d \in world.datasets /\ d \in Names /\ Missing \notin Days
        /\ d \in MarketDate => asked \subseteq Days
        /\ d \in MarketDate <=> d \notin Announcement
    BY PathIs, NamesAre DEF DiskInv, GoodRange, FullSnapshot
  <1>2. /\ \A e \in world.datasets : \A r \in world.upstream[e] : r[PartitionField(e)] \in Days
        /\ \A r \in world.upstream["trade_cal"] : "date" \in DOMAIN r
    BY <1>1, WorldsAssumption DEF Days
  <1>3. PartitionField("trade_cal") = "date" /\ "trade_cal" \notin Announcement
    BY DEF PartitionField, Announcement
  <1>4. \A r \in added : r.date \in Days /\ "date" \in DOMAIN r
    BY <1>1, <1>2, <1>3 DEF Upstream
  <1>5. fetched.calendar \subseteq added /\ fetched.rows = Upstream(d, IF traded THEN open ELSE asked)
    BY DEF FetchedRows
  <1>6. ASSUME d \in MarketDate PROVE open \subseteq asked
    <2> SUFFICES ASSUME NEW r \in calendar PROVE r.date \in asked
      OBVIOUS
    <2>1. PICK day \in asked : r \in Upsert("trade_cal", Content(<<"trade_cal", day>>), {x \in added : x.date = day})
      OBVIOUS
    <2>2. day \in Days
      BY <1>1, <1>6
    <2>3. InPlace(Content(<<"trade_cal", day>>), day)
      <3>1. PICK path : path = <<"trade_cal", day>>
        OBVIOUS
      <3>2. path[1] = "trade_cal" /\ path[2] = day /\ day # Missing
        BY <1>1, <2>2, <3>1
      <3> QED
        BY <3>1, <3>2, ContentInPlace
    <2>4. InPlace({x \in added : x.date = day}, day)
      BY <1>4 DEF InPlace
    <2>5. InPlace(Upsert("trade_cal", Content(<<"trade_cal", day>>), {x \in added : x.date = day}), day)
      BY <2>3, <2>4, UpsertStays
    <2> QED
      BY <2>1, <2>5 DEF InPlace
  <1>7. \A r \in fetched.rows : /\ r[PartitionField(d)] \in Days
                                /\ d \in MarketDate => r[PartitionField(d)] \in asked
    <2> SUFFICES ASSUME NEW r \in fetched.rows
                 PROVE r[PartitionField(d)] \in Days /\ (d \in MarketDate => r[PartitionField(d)] \in asked)
      OBVIOUS
    <2>1. r \in world.upstream[d]
      BY <1>5 DEF Upstream
    <2>2. ASSUME d \in MarketDate PROVE r[PartitionField(d)] \in asked
      <3>1. PartitionField(d) = "date" /\ d \notin Announcement
        BY <1>1, <2>2 DEF PartitionField
      <3>2. r.date \in (IF traded THEN open ELSE asked)
        BY <1>5, <3>1 DEF Upstream
      <3> QED
        BY <1>6, <2>2, <3>1, <3>2
    <2> QED
      BY <1>1, <1>2, <2>1, <2>2
  <1>8. /\ \A r \in fetched.calendar : r[PartitionField("trade_cal")] \in Days /\ "date" \in DOMAIN r
        /\ d = "trade_cal" => \A r \in fetched.rows : "date" \in DOMAIN r
    <2>1. d = "trade_cal" => \A r \in fetched.rows : r \in world.upstream["trade_cal"]
      BY <1>5 DEF Upstream
    <2> QED
      BY <1>2, <1>3, <1>4, <1>5, <2>1
  <1> DEFINE cs == Writes("trade_cal", fetched.calendar)
  <1> HIDE DEF fetched
  <1>9. Ordered(cs) /\ \A s \in ToSet(cs) : FetchStep(s, range) /\ s.do = "write"
    <2>1. /\ Ordered(cs)
          /\ \A s \in ToSet(cs) :
              /\ s.do = "write" /\ s.path = <<"trade_cal", s.path[2]>> /\ s.rows \subseteq fetched.calendar
              /\ \E r \in fetched.calendar : s.path[2] = r[PartitionField("trade_cal")]
              /\ \A r \in s.rows : r[PartitionField("trade_cal")] = s.path[2]
      BY <1>8, WritesAre
    <2> SUFFICES ASSUME NEW s \in ToSet(cs) PROVE FetchStep(s, range) /\ s.do = "write"
      BY <2>1
    <2>2. s.path[2] \in Days /\ InPlace(s.rows, s.path[2])
      BY <1>3, <1>8, <2>1 DEF InPlace
    <2>3. s.path \in Path /\ s.path[2] # Missing /\ s.path[1] = "trade_cal"
      <3>1. PICK day \in Days : s.path = <<"trade_cal", day>>
        BY <2>1, <2>2
      <3>2. <<"trade_cal", day>> \in Path
        BY <1>1, PathIs
      <3> QED
        BY <1>1, <3>1, <3>2
    <2> QED
      BY <2>1, <2>2, <2>3 DEF FetchStep
  <1>10. GoodRows(range, fetched.rows)
    BY <1>7, <1>8 DEF GoodRows
  <1> QED
    BY <1>9, <1>10 DEF fetched

\* The requests of a range, and its checkpoint.
LEMMA RequestStepsAre ==
  ASSUME world \in Worlds, NEW range, GoodRange(range, world.datasets), NEW rows, GoodRows(range, rows)
  PROVE  /\ Ordered(RequestSteps(range, rows))
         /\ \A s \in ToSet(RequestSteps(range, rows)) : FetchStep(s, range) /\ s.do \in {"write", "mark"}
  <1> DEFINE d == range.dataset
             asked == range.first .. range.last
             rs == Writes(d, rows)
             mark == [do |-> "mark", path |-> Checkpoint(d), days |-> asked]
  <1>1. /\ d \in world.datasets /\ d \in Names /\ Missing \notin Days
        /\ PartitionField("trade_cal") = "date"
        /\ \A r \in rows : /\ r[PartitionField(d)] \in Days
                           /\ d \in MarketDate => r[PartitionField(d)] \in asked
                           /\ d = "trade_cal" => "date" \in DOMAIN r
    BY PathIs, NamesAre DEF GoodRange, GoodRows, PartitionField, Announcement
  <1>2. Ordered(rs) /\ \A s \in ToSet(rs) : FetchStep(s, range) /\ s.do = "write"
    <2>1. /\ Ordered(rs)
          /\ \A s \in ToSet(rs) :
              /\ s.do = "write" /\ s.path = <<d, s.path[2]>> /\ s.rows \subseteq rows
              /\ \E r \in rows : s.path[2] = r[PartitionField(d)]
              /\ \A r \in s.rows : r[PartitionField(d)] = s.path[2]
      BY <1>1, WritesAre
    <2> SUFFICES ASSUME NEW s \in ToSet(rs) PROVE FetchStep(s, range) /\ s.do = "write"
      BY <2>1
    <2>2. s.path[2] \in Days /\ (d \in MarketDate => s.path[2] \in asked)
      BY <1>1, <2>1
    <2>3. s.path \in Path /\ s.path[2] # Missing /\ s.path[1] = d
      <3>1. PICK day \in Days : s.path = <<d, day>>
        BY <2>1, <2>2
      <3>2. <<d, day>> \in Path
        BY <1>1, PathIs
      <3> QED
        BY <1>1, <3>1, <3>2
    <2>4. d = "trade_cal" => InPlace(s.rows, s.path[2])
      BY <1>1, <2>1 DEF InPlace
    <2> QED
      BY <2>1, <2>2, <2>3, <2>4 DEF FetchStep
  <1>3. Ordered(<<mark>>) /\ ToSet(<<mark>>) = {mark} /\ FetchStep(mark, range) /\ mark.do = "mark"
    BY OrderedOne DEF FetchStep
  <1>4. RequestSteps(range, rows) = rs \o <<mark>>
    BY DEF RequestSteps
  <1> HIDE DEF rs, mark
  <1>5. /\ Ordered(rs \o <<mark>>)
        /\ ToSet(rs \o <<mark>>) = ToSet(rs) \cup {mark}
    <2>1. \A x \in ToSet(rs), y \in ToSet(<<mark>>) : Comes(x, y)
      BY <1>2, PlainComes DEF Plain
    <2> QED
      BY <1>2, <1>3, <2>1, OrderedConcat
  <1> QED
    BY <1>2, <1>3, <1>4, <1>5

LEMMA FetchStepsAre ==
  ASSUME DiskInv, NEW range, GoodRange(range, world.datasets)
  PROVE  \A s \in ToSet(FetchSteps(range)) : FetchStep(s, range)
  <1>1. PICK fetched : fetched = FetchedRows(range.dataset, range.first, range.last)
    OBVIOUS
  <1>2. PICK cs : cs = Writes("trade_cal", fetched.calendar)
    OBVIOUS
  <1>3. PICK rs : rs = RequestSteps(range, fetched.rows)
    OBVIOUS
  <1>4. Ordered(cs) /\ (\A s \in ToSet(cs) : FetchStep(s, range) /\ s.do = "write") /\ GoodRows(range, fetched.rows)
    BY <1>1, <1>2, FetchedAre
  <1>5. Ordered(rs) /\ \A s \in ToSet(rs) : FetchStep(s, range)
    BY <1>3, <1>4, RequestStepsAre DEF DiskInv
  <1>6. ToSet(cs \o rs) = ToSet(cs) \cup ToSet(rs)
    <2>1. \A x \in ToSet(cs), y \in ToSet(rs) : Comes(x, y)
      BY <1>4, PlainComes DEF Plain
    <2> QED
      BY <1>4, <1>5, <2>1, OrderedConcat
  <1> QED
    BY <1>1, <1>2, <1>3, <1>4, <1>5, <1>6 DEF FetchSteps

\* The ranges a repair asks for again.
LEMMA RefetchRangesAre ==
  ASSUME NEW datasets, datasets \subseteq Names, NEW issues, NEW decided,
         \A i \in issues : GoodIssue(i, datasets)
  PROVE  LET ranges == RefetchRanges(issues, decided)
         IN  /\ Len(ranges) \in Nat /\ DOMAIN ranges = 1 .. Len(ranges)
             /\ \A k \in DOMAIN ranges : GoodRange(ranges[k], datasets)
  <1> DEFINE S(d) == {i.suggested.day : i \in {x \in ToRefetch(issues, decided) : x.dataset = d}}
             D(d) == Ascending(S(d))
             Merged(d) == IF d \in FullSnapshot /\ D(d) # << >> THEN <<<<Head(D(d)), Last(D(d))>>>>
                          ELSE ContiguousRanges(D(d))
             Of(d) == [k \in DOMAIN Merged(d) |-> [dataset |-> d, first |-> Merged(d)[k][1], last |-> Merged(d)[k][2]]]
             ss == [k \in DOMAIN Order |-> Of(Order[k])]
             X == UNION {ToSet(Of(Order[k])) : k \in DOMAIN Order}
  <1>1. \A i \in ToRefetch(issues, decided) : i.dataset \in MarketDate => i.suggested.day \in Days
    <2> SUFFICES ASSUME NEW i \in ToRefetch(issues, decided), i.dataset \in MarketDate PROVE i.suggested.day \in Days
      OBVIOUS
    <2>1. i \in issues /\ i.suggested.action = "REFETCH"
      BY DEF ToRefetch, Instruction
    <2>2. i.suggested # Nothing
      BY <2>1 DEF Nothing
    <2> QED
      BY <2>1, <2>2 DEF GoodIssue
  <1>2. ASSUME NEW d \in Names
        PROVE /\ Len(Merged(d)) \in Nat /\ DOMAIN Merged(d) = 1 .. Len(Merged(d))
              /\ \A k \in DOMAIN Merged(d) : d \in MarketDate => Merged(d)[k][1] .. Merged(d)[k][2] \subseteq Days
              /\ \A k \in DOMAIN Merged(d) : d \in datasets
    <2>1. CASE d \in FullSnapshot /\ D(d) # << >>
      <3>1. Merged(d) = <<<<Head(D(d)), Last(D(d))>>>>
        BY <2>1
      <3>2. d \notin MarketDate
        BY <2>1, NamesAre
      <3>3. d \in datasets
        <4>1. S(d) # {}
          <5> SUFFICES ASSUME S(d) = {} PROVE FALSE
            OBVIOUS
          <5>1. IsFiniteSet(S(d)) /\ S(d) \in SUBSET Nat /\ Cardinality(S(d)) = 0
            BY FS_EmptySet
          <5>2. D(d) \in Seq(S(d)) /\ Len(D(d)) = 0
            <6> HIDE DEF S
            <6> QED
              BY <5>1, AscendingIs
          <5> HIDE DEF D
          <5> QED
            BY <2>1, <5>2
        <4> QED
          BY <4>1 DEF ToRefetch, GoodIssue
      <3> QED
        BY <3>1, <3>2, <3>3
    <2>2. CASE d \in MarketDate \/ D(d) = << >>
      <3>1. Merged(d) = ContiguousRanges(D(d))
        BY <2>2, NamesAre
      <3>2. /\ D(d) \in Seq(Int) /\ \A i, j \in DOMAIN D(d) : i < j => D(d)[i] < D(d)[j]
            /\ \A i \in DOMAIN D(d) : D(d)[i] \in Days /\ d \in datasets
        <4>1. CASE D(d) = << >>
          <5> HIDE DEF D
          <5> QED
            BY <4>1
        <4>2. CASE d \in MarketDate
          <5>1. S(d) \subseteq Days /\ (S(d) # {} => d \in datasets)
            BY <1>1, <4>2 DEF ToRefetch, GoodIssue
          <5>2. IsFiniteSet(S(d)) /\ S(d) \in SUBSET Nat
            <6>1. IsFiniteSet(Days) /\ Days \subseteq Nat
              BY BoundsAssumption, FS_Interval DEF Days
            <6> HIDE DEF S
            <6> QED
              BY <5>1, <6>1, FS_Subset
          <5> HIDE DEF S
          <5>3. D(d) \in Seq(S(d)) /\ \A i, j \in DOMAIN D(d) : i < j => D(d)[i] < D(d)[j]
            BY <5>2, AscendingIs
          <5> HIDE DEF D
          <5>4. \A i \in DOMAIN D(d) : D(d)[i] \in S(d) /\ D(d)[i] \in Int
            BY <5>2, <5>3
          <5>5. D(d) \in Seq(Int)
            BY <5>3, <5>4, SequenceInto
          <5> QED
            BY <5>1, <5>3, <5>4, <5>5
        <4> QED
          BY <2>2, <4>1, <4>2
      <3> DEFINE q == D(d)
                 C == ContiguousRanges(q)
      <3> HIDE DEF D, S
      <3>3. Apart(C) /\ \A x \in Int : x \in DaysOf(C) <=> \E i \in DOMAIN q : x = q[i]
        BY <3>2, ContiguousIs
      <3>4. C \in Seq(Int \X Int)
        BY <3>3 DEF Apart
      <3> HIDE DEF C
      <3>5. Len(C) \in Nat /\ DOMAIN C = 1 .. Len(C) /\ \A k \in DOMAIN C : C[k] \in Int \X Int
        BY <3>4
      <3>6. ASSUME NEW k \in DOMAIN C PROVE d \in datasets /\ C[k][1] .. C[k][2] \subseteq Days
        <4>1. ASSUME NEW x \in C[k][1] .. C[k][2] PROVE x \in Days /\ d \in datasets
          <5>1. x \in Int /\ x \in DaysOf(C)
            BY <3>5, <4>1 DEF DaysOf
          <5> QED
            BY <3>2, <3>3, <5>1
        <4>2. C[k][1] \in C[k][1] .. C[k][2]
          BY <3>3, <3>5 DEF Apart
        <4> QED
          BY <4>1, <4>2
      <3>7. Merged(d) = C
        BY <3>1 DEF C
      <3> QED
        BY <3>5, <3>6, <3>7
    <2> QED
      BY <2>1, <2>2, NamesAre
  <1> HIDE DEF Merged
  <1>3. \A d \in Names : DOMAIN Of(d) = 1 .. Len(Merged(d)) /\ \A k \in DOMAIN Of(d) : GoodRange(Of(d)[k], datasets)
    BY <1>2 DEF GoodRange
  <1>4. \A k \in DOMAIN Order : Order[k] \in Names
    BY NamesAre
  <1>5. \A k \in DOMAIN Order : ss[k] = Of(Order[k]) /\ ss[k] \in Seq(X)
    <2> TAKE k \in DOMAIN Order
    <2>1. Order[k] \in Names /\ Len(Merged(Order[k])) \in Nat
      BY <1>2, <1>4
    <2>2. \A l \in DOMAIN Of(Order[k]) : Of(Order[k])[l] \in X
      BY DEF ToSet
    <2>3. Of(Order[k]) \in [1 .. Len(Merged(Order[k])) -> X]
      <3> HIDE DEF X
      <3> QED
        BY <1>2, <2>1, <2>2
    <2> HIDE DEF X
    <2>4. Of(Order[k]) \in Seq(X)
      <3> HIDE DEF Of
      <3> QED
        BY <2>1, <2>3, FunctionIsSequence
    <2> QED
      BY <2>4
  <1>6. \A x \in X : GoodRange(x, datasets)
    BY <1>3, <1>4 DEF ToSet
  <1> HIDE DEF X, Of
  <1>7. ss \in Seq(Seq(X))
    <2>1. ss \in [1 .. 6 -> Seq(X)]
      BY <1>5, NamesAre
    <2> HIDE DEF ss
    <2> QED
      BY <2>1, FunctionIsSequence
  <1> HIDE DEF ss
  <1>8. FlattenSeq(ss) \in Seq(X)
    BY <1>7, FlattenType
  <1>9. RefetchRanges(issues, decided) = FlattenSeq(ss)
    BY DEF RefetchRanges, ss, Of, Merged
  <1> QED
    BY <1>6, <1>8, <1>9

\* Nothing that is not the last step has to come after a detection or an end.
LEMMA EndComes ==
  ASSUME NEW s, s.do \in Plain \cup {"patch", "put"}, NEW t, t.do \notin {"backup", "remove"}
  PROVE  Comes(s, t)
  BY DEF Plain, Comes, Finals

LEMMA OrderedTwo ==
  ASSUME NEW s, NEW t, Comes(s, t)
  PROVE  Ordered(<<s, t>>) /\ ToSet(<<s, t>>) = {s, t}
  <1>1. \A k \in DOMAIN <<s, t>> : <<s, t>>[k] \in {s, t}
    OBVIOUS
  <1>2. ToSet(<<s, t>>) = {s, t}
    <2>1. 1 \in DOMAIN <<s, t>> /\ 2 \in DOMAIN <<s, t>> /\ <<s, t>>[1] = s /\ <<s, t>>[2] = t
      OBVIOUS
    <2> QED
      BY <1>1, <2>1 DEF ToSet
  <1> QED
    BY <1>2 DEF Ordered

\* What is patched, after it is backed up.
LEMMA PatchStepsAre ==
  ASSUME world \in Worlds, NEW j, j.datasets \subseteq world.datasets, NEW issues, NEW decided,
         \A i \in issues : GoodIssue(i, j.datasets), \A i \in decided : i.rule # "dataset_empty_v1"
  PROVE  LET steps == PatchSteps(issues, decided)
         IN  Ordered(steps) /\ \A s \in ToSet(steps) : RepairStep(s, j, steps) /\ s.do \in {"raise", "backup", "patch"}
  <1> DEFINE changes == ToPatch(issues, decided)
             S == {<<i.dataset, i.day>> : i \in changes}
             places == SetToSeq(S)
             n == Cardinality(S)
             backup(path) == [do |-> "backup", path |-> path]
             patch(path) == [do |-> "patch", path |-> path, changes |-> {i \in changes : <<i.dataset, i.day>> = path}]
             Of(path) == <<backup(path), patch(path)>>
             ss == [k \in DOMAIN places |-> Of(places[k])]
             steps == FlattenSeq(ss)
             raise == <<[do |-> "raise"]>>
  <1>1. \A i \in changes : GoodChange(i) /\ i.dataset \in j.datasets /\ i.day \in Days
    BY DEF ToPatch, GoodIssue, GoodChange
  <1>2. \A p \in S : p \in Path /\ p[2] # Missing /\ p[1] \in j.datasets
    <2> SUFFICES ASSUME NEW i \in changes
                 PROVE <<i.dataset, i.day>> \in Path /\ i.day # Missing /\ i.dataset \in j.datasets
      OBVIOUS
    <2> QED
      BY <1>1, PathIs
  <1>3. IsFiniteSet(S)
    <2> HIDE DEF S
    <2> QED
      BY <1>2, PathIs, FS_Subset
  <1>4. /\ n \in Nat /\ DOMAIN places = 1 .. n /\ (\A k \in 1 .. n : places[k] \in S)
        /\ \A k, l \in 1 .. n : places[k] = places[l] => k = l
    <2> HIDE DEF S
    <2> QED
      BY <1>3, SetToSeqIs
  <1> HIDE DEF places, n, S
  <1>5. \A path : Ordered(Of(path)) /\ ToSet(Of(path)) = {backup(path), patch(path)}
    <2> TAKE path
    <2>1. Comes(backup(path), patch(path))
      BY DEF Comes, Finals
    <2> HIDE DEF backup, patch
    <2> QED
      BY <2>1, OrderedTwo
  <1> HIDE DEF Of
  <1>6. Ordered(steps) /\ ToSet(steps) = UNION {ToSet(ss[k]) : k \in 1 .. n}
    <2>1. DOMAIN ss = 1 .. n /\ ss = [k \in 1 .. n |-> ss[k]]
      BY <1>4
    <2>2. \A k \in 1 .. n : ss[k] = Of(places[k])
      BY <1>4
    <2> HIDE DEF ss
    <2>3. \A k \in 1 .. n : Ordered(ss[k])
      BY <1>5, <2>2
    <2>4. ASSUME NEW k \in 1 .. n, NEW l \in 1 .. n, k < l, NEW x \in ToSet(ss[k]), NEW y \in ToSet(ss[l])
          PROVE  Comes(x, y)
      <3>1. places[k] # places[l]
        BY <1>4, <2>4
      <3>2. x.do \in {"backup", "patch"} /\ x.path = places[k] /\ y.do \in {"backup", "patch"} /\ y.path = places[l]
        BY <1>5, <2>2, <2>4
      <3> QED
        BY <3>1, <3>2 DEF Comes, Finals
    <2> QED
      BY <1>4, <2>1, <2>3, <2>4, OrderedFlatten
  <1>7. ASSUME NEW s \in ToSet(steps)
        PROVE  RepairStep(s, j, steps) /\ s.do \in {"raise", "backup", "patch"}
    <2>1. PICK k \in 1 .. n : s \in ToSet(ss[k])
      BY <1>6
    <2>2. ss[k] = Of(places[k]) /\ places[k] \in S
      BY <1>4
    <2> DEFINE p == places[k]
    <2>3. s = backup(p) \/ s = patch(p)
      BY <1>5, <2>1, <2>2
    <2>4. p \in Path /\ p[2] # Missing /\ p[1] \in j.datasets
      BY <1>2, <2>2
    <2>5. backup(p) \in ToSet(steps)
      <3>1. backup(p) \in ToSet(ss[k])
        BY <1>5, <2>2
      <3> HIDE DEF steps, ss, backup, p
      <3> QED
        BY <1>6, <3>1
    <2> HIDE DEF p, steps
    <2>6. CASE s = backup(p)
      BY <2>4, <2>6 DEF RepairStep
    <2>7. CASE s = patch(p)
      <3>1. \A i \in s.changes : GoodChange(i)
        BY <1>1, <2>7
      <3>2. s.do = "patch" /\ s.path = p
        BY <2>7
      <3>3. backup(p).do = "backup" /\ backup(p).path = p
        OBVIOUS
      <3> HIDE DEF backup
      <3> QED
        BY <2>4, <2>5, <3>1, <3>2, <3>3 DEF RepairStep
    <2> QED
      BY <2>3, <2>6, <2>7
  <1>8. Ordered(raise) /\ \A s \in ToSet(raise) : RepairStep(s, j, raise) /\ s.do \in {"raise", "backup", "patch"}
    BY OrderedOne DEF RepairStep
  <1>9. PatchSteps(issues, decided) = raise \/ PatchSteps(issues, decided) = steps
    BY DEF PatchSteps, places, Of, S
  <1> HIDE DEF raise, steps
  <1> QED
    BY <1>6, <1>7, <1>8, <1>9

\* What undoes an entry.
RemoveOf(path) == [do |-> "remove", path |-> path]
PutOf(e) == [do |-> "put", path |-> e.path, content |-> e.content]
UndoOf(e) == (IF e.path \in DOMAIN disk THEN <<RemoveOf(e.path)>> ELSE << >>) \o (IF e.found THEN <<PutOf(e)>> ELSE << >>)

LEMMA UndoIs ==
  ASSUME NEW e
  PROVE  /\ Ordered(UndoOf(e))
         /\ \A s : s \in ToSet(UndoOf(e)) <=> \/ e.path \in DOMAIN disk /\ s = RemoveOf(e.path)
                                              \/ e.found /\ s = PutOf(e)
  <1> DEFINE a == IF e.path \in DOMAIN disk THEN <<RemoveOf(e.path)>> ELSE << >>
             b == IF e.found THEN <<PutOf(e)>> ELSE << >>
  <1>1. Ordered(a) /\ \A s : s \in ToSet(a) <=> e.path \in DOMAIN disk /\ s = RemoveOf(e.path)
    BY OrderedOne, OrderedNone
  <1>2. Ordered(b) /\ \A s : s \in ToSet(b) <=> e.found /\ s = PutOf(e)
    BY OrderedOne, OrderedNone
  <1> HIDE DEF a, b
  <1>3. \A x \in ToSet(a), y \in ToSet(b) : Comes(x, y)
    <2> SUFFICES ASSUME NEW x \in ToSet(a), NEW y \in ToSet(b) PROVE Comes(x, y)
      OBVIOUS
    <2>1. x.do = "remove"
      BY <1>1 DEF RemoveOf
    <2> QED
      BY <2>1, PlainComes DEF Plain
  <1>4. Ordered(a \o b) /\ ToSet(a \o b) = ToSet(a) \cup ToSet(b)
    BY <1>1, <1>2, <1>3, OrderedConcat
  <1>5. UndoOf(e) = a \o b
    BY DEF UndoOf, a, b
  <1> QED
    BY <1>1, <1>2, <1>4, <1>5

\* The partitions that restore removes as new ones.
NewOnes(j) == UNION {Paths(d) \ j.before[d] : d \in DOMAIN j.before}

LEMMA NewOnesAre ==
  ASSUME DiskInv, NEW j, JournalInv(j)
  PROVE  /\ IsFiniteSet(NewOnes(j)) /\ \A p \in NewOnes(j) : p \in DOMAIN disk /\ Added(j, p)
         /\ \A p \in DOMAIN disk : Added(j, p) => p \in NewOnes(j)
  <1>1. \A p \in DOMAIN disk : p \in Path /\ p = <<p[1], p[2]>>
    BY PathIs DEF DiskInv
  <1>2. ASSUME NEW d \in DOMAIN j.before, NEW p \in Paths(d) \ j.before[d] PROVE p \in DOMAIN disk /\ Added(j, p)
    <2>1. p \in DOMAIN disk /\ p[1] = d /\ p # <<d, Missing>>
      BY <1>2 DEF Paths, Checkpoint
    <2>2. p[2] # Missing
      <3>1. p = <<d, p[2]>>
        BY <1>1, <2>1
      <3> QED
        BY <2>1, <3>1
    <2>3. p \notin DOMAIN j.origin
      BY <1>2, <2>1, <2>2 DEF JournalInv
    <2> QED
      BY <1>2, <2>1, <2>2, <2>3 DEF Added
  <1>3. \A p \in NewOnes(j) : p \in DOMAIN disk /\ Added(j, p)
    BY <1>2 DEF NewOnes
  <1>4. ASSUME NEW p \in DOMAIN disk, Added(j, p) PROVE p \in NewOnes(j)
    <2>1. p \in Paths(p[1]) \ j.before[p[1]]
      BY <1>4 DEF Added, Paths, Checkpoint
    <2> QED
      BY <1>4, <2>1 DEF Added, NewOnes
  <1>5. IsFiniteSet(NewOnes(j))
    <2>1. NewOnes(j) \subseteq Path
      BY <1>1, <1>3
    <2> QED
      BY <2>1, PathIs, FS_Subset DEF DiskInv
  <1> QED
    BY <1>3, <1>4, <1>5

\* The steps that undo a repair, as a set.
Undoes(j, s) ==
  \/ \E p \in NewOnes(j) : s = RemoveOf(p)
  \/ \E k \in DOMAIN j.entries : LET e == j.entries[k] IN
       (e.path \in DOMAIN disk /\ s = RemoveOf(e.path)) \/ (e.found /\ s = PutOf(e))
  \/ s = [do |-> "restored"]

LEMMA RestoreStepsAre ==
  ASSUME DiskInv, NEW j, JournalInv(j)
  PROVE  TodoInv(RestoreSteps(j)) /\ \A s : s \in ToSet(RestoreSteps(j)) <=> Undoes(j, s)
  <1> DEFINE S == NewOnes(j)
             q == SetToSeq(S)
             n == Cardinality(S)
             A == [k \in DOMAIN q |-> RemoveOf(q[k])]
             m == Len(j.entries)
             us == [k \in DOMAIN j.entries |-> UndoOf(j.entries[k])]
             rs == Reverse(us)
             R == FlattenSeq(rs)
             end == [do |-> "restored"]
  <1>1. IsFiniteSet(S)
    BY NewOnesAre
  <1> HIDE DEF S
  <1>2. n \in Nat /\ DOMAIN q = 1 .. n /\ {q[k] : k \in DOMAIN q} = S
    BY <1>1, SetToSeqIs
  <1> HIDE DEF q, n
  <1>3. Ordered(A) /\ ToSet(A) = {RemoveOf(p) : p \in S}
    <2>1. DOMAIN A = 1 .. n /\ A = [k \in 1 .. n |-> A[k]] /\ \A k \in 1 .. n : A[k] = RemoveOf(q[k])
      BY <1>2
    <2>2. \A k \in 1 .. n : A[k].do \in Plain
      BY <2>1 DEF RemoveOf, Plain
    <2> HIDE DEF A
    <2>3. Ordered(A) /\ ToSet(A) = {A[k] : k \in 1 .. n}
      BY <1>2, <2>1, <2>2, OrderedPlain
    <2> QED
      BY <1>2, <2>1, <2>3
  <1>4. m \in Nat /\ DOMAIN j.entries = 1 .. m
    BY DEF JournalInv
  <1>5. /\ DOMAIN rs = 1 .. m /\ rs = [k \in 1 .. m |-> rs[k]]
        /\ \A k \in 1 .. m : (m - k) + 1 \in 1 .. m /\ rs[k] = UndoOf(j.entries[(m - k) + 1])
    <2>1. DOMAIN us = 1 .. m /\ \A k \in 1 .. m : us[k] = UndoOf(j.entries[k])
      BY <1>4
    <2> HIDE DEF us, m
    <2>2. us \in Seq({us[k] : k \in 1 .. m})
      <3>1. us = [k \in 1 .. m |-> us[k]]
        BY <2>1 DEF us, m
      <3>2. us \in [1 .. m -> {us[k] : k \in 1 .. m}]
        BY <3>1
      <3> QED
        BY <1>4, <3>2, FunctionIsSequence
    <2>3. Len(us) = m
      BY <1>4, <2>1, <2>2
    <2>4. rs = [k \in 1 .. m |-> us[(m - k) + 1]]
      BY <2>3 DEF Reverse
    <2>5. \A k \in 1 .. m : (m - k) + 1 \in 1 .. m
      BY <1>4
    <2> HIDE DEF rs
    <2>6. DOMAIN rs = 1 .. m /\ \A k \in 1 .. m : rs[k] = us[(m - k) + 1]
      BY <2>4
    <2>7. rs = [k \in 1 .. m |-> rs[k]]
      BY <2>4, <2>6
    <2> QED
      BY <2>1, <2>5, <2>6, <2>7
  <1> HIDE DEF rs
  <1>6. Ordered(R) /\ ToSet(R) = UNION {ToSet(rs[k]) : k \in 1 .. m}
    <2>1. \A k \in 1 .. m : Ordered(rs[k])
      BY <1>5, UndoIs
    <2>2. ASSUME NEW k \in 1 .. m, NEW l \in 1 .. m, k < l, NEW x \in ToSet(rs[k]), NEW y \in ToSet(rs[l])
          PROVE  Comes(x, y)
      <3> DEFINE a == (m - k) + 1
                 b == (m - l) + 1
      <3>1. a \in DOMAIN j.entries /\ b \in DOMAIN j.entries /\ a # b
        BY <1>4, <2>2
      <3>2. rs[k] = UndoOf(j.entries[a]) /\ rs[l] = UndoOf(j.entries[b])
        BY <1>5
      <3> HIDE DEF a, b
      <3>3. j.entries[a].path # j.entries[b].path
        BY <3>1 DEF JournalInv
      <3>4. x.do \in {"remove", "put"} /\ x.path = j.entries[a].path
        BY <2>2, <3>2, UndoIs DEF RemoveOf, PutOf
      <3>5. y.do \in {"remove", "put"} /\ y.path = j.entries[b].path
        BY <2>2, <3>2, UndoIs DEF RemoveOf, PutOf
      <3> QED
        BY <3>3, <3>4, <3>5 DEF Comes, Finals
    <2> QED
      BY <1>4, <1>5, <2>1, <2>2, OrderedFlatten
  <1>7. \A s : s \in ToSet(R) <=> \E k \in DOMAIN j.entries : s \in ToSet(UndoOf(j.entries[k]))
    <2>1. ASSUME NEW s, NEW k \in 1 .. m, s \in ToSet(rs[k])
          PROVE  \E l \in DOMAIN j.entries : s \in ToSet(UndoOf(j.entries[l]))
      BY <1>4, <1>5, <2>1
    <2>2. ASSUME NEW s, NEW l \in DOMAIN j.entries, s \in ToSet(UndoOf(j.entries[l]))
          PROVE  \E k \in 1 .. m : s \in ToSet(rs[k])
      <3>1. (m - l) + 1 \in 1 .. m /\ (m - ((m - l) + 1)) + 1 = l
        BY <1>4
      <3>2. rs[(m - l) + 1] = UndoOf(j.entries[(m - ((m - l) + 1)) + 1])
        BY <1>5, <3>1
      <3>3. s \in ToSet(rs[(m - l) + 1])
        BY <2>2, <3>1, <3>2
      <3> QED
        BY <3>1, <3>3
    <2> QED
      BY <1>6, <2>1, <2>2
  <1> HIDE DEF R, A
  <1>8. \A x \in ToSet(R) : x.do \in {"remove", "put"}
    BY <1>7, UndoIs DEF RemoveOf, PutOf
  <1>9. \A x \in ToSet(A) : x.do \in Plain
    BY <1>3 DEF RemoveOf, Plain
  <1>10. Ordered(A \o R) /\ ToSet(A \o R) = ToSet(A) \cup ToSet(R)
    BY <1>3, <1>6, <1>9, PlainComes, OrderedConcat
  <1>11. Ordered(<<end>>) /\ ToSet(<<end>>) = {end} /\ end.do = "restored"
    BY OrderedOne
  <1> HIDE DEF end
  <1>12. \A x \in ToSet(A \o R), y \in ToSet(<<end>>) : Comes(x, y)
    BY <1>8, <1>9, <1>10, <1>11, EndComes DEF Plain
  <1>13. /\ Ordered((A \o R) \o <<end>>)
         /\ ToSet((A \o R) \o <<end>>) = ToSet(A \o R) \cup {end}
    BY <1>10, <1>11, <1>12, OrderedConcat
  <1>14. RestoreSteps(j) = A \o R \o <<end>>
    BY DEF RestoreSteps, A, R, rs, end, RemoveOf, UndoOf, PutOf, q, S, NewOnes
  <1>15. \A s : s \in ToSet(RestoreSteps(j)) <=> s \in ToSet(A) \/ s \in ToSet(R) \/ s = end
    BY <1>10, <1>13, <1>14
  <1>16. \A s : s \in ToSet(RestoreSteps(j)) <=> Undoes(j, s)
    BY <1>3, <1>7, <1>15, UndoIs DEF Undoes, S, end
  <1>17. TodoInv(RestoreSteps(j))
    <2>1. Ordered(RestoreSteps(j))
      BY <1>13, <1>14
    <2> QED
      BY <1>11, <1>15, <2>1 DEF TodoInv, Finals
  <1> QED
    BY <1>16, <1>17

\* A repair that begins to be undone will be.
LEMMA RestoreBegins ==
  ASSUME DiskInv, NEW j, JournalInv(j)
  PROVE  /\ TodoInv(RestoreSteps(j)) /\ RestoreInv(j, RestoreSteps(j))
         /\ "restored" \in {s.do : s \in ToSet(RestoreSteps(j))}
  <1> DEFINE todo == RestoreSteps(j)
  <1>1. TodoInv(todo) /\ \A s : s \in ToSet(todo) <=> Undoes(j, s)
    BY RestoreStepsAre
  <1> HIDE DEF todo
  <1>2. "restored" \in {s.do : s \in ToSet(todo)}
    <2>1. Undoes(j, [do |-> "restored"])
      BY DEF Undoes
    <2> QED
      BY <1>1, <2>1
  <1>3. ASSUME NEW k \in DOMAIN j.entries
        PROVE  LET e == j.entries[k] IN /\ e.path \in Path /\ e.path \in Backed(j)
                                        /\ e.found => GoodPartition(e.path, e.content)
                                        /\ e.path \in j.completed \/ Kept(e, j.origin) \/ Added(j, e.path)
    BY DEF JournalInv, Backed, Range
  <1>4. ASSUME NEW path \in Backed(j) PROVE \E k \in DOMAIN j.entries : j.entries[k].path = path
    BY <1>4 DEF Backed, Range
  <1>5. ASSUME NEW s \in ToSet(todo)
        PROVE  \/ s.do = "restored"
               \/ s.do = "remove" /\ s.path \in Path /\ MayChange(j, s.path)
               \/ s.do = "put" /\ s.path \in Path /\ GoodPartition(s.path, s.content)
    <2>1. Undoes(j, s)
      BY <1>1
    <2>2. CASE \E p \in NewOnes(j) : s = RemoveOf(p)
      BY <2>2, NewOnesAre DEF RemoveOf, MayChange, DiskInv
    <2>3. CASE \E k \in DOMAIN j.entries : s = RemoveOf(j.entries[k].path)
      BY <1>3, <2>3 DEF RemoveOf, MayChange
    <2>4. CASE \E k \in DOMAIN j.entries : j.entries[k].found /\ s = PutOf(j.entries[k])
      BY <1>3, <2>4 DEF PutOf
    <2> QED
      BY <2>1, <2>2, <2>3, <2>4 DEF Undoes
  <1>6. ASSUME NEW path \in Path, Restorable(j, path) PROVE Settled(j, path, todo)
    <2>1. \A s : s \in Puts(path, todo) <=> \E k \in DOMAIN j.entries : /\ j.entries[k].path = path
                                                                        /\ j.entries[k].found /\ s = PutOf(j.entries[k])
      <3>1. ASSUME NEW s \in Puts(path, todo)
            PROVE  \E k \in DOMAIN j.entries : j.entries[k].path = path /\ j.entries[k].found /\ s = PutOf(j.entries[k])
        <4>1. Undoes(j, s) /\ s.do = "put" /\ s.path = path
          BY <1>1 DEF Puts
        <4> QED
          BY <4>1 DEF Undoes, RemoveOf, PutOf
      <3>2. ASSUME NEW k \in DOMAIN j.entries, j.entries[k].path = path, j.entries[k].found
            PROVE  PutOf(j.entries[k]) \in Puts(path, todo)
        <4>1. Undoes(j, PutOf(j.entries[k]))
          BY <3>2 DEF Undoes
        <4> QED
          BY <1>1, <3>2, <4>1 DEF Puts, PutOf
      <3> QED
        BY <3>1, <3>2
    <2>2. path \notin j.completed /\ ~Readded(j, path)
      BY <1>6 DEF Restorable
    <2>3. CASE path \in DOMAIN j.origin
      <3>1. path \in Backed(j)
        BY <1>6, <2>3 DEF Restorable, MayChange, Added
      <3>2. PICK k \in DOMAIN j.entries : j.entries[k].path = path
        BY <1>4, <3>1
      <3>3. j.entries[k].found /\ j.entries[k].content = j.origin[path]
        BY <1>3, <2>2, <2>3, <3>2 DEF Kept, Added
      <3>4. \A l \in DOMAIN j.entries : j.entries[l].path = path => l = k
        BY <3>2 DEF JournalInv
      <3>5. \A s \in Puts(path, todo) : s.content = j.origin[path]
        BY <2>1, <3>3, <3>4 DEF PutOf
      <3>6. Puts(path, todo) # {}
        BY <2>1, <3>2, <3>3
      <3> QED
        BY <2>3, <3>5, <3>6 DEF Settled
    <2>4. CASE path \notin DOMAIN j.origin
      <3>1. CASE path \in Backed(j)
        <4>1. ~Added(j, path)
          BY <2>2, <3>1 DEF Added, Readded
        <4>2. \A k \in DOMAIN j.entries : j.entries[k].path = path => ~j.entries[k].found
          BY <1>3, <2>2, <2>4, <4>1 DEF Kept
        <4>3. Puts(path, todo) = {}
          BY <2>1, <4>2
        <4>4. ASSUME path \in DOMAIN disk PROVE Removes(path, todo) # {}
          <5>1. PICK k \in DOMAIN j.entries : j.entries[k].path = path
            BY <1>4, <3>1
          <5>2. Undoes(j, RemoveOf(path))
            BY <4>4, <5>1 DEF Undoes
          <5>3. RemoveOf(path) \in Removes(path, todo)
            BY <1>1, <5>2 DEF Removes, RemoveOf
          <5> QED
            BY <5>3
        <4> QED
          BY <2>4, <4>3, <4>4 DEF Settled
      <3>2. CASE path \notin Backed(j)
        <4>1. Added(j, path)
          BY <1>6, <3>2 DEF Restorable, MayChange
        <4>2. Puts(path, todo) = {}
          BY <1>3, <2>1, <3>2
        <4>3. ASSUME path \in DOMAIN disk PROVE Removes(path, todo) # {}
          <5>1. path \in NewOnes(j)
            BY <4>1, <4>3, NewOnesAre
          <5>2. Undoes(j, RemoveOf(path))
            BY <5>1 DEF Undoes
          <5>3. RemoveOf(path) \in Removes(path, todo)
            BY <1>1, <5>2 DEF Removes, RemoveOf
          <5> QED
            BY <5>3
        <4> QED
          BY <2>4, <4>2, <4>3 DEF Settled
      <3> QED
        BY <3>1, <3>2
    <2> QED
      BY <2>3, <2>4
  <1>7. RestoreInv(j, todo)
    BY <1>5, <1>6 DEF RestoreInv
  <1> QED
    BY <1>1, <1>2, <1>7 DEF todo

-----------------------------------------------------------------------------
(* The journals. *)

\* What is so of a partition and of a journal stays so, and commits are counted on.
Onward == world' = world /\ commits' \in Nat /\ commits \in Nat /\ commits <= commits'

LEMMA PartitionStays ==
  ASSUME Onward
  PROVE  \A path, content : GoodPartition(path, content) => GoodPartition(path, content)'
  <1> SUFFICES ASSUME NEW path, NEW content, GoodPartition(path, content) PROVE GoodPartition(path, content)'
    OBVIOUS
  <1>1. content.commit \in 0 .. commits'
    BY DEF Onward, GoodPartition
  <1> QED
    BY <1>1 DEF GoodPartition

LEMMA JournalStays ==
  ASSUME Onward
  PROVE  \A j : JournalInv(j) => JournalInv(j)'
  <1> SUFFICES ASSUME NEW j, JournalInv(j) PROVE JournalInv(j)'
    OBVIOUS
  <1>1. Path' = Path /\ world' = world
    BY DEF Path, Onward
  <1>2. \A path, content : GoodPartition(path, content) => GoodPartition(path, content)'
    BY PartitionStays
  <1> QED
    BY <1>1, <1>2 DEF JournalInv, Kept, Added, Backed

LEMMA JournalsStay ==
  ASSUME RepairsInv, Onward, repairs' = repairs
  PROVE  RepairsInv'
  BY JournalStays DEF RepairsInv

\* One journal is written.
LEMMA OneJournal ==
  ASSUME RepairsInv, Onward, NEW n \in DOMAIN repairs, NEW jj, JournalInv(jj), repairs' = [repairs EXCEPT ![n] = jj]
  PROVE  RepairsInv' /\ DOMAIN repairs' = DOMAIN repairs /\ repairs'[n] = jj
  <1>1. DOMAIN repairs = 1 .. Len(repairs) /\ Len(repairs) \in Nat
    BY DEF RepairsInv
  <1>2. /\ DOMAIN repairs' = DOMAIN repairs /\ repairs'[n] = jj
        /\ \A k \in DOMAIN repairs : k # n => repairs'[k] = repairs[k]
    OBVIOUS
  <1>3. (\A k \in DOMAIN repairs : JournalInv(repairs[k]))'
    <2>1. \A k \in DOMAIN repairs' : JournalInv(repairs'[k])
      BY <1>2 DEF RepairsInv
    <2>2. \A j : JournalInv(j) => JournalInv(j)'
      BY JournalStays
    <2> QED
      BY <2>1, <2>2
  <1>4. repairs' \in Seq({repairs'[k] : k \in DOMAIN repairs'})
    <2> DEFINE S == {repairs'[k] : k \in DOMAIN repairs'}
    <2>1. repairs' \in [1 .. Len(repairs) -> S]
      BY <1>1, <1>2
    <2> HIDE DEF S
    <2>2. repairs' \in Seq(S)
      BY <1>1, <2>1, FunctionIsSequence
    <2> QED
      BY <2>2 DEF S
  <1> QED
    BY <1>2, <1>3, <1>4 DEF RepairsInv

\* A journal that has more, of the same repair.
Grows(j, jj) ==
  /\ jj.datasets = j.datasets /\ jj.origin = j.origin /\ Backed(j) \subseteq Backed(jj)
  /\ DOMAIN j.before \subseteq DOMAIN jj.before /\ \A d \in DOMAIN j.before : jj.before[d] = j.before[d]

LEMMA GrowsMayChange ==
  ASSUME NEW j, NEW jj, Grows(j, jj), NEW path, MayChange(j, path)
  PROVE  MayChange(jj, path)
  BY DEF Grows, MayChange, Added

\* What a step needs is there as the journal grows, and as steps go before it that are done.
LEMMA GrowsStep ==
  ASSUME NEW j, NEW jj, Grows(j, jj), NEW todo, NEW rest,
         \A t \in ToSet(todo) : t.do = "backup" => t \in ToSet(rest) \/ t.path \in Backed(jj),
         NEW s, RepairStep(s, j, todo)
  PROVE  RepairStep(s, jj, rest)
  <1>1. CASE s.do \in {"raise", "round", "detect", "last", "commit"}
    BY <1>1 DEF RepairStep
  <1>2. CASE s.do = "backup" /\ s.path \in Path /\ s.path[1] \in j.datasets
    BY <1>2 DEF RepairStep, Grows
  <1>3. CASE /\ s.do = "patch" /\ (\A i \in s.changes : GoodChange(i)) /\ s.path \in Path /\ s.path[2] # Missing
             /\ s.path \in Backed(j) \/ \E t \in ToSet(todo) : t.do = "backup" /\ t.path = s.path
    <2>1. s.path \in Backed(jj) \/ \E t \in ToSet(rest) : t.do = "backup" /\ t.path = s.path
      BY <1>3 DEF Grows
    <2> QED
      BY <1>3, <2>1 DEF RepairStep
  <1>4. CASE s.do = "refetch" /\ GoodRange(s.range, j.datasets)
    BY <1>4 DEF RepairStep, Grows
  <1>5. CASE s.do = "fetch" /\ GoodRange(s.range, j.datasets) /\ RangeBacked(j, s.range)
    <2>1. RangeBacked(jj, s.range)
      BY <1>5 DEF RangeBacked, Grows
    <2> QED
      BY <1>5, <2>1 DEF RepairStep, Grows
  <1>9. CASE s.do = "request" /\ GoodRange(s.range, j.datasets) /\ RangeBacked(j, s.range) /\ GoodRows(s.range, s.rows)
    <2>1. RangeBacked(jj, s.range)
      BY <1>9 DEF RangeBacked, Grows
    <2> QED
      BY <1>9, <2>1 DEF RepairStep, Grows
  <1>6. CASE /\ s.do = "write" /\ s.path \in Path /\ s.path[2] # Missing
             /\ s.path[1] = "trade_cal" => InPlace(s.rows, s.path[2])
             /\ s.path[1] = "trade_cal" \/ MayChange(j, s.path)
             /\ s.path[1] \in FullSnapshot => s.path[1] \in DOMAIN j.before
    <2>1. s.path[1] = "trade_cal" \/ MayChange(jj, s.path)
      BY <1>6, GrowsMayChange
    <2>2. s.path[1] \in FullSnapshot => s.path[1] \in DOMAIN jj.before
      BY <1>6 DEF Grows
    <2> QED
      BY <1>6, <2>1, <2>2 DEF RepairStep
  <1>7. CASE s.do = "mark" /\ s.path[2] = Missing /\ s.path \in Backed(j)
    BY <1>7 DEF RepairStep, Grows
  <1>8. CASE s.do = "remove" /\ s.path \in Backed(j) /\ s.path[1] \notin FullSnapshot
    BY <1>8 DEF RepairStep, Grows
  <1> QED
    BY <1>1, <1>2, <1>3, <1>4, <1>5, <1>6, <1>7, <1>8, <1>9 DEF RepairStep

LEMMA StepStays ==
  ASSUME world' = world
  PROVE  \A s, j, todo : RepairStep(s, j, todo) => RepairStep(s, j, todo)'
  <1>1. Path' = Path
    BY DEF Path
  <1>2. \A s, j : /\ Backed(j)' = Backed(j) /\ GoodChange(s)' = GoodChange(s) /\ GoodRange(s, j)' = GoodRange(s, j)
    BY DEF Backed, GoodChange, GoodRange
  <1>3. \A s, j : RangeBacked(j, s)' = RangeBacked(j, s) /\ MayChange(j, s)' = MayChange(j, s)
    BY DEF RangeBacked, MayChange, Added, Backed
  <1> QED
    BY <1>1, <1>2, <1>3 DEF RepairStep

\* A change is noted.
LEMMA TouchedGood ==
  ASSUME NEW j, JournalInv(j), NEW path \in Path, path[1] = "trade_cal" \/ MayChange(j, path)
  PROVE  LET jj == Touched(j, path)
         IN  /\ JournalInv(jj) /\ Grows(j, jj) /\ jj.before = j.before
             /\ jj.touched \cup jj.completed = j.touched \cup j.completed \cup {path}
             /\ j.completed \subseteq jj.completed /\ jj.late = j.late /\ Backed(jj) = Backed(j)
  <1> DEFINE jj == Touched(j, path)
  <1>1. CASE path[1] = "trade_cal" /\ path \notin Backed(j)
    <2>1. jj = [j EXCEPT !.completed = @ \cup {path}]
      BY <1>1 DEF Touched
    <2>2. /\ DOMAIN jj = JournalFields /\ jj.completed = j.completed \cup {path}
          /\ jj.status = j.status /\ jj.datasets = j.datasets /\ jj.output = j.output /\ jj.entries = j.entries
          /\ jj.before = j.before /\ jj.origin = j.origin /\ jj.left = j.left /\ jj.touched = j.touched
          /\ jj.late = j.late
      BY <2>1 DEF JournalInv, JournalFields
    <2> HIDE DEF jj
    <2>3. Backed(jj) = Backed(j)
      BY <2>2 DEF Backed
    <2>4. \A p : Added(j, p) => Added(jj, p)
      BY <2>2 DEF Added
    <2>5. JournalInv(jj)
      BY <2>2, <2>3, <2>4 DEF JournalInv
    <2> QED
      BY <2>2, <2>3, <2>5 DEF Grows, jj
  <1>2. CASE ~(path[1] = "trade_cal" /\ path \notin Backed(j))
    <2>1. jj = [j EXCEPT !.touched = @ \cup {path}]
      BY <1>2 DEF Touched
    <2>2. /\ DOMAIN jj = JournalFields /\ jj.touched = j.touched \cup {path}
          /\ jj.status = j.status /\ jj.datasets = j.datasets /\ jj.output = j.output /\ jj.entries = j.entries
          /\ jj.before = j.before /\ jj.origin = j.origin /\ jj.left = j.left /\ jj.completed = j.completed
          /\ jj.late = j.late
      BY <2>1 DEF JournalInv, JournalFields
    <2> HIDE DEF jj
    <2>3. Backed(jj) = Backed(j)
      BY <2>2 DEF Backed
    <2>4. \A p : Added(j, p) => Added(jj, p)
      BY <2>2 DEF Added
    <2>5. path \in Backed(jj) \/ Added(jj, path)
      BY <1>2, <2>3, <2>4 DEF MayChange
    <2>6. JournalInv(jj)
      BY <2>2, <2>3, <2>4, <2>5 DEF JournalInv
    <2> QED
      BY <2>2, <2>3, <2>6 DEF Grows, jj
  <1> QED
    BY <1>1, <1>2

\* The disk, after one path of it is written or removed.
LEMMA DiskStays ==
  ASSUME DiskInv, Onward, faults' \in 0 .. MaxFaults, disk' = disk
  PROVE  DiskInv'
  <1>1. Path' = Path
    BY DEF Path, Onward
  <1> QED
    BY <1>1, PartitionStays DEF DiskInv, Onward

LEMMA DiskWith ==
  ASSUME DiskInv, Onward, faults' \in 0 .. MaxFaults, NEW path \in Path, NEW content, GoodPartition(path, content)',
         disk' = With(path, content)
  PROVE  /\ DiskInv' /\ DOMAIN disk' = DOMAIN disk \cup {path} /\ disk'[path] = content
         /\ \A p \in DOMAIN disk : p # path => disk'[p] = disk[p]
  <1>1. Path' = Path
    BY DEF Path, Onward
  <1>2. /\ DOMAIN disk' = DOMAIN disk \cup {path} /\ disk'[path] = content
        /\ \A p \in DOMAIN disk : p # path => disk'[p] = disk[p]
    BY DEF With
  <1>3. \A p, c : GoodPartition(p, c) => GoodPartition(p, c)'
    BY PartitionStays
  <1>4. (\A p \in DOMAIN disk : GoodPartition(p, disk[p]))'
    BY <1>2, <1>3 DEF DiskInv
  <1> QED
    BY <1>1, <1>2, <1>4 DEF DiskInv, Onward

LEMMA DiskWithout ==
  ASSUME DiskInv, Onward, faults' \in 0 .. MaxFaults, NEW path, disk' = Without(path)
  PROVE  /\ DiskInv' /\ DOMAIN disk' = DOMAIN disk \ {path}
         /\ \A p \in DOMAIN disk' : disk'[p] = disk[p]
  <1>1. Path' = Path
    BY DEF Path, Onward
  <1>2. DOMAIN disk' = DOMAIN disk \ {path} /\ \A p \in DOMAIN disk' : disk'[p] = disk[p]
    BY DEF Without, Restrict
  <1>3. \A p, c : GoodPartition(p, c) => GoodPartition(p, c)'
    BY PartitionStays
  <1>4. (\A p \in DOMAIN disk : GoodPartition(p, disk[p]))'
    BY <1>2, <1>3 DEF DiskInv
  <1> QED
    BY <1>1, <1>2, <1>4 DEF DiskInv, Onward

\* Before paths are backed up, the partitions of a table may be noted as those it has.
NotedIn(j, jn, paths) ==
  /\ DOMAIN jn = JournalFields /\ jn.status = j.status /\ jn.datasets = j.datasets /\ jn.output = j.output
  /\ jn.entries = j.entries /\ jn.origin = j.origin /\ jn.left = j.left
  /\ jn.touched = j.touched /\ jn.completed = j.completed /\ jn.late = j.late
  /\ DOMAIN j.before \subseteq DOMAIN jn.before /\ DOMAIN jn.before \subseteq FullSnapshot \cap j.datasets
  /\ \A d \in DOMAIN j.before : jn.before[d] = j.before[d]
  /\ \A d \in DOMAIN jn.before : /\ jn.before[d] = {p \in DOMAIN j.origin : p[1] = d /\ p[2] # Missing}
                                 /\ jn.before[d] \subseteq Backed(j) \cup paths

\* What is backed up keeps what was there before the repair.
LEMMA BackedUpGood ==
  ASSUME DiskInv, NEW j, JournalInv(j), Untouched(j), NEW paths, paths \subseteq Path,
         \A p \in paths : p[1] \in j.datasets, NEW jn, NotedIn(j, jn, paths)
  PROVE  LET jj == BackedUp(jn, paths)
         IN  /\ JournalInv(jj) /\ Grows(j, jj) /\ paths \subseteq Backed(jj) /\ jj.before = jn.before
             /\ jj.touched = j.touched /\ jj.completed = j.completed
  <1> DEFINE S == paths \ Backed(jn)
             new == SetToSeq(S)
             n == Cardinality(S)
             E == j.entries
             m == Len(E)
             N == [k \in DOMAIN new |-> Noted(new[k])]
             F == E \o N
             jj == BackedUp(jn, paths)
  <1>1. Backed(jn) = Backed(j)
    BY DEF NotedIn, Backed
  <1>2. /\ n \in Nat /\ DOMAIN new = 1 .. n /\ (\A k \in 1 .. n : new[k] \in S)
        /\ (\A k, l \in 1 .. n : new[k] = new[l] => k = l) /\ \A x \in S : \E k \in 1 .. n : new[k] = x
    <2>1. IsFiniteSet(S)
      <3>1. S \subseteq Path
        OBVIOUS
      <3> HIDE DEF S
      <3> QED
        BY <3>1, PathIs, FS_Subset DEF DiskInv
    <2> HIDE DEF S
    <2> QED
      BY <2>1, SetToSeqIs
  <1>3. /\ DOMAIN jj = JournalFields /\ jj.entries = F /\ jj.status = j.status /\ jj.datasets = j.datasets
        /\ jj.output = j.output /\ jj.before = jn.before /\ jj.origin = j.origin /\ jj.left = j.left
        /\ jj.touched = j.touched /\ jj.completed = j.completed /\ jj.late = j.late
    BY DEF BackedUp, NotedIn, JournalFields
  <1> HIDE DEF jj, new, n
  <1>4. /\ m \in Nat /\ DOMAIN E = 1 .. m /\ DOMAIN F = 1 .. m + n /\ F \in Seq({F[k] : k \in DOMAIN F})
        /\ \A k \in 1 .. m : F[k] = E[k]
        /\ \A k \in 1 .. n : m + k \in 1 .. m + n /\ F[m + k] = Noted(new[k])
        /\ \A k \in 1 .. m + n : k \in 1 .. m \/ k - m \in 1 .. n
    <2> DEFINE U == {E[k] : k \in DOMAIN E} \cup {N[k] : k \in DOMAIN N}
    <2>1. E \in Seq(U) /\ m \in Nat /\ DOMAIN E = 1 .. m
      <3>1. E \in Seq({E[k] : k \in DOMAIN E})
        BY DEF JournalInv
      <3>2. \A k \in DOMAIN E : E[k] \in U
        OBVIOUS
      <3> HIDE DEF U
      <3> QED
        BY <3>1, <3>2, SequenceInto
    <2>2. N \in Seq(U) /\ Len(N) = n /\ DOMAIN N = 1 .. n /\ \A k \in 1 .. n : N[k] = Noted(new[k])
      <3>1. DOMAIN N = 1 .. n /\ \A k \in 1 .. n : N[k] = Noted(new[k])
        BY <1>2
      <3>2. N \in [1 .. n -> U]
        <4>1. N = [k \in 1 .. n |-> N[k]]
          BY <1>2
        <4>2. \A k \in 1 .. n : N[k] \in U
          BY <3>1
        <4> HIDE DEF U, N
        <4> QED
          BY <4>1, <4>2
      <3> HIDE DEF U, N
      <3> QED
        BY <1>2, <3>1, <3>2, FunctionIsSequence
    <2> HIDE DEF U, N
    <2>3. /\ F \in Seq(U) /\ DOMAIN F = 1 .. m + n /\ \A k \in 1 .. m : F[k] = E[k]
          /\ \A k \in 1 .. n : F[m + k] = N[k]
      BY <1>2, <2>1, <2>2
    <2> HIDE DEF F, m
    <2>4. F \in Seq({F[k] : k \in DOMAIN F})
      <3>1. \A k \in DOMAIN F : F[k] \in {F[l] : l \in DOMAIN F}
        OBVIOUS
      <3> QED
        BY <2>3, <3>1, SequenceInto
    <2>5. /\ \A k \in 1 .. n : m + k \in 1 .. m + n
          /\ \A k \in 1 .. m + n : k \in 1 .. m \/ k - m \in 1 .. n
      BY <1>2, <2>1
    <2> QED
      BY <2>1, <2>2, <2>3, <2>4, <2>5
  <1> HIDE DEF F, m, E
  <1>5. \A k \in DOMAIN F : \/ k \in DOMAIN E /\ F[k] = E[k]
                            \/ \E l \in 1 .. n : k = m + l /\ F[k] = Noted(new[l])
    <2> TAKE k \in DOMAIN F
    <2>1. CASE k - m \in 1 .. n
      <3>1. F[m + (k - m)] = Noted(new[k - m]) /\ k = m + (k - m)
        BY <1>4, <2>1
      <3> QED
        BY <2>1, <3>1
    <2> QED
      BY <1>4, <2>1
  <1>6. Backed(jj) = Backed(j) \cup paths
    <2>1. ASSUME NEW k \in DOMAIN F PROVE F[k].path \in Backed(j) \cup paths
      BY <1>2, <1>5 DEF Noted, Backed, Range, E
    <2>2. ASSUME NEW k \in DOMAIN E PROVE \E l \in DOMAIN F : F[l].path = E[k].path
      <3>1. k \in DOMAIN F /\ F[k] = E[k]
        BY <1>2, <1>4
      <3> QED
        BY <3>1
    <2>3. ASSUME NEW p \in S PROVE \E l \in DOMAIN F : F[l].path = p
      <3>1. PICK k \in 1 .. n : new[k] = p
        BY <1>2
      <3>2. m + k \in DOMAIN F /\ F[m + k] = Noted(p)
        BY <1>4, <3>1
      <3> QED
        BY <3>2 DEF Noted
    <2>4. Backed(jj) = {F[k].path : k \in DOMAIN F}
      BY <1>3 DEF Backed, Range
    <2>5. Backed(j) = {E[k].path : k \in DOMAIN E}
      BY DEF Backed, Range, E
    <2>6. \A p \in paths : p \in Backed(j) \/ p \in S
      BY <1>1
    <2> HIDE DEF S
    <2> QED
      BY <2>1, <2>2, <2>3, <2>4, <2>5, <2>6
  <1>7. Grows(j, jj)
    BY <1>3, <1>6 DEF Grows, NotedIn
  <1>8. \A p : Added(j, p) => Added(jj, p)
    BY <1>3, <1>7 DEF Grows, Added
  <1>9. ASSUME NEW p \in S
        PROVE  LET e == Noted(p) IN /\ e.path = p /\ p \in Path /\ p[1] \in j.datasets /\ (e.found => GoodPartition(p, e.content))
                                    /\ p \in j.completed \/ Kept(e, j.origin) \/ Added(j, p)
    <2>1. p \in Path /\ p \notin Backed(j) /\ p[1] \in j.datasets
      BY <1>1
    <2>2. Noted(p).path = p /\ Noted(p).found = (p \in DOMAIN disk) /\ (p \in DOMAIN disk => Noted(p).content = disk[p])
      BY DEF Noted
    <2>3. p \in DOMAIN disk => GoodPartition(p, disk[p])
      BY DEF DiskInv
    <2>4. p \in j.touched \cup j.completed \/ Same(disk, j.origin, p)
      BY <2>1 DEF Untouched
    <2>5. p \in j.touched \ j.completed => Added(j, p)
      BY <2>1 DEF JournalInv
    <2>6. Same(disk, j.origin, p) => Kept(Noted(p), j.origin)
      <3>1. Same(disk, j.origin, p) => (p \in DOMAIN disk) = (p \in DOMAIN j.origin)
        BY DEF Same
      <3>2. Same(disk, j.origin, p) => (p \in DOMAIN disk => Noted(p).content = j.origin[p])
        BY <2>2 DEF Same
      <3> QED
        BY <2>2, <3>1, <3>2, Zenon DEF Kept
    <2> QED
      BY <2>1, <2>2, <2>3, <2>4, <2>5, <2>6
  <1>10. \A k \in DOMAIN F : LET e == F[k] IN
           /\ e.path \in Path /\ e.path[1] \in j.datasets /\ (e.found => GoodPartition(e.path, e.content))
           /\ e.path \in j.completed \/ Kept(e, j.origin) \/ Added(jj, e.path)
    <2> SUFFICES ASSUME NEW k \in DOMAIN F
                 PROVE  LET e == F[k] IN
                          /\ e.path \in Path /\ e.path[1] \in j.datasets /\ (e.found => GoodPartition(e.path, e.content))
                          /\ e.path \in j.completed \/ Kept(e, j.origin) \/ Added(jj, e.path)
      OBVIOUS
    <2>1. CASE k \in DOMAIN E /\ F[k] = E[k]
      BY <1>8, <2>1 DEF JournalInv, E
    <2>2. CASE \E l \in 1 .. n : F[k] = Noted(new[l])
      <3>1. PICK l \in 1 .. n : F[k] = Noted(new[l])
        BY <2>2
      <3>2. new[l] \in S
        BY <1>2
      <3> HIDE DEF S
      <3> QED
        BY <1>8, <1>9, <3>1, <3>2
    <2> QED
      BY <1>5, <2>1, <2>2
  <1>11. \A k, l \in DOMAIN F : F[k].path = F[l].path => k = l
    <2>1. \A k, l \in DOMAIN E : E[k].path = E[l].path => k = l
      BY DEF JournalInv, E
    <2>2. \A k \in DOMAIN E : E[k].path \in Backed(j)
      BY DEF Backed, Range, E
    <2>3. \A k \in 1 .. n : Noted(new[k]).path = new[k] /\ new[k] \notin Backed(j)
      BY <1>1, <1>2 DEF Noted
    <2> SUFFICES ASSUME NEW k \in DOMAIN F, NEW l \in DOMAIN F, F[k].path = F[l].path PROVE k = l
      OBVIOUS
    <2>4. CASE k \in DOMAIN E /\ F[k] = E[k]
      BY <1>5, <2>1, <2>2, <2>3, <2>4
    <2>5. CASE \E x \in 1 .. n : k = m + x /\ F[k] = Noted(new[x])
      <3>1. PICK x \in 1 .. n : k = m + x /\ F[k] = Noted(new[x])
        BY <2>5
      <3>2. ~(l \in DOMAIN E /\ F[l] = E[l])
        BY <2>2, <2>3, <3>1
      <3>3. PICK y \in 1 .. n : l = m + y /\ F[l] = Noted(new[y])
        BY <1>5, <3>2
      <3>4. new[x] = new[y]
        BY <2>3, <3>1, <3>3
      <3> QED
        BY <1>2, <3>1, <3>3, <3>4
    <2> QED
      BY <1>5, <2>4, <2>5
  <1>12. JournalInv(jj)
    <2>1. \A path \in jj.touched \ jj.completed : path \in Backed(jj) \/ Added(jj, path)
      BY <1>3, <1>6, <1>8 DEF JournalInv
    <2>2. \A d \in DOMAIN jj.before : /\ jj.before[d] = {p \in DOMAIN jj.origin : p[1] = d /\ p[2] # Missing}
                                      /\ jj.before[d] \subseteq Backed(jj)
      BY <1>3, <1>6 DEF NotedIn
    <2>3. DOMAIN jj.before \subseteq FullSnapshot \cap jj.datasets
      BY <1>3 DEF NotedIn
    <2>4. jj.entries \in Seq({jj.entries[k] : k \in DOMAIN jj.entries})
      BY <1>3, <1>4
    <2> QED
      BY <1>3, <1>10, <1>11, <2>1, <2>2, <2>3, <2>4 DEF JournalInv
  <1> QED
    BY <1>3, <1>6, <1>7, <1>12 DEF jj

-----------------------------------------------------------------------------
(* The steps that a command still has to take. *)

LEMMA TodoHead ==
  ASSUME NEW todo, TodoInv(todo), todo # << >>
  PROVE  /\ ToSet(todo) = {Head(todo)} \cup ToSet(Tail(todo)) /\ Ordered(Tail(todo))
         /\ \A t \in ToSet(Tail(todo)) : Comes(Head(todo), t)
         /\ Head(todo).do \notin Finals => TodoInv(Tail(todo))
         /\ Head(todo).do \in Finals => ToSet(Tail(todo)) = {}
  <1>1. /\ Ordered(Tail(todo)) /\ ToSet(todo) = {Head(todo)} \cup ToSet(Tail(todo))
        /\ \A t \in ToSet(Tail(todo)) : Comes(Head(todo), t)
    BY OrderedTail DEF TodoInv
  <1>2. Head(todo).do \notin Finals => TodoInv(Tail(todo))
    BY <1>1 DEF TodoInv
  <1>3. Head(todo).do \in Finals => ToSet(Tail(todo)) = {}
    BY <1>1 DEF Comes
  <1> QED
    BY <1>1, <1>2, <1>3

LEMMA TodoNotEmpty == ASSUME NEW todo, TodoInv(todo) PROVE todo # << >>
  BY OrderedNone DEF TodoInv

\* A command that has steps to take.
LEMMA Working ==
  ASSUME ToolInv, tool.todo # << >>
  PROVE  /\ tool # Idle /\ {"id", "todo"} \subseteq DOMAIN tool /\ tool.id \in DOMAIN repairs /\ TodoInv(tool.todo)
         /\ Repairing => {"scope", "issues", "decided", "rounds", "detected"} \subseteq DOMAIN tool /\ RepairInv(Mine)
         /\ ~Repairing => RestoreInv(Mine, tool.todo)
         /\ Step \in ToSet(tool.todo) /\ (Repairing => RepairStep(Step, Mine, tool.todo))
         /\ RepairsInv => JournalInv(Mine)
  <1>1. tool # Idle
    BY DEF Idle
  <1>2. TodoInv(tool.todo) /\ tool.id \in DOMAIN repairs
    BY <1>1 DEF ToolInv
  <1>3. Step \in ToSet(tool.todo)
    BY <1>2, TodoHead DEF Step
  <1>4. RepairsInv => JournalInv(Mine)
    BY <1>2 DEF RepairsInv, Mine
  <1>5. Repairing => RepairInv(Mine)
    BY <1>1 DEF ToolInv
  <1> QED
    BY <1>1, <1>2, <1>3, <1>4, <1>5 DEF ToolInv, RepairInv

\* A repair goes on with the rest of its steps.
LEMMA Continues ==
  ASSUME ToolInv, tool.todo # << >>, Repairing, world' = world, NEW rest, TodoInv(rest), NEW jj, Grows(Mine, jj),
         repairs'[tool.id] = jj, tool.id \in DOMAIN repairs', tool' = [tool EXCEPT !.todo = rest],
         Step.do = "backup" => Step.path \in Backed(jj),
         \A t \in ToSet(Tail(tool.todo)) : t \in ToSet(rest),
         \A s \in ToSet(rest) : s \in ToSet(Tail(tool.todo)) \/ (RepairStep(s, jj, rest) /\ s.do # "restored"),
         Untouched(jj)', Listed(jj)', FreshInv(jj)'
  PROVE  ToolInv'
  <1>1. /\ tool # Idle /\ {"id", "todo"} \subseteq DOMAIN tool /\ TodoInv(tool.todo)
        /\ {"scope", "issues", "decided", "rounds", "detected"} \subseteq DOMAIN tool /\ RepairInv(Mine)
    BY Working
  <1>2. /\ DOMAIN tool' = DOMAIN tool /\ tool'.todo = rest /\ tool'.id = tool.id /\ tool'.scope = tool.scope
        /\ tool'.issues = tool.issues /\ tool'.decided = tool.decided
    BY <1>1
  <1>3. ToSet(tool.todo) = {Step} \cup ToSet(Tail(tool.todo))
    BY <1>1, TodoHead DEF Step
  <1>4. ASSUME NEW s \in ToSet(rest) PROVE RepairStep(s, jj, rest) /\ s.do # "restored"
    <2>1. CASE s \in ToSet(Tail(tool.todo))
      <3>1. s \in ToSet(tool.todo)
        BY <1>3, <2>1
      <3>2. RepairStep(s, Mine, tool.todo) /\ s.do # "restored"
        BY <1>1, <3>1 DEF RepairInv, Repairing
      <3>3. \A t \in ToSet(tool.todo) : t.do = "backup" => t \in ToSet(rest) \/ t.path \in Backed(jj)
        BY <1>3
      <3> QED
        BY <3>2, <3>3, GrowsStep
    <2> QED
      BY <1>4, <2>1
  <1>5. (\A s \in ToSet(tool.todo) : RepairStep(s, jj, tool.todo))'
    <2>1. \A s \in ToSet(rest) : RepairStep(s, jj, rest)
      BY <1>4
    <2>2. \A s, j, todo : RepairStep(s, j, todo) => RepairStep(s, j, todo)'
      BY StepStays
    <2> QED
      BY <1>2, <2>1, <2>2
  <1>6. RepairInv(jj)'
    <2>1. jj.datasets = tool.scope.datasets /\ tool.scope \in Scopes(world)
      BY <1>1 DEF Grows, RepairInv
    <2>2. \A i \in tool.issues \cup tool.decided : GoodIssue(i, jj.datasets)
      BY <1>1 DEF Grows, RepairInv
    <2>3. \A i \in tool.decided : i.rule # "dataset_empty_v1"
      BY <1>1 DEF RepairInv
    <2> QED
      BY <1>2, <1>5, <2>1, <2>2, <2>3 DEF RepairInv
  <1>7. Mine' = jj
    BY <1>2 DEF Mine
  <1>8. Repairing'
    BY <1>2, <1>4 DEF Repairing
  <1>9. tool' # Idle /\ (TodoInv(tool.todo))'
    <2>1. rest # << >>
      BY TodoNotEmpty
    <2> QED
      BY <1>2, <2>1 DEF Idle
  <1> QED
    BY <1>1, <1>2, <1>6, <1>7, <1>8, <1>9 DEF ToolInv

\* The last detection is still to come.
LEMMA StillFresh ==
  ASSUME ToolInv, tool.todo # << >>, Repairing, Step.do \notin {"last", "commit", "round"}, NEW rest,
         tool' = [tool EXCEPT !.todo = rest], \A t \in ToSet(Tail(tool.todo)) : t \in ToSet(rest),
         \A s \in ToSet(rest) : s.do \in {"commit", "round"} => s \in ToSet(Tail(tool.todo)), NEW jj
  PROVE  FreshInv(jj)'
  <1>1. /\ {"id", "todo"} \subseteq DOMAIN tool /\ TodoInv(tool.todo) /\ RepairInv(Mine)
        /\ {"scope", "issues", "decided", "rounds", "detected"} \subseteq DOMAIN tool
    BY Working
  <1>2. tool'.todo = rest /\ tool'.detected = tool.detected
    BY <1>1
  <1>3. ToSet(tool.todo) = {Step} \cup ToSet(Tail(tool.todo))
    BY <1>1, TodoHead DEF Step
  <1>4. FreshInv(Mine)
    BY <1>1 DEF RepairInv
  <1>5. "commit" \in {s.do : s \in ToSet(rest)} => "last" \in {s.do : s \in ToSet(rest)}
    BY <1>3, <1>4 DEF FreshInv
  <1>6. "round" \in {s.do : s \in ToSet(rest)} => ~tool.detected
    BY <1>3, <1>4 DEF FreshInv
  <1> QED
    BY <1>2, <1>5, <1>6 DEF FreshInv

\* A repair changes a path, and notes it.
Differs(path) ==
  /\ \A p : p # path => (p \in DOMAIN disk' <=> p \in DOMAIN disk)
  /\ \A p \in DOMAIN disk : p # path => disk'[p] = disk[p]
Unlistable(j, path) ==
  path[2] = Missing \/ path[1] \notin FullSnapshot \/ path[1] \in DOMAIN j.before \/ (path \in DOMAIN disk /\ path \in DOMAIN disk')

LEMMA Changes ==
  ASSUME world' = world, NEW j, JournalInv(j), Untouched(j), Listed(j), NEW path \in Path,
         path[1] = "trade_cal" \/ MayChange(j, path), Differs(path), Unlistable(j, path)
  PROVE  Untouched(Touched(j, path))' /\ Listed(Touched(j, path))'
  <1> DEFINE jj == Touched(j, path)
  <1>1. /\ jj.origin = j.origin /\ jj.before = j.before
        /\ jj.touched \cup jj.completed = j.touched \cup j.completed \cup {path}
    BY TouchedGood DEF Grows
  <1> HIDE DEF jj
  <1>2. Path' = Path
    BY DEF Path
  <1>3. Untouched(jj)'
    <2> SUFFICES ASSUME NEW p \in Path, p \notin jj.touched \cup jj.completed PROVE Same(disk', jj.origin, p)
      BY <1>2 DEF Untouched
    <2>1. p # path /\ Same(disk, j.origin, p)
      BY <1>1 DEF Untouched
    <2> QED
      BY <1>1, <2>1 DEF Differs, Same
  <1>4. Listed(jj)'
    <2> SUFFICES ASSUME NEW p \in Path, p[1] \in FullSnapshot \ DOMAIN jj.before, p[2] # Missing
                 PROVE p \in DOMAIN disk' <=> p \in DOMAIN jj.origin
      BY <1>2 DEF Listed
    <2>1. p \in DOMAIN disk <=> p \in DOMAIN j.origin
      BY <1>1 DEF Listed
    <2>2. p \in DOMAIN disk' <=> p \in DOMAIN disk
      BY <1>1 DEF Differs, Unlistable
    <2> QED
      BY <1>1, <2>1, <2>2
  <1> QED
    BY <1>3, <1>4 DEF jj

LEMMA ChangeContinues ==
  ASSUME RepairsInv, ToolInv, tool.todo # << >>, Repairing, Onward, NEW path \in Path,
         path[1] = "trade_cal" \/ MayChange(Mine, path), Differs(path), Unlistable(Mine, path),
         Touch(path), Then(<< >>), Step.do \in {"patch", "write", "mark", "remove"}
  PROVE  RepairsInv' /\ ToolInv'
  <1> DEFINE rest == Tail(tool.todo)
  <1>1. PICK j : j = Mine
    OBVIOUS
  <1>2. PICK jj : jj = Touched(j, path)
    OBVIOUS
  <1>3. /\ TodoInv(tool.todo) /\ tool.id \in DOMAIN repairs /\ JournalInv(j) /\ RepairInv(j)
        /\ {"id", "todo"} \subseteq DOMAIN tool
    BY <1>1, Working
  <1>4. path[1] = "trade_cal" \/ MayChange(j, path)
    BY <1>1
  <1>5. JournalInv(jj) /\ Grows(j, jj)
    BY <1>2, <1>3, <1>4, TouchedGood
  <1>6. Untouched(jj)' /\ Listed(jj)'
    <2>1. world' = world /\ Untouched(j) /\ Listed(j) /\ Unlistable(j, path)
      BY <1>1, <1>3 DEF Onward, RepairInv
    <2> QED
      BY <1>2, <1>3, <1>4, <2>1, Changes
  <1>7. RepairsInv' /\ DOMAIN repairs' = DOMAIN repairs /\ repairs'[tool.id] = jj
    <2>1. repairs' = [repairs EXCEPT ![tool.id] = jj]
      BY <1>1, <1>2 DEF Touch, Mine
    <2> QED
      BY <1>3, <1>5, <2>1, OneJournal
  <1>8. tool' = [tool EXCEPT !.todo = rest]
    <2>1. Ordered(rest)
      BY <1>3, TodoHead
    <2>2. << >> \o rest = rest
      <3> HIDE DEF rest
      <3> QED
        BY <2>1 DEF Ordered
    <2> QED
      BY <1>3, <2>2 DEF Then
  <1>9. TodoInv(rest)
    BY <1>3, TodoHead DEF Step, Finals
  <1> HIDE DEF rest
  <1>10. FreshInv(jj)'
    BY <1>8, StillFresh DEF rest
  <1>11. ToolInv'
    <2>1. Grows(Mine, jj) /\ world' = world
      BY <1>1, <1>5 DEF Onward
    <2> QED
      BY <1>3, <1>6, <1>7, <1>8, <1>9, <1>10, <2>1, Continues DEF rest
  <1> QED
    BY <1>7, <1>11

\* A repair is undone from now on.
LEMMA Restores ==
  ASSUME NEW j, NEW todo, TodoInv(todo), "restored" \in {s.do : s \in ToSet(todo)}, RestoreInv(j, todo)',
         {"id", "todo"} \subseteq DOMAIN tool', tool'.todo = todo, tool'.id \in DOMAIN repairs', repairs'[tool'.id] = j
  PROVE  ToolInv'
  BY DEF ToolInv, Repairing, Mine

LEMMA RestoreStays ==
  ASSUME world' = world, disk' = disk, commits' = commits
  PROVE  \A j, todo : RestoreInv(j, todo) => RestoreInv(j, todo)'
  <1>1. Path' = Path
    BY DEF Path
  <1> QED
    BY <1>1 DEF RestoreInv, GoodPartition, MayChange, Added, Backed, Restorable, Readded, Settled, Puts, Removes

LEMMA UndoneRestores ==
  ASSUME DiskInv, RepairsInv, ToolInv, tool.todo # << >>, NEW kept, Undone(kept), world' = world, disk' = disk, commits' = commits,
         repairs' = repairs
  PROVE  ToolInv'
  <1>1. PICK j : j = Mine
    OBVIOUS
  <1>2. PICK todo : todo = RestoreSteps(j)
    OBVIOUS
  <1>3. tool.id \in DOMAIN repairs /\ JournalInv(j) /\ {"id", "todo"} \subseteq DOMAIN tool
    BY <1>1, Working
  <1>4. TodoInv(todo) /\ RestoreInv(j, todo) /\ "restored" \in {s.do : s \in ToSet(todo)}
    BY <1>2, <1>3, RestoreBegins
  <1>5. RestoreInv(j, todo)'
    BY <1>4, RestoreStays
  <1>6. tool' = [tool EXCEPT !.todo = todo]
    BY <1>1, <1>2 DEF Undone
  <1>7. DOMAIN tool' = DOMAIN tool /\ tool'.todo = todo /\ tool'.id = tool.id
    BY <1>3, <1>6
  <1>8. repairs'[tool'.id] = j
    BY <1>1, <1>7 DEF Mine
  <1> HIDE DEF TodoInv, RestoreInv
  <1> QED
    BY <1>3, <1>4, <1>5, <1>7, <1>8, Restores

\* A detection is recorded.
LEMMA RecordedGood ==
  ASSUME DiskInv, ReportInv, world' = world, NEW scope \in Scopes(world), NEW issues, issues = Detected(Lake, scope),
         Recorded(scope, issues)
  PROVE  /\ ReportInv' /\ report'.fingerprint = Fingerprint(Lake, scope.datasets)
         /\ \A i \in issues : GoodIssue(i, scope.datasets)
  <1>1. \A i \in issues : GoodIssue(i, scope.datasets)
    BY LakeIs, ScopeGood, DetectedGood DEF DiskInv
  <1>2. /\ report'.scope = scope /\ report'.issues = issues
        /\ report'.fingerprint = Fingerprint(Lake, scope.datasets)
    BY DEF Recorded
  <1>3. status'.found => status'.errors \subseteq world.datasets
    <2>1. CASE scope.start = Missing /\ scope.datasets = world.datasets
      <3>1. status'.errors = {d \in world.datasets : Errors(issues, d) # {}}
        BY <2>1 DEF Recorded
      <3> QED
        BY <3>1
    <2>2. CASE ~(scope.start = Missing /\ scope.datasets = world.datasets)
      BY <2>2 DEF Recorded, ReportInv
    <2> QED
      BY <2>1, <2>2
  <1> QED
    BY <1>1, <1>2, <1>3 DEF ReportInv

LEMMA ReportStays ==
  ASSUME ReportInv, world' = world, report' = report, status' = status
  PROVE  ReportInv'
  BY DEF ReportInv

LEMMA Unchanged ==
  ASSUME DiskInv, world' = world, commits' = commits \/ commits' = commits + 1
  PROVE  Onward
  BY DEF Onward, DiskInv

-----------------------------------------------------------------------------
(* One step of each command keeps the invariant. *)

LEMMA InitGood == Init => IInv
  <1> SUFFICES ASSUME Init PROVE IInv
    OBVIOUS
  <1>1. DiskInv
    <2>1. world \in Worlds /\ commits = 0 /\ faults \in 0 .. MaxFaults
      BY BoundsAssumption DEF Init
    <2>2. DOMAIN disk = DOMAIN world.lake \cup {Checkpoint(d) : d \in world.datasets}
      BY DEF Init
    <2>3. ASSUME NEW p \in DOMAIN disk PROVE p \in Path /\ GoodPartition(p, disk[p])
      <3>1. CASE p[2] = Missing
        <4>1. p \in Path
          <5>1. CASE p \in DOMAIN world.lake
            <6>1. p \in world.datasets \X (0 .. LastDay)
              BY <2>1, <5>1, WorldsAssumption
            <6> QED
              BY <6>1 DEF Path
          <5>2. CASE p \in {Checkpoint(d) : d \in world.datasets}
            BY <2>1, <5>2, PathIs DEF Checkpoint
          <5> QED
            BY <2>2, <2>3, <5>1, <5>2
        <4>2. disk[p] = Committed(world.marks, 0)
          BY <2>3, <3>1 DEF Init
        <4> QED
          BY <2>1, <3>1, <4>1, <4>2 DEF GoodPartition, Committed
      <3>2. CASE p[2] # Missing
        <4>1. p \in DOMAIN world.lake
          BY <2>2, <2>3, <3>2 DEF Checkpoint
        <4>2. p \in world.datasets \X (0 .. LastDay)
          BY <2>1, <4>1, WorldsAssumption
        <4>3. /\ world.lake[p].flaw \in Flaws \cup {"none"}
              /\ p[1] = "trade_cal" => InPlace(world.lake[p].rows, p[2])
          BY <2>1, <4>1, WorldsAssumption
        <4>4. disk[p] = [flaw |-> world.lake[p].flaw, rows |-> world.lake[p].rows, commit |-> 0]
          BY <2>3, <3>2 DEF Init
        <4>5. p \in Path
          BY <4>2 DEF Path
        <4> QED
          BY <2>1, <4>3, <4>4, <4>5 DEF GoodPartition
      <3> QED
        BY <3>1, <3>2
    <2>4. commits \in Nat /\ DOMAIN disk \subseteq Path /\ \A p \in DOMAIN disk : GoodPartition(p, disk[p])
      BY <2>1, <2>3
    <2> QED
      BY <2>1, <2>4 DEF DiskInv
  <1>2. ReportInv
    BY DEF Init, ReportInv, NoStatus
  <1>3. RepairsInv
    BY DEF Init, RepairsInv
  <1>4. ToolInv
    BY DEF Init, ToolInv, Ready
  <1> QED
    BY <1>1, <1>2, <1>3, <1>4 DEF IInv

LEMMA DetectKeeps == ASSUME IInv, Detect PROVE IInv'
  <1>1. world' = world /\ disk' = disk /\ repairs' = repairs /\ tool' = tool /\ commits' = commits /\ faults' = faults /\ tool = Idle
    BY DEF Detect, Ready, bounds
  <1>2. Onward
    BY <1>1, Unchanged DEF IInv
  <1>3. DiskInv' /\ RepairsInv'
    BY <1>1, <1>2, DiskStays, JournalsStay DEF IInv, DiskInv
  <1>4. ReportInv'
    BY <1>1, RecordedGood DEF IInv, Detect
  <1>5. ToolInv'
    BY <1>1 DEF ToolInv
  <1> QED
    BY <1>3, <1>4, <1>5 DEF IInv

LEMMA IsRepairing ==
  ASSUME ToolInv, tool.todo # << >>, Step.do \notin {"restored", "remove", "put"}
  PROVE  Repairing
  <1>1. ~Repairing => RestoreInv(Mine, tool.todo) /\ Step \in ToSet(tool.todo)
    BY Working
  <1> QED
    BY <1>1 DEF RestoreInv

\* The journal of a repair that changes nothing on the disk.
LEMMA SameDisk ==
  ASSUME world' = world, disk' = disk, NEW j, NEW jj, Untouched(j), Listed(j), jj.touched = j.touched,
         jj.completed = j.completed, jj.origin = j.origin, DOMAIN j.before \subseteq DOMAIN jj.before
  PROVE  Untouched(jj)' /\ Listed(jj)'
  <1>1. Path' = Path
    BY DEF Path
  <1>2. Untouched(jj)'
    BY <1>1 DEF Untouched, Same
  <1>3. Listed(jj)'
    BY <1>1 DEF Listed
  <1> QED
    BY <1>2, <1>3

LEMMA BeginKeeps == ASSUME IInv, Begin PROVE IInv'
  <1>1. /\ world' = world /\ disk' = disk /\ status' = status /\ report' = report /\ commits' = commits /\ faults' = faults
        /\ report # NoReport
    BY DEF Begin, bounds
  <1>2. Onward /\ DiskInv' /\ ReportInv'
    BY <1>1, Unchanged, DiskStays, ReportStays DEF IInv, DiskInv
  <1>3. PICK decided \in {{}} \cup {{i} : i \in {x \in report.issues : x.rule \in world.decidable}} :
          tool' = [id |-> Len(repairs) + 1, scope |-> report.scope, issues |-> report.issues, decided |-> decided,
                   rounds |-> 0, detected |-> FALSE,
                   todo |-> PatchSteps(report.issues, decided) \o <<[do |-> "round"]>>]
    BY DEF Begin
  <1>4. PICK j : j = [status |-> "PREPARED", datasets |-> report.scope.datasets, output |-> << >>,
                      entries |-> << >>, before |-> << >>, origin |-> disk, left |-> << >>, touched |-> {}, completed |-> {}, late |-> {}]
    OBVIOUS
  <1>5. PICK steps : steps = PatchSteps(report.issues, decided)
    OBVIOUS
  <1>6. /\ world \in Worlds /\ report.scope \in Scopes(world) /\ report.scope.datasets \subseteq world.datasets
        /\ \A i \in report.issues : GoodIssue(i, report.scope.datasets)
    BY <1>1, ScopeGood DEF IInv, DiskInv, ReportInv
  <1>7. decided \subseteq report.issues /\ \A i \in decided : i.rule # "dataset_empty_v1"
    <2>1. "dataset_empty_v1" \notin world.decidable
      BY <1>6, WorldsAssumption
    <2> QED
      BY <1>3, <2>1
  <1>8. /\ DOMAIN j = JournalFields /\ j.status = "PREPARED" /\ j.datasets = report.scope.datasets /\ j.entries = << >>
        /\ j.before = << >> /\ j.origin = disk /\ j.touched = {} /\ j.completed = {} /\ j.late = {}
    BY <1>4 DEF JournalFields
  <1>9. JournalInv(j)
    BY <1>6, <1>8 DEF JournalInv, IInv, DiskInv
  <1>10. Ordered(steps) /\ \A s \in ToSet(steps) : RepairStep(s, j, steps) /\ s.do \in {"raise", "backup", "patch"}
    BY <1>5, <1>6, <1>7, <1>8, PatchStepsAre
  <1> DEFINE round == [do |-> "round"]
             rest == steps \o <<round>>
  <1>11. Ordered(rest) /\ ToSet(rest) = ToSet(steps) \cup {round}
    <2>1. Ordered(<<round>>) /\ ToSet(<<round>>) = {round}
      BY OrderedOne
    <2>2. \A x \in ToSet(steps), y \in ToSet(<<round>>) : Comes(x, y)
      BY <1>10, <2>1, EndComes DEF Plain
    <2> QED
      BY <1>10, <2>1, <2>2, OrderedConcat
  <1>12. /\ tool'.todo = rest /\ tool'.scope = report.scope /\ tool'.issues = report.issues /\ tool'.decided = decided
         /\ tool'.id = Len(repairs) + 1 /\ tool'.detected = FALSE
         /\ {"id", "todo", "scope", "issues", "decided", "rounds", "detected"} \subseteq DOMAIN tool'
    BY <1>3, <1>5
  <1> HIDE DEF rest, round
  <1>13. TodoInv(rest)
    <2>1. round \in ToSet(rest) /\ round.do \in Finals
      BY <1>11 DEF round, Finals
    <2> QED
      BY <1>11, <2>1 DEF TodoInv
  <1>14. \A s \in ToSet(rest) : RepairStep(s, j, rest) /\ s.do \in {"raise", "backup", "patch", "round"}
    <2> SUFFICES ASSUME NEW s \in ToSet(rest) PROVE RepairStep(s, j, rest) /\ s.do \in {"raise", "backup", "patch", "round"}
      OBVIOUS
    <2>1. CASE s = round
      BY <2>1 DEF round, RepairStep
    <2>2. CASE s \in ToSet(steps)
      <3>1. Grows(j, j)
        BY DEF Grows
      <3> QED
        BY <1>10, <1>11, <2>2, <3>1, GrowsStep
    <2> QED
      BY <1>11, <2>1, <2>2
  <1>15. RepairsInv' /\ tool'.id \in DOMAIN repairs' /\ repairs'[tool'.id] = j
    <2> DEFINE n == Len(repairs)
    <2>1. n \in Nat /\ DOMAIN repairs = 1 .. n /\ repairs \in Seq({repairs[k] : k \in DOMAIN repairs})
      BY DEF IInv, RepairsInv
    <2>2. repairs' = Append(repairs, j)
      BY <1>4 DEF Begin
    <2>3. /\ DOMAIN repairs' = 1 .. n + 1 /\ repairs'[n + 1] = j /\ \A k \in 1 .. n : repairs'[k] = repairs[k]
      BY <2>1, <2>2
    <2>4. repairs' \in Seq({repairs'[k] : k \in DOMAIN repairs'})
      <3> DEFINE S == {repairs'[k] : k \in DOMAIN repairs'}
      <3>1. repairs' \in Seq({repairs[k] : k \in DOMAIN repairs} \cup {j})
        <4> DEFINE T == {repairs[k] : k \in DOMAIN repairs} \cup {j}
        <4>1. repairs \in Seq(T) /\ j \in T
          <5>1. j \in T /\ \A k \in DOMAIN repairs : repairs[k] \in T
            OBVIOUS
          <5> HIDE DEF T
          <5> QED
            BY <2>1, <5>1, SequenceInto
        <4> HIDE DEF T
        <4>2. Append(repairs, j) \in Seq(T)
          BY <4>1
        <4> QED
          BY <2>2, <4>2 DEF T
      <3>2. \A k \in DOMAIN repairs' : repairs'[k] \in S
        OBVIOUS
      <3> HIDE DEF S
      <3>4. repairs' \in Seq(S)
        BY <3>1, <3>2, SequenceInto
      <3> QED
        BY <3>4 DEF S
    <2>5. (\A k \in DOMAIN repairs : JournalInv(repairs[k]))'
      <3>1. \A k \in DOMAIN repairs' : JournalInv(repairs'[k])
        <4>1. \A k \in 1 .. n + 1 : k = n + 1 \/ k \in 1 .. n
          BY <2>1
        <4> QED
          BY <1>9, <2>1, <2>3, <4>1 DEF IInv, RepairsInv
      <3>2. \A jj : JournalInv(jj) => JournalInv(jj)'
        BY <1>2, JournalStays
      <3> QED
        BY <3>1, <3>2
    <2>6. n + 1 \in 1 .. n + 1
      BY <2>1
    <2> QED
      BY <1>12, <2>3, <2>4, <2>5, <2>6 DEF RepairsInv
  <1>16. RepairInv(j)'
    <2>1. (\A s \in ToSet(tool.todo) : RepairStep(s, j, tool.todo))'
      <3>1. \A s, jj, todo : RepairStep(s, jj, todo) => RepairStep(s, jj, todo)'
        BY <1>1, StepStays
      <3> QED
        BY <1>12, <1>14, <3>1
    <2>2. Untouched(j)'
      BY <1>1, <1>8 DEF Untouched, Same
    <2>3. Listed(j)'
      BY <1>1, <1>8 DEF Listed
    <2>4. FreshInv(j)'
      <3>1. "commit" \notin {s.do : s \in ToSet(rest)}
        BY <1>14
      <3> QED
        BY <1>12, <3>1 DEF FreshInv
    <2> QED
      BY <1>1, <1>6, <1>7, <1>8, <1>12, <2>1, <2>2, <2>3, <2>4 DEF RepairInv
  <1>17. Repairing'
    BY <1>12, <1>14 DEF Repairing
  <1>18. Mine' = j
    BY <1>15 DEF Mine
  <1>19. ToolInv'
    BY <1>12, <1>13, <1>15, <1>16, <1>17, <1>18 DEF ToolInv
  <1> QED
    BY <1>2, <1>15, <1>19 DEF IInv

LEMMA BackupKeeps == ASSUME IInv, Backup PROVE IInv'
  <1>1. /\ world' = world /\ disk' = disk /\ status' = status /\ report' = report /\ commits' = commits /\ faults' = faults
        /\ tool.todo # << >> /\ Step.do = "backup"
    BY DEF Backup, bounds, Doing
  <1>2. Onward /\ DiskInv' /\ ReportInv'
    BY <1>1, Unchanged, DiskStays, ReportStays DEF IInv, DiskInv
  <1>3. PICK j : j = Mine
    OBVIOUS
  <1>4. PICK path : path = Step.path
    OBVIOUS
  <1>5. PICK jj : jj = BackedUp(j, {path})
    OBVIOUS
  <1>6. Repairing
    BY <1>1, IsRepairing DEF IInv
  <1>7. /\ TodoInv(tool.todo) /\ tool.id \in DOMAIN repairs /\ JournalInv(j) /\ RepairInv(j) /\ RepairStep(Step, j, tool.todo)
        /\ {"id", "todo"} \subseteq DOMAIN tool
    BY <1>1, <1>3, <1>6, Working DEF IInv
  <1>8. path \in Path /\ path[1] \in j.datasets
    BY <1>1, <1>4, <1>7 DEF RepairStep
  <1>9. NotedIn(j, j, {path})
    BY <1>7 DEF NotedIn, JournalInv
  <1>10. /\ JournalInv(jj) /\ Grows(j, jj) /\ path \in Backed(jj) /\ jj.before = j.before
         /\ jj.touched = j.touched /\ jj.completed = j.completed
    <2>1. Untouched(j) /\ DiskInv /\ {path} \subseteq Path /\ \A p \in {path} : p[1] \in j.datasets
      BY <1>7, <1>8 DEF RepairInv, IInv
    <2> HIDE DEF DiskInv
    <2>2. LET x == BackedUp(j, {path})
          IN  /\ JournalInv(x) /\ Grows(j, x) /\ {path} \subseteq Backed(x) /\ x.before = j.before
              /\ x.touched = j.touched /\ x.completed = j.completed
      BY <1>7, <1>9, <2>1, BackedUpGood
    <2> QED
      BY <1>5, <2>2
  <1>11. RepairsInv' /\ DOMAIN repairs' = DOMAIN repairs /\ repairs'[tool.id] = jj
    <2>1. repairs' = [repairs EXCEPT ![tool.id] = jj]
      BY <1>3, <1>4, <1>5 DEF Backup, Mine
    <2> QED
      BY <1>2, <1>7, <1>10, <2>1, OneJournal DEF IInv
  <1> DEFINE rest == Tail(tool.todo)
  <1>12. TodoInv(rest)
    BY <1>1, <1>7, TodoHead DEF Step, Finals
  <1>13. tool' = [tool EXCEPT !.todo = rest]
    <2>1. << >> \o rest = rest
      <3> HIDE DEF rest
      <3> QED
        BY <1>12 DEF TodoInv, Ordered
    <2> QED
      BY <1>7, <2>1 DEF Backup, Then
  <1> HIDE DEF rest
  <1>14. FreshInv(jj)'
    BY <1>1, <1>6, <1>13, StillFresh DEF rest, IInv
  <1>15. Untouched(jj)' /\ Listed(jj)'
    BY <1>1, <1>7, <1>10, SameDisk DEF Grows, RepairInv
  <1>16. ToolInv'
    <2>1. Grows(Mine, jj) /\ Step.path \in Backed(jj)
      BY <1>3, <1>4, <1>10
    <2> QED
      BY <1>1, <1>6, <1>7, <1>11, <1>12, <1>13, <1>14, <1>15, <2>1, Continues DEF rest, IInv
  <1> QED
    BY <1>2, <1>11, <1>16 DEF IInv

\* A change of one path, as it is committed.
LEMMA CommitKeeps ==
  ASSUME IInv, tool.todo # << >>, Repairing, NEW path \in Path, path[1] = "trade_cal" \/ MayChange(Mine, path),
         path[1] \in FullSnapshot => path[1] \in DOMAIN Mine.before \/ path \in DOMAIN disk,
         NEW rows, path[1] = "trade_cal" /\ path[2] # Missing => InPlace(rows, path[2]),
         Commit(path, rows), Then(<< >>), Step.do \in {"patch", "write"},
         world' = world, status' = status, report' = report, faults' = faults
  PROVE  IInv'
  <1>1. disk' = With(path, Committed(rows, commits + 1)) /\ commits' = commits + 1 /\ Touch(path)
    BY DEF Commit
  <1>2. Onward /\ ReportInv'
    BY <1>1, Unchanged, ReportStays DEF IInv
  <1>3. PICK content : content = Committed(rows, commits + 1)
    OBVIOUS
  <1>4. GoodPartition(path, content)'
    <2>1. content.flaw = "none" /\ content.rows = rows /\ content.commit = commits + 1
      BY <1>3 DEF Committed
    <2>2. content.commit \in 0 .. commits'
      BY <1>1, <2>1 DEF IInv, DiskInv
    <2> QED
      BY <2>1, <2>2 DEF GoodPartition
  <1>5. /\ DiskInv' /\ DOMAIN disk' = DOMAIN disk \cup {path}
        /\ \A p \in DOMAIN disk : p # path => disk'[p] = disk[p]
    <2>1. faults' \in 0 .. MaxFaults
      BY DEF IInv, DiskInv
    <2> QED
      BY <1>1, <1>2, <1>3, <1>4, <2>1, DiskWith DEF IInv
  <1>6. Differs(path) /\ Unlistable(Mine, path)
    BY <1>5 DEF Differs, Unlistable
  <1>7. RepairsInv' /\ ToolInv'
    BY <1>1, <1>2, <1>6, ChangeContinues DEF IInv
  <1> QED
    BY <1>2, <1>5, <1>7 DEF IInv

\* A patch leaves the rows of the calendar in their partition.
LEMMA PatchedStay ==
  ASSUME world \in Worlds, NEW rows, NEW day, InPlace(rows, day), NEW changes, \A i \in changes : GoodChange(i)
  PROVE  InPlace(Patched(rows, changes), day)
  <1> DEFINE New(i) == IF i.fix = "AUTO_FIX" THEN i.suggested.values ELSE world.values
             Of(r, f) == {i \in changes : r \in Matching(rows, i) /\ f \in DOMAIN New(i)}
             Changed(r) == [f \in DOMAIN r |-> IF Of(r, f) = {} THEN r[f] ELSE New(CHOOSE i \in Of(r, f) : TRUE)[f]]
  <1>1. "date" \notin DOMAIN world.values
    BY WorldsAssumption
  <1>2. Patched(rows, changes) = {Changed(r) : r \in rows \ Deleted(rows, changes)}
    BY DEF Patched
  <1>3. ASSUME NEW r \in rows \ Deleted(rows, changes) PROVE Of(r, "date") = {}
    <2> SUFFICES ASSUME NEW i \in changes, r \in Matching(rows, i), "date" \in DOMAIN New(i) PROVE FALSE
      OBVIOUS
    <2>1. i.suggested # Delete
      BY <1>3 DEF Deleted
    <2> QED
      BY <1>1, <2>1 DEF GoodChange
  <1> HIDE DEF Of, New
  <1>4. \A r \in rows \ Deleted(rows, changes) : "date" \in DOMAIN Changed(r) /\ Changed(r).date = day
    BY <1>3 DEF InPlace
  <1> HIDE DEF Changed
  <1> QED
    BY <1>2, <1>4 DEF InPlace

LEMMA PatchKeeps == ASSUME IInv, Patch PROVE IInv'
  <1>1. /\ world' = world /\ status' = status /\ report' = report /\ faults' = faults
        /\ tool.todo # << >> /\ Step.do = "patch"
    BY DEF Patch, Doing
  <1>2. Repairing
    BY <1>1, IsRepairing DEF IInv
  <1>3. PICK j : j = Mine
    OBVIOUS
  <1>4. /\ TodoInv(tool.todo) /\ tool.id \in DOMAIN repairs /\ JournalInv(j) /\ RepairInv(j) /\ RepairStep(Step, j, tool.todo)
        /\ {"id", "todo"} \subseteq DOMAIN tool
    BY <1>1, <1>2, <1>3, Working DEF IInv
  <1>5. CASE Undone({}) /\ UNCHANGED <<disk, repairs, commits>>
    <2>1. Onward /\ DiskInv' /\ ReportInv' /\ RepairsInv'
      BY <1>1, <1>5, Unchanged, DiskStays, ReportStays, JournalsStay DEF IInv, DiskInv
    <2>2. ToolInv'
      BY <1>1, <1>5, UndoneRestores DEF IInv
    <2> QED
      BY <2>1, <2>2 DEF IInv
  <1>6. CASE /\ Step.path \in DOMAIN disk
             /\ Commit(Step.path, Patched(Content(Step.path), Step.changes)) /\ Then(<< >>)
    <2> DEFINE path == Step.path
               rows == Patched(Content(path), Step.changes)
    <2>1. /\ (\A i \in Step.changes : GoodChange(i)) /\ path \in Path /\ path[2] # Missing
          /\ path \in Backed(j) \/ \E t \in ToSet(tool.todo) : t.do = "backup" /\ t.path = path
      BY <1>1, <1>4 DEF RepairStep
    <2>2. path \in Backed(j)
      <3>1. ASSUME NEW t \in ToSet(tool.todo), t.do = "backup", t.path = path PROVE FALSE
        <4>1. t \in ToSet(Tail(tool.todo))
          <5>1. t # Step
            BY <1>1, <3>1
          <5> QED
            BY <1>1, <1>4, <3>1, <5>1, TodoHead DEF Step
        <4>2. Comes(Step, t)
          BY <1>1, <1>4, <4>1, TodoHead DEF Step
        <4> QED
          BY <1>1, <3>1, <4>2 DEF Comes
      <3> QED
        BY <2>1, <3>1
    <2>3. path[1] = "trade_cal" => InPlace(rows, path[2])
      <3>1. ASSUME path[1] = "trade_cal" PROVE InPlace(Content(path), path[2])
        BY <1>6, <2>1, <3>1 DEF IInv, DiskInv, GoodPartition, Content
      <3> QED
        BY <2>1, <3>1, PatchedStay DEF IInv, DiskInv
    <2>4. MayChange(Mine, path)
      BY <1>3, <2>2 DEF MayChange
    <2> HIDE DEF rows
    <2>5. Commit(path, rows)
      BY <1>6 DEF rows
    <2> QED
      BY <1>1, <1>2, <1>6, <2>1, <2>3, <2>4, <2>5, CommitKeeps
  <1> QED
    BY <1>5, <1>6 DEF Patch

LEMMA WriteKeeps == ASSUME IInv, Write PROVE IInv'
  <1>1. /\ world' = world /\ status' = status /\ report' = report /\ faults' = faults
        /\ tool.todo # << >> /\ Step.do = "write"
    BY DEF Write, Doing
  <1>2. Repairing
    BY <1>1, IsRepairing DEF IInv
  <1>3. RepairStep(Step, Mine, tool.todo)
    BY <1>1, <1>2, Working DEF IInv
  <1>4. CASE (\E kept : Undone(kept)) /\ UNCHANGED <<disk, repairs, commits>>
    <2>1. Onward /\ DiskInv' /\ ReportInv' /\ RepairsInv'
      BY <1>1, <1>4, Unchanged, DiskStays, ReportStays, JournalsStay DEF IInv, DiskInv
    <2>2. ToolInv'
      BY <1>1, <1>4, UndoneRestores DEF IInv
    <2> QED
      BY <2>1, <2>2 DEF IInv
  <1>5. CASE Commit(Step.path, Upsert(Step.path[1], Content(Step.path), Step.rows)) /\ Then(<< >>)
    <2> DEFINE path == Step.path
               rows == Upsert(path[1], Content(path), Step.rows)
    <2>1. /\ path \in Path /\ path[2] # Missing /\ (path[1] = "trade_cal" => InPlace(Step.rows, path[2]))
          /\ path[1] = "trade_cal" \/ MayChange(Mine, path)
          /\ path[1] \in FullSnapshot => path[1] \in DOMAIN Mine.before
      BY <1>1, <1>3 DEF RepairStep
    <2>2. path[1] = "trade_cal" => InPlace(rows, path[2])
      <3>1. ASSUME path[1] = "trade_cal" PROVE InPlace(Content(path), path[2])
        BY <2>1, <3>1, ContentInPlace DEF IInv
      <3> QED
        BY <2>1, <3>1, UpsertStays
    <2> HIDE DEF rows
    <2>3. Commit(path, rows)
      BY <1>5 DEF rows
    <2> QED
      BY <1>1, <1>2, <1>5, <2>1, <2>2, <2>3, CommitKeeps
  <1> QED
    BY <1>4, <1>5 DEF Write

LEMMA MarkKeeps == ASSUME IInv, Mark PROVE IInv'
  <1>1. /\ world' = world /\ status' = status /\ report' = report /\ commits' = commits /\ faults' = faults
        /\ tool.todo # << >> /\ Step.do = "mark"
    BY DEF Mark, Doing, bounds
  <1>2. Onward /\ ReportInv'
    BY <1>1, Unchanged, ReportStays DEF IInv
  <1>3. Repairing
    BY <1>1, IsRepairing DEF IInv
  <1>4. PICK path : path = Step.path
    OBVIOUS
  <1>5. path[2] = Missing /\ path \in Backed(Mine) /\ path \in Path
    <2>1. RepairStep(Step, Mine, tool.todo) /\ JournalInv(Mine)
      BY <1>1, <1>3, Working DEF IInv
    <2> QED
      BY <1>1, <1>4, <2>1 DEF RepairStep, JournalInv, Backed, Range
  <1>6. PICK content : content = Committed(Content(path) \cup Step.days, 0)
    OBVIOUS
  <1>7. GoodPartition(path, content)'
    BY <1>1, <1>5, <1>6 DEF GoodPartition, Committed, IInv, DiskInv
  <1>8. /\ DiskInv' /\ DOMAIN disk' = DOMAIN disk \cup {path}
        /\ \A p \in DOMAIN disk : p # path => disk'[p] = disk[p]
    <2>1. faults' \in 0 .. MaxFaults /\ disk' = With(path, content)
      BY <1>1, <1>4, <1>6 DEF IInv, DiskInv, Mark
    <2> QED
      BY <1>2, <1>5, <1>7, <2>1, DiskWith DEF IInv
  <1>9. Differs(path) /\ Unlistable(Mine, path) /\ MayChange(Mine, path)
    BY <1>5, <1>8 DEF Differs, Unlistable, MayChange
  <1>10. RepairsInv' /\ ToolInv'
    <2>1. Touch(path) /\ Then(<< >>)
      BY <1>4 DEF Mark
    <2> QED
      BY <1>1, <1>2, <1>3, <1>5, <1>9, <2>1, ChangeContinues DEF IInv
  <1> QED
    BY <1>2, <1>8, <1>10 DEF IInv

\* What undoes a repair is as far as it is.
LEMMA RestoreGoes ==
  ASSUME Onward, NEW j, NEW jj, Grows(j, jj), jj.before = j.before, jj.completed = j.completed, Backed(jj) = Backed(j),
         NEW todo, TodoInv(todo), todo # << >>, RestoreInv(j, todo), NEW path, Head(todo).path = path, Differs(path),
         \/ Head(todo).do = "remove" /\ path \notin DOMAIN disk'
         \/ Head(todo).do = "put" /\ path \in DOMAIN disk' /\ disk'[path] = Head(todo).content
  PROVE  RestoreInv(jj, Tail(todo))'
  <1> DEFINE rest == Tail(todo)
  <1>1. ToSet(todo) = {Head(todo)} \cup ToSet(rest) /\ \A t \in ToSet(rest) : Comes(Head(todo), t)
    BY TodoHead
  <1>2. Path' = Path /\ \A p, c : GoodPartition(p, c) => GoodPartition(p, c)'
    BY PartitionStays DEF Onward, Path
  <1> HIDE DEF rest
  <1>3. \A p : MayChange(jj, p) <=> MayChange(j, p)
    BY DEF MayChange, Added, Grows
  <1>4. (\A s \in ToSet(rest) :
          \/ s.do = "restored"
          \/ s.do = "remove" /\ s.path \in Path /\ MayChange(jj, s.path)
          \/ s.do = "put" /\ s.path \in Path /\ GoodPartition(s.path, s.content))'
    <2>1. \A s \in ToSet(rest) :
          \/ s.do = "restored"
          \/ s.do = "remove" /\ s.path \in Path /\ MayChange(j, s.path)
          \/ s.do = "put" /\ s.path \in Path /\ GoodPartition(s.path, s.content)
      BY <1>1 DEF RestoreInv
    <2>2. \A p : MayChange(j, p) => MayChange(jj, p)'
      BY <1>3 DEF MayChange, Added, Backed
    <2> QED
      BY <1>2, <2>1, <2>2
  <1>5. ASSUME NEW p \in Path, Restorable(jj, p) PROVE Settled(jj, p, rest)'
    <2>1. Restorable(j, p)
      BY <1>3, <1>5 DEF Restorable, Readded
    <2>2. Settled(j, p, todo)
      BY <2>1 DEF RestoreInv
    <2>3. jj.origin = j.origin
      BY DEF Grows
    <2>4. CASE p # path
      <3>1. Puts(p, rest) = Puts(p, todo) /\ Removes(p, rest) = Removes(p, todo)
        BY <1>1, <2>4 DEF Puts, Removes
      <3>2. /\ p \in DOMAIN disk' <=> p \in DOMAIN disk
            /\ p \in DOMAIN disk => disk'[p] = disk[p]
        BY <2>4 DEF Differs
      <3> QED
        BY <2>2, <2>3, <3>1, <3>2 DEF Settled, Same, Puts, Removes
    <2>5. CASE p = path /\ Head(todo).do = "remove"
      <3>1. Puts(p, rest) = Puts(p, todo) /\ Head(todo) \in Removes(p, todo)
        BY <1>1, <2>5 DEF Puts, Removes
      <3>2. p \notin DOMAIN disk'
        BY <2>5
      <3> QED
        BY <2>2, <2>3, <3>1, <3>2 DEF Settled, Puts
    <2>6. CASE p = path /\ Head(todo).do = "put"
      <3>1. Head(todo) \in Puts(p, todo) /\ Puts(p, rest) \subseteq Puts(p, todo)
        BY <1>1, <2>6 DEF Puts
      <3>2. p \in DOMAIN j.origin /\ \A s \in Puts(p, todo) : s.content = j.origin[p]
        BY <2>2, <3>1 DEF Settled
      <3>3. Removes(p, rest) = {}
        BY <1>1, <2>6 DEF Removes, Comes
      <3>4. p \in DOMAIN disk' /\ disk'[p] = j.origin[p]
        BY <2>6, <3>1, <3>2
      <3> QED
        BY <2>3, <3>1, <3>2, <3>3, <3>4 DEF Settled, Same, Puts, Removes
    <2> QED
      BY <2>4, <2>5, <2>6
  <1>6. (\A p \in Path : Restorable(jj, p) => Settled(jj, p, rest))'
    <2>1. \A p \in Path : Restorable(jj, p) => Settled(jj, p, rest)'
      BY <1>5
    <2> QED
      BY <1>2, <2>1 DEF Restorable, MayChange, Added, Readded, Backed
  <1> QED
    BY <1>4, <1>6 DEF RestoreInv, rest

LEMMA RemoveTreeKeeps == ASSUME IInv, RemoveTree PROVE IInv'
  <1>1. /\ world' = world /\ status' = status /\ report' = report /\ commits' = commits /\ faults' = faults
        /\ tool.todo # << >> /\ Step.do = "remove"
    BY DEF RemoveTree, Doing, bounds
  <1>2. Onward /\ ReportInv'
    BY <1>1, Unchanged, ReportStays DEF IInv
  <1>3. PICK path : path = Step.path
    OBVIOUS
  <1>4. PICK j : j = Mine
    OBVIOUS
  <1>5. /\ TodoInv(tool.todo) /\ tool.id \in DOMAIN repairs /\ JournalInv(j) /\ {"id", "todo"} \subseteq DOMAIN tool
        /\ Step \in ToSet(tool.todo) /\ (Repairing => RepairStep(Step, j, tool.todo))
        /\ ~Repairing => RestoreInv(j, tool.todo)
    BY <1>1, <1>4, Working DEF IInv
  <1>6. MayChange(j, path) /\ path \in Path /\ (Repairing => path[1] \notin FullSnapshot)
    <2>1. CASE Repairing
      BY <1>1, <1>3, <1>5, <2>1 DEF RepairStep, JournalInv, Backed, Range, MayChange
    <2>2. CASE ~Repairing
      BY <1>1, <1>3, <1>5, <2>2 DEF RestoreInv
    <2> QED
      BY <2>1, <2>2
  <1>7. /\ DiskInv' /\ DOMAIN disk' = DOMAIN disk \ {path}
        /\ \A p \in DOMAIN disk' : disk'[p] = disk[p]
    <2>1. faults' \in 0 .. MaxFaults /\ disk' = Without(path)
      BY <1>1, <1>3 DEF IInv, DiskInv, RemoveTree
    <2> QED
      BY <1>2, <2>1, DiskWithout DEF IInv
  <1>8. Differs(path) /\ path \notin DOMAIN disk'
    BY <1>7 DEF Differs
  <1>9. Touch(path) /\ Then(<< >>)
    BY <1>3 DEF RemoveTree
  <1>10. CASE Repairing
    <2>1. Unlistable(Mine, path) /\ MayChange(Mine, path)
      BY <1>4, <1>6, <1>10 DEF Unlistable
    <2> QED
      BY <1>1, <1>2, <1>6, <1>7, <1>8, <1>9, <1>10, <2>1, ChangeContinues DEF IInv
  <1>11. CASE ~Repairing
    <2>1. PICK jj : jj = Touched(j, path)
      OBVIOUS
    <2>2. JournalInv(jj) /\ Grows(j, jj) /\ jj.before = j.before
      BY <1>5, <1>6, <2>1, TouchedGood
    <2>3. jj.completed = j.completed /\ Backed(jj) = Backed(j)
      <3>1. ~(path[1] = "trade_cal" /\ path \notin Backed(j))
        <4>1. "trade_cal" \notin FullSnapshot
          BY DEF FullSnapshot, Announcement
        <4> QED
          BY <1>5, <1>6, <4>1 DEF MayChange, Added, JournalInv
      <3>2. jj = [j EXCEPT !.touched = @ \cup {path}]
        BY <2>1, <3>1 DEF Touched
      <3>3. DOMAIN j = JournalFields
        BY <1>5 DEF JournalInv
      <3>4. jj.completed = j.completed /\ jj.entries = j.entries
        BY <3>2, <3>3 DEF JournalFields
      <3> QED
        BY <3>4 DEF Backed
    <2>4. RepairsInv' /\ DOMAIN repairs' = DOMAIN repairs /\ repairs'[tool.id] = jj
      <3>1. repairs' = [repairs EXCEPT ![tool.id] = jj]
        BY <1>4, <1>9, <2>1 DEF Touch, Mine
      <3> QED
        BY <1>2, <1>5, <2>2, <3>1, OneJournal DEF IInv
    <2>5. PICK todo : todo = tool.todo
      OBVIOUS
    <2>6. RestoreInv(jj, Tail(todo))'
      <3>1. TodoInv(todo) /\ todo # << >> /\ RestoreInv(j, todo) /\ Head(todo).path = path /\ Head(todo).do = "remove"
        BY <1>1, <1>3, <1>5, <1>11, <2>5 DEF Step
      <3> QED
        BY <1>2, <1>8, <2>2, <2>3, <3>1, RestoreGoes
    <2>7. TodoInv(Tail(todo)) /\ "restored" \in {s.do : s \in ToSet(Tail(todo))}
      <3>1. /\ TodoInv(Tail(todo)) /\ ToSet(todo) = {Head(todo)} \cup ToSet(Tail(todo)) /\ Head(todo).do = "remove"
        BY <1>1, <1>5, <2>5, TodoHead DEF Step, Finals
      <3>2. "restored" \in {s.do : s \in ToSet(todo)}
        BY <1>11, <2>5 DEF Repairing
      <3> QED
        BY <3>1, <3>2
    <2>8. tool' = [tool EXCEPT !.todo = Tail(todo)]
      <3>1. << >> \o Tail(todo) = Tail(todo)
        BY <2>7 DEF TodoInv, Ordered
      <3> QED
        BY <1>5, <1>9, <2>5, <3>1 DEF Then
    <2>9. DOMAIN tool' = DOMAIN tool /\ tool'.todo = Tail(todo) /\ tool'.id = tool.id
      BY <1>5, <2>8
    <2>10. ToolInv'
      <3>1. PICK rest : rest = Tail(todo)
        OBVIOUS
      <3>2. TodoInv(rest) /\ "restored" \in {s.do : s \in ToSet(rest)} /\ RestoreInv(jj, rest)'
        BY <2>6, <2>7, <3>1
      <3> QED
        BY <1>5, <2>4, <2>9, <3>1, <3>2, Restores
    <2> QED
      BY <1>2, <1>7, <2>4, <2>10 DEF IInv
  <1> QED
    BY <1>2, <1>7, <1>1, <1>10, <1>11 DEF IInv

LEMMA PutBackKeeps == ASSUME IInv, PutBack PROVE IInv'
  <1>1. /\ world' = world /\ status' = status /\ report' = report /\ commits' = commits /\ faults' = faults
        /\ repairs' = repairs /\ tool.todo # << >> /\ Step.do = "put"
    BY DEF PutBack, Doing, bounds
  <1>2. Onward /\ ReportInv' /\ RepairsInv'
    BY <1>1, Unchanged, ReportStays, JournalsStay DEF IInv
  <1>3. PICK path, content : path = Step.path /\ content = Step.content
    OBVIOUS
  <1>4. PICK j : j = Mine
    OBVIOUS
  <1>5. /\ TodoInv(tool.todo) /\ tool.id \in DOMAIN repairs /\ JournalInv(j) /\ {"id", "todo"} \subseteq DOMAIN tool
        /\ Step \in ToSet(tool.todo) /\ (Repairing => RepairStep(Step, j, tool.todo))
        /\ ~Repairing => RestoreInv(j, tool.todo)
    BY <1>1, <1>4, Working DEF IInv
  <1>6. ~Repairing
    BY <1>1, <1>5 DEF RepairStep
  <1>7. path \in Path /\ GoodPartition(path, content)
    BY <1>1, <1>3, <1>5, <1>6 DEF RestoreInv
  <1>8. /\ DiskInv' /\ DOMAIN disk' = DOMAIN disk \cup {path} /\ disk'[path] = content
        /\ \A p \in DOMAIN disk : p # path => disk'[p] = disk[p]
    <2>1. faults' \in 0 .. MaxFaults /\ disk' = With(path, content)
      BY <1>1, <1>3 DEF IInv, DiskInv, PutBack
    <2>2. GoodPartition(path, content)'
      BY <1>2, <1>7, PartitionStays
    <2> QED
      BY <1>2, <1>7, <2>1, <2>2, DiskWith DEF IInv
  <1>9. Differs(path)
    BY <1>8 DEF Differs
  <1>10. PICK todo : todo = tool.todo
    OBVIOUS
  <1>11. RestoreInv(j, Tail(todo))'
    <2>1. TodoInv(todo) /\ todo # << >> /\ RestoreInv(j, todo) /\ Head(todo).path = path /\ Head(todo).do = "put" /\ Head(todo).content = content
      BY <1>1, <1>3, <1>5, <1>6, <1>10 DEF Step
    <2>2. Grows(j, j)
      BY DEF Grows
    <2> QED
      BY <1>2, <1>8, <1>9, <2>1, <2>2, RestoreGoes
  <1>12. TodoInv(Tail(todo)) /\ "restored" \in {s.do : s \in ToSet(Tail(todo))}
    <2>1. TodoInv(Tail(todo)) /\ ToSet(todo) = {Head(todo)} \cup ToSet(Tail(todo)) /\ Head(todo).do = "put"
      BY <1>1, <1>5, <1>10, TodoHead DEF Step, Finals
    <2>2. "restored" \in {s.do : s \in ToSet(todo)}
      BY <1>6, <1>10 DEF Repairing
    <2> QED
      BY <2>1, <2>2
  <1>13. tool' = [tool EXCEPT !.todo = Tail(todo)]
    <2>1. << >> \o Tail(todo) = Tail(todo)
      BY <1>12 DEF TodoInv, Ordered
    <2> QED
      BY <1>5, <1>10, <2>1 DEF Then, PutBack
  <1>14. DOMAIN tool' = DOMAIN tool /\ tool'.todo = Tail(todo) /\ tool'.id = tool.id
    BY <1>5, <1>13
  <1>15. ToolInv'
    <2>1. PICK rest : rest = Tail(todo)
      OBVIOUS
    <2>2. TodoInv(rest) /\ "restored" \in {s.do : s \in ToSet(rest)} /\ RestoreInv(j, rest)'
      BY <1>11, <1>12, <2>1
    <2>3. repairs'[tool'.id] = j
      BY <1>1, <1>4, <1>14 DEF Mine
    <2> QED
      BY <1>1, <1>5, <1>14, <2>1, <2>2, <2>3, Restores
  <1> QED
    BY <1>2, <1>8, <1>15 DEF IInv

\* A journal whose state is written at the end.
LEMMA RestoredKeeps == ASSUME IInv, Restored PROVE IInv'
  <1>1. /\ world' = world /\ disk' = disk /\ status' = status /\ report' = report /\ commits' = commits /\ faults' = faults
        /\ tool.todo # << >> /\ tool' = Idle
    BY DEF Restored, Doing, bounds
  <1>2. Onward /\ DiskInv' /\ ReportInv'
    BY <1>1, Unchanged, DiskStays, ReportStays DEF IInv, DiskInv
  <1>3. PICK j : j = Mine
    OBVIOUS
  <1>4. PICK jj : jj = [j EXCEPT !.status = "ROLLED_BACK", !.output = << >>]
    OBVIOUS
  <1>5. JournalInv(j) /\ tool.id \in DOMAIN repairs
    BY <1>1, <1>3, Working DEF IInv
  <1>6. JournalInv(jj)
    <2>1. /\ DOMAIN jj = JournalFields /\ jj.status = "ROLLED_BACK"
          /\ jj.datasets = j.datasets /\ jj.entries = j.entries /\ jj.touched = j.touched
          /\ jj.before = j.before /\ jj.origin = j.origin /\ jj.left = j.left /\ jj.completed = j.completed /\ jj.late = j.late
      BY <1>4, <1>5 DEF JournalInv, JournalFields
    <2>2. Backed(jj) = Backed(j) /\ \A p : Added(jj, p) <=> Added(j, p)
      BY <2>1 DEF Backed, Added
    <2> QED
      BY <1>5, <2>1, <2>2 DEF JournalInv
  <1>7. RepairsInv'
    <2>1. repairs' = [repairs EXCEPT ![tool.id] = jj]
      BY <1>3, <1>4 DEF Restored, Mine
    <2> QED
      BY <1>2, <1>5, <1>6, <2>1, OneJournal DEF IInv
  <1>8. ToolInv'
    BY <1>1 DEF ToolInv
  <1> QED
    BY <1>2, <1>7, <1>8 DEF IInv

LEMMA SettleKeeps == ASSUME IInv, Settle PROVE IInv'
  <1>1. /\ world' = world /\ disk' = disk /\ status' = status /\ report' = report /\ commits' = commits /\ faults' = faults
        /\ tool.todo # << >> /\ tool' = Idle /\ Step.do = "commit"
    BY DEF Settle, Doing, bounds
  <1>2. Onward /\ DiskInv' /\ ReportInv'
    BY <1>1, Unchanged, DiskStays, ReportStays DEF IInv, DiskInv
  <1>3. PICK j : j = Mine
    OBVIOUS
  <1>4. PICK jj : jj = [j EXCEPT !.status = "COMMITTED", !.output = report.fingerprint, !.left = disk]
    OBVIOUS
  <1>5. Repairing
    BY <1>1, IsRepairing DEF IInv
  <1>6. JournalInv(j) /\ tool.id \in DOMAIN repairs /\ RepairInv(j) /\ TodoInv(tool.todo)
    BY <1>1, <1>3, <1>5, Working DEF IInv
  <1>7. Fresh(j)
    <2>1. {s.do : s \in ToSet(tool.todo)} = {"commit"}
      <3>1. ToSet(tool.todo) = {Step}
        BY <1>1, <1>6, TodoHead DEF Step, Finals
      <3> QED
        BY <1>1, <3>1
    <2> QED
      BY <1>6, <2>1 DEF RepairInv, FreshInv
  <1>8. JournalInv(jj)
    <2>1. /\ DOMAIN jj = JournalFields /\ jj.status = "COMMITTED" /\ jj.left = disk /\ jj.output = report.fingerprint
          /\ jj.datasets = j.datasets /\ jj.entries = j.entries /\ jj.touched = j.touched
          /\ jj.before = j.before /\ jj.origin = j.origin /\ jj.completed = j.completed /\ jj.late = j.late
      BY <1>4, <1>6 DEF JournalInv, JournalFields
    <2>2. Backed(jj) = Backed(j) /\ \A p : Added(jj, p) <=> Added(j, p)
      BY <2>1 DEF Backed, Added
    <2>3. DOMAIN jj.left \subseteq Path /\ jj.output = Fingerprint(Tables(jj.left), jj.datasets)
      BY <1>7, <2>1 DEF Fresh, Lake, IInv, DiskInv
    <2> QED
      BY <1>6, <2>1, <2>2, <2>3 DEF JournalInv
  <1>9. RepairsInv'
    <2>1. repairs' = [repairs EXCEPT ![tool.id] = jj]
      BY <1>3, <1>4 DEF Settle, Mine
    <2> QED
      BY <1>2, <1>6, <1>8, <2>1, OneJournal DEF IInv
  <1>10. ToolInv'
    BY <1>1 DEF ToolInv
  <1> QED
    BY <1>2, <1>9, <1>10 DEF IInv

LEMMA RaiseKeeps == ASSUME IInv, Raise PROVE IInv'
  <1>1. /\ world' = world /\ disk' = disk /\ status' = status /\ report' = report /\ commits' = commits /\ repairs' = repairs
        /\ tool # Idle /\ \E kept : Undone(kept)
    BY DEF Raise
  <1>2. faults' \in 0 .. MaxFaults
    BY BoundsAssumption DEF Raise, IInv, DiskInv
  <1>3. Onward /\ DiskInv' /\ ReportInv' /\ RepairsInv'
    BY <1>1, <1>2, Unchanged, DiskStays, ReportStays, JournalsStay DEF IInv
  <1>4. tool.todo # << >>
    BY <1>1, TodoNotEmpty DEF IInv, ToolInv
  <1>5. ToolInv'
    BY <1>1, <1>4, UndoneRestores DEF IInv
  <1> QED
    BY <1>3, <1>5 DEF IInv

LEMMA CrashKeeps == ASSUME IInv, Crash PROVE IInv'
  <1>1. /\ world' = world /\ disk' = disk /\ status' = status /\ report' = report /\ commits' = commits /\ repairs' = repairs
        /\ tool' = Idle
    BY DEF Crash
  <1>2. faults' \in 0 .. MaxFaults
    BY BoundsAssumption DEF Crash, IInv, DiskInv
  <1>3. Onward /\ DiskInv' /\ ReportInv' /\ RepairsInv'
    BY <1>1, <1>2, Unchanged, DiskStays, ReportStays, JournalsStay DEF IInv
  <1>4. ToolInv'
    BY <1>1 DEF ToolInv
  <1> QED
    BY <1>3, <1>4 DEF IInv

LEMMA RollbackKeeps == ASSUME IInv, Rollback PROVE IInv'
  <1>1. /\ world' = world /\ disk' = disk /\ status' = status /\ report' = report /\ commits' = commits /\ repairs' = repairs
        /\ faults' = faults
    BY DEF Rollback, bounds
  <1>2. Onward /\ DiskInv' /\ ReportInv' /\ RepairsInv'
    BY <1>1, Unchanged, DiskStays, ReportStays, JournalsStay DEF IInv, DiskInv
  <1>3. PICK k \in DOMAIN repairs : tool' = [id |-> k, todo |-> RestoreSteps(repairs[k])]
    BY DEF Rollback
  <1>4. PICK j : j = repairs[k]
    OBVIOUS
  <1>5. PICK todo : todo = RestoreSteps(j)
    OBVIOUS
  <1>6. TodoInv(todo) /\ RestoreInv(j, todo) /\ "restored" \in {s.do : s \in ToSet(todo)}
    BY <1>4, <1>5, RestoreBegins DEF IInv, RepairsInv
  <1>7. RestoreInv(j, todo)'
    BY <1>1, <1>6, RestoreStays
  <1>8. {"id", "todo"} \subseteq DOMAIN tool' /\ tool'.id = k /\ tool'.todo = todo
    BY <1>3, <1>4, <1>5
  <1> HIDE DEF TodoInv, RestoreInv
  <1>9. ToolInv'
    BY <1>1, <1>4, <1>6, <1>7, <1>8, Restores
  <1> QED
    BY <1>2, <1>9 DEF IInv

\* Another detection, after which the repair goes on or ends.
LEMMA RedetectedKeeps ==
  ASSUME NEW issues, NEW rest, NEW datasets,
         IInv, world' = world, disk' = disk, repairs' = repairs, commits' = commits, faults' = faults,
         tool.todo # << >>, Step.do \in {"detect", "last"},
         ReportInv', report'.fingerprint = Fingerprint(Lake, datasets),
         datasets = tool.scope.datasets, \A i \in issues : GoodIssue(i, datasets),
         rest = (IF Step.do = "last" THEN Tail(tool.todo) ELSE <<[do |-> "round"]>>),
         tool' # Idle, tool'.todo = rest, tool'.id = tool.id, tool'.scope = tool.scope, tool'.issues = issues,
         tool'.decided = tool.decided, DOMAIN tool' = DOMAIN tool
  PROVE  IInv'
  <1>18. Onward /\ DiskInv' /\ RepairsInv'
    BY Unchanged, DiskStays, JournalsStay DEF IInv, DiskInv
  <1>1. PICK j : j = Mine
    OBVIOUS
  <1>3. /\ Repairing /\ TodoInv(tool.todo) /\ tool.id \in DOMAIN repairs /\ RepairInv(j)
        /\ {"id", "todo", "scope", "issues", "decided", "rounds", "detected"} \subseteq DOMAIN tool
    BY <1>1, IsRepairing, Working DEF IInv
  <1>5. tool.scope \in Scopes(world) /\ j.datasets = tool.scope.datasets
    BY <1>3 DEF RepairInv
  <1>6. /\ ReportInv' /\ report'.fingerprint = Fingerprint(Lake, j.datasets)
        /\ \A i \in issues : GoodIssue(i, j.datasets)
    BY <1>5
  <1>7. TodoInv(rest) /\ \A s \in ToSet(rest) : s.do = IF Step.do = "last" THEN "commit" ELSE "round"
    <2>1. CASE Step.do = "last"
      BY <1>3, <2>1, TodoHead DEF Step, Comes, Finals
    <2>2. CASE Step.do # "last"
      <3> DEFINE round == [do |-> "round"]
      <3>1. Ordered(<<round>>) /\ ToSet(<<round>>) = {round} /\ round.do = "round"
        BY OrderedOne
      <3>2. rest = <<round>>
        BY <2>2
      <3> HIDE DEF round
      <3> QED
        BY <2>2, <3>1, <3>2 DEF TodoInv, Finals
    <2> QED
      BY <2>1, <2>2
  <1>8. {s.do : s \in ToSet(rest)} = {"commit"} \/ {s.do : s \in ToSet(rest)} = {"round"}
    <2>1. \E s \in ToSet(rest) : TRUE
      BY <1>7 DEF TodoInv
    <2> QED
      BY <1>7, <2>1
  <1>9. Fresh(j)'
    BY <1>6 DEF Fresh, Lake, Tables
  <1>10. FreshInv(j)'
    BY <1>8, <1>9 DEF FreshInv
  <1>11. Untouched(j)' /\ Listed(j)'
    BY <1>3, SameDisk DEF RepairInv
  <1>12. (\A s \in ToSet(tool.todo) : RepairStep(s, j, tool.todo))'
    BY <1>7 DEF RepairStep
  <1>13. RepairInv(j)'
    BY <1>3, <1>5, <1>6, <1>10, <1>11, <1>12 DEF RepairInv
  <1>14. Repairing'
    BY <1>8 DEF Repairing
  <1>15. Mine' = j
    BY <1>1 DEF Mine
  <1>16. TodoInv(tool.todo)'
    BY <1>7
  <1>17. ToolInv'
    BY <1>3, <1>13, <1>14, <1>15, <1>16 DEF ToolInv
  <1> QED
    BY <1>18, <1>6, <1>17 DEF IInv

LEMMA RedetectKeeps == ASSUME IInv, Redetect PROVE IInv'
  <1>1. /\ world' = world /\ disk' = disk /\ repairs' = repairs /\ commits' = commits /\ faults' = faults
        /\ tool.todo # << >> /\ Step.do \in {"detect", "last"}
    BY DEF Redetect, Doing, bounds
  <1>2. Onward /\ DiskInv' /\ RepairsInv'
    BY <1>1, Unchanged, DiskStays, JournalsStay DEF IInv, DiskInv
  <1>3. CASE Undone({}) /\ UNCHANGED <<status, report>>
    <2>1. ReportInv'
      BY <1>1, <1>3, ReportStays DEF IInv
    <2>2. ToolInv'
      BY <1>1, <1>3, UndoneRestores DEF IInv
    <2> QED
      BY <1>2, <2>1, <2>2 DEF IInv
  <1>4. CASE /\ ~DetectFails(Lake, tool.scope)
             /\ \E issues \in {Detected(Lake, tool.scope)} :
                  LET same == ToRefetch(issues, tool.decided) = ToRefetch(tool.issues, tool.decided) IN
                  /\ Recorded(tool.scope, issues)
                  /\ tool' = [tool EXCEPT !.issues = issues, !.detected = TRUE,
                                          !.rounds = IF same THEN MaxRounds ELSE @ + 1,
                                          !.todo = IF Step.do = "last" THEN Tail(@) ELSE <<[do |-> "round"]>>]
                  /\ UNCHANGED store
    <2>1. PICK issues : issues = Detected(Lake, tool.scope)
      OBVIOUS
    <2>2. PICK rounds : rounds = IF ToRefetch(issues, tool.decided) = ToRefetch(tool.issues, tool.decided) THEN MaxRounds
                                 ELSE tool.rounds + 1
      OBVIOUS
    <2>3. PICK rest : rest = IF Step.do = "last" THEN Tail(tool.todo) ELSE <<[do |-> "round"]>>
      OBVIOUS
    <2>6. PICK datasets : datasets = tool.scope.datasets
      OBVIOUS
    <2>4. /\ ReportInv' /\ report'.fingerprint = Fingerprint(Lake, datasets)
          /\ \A i \in issues : GoodIssue(i, datasets)
      <3>1. tool.scope \in Scopes(world)
        BY <1>1, IsRepairing, Working DEF IInv, RepairInv
      <3>2. Recorded(tool.scope, issues)
        BY <1>4, <2>1
      <3> QED
        BY <1>1, <2>1, <2>6, <3>1, <3>2, RecordedGood DEF IInv
    <2>5. /\ tool' # Idle /\ tool'.todo = rest /\ tool'.id = tool.id /\ tool'.scope = tool.scope /\ tool'.issues = issues
          /\ tool'.decided = tool.decided /\ DOMAIN tool' = DOMAIN tool
      <3>1. tool' = [tool EXCEPT !.issues = issues, !.detected = TRUE, !.rounds = rounds, !.todo = rest]
        BY <1>4, <2>1, <2>2, <2>3
      <3>2. {"id", "todo", "scope", "issues", "decided", "rounds", "detected"} \subseteq DOMAIN tool
        BY <1>1, IsRepairing, Working DEF IInv
      <3>3. "scope" \notin DOMAIN Idle
        BY DEF Idle
      <3> HIDE DEF Idle
      <3> QED
        BY <3>1, <3>2, <3>3
    <2> QED
      BY <1>1, <2>3, <2>4, <2>5, <2>6, RedetectedKeeps
  <1> QED
    BY <1>3, <1>4 DEF Redetect

\* What a fetch does is what the journal is ready for.
LEMMA FetchStepReady ==
  ASSUME world \in Worlds, NEW j, JournalInv(j), NEW range, GoodRange(range, j.datasets), RangeBacked(j, range),
         NEW s, FetchStep(s, range), NEW todo
  PROVE  RepairStep(s, j, todo) /\ s.do \in {"write", "mark"}
  <1> DEFINE d == range.dataset
  <1>1. /\ d \in world.datasets /\ d \in Names
        /\ \A p \in Path : p = <<p[1], p[2]>>
        /\ Checkpoint(d)[2] = Missing
    BY PathIs DEF GoodRange, JournalInv, Checkpoint
  <1>2. (d \in MarketDate <=> d \notin FullSnapshot) /\ "trade_cal" \notin FullSnapshot
    BY <1>1, NamesAre DEF MarketDate
  <1>3. CASE s.do = "mark" /\ s.path = Checkpoint(d)
    BY <1>1, <1>3 DEF RepairStep, RangeBacked
  <1>4. CASE /\ s.do = "write" /\ s.path \in Path /\ s.path[2] # Missing
             /\ s.path[1] = "trade_cal" => InPlace(s.rows, s.path[2])
             /\ \/ s.path[1] = "trade_cal"
                \/ s.path[1] = d /\ (d \in MarketDate => s.path[2] \in range.first .. range.last)
    <2>1. CASE s.path[1] = "trade_cal"
      BY <1>2, <1>4, <2>1 DEF RepairStep
    <2>2. CASE s.path[1] = d /\ d \in FullSnapshot
      <3>1. /\ d \in DOMAIN j.before /\ j.before[d] \subseteq Backed(j)
            /\ j.before[d] = {p \in DOMAIN j.origin : p[1] = d /\ p[2] # Missing}
        BY <2>2 DEF RangeBacked, JournalInv
      <3>2. MayChange(j, s.path)
        BY <1>4, <2>2, <3>1 DEF MayChange, Added
      <3> QED
        BY <1>4, <2>2, <3>1, <3>2 DEF RepairStep
    <2>3. CASE s.path[1] = d /\ d \notin FullSnapshot /\ d # "trade_cal"
      <3>1. s.path = <<d, s.path[2]>> /\ s.path[2] \in range.first .. range.last
        BY <1>1, <1>2, <1>4, <2>3
      <3>2. s.path \in Backed(j)
        BY <2>3, <3>1 DEF RangeBacked
      <3> QED
        BY <1>4, <2>3, <3>2 DEF RepairStep, MayChange
    <2> QED
      BY <1>4, <2>1, <2>2, <2>3
  <1> QED
    BY <1>3, <1>4 DEF FetchStep

\* Steps that a repair puts before those that are left.
LEMMA FollowsOn ==
  ASSUME IInv, tool.todo # << >>, Repairing, Step.do \in {"fetch", "request"}, world' = world, disk' = disk, repairs' = repairs,
         commits' = commits, faults' = faults, status' = status, report' = report,
         NEW steps, Ordered(steps), Then(steps),
         \A s \in ToSet(steps) : s.do \in {"write", "mark", "request"} /\ \A rest : RepairStep(s, Mine, rest)
  PROVE  IInv'
  <1>1. Onward /\ DiskInv' /\ ReportInv' /\ RepairsInv'
    BY Unchanged, DiskStays, ReportStays, JournalsStay DEF IInv, DiskInv
  <1>2. PICK j : j = Mine
    OBVIOUS
  <1>3. /\ TodoInv(tool.todo) /\ tool.id \in DOMAIN repairs /\ JournalInv(j) /\ RepairInv(j)
        /\ {"id", "todo"} \subseteq DOMAIN tool
    BY <1>2, Working DEF IInv
  <1> DEFINE rest == steps \o Tail(tool.todo)
  <1>4. TodoInv(Tail(tool.todo))
    BY <1>3, TodoHead DEF Step, Finals
  <1>5. Ordered(rest) /\ ToSet(rest) = ToSet(steps) \cup ToSet(Tail(tool.todo))
    <2>1. \A x \in ToSet(steps), y \in ToSet(Tail(tool.todo)) : Comes(x, y)
      BY PlainComes DEF Plain
    <2> QED
      BY <1>4, <2>1, OrderedConcat DEF TodoInv
  <1>6. tool' = [tool EXCEPT !.todo = rest]
    BY <1>3 DEF Then
  <1> HIDE DEF rest
  <1>7. TodoInv(rest)
    BY <1>4, <1>5 DEF TodoInv
  <1>8. FreshInv(j)'
    <2>1. /\ \A t \in ToSet(Tail(tool.todo)) : t \in ToSet(rest)
          /\ \A s \in ToSet(rest) : s.do \in {"commit", "round"} => s \in ToSet(Tail(tool.todo))
      BY <1>5
    <2> QED
      BY <1>6, <2>1, StillFresh DEF IInv
  <1>9. Untouched(j)' /\ Listed(j)'
    BY <1>3, SameDisk DEF RepairInv
  <1>10. ToolInv'
    <2>1. Grows(Mine, j) /\ repairs'[tool.id] = j /\ tool.id \in DOMAIN repairs'
      BY <1>2, <1>3 DEF Grows, Mine
    <2>2. /\ \A t \in ToSet(Tail(tool.todo)) : t \in ToSet(rest)
          /\ \A s \in ToSet(rest) : s \in ToSet(Tail(tool.todo)) \/ (RepairStep(s, j, rest) /\ s.do # "restored")
      BY <1>2, <1>5
    <2> QED
      BY <1>6, <1>7, <1>8, <1>9, <2>1, <2>2, Continues DEF IInv
  <1> QED
    BY <1>1, <1>10 DEF IInv

LEMMA FetchKeeps == ASSUME IInv, Fetch PROVE IInv'
  <1>1. /\ world' = world /\ disk' = disk /\ status' = status /\ report' = report /\ repairs' = repairs /\ commits' = commits
        /\ faults' = faults /\ tool.todo # << >> /\ Step.do = "fetch"
    BY DEF Fetch, Doing, bounds
  <1>2. Repairing
    BY <1>1, IsRepairing DEF IInv
  <1>3. PICK j : j = Mine
    OBVIOUS
  <1>4. PICK range : range = Step.range
    OBVIOUS
  <1>5. JournalInv(j) /\ RepairInv(j) /\ GoodRange(range, j.datasets) /\ RangeBacked(j, range)
    <2>1. JournalInv(j) /\ RepairInv(j) /\ RepairStep(Step, j, tool.todo)
      BY <1>1, <1>2, <1>3, Working DEF IInv
    <2> QED
      BY <1>1, <1>4, <2>1 DEF RepairStep
  <1>6. CASE Undone({})
    <2>1. DiskInv' /\ ReportInv' /\ RepairsInv'
      BY <1>1, Unchanged, DiskStays, ReportStays, JournalsStay DEF IInv, DiskInv
    <2>2. ToolInv'
      BY <1>1, <1>6, UndoneRestores DEF IInv
    <2> QED
      BY <2>1, <2>2 DEF IInv
  <1>7. PICK fetched : fetched = FetchedRows(range.dataset, range.first, range.last)
    OBVIOUS
  <1>8. PICK cs : cs = Writes("trade_cal", fetched.calendar)
    OBVIOUS
  <1>9. PICK request : request = [do |-> "request", range |-> range, rows |-> fetched.rows]
    OBVIOUS
  <1>10. CASE Then(cs \o <<request>>)
    <2>1. world \in Worlds /\ GoodRange(range, world.datasets)
      BY <1>5 DEF GoodRange, JournalInv, IInv, DiskInv
    <2>2. Ordered(cs) /\ (\A s \in ToSet(cs) : FetchStep(s, range) /\ s.do = "write") /\ GoodRows(range, fetched.rows)
      BY <1>7, <1>8, <2>1, FetchedAre DEF IInv
    <2>3. \A s \in ToSet(cs) : \A rest : RepairStep(s, j, rest)
      BY <1>5, <2>1, <2>2, FetchStepReady
    <2>4. request.do = "request" /\ \A rest : RepairStep(request, j, rest)
      BY <1>5, <1>9, <2>2 DEF RepairStep
    <2>5. Ordered(<<request>>) /\ ToSet(<<request>>) = {request}
      BY OrderedOne
    <2>6. Ordered(cs \o <<request>>) /\ ToSet(cs \o <<request>>) = ToSet(cs) \cup {request}
      <3>1. \A x \in ToSet(cs), y \in ToSet(<<request>>) : Comes(x, y)
        BY <2>2, PlainComes DEF Plain
      <3> QED
        BY <2>2, <2>5, <3>1, OrderedConcat
    <2>7. PICK steps : steps = cs \o <<request>>
      OBVIOUS
    <2>8. \A s \in ToSet(steps) : s.do \in {"write", "mark", "request"} /\ \A rest : RepairStep(s, Mine, rest)
      BY <1>3, <2>2, <2>3, <2>4, <2>6, <2>7
    <2>9. Ordered(steps) /\ Then(steps)
      BY <1>10, <2>6, <2>7
    <2> QED
      BY <1>1, <1>2, <2>8, <2>9, FollowsOn
  <1> QED
    BY <1>4, <1>6, <1>7, <1>8, <1>9, <1>10 DEF Fetch

LEMMA RequestKeeps == ASSUME IInv, Request PROVE IInv'
  <1>1. /\ world' = world /\ disk' = disk /\ status' = status /\ report' = report /\ repairs' = repairs /\ commits' = commits
        /\ faults' = faults /\ tool.todo # << >> /\ Step.do = "request"
    BY DEF Request, Doing, bounds
  <1>2. Repairing
    BY <1>1, IsRepairing DEF IInv
  <1>3. PICK j : j = Mine
    OBVIOUS
  <1>4. PICK range, rows : range = Step.range /\ rows = Step.rows
    OBVIOUS
  <1>5. JournalInv(j) /\ RepairInv(j) /\ GoodRange(range, j.datasets) /\ RangeBacked(j, range) /\ GoodRows(range, rows)
    <2>1. JournalInv(j) /\ RepairInv(j) /\ RepairStep(Step, j, tool.todo)
      BY <1>1, <1>2, <1>3, Working DEF IInv
    <2> QED
      BY <1>1, <1>4, <2>1 DEF RepairStep
  <1>6. world \in Worlds /\ GoodRange(range, world.datasets)
    BY <1>5 DEF GoodRange, JournalInv, IInv, DiskInv
  <1>7. PICK steps : steps = RequestSteps(range, rows)
    OBVIOUS
  <1>8. Ordered(steps) /\ \A s \in ToSet(steps) : FetchStep(s, range) /\ s.do \in {"write", "mark"}
    BY <1>5, <1>6, <1>7, RequestStepsAre
  <1>9. \A s \in ToSet(steps) : s.do \in {"write", "mark", "request"} /\ \A rest : RepairStep(s, Mine, rest)
    BY <1>3, <1>5, <1>6, <1>8, FetchStepReady
  <1>10. Then(steps)
    BY <1>4, <1>7 DEF Request
  <1> QED
    BY <1>1, <1>2, <1>8, <1>9, <1>10, FollowsOn

\* The journal of a table that is backed up as a whole from now on has its partitions.
LEMMA RangeNoted ==
  ASSUME DiskInv, NEW j, JournalInv(j), Listed(j), NEW d \in j.datasets, NEW paths, NEW all, paths \subseteq all,
         d \in FullSnapshot /\ d \notin DOMAIN j.before => paths = Paths(d),
         NEW jn, jn = IF d \in FullSnapshot /\ d \notin DOMAIN j.before THEN [j EXCEPT !.before = [t \in DOMAIN @ \cup {d} |-> IF t = d THEN paths ELSE @[t]]] ELSE j
  PROVE  NotedIn(j, jn, all) /\ (d \in FullSnapshot => d \in DOMAIN jn.before)
  <1>1. CASE d \in FullSnapshot /\ d \notin DOMAIN j.before
    <2> DEFINE b == [t \in DOMAIN j.before \cup {d} |-> IF t = d THEN paths ELSE j.before[t]]
    <2>1. DOMAIN b = {d} \cup DOMAIN j.before /\ b[d] = paths /\ \A x \in DOMAIN j.before : b[x] = j.before[x]
      BY <1>1
    <2>2. paths = {p \in DOMAIN j.origin : p[1] = d /\ p[2] # Missing}
      <3>1. /\ DOMAIN disk \subseteq Path /\ DOMAIN j.origin \subseteq Path
            /\ \A p \in Path : p = <<p[1], p[2]>>
        BY PathIs DEF DiskInv, JournalInv
      <3>2. \A p \in Path : p[1] = d => (p # Checkpoint(d) <=> p[2] # Missing)
        BY <3>1 DEF Checkpoint
      <3>3. \A p \in Path : p[1] = d /\ p[2] # Missing => (p \in DOMAIN disk <=> p \in DOMAIN j.origin)
        BY <1>1 DEF Listed
      <3> QED
        BY <1>1, <3>1, <3>2, <3>3 DEF Paths
    <2> HIDE DEF b
    <2>3. jn = [j EXCEPT !.before = b]
      BY <1>1 DEF b
    <2>4. /\ DOMAIN jn = JournalFields /\ jn.status = j.status /\ jn.datasets = j.datasets /\ jn.output = j.output
          /\ jn.entries = j.entries /\ jn.origin = j.origin /\ jn.left = j.left
          /\ jn.touched = j.touched /\ jn.completed = j.completed /\ jn.before = b
      BY <2>3 DEF JournalInv, JournalFields
    <2>5. /\ DOMAIN b \subseteq FullSnapshot \cap j.datasets
          /\ \A x \in DOMAIN b : /\ b[x] = {p \in DOMAIN j.origin : p[1] = x /\ p[2] # Missing}
                                 /\ b[x] \subseteq Backed(j) \cup all
      BY <1>1, <2>1, <2>2 DEF JournalInv
    <2> QED
      BY <2>1, <2>4, <2>5 DEF NotedIn
  <1>2. CASE ~(d \in FullSnapshot /\ d \notin DOMAIN j.before)
    BY <1>2 DEF NotedIn, JournalInv
  <1> QED
    BY <1>1, <1>2

\* The days that a reset removes are backed up, and none is of a table fetched as a whole.
LEMMA ResetsGood ==
  ASSUME NEW datasets, datasets \subseteq Names, NEW range, GoodRange(range, datasets),
         NEW issues, \A i \in issues : GoodIssue(i, datasets), NEW i \in issues,
         i.dataset = range.dataset, i.rule \in ResetBeforeRefetch, Instruction(i) = "REFETCH",
         i.suggested.day \in range.first .. range.last
  PROVE  i.day \in range.first .. range.last /\ range.dataset \notin FullSnapshot
  <1>1. i.suggested.action = "REFETCH" /\ range.dataset \in PartitionDateRefetch
    BY DEF Instruction
  <1>2. i.suggested.day = i.day
    BY <1>1 DEF GoodIssue, PartitionDateRefetch
  <1> QED
    BY <1>1, <1>2, NamesAre DEF PartitionDateRefetch, GoodRange

LEMMA BackUpRangeKeeps == ASSUME IInv, BackUpRange PROVE IInv'
  <1>1. /\ world' = world /\ disk' = disk /\ status' = status /\ report' = report /\ commits' = commits /\ faults' = faults
        /\ tool.todo # << >> /\ Step.do = "refetch"
    BY DEF BackUpRange, bounds, Doing
  <1>2. Onward /\ DiskInv' /\ ReportInv' /\ world \in Worlds /\ DOMAIN disk \subseteq Path
    BY <1>1, Unchanged, DiskStays, ReportStays DEF IInv, DiskInv
  <1>3. PICK j : j = Mine
    OBVIOUS
  <1>4. PICK range : range = Step.range
    OBVIOUS
  <1>5. PICK d : d = range.dataset
    OBVIOUS
  <1>6. Repairing
    BY <1>1, IsRepairing DEF IInv
  <1>7. /\ TodoInv(tool.todo) /\ tool.id \in DOMAIN repairs /\ JournalInv(j) /\ RepairInv(j) /\ RepairStep(Step, j, tool.todo)
        /\ {"id", "todo"} \subseteq DOMAIN tool
    BY <1>1, <1>3, <1>6, Working DEF IInv
  <1>8. /\ GoodRange(range, j.datasets) /\ d \in j.datasets /\ j.datasets \subseteq world.datasets /\ j.datasets \subseteq Names
        /\ d \in MarketDate => range.first .. range.last \subseteq Days
        /\ d \in MarketDate <=> d \notin FullSnapshot
    <2>1. GoodRange(range, j.datasets)
      BY <1>1, <1>4, <1>7 DEF RepairStep
    <2>2. j.datasets \subseteq Names /\ j.datasets \subseteq world.datasets
      BY <1>2, <1>7, PathIs DEF JournalInv
    <2>3. d \in j.datasets /\ (d \in MarketDate => range.first .. range.last \subseteq Days)
      BY <1>5, <2>1 DEF GoodRange
    <2> QED
      BY <2>1, <2>2, <2>3, NamesAre
  <1> DEFINE whole == d \in FullSnapshot
             known == d \in DOMAIN j.before
             taken == IF whole THEN IF known THEN {} ELSE Paths(d) ELSE {<<d, day>> : day \in range.first .. range.last}
             noted == IF whole /\ ~known THEN [j EXCEPT !.before = [t \in DOMAIN @ \cup {d} |-> IF t = d THEN taken ELSE @[t]]] ELSE j
             lost == {<<d, i.day>> : i \in {x \in tool.issues : /\ x.dataset = d /\ x.rule \in ResetBeforeRefetch
                                                                /\ Instruction(x) = "REFETCH" /\ x.suggested.day \in range.first .. range.last}}
  <1>9. PICK paths : paths = taken
    OBVIOUS
  <1>10. PICK jn : jn = noted
    OBVIOUS
  <1>11. PICK broken : broken = lost \cap DOMAIN disk
    OBVIOUS
  <1>12. PICK resets : resets = SetToSeq(broken)
    OBVIOUS
  <1>13. PICK all : all = {Checkpoint(d)} \cup paths
    OBVIOUS
  <1>14. PICK jj : jj = BackedUp(jn, all)
    OBVIOUS
  <1>15. PICK f : f = [k \in DOMAIN resets |-> [do |-> "remove", path |-> resets[k]]]
    OBVIOUS
  <1>16. PICK fetch : fetch = [do |-> "fetch", range |-> range]
    OBVIOUS
  <1>17. /\ repairs' = [repairs EXCEPT ![tool.id] = jj]
         /\ Then(f \o <<fetch>>)
    BY <1>3, <1>4, <1>5, <1>9, <1>10, <1>11, <1>12, <1>13, <1>14, <1>15, <1>16 DEF BackUpRange
  <1>18. all \subseteq Path /\ \A p \in all : p[1] \in j.datasets
    <2>1. \A day \in Days \cup {Missing} : <<d, day>> \in Path
      BY <1>2, <1>8, PathIs
    <2>2. CASE whole
      BY <1>2, <1>8, <1>9, <1>13, <2>1, <2>2 DEF Paths, Checkpoint
    <2>3. CASE ~whole
      BY <1>8, <1>9, <1>13, <2>1, <2>3 DEF Checkpoint
    <2> QED
      BY <2>2, <2>3
  <1>19. NotedIn(j, jn, all) /\ (whole => d \in DOMAIN jn.before)
    <2>1. DiskInv /\ Listed(j)
      BY <1>7 DEF IInv, RepairInv
    <2>2. /\ paths \subseteq all
          /\ d \in FullSnapshot /\ d \notin DOMAIN j.before => paths = Paths(d)
          /\ jn = IF d \in FullSnapshot /\ d \notin DOMAIN j.before
                  THEN [j EXCEPT !.before = [t \in DOMAIN @ \cup {d} |-> IF t = d THEN paths ELSE @[t]]] ELSE j
      BY <1>9, <1>10, <1>13
    <2> HIDE DEF taken, noted, lost
    <2> QED
      BY <1>7, <1>8, <2>1, <2>2, RangeNoted
  <1>21. \A p \in broken : p \in paths /\ p[1] = d /\ d \notin FullSnapshot
    <2>1. ASSUME NEW i \in tool.issues, i.dataset = d, i.rule \in ResetBeforeRefetch,
                 Instruction(i) = "REFETCH", i.suggested.day \in range.first .. range.last
          PROVE  <<d, i.day>> \in paths /\ d \notin FullSnapshot
      <3>1. \A x \in tool.issues : GoodIssue(x, j.datasets)
        BY <1>7 DEF RepairInv
      <3>2. i.day \in range.first .. range.last /\ d \notin FullSnapshot
        BY <1>5, <1>8, <2>1, <3>1, ResetsGood
      <3> QED
        BY <1>9, <3>2
    <2>2. \A p \in lost : p \in paths /\ p[1] = d /\ d \notin FullSnapshot
      BY <2>1
    <2> QED
      BY <1>11, <2>2
  <1>22. broken \subseteq DOMAIN disk
    BY <1>11
  <1> HIDE DEF whole, known, taken, noted, lost
  <1>23. /\ JournalInv(jj) /\ Grows(j, jj) /\ all \subseteq Backed(jj) /\ jj.before = jn.before
         /\ jj.touched = j.touched /\ jj.completed = j.completed
    <2>1. Untouched(j) /\ DiskInv
      BY <1>7 DEF RepairInv, IInv
    <2> HIDE DEF DiskInv
    <2>2. LET x == BackedUp(jn, all)
          IN  /\ JournalInv(x) /\ Grows(j, x) /\ all \subseteq Backed(x) /\ x.before = jn.before
              /\ x.touched = j.touched /\ x.completed = j.completed
      BY <1>7, <1>18, <1>19, <2>1, BackedUpGood
    <2> QED
      BY <1>14, <2>2
  <1>24. RepairsInv' /\ DOMAIN repairs' = DOMAIN repairs /\ repairs'[tool.id] = jj
    BY <1>2, <1>7, <1>17, <1>23, OneJournal DEF IInv
  <1>25. Ordered(f) /\ \A s \in ToSet(f) : s.do = "remove" /\ s.path \in broken
    <2> DEFINE n == Cardinality(broken)
    <2>1. IsFiniteSet(broken)
      BY <1>2, <1>22, PathIs, FS_Subset
    <2>2. n \in Nat /\ DOMAIN resets = 1 .. n /\ \A k \in 1 .. n : resets[k] \in broken
      BY <1>12, <2>1, SetToSeqIs
    <2> HIDE DEF n
    <2>3. /\ DOMAIN f = 1 .. n /\ f = [k \in 1 .. n |-> f[k]]
          /\ \A k \in 1 .. n : f[k].do = "remove" /\ f[k].path \in broken
      BY <1>15, <2>2
    <2>4. Ordered(f) /\ ToSet(f) = {f[k] : k \in 1 .. n}
      BY <2>2, <2>3, OrderedPlain DEF Plain
    <2> QED
      BY <2>3, <2>4
  <1> DEFINE steps == f \o <<fetch>>
             rest == steps \o Tail(tool.todo)
  <1>26. Ordered(steps) /\ ToSet(steps) = ToSet(f) \cup {fetch} /\ fetch.do = "fetch" /\ fetch.range = range
    <2>1. Ordered(<<fetch>>) /\ ToSet(<<fetch>>) = {fetch}
      BY OrderedOne
    <2>2. \A x \in ToSet(f), y \in ToSet(<<fetch>>) : Comes(x, y)
      BY <1>25, PlainComes DEF Plain
    <2> QED
      BY <1>16, <1>25, <2>1, <2>2, OrderedConcat
  <1> HIDE DEF steps
  <1>27. TodoInv(Tail(tool.todo))
    BY <1>1, <1>7, TodoHead DEF Step, Finals
  <1>28. Ordered(rest) /\ ToSet(rest) = ToSet(steps) \cup ToSet(Tail(tool.todo))
    <2>1. \A x \in ToSet(steps), y \in ToSet(Tail(tool.todo)) : Comes(x, y)
      BY <1>25, <1>26, PlainComes DEF Plain
    <2> QED
      BY <1>26, <1>27, <2>1, OrderedConcat DEF TodoInv
  <1>29. tool' = [tool EXCEPT !.todo = rest]
    BY <1>7, <1>17 DEF Then, steps
  <1> HIDE DEF rest
  <1>30. \A s \in ToSet(steps) : RepairStep(s, jj, rest) /\ s.do \in {"remove", "fetch"}
    <2>1. ASSUME NEW s \in ToSet(f) PROVE RepairStep(s, jj, rest) /\ s.do \in {"remove", "fetch"}
      <3>1. s.do = "remove" /\ s.path \in paths /\ s.path[1] \notin FullSnapshot
        BY <1>21, <1>25, <2>1
      <3>2. s.path \in Backed(jj)
        BY <1>13, <1>23, <3>1
      <3> QED
        BY <3>1, <3>2 DEF RepairStep
    <2>2. RepairStep(fetch, jj, rest)
      <3>1. GoodRange(range, jj.datasets)
        BY <1>8, <1>23 DEF Grows
      <3>2. RangeBacked(jj, range)
        <4>1. Checkpoint(d) \in Backed(jj)
          BY <1>13, <1>23
        <4>2. d \in FullSnapshot => d \in DOMAIN jj.before
          BY <1>19, <1>23 DEF whole
        <4>3. d \notin FullSnapshot => \A day \in range.first .. range.last : <<d, day>> \in Backed(jj)
          BY <1>9, <1>13, <1>23 DEF whole, taken
        <4> QED
          BY <1>5, <4>1, <4>2, <4>3 DEF RangeBacked
      <3> QED
        BY <1>26, <3>1, <3>2 DEF RepairStep
    <2> QED
      BY <1>26, <2>1, <2>2
  <1>31. TodoInv(rest)
    BY <1>27, <1>28 DEF TodoInv
  <1>32. FreshInv(jj)'
    <2>1. /\ \A t \in ToSet(Tail(tool.todo)) : t \in ToSet(rest)
          /\ \A s \in ToSet(rest) : s.do \in {"commit", "round"} => s \in ToSet(Tail(tool.todo))
      BY <1>28, <1>30
    <2> QED
      BY <1>1, <1>6, <1>29, <2>1, StillFresh DEF IInv
  <1>33. Untouched(jj)' /\ Listed(jj)'
    BY <1>1, <1>7, <1>23, SameDisk DEF RepairInv, Grows
  <1>34. ToolInv'
    <2>1. Grows(Mine, jj) /\ tool.id \in DOMAIN repairs'
      BY <1>3, <1>7, <1>23, <1>24
    <2>2. /\ \A t \in ToSet(Tail(tool.todo)) : t \in ToSet(rest)
          /\ \A s \in ToSet(rest) : s \in ToSet(Tail(tool.todo)) \/ (RepairStep(s, jj, rest) /\ s.do # "restored")
      BY <1>28, <1>30
    <2> QED
      BY <1>1, <1>6, <1>7, <1>24, <1>29, <1>31, <1>32, <1>33, <2>1, <2>2, Continues DEF IInv
  <1> QED
    BY <1>2, <1>24, <1>34 DEF IInv

\* The loop goes on with steps of a repair that end in a detection or a commit.
LEMMA GoesOn ==
  ASSUME IInv, tool.todo # << >>, Step.do = "round", world' = world, disk' = disk, repairs' = repairs,
         commits' = commits, faults' = faults, status' = status, report' = report,
         NEW steps, Ordered(steps), \A s \in ToSet(steps) : RepairStep(s, Mine, steps) /\ s.do # "restored",
         \E s \in ToSet(steps) : s.do \in Finals, Then(steps),
         \A s \in ToSet(steps) : s.do # "round",
         \/ \A s \in ToSet(steps) : s.do # "commit"
         \/ \E s \in ToSet(steps) : s.do = "last"
         \/ Fresh(Mine) /\ \A s \in ToSet(steps) : s.do = "commit"
  PROVE  IInv'
  <1>1. Onward /\ DiskInv' /\ ReportInv' /\ RepairsInv'
    BY Unchanged, DiskStays, ReportStays, JournalsStay DEF IInv, DiskInv
  <1>2. PICK j : j = Mine
    OBVIOUS
  <1>3. Repairing
    BY IsRepairing DEF IInv
  <1>4. /\ TodoInv(tool.todo) /\ tool.id \in DOMAIN repairs /\ JournalInv(j) /\ RepairInv(j)
        /\ {"id", "todo"} \subseteq DOMAIN tool
    BY <1>2, <1>3, Working DEF IInv
  <1>5. ToSet(Tail(tool.todo)) = {} /\ Ordered(Tail(tool.todo))
    BY <1>4, TodoHead DEF Step, Finals
  <1> DEFINE rest == steps \o Tail(tool.todo)
  <1>6. Ordered(rest) /\ ToSet(rest) = ToSet(steps)
    <2>1. PICK after : after = Tail(tool.todo)
      OBVIOUS
    <2>2. \A x \in ToSet(steps), y \in ToSet(after) : Comes(x, y)
      BY <1>5, <2>1
    <2>3. Ordered(steps \o after) /\ ToSet(steps \o after) = ToSet(steps) \cup ToSet(after)
      BY <1>5, <2>1, <2>2, OrderedConcat
    <2> QED
      BY <1>5, <2>1, <2>3
  <1>7. tool' = [tool EXCEPT !.todo = rest]
    BY <1>4 DEF Then
  <1> HIDE DEF rest
  <1>8. TodoInv(rest)
    BY <1>6 DEF TodoInv
  <1>9. Grows(Mine, j) /\ repairs'[tool.id] = j /\ tool.id \in DOMAIN repairs'
    BY <1>2, <1>4 DEF Grows, Mine
  <1>10. \A s \in ToSet(rest) : RepairStep(s, j, rest) /\ s.do # "restored"
    <2>1. Grows(j, j)
      BY DEF Grows
    <2> QED
      BY <1>2, <1>6, <2>1, GrowsStep
  <1>11. FreshInv(j)'
    <2>1. tool'.todo = rest
      BY <1>4, <1>7
    <2>2. Fresh(j) => Fresh(j)'
      BY DEF Fresh, Lake, Tables
    <2>3. /\ "round" \notin {s.do : s \in ToSet(rest)}
          /\ \/ "commit" \notin {s.do : s \in ToSet(rest)}
             \/ "last" \in {s.do : s \in ToSet(rest)}
             \/ Fresh(j) /\ {s.do : s \in ToSet(rest)} \subseteq {"commit"}
      BY <1>2, <1>6
    <2> QED
      BY <2>1, <2>2, <2>3 DEF FreshInv
  <1>12. Untouched(j)' /\ Listed(j)'
    BY <1>4, SameDisk DEF RepairInv
  <1>13. ToolInv'
    BY <1>3, <1>5, <1>7, <1>8, <1>9, <1>10, <1>11, <1>12, Continues DEF IInv
  <1> QED
    BY <1>1, <1>13 DEF IInv

LEMMA RoundKeeps == ASSUME IInv, Round PROVE IInv'
  <1>1. /\ world' = world /\ disk' = disk /\ status' = status /\ report' = report /\ repairs' = repairs /\ commits' = commits
        /\ faults' = faults /\ tool.todo # << >> /\ Step.do = "round"
    BY DEF Round, Doing, bounds
  <1>2. PICK j : j = Mine
    OBVIOUS
  <1>3. Repairing
    BY <1>1, IsRepairing DEF IInv
  <1>4. /\ TodoInv(tool.todo) /\ JournalInv(j) /\ RepairInv(j) /\ Step \in ToSet(tool.todo)
    BY <1>1, <1>2, <1>3, Working DEF IInv
  <1>5. /\ \A i \in tool.issues \cup tool.decided : GoodIssue(i, j.datasets)
        /\ \A i \in tool.decided : i.rule # "dataset_empty_v1"
        /\ tool.detected => Fresh(j)
    BY <1>1, <1>4 DEF RepairInv, FreshInv
  <1>6. world \in Worlds /\ j.datasets \subseteq world.datasets /\ j.datasets \subseteq Names
    BY <1>4, PathIs DEF JournalInv, IInv, DiskInv
  <1>7. PICK ranges : ranges = RefetchRanges(tool.issues, tool.decided)
    OBVIOUS
  <1>8. PICK patches : patches = PatchSteps(tool.issues, tool.decided)
    OBVIOUS
  <1>9. PICK f : f = [k \in DOMAIN ranges |-> [do |-> "refetch", range |-> ranges[k]]]
    OBVIOUS
  <1>10. PICK detect : detect = [do |-> "detect"]
    OBVIOUS
  <1>11. PICK last : last = [do |-> "last"]
    OBVIOUS
  <1>12. PICK commit : commit = [do |-> "commit"]
    OBVIOUS
  <1>13. PICK between : between = IF patches = << >> THEN << >> ELSE <<last>>
    OBVIOUS
  <1>14. CASE Then(f \o <<detect>>)
    <2>1. /\ Len(ranges) \in Nat /\ DOMAIN ranges = 1 .. Len(ranges)
          /\ \A k \in DOMAIN ranges : GoodRange(ranges[k], j.datasets)
      BY <1>5, <1>6, <1>7, RefetchRangesAre
    <2>2. /\ DOMAIN f = 1 .. Len(ranges) /\ f = [k \in 1 .. Len(ranges) |-> f[k]]
          /\ \A k \in 1 .. Len(ranges) : f[k].do = "refetch" /\ GoodRange(f[k].range, j.datasets)
      BY <1>9, <2>1
    <2>3. Ordered(f) /\ \A s \in ToSet(f) : s.do = "refetch" /\ GoodRange(s.range, j.datasets)
      <3>1. Ordered(f) /\ ToSet(f) = {f[k] : k \in 1 .. Len(ranges)}
        BY <2>1, <2>2, OrderedPlain DEF Plain
      <3> QED
        BY <2>2, <3>1
    <2>4. Ordered(<<detect>>) /\ ToSet(<<detect>>) = {detect} /\ detect.do = "detect"
      BY <1>10, OrderedOne
    <2> DEFINE steps == f \o <<detect>>
    <2>5. Ordered(steps) /\ ToSet(steps) = ToSet(f) \cup {detect}
      <3>1. \A x \in ToSet(f), y \in ToSet(<<detect>>) : Comes(x, y)
        BY <2>3, PlainComes DEF Plain
      <3> QED
        BY <2>3, <2>4, <3>1, OrderedConcat
    <2> HIDE DEF steps
    <2>6. \A s \in ToSet(steps) : RepairStep(s, j, steps) /\ s.do \in {"refetch", "detect"}
      BY <2>3, <2>4, <2>5 DEF RepairStep
    <2>7. detect \in ToSet(steps) /\ detect.do \in Finals
      BY <2>4, <2>5 DEF Finals
    <2>8. Then(steps)
      BY <1>14 DEF steps
    <2> QED
      BY <1>1, <1>2, <2>5, <2>6, <2>7, <2>8, GoesOn
  <1>15. CASE Then(<<last, commit>>)
    <2> DEFINE steps == <<last, commit>>
    <2>1. Ordered(steps) /\ ToSet(steps) = {last, commit} /\ last.do = "last" /\ commit.do = "commit"
      <3>1. last.do = "last" /\ commit.do = "commit"
        BY <1>11, <1>12
      <3>2. Comes(last, commit)
        BY <3>1 DEF Comes, Finals
      <3> QED
        BY <3>1, <3>2, OrderedTwo
    <2> HIDE DEF steps
    <2>2. \A s \in ToSet(steps) : RepairStep(s, j, steps) /\ s.do \in {"last", "commit"}
      BY <2>1 DEF RepairStep
    <2>3. last \in ToSet(steps) /\ commit \in ToSet(steps) /\ commit.do \in Finals
      BY <2>1 DEF Finals
    <2>4. Then(steps)
      BY <1>15 DEF steps
    <2> QED
      BY <1>1, <1>2, <2>1, <2>2, <2>3, <2>4, GoesOn
  <1>16. CASE tool.detected /\ Then(patches \o between \o <<commit>>)
    <2>1. Ordered(patches) /\ \A s \in ToSet(patches) : RepairStep(s, j, patches) /\ s.do \in {"raise", "backup", "patch"}
      BY <1>5, <1>6, <1>8, PatchStepsAre
    <2>2. last.do = "last" /\ commit.do = "commit"
      BY <1>11, <1>12
    <2>3. Ordered(<<commit>>) /\ ToSet(<<commit>>) = {commit}
      BY OrderedOne
    <2>4. Ordered(between) /\ ToSet(between) = IF patches = << >> THEN {} ELSE {last}
      BY <1>13, OrderedOne, OrderedNone
    <2> DEFINE first == patches \o between
               steps == first \o <<commit>>
    <2>5. Ordered(first) /\ ToSet(first) = ToSet(patches) \cup ToSet(between)
      <3>1. \A x \in ToSet(patches), y \in ToSet(between) : Comes(x, y)
        BY <2>1, <2>2, <2>4, EndComes DEF Plain
      <3> QED
        BY <2>1, <2>4, <3>1, OrderedConcat
    <2> HIDE DEF first
    <2>6. Ordered(steps) /\ ToSet(steps) = ToSet(patches) \cup ToSet(between) \cup {commit}
      <3>1. \A x \in ToSet(first), y \in ToSet(<<commit>>) : Comes(x, y)
        <4> SUFFICES ASSUME NEW x \in ToSet(first) PROVE Comes(x, commit)
          BY <2>3
        <4>1. CASE x \in ToSet(patches)
          BY <2>1, <2>2, <4>1, EndComes DEF Plain
        <4>2. CASE x \in ToSet(between)
          BY <2>2, <2>4, <4>2 DEF Comes, Finals
        <4> QED
          BY <2>5, <4>1, <4>2
      <3> QED
        BY <2>3, <2>5, <3>1, OrderedConcat
    <2> HIDE DEF steps
    <2>7. \A s \in ToSet(steps) : RepairStep(s, j, steps) /\ s.do \in {"raise", "backup", "patch", "last", "commit"}
      <3> SUFFICES ASSUME NEW s \in ToSet(steps)
                   PROVE RepairStep(s, j, steps) /\ s.do \in {"raise", "backup", "patch", "last", "commit"}
        OBVIOUS
      <3>1. CASE s \in ToSet(patches)
        <4>1. Grows(j, j)
          BY DEF Grows
        <4> QED
          BY <2>1, <2>6, <3>1, <4>1, GrowsStep
      <3>2. CASE s \in ToSet(between) \cup {commit}
        BY <2>2, <2>4, <3>2 DEF RepairStep
      <3> QED
        BY <2>6, <3>1, <3>2
    <2>8. commit \in ToSet(steps) /\ commit.do \in Finals
      BY <2>2, <2>6 DEF Finals
    <2>9. \/ \E s \in ToSet(steps) : s.do = "last"
          \/ Fresh(Mine) /\ \A s \in ToSet(steps) : s.do = "commit"
      <3>1. CASE patches = << >>
        <4>1. ToSet(patches) = {}
          BY <3>1, OrderedNone
        <4> QED
          BY <1>2, <1>5, <1>16, <2>2, <2>4, <2>6, <3>1, <4>1
      <3>2. CASE patches # << >>
        BY <2>2, <2>4, <2>6, <3>2
      <3> QED
        BY <3>1, <3>2
    <2>10. Then(steps)
      BY <1>16 DEF steps, first
    <2> QED
      BY <1>1, <1>2, <2>6, <2>7, <2>8, <2>9, <2>10, GoesOn
  <1> QED
    BY <1>7, <1>8, <1>9, <1>10, <1>11, <1>12, <1>13, <1>14, <1>15, <1>16 DEF Round

\* What a synchronisation writes is a partition as the store leaves it.
LEMMA SyncedGood ==
  ASSUME DiskInv, commits' = commits + 1, world' = world, NEW range, NEW s, FetchStep(s, range), NEW p, s.path = p,
         range.dataset \in world.datasets, NEW content,
         content = IF s.do = "mark" THEN Committed(Content(p) \cup s.days, 0)
                   ELSE Committed(Upsert(p[1], Content(p), s.rows), commits + 1)
  PROVE  p \in Path /\ GoodPartition(p, content)'
  <1>1. commits \in Nat /\ world \in Worlds
    BY DEF DiskInv
  <1>2. CASE s.do = "mark" /\ s.path = Checkpoint(range.dataset)
    <2>1. p \in Path /\ p[2] = Missing
      BY <1>1, <1>2, PathIs DEF Checkpoint
    <2> QED
      BY <1>1, <1>2, <2>1 DEF GoodPartition, Committed
  <1>3. CASE s.do = "write" /\ s.path \in Path /\ s.path[2] # Missing /\ (s.path[1] = "trade_cal" => InPlace(s.rows, s.path[2]))
    <2>1. ASSUME p[1] = "trade_cal" PROVE InPlace(Upsert(p[1], Content(p), s.rows), p[2])
      <3>1. InPlace(Content(p), p[2])
        BY <1>3, <2>1, ContentInPlace
      <3> QED
        BY <1>3, <2>1, <3>1, UpsertStays
    <2> QED
      BY <1>1, <1>3, <2>1 DEF GoodPartition, Committed
  <1> QED
    BY <1>2, <1>3 DEF FetchStep

LEMMA SyncKeeps == ASSUME IInv, Sync PROVE IInv'
  <1>1. /\ world' = world /\ status' = status /\ report' = report /\ repairs' = repairs /\ tool' = tool /\ tool = Idle
        /\ faults' = faults /\ commits' = commits + 1
    BY DEF Sync, Ready
  <1>2. Onward /\ ReportInv' /\ RepairsInv'
    BY <1>1, Unchanged, ReportStays, JournalsStay DEF IInv, DiskInv
  <1>3. PICK range \in world.syncs :
          LET steps == FetchSteps(range)
              fetched == {steps[k].path : k \in DOMAIN steps}
              Of(p) == steps[CHOOSE k \in DOMAIN steps : steps[k].path = p]
              New(p) == IF Of(p).do = "mark" THEN Committed(Content(p) \cup Of(p).days, 0)
                        ELSE Committed(Upsert(p[1], Content(p), Of(p).rows), commits + 1)
          IN disk' = [p \in DOMAIN disk \cup fetched |-> IF p \in fetched THEN New(p) ELSE disk[p]]
    BY DEF Sync
  <1>4. PICK steps : steps = FetchSteps(range)
    OBVIOUS
  <1> DEFINE fetched == {steps[k].path : k \in DOMAIN steps}
             Of(p) == steps[CHOOSE k \in DOMAIN steps : steps[k].path = p]
             New(p) == IF Of(p).do = "mark" THEN Committed(Content(p) \cup Of(p).days, 0)
                       ELSE Committed(Upsert(p[1], Content(p), Of(p).rows), commits + 1)
  <1>5. disk' = [p \in DOMAIN disk \cup fetched |-> IF p \in fetched THEN New(p) ELSE disk[p]]
    BY <1>3, <1>4
  <1>6. world \in Worlds /\ GoodRange(range, world.datasets) /\ range.dataset \in world.datasets
    BY WorldsAssumption DEF GoodRange, IInv, DiskInv, Days
  <1>7. \A k \in DOMAIN steps : FetchStep(steps[k], range)
    <2>1. \A s \in ToSet(steps) : FetchStep(s, range)
      BY <1>4, <1>6, FetchStepsAre DEF IInv
    <2> QED
      BY <2>1 DEF ToSet
  <1>8. ASSUME NEW p \in fetched PROVE p \in Path /\ \E c : c = New(p) /\ GoodPartition(p, c)'
    <2>1. PICK k \in DOMAIN steps : k = (CHOOSE l \in DOMAIN steps : steps[l].path = p) /\ steps[k].path = p
      <3>1. \E l \in DOMAIN steps : steps[l].path = p
        BY <1>8
      <3> QED
        BY <3>1
    <2>2. FetchStep(steps[k], range)
      BY <1>7
    <2>3. PICK s : s = steps[k]
      OBVIOUS
    <2>4. PICK content : content = New(p)
      OBVIOUS
    <2>5. s.path = p /\ FetchStep(s, range) /\ Of(p) = s
      BY <2>1, <2>2, <2>3
    <2>6. content = IF s.do = "mark" THEN Committed(Content(p) \cup s.days, 0)
                    ELSE Committed(Upsert(p[1], Content(p), s.rows), commits + 1)
      <3> HIDE DEF Of
      <3> QED
        BY <2>4, <2>5
    <2>7. p \in Path /\ GoodPartition(p, content)'
      <3> HIDE DEF fetched, New
      <3> QED
        BY <1>1, <1>6, <2>5, <2>6, SyncedGood DEF IInv
    <2> HIDE DEF New, fetched
    <2> QED
      BY <2>4, <2>7
  <1> HIDE DEF fetched, New
  <1>9. DOMAIN disk \subseteq Path /\ DOMAIN disk' = DOMAIN disk \cup fetched /\ Path' = Path
    BY <1>1, <1>5 DEF IInv, DiskInv, Path
  <1>10. ASSUME NEW p \in DOMAIN disk' PROVE p \in Path /\ \E c : c = disk'[p] /\ GoodPartition(p, c)'
    <2>1. CASE p \in fetched
      BY <1>5, <1>8, <1>9, <2>1
    <2>2. CASE p \notin fetched
      <3>1. PICK c : c = disk[p]
        OBVIOUS
      <3>2. c = disk'[p] /\ GoodPartition(p, c)
        BY <1>5, <1>9, <1>10, <2>2, <3>1 DEF IInv, DiskInv
      <3>3. GoodPartition(p, c)'
        BY <1>2, <3>2, PartitionStays
      <3> QED
        BY <1>9, <1>10, <2>2, <3>2, <3>3
    <2> QED
      BY <2>1, <2>2
  <1>11. (\A p \in DOMAIN disk : GoodPartition(p, disk[p]))'
    BY <1>10 DEF GoodPartition
  <1>12. DiskInv'
    BY <1>1, <1>9, <1>10, <1>11 DEF IInv, DiskInv
  <1>13. ToolInv'
    BY <1>1 DEF ToolInv
  <1> QED
    BY <1>2, <1>12, <1>13 DEF IInv

\* A step changes nothing of what matters, or is one of the actions.
LEMMA StutterKeeps == ASSUME IInv, UNCHANGED vars PROVE IInv'
  <1>1. /\ world' = world /\ disk' = disk /\ status' = status /\ report' = report /\ repairs' = repairs /\ tool' = tool
        /\ commits' = commits /\ faults' = faults
    BY DEF vars
  <1>2. Onward /\ DiskInv' /\ ReportInv' /\ RepairsInv'
    BY <1>1, Unchanged, DiskStays, ReportStays, JournalsStay DEF IInv, DiskInv
  <1>3. ToolInv'
    <2>1. CASE tool = Idle
      BY <1>1, <2>1 DEF ToolInv
    <2>2. CASE tool # Idle
      <3>1. PICK j : j = Mine
        OBVIOUS
      <3>2. PICK todo : todo = tool.todo
        OBVIOUS
      <3>3. /\ {"id", "todo"} \subseteq DOMAIN tool /\ tool.id \in DOMAIN repairs /\ TodoInv(todo)
            /\ Repairing => {"scope", "issues", "decided", "rounds", "detected"} \subseteq DOMAIN tool
            /\ IF Repairing THEN RepairInv(j) ELSE RestoreInv(j, todo)
        BY <2>2, <3>1, <3>2 DEF ToolInv, IInv
      <3>4. Mine' = j /\ tool'.todo = todo /\ (Repairing' <=> Repairing)
        BY <1>1, <3>1, <3>2 DEF Mine, Repairing
      <3>5. ASSUME Repairing PROVE RepairInv(j)'
        <4>1. RepairInv(j)
          BY <3>3, <3>5
        <4>2. Untouched(j)' /\ Listed(j)'
          BY <1>1, <4>1, SameDisk DEF RepairInv
        <4>3. \A s, jj, rest : RepairStep(s, jj, rest) => RepairStep(s, jj, rest)'
          BY <1>1, StepStays
        <4>4. (\A s \in ToSet(tool.todo) : RepairStep(s, j, tool.todo))'
          BY <1>1, <4>1, <4>3 DEF RepairInv
        <4>5. FreshInv(j)'
          BY <1>1, <4>1 DEF RepairInv, FreshInv, Fresh, Lake, Tables
        <4> QED
          BY <1>1, <4>1, <4>2, <4>4, <4>5 DEF RepairInv
      <3>6. ASSUME ~Repairing PROVE RestoreInv(j, todo)'
        BY <1>1, <3>3, <3>6, RestoreStays
      <3> QED
        BY <1>1, <3>3, <3>4, <3>5, <3>6 DEF ToolInv
    <2> QED
      BY <2>1, <2>2
  <1> QED
    BY <1>2, <1>3 DEF IInv

-----------------------------------------------------------------------------
(* The buffers. *)

LEMMA BufferableGrows ==
  ASSUME world' = world, NEW j, NEW jj, Grows(j, jj), NEW s, Bufferable(s, j)
  PROVE  Bufferable(s, jj)'
  <1>1. Path' = Path
    BY DEF Path
  <1>2. s.path[1] = "trade_cal" \/ MayChange(jj, s.path)
    BY GrowsMayChange DEF Bufferable
  <1> QED
    BY <1>1, <1>2 DEF Bufferable, MayChange, Added, Backed

LEMMA TouchedStatus ==
  ASSUME NEW j, DOMAIN j = JournalFields, NEW path
  PROVE  Touched(j, path).status = j.status /\ DOMAIN Touched(j, path) = JournalFields
  BY DEF Touched, JournalFields

\* Nothing is in the buffers while a repair goes on.
LEMMA BufferStays ==
  ASSUME IInv, BufferInv, tool.todo # << >>, Repairing, store' = store, tool'.id = tool.id,
         repairs'[tool.id].status = Mine.status
  PROVE  BufferInv'
  <1>1. tool # Idle
    BY Working DEF IInv
  <1>2. store = Closed /\ Mine.status # "ROLLED_BACK"
    BY <1>1 DEF BufferInv
  <1>3. Mine' = repairs'[tool.id]
    BY DEF Mine
  <1>4. store' = Closed /\ Mine'.status # "ROLLED_BACK"
    BY <1>2, <1>3
  <1> QED
    BY <1>4 DEF BufferInv, Closed

\* What a failed write has left is in the buffers while the repair is undone.
LEMMA UndoneBuffers ==
  ASSUME IInv, BufferInv, tool.todo # << >>, Repairing, world' = world, repairs' = repairs,
         NEW kept, Undone(kept), kept = {} \/ (Step.do = "write" /\ kept = Pending)
  PROVE  BufferInv'
  <1>1. PICK j : j = Mine
    OBVIOUS
  <1>2. /\ tool # Idle /\ tool.id \in DOMAIN repairs /\ {"id", "todo"} \subseteq DOMAIN tool
        /\ RepairInv(j) /\ JournalInv(j)
    BY <1>1, Working DEF IInv
  <1>3. j.status # "ROLLED_BACK"
    BY <1>1, <1>2 DEF BufferInv
  <1>4. PICK todo : todo = RestoreSteps(j)
    OBVIOUS
  <1>5. "restored" \in {s.do : s \in ToSet(todo)}
    BY <1>2, <1>4, RestoreBegins DEF IInv
  <1>6. tool' = [tool EXCEPT !.todo = todo]
    BY <1>1, <1>4 DEF Undone
  <1>7. tool'.id = tool.id /\ tool'.todo = todo
    BY <1>2, <1>6
  <1>8. Mine' = j /\ ~Repairing'
    BY <1>1, <1>5, <1>7 DEF Mine, Repairing
  <1>9. tool' # Idle
    BY <1>5, <1>7, OrderedNone DEF Idle
  <1>10. ASSUME NEW s \in kept PROVE Bufferable(s, j)'
    <2>1. s \in ToSet(tool.todo) /\ s.do = "write"
      BY <1>10 DEF Pending, Range, ToSet
    <2>2. RepairStep(s, j, tool.todo)
      BY <1>2, <2>1 DEF RepairInv
    <2>3. Bufferable(s, j)
      BY <2>1, <2>2 DEF RepairStep, Bufferable
    <2>4. Grows(j, j)
      BY DEF Grows
    <2> QED
      BY <2>3, <2>4, BufferableGrows
  <1>11. CASE kept = {}
    <2>1. store' = Closed
      BY <1>11 DEF Undone
    <2> QED
      BY <1>3, <1>8, <2>1 DEF BufferInv, Closed
  <1>12. CASE kept # {}
    <2>1. DOMAIN store' = {"id", "kept"} /\ store'.id = tool.id /\ store'.kept = kept
      BY <1>12 DEF Undone
    <2>2. repairs'[store'.id] = j /\ store'.id \in DOMAIN repairs'
      BY <1>1, <1>2, <2>1 DEF Mine
    <2>3. \A s \in store'.kept : Bufferable(s, j)'
      BY <1>10, <2>1
    <2> QED
      BY <1>3, <1>7, <1>8, <1>9, <1>12, <2>1, <2>2, <2>3 DEF BufferInv
  <1> QED
    BY <1>11, <1>12

\* They stay there while it is undone.
LEMMA RestoringBuffers ==
  ASSUME IInv, BufferInv, tool.todo # << >>, ~Repairing, Step.do # "restored", Then(<< >>), world' = world,
         NEW jj, Grows(Mine, jj), jj.status = Mine.status, repairs'[tool.id] = jj, DOMAIN repairs' = DOMAIN repairs
  PROVE  BufferInv'
  <1>1. PICK j : j = Mine
    OBVIOUS
  <1>2. /\ tool # Idle /\ TodoInv(tool.todo) /\ tool.id \in DOMAIN repairs /\ {"id", "todo"} \subseteq DOMAIN tool
    BY Working DEF IInv
  <1>3. PICK rest : rest = Tail(tool.todo)
    OBVIOUS
  <1>4. ToSet(tool.todo) = {Step} \cup ToSet(rest) /\ Ordered(rest)
    BY <1>2, <1>3, TodoHead DEF Step
  <1>5. "restored" \in {s.do : s \in ToSet(rest)}
    BY <1>4 DEF Repairing
  <1>6. tool'.id = tool.id /\ tool'.todo = rest
    <2>1. << >> \o rest = rest
      BY <1>4 DEF Ordered
    <2> QED
      BY <1>2, <1>3, <2>1 DEF Then
  <1>7. tool' # Idle /\ ~Repairing' /\ Mine' = jj
    <2>1. rest # << >>
      BY <1>5, OrderedNone
    <2> QED
      BY <1>5, <1>6, <2>1 DEF Idle, Repairing, Mine
  <1>8. store' = store /\ jj.status # "ROLLED_BACK"
    BY <1>2 DEF Then, BufferInv
  <1>9. ASSUME store # Closed
        PROVE  /\ DOMAIN store = {"id", "kept"} /\ store.id = tool.id /\ store.kept # {}
               /\ \A s \in store.kept : Bufferable(s, jj)'
    <2>1. /\ DOMAIN store = {"id", "kept"} /\ store.id = tool.id /\ store.kept # {}
          /\ \A s \in store.kept : Bufferable(s, j)
      BY <1>1, <1>2, <1>9 DEF BufferInv, Mine
    <2> QED
      BY <1>1, <2>1, BufferableGrows
  <1>10. (store # Closed =>
            /\ DOMAIN store = {"id", "kept"} /\ store.id \in DOMAIN repairs /\ store.kept # {}
            /\ \A s \in store.kept : Bufferable(s, repairs[store.id]))'
    <2>1. store' # Closed => store # Closed
      BY <1>8
    <2>2. Closed' = Closed
      BY DEF Closed
    <2>3. store # Closed => (\A s \in store.kept : Bufferable(s, repairs[store.id]))'
      BY <1>8, <1>9
    <2> QED
      BY <1>2, <1>8, <1>9, <2>1, <2>2, <2>3
  <1>11. store' # Closed => tool'.id = store'.id
    BY <1>6, <1>8, <1>9
  <1> QED
    BY <1>7, <1>8, <1>10, <1>11 DEF BufferInv, Closed

\* When nothing is left to undo each path is as it was.
LEMMA RestoredAll ==
  ASSUME IInv, Restored, NEW path \in Path, Restorable(Mine, path)
  PROVE  Same(disk, Mine.origin, path)
  <1>1. PICK j : j = Mine
    OBVIOUS
  <1>2. tool.todo # << >> /\ Step.do = "restored"
    BY DEF Restored, Doing
  <1>3. TodoInv(tool.todo) /\ Step \in ToSet(tool.todo)
    BY <1>1, <1>2, Working DEF IInv
  <1>4. RestoreInv(j, tool.todo)
    <2>1. ~Repairing
      BY <1>2, <1>3 DEF Repairing
    <2> QED
      BY <1>1, <1>2, <2>1, Working DEF IInv
  <1>5. ToSet(tool.todo) = {Step}
    <2>1. ToSet(Tail(tool.todo)) = {} /\ ToSet(tool.todo) = {Step} \cup ToSet(Tail(tool.todo))
      BY <1>2, <1>3, TodoHead DEF Step, Finals
    <2> QED
      BY <2>1
  <1>6. Settled(j, path, tool.todo)
    BY <1>1, <1>4 DEF RestoreInv
  <1>7. Puts(path, tool.todo) = {} /\ Removes(path, tool.todo) = {}
    BY <1>2, <1>5 DEF Puts, Removes
  <1> QED
    BY <1>1, <1>6, <1>7 DEF Settled, Same

\* A repair that is undone has left all that it may change as it was.
LEMMA RestoredIs ==
  ASSUME IInv, Restored, NEW j, j = Mine, NEW jj, jj = [j EXCEPT !.status = "ROLLED_BACK", !.output = << >>]
  PROVE  /\ Grows(j, jj) /\ jj.status = "ROLLED_BACK" /\ repairs'[tool.id] = jj /\ tool.id \in DOMAIN repairs'
         /\ DOMAIN repairs' = DOMAIN repairs /\ JournalInv(jj) /\ AllBefore(jj)'
  <1>1. j = Mine
    OBVIOUS
  <1>2. jj = [j EXCEPT !.status = "ROLLED_BACK", !.output = << >>]
    OBVIOUS
  <1>3. JournalInv(j) /\ tool.id \in DOMAIN repairs
    <2>1. tool.todo # << >>
      BY DEF Restored, Doing
    <2> QED
      BY <1>1, <2>1, Working DEF IInv
  <1>4. /\ DOMAIN jj = JournalFields /\ jj.status = "ROLLED_BACK" /\ jj.datasets = j.datasets /\ jj.entries = j.entries
        /\ jj.before = j.before /\ jj.origin = j.origin /\ jj.completed = j.completed /\ jj.touched = j.touched
        /\ jj.late = j.late
    BY <1>2, <1>3 DEF JournalInv, JournalFields
  <1>5. Backed(jj) = Backed(j) /\ (\A p : Added(jj, p) <=> Added(j, p)) /\ \A p : Readded(jj, p) <=> Readded(j, p)
    BY <1>4 DEF Backed, Added, Readded
  <1>6. JournalInv(jj)
    BY <1>3, <1>4, <1>5 DEF JournalInv
  <1>7. AllBefore(jj)'
    <2> SUFFICES ASSUME NEW p \in Path, Restorable(jj, p) PROVE Same(disk', jj.origin, p)
      <3>1. Path' = Path /\ \A p : Restorable(jj, p)' <=> Restorable(jj, p)
        BY DEF Restored, Path, Restorable, MayChange, Added, Readded, Backed
      <3> QED
        BY <3>1 DEF AllBefore
    <2>1. Restorable(j, p)
      BY <1>4, <1>5 DEF Restorable, MayChange
    <2>2. Same(disk, j.origin, p)
      BY <1>1, <2>1, RestoredAll
    <2> QED
      BY <1>4, <2>2 DEF Restored
  <1>8. repairs' = [repairs EXCEPT ![tool.id] = jj]
    BY <1>1, <1>2 DEF Restored, Mine
  <1>9. repairs'[tool.id] = jj /\ DOMAIN repairs' = DOMAIN repairs /\ tool.id \in DOMAIN repairs'
    BY <1>3, <1>8
  <1>10. Grows(j, jj)
    BY <1>4, <1>5 DEF Grows
  <1> QED
    BY <1>4, <1>6, <1>7, <1>9, <1>10

LEMMA RestoredBuffers == ASSUME IInv, BufferInv, Restored PROVE BufferInv'
  <1>1. world' = world /\ tool.todo # << >> /\ tool' = Idle /\ store' = store
    BY DEF Restored, Doing
  <1>2. tool # Idle
    BY <1>1, Working DEF IInv
  <1>3. PICK j : j = Mine
    OBVIOUS
  <1>4. PICK jj : jj = [j EXCEPT !.status = "ROLLED_BACK", !.output = << >>]
    OBVIOUS
  <1>5. /\ Grows(j, jj) /\ jj.status = "ROLLED_BACK" /\ repairs'[tool.id] = jj /\ tool.id \in DOMAIN repairs'
        /\ AllBefore(jj)'
    BY <1>3, <1>4, RestoredIs
  <1>6. CASE store = Closed
    BY <1>1, <1>6 DEF BufferInv, Closed
  <1>7. CASE store # Closed
    <2>1. /\ DOMAIN store = {"id", "kept"} /\ store.id = tool.id /\ store.kept # {}
          /\ \A s \in store.kept : Bufferable(s, j)
      BY <1>2, <1>3, <1>7 DEF BufferInv, Mine
    <2>2. \A s \in store.kept : Bufferable(s, jj)'
      BY <1>1, <1>5, <2>1, BufferableGrows
    <2>3. (\A s \in store.kept : Bufferable(s, repairs[store.id]))'
      BY <1>1, <1>5, <2>1, <2>2
    <2>4. AllBefore(repairs[store.id])'
      BY <1>1, <1>5, <2>1
    <2> QED
      BY <1>1, <1>5, <2>1, <2>3, <2>4 DEF BufferInv
  <1> QED
    BY <1>6, <1>7

\* The store is closed: a flush of a partition adds its rows to what there is.
LEMMA FlushedKeeps ==
  ASSUME IInv, BufferInv, Onward, commits' = commits + 1, faults' = faults, tool = Idle, tool' = tool,
         status' = status, report' = report, NEW s \in store.kept, ~Unlisted(s.path), Flush(s)
  PROVE  IInv' /\ BufferInv' /\ \E jj : jj = repairs'[store.id] /\ AllBefore(jj)'
  <1>1. PICK path, j : path = s.path /\ j = repairs[store.id]
    OBVIOUS
  <1>2. /\ DOMAIN store = {"id", "kept"} /\ store.id \in DOMAIN repairs /\ Bufferable(s, j) /\ JournalInv(j)
        /\ (\A t \in store.kept : Bufferable(t, j)) /\ j.status = "ROLLED_BACK" /\ AllBefore(j)
    <2>1. store # Closed
      BY DEF Closed
    <2> QED
      BY <1>1, <2>1 DEF BufferInv, IInv, RepairsInv
  <1>3. path \in Path /\ path[2] # Missing /\ (path[1] = "trade_cal" \/ MayChange(j, path))
    BY <1>1, <1>2 DEF Bufferable
  <1>4. PICK flaw : flaw = IF path \in DOMAIN disk THEN disk[path].flaw ELSE "none"
    OBVIOUS
  <1>5. PICK rows : rows = Appended(path[1], Content(path), s.rows)
    OBVIOUS
  <1>6. PICK content : content = [flaw |-> flaw, rows |-> rows, commit |-> commits + 1]
    OBVIOUS
  <1>7. PICK jt : jt = Touched(j, path)
    OBVIOUS
  <1>8. PICK jj : jj = [jt EXCEPT !.late = @ \cup {path}]
    OBVIOUS
  <1>9. /\ disk' = With(path, content) /\ repairs' = [repairs EXCEPT ![store.id] = jj]
        /\ store' = IF store.kept \ {s} = {} THEN Closed ELSE [store EXCEPT !.kept = store.kept \ {s}]
    <2>1. /\ disk' = With(path, [flaw |-> IF path \in DOMAIN disk THEN disk[path].flaw ELSE "none",
                                 rows |-> Appended(path[1], Content(path), s.rows), commit |-> commits + 1])
          /\ repairs' = [repairs EXCEPT ![store.id] = [Touched(repairs[store.id], path) EXCEPT !.late = @ \cup {path}]]
          /\ store' = IF store.kept \ {s} = {} THEN Closed ELSE [store EXCEPT !.kept = store.kept \ {s}]
      BY <1>1 DEF Flush
    <2>2. repairs' = [repairs EXCEPT ![store.id] = [Touched(j, path) EXCEPT !.late = @ \cup {path}]]
      BY <1>1, <2>1
    <2> QED
      BY <1>4, <1>5, <1>6, <1>7, <1>8, <2>1, <2>2
  <1>10. GoodPartition(path, content)'
    <2>1. content.flaw = flaw /\ content.rows = rows /\ content.commit = commits + 1
      BY <1>6
    <2>2. flaw \in Flaws \cup {"none"}
      BY <1>4 DEF IInv, DiskInv, GoodPartition
    <2>3. path[1] = "trade_cal" => InPlace(rows, path[2])
      <3>1. ASSUME path[1] = "trade_cal" PROVE InPlace(Content(path), path[2])
        BY <1>3, <3>1, ContentInPlace DEF IInv
      <3> QED
        BY <1>1, <1>2, <1>5, <3>1, UpsertStays DEF Bufferable
    <2>4. content.commit \in 0 .. commits'
      BY <2>1 DEF Onward
    <2> QED
      BY <2>1, <2>2, <2>3, <2>4 DEF GoodPartition
  <1>11. /\ DiskInv' /\ DOMAIN disk' = DOMAIN disk \cup {path} /\ disk'[path] = content
         /\ \A p \in DOMAIN disk : p # path => disk'[p] = disk[p]
    <2>1. faults' \in 0 .. MaxFaults
      BY DEF IInv, DiskInv
    <2> QED
      BY <1>3, <1>9, <1>10, <2>1, DiskWith DEF IInv
  <1>12. /\ JournalInv(jt) /\ Grows(j, jt) /\ jt.before = j.before /\ jt.late = j.late /\ Backed(jt) = Backed(j)
         /\ jt.touched \cup jt.completed = j.touched \cup j.completed \cup {path} /\ j.completed \subseteq jt.completed
         /\ DOMAIN jt = JournalFields /\ jt.status = j.status
    <2>1. DOMAIN j = JournalFields
      BY <1>2 DEF JournalInv
    <2> QED
      BY <1>2, <1>3, <1>7, <2>1, TouchedGood, TouchedStatus
  <1>13. /\ DOMAIN jj = JournalFields /\ jj.late = j.late \cup {path} /\ jj.status = jt.status /\ jj.datasets = jt.datasets
         /\ jj.output = jt.output /\ jj.entries = jt.entries /\ jj.before = jt.before /\ jj.origin = jt.origin
         /\ jj.left = jt.left /\ jj.touched = jt.touched /\ jj.completed = jt.completed
    BY <1>8, <1>12 DEF JournalFields
  <1>14. Backed(jj) = Backed(j) /\ (\A p : Added(jj, p) <=> Added(j, p)) /\ (\A p : Added(jj, p) <=> Added(jt, p)) /\ Grows(j, jj)
    BY <1>12, <1>13 DEF Backed, Added, Grows
  <1>15. JournalInv(jj)
    <2>1. jj.late \subseteq jj.touched \cup jj.completed
      BY <1>2, <1>12, <1>13 DEF JournalInv
    <2> QED
      BY <1>12, <1>13, <1>14, <2>1 DEF JournalInv
  <1>16. RepairsInv' /\ DOMAIN repairs' = DOMAIN repairs /\ repairs'[store.id] = jj
    BY <1>2, <1>9, <1>15, OneJournal DEF IInv
  <1>17. IInv'
    <2>1. ReportInv' /\ ToolInv'
      BY ReportStays DEF IInv, Onward, ToolInv
    <2> QED
      BY <1>11, <1>16, <2>1 DEF IInv
  <1>18. AllBefore(jj)'
    <2> SUFFICES ASSUME NEW p \in Path, Restorable(jj, p) PROVE Same(disk', jj.origin, p) \/ HasMore(jj, p)'
      <3>1. Path' = Path /\ \A p : Restorable(jj, p)' <=> Restorable(jj, p)
        BY DEF Onward, Path, Restorable, MayChange, Added, Readded, Backed
      <3> QED
        BY <3>1 DEF AllBefore
    <2>1. Restorable(j, p) /\ jj.origin = j.origin
      BY <1>12, <1>13, <1>14 DEF Restorable, MayChange, Readded, Grows
    <2>2. Same(disk, j.origin, p) \/ HasMore(j, p)
      BY <1>2, <2>1 DEF AllBefore
    <2>3. CASE p # path
      BY <1>11, <1>13, <2>1, <2>2, <2>3 DEF Same, HasMore
    <2>4. CASE p = path
      <3>1. p \in DOMAIN j.origin => j.origin[p].rows \subseteq Content(p)
        BY <2>2 DEF Same, HasMore, Content
      <3>2. Content(p) \subseteq disk'[p].rows
        BY <1>5, <1>6, <1>11, <2>4 DEF Appended
      <3> QED
        BY <1>11, <1>13, <2>1, <2>4, <3>1, <3>2 DEF HasMore
    <2> QED
      BY <2>3, <2>4
  <1>19. BufferInv'
    <2>1. CASE store' = Closed
      BY <2>1 DEF BufferInv, Closed
    <2>2. CASE store.kept \ {s} # {}
      <3>1. DOMAIN store' = {"id", "kept"} /\ store'.id = store.id /\ store'.kept = store.kept \ {s}
        BY <1>2, <1>9, <2>2
      <3>2. \A t \in store'.kept : Bufferable(t, jj)'
        BY <1>2, <1>14, <3>1, BufferableGrows DEF Onward
      <3>3. (\A t \in store.kept : Bufferable(t, repairs[store.id]))'
        BY <1>16, <3>1, <3>2
      <3>4. AllBefore(repairs[store.id])'
        BY <1>16, <1>18, <3>1
      <3>5. repairs'[store'.id].status = "ROLLED_BACK" /\ store'.id \in DOMAIN repairs'
        BY <1>2, <1>12, <1>13, <1>16, <3>1
      <3> QED
        BY <2>2, <3>1, <3>3, <3>4, <3>5 DEF BufferInv
    <2> QED
      BY <1>9, <2>1, <2>2
  <1> QED
    BY <1>16, <1>17, <1>18, <1>19

LEMMA CloseKeeps ==
  ASSUME IInv, BufferInv, Close
  PROVE  IInv' /\ BufferInv' /\ store # Closed /\ \E jj : jj = repairs'[store.id] /\ AllBefore(jj)'
  <1>1. PICK s \in store.kept : Flush(s)
    BY DEF Close
  <1>2. world' = world /\ status' = status /\ report' = report /\ tool' = tool /\ faults' = faults /\ tool = Idle /\ store # Closed
    BY <1>1 DEF Close, Closed
  <1>3. CASE Unlisted(s.path)
    <2>1. store' = Closed /\ disk' = disk /\ repairs' = repairs /\ commits' = commits
      BY <1>1, <1>3 DEF Flush
    <2>2. DiskInv' /\ ReportInv' /\ RepairsInv' /\ ToolInv'
      BY <1>2, <2>1, Unchanged, DiskStays, ReportStays, JournalsStay DEF IInv, DiskInv, ToolInv
    <2>3. BufferInv'
      BY <1>2, <2>1 DEF BufferInv, Closed
    <2>4. AllBefore(repairs[store.id])
      BY <1>2 DEF BufferInv
    <2>5. \E jj : jj = repairs'[store.id] /\ AllBefore(jj)'
      <3>1. PICK j : j = repairs[store.id]
        OBVIOUS
      <3>2. AllBefore(j)'
        BY <1>2, <2>1, <2>4, <3>1 DEF AllBefore, Path, Same, HasMore, Restorable, MayChange, Added, Readded, Backed
      <3> QED
        BY <2>1, <3>1, <3>2
    <2> QED
      BY <1>2, <2>2, <2>3, <2>5 DEF IInv
  <1>4. CASE ~Unlisted(s.path)
    <2>1. commits' = commits + 1
      BY <1>1, <1>4 DEF Flush
    <2>2. Onward
      BY <1>2, <2>1, Unchanged DEF IInv
    <2> QED
      BY <1>1, <1>2, <1>4, <2>1, <2>2, FlushedKeeps
  <1> QED
    BY <1>3, <1>4

\* A step of a repair or of its undoing that ends neither.
LEMMA WorkBuffers ==
  ASSUME IInv, BufferInv, Work
  PROVE  BufferInv'
  <1>1. CASE Restored
    BY <1>1, RestoredBuffers
  <1>2. CASE Settle
    <2>1. tool.todo # << >> /\ Step.do = "commit" /\ tool' = Idle /\ store' = store
      BY <1>2 DEF Settle, Doing
    <2>2. Repairing /\ tool # Idle
      BY <2>1, IsRepairing, Working DEF IInv
    <2>3. store' = Closed
      BY <2>1, <2>2 DEF BufferInv
    <2> QED
      BY <2>1, <2>3 DEF BufferInv, Closed
  <1>3. ASSUME tool.todo # << >>
        PROVE  /\ tool # Idle /\ tool.id \in DOMAIN repairs /\ {"id", "todo"} \subseteq DOMAIN tool /\ DOMAIN Mine = JournalFields
               /\ \A rest, x : tool' = [tool EXCEPT !.todo = rest] => tool'.id = tool.id
    <2>1. tool # Idle /\ tool.id \in DOMAIN repairs /\ {"id", "todo"} \subseteq DOMAIN tool /\ JournalInv(Mine)
      BY <1>3, Working DEF IInv
    <2> QED
      BY <2>1 DEF JournalInv
  <1>4. ASSUME tool.todo # << >>, NEW steps, Then(steps) PROVE store' = store /\ tool'.id = tool.id
    BY <1>3, <1>4 DEF Then
  <1>5. ASSUME tool.todo # << >>, NEW path, Touch(path)
        PROVE  /\ repairs'[tool.id] = Touched(Mine, path) /\ repairs'[tool.id].status = Mine.status
               /\ DOMAIN repairs' = DOMAIN repairs
    <2>1. repairs'[tool.id] = Touched(Mine, path) /\ DOMAIN repairs' = DOMAIN repairs
      BY <1>3, <1>5 DEF Touch, Mine
    <2> QED
      BY <1>3, <1>5, <2>1, TouchedStatus
  <1>6. ASSUME tool.todo # << >>, NEW j, NEW paths, j.status = Mine.status, DOMAIN j = JournalFields,
               repairs' = [repairs EXCEPT ![tool.id] = BackedUp(j, paths)]
        PROVE  repairs'[tool.id].status = Mine.status
    <2>1. repairs'[tool.id] = BackedUp(j, paths)
      BY <1>3, <1>6
    <2>2. BackedUp(j, paths).status = j.status
      BY <1>6 DEF BackedUp, JournalFields
    <2> QED
      BY <1>6, <2>1, <2>2
  <1>7. CASE Backup
    <2>1. tool.todo # << >> /\ Step.do = "backup" /\ Then(<< >>) /\ repairs' = [repairs EXCEPT ![tool.id] = BackedUp(Mine, {Step.path})]
      BY <1>7 DEF Backup, Doing, Mine
    <2> QED
      BY <1>3, <1>4, <1>6, <2>1, IsRepairing, BufferStays DEF IInv
  <1>8. CASE BackUpRange
    <2>1. tool.todo # << >> /\ Step.do = "refetch"
      BY <1>8 DEF BackUpRange, Doing
    <2>2. PICK j, paths, steps :
            /\ repairs' = [repairs EXCEPT ![tool.id] = BackedUp(j, paths)] /\ Then(steps)
            /\ j = Mine \/ \E b : j = [Mine EXCEPT !.before = b]
      BY <1>8 DEF BackUpRange
    <2>3. j.status = Mine.status /\ DOMAIN j = JournalFields
      BY <1>3, <2>1, <2>2 DEF JournalFields
    <2> QED
      BY <1>4, <1>6, <2>1, <2>2, <2>3, IsRepairing, BufferStays DEF IInv
  <1>9. ASSUME tool.todo # << >>, Step.do \notin {"restored", "remove", "put"}, repairs' = repairs, NEW steps, Then(steps)
        PROVE  BufferInv'
    <2>1. store' = store /\ tool'.id = tool.id /\ repairs'[tool.id].status = Mine.status
      BY <1>4, <1>9 DEF Mine
    <2> QED
      BY <1>9, <2>1, IsRepairing, BufferStays DEF IInv
  <1>10. CASE Round
    <2>1. tool.todo # << >> /\ Step.do = "round" /\ repairs' = repairs /\ \E steps : Then(steps)
      BY <1>10 DEF Round, Doing
    <2> QED
      BY <1>9, <2>1
  <1>11. CASE Request
    <2>1. tool.todo # << >> /\ Step.do = "request" /\ repairs' = repairs /\ \E steps : Then(steps)
      BY <1>11 DEF Request, Doing
    <2> QED
      BY <1>9, <2>1
  <1>12. ASSUME tool.todo # << >>, Step.do \notin {"restored", "remove", "put"}, world' = world, repairs' = repairs,
                NEW kept, Undone(kept), kept = {} \/ (Step.do = "write" /\ kept = Pending)
         PROVE  BufferInv'
    BY <1>12, IsRepairing, UndoneBuffers DEF IInv
  <1>13. CASE Fetch
    <2>1. tool.todo # << >> /\ Step.do = "fetch" /\ repairs' = repairs /\ world' = world /\ (Undone({}) \/ \E steps : Then(steps))
      BY <1>13 DEF Fetch, Doing
    <2> QED
      BY <1>9, <1>12, <2>1
  <1>14. ASSUME tool.todo # << >>, Step.do \notin {"restored", "remove", "put"}, NEW path, Touch(path), NEW steps, Then(steps)
         PROVE  BufferInv'
    BY <1>4, <1>5, <1>14, IsRepairing, BufferStays DEF IInv
  <1>15. CASE Patch
    <2>1. /\ tool.todo # << >> /\ Step.do = "patch" /\ world' = world
          /\ (Undone({}) /\ repairs' = repairs) \/ (Touch(Step.path) /\ Then(<< >>))
      BY <1>15 DEF Patch, Doing, Commit
    <2> QED
      BY <1>12, <1>14, <2>1
  <1>16. CASE Write
    <2>1. /\ tool.todo # << >> /\ Step.do = "write" /\ world' = world
          /\ \/ Undone(IF Unlisted(Step.path) THEN Pending ELSE {}) /\ repairs' = repairs
             \/ Touch(Step.path) /\ Then(<< >>)
      BY <1>16 DEF Write, Doing, Commit
    <2>2. CASE Undone(IF Unlisted(Step.path) THEN Pending ELSE {}) /\ repairs' = repairs
      <3>1. PICK kept : kept = IF Unlisted(Step.path) THEN Pending ELSE {}
        OBVIOUS
      <3> QED
        BY <1>12, <2>1, <2>2, <3>1
    <2> QED
      BY <1>14, <2>1, <2>2
  <1>17. CASE Mark
    <2>1. tool.todo # << >> /\ Step.do = "mark" /\ Touch(Step.path) /\ Then(<< >>)
      BY <1>17 DEF Mark, Doing
    <2> QED
      BY <1>14, <2>1
  <1>18. CASE Redetect
    <2>1. tool.todo # << >> /\ Step.do \in {"detect", "last"} /\ repairs' = repairs /\ world' = world
      BY <1>18 DEF Redetect, Doing
    <2>2. CASE Undone({})
      BY <1>12, <2>1, <2>2
    <2>3. CASE ~Undone({})
      <3>1. PICK issues, rounds, todo :
              store' = store /\ tool' = [tool EXCEPT !.issues = issues, !.detected = TRUE, !.rounds = rounds, !.todo = todo]
        <4>1. PICK issues : /\ store' = store
                            /\ tool' = [tool EXCEPT !.issues = issues, !.detected = TRUE,
                                 !.rounds = IF ToRefetch(issues, tool.decided) = ToRefetch(tool.issues, tool.decided) THEN MaxRounds ELSE @ + 1,
                                 !.todo = IF Step.do = "last" THEN Tail(@) ELSE <<[do |-> "round"]>>]
          BY <1>18, <2>3 DEF Redetect
        <4>2. PICK rounds, todo :
                /\ rounds = IF ToRefetch(issues, tool.decided) = ToRefetch(tool.issues, tool.decided) THEN MaxRounds ELSE tool.rounds + 1
                /\ todo = IF Step.do = "last" THEN Tail(tool.todo) ELSE <<[do |-> "round"]>>
          OBVIOUS
        <4>3. tool' = [tool EXCEPT !.issues = issues, !.detected = TRUE, !.rounds = rounds, !.todo = todo]
          BY <4>1, <4>2
        <4> QED
          BY <4>1, <4>3
      <3>2. tool'.id = tool.id /\ repairs'[tool.id].status = Mine.status
        BY <1>3, <2>1, <3>1 DEF Mine
      <3> QED
        BY <2>1, <3>1, <3>2, IsRepairing, BufferStays DEF IInv
    <2> QED
      BY <2>2, <2>3
  <1>19. CASE RemoveTree
    <2>1. tool.todo # << >> /\ Step.do = "remove" /\ world' = world /\ Touch(Step.path) /\ Then(<< >>)
      BY <1>19 DEF RemoveTree, Doing
    <2>2. CASE Repairing
      BY <1>4, <1>5, <2>1, <2>2, BufferStays
    <2>3. CASE ~Repairing
      <3>1. Grows(Mine, Touched(Mine, Step.path))
        <4>1. RestoreInv(Mine, tool.todo) /\ Step \in ToSet(tool.todo) /\ JournalInv(Mine)
          BY <2>1, <2>3, Working DEF IInv
        <4>2. Step.path \in Path /\ MayChange(Mine, Step.path)
          BY <2>1, <4>1 DEF RestoreInv
        <4> QED
          BY <4>1, <4>2, TouchedGood
      <3> QED
        BY <1>5, <2>1, <2>3, <3>1, RestoringBuffers
    <2> QED
      BY <2>2, <2>3
  <1>20. CASE PutBack
    <2>1. tool.todo # << >> /\ Step.do = "put" /\ world' = world /\ repairs' = repairs /\ Then(<< >>)
      BY <1>20 DEF PutBack, Doing
    <2>2. ~Repairing
      BY <2>1, Working DEF IInv, RepairStep
    <2>3. Grows(Mine, Mine) /\ repairs'[tool.id] = Mine
      BY <2>1 DEF Grows, Mine
    <2> QED
      BY <2>1, <2>2, <2>3, RestoringBuffers
  <1> QED
    BY <1>1, <1>2, <1>7, <1>8, <1>10, <1>11, <1>13, <1>15, <1>16, <1>17, <1>18, <1>19, <1>20 DEF Work

LEMMA BufferKeeps ==
  ASSUME IInv, BufferInv, [Next]_vars
  PROVE  BufferInv'
  <1>1. CASE Work
    BY <1>1, WorkBuffers
  <1>2. CASE Close
    BY <1>2, CloseKeeps
  <1>3. CASE Crash
    BY <1>3 DEF Crash, BufferInv, Closed
  <1>4. CASE Detect \/ Sync
    BY <1>4 DEF Detect, Sync, Ready, BufferInv, Closed
  <1>5. CASE Begin
    <2>1. store' = Closed /\ repairs'[tool'.id].status = "PREPARED"
      <3> DEFINE new == [status |-> "PREPARED", datasets |-> report.scope.datasets, output |-> << >>,
                         entries |-> << >>, before |-> << >>, origin |-> disk, left |-> << >>,
                         touched |-> {}, completed |-> {}, late |-> {}]
      <3>1. PICK j : repairs' = Append(repairs, j) /\ j.status = "PREPARED"
        <4>1. repairs' = Append(repairs, new)
          BY <1>5 DEF Begin
        <4>2. new.status = "PREPARED"
          OBVIOUS
        <4> HIDE DEF new
        <4> QED
          BY <4>1, <4>2
      <3>2. tool'.id = Len(repairs) + 1 /\ store' = Closed
        BY <1>5 DEF Begin, Ready
      <3>3. repairs \in Seq({repairs[k] : k \in DOMAIN repairs})
        BY DEF IInv, RepairsInv
      <3>4. repairs'[Len(repairs) + 1] = j
        BY <3>1, <3>3
      <3> QED
        BY <3>1, <3>2, <3>4
    <2> QED
      BY <2>1 DEF BufferInv, Closed, Mine
  <1>6. CASE Rollback
    <2>1. store' = Closed /\ repairs'[tool'.id].status = "COMMITTED"
      BY <1>6 DEF Rollback, MayRollback, Ready
    <2> QED
      BY <2>1 DEF BufferInv, Closed, Mine
  <1>7. CASE Raise
    <2>2. tool.todo # << >> /\ world' = world /\ repairs' = repairs
      BY <1>7, TodoNotEmpty DEF Raise, IInv, ToolInv
    <2>3. Repairing
      BY <1>7, <2>2, Working DEF Raise, Restoring, Repairing, ToSet, IInv
    <2>4. PICK kept : Undone(kept) /\ (kept = {} \/ (Step.do = "write" /\ kept = Pending))
      BY <1>7 DEF Raise, Doing
    <2> QED
      BY <2>2, <2>3, <2>4, UndoneBuffers
  <1>8. CASE UNCHANGED vars
    <2>1. repairs' = repairs /\ tool' = tool /\ store' = store /\ world' = world /\ disk' = disk
      BY <1>8 DEF vars
    <2>2. ASSUME store # Closed PROVE \A s \in store.kept : Bufferable(s, repairs[store.id])'
      <3>1. PICK j : j = repairs[store.id]
        OBVIOUS
      <3>2. \A s \in store.kept : Bufferable(s, j)
        BY <2>2, <3>1 DEF BufferInv
      <3>3. \A s \in store.kept : Bufferable(s, j)'
        <4>1. Grows(j, j)
          BY DEF Grows
        <4> QED
          BY <2>1, <3>2, <4>1, BufferableGrows
      <3> QED
        BY <2>1, <3>1, <3>3
    <2>3. ASSUME store # Closed, tool = Idle PROVE AllBefore(repairs[store.id])'
      <3>1. PICK j : j = repairs[store.id]
        OBVIOUS
      <3>2. AllBefore(j)
        BY <2>3, <3>1 DEF BufferInv
      <3>3. AllBefore(j)'
        BY <2>1, <3>2 DEF AllBefore, Path, Same, HasMore, Restorable, MayChange, Added, Readded, Backed
      <3> QED
        BY <2>1, <3>1, <3>3
    <2>4. Repairing' = Repairing /\ Mine' = Mine
      BY <2>1 DEF Repairing, Mine
    <2>5. (store # Closed =>
             /\ DOMAIN store = {"id", "kept"} /\ store.id \in DOMAIN repairs /\ store.kept # {}
             /\ \A s \in store.kept : Bufferable(s, repairs[store.id]))'
      BY <2>1, <2>2 DEF BufferInv, Closed
    <2>6. (store # Closed =>
             /\ tool # Idle => tool.id = store.id /\ ~Repairing
             /\ tool = Idle => repairs[store.id].status = "ROLLED_BACK" /\ AllBefore(repairs[store.id]))'
      BY <2>1, <2>3, <2>4 DEF BufferInv, Closed, Idle
    <2> QED
      BY <2>1, <2>4, <2>5, <2>6 DEF BufferInv, Idle
  <1> QED
    BY <1>1, <1>2, <1>3, <1>4, <1>5, <1>6, <1>7, <1>8 DEF Next

LEMMA NextKeeps == ASSUME IInv, BufferInv, [Next]_vars PROVE IInv'
  <1>1. CASE UNCHANGED vars
    BY <1>1, StutterKeeps
  <1>2. CASE Work
    BY <1>2, BackupKeeps, PatchKeeps, RoundKeeps, BackUpRangeKeeps, FetchKeeps, RequestKeeps, WriteKeeps, MarkKeeps,
       RedetectKeeps, SettleKeeps, RemoveTreeKeeps, PutBackKeeps, RestoredKeeps DEF Work
  <1>3. CASE Detect \/ Begin \/ Raise \/ Close \/ Crash \/ Rollback \/ Sync
    BY <1>3, DetectKeeps, BeginKeeps, RaiseKeeps, CloseKeeps, CrashKeeps, RollbackKeeps, SyncKeeps
  <1> QED
    BY <1>1, <1>2, <1>3 DEF Next

\* The disk, the status and report, the journals, the tool's steps and what is still in the
\* buffers agree in every state.
THEOREM Invariance == Spec => [](IInv /\ BufferInv)
  <1>1. Init => BufferInv
    BY DEF Init, Ready, BufferInv, Closed
  <1> QED
    BY <1>1, InitGood, NextKeeps, BufferKeeps, PTL DEF Spec

-----------------------------------------------------------------------------
(* What a journal has. *)

\* Each state is of the type that TypeOK says: among others a partition is backed up at most
\* once in a journal, and the tool does nothing exactly when nothing is left to do.
LEMMA TypeIs == IInv /\ BufferInv => TypeOK
  <1> SUFFICES ASSUME IInv, BufferInv PROVE TypeOK
    OBVIOUS
  <1>1. /\ world \in Worlds /\ DOMAIN disk \subseteq Path /\ faults \in 0 .. MaxFaults
        /\ \A p \in DOMAIN disk : disk[p].flaw \in Flaws \cup {"none"} /\ disk[p].commit \in 0 .. commits
        /\ status.found => status.errors \subseteq world.datasets
    BY DEF IInv, DiskInv, ReportInv, GoodPartition
  <1>2. ASSUME NEW k \in DOMAIN repairs, NEW j, j = repairs[k]
        PROVE /\ j.status \in {"PREPARED", "COMMITTED", "ROLLED_BACK"}
              /\ j.touched \cup j.completed \cup Backed(j) \subseteq Path /\ j.late \subseteq j.touched \cup j.completed
              /\ IsInjective([e \in DOMAIN j.entries |-> j.entries[e].path])
    <2>1. JournalInv(j)
      BY <1>2 DEF IInv, RepairsInv
    <2> QED
      BY <2>1 DEF JournalInv, Backed, Range, IsInjective
  <1>3. tool.id \in 0 .. Len(repairs) /\ (tool = Idle <=> tool.todo = << >>)
    <2>1. DOMAIN repairs = 1 .. Len(repairs) /\ Len(repairs) \in Nat
      BY DEF IInv, RepairsInv
    <2>2. CASE tool = Idle
      BY <2>1, <2>2 DEF Idle
    <2>3. CASE tool # Idle
      BY <2>1, <2>3, TodoNotEmpty DEF IInv, ToolInv
    <2> QED
      BY <2>2, <2>3
  <1>4. store # Closed => store.id \in DOMAIN repairs /\ store.kept # {}
    BY DEF BufferInv
  <1> QED
    BY <1>1, <1>2, <1>3, <1>4 DEF TypeOK

\* The state has its type, however the commands, faults and crashes follow one another.
THEOREM TypeCorrect == Spec => []TypeOK
  BY Invariance, TypeIs, PTL

\* Of what a repair has changed there is what was there, whatever it did and however often,
\* also while it is under way and after it has died.
THEOREM NothingIsLost == Spec => []NothingLost
  <1>1. IInv /\ BufferInv => NothingLost
    <2> SUFFICES ASSUME IInv, BufferInv, NEW k \in DOMAIN repairs, NEW j, j = repairs[k], NEW path \in j.touched \ j.completed
                 PROVE  \/ \E e \in Entry(j, path) : /\ e.found = (path \in DOMAIN j.origin)
                                                     /\ e.found => e.content = j.origin[path]
                        \/ path \notin DOMAIN j.origin /\ path[1] \in DOMAIN j.before /\ path \notin j.before[path[1]]
      BY TypeIs DEF NothingLost
    <2>1. JournalInv(j)
      BY DEF IInv, RepairsInv
    <2>2. path \in Backed(j) \/ Added(j, path)
      BY <2>1 DEF JournalInv
    <2>3. ASSUME path \in Backed(j), ~Added(j, path)
          PROVE  \E e \in Entry(j, path) : e.found = (path \in DOMAIN j.origin) /\ (e.found => e.content = j.origin[path])
      <3>1. PICK i \in DOMAIN j.entries : j.entries[i].path = path
        BY <2>3 DEF Backed, Range
      <3>2. Kept(j.entries[i], j.origin)
        BY <2>1, <2>3, <3>1 DEF JournalInv
      <3>3. j.entries[i] \in Entry(j, path)
        BY <3>1 DEF Entry, Range
      <3> QED
        BY <3>1, <3>2, <3>3 DEF Kept
    <2> QED
      BY <2>2, <2>3 DEF Added
  <1> QED
    BY <1>1, Invariance, PTL

-----------------------------------------------------------------------------
(* What is undone. *)

\* Only the last step of undoing a repair makes it one that is rolled back.
LEMMA OnlyRestored ==
  ASSUME IInv, Next, NEW k \in DOMAIN repairs, repairs[k].status # "ROLLED_BACK", repairs'[k].status = "ROLLED_BACK"
  PROVE  Restored /\ k = tool.id
  <1>1. DOMAIN repairs[k] = JournalFields
    BY DEF IInv, RepairsInv, JournalInv
  <1>2. ASSUME UNCHANGED repairs PROVE FALSE
    BY <1>2
  <1>3. ASSUME NEW path, Touch(path) PROVE FALSE
    BY <1>1, <1>3, TouchedStatus DEF Touch
  <1>4. ~Begin
    <2> SUFFICES ASSUME Begin PROVE FALSE
      OBVIOUS
    <2>1. PICK j : repairs' = Append(repairs, j)
      BY DEF Begin
    <2>2. repairs \in Seq({repairs[l] : l \in DOMAIN repairs})
      BY DEF IInv, RepairsInv
    <2> QED
      BY <2>1, <2>2
  <1>5. ~Backup
    BY <1>1 DEF Backup, BackedUp, JournalFields
  <1>6. ~BackUpRange
    <2> SUFFICES ASSUME BackUpRange PROVE FALSE
      OBVIOUS
    <2>1. PICK j, paths : repairs' = [repairs EXCEPT ![tool.id] = BackedUp(j, paths)] /\ (j = Mine \/ \E b : j = [Mine EXCEPT !.before = b])
      BY DEF BackUpRange
    <2> QED
      BY <1>1, <2>1 DEF BackedUp, JournalFields, Mine
  <1>7. ~Settle
    BY <1>1 DEF Settle, JournalFields
  <1>8. ~Patch /\ ~Write /\ ~Mark /\ ~RemoveTree
    BY <1>2, <1>3 DEF Patch, Write, Mark, RemoveTree, Commit
  <1>12. ~Close
    <2> SUFFICES ASSUME Close PROVE FALSE
      OBVIOUS
    <2>1. PICK path : \/ UNCHANGED repairs
                      \/ repairs' = [repairs EXCEPT ![store.id] = [Touched(repairs[store.id], path) EXCEPT !.late = @ \cup {path}]]
      BY DEF Close, Flush
    <2>2. PICK jj : jj = [Touched(repairs[k], path) EXCEPT !.late = @ \cup {path}]
      OBVIOUS
    <2>3. jj.status = repairs[k].status
      BY <1>1, <2>2, TouchedStatus DEF JournalFields
    <2>4. store.id = k \/ repairs'[k] = repairs[k]
      BY <1>2, <2>1
    <2>5. store.id = k => repairs'[k] = repairs[k] \/ repairs'[k] = jj
      BY <1>2, <2>1, <2>2
    <2> QED
      BY <1>2, <2>3, <2>4, <2>5
  <1>9. ~Detect /\ ~Round /\ ~Fetch /\ ~Request /\ ~Redetect /\ ~PutBack /\ ~Raise /\ ~Crash /\ ~Rollback /\ ~Sync
    BY <1>2 DEF Detect, Round, Fetch, Request, Redetect, PutBack, Raise, Crash, Rollback, Sync
  <1>10. Restored
    BY <1>4, <1>5, <1>6, <1>7, <1>8, <1>9, <1>12 DEF Next, Work
  <1>11. k = tool.id
    BY <1>10 DEF Restored
  <1> QED
    BY <1>10, <1>11

\* Tables of which the fingerprint is the same are the same.
LEMMA SameTables ==
  ASSUME NEW files, NEW others, NEW datasets, Fingerprint(Tables(files), datasets) = Fingerprint(Tables(others), datasets),
         NEW path, path[1] \in datasets, path[2] # Missing
  PROVE  Same(files, others, path)
  <1> DEFINE F == Fingerprint(Tables(files), datasets)
             G == Fingerprint(Tables(others), datasets)
  <1>1. /\ path \in DOMAIN F <=> path \in DOMAIN files
        /\ path \in DOMAIN F => F[path] = files[path]
    BY DEF Fingerprint, Tables, Restrict
  <1>2. /\ path \in DOMAIN G <=> path \in DOMAIN others
        /\ path \in DOMAIN G => G[path] = others[path]
    BY DEF Fingerprint, Tables, Restrict
  <1> HIDE DEF F, G
  <1>3. F = G
    BY DEF F, G
  <1> QED
    BY <1>1, <1>2, <1>3 DEF Same

\* A repair that is done is only worked on again when it is rolled back.
LEMMA OnlyRollback ==
  ASSUME IInv, Next, NEW k \in DOMAIN repairs, Ready, tool'.id = k
  PROVE  MayRollback(repairs[k])
  <1>1. DOMAIN repairs = 1 .. Len(repairs) /\ Len(repairs) \in Nat
    BY DEF IInv, RepairsInv
  <1>2. tool.todo = << >> /\ tool.id = 0 /\ tool = Idle /\ store = Closed
    BY DEF Idle, Ready
  <1>3. ~Work
    BY <1>2 DEF Work, Backup, Patch, Round, BackUpRange, Fetch, Request, Write, Mark, Redetect, Settle, RemoveTree, PutBack, Restored, Doing
  <1>4. ~Detect /\ ~Sync
    <2>1. tool' # tool
      BY <1>1, <1>2
    <2> QED
      BY <2>1 DEF Detect, Sync
  <1>5. ~Begin
    <2> SUFFICES ASSUME Begin PROVE FALSE
      OBVIOUS
    <2>1. tool'.id = Len(repairs) + 1
      BY DEF Begin
    <2> QED
      BY <1>1, <2>1
  <1>6. ~Raise /\ ~Crash /\ ~Close
    BY <1>2 DEF Raise, Crash, Close, Closed
  <1>7. Rollback
    BY <1>3, <1>4, <1>5, <1>6 DEF Next
  <1>8. PICK l \in DOMAIN repairs : MayRollback(repairs[l]) /\ tool' = [id |-> l, todo |-> RestoreSteps(repairs[l])]
    BY <1>7 DEF Rollback
  <1>9. l = k
    BY <1>8
  <1> QED
    BY <1>8, <1>9

\* What is as it was, but for rows of its own that came late.
LEMMA AllAsBefore ==
  ASSUME NEW j, JournalInv(j)', AllBefore(j)'
  PROVE  AsBefore(j)'
  <1> SUFFICES ASSUME NEW path \in j.touched \ j.completed
               PROVE  (Readded(j, path) \/ Same(disk, j.origin, path) \/ HasMore(j, path))'
    BY DEF AsBefore, HasMore
  <1>1. (path \in Path /\ MayChange(j, path))'
    BY DEF JournalInv, MayChange
  <1>2. (Readded(j, path) \/ Restorable(j, path))'
    BY <1>1 DEF Restorable, MayChange, Added, Backed, Readded
  <1> QED
    BY <1>1, <1>2 DEF AllBefore

\* What ends when a command ends.
LEMMA EndedAsBefore ==
  ASSUME IInv, BufferInv, Next, IInv', NEW k \in DOMAIN repairs, Ended(k), repairs'[k].status = "ROLLED_BACK"
  PROVE  AsBefore(repairs[k])'
  <1>1. DOMAIN repairs = 1 .. Len(repairs) /\ Len(repairs) \in Nat
    BY DEF IInv, RepairsInv
  <1>2. k # 0 /\ Idle.id = 0 /\ Closed.id = 0 /\ Closed.kept = {} /\ Idle.todo = << >>
    BY <1>1 DEF Idle, Closed
  <1>3. CASE tool # Idle
    <2>1. k = tool.id
      BY <1>2, <1>3 DEF Ended, BufferInv
    <2>2. repairs[k].status # "ROLLED_BACK"
      BY <1>3, <2>1 DEF BufferInv, Mine
    <2>3. Restored
      BY <2>2, OnlyRestored
    <2>4. PICK jj : jj = repairs'[k] /\ AllBefore(jj)' /\ k \in DOMAIN repairs'
      <3>1. PICK j : j = Mine
        OBVIOUS
      <3>2. PICK jj : jj = [j EXCEPT !.status = "ROLLED_BACK", !.output = << >>]
        OBVIOUS
      <3> QED
        BY <2>1, <2>3, <3>1, <3>2, RestoredIs
    <2>5. JournalInv(jj)'
      BY <2>4 DEF IInv, RepairsInv
    <2> QED
      BY <2>4, <2>5, AllAsBefore
  <1>4. CASE tool = Idle
    <2>1. k = store.id /\ store # Closed /\ ~Ready
      BY <1>2, <1>4 DEF Ended, Ready
    <2>2. ~Work /\ ~Raise
      BY <1>2, <1>4 DEF Raise, Work, Backup, Patch, Round, BackUpRange, Fetch, Request, Write, Mark, Redetect, Settle, RemoveTree, PutBack,
         Restored, Doing
    <2>3. Close \/ Crash
      BY <2>1, <2>2 DEF Next, Detect, Begin, Rollback, Sync
    <2>4. PICK jj : jj = repairs'[k]
      OBVIOUS
    <2>5. CASE Close
      <3>1. AllBefore(jj)'
        BY <2>1, <2>4, <2>5, CloseKeeps
      <3>2. JournalInv(jj)'
        <4>1. DOMAIN repairs' = DOMAIN repairs
          BY <2>5 DEF Close, Flush
        <4> QED
          BY <2>4, <4>1 DEF IInv, RepairsInv
      <3> QED
        BY <2>4, <3>1, <3>2, AllAsBefore
    <2>6. CASE Crash
      <3>1. world' = world /\ disk' = disk /\ repairs' = repairs
        BY <2>6 DEF Crash
      <3>2. AllBefore(jj)
        BY <1>4, <2>1, <2>4, <3>1 DEF BufferInv
      <3>3. AllBefore(jj)'
        BY <3>1, <3>2 DEF AllBefore, Path, Same, HasMore, Restorable, MayChange, Added, Readded, Backed
      <3>4. JournalInv(jj)'
        BY <2>4, <3>1 DEF IInv, RepairsInv
      <3> QED
        BY <2>4, <3>3, <3>4, AllAsBefore
    <2> QED
      BY <2>3, <2>5, <2>6
  <1> QED
    BY <1>3, <1>4

\* What is undone is as it was when its command ends, whatever was changed how often before
\* the error, and in whichever order: but for what the repair has added and then patched,
\* and for rows on top of it that were still in the buffers.  And only what is still as the
\* repair left it is rolled back.
THEOREM UndoneIsAsBefore == Spec => RestoresItsOwn
  <1> DEFINE Undoing == \A k \in DOMAIN repairs :
               /\ Ended(k) /\ repairs'[k].status = "ROLLED_BACK" => AsBefore(repairs[k])'
               /\ (repairs[k].status = "COMMITTED" /\ Ready /\ tool'.id = k) =>
                    \A path \in repairs[k].touched \ repairs[k].completed :
                      path[2] # Missing => Same(disk, repairs[k].left, path)
  <1>1. ASSUME IInv, BufferInv, Next, IInv' PROVE Undoing
    <2> SUFFICES ASSUME NEW k \in DOMAIN repairs, NEW path \in repairs[k].touched \ repairs[k].completed,
                        repairs[k].status = "COMMITTED", Ready, tool'.id = k, path[2] # Missing
                 PROVE  Same(disk, repairs[k].left, path)
      BY <1>1, EndedAsBefore
    <2>1. PICK j : j = repairs[k]
      OBVIOUS
    <2>2. MayRollback(repairs[k])
      BY <1>1, OnlyRollback
    <2>3. JournalInv(j)
      BY <1>1, <2>1 DEF IInv, RepairsInv
    <2>4. path[1] \in j.datasets
      <3>1. path \in Backed(j) \/ Added(j, path)
        BY <2>1, <2>3 DEF JournalInv
      <3> QED
        BY <2>3, <3>1 DEF JournalInv, Backed, Range, Added
    <2>5. Fingerprint(Tables(disk), j.datasets) = Fingerprint(Tables(j.left), j.datasets)
      BY <2>1, <2>2, <2>3 DEF MayRollback, JournalInv, Lake
    <2> QED
      BY <2>1, <2>4, <2>5, SameTables
  <1>2. IInv /\ BufferInv /\ IInv' /\ [Next]_vars => [Undoing]_<<repairs, tool, store>>
    BY <1>1 DEF vars
  <1>3. RestoresItsOwn <=> [][Undoing]_<<repairs, tool, store>>
    BY PTL DEF RestoresItsOwn
  <1> HIDE DEF Undoing
  <1> QED
    BY <1>2, <1>3, Invariance, PTL DEF Spec

-----------------------------------------------------------------------------
(* What is served. *)

Whole == [datasets |-> world.datasets, start |-> Missing, through |-> LastDay]
\* The status is that of a detection of everything, of the tables whose fingerprint it has.
GateInv ==
  status.found => status.errors = {d \in world.datasets : Errors(Detected(status.fingerprint, Whole), d) # {}}
\* A detection of all tables from the first day on goes through the last one; the code also
\* takes one that ends before it for a detection of everything (record_detection).
WholeIsWhole ==
  \A w \in Worlds : \A scope \in Scopes(w) :
    scope.start = Missing /\ scope.datasets = w.datasets =>
      scope = [datasets |-> w.datasets, start |-> Missing, through |-> LastDay]

\* The fingerprint of all tables is the tables.
LEMMA AllTables == ASSUME DiskInv PROVE Fingerprint(Lake, world.datasets) = Lake
  <1>1. \A k \in DOMAIN Lake : k[1] \in world.datasets
    BY PathIs DEF DiskInv, Lake, Tables, Restrict
  <1>2. {k \in DOMAIN Lake : k[1] \in world.datasets} = DOMAIN Lake
    BY <1>1
  <1>3. Lake = [k \in DOMAIN Lake |-> Lake[k]]
    BY DEF Lake, Tables, Restrict
  <1> QED
    BY <1>2, <1>3 DEF Fingerprint

LEMMA RecordedGate ==
  ASSUME WholeIsWhole, DiskInv, GateInv, world' = world, NEW scope \in Scopes(world), Recorded(scope, Detected(Lake, scope))
  PROVE  GateInv'
  <1>1. world \in Worlds
    BY DEF DiskInv
  <1>2. CASE scope.start = Missing /\ scope.datasets = world.datasets
    <2>1. scope = Whole
      BY <1>1, <1>2 DEF WholeIsWhole, Whole
    <2>2. PICK lake : lake = Lake
      OBVIOUS
    <2>3. /\ status'.found /\ status'.fingerprint = lake
          /\ status'.errors = {d \in world.datasets : Errors(Detected(lake, Whole), d) # {}}
      BY <1>2, <2>1, <2>2, AllTables DEF Recorded
    <2>4. Whole' = Whole
      BY DEF Whole
    <2> QED
      BY <2>3, <2>4 DEF GateInv
  <1>3. CASE ~(scope.start = Missing /\ scope.datasets = world.datasets)
    <2>1. status' = status
      BY <1>3 DEF Recorded
    <2> QED
      BY <2>1 DEF GateInv, Whole
  <1> QED
    BY <1>2, <1>3

\* What can be read was checked by the last detection of everything, and nothing of it has
\* changed since: where a detection of everything goes through the last day.
THEOREM ServedIsChecked == ASSUME WholeIsWhole PROVE Spec => []ServedWasChecked
  <1>1. Init => GateInv
    BY DEF Init, GateInv, NoStatus
  <1>2. ASSUME IInv, GateInv, [Next]_vars PROVE GateInv'
    <2>1. ASSUME world' = world, status' = status PROVE GateInv'
      BY <1>2, <2>1 DEF GateInv, Whole
    <2>2. ASSUME Detect PROVE GateInv'
      <3>1. PICK scope \in Scopes(world) : Recorded(scope, Detected(Lake, scope))
        BY <2>2 DEF Detect
      <3>2. world' = world
        BY <2>2 DEF Detect
      <3> QED
        BY <1>2, <3>1, <3>2, RecordedGate DEF IInv
    <2>3. ASSUME Redetect PROVE GateInv'
      <3>1. world' = world /\ tool.todo # << >> /\ Step.do \in {"detect", "last"}
        BY <2>3 DEF Redetect, Doing
      <3>2. tool.scope \in Scopes(world)
        BY <1>2, <3>1, IsRepairing, Working DEF IInv, RepairInv
      <3>3. CASE status' = status
        BY <2>1, <3>1, <3>3
      <3>4. CASE Recorded(tool.scope, Detected(Lake, tool.scope))
        BY <1>2, <3>1, <3>2, <3>4, RecordedGate DEF IInv
      <3> QED
        BY <2>3, <3>3, <3>4 DEF Redetect
    <2>4. ASSUME Next, ~Detect, ~Redetect PROVE world' = world /\ status' = status
      BY <2>4 DEF Next, Work, Begin, Backup, Patch, Round, BackUpRange, Fetch, Request, Write, Mark, Settle, RemoveTree,
         PutBack, Restored, Raise, Close, Crash, Rollback, Sync
    <2> QED
      BY <1>2, <2>1, <2>2, <2>3, <2>4 DEF vars
  <1>3. IInv /\ GateInv => ServedWasChecked
    <2> SUFFICES ASSUME IInv, GateInv, status.found, Available # {}, NEW d \in Available
                 PROVE  Errors(Detected(Lake, Whole), d) = {}
      BY DEF ServedWasChecked, Whole
    <2>1. d \in world.datasets /\ d \notin Unavailable
      BY DEF Available
    <2>2. status.fingerprint = Fingerprint(Lake, world.datasets) /\ d \notin status.errors
      BY <2>1 DEF Unavailable
    <2>3. status.fingerprint = Lake
      BY <2>2, AllTables DEF IInv
    <2> QED
      BY <2>1, <2>2, <2>3 DEF GateInv
  <1>4. Spec => []GateInv
    BY <1>1, <1>2, Invariance, PTL DEF Spec
  <1> QED
    BY <1>3, <1>4, Invariance, PTL
=============================================================================
