------------------------- MODULE ParquetStoreProofs -------------------------
(***************************************************************************)
(* One table of the store, for any partitions, rows, threads, limits,      *)
(* schemas, clock, and any number of calls, failures and crashes.          *)
(*                                                                         *)
(* 1. What the operators return: sorting and deduplicating rows, cutting   *)
(*    them into files, reading the files of a manifest in commit order.    *)
(* 2. The invariant StoreInv, which says what is true between any two      *)
(*    steps of any thread: what a thread that holds a lock has planned,    *)
(*    written and committed, and which rows a call has still to bring.     *)
(* 3. Every step of a thread, call and crash preserves it.                 *)
(* 4. The run's invariants follow, and under StoreInv each step is one of  *)
(*    PartitionTable or leaves what readers see as it was.                 *)
(***************************************************************************)
EXTENDS ParquetStore, OperatorProofs

LEMMA RowsAre ==
  /\ Rows = 1 .. Len(KeyOf) /\ Len(KeyOf) \in Nat
  /\ \A r \in Rows : KeyOf[r] \in Int /\ PreferOf[r] \in Int /\ PartitionOf[r] \in Partitions
  BY RowsAssumption DEF Rows

LEMMA TableArranges ==
  /\ \A S, R : Table!Arranged(S, R) = Arranged(S, R)
  /\ \A S : Table!Ascending(S) = Ascending(S)
  /\ \A s, order : Table!Along(s, order) = [i \in DOMAIN order |-> s[order[i]]]
  <1>1. \A S, R : Table!Arranged(S, R) = Arranged(S, R)
    <2>1. \A S : Table!Cardinality(S) = Cardinality(S)
      BY DEF Table!Cardinality, Cardinality
    <2> QED
      BY <2>1 DEF Table!Arranged, Arranged
  <1>2. \A S : Table!Ascending(S) = Ascending(S)
    BY <1>1 DEF Table!Ascending, Ascending
  <1> QED
    BY <1>1, <1>2 DEF Table!Along

-----------------------------------------------------------------------------
(* Sorting and deduplicating. *)

SameKeyOnce(rs) == IsInjective([i \in DOMAIN rs |-> KeyOf[rs[i]]])

LEMMA UniqueKeysAre ==
  ASSUME NEW rs
  PROVE  SameKeyOnce(rs) <=> \A i, j \in DOMAIN rs : KeyOf[rs[i]] = KeyOf[rs[j]] => i = j
  BY DEF SameKeyOnce, IsInjective

LEMMA BeforeIsLinear ==
  ASSUME NEW rs \in Seq(Rows)
  PROVE  Linear(DOMAIN rs, {x \in (DOMAIN rs) \X (DOMAIN rs) : Table!Before(rs, x[1], x[2])})
  <1>1. \A i \in DOMAIN rs : i \in Nat /\ KeyOf[rs[i]] \in Int
    BY RowsAre
  <1> QED
    BY <1>1 DEF Linear, Table!Before

LEMMA SortedIs ==
  ASSUME NEW rs \in Seq(Rows)
  PROVE  \E order \in [1 .. Len(rs) -> 1 .. Len(rs)] :
           /\ Table!Sorted(rs) = [i \in 1 .. Len(rs) |-> rs[order[i]]]
           /\ \A i, j \in 1 .. Len(rs) : order[i] = order[j] => i = j
           /\ \A k \in 1 .. Len(rs) : \E i \in 1 .. Len(rs) : order[i] = k
  <1> DEFINE S == DOMAIN rs
             R == {x \in (DOMAIN rs) \X (DOMAIN rs) : Table!Before(rs, x[1], x[2])}
             order == Arranged(S, R)
  <1>1. S = 1 .. Len(rs) /\ Len(rs) \in Nat
    OBVIOUS
  <1>2. IsFiniteSet(S) /\ Cardinality(S) = Len(rs)
    BY <1>1, FS_Interval
  <1>3. Linear(S, R)
    BY BeforeIsLinear
  <1>4. Table!Sorted(rs) = [i \in DOMAIN order |-> rs[order[i]]]
    <2>1. Table!Sorted(rs) = Table!Along(rs, Table!Arranged(S, R))
      BY DEF Table!Sorted
    <2> HIDE DEF S, R
    <2> QED
      BY <2>1, TableArranges
  <1> HIDE DEF S, R
  <1>5. InOrder(order, S, R)
    BY <1>2, <1>3, ArrangedInOrder
  <1> HIDE DEF order
  <1>6. order \in [1 .. Len(rs) -> 1 .. Len(rs)]
    BY <1>1, <1>2, <1>5 DEF InOrder
  <1>7. /\ \A i, j \in 1 .. Len(rs) : order[i] = order[j] => i = j
        /\ \A k \in 1 .. Len(rs) : \E i \in 1 .. Len(rs) : order[i] = k
    <2>1. /\ \A i, j \in 1 .. Cardinality(S) : order[i] = order[j] => i = j
          /\ \A k \in S : \E i \in 1 .. Cardinality(S) : order[i] = k
      BY <1>2, <1>3, <1>5, OrderIsBijective
    <2> QED
      BY <2>1, <1>1, <1>2
  <1>8. Table!Sorted(rs) = [i \in 1 .. Len(rs) |-> rs[order[i]]]
    BY <1>4, <1>6
  <1> QED
    BY <1>6, <1>7, <1>8

\* Sorting keeps the rows, their number, and that no key occurs twice.
LEMMA SortedKeeps ==
  ASSUME NEW rs \in Seq(Rows)
  PROVE  /\ Table!Sorted(rs) \in Seq(Rows)
         /\ Len(Table!Sorted(rs)) = Len(rs)
         /\ ToSet(Table!Sorted(rs)) = ToSet(rs)
         /\ SameKeyOnce(rs) => SameKeyOnce(Table!Sorted(rs))
  <1>1. PICK order \in [1 .. Len(rs) -> 1 .. Len(rs)] :
           /\ Table!Sorted(rs) = [i \in 1 .. Len(rs) |-> rs[order[i]]]
           /\ \A i, j \in 1 .. Len(rs) : order[i] = order[j] => i = j
           /\ \A k \in 1 .. Len(rs) : \E i \in 1 .. Len(rs) : order[i] = k
    BY SortedIs
  <1> DEFINE s == Table!Sorted(rs)
  <1>2. DOMAIN s = 1 .. Len(rs) /\ \A i \in 1 .. Len(rs) : s[i] = rs[order[i]] /\ order[i] \in 1 .. Len(rs)
    BY <1>1
  <1>3. s \in [1 .. Len(rs) -> Rows]
    BY <1>1
  <1>4. DOMAIN rs = 1 .. Len(rs) /\ Len(rs) \in Nat
    OBVIOUS
  <1> HIDE DEF s
  <1>5. s \in Seq(Rows) /\ Len(s) = Len(rs)
    BY <1>3, <1>4, FunctionIsSequence
  <1>6. ToSet(s) = ToSet(rs)
    BY <1>1, <1>2, <1>4 DEF ToSet
  <1>7. SameKeyOnce(rs) => SameKeyOnce(s)
    <2> SUFFICES ASSUME SameKeyOnce(rs), NEW i \in 1 .. Len(rs), NEW j \in 1 .. Len(rs),
                        KeyOf[s[i]] = KeyOf[s[j]]
                 PROVE  i = j
      BY <1>2, UniqueKeysAre DEF s
    <2>1. order[i] = order[j]
      <3>1. \A k, l \in 1 .. Len(rs) : KeyOf[rs[k]] = KeyOf[rs[l]] => k = l
        BY <1>4, UniqueKeysAre
      <3>2. order[i] \in 1 .. Len(rs) /\ order[j] \in 1 .. Len(rs)
            /\ KeyOf[rs[order[i]]] = KeyOf[rs[order[j]]]
        BY <1>2
      <3> QED
        BY ONLY <3>1, <3>2
    <2> QED
      BY <1>1, <2>1
  <1> QED
    BY <1>5, <1>6, <1>7 DEF s

\* Deduplicating leaves each key once, and everything if no key was there twice.
LEMMA WinnersAre ==
  ASSUME NEW rs \in Seq(Rows)
  PROVE  /\ Table!Winners(rs) \in Seq(Rows)
         /\ ToSet(Table!Winners(rs)) \subseteq ToSet(rs)
         /\ SameKeyOnce(Table!Winners(rs))
         /\ Len(Table!Winners(rs)) = Len(rs) => SameKeyOnce(rs)
  <1> DEFINE W == {i \in DOMAIN rs : Table!Won(rs, i)}
             a == Ascending(W)
             w == Table!Winners(rs)
  <1>1. DOMAIN rs = 1 .. Len(rs) /\ Len(rs) \in Nat
    OBVIOUS
  <1>2. IsFiniteSet(DOMAIN rs) /\ Cardinality(DOMAIN rs) = Len(rs)
    BY <1>1, FS_Interval
  <1>3. W \in SUBSET Nat /\ IsFiniteSet(W) /\ (Cardinality(W) = Len(rs) => W = DOMAIN rs)
    <2>1. W \in SUBSET DOMAIN rs /\ W \in SUBSET Nat
      BY <1>1
    <2> HIDE DEF W
    <2> QED
      BY <2>1, <1>2, FS_Subset
  <1>4. /\ a \in Seq(W) /\ Len(a) = Cardinality(W)
        /\ \A i, j \in DOMAIN a : i < j => a[i] < a[j]
    <2> HIDE DEF W
    <2> QED
      BY <1>3, AscendingIs
  <1>5. w = [i \in DOMAIN a |-> rs[a[i]]]
    <2>1. w = Table!Along(rs, Table!Ascending(W))
      BY DEF Table!Winners
    <2> HIDE DEF W
    <2> QED
      BY <2>1, TableArranges
  <1>6. \A i, j \in W : KeyOf[rs[i]] = KeyOf[rs[j]] => i = j
    <2> SUFFICES ASSUME NEW i \in W, NEW j \in W, KeyOf[rs[i]] = KeyOf[rs[j]], i # j
                 PROVE  FALSE
      OBVIOUS
    <2>1. Table!Beats(rs, i, j) /\ Table!Beats(rs, j, i)
      BY DEF Table!Won
    <2>2. PreferOf[rs[i]] \in Int /\ PreferOf[rs[j]] \in Int /\ i \in Nat /\ j \in Nat
      BY RowsAre
    <2> QED
      BY <2>1, <2>2 DEF Table!Beats
  <1> HIDE DEF w
  <1>7. DOMAIN a = 1 .. Len(a) /\ Len(a) \in Nat /\ \A i \in DOMAIN a : a[i] \in W /\ a[i] \in DOMAIN rs
    <2>1. W \subseteq DOMAIN rs
      OBVIOUS
    <2> HIDE DEF a, W
    <2> QED
      BY <2>1, <1>4
  <1>8. w \in [1 .. Len(a) -> Rows] /\ \A i \in 1 .. Len(a) : w[i] = rs[a[i]]
    BY <1>5, <1>7
  <1> HIDE DEF a, W
  <1>9. w \in Seq(Rows) /\ Len(w) = Len(a) /\ DOMAIN w = 1 .. Len(a)
    BY <1>7, <1>8, FunctionIsSequence
  <1>10. ToSet(w) \subseteq ToSet(rs)
    BY <1>7, <1>8, <1>9 DEF ToSet
  <1>11. SameKeyOnce(w)
    <2> SUFFICES ASSUME NEW i \in 1 .. Len(a), NEW j \in 1 .. Len(a), KeyOf[w[i]] = KeyOf[w[j]]
                 PROVE  i = j
      BY <1>9, UniqueKeysAre
    <2>1. a[i] = a[j]
      BY <1>6, <1>7, <1>8
    <2>2. a[i] \in Nat /\ i \in Nat /\ j \in Nat
      BY <1>1, <1>7
    <2> QED
      BY <2>1, <2>2, <1>4, <1>7
  <1>12. Len(w) = Len(rs) => SameKeyOnce(rs)
    BY <1>3, <1>4, <1>6, <1>9, UniqueKeysAre
  <1> QED
    BY <1>9, <1>10, <1>11, <1>12 DEF w

-----------------------------------------------------------------------------
(* The files of a manifest in the order of their commits. *)

LEMMA MaxIs ==
  ASSUME NEW S \in SUBSET Int, IsFiniteSet(S), S # {}
  PROVE  Max(S) \in S /\ \A x \in S : x <= Max(S)
  <1> DEFINE R == {x \in S \X S : x[1] < x[2]}
  <1>1. Linear(S, R)
    BY DEF Linear
  <1>2. PICK m \in S : \A x \in S \ {m} : <<x, m>> \in R
    <2> HIDE DEF R
    <2> QED
      BY <1>1, LastElement
  <1>3. \A x \in S : m >= x
    <2> TAKE x \in S
    <2>1. CASE x = m
      BY <2>1
    <2>2. CASE x # m
      <3>1. <<x, m>> \in R
        BY <2>2, <1>2
      <3>2. x < m /\ x \in Int /\ m \in Int
        BY <3>1
      <3> QED
        BY <3>2
    <2> QED
      BY <2>1, <2>2
  <1>4. Max(S) \in S /\ \A x \in S : Max(S) >= x
    <2>1. \E y \in S : \A x \in S : y >= x
      BY <1>3
    <2> QED
      BY <2>1 DEF Max
  <1> QED
    BY <1>4

\* The two lists of a manifest match.
Listed(m) == m.files \in Seq(Nat) /\ m.at \in Seq(Nat) /\ Len(m.at) = Len(m.files)

FileOrder(m) ==
  {x \in (DOMAIN m.files) \X (DOMAIN m.files) :
     m.at[x[1]] < m.at[x[2]] \/ (m.at[x[1]] = m.at[x[2]] /\ x[1] < x[2])}
Order(m) == Arranged(DOMAIN m.files, FileOrder(m))

LEMMA OrderedByTime ==
  ASSUME NEW m, Listed(m)
  PROVE  /\ Linear(DOMAIN m.files, FileOrder(m))
         /\ IsFiniteSet(DOMAIN m.files) /\ Cardinality(DOMAIN m.files) = Len(m.files)
         /\ DOMAIN m.files = 1 .. Len(m.files) /\ Len(m.files) \in Nat
         /\ Ordered(m) = [i \in DOMAIN Order(m) |-> m.files[Order(m)[i]]]
  <1>1. DOMAIN m.files = 1 .. Len(m.files) /\ Len(m.files) \in Nat
    BY DEF Listed
  <1>2. \A i \in DOMAIN m.files : i \in Nat /\ m.at[i] \in Nat
    BY DEF Listed
  <1>3. Linear(DOMAIN m.files, FileOrder(m))
    BY <1>2 DEF Linear, FileOrder
  <1>4. IsFiniteSet(DOMAIN m.files) /\ Cardinality(DOMAIN m.files) = Len(m.files)
    BY <1>1, FS_Interval
  <1>5. Ordered(m) = Along(m.files, Order(m))
    BY DEF Ordered, Order, FileOrder
  <1> QED
    BY <1>1, <1>3, <1>4, <1>5 DEF Along

LEMMA OrderedKeeps ==
  ASSUME NEW m, Listed(m)
  PROVE  /\ Order(m) \in [1 .. Len(m.files) -> 1 .. Len(m.files)]
         /\ \A i, j \in 1 .. Len(m.files) : i < j => <<Order(m)[i], Order(m)[j]>> \in FileOrder(m)
         /\ Ordered(m) = [i \in 1 .. Len(m.files) |-> m.files[Order(m)[i]]]
         /\ Ordered(m) \in Seq(Nat) /\ Len(Ordered(m)) = Len(m.files)
         /\ ToSet(Ordered(m)) = ToSet(m.files)
  <1> DEFINE S == DOMAIN m.files
             n == Len(m.files)
  <1>1. /\ Linear(S, FileOrder(m)) /\ IsFiniteSet(S) /\ Cardinality(S) = n
        /\ S = 1 .. n /\ n \in Nat
        /\ Ordered(m) = [i \in DOMAIN Order(m) |-> m.files[Order(m)[i]]]
    BY OrderedByTime
  <1> HIDE DEF S
  <1>2. InOrder(Order(m), S, FileOrder(m))
    BY <1>1, ArrangedInOrder DEF Order, S
  <1>4. PICK o : o = Order(m)
    OBVIOUS
  <1>3. \A k \in S : \E i \in 1 .. Cardinality(S) : o[i] = k
    <2>1. PICK R : R = FileOrder(m)
      OBVIOUS
    <2>2. Linear(S, R) /\ IsFiniteSet(S) /\ InOrder(o, S, R)
      BY <1>1, <1>2, <1>4, <2>1
    <2> QED
      BY ONLY <2>2, OrderIsBijective
  <1>5. o \in [1 .. n -> 1 .. n] /\ \A i, j \in 1 .. n : i < j => <<o[i], o[j]>> \in FileOrder(m)
    BY <1>1, <1>2, <1>4 DEF InOrder
  <1>6. Ordered(m) = [i \in 1 .. n |-> m.files[o[i]]]
    BY <1>1, <1>4, <1>5
  <1>7. \A i \in 1 .. n : m.files[i] \in Nat
    BY <1>1 DEF Listed, S
  <1>8. Ordered(m) \in [1 .. n -> Nat]
    BY <1>5, <1>6, <1>7
  <1>9. Ordered(m) \in Seq(Nat) /\ Len(Ordered(m)) = n /\ DOMAIN Ordered(m) = 1 .. n
    BY <1>1, <1>8, FunctionIsSequence
  <1>10. \A i \in 1 .. n : Ordered(m)[i] = m.files[o[i]] /\ o[i] \in 1 .. n
    BY <1>5, <1>6
  <1>11. ToSet(Ordered(m)) = {Ordered(m)[i] : i \in 1 .. n} /\ ToSet(m.files) = {m.files[i] : i \in 1 .. n}
    BY <1>1, <1>9 DEF ToSet, S
  <1>12. ToSet(Ordered(m)) = ToSet(m.files)
    <2>1. ToSet(Ordered(m)) \subseteq ToSet(m.files)
      BY <1>10, <1>11
    <2>2. \A k \in 1 .. n : m.files[k] \in ToSet(Ordered(m))
      <3> TAKE k \in 1 .. n
      <3>1. PICK i \in 1 .. n : o[i] = k
        BY <1>1, <1>3
      <3>2. m.files[k] = Ordered(m)[i]
        BY <3>1, <1>10
      <3> QED
        BY <3>2, <1>11
    <2> QED
      BY <2>1, <2>2, <1>11
  <1> QED
    BY <1>4, <1>5, <1>6, <1>9, <1>12

\* A file committed later than all others is read last.
LEMMA OrderedAppend ==
  ASSUME NEW m, Listed(m), NEW id \in Nat, NEW now \in Nat, \A i \in DOMAIN m.at : m.at[i] < now,
         NEW n, n.files = Append(m.files, id), n.at = Append(m.at, now)
  PROVE  Listed(n) /\ Ordered(n) = Append(Ordered(m), id)
  <1> DEFINE k == Len(m.files)
             S == 1 .. k + 1
             o == Order(m)
             t == [i \in 1 .. k + 1 |-> IF i = k + 1 THEN k + 1 ELSE o[i]]
  <1>1. k \in Nat /\ Listed(n) /\ Len(n.files) = k + 1 /\ DOMAIN n.files = S
    BY DEF Listed
  <1>2. /\ \A i \in 1 .. k : n.files[i] = m.files[i] /\ n.at[i] = m.at[i] /\ n.at[i] < now
        /\ n.files[k + 1] = id /\ n.at[k + 1] = now
    BY DEF Listed
  <1>3. /\ Linear(S, FileOrder(n)) /\ IsFiniteSet(S) /\ Cardinality(S) = k + 1
        /\ Ordered(n) = [i \in DOMAIN Order(n) |-> n.files[Order(n)[i]]]
    BY <1>1, OrderedByTime
  <1>4. /\ o \in [1 .. k -> 1 .. k]
        /\ \A i, j \in 1 .. k : i < j => <<o[i], o[j]>> \in FileOrder(m)
        /\ Ordered(m) = [i \in 1 .. k |-> m.files[o[i]]]
        /\ Ordered(m) \in Seq(Nat) /\ Len(Ordered(m)) = k
    BY OrderedKeeps
  <1> HIDE DEF o, k
  <1>5. \A i \in 1 .. k + 1 : i # k + 1 => i \in 1 .. k /\ o[i] \in 1 .. k
    BY <1>1, <1>4
  <1>6. t \in [1 .. k + 1 -> S]
    BY <1>1, <1>5
  <1>7. \A i, j \in 1 .. k + 1 : i < j => <<t[i], t[j]>> \in FileOrder(n)
    <2> SUFFICES ASSUME NEW i \in 1 .. k + 1, NEW j \in 1 .. k + 1, i < j
                 PROVE  <<t[i], t[j]>> \in FileOrder(n)
      OBVIOUS
    <2>1. i \in 1 .. k /\ t[i] = o[i] /\ o[i] \in 1 .. k /\ o[i] \in S
      BY <1>1, <1>5
    <2>2. CASE j = k + 1
      <3>1. t[j] = k + 1 /\ k + 1 \in S
        BY <2>2, <1>1
      <3> QED
        BY <2>1, <3>1, <1>1, <1>2 DEF FileOrder
    <2>3. CASE j # k + 1
      <3>1. j \in 1 .. k /\ t[j] = o[j] /\ o[j] \in 1 .. k /\ o[j] \in S
        BY <2>3, <1>1, <1>5
      <3>2. <<o[i], o[j]>> \in FileOrder(m)
        BY <2>1, <3>1, <1>4
      <3>3. DOMAIN m.files = 1 .. k /\ DOMAIN n.files = S
        BY <1>1, <1>2
      <3>4. n.at[o[i]] = m.at[o[i]] /\ n.at[o[j]] = m.at[o[j]]
        BY <2>1, <3>1, <1>1, <1>2
      <3>5. <<o[i], o[j]>> \in S \X S
        BY <2>1, <3>1
      <3> QED
        BY <2>1, <3>1, <3>2, <3>3, <3>4, <3>5 DEF FileOrder
    <2> QED
      BY <2>2, <2>3
  <1>8. InOrder(t, S, FileOrder(n))
    BY <1>3, <1>6, <1>7 DEF InOrder
  <1>9. Order(n) = t
    <2> HIDE DEF t, S
    <2> QED
      BY <1>1, <1>3, <1>8, ArrangedIs DEF Order
  <1>10. Ordered(n) = [i \in 1 .. k + 1 |-> n.files[t[i]]]
    BY <1>3, <1>9
  <1>11. \A i \in 1 .. k + 1 : Ordered(n)[i] = Append(Ordered(m), id)[i]
    <2> TAKE i \in 1 .. k + 1
    <2>1. CASE i = k + 1
      BY <2>1, <1>1, <1>2, <1>4, <1>10
    <2>2. CASE i # k + 1
      <3>1. i \in 1 .. k /\ o[i] \in 1 .. k /\ t[i] = o[i]
        BY <2>2, <1>5
      <3>2. Ordered(n)[i] = n.files[o[i]]
        BY <3>1, <1>10
      <3>3. Append(Ordered(m), id)[i] = Ordered(m)[i]
        <4>1. PICK a : a = Ordered(m)
          OBVIOUS
        <4>2. a \in Seq(Nat) /\ i \in 1 .. Len(a)
          BY <3>1, <4>1, <1>4
        <4> QED
          BY ONLY <4>1, <4>2, id \in Nat
      <3>4. Ordered(m)[i] = m.files[o[i]]
        BY <3>1, <1>4
      <3> QED
        BY <3>1, <3>2, <3>3, <3>4, <1>2
    <2> QED
      BY <2>1, <2>2
  <1>12. Ordered(n) \in Seq(Nat) /\ Len(Ordered(n)) = k + 1
    BY <1>1, OrderedKeeps
  <1>13. Append(Ordered(m), id) \in Seq(Nat) /\ Len(Append(Ordered(m), id)) = k + 1
    BY <1>1, <1>4
  <1> QED
    BY <1>1, <1>11, <1>12, <1>13, SeqEqual

\* Files committed together are read as they were written.
LEMMA OrderedTogether ==
  ASSUME NEW m, Listed(m), \A i, j \in DOMAIN m.at : m.at[i] = m.at[j]
  PROVE  Ordered(m) = m.files
  <1> DEFINE n == Len(m.files)
             S == 1 .. n
             t == [i \in 1 .. n |-> i]
  <1>1. /\ Linear(S, FileOrder(m)) /\ IsFiniteSet(S) /\ Cardinality(S) = n /\ DOMAIN m.files = S
        /\ Ordered(m) = [i \in DOMAIN Order(m) |-> m.files[Order(m)[i]]]
    BY OrderedByTime
  <1>2. \A i, j \in S : i < j => <<i, j>> \in FileOrder(m)
    <2>1. \A i \in S : i \in DOMAIN m.at /\ i \in DOMAIN m.files /\ i \in Nat
      BY <1>1 DEF Listed
    <2> QED
      BY <2>1 DEF FileOrder
  <1>3. InOrder(t, S, FileOrder(m))
    BY <1>1, <1>2 DEF InOrder
  <1>4. Order(m) = t
    <2> HIDE DEF t, S
    <2> QED
      BY <1>1, <1>3, ArrangedIs DEF Order
  <1> QED
    <2>1. Ordered(m) = [i \in 1 .. n |-> m.files[i]]
      BY <1>1, <1>4
    <2>2. m.files = [i \in DOMAIN m.files |-> m.files[i]]
      BY DEF Listed
    <2> QED
      BY <2>1, <2>2, <1>1

-----------------------------------------------------------------------------
(* What the files of a manifest hold. *)

Content(m, fs) == FlattenSeq(Along(fs, Ordered(m)))
HasFiles(m, fs) == ToSet(m.files) \subseteq DOMAIN fs /\ fs \in [DOMAIN fs -> Seq(Rows)]

LEMMA ContentIs ==
  ASSUME NEW m, Listed(m), NEW fs, HasFiles(m, fs)
  PROVE  /\ Along(fs, Ordered(m)) \in Seq(Seq(Rows)) /\ Len(Along(fs, Ordered(m))) = Len(m.files)
         /\ Along(fs, Ordered(m)) = [i \in 1 .. Len(m.files) |-> fs[Ordered(m)[i]]]
         /\ \A i \in 1 .. Len(m.files) : Ordered(m)[i] \in ToSet(m.files)
         /\ Content(m, fs) \in Seq(Rows)
  <1> DEFINE n == Len(m.files)
  <1>1. PICK o : o = Ordered(m)
    OBVIOUS
  <1>2. o \in Seq(Nat) /\ Len(o) = n /\ ToSet(o) = ToSet(m.files) /\ DOMAIN o = 1 .. n /\ n \in Nat
    BY <1>1, OrderedKeeps DEF Listed
  <1>3. \A i \in 1 .. n : o[i] \in ToSet(m.files)
    BY <1>2 DEF ToSet
  <1>4. Along(fs, o) = [i \in 1 .. n |-> fs[o[i]]]
    BY <1>2 DEF Along
  <1>5. \A i \in 1 .. n : fs[o[i]] \in Seq(Rows)
    BY <1>3 DEF HasFiles
  <1> DEFINE Y == Seq(Rows)
  <1>6. Along(fs, o) \in [1 .. n -> Y]
    BY <1>4, <1>5
  <1> HIDE DEF Y, n
  <1>7. Along(fs, o) \in Seq(Y) /\ Len(Along(fs, o)) = n
    BY <1>2, <1>6, FunctionIsSequence
  <1>8. FlattenSeq(Along(fs, o)) \in Seq(Rows)
    BY <1>7, FlattenType DEF Y
  <1> QED
    BY <1>1, <1>3, <1>4, <1>7, <1>8 DEF n, Y, Content

LEMMA ContentSame ==
  ASSUME NEW m, NEW n, Listed(m), n.files = m.files, n.at = m.at,
         NEW fs, NEW gs, HasFiles(m, fs), HasFiles(m, gs), \A f \in ToSet(m.files) : fs[f] = gs[f]
  PROVE  Content(n, gs) = Content(m, fs)
  <1>1. Ordered(n) = Ordered(m)
    BY DEF Ordered
  <1>2. Along(gs, Ordered(m)) = Along(fs, Ordered(m))
    <2>1. /\ Along(fs, Ordered(m)) = [i \in 1 .. Len(m.files) |-> fs[Ordered(m)[i]]]
          /\ \A i \in 1 .. Len(m.files) : Ordered(m)[i] \in ToSet(m.files)
      BY ContentIs
    <2>2. Along(gs, Ordered(m)) = [i \in 1 .. Len(m.files) |-> gs[Ordered(m)[i]]]
      BY ContentIs
    <2>3. \A i \in 1 .. Len(m.files) : fs[Ordered(m)[i]] = gs[Ordered(m)[i]]
      BY <2>1
    <2> QED
      BY <2>1, <2>2, <2>3
  <1> QED
    BY <1>1, <1>2 DEF Content

\* n lists one file more than m, with a later time.
OneMore(n, m, id, now) ==
  /\ \A i \in DOMAIN m.at : m.at[i] < now
  /\ n.files = Append(m.files, id) /\ n.at = Append(m.at, now)

LEMMA ContentAppend ==
  ASSUME NEW m, Listed(m), NEW id \in Nat, NEW now \in Nat, NEW n, OneMore(n, m, id, now),
         NEW fs, HasFiles(m, fs), id \in DOMAIN fs
  PROVE  Content(n, fs) = Content(m, fs) \o fs[id]
  <1>1. Ordered(n) = Append(Ordered(m), id)
    BY OrderedAppend DEF OneMore
  <1>2. PICK o : o = Ordered(m)
    OBVIOUS
  <1>3. o \in Seq(Nat)
    BY <1>2, OrderedKeeps
  <1>4. DOMAIN Append(o, id) = 1 .. Len(o) + 1 /\ DOMAIN o = 1 .. Len(o) /\ Len(o) \in Nat
        /\ \A i \in 1 .. Len(o) + 1 : Append(o, id)[i] = IF i = Len(o) + 1 THEN id ELSE o[i]
    BY <1>3
  <1>5. Along(fs, o) \in Seq(Seq(Rows)) /\ fs[id] \in Seq(Rows) /\ Len(Along(fs, o)) = Len(o)
    BY <1>2, ContentIs, OrderedKeeps DEF HasFiles
  <1> DEFINE a == Along(fs, Append(o, id))
             b == Append(Along(fs, o), fs[id])
  <1>6. a = [i \in 1 .. Len(o) + 1 |-> IF i = Len(o) + 1 THEN fs[id] ELSE fs[o[i]]]
    BY <1>4 DEF Along
  <1>7. b = [i \in 1 .. Len(o) + 1 |-> IF i = Len(o) + 1 THEN fs[id] ELSE fs[o[i]]]
    <2>1. PICK c : c = Along(fs, o)
      OBVIOUS
    <2>2. c = [i \in 1 .. Len(o) |-> fs[o[i]]]
      BY <2>1, <1>4 DEF Along
    <2>3. c \in Seq(Seq(Rows)) /\ Len(c) = Len(o)
      BY <2>1, <1>5
    <2>4. Append(c, fs[id]) = [i \in 1 .. Len(o) + 1 |-> IF i = Len(o) + 1 THEN fs[id] ELSE fs[o[i]]]
      BY ONLY <2>2, <2>3, <1>4
    <2> QED
      BY <2>1, <2>4
  <1>8. a = b
    BY <1>6, <1>7
  <1>9. FlattenSeq(b) = FlattenSeq(Along(fs, o)) \o fs[id]
    <2> HIDE DEF a
    <2> QED
      BY <1>5, FlattenAppend
  <1> QED
    BY <1>1, <1>2, <1>8, <1>9 DEF Content

LEMMA ContentTogether ==
  ASSUME NEW m, Listed(m), \A i, j \in DOMAIN m.at : m.at[i] = m.at[j],
         NEW plan \in Seq(Seq(Rows)), Len(plan) = Len(m.files),
         NEW fs, \A i \in DOMAIN plan : fs[m.files[i]] = plan[i]
  PROVE  Content(m, fs) = FlattenSeq(plan)
  <1>1. Ordered(m) = m.files
    BY OrderedTogether
  <1>2. DOMAIN m.files = 1 .. Len(plan) /\ DOMAIN plan = 1 .. Len(plan)
    BY DEF Listed
  <1>3. Along(fs, m.files) = [i \in 1 .. Len(plan) |-> plan[i]]
    BY <1>2 DEF Along
  <1>4. plan = [i \in 1 .. Len(plan) |-> plan[i]]
    OBVIOUS
  <1> QED
    BY <1>1, <1>3, <1>4 DEF Content

\* The files of a plan have rows, and together those of the sequence.
LEMMA ChunksAre ==
  ASSUME NEW rs \in Seq(Rows)
  PROVE  Chunks(rs) \in Seq(RowSeqs) /\ FlattenSeq(Chunks(rs)) = rs
  <1>1. Chunks(rs) = PiecesOf(rs, TargetRows)
    BY Zenon DEF Chunks, PiecesOf
  <1>2. PICK ss : ss = Chunks(rs)
    OBVIOUS
  <1>3. /\ ss \in Seq(Seq(Rows)) /\ FlattenSeq(ss) = rs
        /\ \A i \in DOMAIN ss : ss[i] # <<>>
    <2>1. TargetRows \in Nat \ {0}
      BY NumbersAssumption
    <2> QED
      BY <2>1, <1>1, <1>2, FlattenPieces
  <1>4. ss \in Seq(RowSeqs)
    <2>1. ss \in [1 .. Len(ss) -> RowSeqs] /\ Len(ss) \in Nat
      BY <1>3 DEF RowSeqs
    <2> QED
      BY <2>1, FunctionIsSequence
  <1> QED
    BY <1>2, <1>3, <1>4

LEMMA FlushPlanIs ==
  ASSUME NEW rs \in Seq(Rows), rs # <<>>
  PROVE  /\ FlushPlan(rs) \in Seq(RowSeqs) /\ Len(FlushPlan(rs)) = 1
         /\ FlushPlan(rs)[1] = Table!Sorted(rs)
  <1>1. Table!Sorted(rs) \in Seq(Rows) /\ Len(Table!Sorted(rs)) = Len(rs)
    BY SortedKeeps
  <1>2. Table!Sorted(rs) \in RowSeqs
    BY <1>1 DEF RowSeqs
  <1> QED
    BY <1>2 DEF FlushPlan

-----------------------------------------------------------------------------
(* The tasks of a call. *)

Dos == {"append", "flush", "commit", "compact", "replace", "scan", "configure", "close"}
OnPartition == {"append", "commit", "compact", "replace"}
Bringing == {"append", "replace"}
Tasks == [do : Dos, p : Partitions \cup {0}, rows : Seq(Rows)]

LEMMA RunIs ==
  ASSUME NEW m \in Rows, NEW n \in Rows \cup {m - 1}, m - 1 <= n
  PROVE  /\ Run(m, n) \in Seq(Rows) /\ Len(Run(m, n)) = n - m + 1
         /\ ToSet(Run(m, n)) = m .. n
  <1>1. m \in Nat /\ n \in Nat /\ n - m + 1 \in Nat /\ m .. n \subseteq Rows
    BY RowsAre
  <1>2. Run(m, n) \in [1 .. n - m + 1 -> Rows]
    BY <1>1 DEF Run
  <1>3. Run(m, n) \in Seq(Rows) /\ Len(Run(m, n)) = n - m + 1 /\ DOMAIN Run(m, n) = 1 .. n - m + 1
    BY <1>1, <1>2, FunctionIsSequence
  <1>4. \A i \in 1 .. n - m + 1 : Run(m, n)[i] = m + i - 1
    BY <1>1 DEF Run
  <1>5. ToSet(Run(m, n)) \subseteq m .. n
    BY <1>1, <1>3, <1>4 DEF ToSet
  <1>6. \A r \in m .. n : r \in ToSet(Run(m, n))
    <2> TAKE r \in m .. n
    <2>1. r - m + 1 \in 1 .. n - m + 1 /\ r = m + (r - m + 1) - 1
      BY <1>1
    <2>2. Run(m, n)[r - m + 1] = r
      BY <2>1, <1>1, <1>4
    <2> QED
      BY <2>1, <2>2, <1>3 DEF ToSet
  <1> QED
    BY <1>3, <1>5, <1>6

LEMMA InPartitionIs ==
  ASSUME NEW p, NEW rs \in Seq(Rows)
  PROVE  /\ InPartition(p, rs) \in Seq(Rows)
         /\ ToSet(InPartition(p, rs)) = {r \in ToSet(rs) : PartitionOf[r] = p}
  <1> DEFINE S == {r \in ToSet(rs) : PartitionOf[r] = p}
  <1>1. S \subseteq Rows
    BY DEF ToSet
  <1>2. IsFiniteSet(S) /\ S \in SUBSET Nat
    <2>1. IsFiniteSet(Rows)
      BY RowsAre, FS_Interval
    <2>2. Rows \subseteq Nat
      BY RowsAre
    <2> HIDE DEF S
    <2>3. IsFiniteSet(S)
      BY <1>1, <2>1, FS_Subset
    <2> QED
      BY <1>1, <2>2, <2>3
  <1>3. InPartition(p, rs) = Ascending(S)
    BY DEF InPartition
  <1> HIDE DEF S
  <1>4. Ascending(S) \in Seq(S) /\ ToSet(Ascending(S)) = S
    BY <1>2, AscendingIs
  <1>5. Ascending(S) \in Seq(Rows)
    BY <1>1, <1>4
  <1> QED
    BY <1>3, <1>4, <1>5 DEF S

\* _group_rows: every partition of the rows once, with its rows.
LEMMA GroupsAre ==
  ASSUME NEW do \in Dos, NEW rs \in Seq(Rows), rs # <<>>
  PROVE  /\ Groups(do, rs) \in Seq(Tasks) /\ Groups(do, rs) # <<>>
         /\ \A i \in DOMAIN Groups(do, rs) :
              LET k == Groups(do, rs)[i] IN
              k.do = do /\ k.p \in Partitions /\ k.rows = InPartition(k.p, rs)
         /\ \A i, j \in DOMAIN Groups(do, rs) :
              Groups(do, rs)[i].p = Groups(do, rs)[j].p => i = j
  <1> DEFINE P == {PartitionOf[rs[i]] : i \in DOMAIN rs}
             R == {x \in P \X P : Head(InPartition(x[1], rs)) < Head(InPartition(x[2], rs))}
             ps == Arranged(P, R)
             n == Cardinality(P)
             G == Groups(do, rs)
  <1>1. \A i \in DOMAIN rs : rs[i] \in Rows /\ rs[i] \in ToSet(rs)
    BY DEF ToSet
  <1>2. P \subseteq Partitions /\ P # {}
    BY <1>1, RowsAre
  <1>3. IsFiniteSet(P) /\ n \in Nat /\ n # 0
    <2> HIDE DEF P
    <2> QED
      BY <1>2, NumbersAssumption, FS_Subset, FS_CardinalityType, FS_EmptySet
  <1>4. \A p \in P : Head(InPartition(p, rs)) \in Nat /\ PartitionOf[Head(InPartition(p, rs))] = p
    <2> TAKE p \in P
    <2>1. PICK i \in DOMAIN rs : p = PartitionOf[rs[i]]
      OBVIOUS
    <2> PICK s : s = InPartition(p, rs)
      OBVIOUS
    <2>2. s \in Seq(Rows) /\ ToSet(s) = {r \in ToSet(rs) : PartitionOf[r] = p}
      BY InPartitionIs
    <2>3. s # <<>>
      <3>1. rs[i] \in ToSet(s)
        BY <1>1, <2>1, <2>2
      <3> QED
        BY <3>1 DEF ToSet
    <2>4. Head(s) \in ToSet(s) /\ Head(s) \in Rows
      BY <2>2, <2>3 DEF ToSet
    <2> QED
      BY <2>2, <2>4, RowsAre
  <1>5. Linear(P, R)
    <2> HIDE DEF P
    <2> QED
      BY <1>4 DEF Linear
  <1>6. InOrder(ps, P, R) /\ \A i, j \in 1 .. n : ps[i] = ps[j] => i = j
    <2> HIDE DEF P, R
    <2> QED
      BY <1>3, <1>5, ArrangedInOrder, OrderIsBijective
  <1>7. G = [i \in DOMAIN ps |-> Task(do, ps[i], InPartition(ps[i], rs))]
    BY DEF Groups
  <1> HIDE DEF R, ps, G
  <1>8. ps \in [1 .. n -> P]
    BY <1>6 DEF InOrder
  <1> HIDE DEF P, n
  <1>9. G = [i \in 1 .. n |-> Task(do, ps[i], InPartition(ps[i], rs))]
    BY <1>7, <1>8
  <1>10. \A i \in 1 .. n : ps[i] \in Partitions /\ InPartition(ps[i], rs) \in Seq(Rows)
    BY <1>2, <1>8, InPartitionIs
  <1>11. \A i \in 1 .. n : G[i] \in Tasks /\ G[i].do = do /\ G[i].p = ps[i]
                           /\ G[i].rows = InPartition(ps[i], rs)
    BY <1>9, <1>10 DEF Task, Tasks
  <1>12. G \in [1 .. n -> Tasks]
    BY <1>9, <1>11
  <1>13. G \in Seq(Tasks) /\ Len(G) = n /\ DOMAIN G = 1 .. n
    BY <1>3, <1>12, FunctionIsSequence
  <1>14. G # <<>>
    BY <1>3, <1>13
  <1> QED
    BY <1>6, <1>10, <1>11, <1>13, <1>14 DEF G

LEMMA PerPartitionIs ==
  ASSUME NEW do \in Dos, NEW P \in SUBSET Partitions
  PROVE  /\ PerPartition(do, P) \in Seq(Tasks)
         /\ \A i \in DOMAIN PerPartition(do, P) :
              LET k == PerPartition(do, P)[i] IN k.do = do /\ k.p \in P /\ k.rows = <<>>
         /\ \A p \in P : \E i \in DOMAIN PerPartition(do, P) : PerPartition(do, P)[i].p = p
  <1>1. P \in SUBSET Nat /\ IsFiniteSet(P)
    BY NumbersAssumption, FS_Subset
  <1>2. PICK a : a = Ascending(P)
    OBVIOUS
  <1>3. a \in Seq(P) /\ ToSet(a) = P
    BY <1>1, <1>2, AscendingIs
  <1>4. PICK s : s = PerPartition(do, P)
    OBVIOUS
  <1>5. s = [i \in 1 .. Len(a) |-> Task(do, a[i], <<>>)]
    BY <1>2, <1>3, <1>4 DEF PerPartition
  <1>6. \A i \in 1 .. Len(a) : a[i] \in P /\ s[i] = [do |-> do, p |-> a[i], rows |-> <<>>] /\ s[i] \in Tasks
    BY <1>3, <1>5 DEF Task, Tasks
  <1>7. s \in [1 .. Len(a) -> Tasks] /\ Len(a) \in Nat
    <2>1. Len(a) \in Nat
      BY <1>3
    <2>2. s = [i \in 1 .. Len(a) |-> s[i]]
      BY <1>5
    <2>3. \A i \in 1 .. Len(a) : s[i] \in Tasks
      BY <1>6
    <2> HIDE DEF Tasks
    <2> QED
      BY ONLY <2>1, <2>2, <2>3
  <1>8. s \in Seq(Tasks) /\ DOMAIN s = 1 .. Len(a)
    BY <1>7, FunctionIsSequence
  <1>9. \A p \in P : \E i \in DOMAIN s : s[i].p = p
    <2> TAKE p \in P
    <2>1. PICK i \in 1 .. Len(a) : a[i] = p
      BY <1>3 DEF ToSet
    <2> QED
      BY <2>1, <1>6, <1>8
  <1> QED
    BY <1>4, <1>6, <1>8, <1>9

-----------------------------------------------------------------------------
(* The invariant. *)

Stages == {"writing", "written", "committed", "cleaned"}
Ops == {"append", "flush", "write", "replace", "compact", "update_schema", "close"}
Busy ==
  [at : {"ready"} \cup Stages, op : Ops, todo : Seq(Tasks), schema : Schemas, new : Seq(Rows),
   plan : Seq(RowSeqs), ids : Seq(Nat), keep : BOOLEAN, drops : BOOLEAN, signature : Schemas \cup {None}]

\* The types that the proof needs, the threads' and files' included.
TypeInv ==
  /\ manifest \in [Partitions -> Manifests \cup {None}]
  /\ DOMAIN files = Partitions /\ files = [p \in Partitions |-> files[p]]
  /\ \A p \in Partitions : files[p] \in [DOMAIN files[p] -> RowSeqs] /\ DOMAIN files[p] \subseteq 1 .. made
  /\ buffer \in [Partitions -> [rows : Seq(Rows), schemas : SUBSET Schemas]]
  /\ lock \in [Partitions -> Threads \cup {None}]
  /\ thread \in [Threads -> {Idle} \cup Busy]
  /\ schema \in Schemas /\ closed \in BOOLEAN /\ made \in Nat /\ rows \in 0 .. Len(KeyOf)

\* The tasks `todo` of a call `op` that brings the rows `new`: each row once, and
\* a write flushes after what it appends.
GoodTasks(op, todo, new) ==
  /\ todo # <<>>
  /\ \A i \in DOMAIN todo :
       /\ todo[i].do \in OnPartition => todo[i].p \in Partitions
       /\ todo[i].do \in Bringing => todo[i].rows \in Inputs
       /\ todo[i].do \notin Bringing => todo[i].rows = <<>>
       /\ todo[i].do = "configure" => op = "update_schema"
       /\ todo[i].do = "scan" => op # "update_schema"
       /\ ToSet(todo[i].rows) \subseteq ToSet(new)
  /\ \A i, j \in DOMAIN todo : i # j => ToSet(todo[i].rows) \cap ToSet(todo[j].rows) = {}
  /\ op = "write" => \A i \in DOMAIN todo :
       /\ todo[i].do \in {"append", "flush", "commit", "compact"}
       /\ todo[i].do = "append" => \E j \in DOMAIN todo : i < j /\ todo[j].do = "flush"

\* A thread between two steps of a commit holds the lock of its partition.
ThreadInv(t) ==
  thread[t] # Idle =>
    /\ GoodTasks(thread[t].op, thread[t].todo, thread[t].new)
    /\ ToSet(thread[t].new) \subseteq 1 .. rows
    /\ thread[t].op = "update_schema" => thread[t].schema + 1 \in Schemas
    /\ thread[t].at \in Stages => NextTask(t).do \in OnPartition /\ lock[NextTask(t).p] = t

\* A held lock is one that its thread is working under.
LockInv(p) == lock[p] # None => thread[lock[p]].at \in Stages /\ NextTask(lock[p]).p = p

\* No two calls bring the same row.
NewInv ==
  \A t, u \in Threads : t # u /\ thread[t] # Idle /\ thread[u] # Idle =>
    ToSet(thread[t].new) \cap ToSet(thread[u].new) = {}

\* What the manifest of a partition names is on disk, and its times are in the past
\* of its last update; a signed partition has no key twice.
DiskInv(p) ==
  LET m == Current(p) IN
  /\ Listed(m) /\ IsInjective(m.files) /\ ToSet(m.files) \subseteq DOMAIN files[p]
  /\ \A i \in DOMAIN m.at : m.at[i] \in 1 .. m.updated
  /\ manifest[p] # None => m.version # 0
  /\ m.signature # None => SameKeyOnce(Visible(p))
  /\ ToSet(Visible(p)) \subseteq 1 .. rows /\ ToSet(buffer[p].rows) \subseteq 1 .. rows

\* What a thread is about to commit: the buffer, the rows of its task, or what
\* is visible without repetitions.
PlanInv(t) ==
  LET w == thread[t]
      p == NextTask(t).p
  IN
  /\ w.keep =>
       /\ NextTask(t).do \in {"append", "commit"}
       /\ buffer[p].rows # <<>> /\ w.plan = FlushPlan(buffer[p].rows)
  /\ w.drops /\ ~w.keep =>
       NextTask(t).do = "replace" /\ w.plan = Chunks(Table!Sorted(NextTask(t).rows))
  /\ ~w.drops =>
       NextTask(t).do = "compact" /\ w.plan = Chunks(Table!Sorted(Table!Winners(Visible(p))))

\* The files written for a commit hold its plan and are named by no manifest yet.
WrittenFiles(t) ==
  LET w == thread[t]
      p == NextTask(t).p
  IN
  /\ Len(w.ids) = Len(w.plan) /\ IsInjective(w.ids)
  /\ \A i \in DOMAIN w.plan : w.ids[i] \in DOMAIN files[p] /\ files[p][w.ids[i]] = w.plan[i]
  /\ ToSet(w.ids) \cap ToSet(Current(p).files) = {}

\* How far a commit has come: planned, written, shown, cleaned up.
CommitInv(t) ==
  thread[t].at \in Stages =>
    /\ thread[t].keep => thread[t].drops
    /\ thread[t].drops => thread[t].signature = None
    /\ NextTask(t).do # "compact" => thread[t].drops
    /\ thread[t].at \in {"writing", "written"} => PlanInv(t)
    /\ thread[t].at = "writing" => thread[t].ids = <<>>
    /\ thread[t].at = "written" => WrittenFiles(t)
    /\ thread[t].at \in {"committed", "cleaned"} => manifest[NextTask(t).p] # None

\* The rows in memory and the rows readers see.
Stored == UNION {ToSet(buffer[p].rows) \cup ToSet(Visible(p)) : p \in Partitions}

\* The i-th task of a thread has still to bring its rows.
Pending(w, i) ==
  ~ (i = 1 /\ w.at \in Stages /\ (w.todo[1].do = "append" \/ w.at \in {"committed", "cleaned"}))

\* What a call has still to bring is not there yet.
FreshInv(t) ==
  thread[t] # Idle =>
    \A i \in DOMAIN thread[t].todo :
      Pending(thread[t], i) => ToSet(thread[t].todo[i].rows) \cap Stored = {}

\* A row that a write has left in memory will be flushed by it.
WriteInv(t) ==
  thread[t] # Idle /\ thread[t].op = "write" =>
    \A p \in Partitions :
      \/ ToSet(thread[t].new) \cap ToSet(buffer[p].rows) = {}
      \/ \E i \in DOMAIN thread[t].todo :
           LET k == thread[t].todo[i] IN k.do = "flush" \/ (k.do = "commit" /\ k.p = p)

StoreInv ==
  /\ TypeInv /\ NewInv
  /\ \A t \in Threads : ThreadInv(t) /\ CommitInv(t) /\ FreshInv(t) /\ WriteInv(t)
  /\ \A p \in Partitions : LockInv(p) /\ DiskInv(p)

-----------------------------------------------------------------------------
(* What a step of one thread leaves to the others. *)

LEMMA Kinds ==
  ASSUME TypeInv, NEW t \in Threads
  PROVE  /\ thread[t] = Idle <=> thread[t].at = "idle"
         /\ thread[t] # Idle => thread[t] \in Busy /\ thread[t].at \in {"ready"} \cup Stages
  <1>1. Idle.at = "idle" /\ "idle" \notin {"ready"} \cup Stages
    BY DEF Idle, Stages
  <1>2. \A w \in Busy : w.at \in {"ready"} \cup Stages
    BY DEF Busy
  <1>3. thread[t] \in {Idle} \cup Busy
    BY DEF TypeInv
  <1> QED
    BY <1>1, <1>2, <1>3

\* The rows of the call that a thread is executing.
Brings(t) == IF thread[t] = Idle THEN {} ELSE ToSet(thread[t].new)

\* A step of t: what other threads hold stays, and only t's rows are added.
StepOf(t) ==
  /\ \A u \in Threads \ {t} : thread'[u] = thread[u]
  /\ rows <= rows'
  /\ \A p \in Partitions : lock[p] \notin {None, t} =>
       /\ lock'[p] = lock[p] /\ manifest'[p] = manifest[p]
       /\ files'[p] = files[p] /\ buffer'[p] = buffer[p]
  /\ \A p \in Partitions : lock'[p] \in {lock[p], None, t}
  /\ \A p \in Partitions : ToSet(buffer'[p].rows) \subseteq ToSet(buffer[p].rows) \cup Brings(t)
  /\ Stored' \subseteq Stored \cup Brings(t)

LEMMA OthersNotDisturbed ==
  ASSUME StoreInv, NEW t \in Threads, StepOf(t), rows' \in Nat, NEW u \in Threads \ {t}
  PROVE  ThreadInv(u)' /\ CommitInv(u)' /\ FreshInv(u)' /\ WriteInv(u)'
  <1>1. thread'[u] = thread[u] /\ ThreadInv(u) /\ CommitInv(u) /\ FreshInv(u) /\ WriteInv(u) /\ TypeInv
    BY DEF StoreInv, StepOf
  <1>2. thread[u] # Idle => ToSet(thread[u].new) \cap Brings(t) = {}
    BY DEF StoreInv, NewInv, Brings
  <1>3. thread[u].at \in Stages =>
          /\ thread[u] # Idle /\ NextTask(u).p \in Partitions /\ lock[NextTask(u).p] = u
          /\ lock'[NextTask(u).p] = u /\ manifest'[NextTask(u).p] = manifest[NextTask(u).p]
          /\ files'[NextTask(u).p] = files[NextTask(u).p]
          /\ buffer'[NextTask(u).p] = buffer[NextTask(u).p]
    <2> SUFFICES ASSUME thread[u].at \in Stages
                 PROVE  /\ thread[u] # Idle /\ NextTask(u).p \in Partitions /\ lock[NextTask(u).p] = u
      BY NoneAssumption DEF StepOf
    <2>1. thread[u] # Idle
      BY <1>1, Kinds DEF Stages
    <2>2. NextTask(u).do \in OnPartition /\ lock[NextTask(u).p] = u
      BY <1>1, <2>1 DEF ThreadInv
    <2>3. thread[u].todo \in Seq(Tasks) /\ thread[u].todo # <<>>
      BY <1>1, <2>1, Kinds DEF Busy, ThreadInv, GoodTasks
    <2>4. NextTask(u) = thread[u].todo[1] /\ 1 \in DOMAIN thread[u].todo
      BY <2>3 DEF NextTask
    <2>5. NextTask(u).p \in Partitions
      BY <1>1, <2>1, <2>2, <2>4 DEF ThreadInv, GoodTasks
    <2> QED
      BY <2>1, <2>2, <2>5
  <1>4. NextTask(u)' = NextTask(u)
    BY <1>1 DEF NextTask
  <1>5. ThreadInv(u)'
    <2>1. 1 .. rows \subseteq 1 .. rows'
      BY <1>1 DEF TypeInv, StepOf
    <2> QED
      BY <1>1, <1>3, <1>4, <2>1 DEF ThreadInv
  <1>6. CommitInv(u)'
    <2> SUFFICES ASSUME thread[u].at \in Stages PROVE CommitInv(u)'
      BY <1>1 DEF CommitInv
    <2> PICK p : p = NextTask(u).p
      OBVIOUS
    <2>1. Visible(p)' = Visible(p) /\ Current(p)' = Current(p)
      BY <1>3 DEF Visible, Current
    <2>2. PlanInv(u) => PlanInv(u)'
      BY <1>1, <1>3, <1>4, <2>1 DEF PlanInv
    <2>3. WrittenFiles(u) => WrittenFiles(u)'
      BY <1>1, <1>3, <1>4, <2>1 DEF WrittenFiles
    <2> QED
      BY <1>1, <1>3, <1>4, <2>2, <2>3 DEF CommitInv
  <1>7. FreshInv(u)'
    <2> SUFFICES ASSUME thread[u] # Idle, NEW i \in DOMAIN thread[u].todo, Pending(thread[u], i)
                 PROVE  ToSet(thread[u].todo[i].rows) \cap Stored' = {}
      BY <1>1 DEF FreshInv
    <2>1. ToSet(thread[u].todo[i].rows) \subseteq ToSet(thread[u].new)
      BY <1>1 DEF ThreadInv, GoodTasks
    <2>2. ToSet(thread[u].todo[i].rows) \cap Stored = {}
      BY <1>1 DEF FreshInv
    <2> QED
      BY <1>2, <2>1, <2>2 DEF StepOf
  <1>8. WriteInv(u)'
    <2> SUFFICES ASSUME thread[u] # Idle, NEW p \in Partitions,
                        ToSet(thread[u].new) \cap ToSet(buffer[p].rows) = {}
                 PROVE  ToSet(thread[u].new) \cap ToSet(buffer'[p].rows) = {}
      BY <1>1 DEF WriteInv
    <2> QED
      BY <1>2 DEF StepOf
  <1> QED
    BY <1>5, <1>6, <1>7, <1>8

SameAt(p) == manifest'[p] = manifest[p] /\ files'[p] = files[p] /\ buffer'[p] = buffer[p]

LEMMA DiskSame ==
  ASSUME StoreInv, NEW p \in Partitions, SameAt(p), rows <= rows', rows' \in Nat
  PROVE  DiskInv(p)'
  <1>1. Visible(p)' = Visible(p) /\ Current(p)' = Current(p)
    BY DEF SameAt, Visible, Current
  <1>2. 1 .. rows \subseteq 1 .. rows' /\ DiskInv(p)
    BY DEF StoreInv, TypeInv
  <1> QED
    BY <1>1, <1>2 DEF DiskInv, SameAt

LEMMA StepKeeps ==
  ASSUME StoreInv, NEW t \in Threads, StepOf(t), TypeInv',
         thread'[t] # Idle => ToSet(thread'[t].new) \subseteq Brings(t) \cup (rows + 1 .. rows'),
         \A p \in Partitions : lock'[p] = t => thread'[t].at \in Stages /\ NextTask(t)'.p = p,
         ThreadInv(t)', CommitInv(t)', FreshInv(t)', WriteInv(t)',
         \A p \in Partitions : SameAt(p) \/ DiskInv(p)'
  PROVE  StoreInv'
  <1>1. rows' \in Nat /\ rows \in Nat
    BY DEF TypeInv, StoreInv
  <1>2. \A u \in Threads : ThreadInv(u)' /\ CommitInv(u)' /\ FreshInv(u)' /\ WriteInv(u)'
    BY <1>1, OthersNotDisturbed
  <1>3. \A p \in Partitions : DiskInv(p)'
    BY <1>1, DiskSame DEF StepOf
  <1>4. \A p \in Partitions : LockInv(p)'
    <2> SUFFICES ASSUME NEW p \in Partitions, lock'[p] # None
                 PROVE  thread'[lock'[p]].at \in Stages /\ Head(thread'[lock'[p]].todo).p = p
      BY DEF LockInv, NextTask
    <2>1. CASE lock'[p] = t
      BY <2>1 DEF NextTask
    <2>2. CASE lock'[p] # t
      <3>1. PICK u : u = lock[p]
        OBVIOUS
      <3>2. lock'[p] = u /\ u \in Threads \ {t}
        BY <2>2, <3>1 DEF StepOf, StoreInv, TypeInv
      <3>3. thread'[u] = thread[u]
        BY <3>2 DEF StepOf
      <3>4. thread[u].at \in Stages /\ NextTask(u).p = p
        BY <3>1, <3>2, NoneAssumption DEF StoreInv, LockInv
      <3> QED
        BY <3>2, <3>3, <3>4 DEF NextTask
    <2> QED
      BY <2>1, <2>2
  <1>5. NewInv'
    <2>1. \A u \in Threads \ {t} :
            thread'[u] = thread[u]
            /\ (thread[u] # Idle => ToSet(thread[u].new) \subseteq 1 .. rows
                                    /\ ToSet(thread[u].new) \cap Brings(t) = {})
      BY DEF StepOf, StoreInv, NewInv, ThreadInv, Brings
    <2>2. (1 .. rows) \cap (rows + 1 .. rows') = {}
      BY <1>1
    <2>3. \A u, v \in Threads \ {t} : u # v /\ thread[u] # Idle /\ thread[v] # Idle =>
            ToSet(thread[u].new) \cap ToSet(thread[v].new) = {}
      BY DEF StoreInv, NewInv
    <2>4. \A u \in Threads \ {t} : thread'[u] # Idle /\ thread'[t] # Idle =>
            ToSet(thread'[u].new) \cap ToSet(thread'[t].new) = {}
      BY <2>1, <2>2
    <2>5. \A u, v \in Threads : u # v /\ thread'[u] # Idle /\ thread'[v] # Idle =>
            ToSet(thread'[u].new) \cap ToSet(thread'[v].new) = {}
      <3> TAKE u, v \in Threads
      <3>1. CASE u = t
        BY <3>1, <2>4
      <3>2. CASE v = t
        BY <3>2, <2>4
      <3>3. CASE u # t /\ v # t
        BY <3>3, <2>1, <2>3
      <3> QED
        BY <3>1, <3>2, <3>3
    <2> QED
      BY <2>5 DEF NewInv
  <1> QED
    BY <1>2, <1>3, <1>4, <1>5 DEF StoreInv

-----------------------------------------------------------------------------
(* A thread goes to its next task, or returns. *)

GoesTo(w, t, ts) ==
  IF ts = <<>> THEN w = Idle
  ELSE /\ w \in Busy /\ w.at = "ready" /\ w.op = thread[t].op /\ w.new = thread[t].new /\ w.todo = ts
       /\ w.op = "update_schema" => w.schema = thread[t].schema

LEMMA WithIs ==
  ASSUME TypeInv, NEW t \in Threads, thread[t] # Idle, NEW ts \in Seq(Tasks)
  PROVE  /\ GoesTo(With(t, ts), t, ts)
         /\ thread[t].op # "update_schema" /\ ts # <<>> => GoesTo([With(t, ts) EXCEPT !.schema = schema], t, ts)
  <1>1. thread[t] \in Busy /\ schema \in Schemas
    BY Kinds DEF TypeInv
  <1>2. CASE ts = <<>>
    BY <1>2 DEF With, GoesTo
  <1>3. CASE ts # <<>>
    <2> PICK sc : sc = IF thread[t].op = "write" /\ Head(ts).do = "compact" THEN schema ELSE thread[t].schema
      OBVIOUS
    <2>1. With(t, ts) = [thread[t] EXCEPT !.at = "ready", !.todo = ts, !.schema = sc]
      BY <1>3 DEF With
    <2>2. sc \in Schemas /\ (thread[t].op = "update_schema" => sc = thread[t].schema)
      BY <1>1 DEF Busy
    <2> QED
      BY <1>1, <1>3, <2>1, <2>2 DEF GoesTo, Busy
  <1> QED
    BY <1>2, <1>3

\* What is left of a call after its first task.
LEMMA RestIs ==
  ASSUME StoreInv, NEW t \in Threads, thread[t] # Idle
  PROVE  /\ Rest(t) \in Seq(Tasks) /\ NextTask(t) \in Tasks /\ NextTask(t) = thread[t].todo[1]
         /\ 1 \in DOMAIN thread[t].todo
         /\ Rest(t) # <<>> => GoodTasks(thread[t].op, Rest(t), thread[t].new)
         /\ \A i \in DOMAIN Rest(t) :
              ToSet(Rest(t)[i].rows) \cap (Stored \cup ToSet(NextTask(t).rows)) = {}
         /\ thread[t].op = "write" =>
              \A p \in Partitions :
                NextTask(t).do # "flush" /\ ~(NextTask(t).do = "commit" /\ NextTask(t).p = p) =>
                  \/ ToSet(thread[t].new) \cap ToSet(buffer[p].rows) = {}
                  \/ \E i \in DOMAIN Rest(t) :
                       Rest(t)[i].do = "flush" \/ (Rest(t)[i].do = "commit" /\ Rest(t)[i].p = p)
         /\ thread[t].op = "write" /\ NextTask(t).do = "append" =>
              \E i \in DOMAIN Rest(t) : Rest(t)[i].do = "flush"
  <1>1. PICK todo : todo = thread[t].todo
    OBVIOUS
  <1>2. todo \in Seq(Tasks) /\ todo # <<>> /\ GoodTasks(thread[t].op, todo, thread[t].new)
    <2>1. thread[t] \in Busy
      BY Kinds DEF StoreInv
    <2>2. GoodTasks(thread[t].op, todo, thread[t].new)
      BY <1>1 DEF StoreInv, ThreadInv
    <2> QED
      BY <1>1, <2>1, <2>2 DEF GoodTasks, Busy
  <1>10. \A i, j \in DOMAIN todo : i # j => ToSet(todo[i].rows) \cap ToSet(todo[j].rows) = {}
    BY <1>2 DEF GoodTasks
  <1>3. PICK r : r = Tail(todo)
    OBVIOUS
  <1>4. /\ r \in Seq(Tasks) /\ DOMAIN r = 1 .. Len(todo) - 1 /\ Len(todo) \in Nat \ {0}
        /\ todo[1] \in Tasks /\ Head(todo) = todo[1] /\ DOMAIN todo = 1 .. Len(todo)
    BY <1>2, <1>3
  <1>5. \A i \in DOMAIN r : i + 1 \in DOMAIN todo /\ i + 1 # 1 /\ r[i] = todo[i + 1]
    BY <1>2, <1>3, <1>4
  <1>6. \A j \in DOMAIN todo : j # 1 => j - 1 \in DOMAIN r /\ r[j - 1] = todo[j]
    <2> TAKE j \in DOMAIN todo
    <2>1. j # 1 => j - 1 \in DOMAIN r /\ (j - 1) + 1 = j
      BY <1>4
    <2> QED
      BY <2>1, <1>5
  <1>7. r # <<>> => GoodTasks(thread[t].op, r, thread[t].new)
    <2> SUFFICES ASSUME r # <<>> PROVE GoodTasks(thread[t].op, r, thread[t].new)
      OBVIOUS
    <2>1. \A i, j \in DOMAIN r : i # j => ToSet(r[i].rows) \cap ToSet(r[j].rows) = {}
      <3> SUFFICES ASSUME NEW i \in DOMAIN r, NEW j \in DOMAIN r, i # j
                   PROVE  ToSet(r[i].rows) \cap ToSet(r[j].rows) = {}
        OBVIOUS
      <3>1. i + 1 # j + 1
        BY <1>4
      <3> QED
        BY <3>1, <1>10, <1>5
    <2>2. \A i \in DOMAIN r : thread[t].op = "write" /\ r[i].do = "append" =>
            \E j \in DOMAIN r : i < j /\ r[j].do = "flush"
      <3> SUFFICES ASSUME NEW i \in DOMAIN r, thread[t].op = "write", r[i].do = "append"
                   PROVE  \E j \in DOMAIN r : i < j /\ r[j].do = "flush"
        OBVIOUS
      <3>1. PICK j \in DOMAIN todo : i + 1 < j /\ todo[j].do = "flush"
        BY <1>2, <1>5 DEF GoodTasks
      <3>2. j - 1 \in DOMAIN r /\ i < j - 1 /\ r[j - 1].do = "flush"
        BY <1>4, <1>6, <3>1
      <3> QED
        BY <3>2
    <2>3. \A i \in DOMAIN r :
       /\ r[i].do \in OnPartition => r[i].p \in Partitions
       /\ r[i].do \in Bringing => r[i].rows \in Inputs
       /\ r[i].do \notin Bringing => r[i].rows = <<>>
       /\ r[i].do = "configure" => thread[t].op = "update_schema"
       /\ r[i].do = "scan" => thread[t].op # "update_schema"
       /\ ToSet(r[i].rows) \subseteq ToSet(thread[t].new)
       /\ thread[t].op = "write" => r[i].do \in {"append", "flush", "commit", "compact"}
      BY <1>2, <1>5 DEF GoodTasks
    <2> QED
      BY <2>1, <2>2, <2>3 DEF GoodTasks
  <1>8. \A i \in DOMAIN r : ToSet(r[i].rows) \cap (Stored \cup ToSet(todo[1].rows)) = {}
    <2> TAKE i \in DOMAIN r
    <2>1. Pending(thread[t], i + 1)
      BY <1>5 DEF Pending
    <2>2. ToSet(todo[i + 1].rows) \cap Stored = {}
      BY <2>1, <1>1, <1>5 DEF StoreInv, FreshInv
    <2>3. ToSet(todo[i + 1].rows) \cap ToSet(todo[1].rows) = {}
      <3>1. 1 \in DOMAIN todo /\ i + 1 \in DOMAIN todo /\ i + 1 # 1
        BY <1>4, <1>5
      <3> QED
        BY ONLY <3>1, <1>10
    <2> QED
      BY <2>2, <2>3, <1>5
  <1>9. ASSUME thread[t].op = "write", NEW p \in Partitions,
               todo[1].do # "flush" /\ ~(todo[1].do = "commit" /\ todo[1].p = p)
        PROVE  \/ ToSet(thread[t].new) \cap ToSet(buffer[p].rows) = {}
               \/ \E i \in DOMAIN r : r[i].do = "flush" \/ (r[i].do = "commit" /\ r[i].p = p)
    <2>1. \/ ToSet(thread[t].new) \cap ToSet(buffer[p].rows) = {}
          \/ \E i \in DOMAIN todo : todo[i].do = "flush" \/ (todo[i].do = "commit" /\ todo[i].p = p)
      BY <1>1, <1>9 DEF StoreInv, WriteInv
    <2> QED
      BY <2>1, <1>6, <1>9
  <1>11. ASSUME thread[t].op = "write", todo[1].do = "append"
         PROVE  \E i \in DOMAIN r : r[i].do = "flush"
    <2>1. PICK j \in DOMAIN todo : 1 < j /\ todo[j].do = "flush"
      BY <1>2, <1>4, <1>11 DEF GoodTasks
    <2>2. j # 1
      BY <2>1
    <2> QED
      BY <2>1, <2>2, <1>6
  <1> QED
    BY <1>1, <1>3, <1>4, <1>7, <1>8, <1>9, <1>11 DEF Rest, NextTask

LEMMA TurnKeeps ==
  ASSUME StoreInv, NEW t \in Threads, thread[t] # Idle, NEW ts \in Seq(Tasks), NEW w,
         thread' = [thread EXCEPT ![t] = w], GoesTo(w, t, ts),
         StepOf(t), TypeInv', rows' = rows,
         \A p \in Partitions : lock'[p] # t /\ (SameAt(p) \/ DiskInv(p)'),
         ts # <<>> =>
           /\ GoodTasks(thread[t].op, ts, thread[t].new)
           /\ \A i \in DOMAIN ts : ToSet(ts[i].rows) \cap Stored' = {}
           /\ thread[t].op = "write" =>
                \A p \in Partitions :
                  \/ ToSet(thread[t].new) \cap ToSet(buffer'[p].rows) = {}
                  \/ \E i \in DOMAIN ts : ts[i].do = "flush" \/ (ts[i].do = "commit" /\ ts[i].p = p)
  PROVE  StoreInv'
  <1>1. thread'[t] = w
    BY DEF StoreInv, TypeInv
  <1>2. CASE ts = <<>>
    <2>1. w = Idle /\ w.at \notin Stages
      BY <1>2 DEF GoesTo, Idle, Stages
    <2>2. ThreadInv(t)' /\ CommitInv(t)' /\ FreshInv(t)' /\ WriteInv(t)'
      BY <1>1, <2>1 DEF ThreadInv, CommitInv, FreshInv, WriteInv
    <2> QED
      BY <1>1, <2>1, <2>2, StepKeeps
  <1>3. CASE ts # <<>>
    <2>1. /\ w # Idle /\ w \in Busy /\ w.at \notin Stages /\ w.op = thread[t].op
          /\ w.new = thread[t].new /\ w.todo = ts
          /\ w.op = "update_schema" => w.schema = thread[t].schema
      BY <1>3 DEF GoesTo, Idle, Stages
    <2>2. ThreadInv(t)
      BY DEF StoreInv
    <2>3. ThreadInv(t)'
      BY <1>1, <1>3, <2>1, <2>2 DEF ThreadInv
    <2>4. CommitInv(t)'
      BY <1>1, <2>1 DEF CommitInv
    <2>5. FreshInv(t)'
      BY <1>1, <1>3, <2>1 DEF FreshInv
    <2>6. WriteInv(t)'
      BY <1>1, <1>3, <2>1 DEF WriteInv
    <2>7. ToSet(thread'[t].new) \subseteq Brings(t)
      BY <1>1, <2>1 DEF Brings
    <2> QED
      BY <2>3, <2>4, <2>5, <2>6, <2>7, StepKeeps
  <1> QED
    BY <1>2, <1>3

LEMMA HoldsNothing ==
  ASSUME StoreInv, NEW t \in Threads, thread[t].at \notin Stages
  PROVE  \A p \in Partitions : lock[p] # t
  BY NoneAssumption DEF StoreInv, LockInv

LEMMA QuietStep ==
  ASSUME StoreInv, NEW t \in Threads, NEW w, thread' = [thread EXCEPT ![t] = w],
         UNCHANGED <<manifest, files, buffer, lock, rows>>
  PROVE  StepOf(t) /\ Stored' = Stored /\ \A p \in Partitions : SameAt(p)
  <1>1. \A p \in Partitions : Visible(p)' = Visible(p)
    BY DEF Visible, Current
  <1>2. Stored' = Stored
    BY <1>1 DEF Stored
  <1>3. \A u \in Threads \ {t} : thread'[u] = thread[u]
    BY DEF StoreInv, TypeInv
  <1>4. rows <= rows'
    BY DEF StoreInv, TypeInv
  <1> QED
    BY <1>2, <1>3, <1>4 DEF StepOf, SameAt

LEMMA QuietTurn ==
  ASSUME StoreInv, NEW t \in Threads, thread[t].at = "ready", NEW ts \in Seq(Tasks), NEW w,
         thread' = [thread EXCEPT ![t] = w], GoesTo(w, t, ts),
         UNCHANGED <<manifest, files, buffer, lock, rows, made>>, schema' \in Schemas, closed' \in BOOLEAN,
         ts # <<>> =>
           /\ GoodTasks(thread[t].op, ts, thread[t].new)
           /\ \A i \in DOMAIN ts : ToSet(ts[i].rows) \cap Stored = {}
           /\ thread[t].op = "write" =>
                \A p \in Partitions :
                  \/ ToSet(thread[t].new) \cap ToSet(buffer[p].rows) = {}
                  \/ \E i \in DOMAIN ts : ts[i].do = "flush" \/ (ts[i].do = "commit" /\ ts[i].p = p)
  PROVE  StoreInv'
  <1>1. StepOf(t) /\ Stored' = Stored /\ \A p \in Partitions : SameAt(p)
    BY QuietStep
  <1>2. thread[t] # Idle /\ thread[t].at \notin Stages
    BY Kinds DEF StoreInv, Idle, Stages
  <1>3. \A p \in Partitions : lock'[p] # t
    BY <1>2, HoldsNothing
  <1>4. TypeInv'
    <2>1. w \in {Idle} \cup Busy
      BY DEF GoesTo
    <2>2. thread' \in [Threads -> {Idle} \cup Busy]
      BY <2>1 DEF StoreInv, TypeInv
    <2> QED
      BY <2>2 DEF StoreInv, TypeInv
  <1> QED
    BY <1>1, <1>2, <1>3, <1>4, TurnKeeps

Untouched(ts, X) == \A i \in DOMAIN ts : ToSet(ts[i].rows) \cap X = {}
Plain(ts) ==
  \A i \in DOMAIN ts : ts[i].do \in {"commit", "compact"} /\ ts[i].p \in Partitions /\ ts[i].rows = <<>>

\* Tasks without rows may come before others.
LEMMA Prepended ==
  ASSUME NEW op \in Ops, NEW new, NEW X, NEW s \in Seq(Tasks), NEW r \in Seq(Tasks),
         Plain(s), r # <<>> => GoodTasks(op, r, new), Untouched(r, X),
         NEW q, q = s \o r
  PROVE  /\ q \in Seq(Tasks)
         /\ q # <<>> => GoodTasks(op, q, new) /\ Untouched(q, X)
         /\ \A i \in DOMAIN s : \E j \in DOMAIN q : q[j] = s[i]
         /\ \A i \in DOMAIN r : \E j \in DOMAIN q : q[j] = r[i]
  <1>2. PICK k : k = Len(s)
    OBVIOUS
  <1>3. /\ q \in Seq(Tasks) /\ DOMAIN q = 1 .. k + Len(r) /\ k \in Nat /\ Len(r) \in Nat
        /\ DOMAIN s = 1 .. k /\ DOMAIN r = 1 .. Len(r)
        /\ \A i \in DOMAIN s : q[i] = s[i]
        /\ \A i \in DOMAIN r : q[k + i] = r[i]
    BY <1>2
  <1>4. \A i \in DOMAIN q : i \in DOMAIN s \/ (i - k \in DOMAIN r /\ q[i] = r[i - k])
    <2> TAKE i \in DOMAIN q
    <2>1. CASE i <= k
      BY <2>1, <1>3
    <2>2. CASE i > k
      <3>1. i - k \in DOMAIN r /\ k + (i - k) = i
        BY <2>2, <1>3
      <3> QED
        BY <3>1, <1>3
    <2>3. i \in Int /\ k \in Int
      BY <1>3
    <2>4. i <= k \/ i > k
      BY ONLY <2>3
    <2> QED
      BY ONLY <2>1, <2>2, <2>4
  <1>5. \A i \in DOMAIN s : ToSet(s[i].rows) = {}
    BY DEF ToSet, Plain
  <1>6. \A i \in DOMAIN r : r # <<>>
    OBVIOUS
  <1>7. Untouched(q, X)
    BY <1>3, <1>4, <1>5 DEF Untouched, Plain
  <1>8. \A i \in DOMAIN q :
       /\ q[i].do \in OnPartition => q[i].p \in Partitions
       /\ q[i].do \in Bringing => q[i].rows \in Inputs
       /\ q[i].do \notin Bringing => q[i].rows = <<>>
       /\ q[i].do = "configure" => op = "update_schema"
       /\ q[i].do = "scan" => op # "update_schema"
       /\ ToSet(q[i].rows) \subseteq ToSet(new)
       /\ op = "write" => q[i].do \in {"append", "flush", "commit", "compact"}
    <2> TAKE i \in DOMAIN q
    <2>1. CASE i \in DOMAIN s
      <3>1. q[i] = s[i] /\ ToSet(q[i].rows) = {}
        BY <2>1, <1>3, <1>5
      <3> QED
        BY <2>1, <3>1 DEF Bringing, Plain
    <2>2. CASE i \notin DOMAIN s
      <3>1. i - k \in DOMAIN r /\ q[i] = r[i - k]
        BY <2>2, <1>4
      <3> QED
        BY <3>1, <1>6 DEF GoodTasks
    <2> QED
      BY <2>1, <2>2
  <1>9. \A i, j \in DOMAIN q : i # j => ToSet(q[i].rows) \cap ToSet(q[j].rows) = {}
    <2> SUFFICES ASSUME NEW i \in DOMAIN q, NEW j \in DOMAIN q, i # j
                 PROVE  ToSet(q[i].rows) \cap ToSet(q[j].rows) = {}
      OBVIOUS
    <2>1. CASE i \in DOMAIN s \/ j \in DOMAIN s
      BY <2>1, <1>3, <1>5
    <2>2. CASE i \notin DOMAIN s /\ j \notin DOMAIN s
      <3>1. i - k \in DOMAIN r /\ q[i] = r[i - k] /\ j - k \in DOMAIN r /\ q[j] = r[j - k] /\ i - k # j - k
        <4>1. i \in Int /\ j \in Int /\ k \in Int
          BY <1>3
        <4>2. i - k # j - k
          BY ONLY <4>1, i # j
        <4> QED
          BY ONLY <2>2, <1>4, <4>2, i \in DOMAIN q, j \in DOMAIN q
      <3>2. \A a, b \in DOMAIN r : a # b => ToSet(r[a].rows) \cap ToSet(r[b].rows) = {}
        BY <1>6 DEF GoodTasks
      <3> QED
        BY ONLY <3>1, <3>2
    <2> QED
      BY <2>1, <2>2
  <1>10. \A i \in DOMAIN q : op = "write" /\ q[i].do = "append" => \E j \in DOMAIN q : i < j /\ q[j].do = "flush"
    <2> SUFFICES ASSUME NEW i \in DOMAIN q, op = "write", q[i].do = "append"
                 PROVE  \E j \in DOMAIN q : i < j /\ q[j].do = "flush"
      OBVIOUS
    <2>1. i - k \in DOMAIN r /\ r[i - k].do = "append"
      BY <1>3, <1>4 DEF Plain
    <2>2. PICK j \in DOMAIN r : i - k < j /\ r[j].do = "flush"
      BY <2>1, <1>6 DEF GoodTasks
    <2>3. k + j \in DOMAIN q /\ i < k + j /\ q[k + j].do = "flush"
      BY <2>2, <1>3
    <2> QED
      BY <2>3
  <1>11. q # <<>> => GoodTasks(op, q, new)
    BY <1>8, <1>9, <1>10 DEF GoodTasks
  <1>12. /\ \A i \in DOMAIN s : i \in DOMAIN q /\ q[i] = s[i]
         /\ \A i \in DOMAIN r : k + i \in DOMAIN q /\ q[k + i] = r[i]
    BY <1>3
  <1> QED
    BY <1>3, <1>7, <1>11, <1>12

-----------------------------------------------------------------------------
(* Tasks that leave the disk and the buffers as they are. *)

LEMMA DoingIs ==
  ASSUME StoreInv, NEW t \in Threads, NEW do, Doing(t, do)
  PROVE  /\ thread[t].at = "ready" /\ thread[t] # Idle /\ thread[t] \in Busy /\ thread[t].op \in Ops
         /\ NextTask(t) = thread[t].todo[1] /\ 1 \in DOMAIN thread[t].todo /\ NextTask(t).do = do
         /\ NextTask(t).do \in OnPartition => NextTask(t).p \in Partitions
         /\ NextTask(t).do \notin Bringing => ToSet(NextTask(t).rows) = {}
  <1>1. thread[t].at = "ready" /\ NextTask(t).do = do
    BY DEF Doing
  <1>2. thread[t] # Idle /\ thread[t] \in Busy
    BY <1>1, Kinds DEF StoreInv, Idle
  <1>3. NextTask(t) = thread[t].todo[1] /\ 1 \in DOMAIN thread[t].todo
    BY <1>2, RestIs
  <1>4. GoodTasks(thread[t].op, thread[t].todo, thread[t].new)
    BY <1>2 DEF StoreInv, ThreadInv
  <1>5. NextTask(t).do \notin Bringing => NextTask(t).rows = <<>>
    BY <1>3, <1>4 DEF GoodTasks
  <1> QED
    BY <1>1, <1>2, <1>3, <1>4, <1>5 DEF GoodTasks, Busy, ToSet

LEMMA RaiseKeeps ==
  ASSUME StoreInv, NEW t \in Threads, thread[t].at = "ready", thread' = [thread EXCEPT ![t] = Idle],
         UNCHANGED <<manifest, files, buffer, lock, rows, made>>, schema' \in Schemas, closed' \in BOOLEAN
  PROVE  StoreInv'
  <1>1. <<>> \in Seq(Tasks) /\ GoesTo(Idle, t, <<>>)
    BY DEF GoesTo
  <1>2. \A ts : ts = <<>> => (ts # <<>> => FALSE)
    OBVIOUS
  <1> QED
    BY <1>1, QuietTurn

LEMMA RestKeeps ==
  ASSUME StoreInv, NEW t \in Threads, NEW do, Doing(t, do), do # "flush",
         do = "commit" => buffer[NextTask(t).p].rows = <<>>, Continue(t, Rest(t)),
         UNCHANGED <<manifest, files, buffer, lock, rows, made>>, schema' \in Schemas, closed' \in BOOLEAN
  PROVE  StoreInv'
  <1>1. thread[t].at = "ready" /\ thread[t] # Idle /\ NextTask(t).do = do
    BY DoingIs
  <1>2. PICK ts : ts = Rest(t)
    OBVIOUS
  <1>3. ts \in Seq(Tasks) /\ GoesTo(With(t, ts), t, ts)
    BY <1>1, <1>2, RestIs, WithIs DEF StoreInv
  <1>4. ts # <<>> =>
           /\ GoodTasks(thread[t].op, ts, thread[t].new)
           /\ \A i \in DOMAIN ts : ToSet(ts[i].rows) \cap Stored = {}
    BY <1>1, <1>2, RestIs
  <1>5. ASSUME thread[t].op = "write", NEW p \in Partitions
        PROVE  \/ ToSet(thread[t].new) \cap ToSet(buffer[p].rows) = {}
               \/ \E i \in DOMAIN ts : ts[i].do = "flush" \/ (ts[i].do = "commit" /\ ts[i].p = p)
    <2>1. CASE do = "commit" /\ NextTask(t).p = p
      BY <2>1 DEF ToSet
    <2>2. CASE ~(do = "commit" /\ NextTask(t).p = p)
      <3>1. \A pp \in Partitions :
              NextTask(t).do # "flush" /\ ~(NextTask(t).do = "commit" /\ NextTask(t).p = pp) =>
                \/ ToSet(thread[t].new) \cap ToSet(buffer[pp].rows) = {}
                \/ \E i \in DOMAIN ts : ts[i].do = "flush" \/ (ts[i].do = "commit" /\ ts[i].p = pp)
        <4>1. thread[t].op = "write" =>
              \A pp \in Partitions :
                NextTask(t).do # "flush" /\ ~(NextTask(t).do = "commit" /\ NextTask(t).p = pp) =>
                  \/ ToSet(thread[t].new) \cap ToSet(buffer[pp].rows) = {}
                  \/ \E i \in DOMAIN Rest(t) :
                       Rest(t)[i].do = "flush" \/ (Rest(t)[i].do = "commit" /\ Rest(t)[i].p = pp)
          BY <1>1, RestIs
        <4> QED
          BY ONLY <1>2, <4>1, thread[t].op = "write"
      <3>2. NextTask(t).do # "flush" /\ ~(NextTask(t).do = "commit" /\ NextTask(t).p = p)
        BY <2>2, <1>1
      <3> QED
        BY ONLY <3>1, <3>2, p \in Partitions
    <2> QED
      BY <2>1, <2>2
  <1>6. thread' = [thread EXCEPT ![t] = With(t, ts)]
    BY <1>2 DEF Continue
  <1> QED
    BY <1>1, <1>3, <1>4, <1>5, <1>6, QuietTurn

\* The call returns or raises, closes the store, or has no more to do for a partition.
LEMMA QuietTasksKeep ==
  ASSUME StoreInv, NEW t \in Threads,
         NothingToFlush(t) \/ MixedSchemas(t) \/ NothingToCompact(t) \/ Configure(t) \/ Close(t)
  PROVE  StoreInv'
  <1>0. schema \in Schemas /\ closed \in BOOLEAN
    BY DEF StoreInv, TypeInv
  <1>1. CASE NothingToFlush(t)
    BY <1>0, <1>1, RestKeeps DEF NothingToFlush, disk, memory, bounds
  <1>2. CASE MixedSchemas(t)
    BY <1>0, <1>2, RaiseKeeps DEF MixedSchemas, Doing, Raise, disk, memory, bounds
  <1>3. CASE NothingToCompact(t)
    BY <1>0, <1>3, RestKeeps DEF NothingToCompact, disk, memory, bounds
  <1>4. \A u \in Threads : With(u, <<>>) = Idle
    BY DEF With
  <1>5. CASE Configure(t)
    <2>1. thread[t] # Idle /\ NextTask(t) = thread[t].todo[1] /\ 1 \in DOMAIN thread[t].todo
          /\ NextTask(t).do = "configure"
      BY <1>5, DoingIs DEF Configure
    <2>2. thread[t].op = "update_schema"
      BY <2>1 DEF StoreInv, ThreadInv, GoodTasks
    <2>3. thread[t].schema + 1 \in Schemas
      BY <2>1, <2>2 DEF StoreInv, ThreadInv
    <2>4. thread' = [thread EXCEPT ![t] = Idle] /\ schema' \in Schemas /\ thread[t].at = "ready"
          /\ UNCHANGED <<manifest, files, buffer, lock, rows, made, closed>>
      BY <1>4, <1>5, <2>3 DEF Configure, Doing, Continue, disk, bounds
    <2> QED
      BY <1>0, <2>4, RaiseKeeps
  <1>6. CASE Close(t)
    <2>1. thread' = [thread EXCEPT ![t] = Idle] /\ closed' \in BOOLEAN /\ thread[t].at = "ready"
          /\ UNCHANGED <<manifest, files, buffer, lock, rows, made, schema>>
      BY <1>4, <1>6 DEF Close, Doing, Continue, disk, bounds
    <2> QED
      BY <1>0, <2>1, RaiseKeeps
  <1> QED
    BY <1>1, <1>2, <1>3, <1>5, <1>6

LEMMA SnapshotKeeps ==
  ASSUME StoreInv, NEW t \in Threads, Snapshot(t)
  PROVE  StoreInv'
  <1>1. /\ thread[t].at = "ready" /\ thread[t] # Idle /\ thread[t].op \in Ops /\ NextTask(t).do = "flush"
        /\ thread[t] \in Busy
    BY DoingIs DEF Snapshot
  <1>2. PICK s : s = PerPartition("commit", {p \in Partitions : buffer[p].rows # <<>>})
    OBVIOUS
  <1>3. PICK r : r = Rest(t)
    OBVIOUS
  <1>4. /\ s \in Seq(Tasks)
        /\ \A i \in DOMAIN s : s[i].do = "commit" /\ s[i].p \in Partitions /\ s[i].rows = <<>>
        /\ \A p \in Partitions : buffer[p].rows # <<>> => \E i \in DOMAIN s : s[i].p = p
    <2>1. "commit" \in Dos
      BY DEF Dos
    <2>2. PICK P : P = {p \in Partitions : buffer[p].rows # <<>>}
      OBVIOUS
    <2>3. P \in SUBSET Partitions /\ s = PerPartition("commit", P)
      BY <1>2, <2>2
    <2>4. /\ s \in Seq(Tasks)
          /\ \A i \in DOMAIN s : s[i].do = "commit" /\ s[i].p \in P /\ s[i].rows = <<>>
          /\ \A p \in P : \E i \in DOMAIN s : s[i].p = p
      BY <2>1, <2>3, PerPartitionIs
    <2> QED
      BY <2>2, <2>4
  <1>5. /\ r \in Seq(Tasks)
        /\ r # <<>> => GoodTasks(thread[t].op, r, thread[t].new)
        /\ \A i \in DOMAIN r : ToSet(r[i].rows) \cap Stored = {}
    BY <1>1, <1>3, RestIs
  <1>11. Plain(s)
    BY <1>4 DEF Plain
  <1>12. PICK q : q = s \o r
    OBVIOUS
  <1>6. /\ q \in Seq(Tasks)
        /\ q # <<>> =>
             /\ GoodTasks(thread[t].op, q, thread[t].new)
             /\ \A i \in DOMAIN q : ToSet(q[i].rows) \cap Stored = {}
        /\ \A i \in DOMAIN s : \E j \in DOMAIN q : q[j] = s[i]
    <2>1. PICK op, new, X : op = thread[t].op /\ new = thread[t].new /\ X = Stored
      OBVIOUS
    <2>2. /\ op \in Ops /\ s \in Seq(Tasks) /\ r \in Seq(Tasks)
          /\ r # <<>> => GoodTasks(op, r, new)
          /\ Untouched(r, X)
      BY <1>1, <1>4, <1>5, <2>1 DEF Untouched
    <2>3. q \in Seq(Tasks) /\ (q # <<>> => GoodTasks(op, q, new) /\ Untouched(q, X))
      BY <2>2, <1>11, <1>12, Prepended
    <2>4. \A i \in DOMAIN s : \E j \in DOMAIN q : q[j] = s[i]
      BY <2>2, <1>11, <1>12, Prepended
    <2> QED
      BY <2>1, <2>3, <2>4 DEF Untouched
  <1>7. ASSUME NEW p \in Partitions
        PROVE  \/ ToSet(thread[t].new) \cap ToSet(buffer[p].rows) = {}
               \/ \E i \in DOMAIN q : q[i].do = "flush" \/ (q[i].do = "commit" /\ q[i].p = p)
    <2>1. CASE buffer[p].rows = <<>>
      BY <2>1 DEF ToSet
    <2>2. CASE buffer[p].rows # <<>>
      BY <2>2, <1>4, <1>6
    <2> QED
      BY <2>1, <2>2
  <1>8. /\ thread' = [thread EXCEPT ![t] = With(t, q)]
        /\ UNCHANGED <<manifest, files, buffer, lock, rows, made, schema, closed>>
    BY <1>2, <1>3, <1>12 DEF Snapshot, Continue, disk, memory, bounds
  <1>9. GoesTo(With(t, q), t, q)
    BY <1>1, <1>6, WithIs DEF StoreInv
  <1>10. schema' \in Schemas /\ closed' \in BOOLEAN
    BY <1>8 DEF StoreInv, TypeInv
  <1> QED
    BY <1>1, <1>6, <1>7, <1>8, <1>9, <1>10, QuietTurn

LEMMA ScanKeeps ==
  ASSUME StoreInv, NEW t \in Threads, Scan(t)
  PROVE  StoreInv'
  <1>1. /\ thread[t].at = "ready" /\ thread[t] # Idle /\ thread[t].op \in Ops /\ NextTask(t).do = "scan"
        /\ NextTask(t) = thread[t].todo[1] /\ 1 \in DOMAIN thread[t].todo
    BY DoingIs DEF Scan
  <1>2. thread[t].op # "write" /\ thread[t].op # "update_schema"
    BY <1>1 DEF StoreInv, ThreadInv, GoodTasks
  <1>3. PICK s : s = PerPartition("compact", {p \in Partitions : manifest[p] # None})
    OBVIOUS
  <1>4. /\ s \in Seq(Tasks)
        /\ \A i \in DOMAIN s : s[i].do = "compact" /\ s[i].p \in Partitions /\ s[i].rows = <<>>
    <2>1. "compact" \in Dos
      BY DEF Dos
    <2>2. {p \in Partitions : manifest[p] # None} \in SUBSET Partitions
      OBVIOUS
    <2> QED
      BY <2>1, <2>2, <1>3, PerPartitionIs
  <1>5. s # <<>> =>
          /\ GoodTasks(thread[t].op, s, thread[t].new)
          /\ \A i \in DOMAIN s : ToSet(s[i].rows) \cap Stored = {}
    BY <1>2, <1>4 DEF GoodTasks, Bringing, ToSet
  <1>6. PICK w : w = IF s = <<>> THEN Idle ELSE [With(t, s) EXCEPT !.schema = schema]
    OBVIOUS
  <1>7. GoesTo(w, t, s)
    <2>1. CASE s = <<>>
      BY <2>1, <1>6 DEF GoesTo
    <2>2. CASE s # <<>>
      BY <2>2, <1>1, <1>2, <1>4, <1>6, WithIs DEF StoreInv
    <2> QED
      BY <2>1, <2>2
  <1>8. /\ thread' = [thread EXCEPT ![t] = w]
        /\ UNCHANGED <<manifest, files, buffer, lock, rows, made, schema, closed>>
    BY <1>3, <1>6 DEF Scan, disk, memory, bounds
  <1>9. schema' \in Schemas /\ closed' \in BOOLEAN
    BY <1>8 DEF StoreInv, TypeInv
  <1> QED
    BY <1>1, <1>2, <1>4, <1>5, <1>7, <1>8, <1>9, QuietTurn

-----------------------------------------------------------------------------
(* Taking the lock of a partition, with what is to be written. *)

LEMMA LocksTyped ==
  ASSUME StoreInv, NEW t \in Threads, NEW p \in Partitions
  PROVE  [lock EXCEPT ![p] = t] \in [Partitions -> Threads \cup {None}]
         /\ [lock EXCEPT ![p] = None] \in [Partitions -> Threads \cup {None}]
  BY DEF StoreInv, TypeInv

LEMMA PrepareKeeps ==
  ASSUME StoreInv, NEW t \in Threads, thread[t].at = "ready", NextTask(t).do \in OnPartition,
         lock[NextTask(t).p] = None,
         NEW plan \in Seq(RowSeqs), NEW keep \in BOOLEAN, NEW drops \in BOOLEAN,
         NEW signature \in Schemas \cup {None},
         Prepare(t, NextTask(t).p, plan, keep, drops, signature), StepOf(t),
         UNCHANGED <<manifest, files, schema, closed, made, rows>>,
         buffer' \in [Partitions -> [rows : Seq(Rows), schemas : SUBSET Schemas]],
         keep => drops, drops => signature = None, NextTask(t).do # "compact" => drops,
         PlanInv(t)', WriteInv(t)', \A p \in Partitions : SameAt(p) \/ DiskInv(p)',
         Stored' \subseteq Stored \cup (IF NextTask(t).do = "append" THEN ToSet(NextTask(t).rows) ELSE {})
  PROVE  StoreInv'
  <1>1. thread[t] # Idle /\ thread[t] \in Busy /\ thread[t].at \notin Stages
    BY Kinds DEF StoreInv, Idle, Stages
  <1>2. /\ NextTask(t) = thread[t].todo[1] /\ 1 \in DOMAIN thread[t].todo
        /\ GoodTasks(thread[t].op, thread[t].todo, thread[t].new) /\ ThreadInv(t) /\ FreshInv(t)
    BY <1>1, RestIs DEF StoreInv, ThreadInv
  <1>3. PICK p \in Partitions : p = NextTask(t).p
    BY <1>2 DEF GoodTasks
  <1>4. PICK w : w = [thread[t] EXCEPT !.at = "writing", !.plan = plan, !.ids = <<>>, !.keep = keep,
                                       !.drops = drops, !.signature = signature]
    OBVIOUS
  <1>5. /\ w \in Busy /\ w.at = "writing" /\ w.op = thread[t].op /\ w.todo = thread[t].todo
        /\ w.schema = thread[t].schema /\ w.new = thread[t].new /\ w.ids = <<>>
        /\ w.keep = keep /\ w.drops = drops /\ w.signature = signature
    <2>1. <<>> \in Seq(Nat) /\ "writing" \in {"ready"} \cup Stages
      BY DEF Stages
    <2>2. PICK v : v = thread[t]
      OBVIOUS
    <2>3. w = [v EXCEPT !.at = "writing", !.plan = plan, !.ids = <<>>, !.keep = keep,
                        !.drops = drops, !.signature = signature] /\ v \in Busy
      BY <1>1, <1>4, <2>2
    <2>4. PICK e : e = <<>>
      OBVIOUS
    <2>5. /\ w.at = "writing" /\ w.op = v.op /\ w.todo = v.todo /\ w.schema = v.schema /\ w.new = v.new
          /\ w.ids = e /\ w.keep = keep /\ w.drops = drops /\ w.signature = signature
      BY ONLY <2>3, <2>4 DEF Busy
    <2>6. w \in Busy
      BY ONLY <2>1, <2>3, <2>4, plan \in Seq(RowSeqs), keep \in BOOLEAN, drops \in BOOLEAN,
              signature \in Schemas \cup {None} DEF Busy
    <2> QED
      BY <2>2, <2>4, <2>5, <2>6
  <1>6. lock' = [lock EXCEPT ![p] = t] /\ thread' = [thread EXCEPT ![t] = w]
    BY <1>3, <1>4 DEF Prepare
  <1>7. thread'[t] = w /\ NextTask(t)' = NextTask(t) /\ lock'[p] = t /\ w # Idle
        /\ \A q \in Partitions : q # p => lock'[q] = lock[q]
    <2>1. thread'[t] = w /\ lock'[p] = t /\ \A q \in Partitions : q # p => lock'[q] = lock[q]
      BY <1>6 DEF StoreInv, TypeInv
    <2> QED
      BY <2>1, <1>5 DEF NextTask, Idle
  <1>8. TypeInv'
    <2>1. lock' \in [Partitions -> Threads \cup {None}]
      BY <1>6, LocksTyped
    <2>2. thread' \in [Threads -> {Idle} \cup Busy]
      BY <1>5, <1>6 DEF StoreInv, TypeInv
    <2> QED
      BY <2>1, <2>2 DEF StoreInv, TypeInv
  <1>9. ThreadInv(t)'
    <2>1. ToSet(w.new) \subseteq 1 .. rows /\ (w.op = "update_schema" => w.schema + 1 \in Schemas)
      BY <1>1, <1>2, <1>5 DEF ThreadInv
    <2>2. GoodTasks(w.op, w.todo, w.new)
      BY <1>2, <1>5
    <2> QED
      BY <2>1, <2>2, <1>3, <1>7 DEF ThreadInv
  <1>10. CommitInv(t)'
    BY <1>5, <1>7 DEF CommitInv
  <1>11. FreshInv(t)'
    <2> SUFFICES ASSUME NEW i \in DOMAIN w.todo, Pending(w, i)
                 PROVE  ToSet(w.todo[i].rows) \cap Stored' = {}
      BY <1>7 DEF FreshInv
    <2>1. Pending(thread[t], i)
      BY <1>1 DEF Pending
    <2>2. ToSet(w.todo[i].rows) \cap Stored = {}
      BY <2>1, <1>1, <1>2, <1>5 DEF FreshInv
    <2>3. CASE NextTask(t).do # "append"
      BY <2>2, <2>3
    <2>4. CASE NextTask(t).do = "append"
      <3>1. i # 1
        BY <2>4, <1>2, <1>5 DEF Pending, Stages
      <3>2. ToSet(w.todo[i].rows) \cap ToSet(NextTask(t).rows) = {}
        BY <3>1, <1>2, <1>5 DEF GoodTasks
      <3> QED
        BY <2>2, <2>4, <3>2
    <2> QED
      BY <2>3, <2>4
  <1>12. ToSet(thread'[t].new) \subseteq Brings(t)
    BY <1>1, <1>5, <1>7 DEF Brings
  <1>13. \A q \in Partitions : lock'[q] = t => thread'[t].at \in Stages /\ NextTask(t)'.p = q
    <2>1. \A q \in Partitions : lock[q] # t
      BY <1>1, HoldsNothing
    <2> QED
      BY <2>1, <1>3, <1>5, <1>7 DEF Stages
  <1> QED
    BY <1>8, <1>9, <1>10, <1>11, <1>12, <1>13, StepKeeps

\* Visible(p) is the content of the partition's manifest.
LEMMA VisibleIs ==
  ASSUME StoreInv, NEW p \in Partitions
  PROVE  /\ Listed(Current(p)) /\ HasFiles(Current(p), files[p])
         /\ Visible(p) = Content(Current(p), files[p]) /\ Visible(p) \in Seq(Rows)
         /\ Current(p) \in [version : Nat, files : Seq(Nat), at : Seq(Nat), updated : Nat,
                            signature : Schemas \cup {None}]
  <1>1. DiskInv(p) /\ TypeInv
    BY DEF StoreInv
  <1>2. Listed(Current(p)) /\ ToSet(Current(p).files) \subseteq DOMAIN files[p]
    BY <1>1 DEF DiskInv
  <1>3. files[p] \in [DOMAIN files[p] -> RowSeqs]
    BY <1>1 DEF TypeInv
  <1>4. RowSeqs \subseteq Seq(Rows)
    BY DEF RowSeqs
  <1>5. files[p] \in [DOMAIN files[p] -> Seq(Rows)]
    BY <1>3, <1>4
  <1>6. HasFiles(Current(p), files[p])
    BY <1>2, <1>5 DEF HasFiles
  <1>7. Visible(p) = Content(Current(p), files[p])
    BY DEF Visible, Content
  <1>8. Content(Current(p), files[p]) \in Seq(Rows)
    <2>1. PICK m, fs : m = Current(p) /\ fs = files[p]
      OBVIOUS
    <2> QED
      BY <2>1, <1>2, <1>6, ContentIs
  <1>9. Current(p) \in Manifests
    <2>1. manifest[p] \in Manifests \cup {None}
      BY <1>1 DEF TypeInv
    <2>2. NoManifest \in Manifests
      BY DEF NoManifest, Manifests
    <2> QED
      BY <2>1, <2>2 DEF Current
  <1> QED
    BY <1>2, <1>6, <1>7, <1>8, <1>9 DEF Manifests

LEMMA PreparedIs ==
  ASSUME TypeInv, NEW t \in Threads, thread[t] \in Busy, NEW p, NEW plan, NEW keep, NEW drops, NEW signature,
         Prepare(t, p, plan, keep, drops, signature)
  PROVE  /\ thread'[t].plan = plan /\ thread'[t].keep = keep /\ thread'[t].drops = drops
         /\ thread'[t].op = thread[t].op /\ thread'[t].new = thread[t].new /\ thread'[t].todo = thread[t].todo
         /\ thread'[t] # Idle /\ NextTask(t)' = NextTask(t)
  <1>1. PICK v : v = thread[t]
    OBVIOUS
  <1>2. thread'[t] = [v EXCEPT !.at = "writing", !.plan = plan, !.ids = <<>>, !.keep = keep,
                               !.drops = drops, !.signature = signature]
    BY <1>1 DEF Prepare, TypeInv
  <1>3. v \in Busy
    BY <1>1
  <1>4. PICK w : w = thread'[t]
    OBVIOUS
  <1>5. /\ w.plan = plan /\ w.keep = keep /\ w.drops = drops
        /\ w.op = v.op /\ w.new = v.new /\ w.todo = v.todo /\ w.at = "writing"
    BY <1>2, <1>3, <1>4 DEF Busy
  <1> QED
    BY <1>1, <1>4, <1>5 DEF NextTask, Idle

LEMMA StartKeeps ==
  ASSUME StoreInv, NEW t \in Threads, NEW do \in OnPartition \ {"append"}, Doing(t, do),
         lock[NextTask(t).p] = None,
         NEW plan \in Seq(RowSeqs), NEW keep \in BOOLEAN, NEW drops \in BOOLEAN,
         NEW signature \in Schemas \cup {None},
         Prepare(t, NextTask(t).p, plan, keep, drops, signature), UNCHANGED <<disk, memory, made, bounds>>,
         keep => drops, drops => signature = None, NextTask(t).do # "compact" => drops,
         keep => NextTask(t).do = "commit" /\ buffer[NextTask(t).p].rows # <<>>
                 /\ plan = FlushPlan(buffer[NextTask(t).p].rows),
         drops /\ ~keep => NextTask(t).do = "replace" /\ plan = Chunks(Table!Sorted(NextTask(t).rows)),
         ~drops => NextTask(t).do = "compact" /\ plan = Chunks(Table!Sorted(Table!Winners(Visible(NextTask(t).p))))
  PROVE  StoreInv'
  <1>1. thread[t].at = "ready" /\ thread[t] \in Busy /\ NextTask(t).do = do
        /\ NextTask(t).p \in Partitions /\ thread[t] # Idle
    BY DoingIs
  <1>2. PICK p \in Partitions : p = NextTask(t).p
    BY <1>1
  <1>3. /\ thread'[t].plan = plan /\ thread'[t].keep = keep /\ thread'[t].drops = drops
        /\ thread'[t].op = thread[t].op /\ thread'[t].new = thread[t].new /\ thread'[t].todo = thread[t].todo
        /\ thread'[t] # Idle /\ NextTask(t)' = NextTask(t)
    BY <1>1, PreparedIs DEF StoreInv
  <1>4. /\ UNCHANGED <<manifest, files, buffer, schema, closed, made, rows>>
        /\ buffer' \in [Partitions -> [rows : Seq(Rows), schemas : SUBSET Schemas]]
    BY DEF disk, memory, bounds, StoreInv, TypeInv
  <1>5. \A q \in Partitions : Visible(q)' = Visible(q) /\ SameAt(q)
    BY <1>4 DEF Visible, Current, SameAt
  <1>6. Stored' = Stored
    BY <1>4, <1>5 DEF Stored
  <1>7. StepOf(t)
    <2>1. \A u \in Threads \ {t} : thread'[u] = thread[u]
      BY DEF StoreInv, TypeInv, Prepare
    <2>2. \A q \in Partitions : lock'[q] = IF q = p THEN t ELSE lock[q]
      BY <1>2 DEF StoreInv, TypeInv, Prepare
    <2>3. rows <= rows'
      BY <1>4 DEF StoreInv, TypeInv
    <2> QED
      BY <2>1, <2>2, <2>3, <1>2, <1>4, <1>5, <1>6 DEF StepOf, SameAt
  <1>8. PlanInv(t)'
    BY <1>1, <1>2, <1>3, <1>4, <1>5 DEF PlanInv
  <1>9. WriteInv(t)'
    <2> SUFFICES ASSUME thread[t].op = "write", NEW q \in Partitions
                 PROVE  \/ ToSet(thread[t].new) \cap ToSet(buffer[q].rows) = {}
                        \/ \E i \in DOMAIN thread[t].todo :
                             LET k == thread[t].todo[i]
                             IN  k.do = "flush" \/ (k.do = "commit" /\ k.p = q)
      <3>1. buffer' = buffer
        BY <1>4
      <3> QED
        BY <3>1, <1>3 DEF WriteInv
    <2> QED
      BY <1>1 DEF StoreInv, WriteInv
  <1> QED
    BY <1>1, <1>4, <1>5, <1>6, <1>7, <1>8, <1>9, PrepareKeeps

LEMMA StartsKeep ==
  ASSUME StoreInv, NEW t \in Threads, StartFlush(t) \/ StartReplace(t) \/ StartCompact(t)
  PROVE  StoreInv'
  <1>1. None \in Schemas \cup {None} /\ \A u \in Threads : thread[u] \in Busy => thread[u].schema \in Schemas
    BY DEF Busy
  <1>2. CASE StartFlush(t)
    <2> PICK rs : rs = buffer[NextTask(t).p].rows
      OBVIOUS
    <2>1. NextTask(t).p \in Partitions /\ NextTask(t).do = "commit"
      BY <1>2, DoingIs DEF StartFlush, OnPartition
    <2>2. rs \in Seq(Rows) /\ rs # <<>>
      BY <2>1, <1>2 DEF StartFlush, StoreInv, TypeInv
    <2>3. FlushPlan(rs) \in Seq(RowSeqs)
      BY <2>2, FlushPlanIs
    <2>4. "commit" \in OnPartition \ {"append"}
      BY DEF OnPartition
    <2> QED
      BY <1>1, <1>2, <2>1, <2>2, <2>3, <2>4, StartKeeps DEF StartFlush
  <1>3. CASE StartReplace(t)
    <2>1. NextTask(t) \in Tasks /\ NextTask(t).do = "replace"
      BY <1>3, DoingIs, RestIs DEF StartReplace
    <2>2. NextTask(t).rows \in Seq(Rows)
      BY <2>1 DEF Tasks
    <2>3. Table!Sorted(NextTask(t).rows) \in Seq(Rows)
      BY <2>2, SortedKeeps
    <2>4. Chunks(Table!Sorted(NextTask(t).rows)) \in Seq(RowSeqs)
      BY <2>3, ChunksAre
    <2>5. "replace" \in OnPartition \ {"append"}
      BY DEF OnPartition
    <2> QED
      BY <1>1, <1>3, <2>1, <2>4, <2>5, StartKeeps DEF StartReplace
  <1>4. CASE StartCompact(t)
    <2>1. NextTask(t).p \in Partitions /\ NextTask(t).do = "compact" /\ thread[t] \in Busy
      BY <1>4, DoingIs DEF StartCompact, OnPartition
    <2>2. Visible(NextTask(t).p) \in Seq(Rows)
      BY <2>1, VisibleIs
    <2>3. Table!Winners(Visible(NextTask(t).p)) \in Seq(Rows)
      BY <2>2, WinnersAre
    <2>4. Table!Sorted(Table!Winners(Visible(NextTask(t).p))) \in Seq(Rows)
      BY <2>3, SortedKeeps
    <2>5. Chunks(Table!Sorted(Table!Winners(Visible(NextTask(t).p)))) \in Seq(RowSeqs)
      BY <2>4, ChunksAre
    <2>6. "compact" \in OnPartition \ {"append"}
      BY DEF OnPartition
    <2> QED
      BY <1>1, <1>4, <2>1, <2>5, <2>6, StartKeeps DEF StartCompact
  <1> QED
    BY <1>2, <1>3, <1>4

-----------------------------------------------------------------------------
(* append. *)

LEMMA JoinedIs ==
  ASSUME NEW x \in Seq(Rows), NEW y \in Seq(Rows), NEW z, z = x \o y
  PROVE  z \in Seq(Rows) /\ ToSet(z) = ToSet(x) \cup ToSet(y)
  <1>1. PICK n : n = Len(x)
    OBVIOUS
  <1>2. /\ z \in Seq(Rows) /\ n \in Nat /\ Len(y) \in Nat
        /\ DOMAIN z = 1 .. n + Len(y) /\ DOMAIN x = 1 .. n /\ DOMAIN y = 1 .. Len(y)
        /\ \A i \in 1 .. n : z[i] = x[i]
        /\ \A i \in 1 .. Len(y) : z[n + i] = y[i]
    BY <1>1
  <1>3. ToSet(z) \subseteq ToSet(x) \cup ToSet(y)
    <2> SUFFICES ASSUME NEW i \in 1 .. n + Len(y)
                 PROVE  z[i] \in ToSet(x) \cup ToSet(y)
      BY <1>2 DEF ToSet
    <2>1. CASE i \in 1 .. n
      BY <2>1, <1>2 DEF ToSet
    <2>2. CASE i \notin 1 .. n
      <3>1. i - n \in 1 .. Len(y) /\ n + (i - n) = i
        BY <2>2, <1>2
      <3>2. z[i] = y[i - n]
        BY <3>1, <1>2
      <3> QED
        BY <3>1, <3>2, <1>2 DEF ToSet
    <2> QED
      BY <2>1, <2>2
  <1>4. \A i \in 1 .. n : x[i] \in ToSet(z)
    <2> TAKE i \in 1 .. n
    <2>1. i \in DOMAIN z /\ z[i] = x[i]
      BY <1>2
    <2> QED
      BY <2>1 DEF ToSet
  <1>5. \A i \in 1 .. Len(y) : y[i] \in ToSet(z)
    <2> TAKE i \in 1 .. Len(y)
    <2>1. n + i \in DOMAIN z /\ z[n + i] = y[i]
      BY <1>2
    <2> QED
      BY <2>1 DEF ToSet
  <1>6. ToSet(x) = {x[i] : i \in 1 .. n} /\ ToSet(y) = {y[i] : i \in 1 .. Len(y)}
    BY <1>2 DEF ToSet
  <1> QED
    BY <1>2, <1>3, <1>4, <1>5, <1>6

\* The rows of a task are buffered.
LEMMA Buffered ==
  ASSUME StoreInv, NEW t \in Threads, Doing(t, "append"), NEW p \in Partitions, p = NextTask(t).p,
         lock[p] = None, NEW b,
         b = [rows |-> buffer[p].rows \o NextTask(t).rows, schemas |-> buffer[p].schemas \cup {thread[t].schema}],
         buffer' = [buffer EXCEPT ![p] = b], UNCHANGED <<disk, schema, closed, made, bounds>>,
         NEW w, thread' = [thread EXCEPT ![t] = w], lock' \in {lock, [lock EXCEPT ![p] = t]}
  PROVE  /\ b.rows \in Seq(Rows)
         /\ buffer' \in [Partitions -> [rows : Seq(Rows), schemas : SUBSET Schemas]]
         /\ StepOf(t) /\ Stored' \subseteq Stored \cup ToSet(NextTask(t).rows)
         /\ \A q \in Partitions : SameAt(q) \/ DiskInv(q)'
         /\ \A q \in Partitions : ToSet(buffer'[q].rows) \subseteq ToSet(buffer[q].rows) \cup ToSet(thread[t].new)
  <1>1. /\ thread[t] # Idle /\ thread[t] \in Busy /\ NextTask(t) = thread[t].todo[1] /\ 1 \in DOMAIN thread[t].todo
    BY DoingIs
  <1>2. NextTask(t).rows \in Seq(Rows) /\ ToSet(NextTask(t).rows) \subseteq ToSet(thread[t].new)
        /\ ToSet(thread[t].new) \subseteq 1 .. rows
    <2>1. NextTask(t) \in Tasks
      BY <1>1, RestIs
    <2>2. ToSet(NextTask(t).rows) \subseteq ToSet(thread[t].new)
      <3>1. GoodTasks(thread[t].op, thread[t].todo, thread[t].new)
        BY <1>1 DEF StoreInv, ThreadInv
      <3> QED
        BY <1>1, <3>1 DEF GoodTasks
    <2> QED
      BY <1>1, <2>1, <2>2 DEF Tasks, StoreInv, ThreadInv
  <1>3. buffer[p].rows \in Seq(Rows) /\ buffer[p].schemas \in SUBSET Schemas
    BY DEF StoreInv, TypeInv
  <1>4. b.rows \in Seq(Rows) /\ ToSet(b.rows) = ToSet(buffer[p].rows) \cup ToSet(NextTask(t).rows)
    <2>1. PICK x, y, z : x = buffer[p].rows /\ y = NextTask(t).rows /\ z = b.rows
      OBVIOUS
    <2>2. x \in Seq(Rows) /\ y \in Seq(Rows) /\ z = x \o y
      BY <2>1, <1>2, <1>3
    <2>3. z \in Seq(Rows)
      BY <2>2
    <2>4. ToSet(z) = ToSet(x) \cup ToSet(y)
      BY <2>2, JoinedIs
    <2> QED
      BY <2>1, <2>3, <2>4
  <1>5. b \in [rows : Seq(Rows), schemas : SUBSET Schemas]
    <2>1. buffer[p].schemas \cup {thread[t].schema} \in SUBSET Schemas
      BY <1>1, <1>3 DEF Busy
    <2>2. PICK x, y : x = buffer[p].rows \o NextTask(t).rows /\ y = buffer[p].schemas \cup {thread[t].schema}
      OBVIOUS
    <2>3. x \in Seq(Rows) /\ y \in SUBSET Schemas /\ b = [rows |-> x, schemas |-> y]
      BY <2>1, <2>2, <1>4
    <2> QED
      BY ONLY <2>3
  <1>6. buffer' \in [Partitions -> [rows : Seq(Rows), schemas : SUBSET Schemas]]
        /\ buffer'[p] = b /\ \A q \in Partitions : q # p => buffer'[q] = buffer[q]
    BY <1>5 DEF StoreInv, TypeInv
  <1>7. UNCHANGED <<manifest, files, schema, closed, made, rows>>
    BY DEF disk, bounds
  <1>8. \A q \in Partitions : Visible(q)' = Visible(q) /\ Current(q)' = Current(q)
    BY <1>7 DEF Visible, Current
  <1>9. \A q \in Partitions : ToSet(buffer'[q].rows) \subseteq ToSet(buffer[q].rows) \cup ToSet(NextTask(t).rows)
    BY <1>4, <1>6
  <1>10. Stored' \subseteq Stored \cup ToSet(NextTask(t).rows)
    BY <1>8, <1>9 DEF Stored
  <1>11. \A q \in Partitions : SameAt(q) \/ DiskInv(q)'
    <2>1. \A q \in Partitions : q # p => SameAt(q)
      BY <1>6, <1>7 DEF SameAt
    <2>2. ToSet(buffer'[p].rows) \subseteq 1 .. rows
      BY <1>2, <1>4, <1>6 DEF StoreInv, DiskInv
    <2>3. DiskInv(p)'
      BY <2>2, <1>7, <1>8 DEF StoreInv, DiskInv
    <2> QED
      BY <2>1, <2>3
  <1>12. StepOf(t)
    <2>1. \A u \in Threads \ {t} : thread'[u] = thread[u]
      BY DEF StoreInv, TypeInv
    <2>2. \A q \in Partitions : lock'[q] \in {lock[q], t} /\ (q # p => lock'[q] = lock[q])
      BY DEF StoreInv, TypeInv
    <2>3. rows <= rows'
      BY <1>7 DEF StoreInv, TypeInv
    <2>4. Brings(t) = ToSet(thread[t].new)
      BY <1>1 DEF Brings
    <2> QED
      <3>1. \A q \in Partitions : lock[q] \notin {None, t} =>
              /\ lock'[q] = lock[q] /\ manifest'[q] = manifest[q]
              /\ files'[q] = files[q] /\ buffer'[q] = buffer[q]
        <4>1. \A q \in Partitions : lock[q] \notin {None, t} => q # p
          OBVIOUS
        <4> QED
          BY <4>1, <2>2, <1>6, <1>7
      <3>2. \A q \in Partitions : ToSet(buffer'[q].rows) \subseteq ToSet(buffer[q].rows) \cup Brings(t)
        BY <2>4, <1>2, <1>9
      <3>3. Stored' \subseteq Stored \cup Brings(t)
        BY <2>4, <1>2, <1>10
      <3>4. \A q \in Partitions : lock'[q] \in {lock[q], None, t}
        BY <2>2
      <3> QED
        BY <2>1, <2>3, <3>1, <3>2, <3>3, <3>4 DEF StepOf
  <1> QED
    BY <1>2, <1>4, <1>6, <1>9, <1>10, <1>11, <1>12

LEMMA AppendGroupKeeps ==
  ASSUME StoreInv, NEW t \in Threads, AppendGroup(t)
  PROVE  StoreInv'
  <1>1. /\ thread[t].at = "ready" /\ thread[t] # Idle /\ thread[t] \in Busy /\ NextTask(t).do = "append"
        /\ NextTask(t) = thread[t].todo[1] /\ 1 \in DOMAIN thread[t].todo /\ NextTask(t).p \in Partitions
        /\ thread[t].at \notin Stages
    BY DoingIs DEF AppendGroup, OnPartition, Stages
  <1>2. PICK p \in Partitions : p = NextTask(t).p
    BY <1>1
  <1>3. PICK b : b = [rows |-> buffer[p].rows \o NextTask(t).rows,
                      schemas |-> buffer[p].schemas \cup {thread[t].schema}]
    OBVIOUS
  <1>4. /\ Doing(t, "append") /\ lock[p] = None /\ buffer' = [buffer EXCEPT ![p] = b]
        /\ UNCHANGED <<disk, schema, closed, made, bounds>>
        /\ \/ Len(b.rows) < BufferLimit /\ Continue(t, Rest(t)) /\ UNCHANGED lock
           \/ Raise(t) /\ UNCHANGED lock
           \/ ~(Len(b.rows) < BufferLimit) /\ Prepare(t, p, FlushPlan(b.rows), TRUE, TRUE, None)
    BY <1>2, <1>3 DEF AppendGroup
  <1>5. ASSUME NEW w, thread' = [thread EXCEPT ![t] = w], lock' \in {lock, [lock EXCEPT ![p] = t]}
        PROVE  /\ b.rows \in Seq(Rows)
               /\ buffer' \in [Partitions -> [rows : Seq(Rows), schemas : SUBSET Schemas]]
               /\ StepOf(t) /\ Stored' \subseteq Stored \cup ToSet(NextTask(t).rows)
               /\ \A q \in Partitions : SameAt(q) \/ DiskInv(q)'
    BY <1>2, <1>3, <1>4, <1>5, Buffered
  <1>6. UNCHANGED <<manifest, files, schema, closed, made, rows>>
    BY <1>4 DEF disk, bounds
  <1>7. ASSUME NEW ts \in Seq(Tasks), ts \in {<<>>, Rest(t)}, Continue(t, ts), UNCHANGED lock
        PROVE  StoreInv'
    <2>1. PICK w : w = With(t, ts)
      OBVIOUS
    <2>2. thread' = [thread EXCEPT ![t] = w] /\ GoesTo(w, t, ts)
      BY <2>1, <1>1, <1>7, WithIs DEF Continue, StoreInv
    <2>3. /\ buffer' \in [Partitions -> [rows : Seq(Rows), schemas : SUBSET Schemas]]
          /\ StepOf(t) /\ Stored' \subseteq Stored \cup ToSet(NextTask(t).rows)
          /\ \A q \in Partitions : SameAt(q) \/ DiskInv(q)'
      BY <2>2, <1>5, <1>7
    <2>4. TypeInv'
      <3>1. w \in {Idle} \cup Busy
        BY <2>2 DEF GoesTo
      <3>2. thread' \in [Threads -> {Idle} \cup Busy]
        BY <2>2, <3>1 DEF StoreInv, TypeInv
      <3> QED
        BY <1>6, <1>7, <2>3, <3>2 DEF StoreInv, TypeInv
    <2>5. \A q \in Partitions : lock'[q] # t
      BY <1>1, <1>7, HoldsNothing
    <2>6. ts # <<>> =>
            /\ GoodTasks(thread[t].op, ts, thread[t].new)
            /\ \A i \in DOMAIN ts : ToSet(ts[i].rows) \cap Stored' = {}
            /\ thread[t].op = "write" => \E i \in DOMAIN ts : ts[i].do = "flush"
      <3> SUFFICES ASSUME ts # <<>>
                   PROVE  /\ GoodTasks(thread[t].op, ts, thread[t].new)
                          /\ \A i \in DOMAIN ts : ToSet(ts[i].rows) \cap Stored' = {}
                          /\ thread[t].op = "write" => \E i \in DOMAIN ts : ts[i].do = "flush"
        OBVIOUS
      <3>1. ts = Rest(t)
        BY <1>7
      <3>2. GoodTasks(thread[t].op, Rest(t), thread[t].new)
        BY <1>1, <3>1, RestIs
      <3>3. \A i \in DOMAIN Rest(t) : ToSet(Rest(t)[i].rows) \cap (Stored \cup ToSet(NextTask(t).rows)) = {}
        BY <1>1, RestIs
      <3>4. thread[t].op = "write" => \E i \in DOMAIN Rest(t) : Rest(t)[i].do = "flush"
        BY <1>1, RestIs
      <3>5. \A i \in DOMAIN Rest(t) : ToSet(Rest(t)[i].rows) \cap Stored' = {}
        BY <2>3, <3>3
      <3> QED
        BY ONLY <3>1, <3>2, <3>4, <3>5
    <2> QED
      BY <1>1, <1>6, <2>2, <2>3, <2>4, <2>5, <2>6, TurnKeeps
  <1>8. CASE Len(b.rows) < BufferLimit /\ Continue(t, Rest(t)) /\ UNCHANGED lock
    BY <1>1, <1>7, <1>8, RestIs
  <1>9. CASE Raise(t) /\ UNCHANGED lock
    <2>1. Continue(t, <<>>) /\ <<>> \in Seq(Tasks)
      BY <1>9 DEF Raise, Continue, With
    <2> QED
      BY <1>7, <1>9, <2>1
  <1>10. CASE ~(Len(b.rows) < BufferLimit) /\ Prepare(t, p, FlushPlan(b.rows), TRUE, TRUE, None)
    <2>1. PICK w : thread' = [thread EXCEPT ![t] = w]
      BY ONLY <1>10 DEF Prepare
    <2>2. lock' = [lock EXCEPT ![p] = t]
      BY <1>10 DEF Prepare
    <2>3. /\ b.rows \in Seq(Rows)
          /\ buffer' \in [Partitions -> [rows : Seq(Rows), schemas : SUBSET Schemas]]
          /\ StepOf(t) /\ Stored' \subseteq Stored \cup ToSet(NextTask(t).rows)
          /\ \A q \in Partitions : SameAt(q) \/ DiskInv(q)'
      BY <2>1, <2>2, <1>5
    <2>4. b.rows # <<>>
      BY <1>10, NumbersAssumption
    <2>5. PICK plan : plan = FlushPlan(b.rows)
      OBVIOUS
    <2>6. plan \in Seq(RowSeqs)
      BY <2>3, <2>4, <2>5, FlushPlanIs
    <2>7. /\ thread'[t].plan = plan /\ thread'[t].keep = TRUE /\ thread'[t].drops = TRUE
          /\ thread'[t].op = thread[t].op /\ thread'[t].new = thread[t].new /\ thread'[t].todo = thread[t].todo
          /\ thread'[t] # Idle /\ NextTask(t)' = NextTask(t)
      <3>1. TypeInv /\ Prepare(t, p, plan, TRUE, TRUE, None)
        BY <1>10, <2>5 DEF StoreInv
      <3> QED
        BY <1>1, <3>1, PreparedIs
    <2>8. PlanInv(t)'
      <3>1. buffer'[p] = b
        BY <1>4 DEF StoreInv, TypeInv
      <3> QED
        BY <1>1, <1>2, <2>4, <2>5, <2>7, <3>1 DEF PlanInv
    <2>9. WriteInv(t)'
      <3>1. thread[t].op = "write" => \E i \in DOMAIN thread[t].todo : thread[t].todo[i].do = "flush"
        <4>1. GoodTasks(thread[t].op, thread[t].todo, thread[t].new)
          BY <1>1 DEF StoreInv, ThreadInv
        <4> QED
          BY <1>1, <4>1 DEF GoodTasks
      <3> QED
        BY <2>7, <3>1 DEF WriteInv
    <2>10. Prepare(t, NextTask(t).p, plan, TRUE, TRUE, None)
      BY <1>2, <1>10, <2>5
    <2>11. NextTask(t).do \in OnPartition /\ lock[NextTask(t).p] = None
      BY <1>1, <1>2, <1>4 DEF OnPartition
    <2> QED
      BY <1>1, <1>6, <2>3, <2>6, <2>8, <2>9, <2>10, <2>11, PrepareKeeps
  <1> QED
    BY <1>4, <1>8, <1>9, <1>10

-----------------------------------------------------------------------------
(* Steps on a partition whose lock is held. *)

LEMMA Holding ==
  ASSUME StoreInv, NEW t \in Threads, thread[t].at \in Stages
  PROVE  /\ thread[t] # Idle /\ thread[t] \in Busy /\ NextTask(t) = thread[t].todo[1]
         /\ 1 \in DOMAIN thread[t].todo /\ NextTask(t) \in Tasks /\ NextTask(t).do \in OnPartition
         /\ NextTask(t).p \in Partitions /\ lock[NextTask(t).p] = t
         /\ GoodTasks(thread[t].op, thread[t].todo, thread[t].new)
         /\ ToSet(NextTask(t).rows) \subseteq ToSet(thread[t].new) /\ ToSet(thread[t].new) \subseteq 1 .. rows
         /\ CommitInv(t)
  <1>1. thread[t] # Idle /\ thread[t] \in Busy
    BY Kinds DEF StoreInv, Stages
  <1>2. ThreadInv(t) /\ CommitInv(t)
    BY DEF StoreInv
  <1>3. NextTask(t) = thread[t].todo[1] /\ 1 \in DOMAIN thread[t].todo /\ NextTask(t) \in Tasks
    BY <1>1, RestIs
  <1>4. /\ NextTask(t).do \in OnPartition /\ lock[NextTask(t).p] = t /\ ToSet(thread[t].new) \subseteq 1 .. rows
        /\ GoodTasks(thread[t].op, thread[t].todo, thread[t].new)
    BY <1>1, <1>2 DEF ThreadInv
  <1>5. NextTask(t).p \in Partitions /\ ToSet(NextTask(t).rows) \subseteq ToSet(thread[t].new)
    BY <1>3, <1>4 DEF GoodTasks
  <1> QED
    BY <1>1, <1>2, <1>3, <1>4, <1>5

\* A step of t on the disk, in the partition that it holds or nobody does.
LEMMA StepOnDisk ==
  ASSUME StoreInv, NEW t \in Threads, thread[t] # Idle, NEW p \in Partitions, lock[p] \in {None, t}, NEW w,
         thread' = [thread EXCEPT ![t] = w], NEW g, NEW m, NEW l \in {t, None, lock[p]}, NEW b,
         files' = [files EXCEPT ![p] = g], manifest' = [manifest EXCEPT ![p] = m],
         lock' = [lock EXCEPT ![p] = l], buffer' = [buffer EXCEPT ![p] = b], rows' = rows,
         ToSet(b.rows) \subseteq ToSet(buffer[p].rows), ToSet(Visible(p)') \subseteq Stored \cup Brings(t)
  PROVE  StepOf(t) /\ \A q \in Partitions : q # p => SameAt(q) /\ Visible(q)' = Visible(q)
  <1>1. \A u \in Threads \ {t} : thread'[u] = thread[u]
    BY DEF StoreInv, TypeInv
  <1>2. rows <= rows'
    BY DEF StoreInv, TypeInv
  <1>3. /\ \A q \in Partitions : q # p => lock'[q] = lock[q] /\ SameAt(q)
        /\ lock'[p] = l /\ buffer'[p] = b
    <2>1. DOMAIN files = Partitions
      BY DEF StoreInv, TypeInv
    <2> QED
      BY <2>1 DEF StoreInv, TypeInv, SameAt
  <1>4. \A q \in Partitions : q # p => Visible(q)' = Visible(q)
    BY <1>3 DEF Visible, Current, SameAt
  <1>5. \A q \in Partitions : ToSet(buffer'[q].rows) \subseteq ToSet(buffer[q].rows)
    BY <1>3 DEF SameAt
  <1>6. Stored' \subseteq Stored \cup Brings(t)
    <2>1. \A q \in Partitions : ToSet(buffer'[q].rows) \cup ToSet(Visible(q)') \subseteq Stored \cup Brings(t)
      <3> TAKE q \in Partitions
      <3>1. ToSet(buffer[q].rows) \cup ToSet(Visible(q)) \subseteq Stored
        BY DEF Stored
      <3>2. ToSet(Visible(q)') \subseteq Stored \cup Brings(t)
        BY <3>1, <1>4
      <3> QED
        BY <3>1, <3>2, <1>5
    <2> QED
      BY <2>1 DEF Stored
  <1>7. \A q \in Partitions : lock[q] \notin {None, t} => lock'[q] = lock[q] /\ SameAt(q)
    BY <1>3
  <1>8. \A q \in Partitions : lock'[q] \in {lock[q], None, t}
    BY <1>3
  <1> QED
    BY <1>1, <1>2, <1>3, <1>4, <1>5, <1>6, <1>7, <1>8 DEF StepOf, SameAt

LEMMA StageKeeps ==
  ASSUME StoreInv, NEW t \in Threads, thread[t].at \in Stages, NEW w \in Busy, w.at \in Stages,
         w.op = thread[t].op, w.todo = thread[t].todo, w.new = thread[t].new, w.schema = thread[t].schema,
         thread[t].at \in {"committed", "cleaned"} => w.at \in {"committed", "cleaned"},
         thread' = [thread EXCEPT ![t] = w], UNCHANGED <<lock, buffer, rows>>,
         StepOf(t), TypeInv', CommitInv(t)', \A p \in Partitions : SameAt(p) \/ DiskInv(p)',
         \/ Stored' \subseteq Stored
         \/ w.at \in {"committed", "cleaned"} /\ Stored' \subseteq Stored \cup ToSet(NextTask(t).rows)
  PROVE  StoreInv'
  <1>1. /\ thread[t] # Idle /\ NextTask(t) = thread[t].todo[1] /\ 1 \in DOMAIN thread[t].todo
        /\ GoodTasks(thread[t].op, thread[t].todo, thread[t].new)
        /\ NextTask(t).do \in OnPartition /\ lock[NextTask(t).p] = t
    BY Holding
  <1>2. thread'[t] = w /\ w # Idle /\ NextTask(t)' = NextTask(t)
    <2>1. thread'[t] = w
      BY DEF StoreInv, TypeInv
    <2>2. w # Idle
      BY DEF Idle, Stages
    <2> QED
      BY <2>1, <2>2 DEF NextTask
  <1>3. ThreadInv(t)'
    <2>1. ThreadInv(t)
      BY DEF StoreInv
    <2> QED
      BY <2>1, <1>1, <1>2 DEF ThreadInv
  <1>4. FreshInv(t)'
    <2> SUFFICES ASSUME NEW i \in DOMAIN w.todo, Pending(w, i)
                 PROVE  ToSet(w.todo[i].rows) \cap Stored' = {}
      BY <1>2 DEF FreshInv
    <2>1. Pending(thread[t], i)
      BY DEF Pending, Stages
    <2>2. ToSet(w.todo[i].rows) \cap Stored = {}
      BY <2>1, <1>1 DEF StoreInv, FreshInv
    <2>3. CASE Stored' \subseteq Stored
      BY <2>2, <2>3
    <2>4. CASE w.at \in {"committed", "cleaned"} /\ Stored' \subseteq Stored \cup ToSet(NextTask(t).rows)
      <3>1. i # 1
        BY <2>4 DEF Pending, Stages
      <3>2. \A j, k \in DOMAIN thread[t].todo :
              j # k => ToSet(thread[t].todo[j].rows) \cap ToSet(thread[t].todo[k].rows) = {}
        BY <1>1 DEF GoodTasks
      <3>3. ToSet(w.todo[i].rows) \cap ToSet(NextTask(t).rows) = {}
        BY <3>1, <3>2, <1>1
      <3> QED
        BY <2>2, <2>4, <3>3
    <2> QED
      BY <2>3, <2>4
  <1>5. WriteInv(t)'
    <2>1. WriteInv(t) /\ buffer' = buffer
      BY DEF StoreInv
    <2> QED
      BY <2>1, <1>1, <1>2 DEF WriteInv
  <1>6. ToSet(thread'[t].new) \subseteq Brings(t)
    BY <1>1, <1>2 DEF Brings
  <1>7. \A p \in Partitions : lock'[p] = t => thread'[t].at \in Stages /\ NextTask(t)'.p = p
    <2>1. \A p \in Partitions : lock[p] = t => NextTask(t).p = p
      BY NoneAssumption DEF StoreInv, LockInv
    <2> QED
      BY <2>1, <1>2
  <1> QED
    BY <1>3, <1>4, <1>5, <1>6, <1>7, StepKeeps

\* The rows of a partition whose manifest lists the same files, which are the same.
LEMMA VisibleSame ==
  ASSUME StoreInv, NEW p \in Partitions,
         Current(p)'.files = Current(p).files, Current(p)'.at = Current(p).at,
         files'[p] \in [DOMAIN files'[p] -> RowSeqs],
         \A f \in ToSet(Current(p).files) : f \in DOMAIN files'[p] /\ files'[p][f] = files[p][f]
  PROVE  Visible(p)' = Visible(p)
  <1>1. /\ Listed(Current(p)) /\ HasFiles(Current(p), files[p])
        /\ Visible(p) = Content(Current(p), files[p])
    BY VisibleIs
  <1>2. Visible(p)' = Content(Current(p)', files'[p])
    BY DEF Visible, Content
  <1>3. PICK m, n, fs, gs : m = Current(p) /\ n = Current(p)' /\ fs = files[p] /\ gs = files'[p]
    OBVIOUS
  <1>4. HasFiles(m, gs)
    <2>1. RowSeqs \subseteq Seq(Rows)
      BY DEF RowSeqs
    <2>2. gs \in [DOMAIN gs -> Seq(Rows)]
      BY <2>1, <1>3
    <2> QED
      BY <2>2, <1>3 DEF HasFiles
  <1>5. n.files = m.files /\ n.at = m.at /\ Listed(m) /\ HasFiles(m, fs) /\ \A f \in ToSet(m.files) : fs[f] = gs[f]
    BY <1>1, <1>3
  <1>6. Content(n, gs) = Content(m, fs)
    BY <1>4, <1>5, ContentSame
  <1> QED
    BY <1>1, <1>2, <1>3, <1>6

\* The ids of new files.
LEMMA NewIdsAre ==
  ASSUME NEW plan \in Seq(RowSeqs), NEW n \in Nat, NEW ids, ids = [i \in DOMAIN plan |-> n + i]
  PROVE  /\ ids \in Seq(Nat) /\ Len(ids) = Len(plan) /\ IsInjective(ids) /\ n + Len(ids) \in Nat
         /\ ToSet(ids) = n + 1 .. n + Len(plan)
         /\ \A i \in DOMAIN plan : ids[i] = n + i
  <1>1. DOMAIN plan = 1 .. Len(plan) /\ Len(plan) \in Nat
    OBVIOUS
  <1>2. ids \in [1 .. Len(plan) -> Nat]
    BY <1>1
  <1>3. ids \in Seq(Nat) /\ Len(ids) = Len(plan) /\ DOMAIN ids = 1 .. Len(plan)
    BY <1>1, <1>2, FunctionIsSequence
  <1>4. IsInjective(ids)
    BY <1>1, <1>3 DEF IsInjective
  <1>5. ToSet(ids) \subseteq n + 1 .. n + Len(plan)
    BY <1>1, <1>3 DEF ToSet
  <1>6. \A k \in n + 1 .. n + Len(plan) : k \in ToSet(ids)
    <2> TAKE k \in n + 1 .. n + Len(plan)
    <2>1. k - n \in 1 .. Len(plan) /\ n + (k - n) = k
      BY <1>1
    <2>2. ids[k - n] = k
      BY <2>1, <1>1
    <2> QED
      BY <2>1, <2>2, <1>3 DEF ToSet
  <1>7. n + Len(ids) \in Nat /\ \A i \in DOMAIN plan : ids[i] = n + i
    BY <1>1, <1>3
  <1>8. ToSet(ids) = n + 1 .. n + Len(plan)
    BY <1>5, <1>6
  <1> QED
    BY <1>3, <1>4, <1>7, <1>8

LEMMA WriteFilesKeeps ==
  ASSUME StoreInv, NEW t \in Threads, WriteFiles(t)
  PROVE  /\ StoreInv'
         /\ \A q \in Partitions : Visible(q)' = Visible(q)
  <1>1. thread[t].at = "writing" /\ thread[t].at \in Stages
    BY DEF WriteFiles, Is, Stages
  <1>2. /\ thread[t] # Idle /\ thread[t] \in Busy /\ NextTask(t).p \in Partitions /\ lock[NextTask(t).p] = t
        /\ CommitInv(t)
    BY <1>1, Holding
  <1>3. PICK p \in Partitions : p = NextTask(t).p
    BY <1>2
  <1>4. PICK plan : plan = thread[t].plan
    OBVIOUS
  <1>5. plan \in Seq(RowSeqs) /\ made \in Nat
    BY <1>2, <1>4 DEF Busy, StoreInv, TypeInv
  <1>6. PICK ids : ids = [i \in DOMAIN plan |-> made + i]
    OBVIOUS
  <1>7. /\ ids \in Seq(Nat) /\ Len(ids) = Len(plan) /\ IsInjective(ids) /\ made + Len(ids) \in Nat
        /\ ToSet(ids) = made + 1 .. made + Len(plan) /\ \A i \in DOMAIN plan : ids[i] = made + i
    BY <1>5, <1>6, NewIdsAre
  <1>8. PICK g : g = [f \in DOMAIN files[p] \cup ToSet(ids) |-> IF f > made THEN plan[f - made] ELSE files[p][f]]
    OBVIOUS
  <1>9. PICK w : w = [thread[t] EXCEPT !.at = "written", !.ids = ids]
    OBVIOUS
  <1>10. /\ made' = made + Len(ids) /\ files' = [files EXCEPT ![p] = g] /\ thread' = [thread EXCEPT ![t] = w]
         /\ UNCHANGED <<manifest, buffer, schema, closed, lock, rows>>
    BY <1>3, <1>4, <1>6, <1>8, <1>9 DEF WriteFiles, memory, bounds
  <1>11. /\ w \in Busy /\ w.at = "written" /\ w.ids = ids /\ w.op = thread[t].op /\ w.todo = thread[t].todo
         /\ w.new = thread[t].new /\ w.schema = thread[t].schema /\ w.plan = plan /\ w.keep = thread[t].keep
         /\ w.drops = thread[t].drops /\ w.signature = thread[t].signature
    BY <1>2, <1>4, <1>7, <1>9 DEF Busy, Stages
  <1>12. /\ DOMAIN files[p] \subseteq 1 .. made /\ files[p] \in [DOMAIN files[p] -> RowSeqs]
         /\ DOMAIN files = Partitions
    BY DEF StoreInv, TypeInv
  <1>13. /\ DOMAIN g \subseteq 1 .. made' /\ g \in [DOMAIN g -> RowSeqs]
         /\ \A f \in DOMAIN files[p] : f \in DOMAIN g /\ g[f] = files[p][f]
         /\ \A i \in DOMAIN plan : ids[i] \in DOMAIN g /\ g[ids[i]] = plan[i]
    <2>1. DOMAIN g = DOMAIN files[p] \cup ToSet(ids)
      BY <1>8
    <2>2. DOMAIN g \subseteq 1 .. made'
      BY <2>1, <1>5, <1>7, <1>10, <1>12
    <2>3. \A f \in DOMAIN files[p] : f \in DOMAIN g /\ g[f] = files[p][f] /\ g[f] \in RowSeqs
      BY <1>5, <1>8, <1>12
    <2>4. DOMAIN plan = 1 .. Len(plan) /\ \A i \in DOMAIN plan : plan[i] \in RowSeqs
      BY <1>5
    <2>5. \A i \in DOMAIN plan : ids[i] \in DOMAIN g /\ g[ids[i]] = plan[i]
      <3> TAKE i \in DOMAIN plan
      <3>1. ids[i] = made + i /\ ids[i] \in ToSet(ids) /\ ids[i] > made /\ ids[i] - made = i
        BY <1>5, <1>7, <2>4
      <3> QED
        BY <3>1, <1>8
    <2>6. \A f \in ToSet(ids) : g[f] \in RowSeqs
      <3> TAKE f \in ToSet(ids)
      <3>1. f - made \in DOMAIN plan /\ f = made + (f - made)
        BY <1>5, <1>7, <2>4
      <3> QED
        BY <3>1, <2>4, <2>5, <1>7
    <2>7. g = [f \in DOMAIN g |-> g[f]]
      BY <1>8
    <2>8. \A f \in DOMAIN g : g[f] \in RowSeqs
      BY <2>1, <2>3, <2>6
    <2>9. g \in [DOMAIN g -> RowSeqs]
      BY ONLY <2>7, <2>8
    <2> QED
      BY <2>2, <2>3, <2>5, <2>9
  <1>14. files'[p] = g /\ (\A q \in Partitions : q # p => files'[q] = files[q]) /\ DOMAIN files' = Partitions
         /\ files' = [q \in Partitions |-> files'[q]]
    BY <1>10, <1>12
  <1>15. TypeInv'
    <2>1. thread' \in [Threads -> {Idle} \cup Busy]
      BY <1>10, <1>11 DEF StoreInv, TypeInv
    <2>2. \A q \in Partitions : files'[q] \in [DOMAIN files'[q] -> RowSeqs] /\ DOMAIN files'[q] \subseteq 1 .. made'
      <3> TAKE q \in Partitions
      <3>1. CASE q = p
        BY <3>1, <1>13, <1>14
      <3>2. CASE q # p
        <4>1. 1 .. made \subseteq 1 .. made'
          BY <1>5, <1>7, <1>10
        <4> QED
          BY <3>2, <4>1, <1>14 DEF StoreInv, TypeInv
      <3> QED
        BY <3>1, <3>2
    <2> QED
      BY <2>1, <2>2, <1>7, <1>10, <1>14 DEF StoreInv, TypeInv
  <1>16. Current(p)' = Current(p) /\ ToSet(Current(p).files) \subseteq DOMAIN files[p] /\ DiskInv(p)
    BY <1>10 DEF Current, StoreInv, DiskInv
  <1>17. Visible(p)' = Visible(p)
    BY <1>13, <1>14, <1>16, VisibleSame
  <1>18. StepOf(t) /\ \A q \in Partitions : q # p => SameAt(q)
    <2>1. ToSet(Visible(p)') \subseteq Stored \cup Brings(t)
      BY <1>17 DEF Stored
    <2>2. PICK m, l, b : m = manifest[p] /\ l = lock[p] /\ b = buffer[p]
      OBVIOUS
    <2>3. manifest' = [manifest EXCEPT ![p] = m] /\ lock' = [lock EXCEPT ![p] = l]
          /\ buffer' = [buffer EXCEPT ![p] = b] /\ rows' = rows
      BY <2>2, <1>10 DEF StoreInv, TypeInv
    <2>4. l \in {t, None, lock[p]} /\ ToSet(b.rows) \subseteq ToSet(buffer[p].rows) /\ lock[p] \in {None, t}
      BY <2>2, <1>2, <1>3
    <2>5. thread[t] # Idle /\ thread' = [thread EXCEPT ![t] = w] /\ files' = [files EXCEPT ![p] = g]
      BY <1>2, <1>10
    <2> QED
      BY <2>1, <2>3, <2>4, <2>5, StepOnDisk
  <1>19. DiskInv(p)'
    BY <1>10, <1>13, <1>14, <1>16, <1>17 DEF DiskInv
  <1>20. Stored' \subseteq Stored
    <2>1. \A q \in Partitions : Visible(q)' = Visible(q)
      BY <1>17, <1>18 DEF SameAt, Visible, Current
    <2> QED
      BY <2>1, <1>10 DEF Stored
  <1>21. thread'[t] = w /\ NextTask(t)' = NextTask(t)
    <2>1. thread'[t] = w
      BY <1>10 DEF StoreInv, TypeInv
    <2> QED
      BY <2>1, <1>11 DEF NextTask
  <1>22. CommitInv(t)'
    <2>1. PlanInv(t)
      BY <1>1, <1>2 DEF CommitInv
    <2>2. PlanInv(t)'
      <3>1. buffer'[p] = buffer[p]
        BY <1>10
      <3> QED
        BY <2>1, <3>1, <1>3, <1>4, <1>11, <1>17, <1>21 DEF PlanInv
    <2>3. WrittenFiles(t)'
      <3>1. ToSet(ids) \cap ToSet(Current(p).files) = {}
        BY <1>5, <1>7, <1>12, <1>16
      <3>2. thread'[t].ids = ids /\ thread'[t].plan = plan /\ NextTask(t)'.p = p
        BY <1>3, <1>11, <1>21
      <3>3. \A i \in DOMAIN plan : ids[i] \in DOMAIN files'[p] /\ files'[p][ids[i]] = plan[i]
        BY <1>13, <1>14
      <3>4. Current(p)' = Current(p) /\ Len(ids) = Len(plan) /\ IsInjective(ids)
        BY <1>7, <1>16
      <3> QED
        BY <3>1, <3>2, <3>3, <3>4 DEF WrittenFiles
    <2> QED
      BY <2>2, <2>3, <1>1, <1>2, <1>11, <1>21 DEF CommitInv
  <1>23. StoreInv'
    BY <1>1, <1>10, <1>11, <1>15, <1>18, <1>19, <1>20, <1>22, StageKeeps DEF Stages
  <1>24. \A q \in Partitions : Visible(q)' = Visible(q)
    BY <1>17, <1>18 DEF SameAt, Visible, Current
  <1> QED
    BY <1>23, <1>24

\* Files that the manifest does not name are removed.
LEMMA FilesRemoved ==
  ASSUME StoreInv, NEW p \in Partitions, NEW K, ToSet(Current(p).files) \subseteq K,
         NEW g, g = Only(files[p], K), files' = [files EXCEPT ![p] = g], manifest' = manifest, made' = made
  PROVE  /\ DOMAIN files' = Partitions /\ files' = [q \in Partitions |-> files'[q]]
         /\ \A q \in Partitions : files'[q] \in [DOMAIN files'[q] -> RowSeqs] /\ DOMAIN files'[q] \subseteq 1 .. made'
         /\ \A q \in Partitions : q # p => files'[q] = files[q]
         /\ Visible(p)' = Visible(p) /\ Current(p)' = Current(p) /\ ToSet(Current(p).files) \subseteq DOMAIN files'[p]
  <1>1. /\ DOMAIN files[p] \subseteq 1 .. made /\ files[p] \in [DOMAIN files[p] -> RowSeqs]
        /\ DOMAIN files = Partitions
    BY DEF StoreInv, TypeInv
  <1>2. g = [f \in DOMAIN files[p] \cap K |-> files[p][f]]
    BY DEF Only
  <1>3. DOMAIN g = DOMAIN files[p] \cap K /\ \A f \in DOMAIN g : g[f] = files[p][f] /\ g[f] \in RowSeqs
    BY <1>1, <1>2
  <1>4. g = [f \in DOMAIN g |-> g[f]]
    BY <1>2
  <1>5. g \in [DOMAIN g -> RowSeqs]
    BY ONLY <1>3, <1>4
  <1>6. files'[p] = g /\ (\A q \in Partitions : q # p => files'[q] = files[q]) /\ DOMAIN files' = Partitions
        /\ files' = [q \in Partitions |-> files'[q]]
    BY <1>1
  <1>7. \A q \in Partitions : files'[q] \in [DOMAIN files'[q] -> RowSeqs] /\ DOMAIN files'[q] \subseteq 1 .. made'
    <2> TAKE q \in Partitions
    <2>1. CASE q = p
      BY <2>1, <1>1, <1>3, <1>5, <1>6
    <2>2. CASE q # p
      BY <2>2, <1>6 DEF StoreInv, TypeInv
    <2> QED
      BY <2>1, <2>2
  <1>8. Current(p)' = Current(p)
    BY DEF Current
  <1>9. ToSet(Current(p).files) \subseteq DOMAIN files[p]
    BY DEF StoreInv, DiskInv
  <1>10. \A f \in ToSet(Current(p).files) : f \in DOMAIN files'[p] /\ files'[p][f] = files[p][f]
    BY <1>3, <1>6, <1>9
  <1>11. Visible(p)' = Visible(p)
    BY <1>5, <1>6, <1>8, <1>10, VisibleSame
  <1> QED
    BY <1>6, <1>7, <1>8, <1>10, <1>11

LEMMA CleanupKeeps ==
  ASSUME StoreInv, NEW t \in Threads, Cleanup(t) \/ CleanupFails(t)
  PROVE  /\ StoreInv'
         /\ \A q \in Partitions : Visible(q)' = Visible(q)
  <1>1. thread[t].at = "committed" /\ thread[t].at \in Stages
    BY DEF Cleanup, CleanupFails, Is, Stages
  <1>2. /\ thread[t] # Idle /\ thread[t] \in Busy /\ NextTask(t).p \in Partitions /\ lock[NextTask(t).p] = t
        /\ CommitInv(t)
    BY <1>1, Holding
  <1>3. PICK p \in Partitions : p = NextTask(t).p
    BY <1>2
  <1>4. manifest[p] # None /\ Current(p) = manifest[p]
    BY <1>1, <1>2, <1>3 DEF CommitInv, Current
  <1>5. \E K : files' = [files EXCEPT ![p] = Only(files[p], K)] /\ ToSet(Current(p).files) \subseteq K
    <2>1. \A K : [files EXCEPT ![p] = Only(@, K)] = [files EXCEPT ![p] = Only(files[p], K)]
      OBVIOUS
    <2>2. CASE Cleanup(t)
      BY <2>1, <2>2, <1>3, <1>4 DEF Cleanup
    <2>3. CASE CleanupFails(t)
      <3>1. PICK left : files' = [files EXCEPT ![p] = Only(@, ToSet(manifest[p].files) \cup left)]
        BY <2>3, <1>3 DEF CleanupFails
      <3>2. files' = [files EXCEPT ![p] = Only(files[p], ToSet(manifest[p].files) \cup left)]
        BY <3>1
      <3> QED
        BY <3>2, <1>4
    <2> QED
      BY <2>2, <2>3
  <1>6. PICK K : files' = [files EXCEPT ![p] = Only(files[p], K)] /\ ToSet(Current(p).files) \subseteq K
    BY <1>5
  <1>7. PICK g : g = Only(files[p], K)
    OBVIOUS
  <1>8. PICK w : w = [thread[t] EXCEPT !.at = "cleaned"]
    OBVIOUS
  <1>9. /\ files' = [files EXCEPT ![p] = g] /\ thread' = [thread EXCEPT ![t] = w]
        /\ UNCHANGED <<manifest, buffer, schema, closed, lock, rows, made>>
    <2>1. UNCHANGED <<manifest, buffer, schema, closed, lock, rows, made>>
      BY DEF Cleanup, CleanupFails, memory, bounds
    <2>2. thread' = [thread EXCEPT ![t] = w]
      BY <1>8 DEF Cleanup, CleanupFails, To
    <2> QED
      BY <2>1, <2>2, <1>6, <1>7
  <1>10. /\ w \in Busy /\ w.at = "cleaned" /\ w.op = thread[t].op /\ w.todo = thread[t].todo
         /\ w.new = thread[t].new /\ w.schema = thread[t].schema /\ w.keep = thread[t].keep
         /\ w.drops = thread[t].drops /\ w.signature = thread[t].signature
    BY <1>2, <1>8 DEF Busy, Stages
  <1>11. /\ DOMAIN files' = Partitions /\ files' = [q \in Partitions |-> files'[q]]
         /\ \A q \in Partitions : files'[q] \in [DOMAIN files'[q] -> RowSeqs] /\ DOMAIN files'[q] \subseteq 1 .. made'
         /\ Visible(p)' = Visible(p) /\ Current(p)' = Current(p) /\ ToSet(Current(p).files) \subseteq DOMAIN files'[p]
    BY <1>6, <1>7, <1>9, FilesRemoved
  <1>12. TypeInv'
    <2>1. thread' \in [Threads -> {Idle} \cup Busy]
      BY <1>9, <1>10 DEF StoreInv, TypeInv
    <2> QED
      BY <2>1, <1>9, <1>11 DEF StoreInv, TypeInv
  <1>13. StepOf(t) /\ \A q \in Partitions : q # p => SameAt(q) /\ Visible(q)' = Visible(q)
    <2>1. ToSet(Visible(p)') \subseteq Stored \cup Brings(t)
      BY <1>11 DEF Stored
    <2>2. PICK m, l, b : m = manifest[p] /\ l = lock[p] /\ b = buffer[p]
      OBVIOUS
    <2>3. manifest' = [manifest EXCEPT ![p] = m] /\ lock' = [lock EXCEPT ![p] = l]
          /\ buffer' = [buffer EXCEPT ![p] = b] /\ rows' = rows
      BY <2>2, <1>9 DEF StoreInv, TypeInv
    <2>4. l \in {t, None, lock[p]} /\ ToSet(b.rows) \subseteq ToSet(buffer[p].rows) /\ lock[p] \in {None, t}
      BY <2>2, <1>2, <1>3
    <2>5. thread[t] # Idle /\ thread' = [thread EXCEPT ![t] = w] /\ files' = [files EXCEPT ![p] = g]
      BY <1>2, <1>9
    <2> QED
      BY <2>1, <2>3, <2>4, <2>5, StepOnDisk
  <1>14. DiskInv(p)'
    <2>1. DiskInv(p)
      BY DEF StoreInv
    <2> QED
      BY <2>1, <1>9, <1>11 DEF DiskInv
  <1>15. Stored' \subseteq Stored
    BY <1>9, <1>11, <1>13 DEF Stored
  <1>16. thread'[t] = w /\ NextTask(t)' = NextTask(t)
    <2>1. thread'[t] = w
      BY <1>9 DEF StoreInv, TypeInv
    <2> QED
      BY <2>1, <1>10 DEF NextTask
  <1>17. CommitInv(t)'
    BY <1>1, <1>2, <1>9, <1>10, <1>16 DEF CommitInv
  <1>18. StoreInv'
    BY <1>1, <1>9, <1>10, <1>12, <1>13, <1>14, <1>15, <1>17, StageKeeps DEF Stages
  <1> QED
    BY <1>11, <1>13, <1>18

LEMMA FinishKeeps ==
  ASSUME StoreInv, NEW t \in Threads, Finish(t)
  PROVE  StoreInv'
  <1>1. thread[t].at = "cleaned" /\ thread[t].at \in Stages
    BY DEF Finish, Is, Stages
  <1>2. /\ thread[t] # Idle /\ thread[t] \in Busy /\ NextTask(t).p \in Partitions /\ lock[NextTask(t).p] = t
        /\ CommitInv(t) /\ NextTask(t).do \in OnPartition
    BY <1>1, Holding
  <1>3. PICK p \in Partitions : p = NextTask(t).p
    BY <1>2
  <1>4. PICK b : b = IF thread[t].drops THEN Empty ELSE buffer[p]
    OBVIOUS
  <1>5. PICK ts, w : ts = Rest(t) /\ w = With(t, ts)
    OBVIOUS
  <1>6. /\ buffer' = [buffer EXCEPT ![p] = b] /\ lock' = [lock EXCEPT ![p] = None] /\ thread' = [thread EXCEPT ![t] = w]
        /\ UNCHANGED <<manifest, files, schema, closed, made, rows>>
    <2>1. buffer = [buffer EXCEPT ![p] = buffer[p]]
      BY DEF StoreInv, TypeInv
    <2>2. buffer' = [buffer EXCEPT ![p] = b]
      BY <2>1, <1>3, <1>4 DEF Finish
    <2> QED
      BY <2>2, <1>3, <1>5 DEF Finish, Unlocked, Continue, disk, bounds
  <1>7. ts \in Seq(Tasks) /\ GoesTo(w, t, ts)
    <2>1. ts \in Seq(Tasks)
      BY <1>2, <1>5, RestIs
    <2> QED
      BY <2>1, <1>2, <1>5, WithIs DEF StoreInv
  <1>8. b \in [rows : Seq(Rows), schemas : SUBSET Schemas] /\ ToSet(b.rows) \subseteq ToSet(buffer[p].rows)
        /\ (thread[t].drops => ToSet(b.rows) = {})
    <2>1. CASE thread[t].drops
      BY <2>1, <1>4 DEF Empty, ToSet
    <2>2. CASE ~thread[t].drops
      BY <2>2, <1>4 DEF StoreInv, TypeInv
    <2> QED
      BY <2>1, <2>2
  <1>9. buffer' \in [Partitions -> [rows : Seq(Rows), schemas : SUBSET Schemas]]
        /\ buffer'[p] = b /\ \A q \in Partitions : q # p => buffer'[q] = buffer[q]
    BY <1>6, <1>8 DEF StoreInv, TypeInv
  <1>10. TypeInv'
    <2>1. w \in {Idle} \cup Busy
      BY <1>7 DEF GoesTo
    <2>2. thread' \in [Threads -> {Idle} \cup Busy]
      BY <2>1, <1>6 DEF StoreInv, TypeInv
    <2>3. lock' \in [Partitions -> Threads \cup {None}]
      BY <1>6, LocksTyped
    <2> QED
      BY <2>2, <2>3, <1>6, <1>9 DEF StoreInv, TypeInv
  <1>11. \A q \in Partitions : Visible(q)' = Visible(q) /\ Current(q)' = Current(q)
    BY <1>6 DEF Visible, Current
  <1>12. StepOf(t) /\ \A q \in Partitions : q # p => SameAt(q)
    <2>1. ToSet(Visible(p)') \subseteq Stored \cup Brings(t)
      BY <1>11 DEF Stored
    <2>2. PICK m, l, g : m = manifest[p] /\ l = None /\ g = files[p]
      OBVIOUS
    <2>3. manifest' = [manifest EXCEPT ![p] = m] /\ lock' = [lock EXCEPT ![p] = l]
          /\ files' = [files EXCEPT ![p] = g] /\ rows' = rows
      BY <2>2, <1>6 DEF StoreInv, TypeInv
    <2>4. l \in {t, None, lock[p]} /\ lock[p] \in {None, t}
      BY <2>2, <1>2, <1>3
    <2>5. /\ thread[t] # Idle /\ thread' = [thread EXCEPT ![t] = w] /\ buffer' = [buffer EXCEPT ![p] = b]
          /\ ToSet(b.rows) \subseteq ToSet(buffer[p].rows)
      BY <1>2, <1>6, <1>8
    <2> QED
      BY <2>1, <2>3, <2>4, <2>5, StepOnDisk
  <1>13. DiskInv(p)'
    <2>1. DiskInv(p)
      BY DEF StoreInv
    <2> QED
      BY <2>1, <1>6, <1>8, <1>9, <1>11 DEF DiskInv
  <1>14. Stored' \subseteq Stored
    <2>1. \A q \in Partitions : ToSet(buffer'[q].rows) \subseteq ToSet(buffer[q].rows)
      BY <1>8, <1>9
    <2> QED
      BY <2>1, <1>11 DEF Stored
  <1>15. \A q \in Partitions : lock'[q] # t
    <2>1. \A q \in Partitions : lock[q] = t => q = p
      BY <1>3, NoneAssumption DEF StoreInv, LockInv
    <2> QED
      BY <2>1, <1>6, NoneAssumption DEF StoreInv, TypeInv
  <1>16. ts # <<>> =>
            /\ GoodTasks(thread[t].op, ts, thread[t].new)
            /\ \A i \in DOMAIN ts : ToSet(ts[i].rows) \cap Stored' = {}
    BY <1>2, <1>5, <1>14, RestIs
  <1>17. thread[t].op = "write" =>
            \A q \in Partitions :
              \/ ToSet(thread[t].new) \cap ToSet(buffer'[q].rows) = {}
              \/ \E i \in DOMAIN ts : ts[i].do = "flush" \/ (ts[i].do = "commit" /\ ts[i].p = q)
    <2> SUFFICES ASSUME thread[t].op = "write", NEW q \in Partitions
                 PROVE  \/ ToSet(thread[t].new) \cap ToSet(buffer'[q].rows) = {}
                        \/ \E i \in DOMAIN ts : ts[i].do = "flush" \/ (ts[i].do = "commit" /\ ts[i].p = q)
      OBVIOUS
    <2>1. NextTask(t).do # "flush"
      BY <1>2 DEF OnPartition
    <2>2. ToSet(buffer'[q].rows) \subseteq ToSet(buffer[q].rows)
      BY <1>8, <1>9
    <2>3. CASE NextTask(t).do = "commit" /\ q = p
      <3>1. thread[t].drops
        BY <2>3, <1>1, <1>2 DEF CommitInv
      <3> QED
        BY <2>3, <3>1, <1>8, <1>9
    <2>4. CASE ~(NextTask(t).do = "commit" /\ q = p)
      <3>1. thread[t].op = "write" =>
              \A pp \in Partitions :
                NextTask(t).do # "flush" /\ ~(NextTask(t).do = "commit" /\ NextTask(t).p = pp) =>
                  \/ ToSet(thread[t].new) \cap ToSet(buffer[pp].rows) = {}
                  \/ \E i \in DOMAIN Rest(t) :
                       Rest(t)[i].do = "flush" \/ (Rest(t)[i].do = "commit" /\ Rest(t)[i].p = pp)
        BY <1>2, RestIs
      <3>2. \/ ToSet(thread[t].new) \cap ToSet(buffer[q].rows) = {}
            \/ \E i \in DOMAIN ts : ts[i].do = "flush" \/ (ts[i].do = "commit" /\ ts[i].p = q)
        BY ONLY <3>1, <2>1, <2>4, <1>3, <1>5, thread[t].op = "write", q \in Partitions
      <3> QED
        BY <2>2, <3>2
    <2> QED
      BY <2>3, <2>4
  <1> QED
    BY <1>2, <1>6, <1>7, <1>10, <1>12, <1>13, <1>15, <1>16, <1>17, TurnKeeps

-----------------------------------------------------------------------------
(* The commit point. *)

LEMMA CommittedAtIs ==
  ASSUME NEW m, Listed(m), m.updated \in Nat, NEW now \in Nat
  PROVE  /\ CommittedAt(now, m) \in Nat /\ CommittedAt(now, m) > 0
         /\ \A i \in DOMAIN m.at : m.at[i] < CommittedAt(now, m)
  <1> DEFINE D == DOMAIN m.at
             T == {m.at[i] + 1 : i \in D}
             S == {now, m.updated + 1} \cup T
             f == [i \in D |-> m.at[i] + 1]
  <1>1. D = 1 .. Len(m.at) /\ Len(m.at) \in Nat /\ \A i \in D : m.at[i] \in Nat
    BY DEF Listed
  <1>2. IsFiniteSet(D)
    BY <1>1, FS_Interval
  <1>3. f \in Surjection(D, T)
    BY DEF Surjection
  <1>4. IsFiniteSet(T)
    <2> HIDE DEF D, T, f
    <2> QED
      BY <1>2, <1>3, FS_Surjection
  <1>5. T \in SUBSET Int /\ \A i \in D : m.at[i] + 1 \in T
    BY <1>1
  <1> HIDE DEF D, T, f
  <1>6. IsFiniteSet({now, m.updated + 1})
    <2>1. PICK a, b : a = now /\ b = m.updated + 1
      OBVIOUS
    <2>2. IsFiniteSet({a}) /\ {a, b} = {a} \cup {b}
      BY FS_Singleton
    <2>3. IsFiniteSet({a} \cup {b})
      BY <2>2, FS_AddElement
    <2> QED
      BY <2>1, <2>2, <2>3
  <1>7. IsFiniteSet(S)
    BY <1>4, <1>6, FS_Union
  <1>8. S \in SUBSET Int /\ m.updated + 1 \in S /\ S # {} /\ \A i \in D : m.at[i] + 1 \in S
    <2>1. m.updated + 1 \in Int /\ now \in Int
      OBVIOUS
    <2>2. S \in SUBSET Int
      BY <2>1, <1>5
    <2>3. m.updated + 1 \in S /\ S # {}
      OBVIOUS
    <2>4. \A i \in D : m.at[i] + 1 \in S
      BY <1>5
    <2> QED
      BY <2>2, <2>3, <2>4
  <1>9. CommittedAt(now, m) = Max(S)
    BY DEF CommittedAt, T, D
  <1> HIDE DEF S
  <1>10. PICK c : c = Max(S)
    OBVIOUS
  <1>11. c \in Int /\ \A x \in S : x <= c
    BY <1>7, <1>8, <1>10, MaxIs
  <1>12. m.updated + 1 <= c /\ \A i \in D : m.at[i] + 1 <= c
    BY <1>8, <1>11
  <1>13. c \in Nat /\ c > 0
    BY <1>11, <1>12
  <1>14. \A i \in D : m.at[i] < c
    BY <1>1, <1>11, <1>12
  <1> QED
    BY <1>9, <1>10, <1>13, <1>14 DEF D

\* What a commit makes visible: the sorted buffer after what was there, or the
\* sorted rows of a replacement, or what was there without repetitions.
LEMMA CommitShows ==
  ASSUME StoreInv, NEW t \in Threads, ReplaceManifest(t), NEW p \in Partitions, p = NextTask(t).p
  PROVE  /\ manifest' \in [Partitions -> Manifests \cup {None}] /\ manifest'[p] # None
         /\ \A q \in Partitions : q # p => manifest'[q] = manifest[q]
         /\ Listed(Current(p)') /\ IsInjective(Current(p)'.files)
         /\ ToSet(Current(p)'.files) \subseteq DOMAIN files[p]
         /\ \A i \in DOMAIN Current(p)'.at : Current(p)'.at[i] \in 1 .. Current(p)'.updated
         /\ manifest'[p].version # 0 /\ Current(p)'.signature = thread[t].signature
         /\ thread[t].keep => Visible(p)' = Visible(p) \o Table!Sorted(buffer[p].rows)
         /\ thread[t].drops /\ ~thread[t].keep => Visible(p)' = Table!Sorted(NextTask(t).rows)
         /\ ~thread[t].drops => Visible(p)' = Table!Sorted(Table!Winners(Visible(p)))
  <1>1. thread[t].at = "written" /\ thread[t].at \in Stages
    BY DEF ReplaceManifest, Is, Stages
  <1>2. /\ thread[t] \in Busy /\ CommitInv(t) /\ NextTask(t) \in Tasks
    BY <1>1, Holding
  <1>3. PlanInv(t) /\ WrittenFiles(t)
    BY <1>1, <1>2 DEF CommitInv
  <1>4. PICK m, fs, ids, plan :
          m = Current(p) /\ fs = files[p] /\ ids = thread[t].ids /\ plan = thread[t].plan
    OBVIOUS
  <1>5. /\ Listed(m) /\ HasFiles(m, fs) /\ Visible(p) = Content(m, fs) /\ Visible(p) \in Seq(Rows)
        /\ m \in [version : Nat, files : Seq(Nat), at : Seq(Nat), updated : Nat, signature : Schemas \cup {None}]
    BY <1>4, VisibleIs
  <1>6. IsInjective(m.files) /\ ToSet(m.files) \subseteq DOMAIN fs
    BY <1>4 DEF StoreInv, DiskInv
  <1>7. /\ ids \in Seq(Nat) /\ plan \in Seq(RowSeqs) /\ Len(ids) = Len(plan) /\ IsInjective(ids)
        /\ \A i \in DOMAIN plan : ids[i] \in DOMAIN fs /\ fs[ids[i]] = plan[i]
        /\ ToSet(ids) \cap ToSet(m.files) = {}
    BY <1>2, <1>3, <1>4 DEF Busy, WrittenFiles
  <1>8. PICK now \in Clock : manifest' = [manifest EXCEPT ![p] = NewManifest(t, now)]
    BY DEF ReplaceManifest
  <1>9. PICK c : c = CommittedAt(now, m)
    OBVIOUS
  <1>10. c \in Nat /\ c > 0 /\ \A i \in DOMAIN m.at : m.at[i] < c
    BY <1>5, <1>8, <1>9, CommittedAtIs, NumbersAssumption
  <1>11. PICK at : at = [i \in DOMAIN ids |-> c]
    OBVIOUS
  <1>12. at \in Seq(Nat) /\ Len(at) = Len(ids) /\ (\A i \in DOMAIN ids : at[i] = c) /\ DOMAIN at = DOMAIN ids
         /\ DOMAIN ids = 1 .. Len(ids) /\ Len(ids) \in Nat /\ DOMAIN plan = DOMAIN ids
    <2>1. DOMAIN ids = 1 .. Len(ids) /\ Len(ids) \in Nat /\ DOMAIN plan = 1 .. Len(plan)
      BY <1>7
    <2>2. at \in [1 .. Len(ids) -> Nat]
      BY <2>1, <1>10, <1>11
    <2>3. at \in Seq(Nat) /\ Len(at) = Len(ids)
      BY <2>1, <2>2, FunctionIsSequence
    <2> QED
      BY <2>1, <2>3, <1>7, <1>11
  <1>13. PICK n : n = [version |-> m.version + 1,
                       files |-> IF thread[t].keep THEN m.files \o ids ELSE ids,
                       at |-> IF thread[t].keep THEN m.at \o at ELSE at,
                       updated |-> c, signature |-> thread[t].signature]
    OBVIOUS
  <1>14. NewManifest(t, now) = n
    BY <1>4, <1>9, <1>11, <1>13 DEF NewManifest
  <1>15. n \in Manifests /\ n # None /\ n.version # 0 /\ n.updated = c /\ n.signature = thread[t].signature
    <2>1. m.version + 1 \in Nat /\ m.version + 1 # 0
      BY <1>5
    <2>2. (IF thread[t].keep THEN m.files \o ids ELSE ids) \in Seq(Nat)
      BY <1>5, <1>7
    <2>3. (IF thread[t].keep THEN m.at \o at ELSE at) \in Seq(Nat)
      BY <1>5, <1>12
    <2>4. thread[t].signature \in Schemas \cup {None}
      BY <1>2 DEF Busy
    <2>5. n \in Manifests
      BY <2>1, <2>2, <2>3, <2>4, <1>10, <1>13 DEF Manifests
    <2> QED
      BY <2>1, <2>5, <1>13, NoneAssumption
  <1>16. /\ manifest' \in [Partitions -> Manifests \cup {None}] /\ manifest'[p] = n
         /\ \A q \in Partitions : q # p => manifest'[q] = manifest[q]
    BY <1>8, <1>14, <1>15 DEF StoreInv, TypeInv
  <1>17. Current(p)' = n
    BY <1>15, <1>16 DEF Current
  <1>18. Visible(p)' = Content(n, fs)
    <2>1. files' = files
      BY DEF ReplaceManifest
    <2> QED
      BY <2>1, <1>4, <1>17 DEF Visible, Content
  <1>19. CASE thread[t].keep
    <2>1. NextTask(t).do \in {"append", "commit"} /\ buffer[p].rows # <<>> /\ plan = FlushPlan(buffer[p].rows)
      BY <1>3, <1>4, <1>19 DEF PlanInv
    <2>2. Len(plan) = 1 /\ plan[1] = Table!Sorted(buffer[p].rows)
      <3>1. buffer[p].rows \in Seq(Rows)
        BY DEF StoreInv, TypeInv
      <3> QED
        BY <2>1, <3>1, FlushPlanIs
    <2>3. PICK id : id = ids[1]
      OBVIOUS
    <2>4. id \in Nat /\ id \in DOMAIN fs /\ fs[id] = plan[1] /\ id \notin ToSet(m.files) /\ ids = <<id>> /\ at = <<c>>
      <3>1. 1 \in DOMAIN plan /\ 1 \in DOMAIN ids
        BY <2>2, <1>7, <1>12
      <3>2. ids = <<id>> /\ at = <<c>>
        BY <2>2, <2>3, <1>7, <1>12
      <3>3. id \in ToSet(ids)
        BY <2>3, <3>1 DEF ToSet
      <3> QED
        BY <2>3, <3>1, <3>2, <3>3, <1>7
    <2>5. n.files = Append(m.files, id) /\ n.at = Append(m.at, c)
      <3>1. n.files = m.files \o <<id>> /\ n.at = m.at \o <<c>>
        BY <2>4, <1>13, <1>19
      <3>2. m.files \in Seq(Nat) /\ m.at \in Seq(Nat)
        BY <1>5
      <3> QED
        BY <3>1, <3>2, <2>4, <1>10
    <2>6. Content(n, fs) = Content(m, fs) \o fs[id]
      <3>1. id \in Nat /\ c \in Nat /\ id \in DOMAIN fs
        BY <2>4, <1>10
      <3>2. Listed(m) /\ HasFiles(m, fs) /\ OneMore(n, m, id, c)
        BY <1>5, <1>10, <2>5 DEF OneMore
      <3> QED
        BY ONLY <3>1, <3>2, ContentAppend
    <2>7. Listed(n)
      BY <2>4, <2>5, <1>5, <1>10 DEF Listed
    <2>8. /\ DOMAIN m.files = 1 .. Len(m.files) /\ DOMAIN m.at = 1 .. Len(m.files) /\ Len(m.files) \in Nat
          /\ DOMAIN n.files = 1 .. Len(m.files) + 1 /\ DOMAIN n.at = 1 .. Len(m.files) + 1
          /\ \A i \in DOMAIN m.files : n.files[i] = m.files[i] /\ n.at[i] = m.at[i]
          /\ n.files[Len(m.files) + 1] = id /\ n.at[Len(m.files) + 1] = c
      BY <2>5, <1>5 DEF Listed
    <2>9. \A i \in DOMAIN n.files : i \in DOMAIN m.files \/ i = Len(m.files) + 1
      BY <2>8
    <2>10. \A i \in DOMAIN m.files : m.files[i] \in ToSet(m.files)
      BY DEF ToSet
    <2>11. IsInjective(n.files)
      BY <2>4, <2>8, <2>9, <2>10, <1>6 DEF IsInjective
    <2>12. ToSet(n.files) \subseteq DOMAIN fs
      <3>1. \A i \in DOMAIN n.files : n.files[i] \in DOMAIN fs
        BY <2>4, <2>8, <2>9, <2>10, <1>6
      <3> QED
        BY <3>1 DEF ToSet
    <2>13. \A i \in DOMAIN n.at : n.at[i] \in 1 .. c
      <3> TAKE i \in DOMAIN n.at
      <3>1. CASE i \in DOMAIN m.at
        <4>1. n.at[i] = m.at[i] /\ m.at[i] < c
          BY <3>1, <2>8, <1>10
        <4>2. m.at[i] \in 1 .. m.updated /\ m.updated \in Nat
          BY <3>1, <1>4, <1>5 DEF StoreInv, DiskInv
        <4> QED
          BY <4>1, <4>2, <1>10
      <3>2. CASE i \notin DOMAIN m.at
        BY <3>2, <2>8, <2>9, <1>10
      <3> QED
        BY <3>1, <3>2
    <2>14. thread[t].drops
      BY <1>1, <1>2, <1>19 DEF CommitInv
    <2>15. Visible(p)' = Visible(p) \o Table!Sorted(buffer[p].rows)
      BY <2>2, <2>4, <2>6, <1>5, <1>18
    <2> QED
      BY <2>7, <2>11, <2>12, <2>13, <2>14, <2>15, <1>4, <1>15, <1>16, <1>17, <1>19
  <1>20. CASE ~thread[t].keep
    <2>1. n.files = ids /\ n.at = at
      BY <1>13, <1>20
    <2>2. Listed(n)
      BY <2>1, <1>7, <1>12 DEF Listed
    <2>3. \A i, j \in DOMAIN n.at : n.at[i] = n.at[j]
      BY <2>1, <1>12
    <2>4. plan \in Seq(Seq(Rows))
      <3>1. RowSeqs \subseteq Seq(Rows)
        BY DEF RowSeqs
      <3>2. plan \in [1 .. Len(plan) -> Seq(Rows)] /\ Len(plan) \in Nat
        BY <3>1, <1>7
      <3> QED
        BY <3>2, FunctionIsSequence
    <2>5. Len(plan) = Len(n.files) /\ \A i \in DOMAIN plan : fs[n.files[i]] = plan[i]
      BY <2>1, <1>7
    <2>6. Content(n, fs) = FlattenSeq(plan)
      BY <2>2, <2>3, <2>4, <2>5, ContentTogether
    <2>7. ToSet(n.files) \subseteq DOMAIN fs
      BY <2>1, <1>7, <1>12 DEF ToSet
    <2>8. \A i \in DOMAIN n.at : n.at[i] \in 1 .. c
      BY <2>1, <1>10, <1>12
    <2>9. thread[t].drops => Visible(p)' = Table!Sorted(NextTask(t).rows)
      <3> SUFFICES ASSUME thread[t].drops PROVE Visible(p)' = Table!Sorted(NextTask(t).rows)
        OBVIOUS
      <3>1. plan = Chunks(Table!Sorted(NextTask(t).rows))
        BY <1>3, <1>4, <1>20 DEF PlanInv
      <3>2. Table!Sorted(NextTask(t).rows) \in Seq(Rows)
        BY <1>2, SortedKeeps DEF Tasks
      <3> QED
        BY <3>1, <3>2, <2>6, <1>18, ChunksAre
    <2>10. ~thread[t].drops => Visible(p)' = Table!Sorted(Table!Winners(Visible(p)))
      <3> SUFFICES ASSUME ~thread[t].drops PROVE Visible(p)' = Table!Sorted(Table!Winners(Visible(p)))
        OBVIOUS
      <3>1. plan = Chunks(Table!Sorted(Table!Winners(Visible(p))))
        BY <1>3, <1>4 DEF PlanInv
      <3>2. Table!Winners(Visible(p)) \in Seq(Rows)
        BY <1>5, WinnersAre
      <3>3. Table!Sorted(Table!Winners(Visible(p))) \in Seq(Rows)
        BY <3>2, SortedKeeps
      <3> QED
        BY <3>1, <3>3, <2>6, <1>18, ChunksAre
    <2>11. IsInjective(n.files)
      BY <2>1, <1>7
    <2> QED
      BY <2>2, <2>7, <2>8, <2>9, <2>10, <2>11, <1>4, <1>15, <1>16, <1>17, <1>20
  <1> QED
    BY <1>19, <1>20

LEMMA DiskIs ==
  ASSUME NEW p \in Partitions, NEW n, NEW v, Current(p)' = n, Visible(p)' = v,
         Listed(n), IsInjective(n.files), ToSet(n.files) \subseteq DOMAIN files'[p],
         \A i \in DOMAIN n.at : n.at[i] \in 1 .. n.updated,
         manifest'[p] # None => n.version # 0,
         n.signature # None => SameKeyOnce(v),
         ToSet(v) \subseteq 1 .. rows', ToSet(buffer'[p].rows) \subseteq 1 .. rows'
  PROVE  DiskInv(p)'
  BY DEF DiskInv, SameKeyOnce

LEMMA ReplaceManifestKeeps ==
  ASSUME StoreInv, NEW t \in Threads, ReplaceManifest(t)
  PROVE  StoreInv'
  <1>1. thread[t].at = "written" /\ thread[t].at \in Stages
    BY DEF ReplaceManifest, Is, Stages
  <1>2. /\ thread[t] # Idle /\ thread[t] \in Busy /\ NextTask(t) \in Tasks /\ NextTask(t).p \in Partitions
        /\ lock[NextTask(t).p] = t /\ CommitInv(t)
        /\ ToSet(NextTask(t).rows) \subseteq ToSet(thread[t].new) /\ ToSet(thread[t].new) \subseteq 1 .. rows
    BY <1>1, Holding
  <1>3. PICK p \in Partitions : p = NextTask(t).p
    BY <1>2
  <1>4. /\ manifest' \in [Partitions -> Manifests \cup {None}] /\ manifest'[p] # None
        /\ \A q \in Partitions : q # p => manifest'[q] = manifest[q]
        /\ Listed(Current(p)') /\ IsInjective(Current(p)'.files)
        /\ ToSet(Current(p)'.files) \subseteq DOMAIN files[p]
        /\ \A i \in DOMAIN Current(p)'.at : Current(p)'.at[i] \in 1 .. Current(p)'.updated
        /\ manifest'[p].version # 0 /\ Current(p)'.signature = thread[t].signature
    BY <1>3, CommitShows
  <1>5. /\ thread[t].keep => Visible(p)' = Visible(p) \o Table!Sorted(buffer[p].rows)
        /\ thread[t].drops /\ ~thread[t].keep => Visible(p)' = Table!Sorted(NextTask(t).rows)
        /\ ~thread[t].drops => Visible(p)' = Table!Sorted(Table!Winners(Visible(p)))
    BY <1>3, CommitShows
  <1>6. PICK w : w = [thread[t] EXCEPT !.at = "committed"]
    OBVIOUS
  <1>7. thread' = [thread EXCEPT ![t] = w] /\ UNCHANGED <<files, buffer, schema, closed, lock, rows, made>>
    BY <1>6 DEF ReplaceManifest, To, memory, bounds
  <1>8. /\ w \in Busy /\ w.at = "committed" /\ w.op = thread[t].op /\ w.todo = thread[t].todo
        /\ w.new = thread[t].new /\ w.schema = thread[t].schema /\ w.keep = thread[t].keep
        /\ w.drops = thread[t].drops /\ w.signature = thread[t].signature
    BY <1>2, <1>6 DEF Busy, Stages
  <1>9. TypeInv'
    <2>1. thread' \in [Threads -> {Idle} \cup Busy]
      BY <1>7, <1>8 DEF StoreInv, TypeInv
    <2> QED
      BY <2>1, <1>4, <1>7 DEF StoreInv, TypeInv
  <1>10. Visible(p) \in Seq(Rows) /\ buffer[p].rows \in Seq(Rows) /\ NextTask(t).rows \in Seq(Rows)
    BY <1>2, VisibleIs DEF StoreInv, TypeInv, Tasks
  <1>11. ToSet(Visible(p)) \subseteq Stored /\ ToSet(buffer[p].rows) \subseteq Stored
    BY DEF Stored
  <1>12. ToSet(Visible(p)') \subseteq ToSet(Visible(p)) \cup ToSet(buffer[p].rows) \cup ToSet(NextTask(t).rows)
    <2>1. CASE thread[t].keep
      <3>1. Table!Sorted(buffer[p].rows) \in Seq(Rows) /\ ToSet(Table!Sorted(buffer[p].rows)) = ToSet(buffer[p].rows)
        BY <1>10, SortedKeeps
      <3>2. PICK x, y, z : x = Visible(p) /\ y = Table!Sorted(buffer[p].rows) /\ z = Visible(p)'
        OBVIOUS
      <3>3. z = x \o y /\ x \in Seq(Rows) /\ y \in Seq(Rows)
        BY <2>1, <3>1, <3>2, <1>5, <1>10
      <3>4. ToSet(z) = ToSet(x) \cup ToSet(y)
        BY <3>3, JoinedIs
      <3> QED
        BY <3>1, <3>2, <3>4
    <2>2. CASE thread[t].drops /\ ~thread[t].keep
      BY <2>2, <1>5, <1>10, SortedKeeps
    <2>3. CASE ~thread[t].drops
      <3>1. Table!Winners(Visible(p)) \in Seq(Rows) /\ ToSet(Table!Winners(Visible(p))) \subseteq ToSet(Visible(p))
        BY <1>10, WinnersAre
      <3>2. ToSet(Table!Sorted(Table!Winners(Visible(p)))) = ToSet(Table!Winners(Visible(p)))
        BY <3>1, SortedKeeps
      <3> QED
        BY <2>3, <3>1, <3>2, <1>5
    <2> QED
      BY <2>1, <2>2, <2>3
  <1>13. StepOf(t) /\ \A q \in Partitions : q # p => SameAt(q) /\ Visible(q)' = Visible(q)
    <2>1. ToSet(Visible(p)') \subseteq Stored \cup Brings(t)
      BY <1>2, <1>11, <1>12 DEF Brings
    <2>2. PICK m, l, b, g : m = manifest'[p] /\ l = lock[p] /\ b = buffer[p] /\ g = files[p]
      OBVIOUS
    <2>3. manifest' = [manifest EXCEPT ![p] = m]
      <3>1. manifest \in [Partitions -> Manifests \cup {None}]
        BY DEF StoreInv, TypeInv
      <3> QED
        BY <3>1, <2>2, <1>4
    <2>4. lock' = [lock EXCEPT ![p] = l] /\ files' = [files EXCEPT ![p] = g]
          /\ buffer' = [buffer EXCEPT ![p] = b] /\ rows' = rows
      BY <2>2, <1>7 DEF StoreInv, TypeInv
    <2>5. l \in {t, None, lock[p]} /\ ToSet(b.rows) \subseteq ToSet(buffer[p].rows) /\ lock[p] \in {None, t}
      BY <2>2, <1>2, <1>3
    <2>6. thread[t] # Idle /\ thread' = [thread EXCEPT ![t] = w]
      BY <1>2, <1>7
    <2> QED
      BY <2>1, <2>3, <2>4, <2>5, <2>6, StepOnDisk
  <1>14. Current(p)'.signature # None => SameKeyOnce(Visible(p)')
    <2> SUFFICES ASSUME thread[t].signature # None PROVE SameKeyOnce(Visible(p)')
      BY <1>4
    <2>1. ~thread[t].drops
      BY <1>1, <1>2 DEF CommitInv
    <2>2. Table!Winners(Visible(p)) \in Seq(Rows) /\ SameKeyOnce(Table!Winners(Visible(p)))
      BY <1>10, WinnersAre
    <2>3. SameKeyOnce(Table!Sorted(Table!Winners(Visible(p))))
      BY <2>2, SortedKeeps
    <2> QED
      BY <2>1, <2>3, <1>5
  <1>15. DiskInv(p)'
    <2>1. ToSet(Visible(p)') \subseteq 1 .. rows /\ ToSet(buffer[p].rows) \subseteq 1 .. rows
      BY <1>2, <1>12 DEF StoreInv, DiskInv
    <2>2. PICK n, v : n = Current(p)' /\ v = Visible(p)'
      OBVIOUS
    <2>3. manifest'[p] # None => n.version # 0
      BY <1>4, <2>2 DEF Current
    <2> QED
      BY <2>1, <2>2, <2>3, <1>4, <1>7, <1>14, DiskIs
  <1>16. Stored' \subseteq Stored \cup ToSet(NextTask(t).rows)
    <2>1. \A q \in Partitions :
            ToSet(buffer'[q].rows) \cup ToSet(Visible(q)') \subseteq Stored \cup ToSet(NextTask(t).rows)
      <3> TAKE q \in Partitions
      <3>1. ToSet(buffer[q].rows) \cup ToSet(Visible(q)) \subseteq Stored
        BY DEF Stored
      <3>2. ToSet(Visible(q)') \subseteq Stored \cup ToSet(NextTask(t).rows)
        BY <3>1, <1>11, <1>12, <1>13
      <3> QED
        BY <3>1, <3>2, <1>7
    <2> QED
      BY <2>1 DEF Stored
  <1>17. thread'[t] = w /\ NextTask(t)' = NextTask(t)
    <2>1. thread'[t] = w
      BY <1>7 DEF StoreInv, TypeInv
    <2> QED
      BY <2>1, <1>8 DEF NextTask
  <1>18. CommitInv(t)'
    <2>1. manifest'[NextTask(t).p] # None
      BY <1>3, <1>4
    <2> QED
      BY <2>1, <1>1, <1>2, <1>8, <1>17 DEF CommitInv
  <1> QED
    BY <1>1, <1>7, <1>8, <1>9, <1>13, <1>15, <1>16, <1>18, StageKeeps DEF Stages

\* The only file of a partition has no key twice, and the manifest is signed.
LEMMA SignOnlyKeeps ==
  ASSUME StoreInv, NEW t \in Threads, SignOnly(t)
  PROVE  /\ StoreInv'
         /\ \A q \in Partitions : Visible(q)' = Visible(q)
  <1>1. /\ thread[t].at = "ready" /\ thread[t] # Idle /\ thread[t] \in Busy /\ NextTask(t).do = "compact"
        /\ NextTask(t).p \in Partitions /\ thread[t].at \notin Stages
    BY DoingIs DEF SignOnly, OnPartition, Stages
  <1>2. PICK p \in Partitions : p = NextTask(t).p
    BY <1>1
  <1>3. PICK n : n = [manifest[p] EXCEPT !.signature = thread[t].schema]
    OBVIOUS
  <1>4. PICK ts, w : ts = Rest(t) /\ w = With(t, ts)
    OBVIOUS
  <1>5. /\ manifest' = [manifest EXCEPT ![p] = n] /\ thread' = [thread EXCEPT ![t] = w]
        /\ UNCHANGED <<files, buffer, schema, closed, lock, rows, made>> /\ lock[p] = None
        /\ Current(p).files # <<>> /\ Unrepeated(p)
    BY <1>2, <1>3, <1>4 DEF SignOnly, Continue, memory, bounds
  <1>6. manifest[p] \in Manifests /\ Current(p) = manifest[p]
    BY <1>5 DEF StoreInv, TypeInv, Current, NoManifest
  <1>7. /\ n \in Manifests /\ n # None /\ n.files = manifest[p].files /\ n.at = manifest[p].at
        /\ n.version = manifest[p].version /\ n.updated = manifest[p].updated
    <2>1. thread[t].schema \in Schemas \cup {None}
      BY <1>1 DEF Busy
    <2>2. n \in Manifests /\ n.files = manifest[p].files /\ n.at = manifest[p].at
          /\ n.version = manifest[p].version /\ n.updated = manifest[p].updated
      BY <2>1, <1>3, <1>6 DEF Manifests
    <2> QED
      BY <2>2, NoneAssumption
  <1>8. /\ manifest' \in [Partitions -> Manifests \cup {None}] /\ manifest'[p] = n /\ Current(p)' = n
        /\ \A q \in Partitions : q # p => manifest'[q] = manifest[q]
    <2>1. manifest \in [Partitions -> Manifests \cup {None}]
      BY DEF StoreInv, TypeInv
    <2>2. manifest' \in [Partitions -> Manifests \cup {None}] /\ manifest'[p] = n
          /\ \A q \in Partitions : q # p => manifest'[q] = manifest[q]
      BY <2>1, <1>5, <1>7
    <2> QED
      BY <2>2, <1>7 DEF Current
  <1>9. Visible(p)' = Visible(p)
    <2>1. files'[p] \in [DOMAIN files'[p] -> RowSeqs]
      BY <1>5 DEF StoreInv, TypeInv
    <2>2. \A f \in ToSet(Current(p).files) : f \in DOMAIN files'[p] /\ files'[p][f] = files[p][f]
      BY <1>5 DEF StoreInv, DiskInv
    <2> QED
      BY <2>1, <2>2, <1>6, <1>7, <1>8, VisibleSame
  <1>10. SameKeyOnce(Visible(p))
    <2>1. Visible(p) \in Seq(Rows)
      BY VisibleIs
    <2> QED
      BY <2>1, <1>5, WinnersAre DEF Unrepeated
  <1>11. StepOf(t) /\ \A q \in Partitions : q # p => SameAt(q) /\ Visible(q)' = Visible(q)
    <2>1. ToSet(Visible(p)') \subseteq Stored \cup Brings(t)
      BY <1>9 DEF Stored
    <2>2. PICK l, b, g : l = lock[p] /\ b = buffer[p] /\ g = files[p]
      OBVIOUS
    <2>3. lock' = [lock EXCEPT ![p] = l] /\ files' = [files EXCEPT ![p] = g]
          /\ buffer' = [buffer EXCEPT ![p] = b] /\ rows' = rows
      BY <2>2, <1>5 DEF StoreInv, TypeInv
    <2>4. l \in {t, None, lock[p]} /\ ToSet(b.rows) \subseteq ToSet(buffer[p].rows) /\ lock[p] \in {None, t}
      BY <2>2, <1>5
    <2>5. thread[t] # Idle /\ thread' = [thread EXCEPT ![t] = w] /\ manifest' = [manifest EXCEPT ![p] = n]
      BY <1>1, <1>5
    <2> QED
      BY <2>1, <2>3, <2>4, <2>5, StepOnDisk
  <1>12. DiskInv(p)'
    <2>1. DiskInv(p)
      BY DEF StoreInv
    <2>2. PICK v : v = Visible(p)
      OBVIOUS
    <2>3. Listed(n) /\ IsInjective(n.files) /\ ToSet(n.files) \subseteq DOMAIN files'[p]
      BY <2>1, <1>5, <1>6, <1>7 DEF DiskInv, Listed
    <2>4. (\A i \in DOMAIN n.at : n.at[i] \in 1 .. n.updated) /\ n.version # 0
      BY <2>1, <1>6, <1>7, <1>5 DEF DiskInv, Current, NoManifest
    <2>5. SameKeyOnce(v) /\ ToSet(v) \subseteq 1 .. rows' /\ ToSet(buffer'[p].rows) \subseteq 1 .. rows'
      BY <2>1, <2>2, <1>5, <1>10 DEF DiskInv
    <2>6. Visible(p)' = v
      BY <2>2, <1>9
    <2> QED
      BY <2>3, <2>4, <2>5, <2>6, <1>8, DiskIs
  <1>13. ts \in Seq(Tasks) /\ GoesTo(w, t, ts)
    <2>1. ts \in Seq(Tasks)
      BY <1>1, <1>4, RestIs
    <2> QED
      BY <2>1, <1>1, <1>4, WithIs DEF StoreInv
  <1>14. TypeInv'
    <2>1. w \in {Idle} \cup Busy
      BY <1>13 DEF GoesTo
    <2>2. thread' \in [Threads -> {Idle} \cup Busy]
      BY <2>1, <1>5 DEF StoreInv, TypeInv
    <2> QED
      BY <2>2, <1>5, <1>8 DEF StoreInv, TypeInv
  <1>15. Stored' = Stored
    BY <1>5, <1>9, <1>11 DEF Stored
  <1>16. \A q \in Partitions : lock'[q] # t
    BY <1>1, <1>5, HoldsNothing
  <1>17. ts # <<>> =>
            /\ GoodTasks(thread[t].op, ts, thread[t].new)
            /\ \A i \in DOMAIN ts : ToSet(ts[i].rows) \cap Stored' = {}
    BY <1>1, <1>4, <1>15, RestIs
  <1>18. thread[t].op = "write" =>
            \A q \in Partitions :
              \/ ToSet(thread[t].new) \cap ToSet(buffer'[q].rows) = {}
              \/ \E i \in DOMAIN ts : ts[i].do = "flush" \/ (ts[i].do = "commit" /\ ts[i].p = q)
    <2>1. thread[t].op = "write" =>
            \A pp \in Partitions :
              NextTask(t).do # "flush" /\ ~(NextTask(t).do = "commit" /\ NextTask(t).p = pp) =>
                \/ ToSet(thread[t].new) \cap ToSet(buffer[pp].rows) = {}
                \/ \E i \in DOMAIN Rest(t) :
                     Rest(t)[i].do = "flush" \/ (Rest(t)[i].do = "commit" /\ Rest(t)[i].p = pp)
      BY <1>1, RestIs
    <2>2. NextTask(t).do # "flush" /\ NextTask(t).do # "commit" /\ buffer' = buffer
      BY <1>1, <1>5
    <2> QED
      BY ONLY <2>1, <2>2, <1>4
  <1>19. StoreInv'
    BY <1>1, <1>5, <1>11, <1>12, <1>13, <1>14, <1>16, <1>17, <1>18, TurnKeeps
  <1> QED
    BY <1>9, <1>11, <1>19

-----------------------------------------------------------------------------
(* Errors, crashes and restarts. *)

LEMMA CommitFailsKeeps ==
  ASSUME StoreInv, NEW t \in Threads, CommitFails(t)
  PROVE  /\ StoreInv'
         /\ \A q \in Partitions : Visible(q)' = Visible(q)
  <1>1. thread[t].at \in {"writing", "written"} /\ thread[t].at \in Stages
    BY DEF CommitFails, Stages
  <1>2. /\ thread[t] # Idle /\ thread[t] \in Busy /\ NextTask(t).p \in Partitions /\ lock[NextTask(t).p] = t
        /\ CommitInv(t) /\ NextTask(t).do \in OnPartition
    BY <1>1, Holding
  <1>3. PICK p \in Partitions : p = NextTask(t).p
    BY <1>2
  <1>4. PICK K, g : K = DOMAIN files[p] \ ToSet(thread[t].ids) /\ g = Only(files[p], K)
    OBVIOUS
  <1>5. PICK w : w = Idle
    OBVIOUS
  <1>6. /\ files' = [files EXCEPT ![p] = g] /\ lock' = [lock EXCEPT ![p] = None] /\ thread' = [thread EXCEPT ![t] = w]
        /\ UNCHANGED <<manifest, buffer, schema, closed, made, rows>>
    <2>1. files' = [files EXCEPT ![p] = g]
      BY <1>3, <1>4 DEF CommitFails
    <2> QED
      BY <2>1, <1>3, <1>5 DEF CommitFails, Unlocked, Raise, memory
  <1>7. ToSet(Current(p).files) \subseteq K
    <2>1. ToSet(Current(p).files) \subseteq DOMAIN files[p]
      BY DEF StoreInv, DiskInv
    <2>2. ToSet(thread[t].ids) \cap ToSet(Current(p).files) = {}
      <3>1. CASE thread[t].at = "writing"
        <4>1. thread[t].ids = <<>>
          BY <3>1, <1>1, <1>2 DEF CommitInv
        <4> QED
          BY <4>1 DEF ToSet
      <3>2. CASE thread[t].at = "written"
        BY <3>2, <1>1, <1>2, <1>3 DEF CommitInv, WrittenFiles
      <3> QED
        BY <3>1, <3>2, <1>1
    <2> QED
      BY <2>1, <2>2, <1>4
  <1>8. /\ DOMAIN files' = Partitions /\ files' = [q \in Partitions |-> files'[q]]
        /\ \A q \in Partitions : files'[q] \in [DOMAIN files'[q] -> RowSeqs] /\ DOMAIN files'[q] \subseteq 1 .. made'
        /\ Visible(p)' = Visible(p) /\ Current(p)' = Current(p) /\ ToSet(Current(p).files) \subseteq DOMAIN files'[p]
    BY <1>4, <1>6, <1>7, FilesRemoved
  <1>9. <<>> \in Seq(Tasks) /\ GoesTo(w, t, <<>>)
    BY <1>5 DEF GoesTo
  <1>10. TypeInv'
    <2>1. thread' \in [Threads -> {Idle} \cup Busy]
      BY <1>5, <1>6 DEF StoreInv, TypeInv
    <2>2. lock' \in [Partitions -> Threads \cup {None}]
      BY <1>6, LocksTyped
    <2> QED
      BY <2>1, <2>2, <1>6, <1>8 DEF StoreInv, TypeInv
  <1>11. StepOf(t) /\ \A q \in Partitions : q # p => SameAt(q) /\ Visible(q)' = Visible(q)
    <2>1. ToSet(Visible(p)') \subseteq Stored \cup Brings(t)
      BY <1>8 DEF Stored
    <2>2. PICK m, l, b : m = manifest[p] /\ l = None /\ b = buffer[p]
      OBVIOUS
    <2>3. manifest' = [manifest EXCEPT ![p] = m] /\ lock' = [lock EXCEPT ![p] = l]
          /\ buffer' = [buffer EXCEPT ![p] = b] /\ rows' = rows
      BY <2>2, <1>6 DEF StoreInv, TypeInv
    <2>4. l \in {t, None, lock[p]} /\ ToSet(b.rows) \subseteq ToSet(buffer[p].rows) /\ lock[p] \in {None, t}
      BY <2>2, <1>2, <1>3
    <2>5. thread[t] # Idle /\ thread' = [thread EXCEPT ![t] = w] /\ files' = [files EXCEPT ![p] = g]
      BY <1>2, <1>6
    <2> QED
      BY <2>1, <2>3, <2>4, <2>5, StepOnDisk
  <1>12. DiskInv(p)'
    <2>1. DiskInv(p)
      BY DEF StoreInv
    <2> QED
      BY <2>1, <1>6, <1>8 DEF DiskInv
  <1>13. \A q \in Partitions : lock'[q] # t
    <2>1. \A q \in Partitions : lock[q] = t => q = p
      BY <1>3, NoneAssumption DEF StoreInv, LockInv
    <2> QED
      BY <2>1, <1>6, NoneAssumption DEF StoreInv, TypeInv
  <1>14. StoreInv'
    BY <1>2, <1>6, <1>9, <1>10, <1>11, <1>12, <1>13, TurnKeeps
  <1> QED
    BY <1>8, <1>11, <1>14

\* A new instance has no buffer, no locks and no calls.
LEMMA NewInstanceKeeps ==
  ASSUME StoreInv, NewInstance
  PROVE  /\ StoreInv'
         /\ \A q \in Partitions : Visible(q)' = Visible(q)
  <1>1. /\ buffer' = [p \in Partitions |-> Empty] /\ closed' = FALSE /\ lock' = [p \in Partitions |-> None]
        /\ thread' = [t \in Threads |-> Idle] /\ UNCHANGED <<manifest, files, schema, made, rows>>
    BY DEF NewInstance, disk
  <1>2. \A t \in Threads : thread'[t] = Idle /\ thread'[t].at \notin Stages
    BY <1>1 DEF Idle, Stages
  <1>3. \A p \in Partitions : lock'[p] = None /\ buffer'[p] = Empty
    BY <1>1
  <1>4. \A p \in Partitions : Visible(p)' = Visible(p) /\ Current(p)' = Current(p)
    BY <1>1 DEF Visible, Current
  <1>5. Empty \in [rows : Seq(Rows), schemas : SUBSET Schemas] /\ ToSet(Empty.rows) = {}
    BY DEF Empty, ToSet
  <1>6. TypeInv'
    BY <1>1, <1>5 DEF StoreInv, TypeInv
  <1>7. NewInv'
    BY <1>2 DEF NewInv
  <1>8. ASSUME NEW t \in Threads PROVE ThreadInv(t)' /\ CommitInv(t)' /\ FreshInv(t)' /\ WriteInv(t)'
    BY <1>2 DEF ThreadInv, CommitInv, FreshInv, WriteInv
  <1>9. ASSUME NEW p \in Partitions PROVE LockInv(p)' /\ DiskInv(p)'
    <2>1. DiskInv(p)
      BY DEF StoreInv
    <2>2. DiskInv(p)'
      BY <2>1, <1>1, <1>3, <1>4, <1>5 DEF DiskInv
    <2> QED
      BY <2>2, <1>3 DEF LockInv
  <1>10. StoreInv'
    BY <1>6, <1>7, <1>8, <1>9 DEF StoreInv
  <1> QED
    BY <1>4, <1>10

-----------------------------------------------------------------------------
(* Calls. *)

LEMMA FreshIs ==
  ASSUME TypeInv, NEW n \in {0} \cup Available
  PROVE  /\ Fresh(n) \in Seq(Rows) /\ Len(Fresh(n)) = n /\ ToSet(Fresh(n)) = rows + 1 .. rows + n
         /\ n \in Nat /\ rows + n \in 0 .. Len(KeyOf)
  <1> PICK N : N = Len(KeyOf)
    OBVIOUS
  <1>1. Cardinality(Rows) = N /\ Rows = 1 .. N /\ rows \in 0 .. N /\ N \in Nat
    <2>1. N \in Nat /\ Rows = 1 .. N
      BY RowsAre
    <2>2. Cardinality(1 .. N) = N
      <3>1. 1 \in Int /\ N \in Int
        BY <2>1
      <3>2. Cardinality(1 .. N) = IF 1 > N THEN 0 ELSE N - 1 + 1
        BY ONLY <3>1, FS_Interval
      <3> QED
        BY <2>1, <3>2
    <2> QED
      BY <2>1, <2>2 DEF TypeInv
  <1>2. n \in Nat /\ rows + n \in 0 .. N
    BY <1>1 DEF Available
  <1>3. CASE n = 0
    <2>1. Fresh(n) = <<>>
      BY <1>1, <1>3 DEF Fresh, Run
    <2> QED
      BY <2>1, <1>1, <1>2, <1>3 DEF ToSet
  <1>4. CASE n # 0
    <2> PICK a, b : a = rows + 1 /\ b = rows + n
      OBVIOUS
    <2>1. a \in Rows /\ b \in Rows \cup {a - 1} /\ a - 1 <= b /\ b - a + 1 = n
      BY <1>1, <1>2, <1>4, RowsAre
    <2>2. Run(a, b) \in Seq(Rows) /\ Len(Run(a, b)) = b - a + 1 /\ ToSet(Run(a, b)) = a .. b
      BY <2>1, RunIs
    <2> QED
      BY <2>1, <2>2, <1>2 DEF Fresh
  <1> QED
    BY <1>3, <1>4

LEMMA CallKeeps ==
  ASSUME StoreInv, NEW t \in Threads, NEW op \in Ops, NEW ts \in Seq(Tasks), NEW n \in {0} \cup Available,
         Call(t, op, ts, n), GoodTasks(op, ts, Fresh(n)), op = "update_schema" => schema + 1 \in Schemas
  PROVE  StoreInv'
  <1>1. thread[t] = Idle /\ thread[t].at \notin Stages
    BY DEF Call, Idle, Stages
  <1>2. PICK new : new = Fresh(n)
    OBVIOUS
  <1>3. new \in Seq(Rows) /\ ToSet(new) = rows + 1 .. rows + n /\ n \in Nat /\ rows + n \in 0 .. Len(KeyOf)
    BY <1>2, FreshIs DEF StoreInv
  <1>4. PICK w : w = [at |-> "ready", op |-> op, todo |-> ts, schema |-> schema, new |-> new, plan |-> <<>>,
                      ids |-> <<>>, keep |-> FALSE, drops |-> FALSE, signature |-> None]
    OBVIOUS
  <1>5. w \in Busy /\ w.at = "ready" /\ w.op = op /\ w.todo = ts /\ w.new = new /\ w.schema = schema
    BY <1>3, <1>4 DEF Busy, StoreInv, TypeInv
  <1>6. /\ thread' = [thread EXCEPT ![t] = w] /\ rows' = rows + n
        /\ UNCHANGED <<manifest, files, buffer, schema, closed, lock, made>>
    BY <1>2, <1>4 DEF Call, Fresh, disk, memory
  <1>7. rows \in Nat /\ rows' \in Nat /\ rows <= rows' /\ rows' \in 0 .. Len(KeyOf)
    BY <1>3, <1>6 DEF StoreInv, TypeInv
  <1>8. thread'[t] = w /\ \A u \in Threads \ {t} : thread'[u] = thread[u]
    BY <1>6 DEF StoreInv, TypeInv
  <1>9. TypeInv'
    <2>1. thread' \in [Threads -> {Idle} \cup Busy]
      BY <1>5, <1>6 DEF StoreInv, TypeInv
    <2> QED
      BY <2>1, <1>6, <1>7 DEF StoreInv, TypeInv
  <1>10. Stored' = Stored
    <2>1. \A p \in Partitions : Visible(p)' = Visible(p)
      BY <1>6 DEF Visible, Current
    <2> QED
      BY <2>1, <1>6 DEF Stored
  <1>11. StepOf(t)
    BY <1>6, <1>7, <1>8, <1>10 DEF StepOf
  <1>12. ToSet(new) \cap Stored = {}
    <2>1. Stored \subseteq 1 .. rows
      BY DEF StoreInv, DiskInv, Stored
    <2> QED
      BY <2>1, <1>3, <1>7
  <1>13. \A p \in Partitions : lock'[p] # t
    BY <1>1, <1>6, HoldsNothing
  <1>14. ThreadInv(t)'
    <2>1. ToSet(new) \subseteq 1 .. rows'
      BY <1>3, <1>6, <1>7
    <2> QED
      BY <2>1, <1>2, <1>5, <1>6, <1>8 DEF ThreadInv, Stages
  <1>15. CommitInv(t)'
    BY <1>5, <1>8 DEF CommitInv, Stages
  <1>16. FreshInv(t)'
    <2>1. \A i \in DOMAIN ts : ToSet(ts[i].rows) \subseteq ToSet(new)
      BY <1>2 DEF GoodTasks
    <2>2. \A i \in DOMAIN ts : ToSet(ts[i].rows) \cap Stored' = {}
      BY <2>1, <1>10, <1>12
    <2> QED
      BY <2>2, <1>5, <1>8 DEF FreshInv
  <1>17. WriteInv(t)'
    <2>1. \A p \in Partitions : ToSet(new) \cap ToSet(buffer'[p].rows) = {}
      BY <1>6, <1>12 DEF Stored
    <2> QED
      BY <2>1, <1>5, <1>8 DEF WriteInv
  <1>18. thread'[t] # Idle => ToSet(thread'[t].new) \subseteq Brings(t) \cup (rows + 1 .. rows')
    BY <1>3, <1>5, <1>6, <1>8
  <1>19. \A p \in Partitions : SameAt(p)
    BY <1>6 DEF SameAt
  <1> QED
    BY <1>9, <1>11, <1>13, <1>14, <1>15, <1>16, <1>17, <1>18, <1>19, StepKeeps

\* Groups of appended rows, each row in one of them.
Appends(g, new) ==
  /\ g # <<>>
  /\ \A i \in DOMAIN g :
       /\ g[i].do = "append" /\ g[i].p \in Partitions /\ g[i].rows \in Inputs
       /\ ToSet(g[i].rows) \subseteq ToSet(new)
  /\ \A i, j \in DOMAIN g : i # j => ToSet(g[i].rows) \cap ToSet(g[j].rows) = {}

LEMMA FreshInputs ==
  ASSUME TypeInv, NEW n \in Available, NEW p \in Partitions
  PROVE  InPartition(p, Fresh(n)) \in Inputs
  <1>1. n \in Nat /\ rows \in Nat /\ rows + n \in 0 .. Len(KeyOf) /\ n >= 1
    BY FreshIs DEF TypeInv, Available
  <1>2. rows + 1 \in Rows /\ rows + n \in Rows
    BY <1>1, RowsAre
  <1>3. \E a, b \in Rows : InPartition(p, Fresh(n)) = InPartition(p, Run(a, b))
    BY <1>2 DEF Fresh
  <1> QED
    BY <1>3 DEF Inputs

LEMMA GroupsOfFresh ==
  ASSUME TypeInv, NEW n \in Available
  PROVE  Groups("append", Fresh(n)) \in Seq(Tasks) /\ Appends(Groups("append", Fresh(n)), Fresh(n))
  <1>1. PICK f, g : f = Fresh(n) /\ g = Groups("append", f)
    OBVIOUS
  <1>2. f \in Seq(Rows) /\ f # <<>>
    <2>1. Fresh(n) \in Seq(Rows) /\ Len(Fresh(n)) = n /\ n \in Nat
      BY FreshIs
    <2>2. n # 0
      BY <2>1 DEF Available
    <2> QED
      BY <2>1, <2>2, <1>1
  <1>3. /\ g \in Seq(Tasks) /\ g # <<>>
        /\ \A i \in DOMAIN g : g[i].do = "append" /\ g[i].p \in Partitions /\ g[i].rows = InPartition(g[i].p, f)
        /\ \A i, j \in DOMAIN g : g[i].p = g[j].p => i = j
    <2>1. "append" \in Dos
      BY DEF Dos
    <2> QED
      BY <1>1, <1>2, <2>1, GroupsAre
  <1>4. \A p \in Partitions : ToSet(InPartition(p, f)) = {r \in ToSet(f) : PartitionOf[r] = p}
    BY <1>2, InPartitionIs
  <1>5. \A i \in DOMAIN g : g[i].rows \in Inputs
    BY <1>1, <1>3, FreshInputs
  <1>6. \A i \in DOMAIN g : ToSet(g[i].rows) = {r \in ToSet(f) : PartitionOf[r] = g[i].p}
    BY <1>3, <1>4
  <1>7. \A i, j \in DOMAIN g : i # j => ToSet(g[i].rows) \cap ToSet(g[j].rows) = {}
    <2> SUFFICES ASSUME NEW i \in DOMAIN g, NEW j \in DOMAIN g, NEW r, r \in ToSet(g[i].rows), r \in ToSet(g[j].rows)
                 PROVE  i = j
      OBVIOUS
    <2>1. PartitionOf[r] = g[i].p /\ PartitionOf[r] = g[j].p
      BY <1>6
    <2> QED
      BY <2>1, <1>3
  <1>8. Appends(g, f)
    BY <1>3, <1>5, <1>6, <1>7 DEF Appends
  <1> QED
    BY <1>1, <1>3, <1>8

LEMMA AppendsAreGood ==
  ASSUME NEW g, NEW new, Appends(g, new)
  PROVE  GoodTasks("append", g, new)
  BY DEF Appends, GoodTasks, OnPartition, Bringing

\* What a write does after it has appended.
Settles(s) ==
  /\ s # <<>> /\ s[1].do = "flush"
  /\ \A i \in DOMAIN s :
       /\ s[i].do \in {"flush", "compact"} /\ s[i].rows = <<>>
       /\ s[i].do = "compact" => s[i].p \in Partitions

LEMMA WriteIsGood ==
  ASSUME NEW g \in Seq(Tasks), NEW s \in Seq(Tasks), NEW new, Appends(g, new), Settles(s), NEW q, q = g \o s
  PROVE  q \in Seq(Tasks) /\ GoodTasks("write", q, new)
  <1>1. PICK k, l : k = Len(g) /\ l = Len(s)
    OBVIOUS
  <1>2. /\ q \in Seq(Tasks) /\ k \in Nat /\ l \in Nat /\ l # 0 /\ DOMAIN q = 1 .. k + l
        /\ DOMAIN g = 1 .. k /\ DOMAIN s = 1 .. l
        /\ \A i \in 1 .. k : q[i] = g[i]
        /\ \A i \in 1 .. l : q[k + i] = s[i]
    BY <1>1 DEF Settles
  <1>3. \A i \in DOMAIN q : i \notin 1 .. k => i - k \in 1 .. l /\ q[i] = s[i - k]
    <2> SUFFICES ASSUME NEW i \in DOMAIN q, i \notin 1 .. k PROVE i - k \in 1 .. l /\ q[i] = s[i - k]
      OBVIOUS
    <2>1. i - k \in 1 .. l /\ k + (i - k) = i
      BY <1>2
    <2> QED
      BY <2>1, <1>2
  <1>4. \A i \in 1 .. k : /\ q[i].do = "append" /\ q[i].p \in Partitions /\ q[i].rows \in Inputs
                          /\ ToSet(q[i].rows) \subseteq ToSet(new)
    BY <1>2 DEF Appends
  <1>5. \A i \in DOMAIN q : i \notin 1 .. k =>
          /\ q[i].do \in {"flush", "compact"} /\ q[i].rows = <<>> /\ ToSet(q[i].rows) = {}
          /\ q[i].do = "compact" => q[i].p \in Partitions
    BY <1>2, <1>3 DEF Settles, ToSet
  <1>6. \A i, j \in DOMAIN q : i # j => ToSet(q[i].rows) \cap ToSet(q[j].rows) = {}
    <2>1. \A i, j \in 1 .. k : i # j => ToSet(q[i].rows) \cap ToSet(q[j].rows) = {}
      BY <1>2 DEF Appends
    <2> QED
      BY <2>1, <1>5
  <1>7. \A i \in DOMAIN q : q[i].do = "append" => \E j \in DOMAIN q : i < j /\ q[j].do = "flush"
    <2>1. k + 1 \in DOMAIN q /\ q[k + 1].do = "flush"
      BY <1>2 DEF Settles
    <2>2. \A i \in DOMAIN q : q[i].do = "append" => i < k + 1
      <3> SUFFICES ASSUME NEW i \in DOMAIN q, q[i].do = "append" PROVE i \in 1 .. k
        BY <1>2
      <3> QED
        BY <1>5
    <2> QED
      BY <2>1, <2>2
  <1>8. q # <<>>
    BY <1>2
  <1>9. \A i \in DOMAIN q :
       /\ q[i].do \in OnPartition => q[i].p \in Partitions
       /\ q[i].do \in Bringing => q[i].rows \in Inputs
       /\ q[i].do \notin Bringing => q[i].rows = <<>>
       /\ q[i].do \notin {"configure", "scan"} /\ q[i].do \in {"append", "flush", "commit", "compact"}
       /\ ToSet(q[i].rows) \subseteq ToSet(new)
    BY <1>4, <1>5 DEF OnPartition, Bringing
  <1> QED
    BY <1>2, <1>6, <1>7, <1>8, <1>9 DEF GoodTasks

LEMMA OneTask ==
  ASSUME NEW do \in Dos, NEW p \in Partitions \cup {0}, NEW rs \in Seq(Rows), NEW q, q = <<Task(do, p, rs)>>
  PROVE  /\ q \in Seq(Tasks) /\ q # <<>> /\ DOMAIN q = {1} /\ q[1].do = do /\ q[1].p = p /\ q[1].rows = rs
  <1>1. Task(do, p, rs) \in Tasks
    BY DEF Task, Tasks
  <1>2. Task(do, p, rs).do = do /\ Task(do, p, rs).p = p /\ Task(do, p, rs).rows = rs
    BY DEF Task
  <1>3. PICK a : a = Task(do, p, rs)
    OBVIOUS
  <1>4. q = <<a>>
    BY <1>3
  <1> QED
    BY <1>1, <1>2, <1>3, <1>4

\* The tasks of a call that brings no rows.
Rowless(op, ts) ==
  /\ op \in Ops /\ op # "write" /\ ts \in Seq(Tasks) /\ ts # <<>>
  /\ \A i \in DOMAIN ts :
       /\ ts[i].do \notin Bringing /\ ts[i].rows = <<>>
       /\ ts[i].do \in OnPartition => ts[i].p \in Partitions
       /\ ts[i].do = "configure" => op = "update_schema"
       /\ ts[i].do = "scan" => op # "update_schema"

LEMMA RowlessCallKeeps ==
  ASSUME StoreInv, NEW t \in Threads, NEW op, NEW ts, Rowless(op, ts),
         Call(t, op, ts, 0), op = "update_schema" => schema + 1 \in Schemas
  PROVE  StoreInv'
  <1>1. \A i \in DOMAIN ts : ToSet(ts[i].rows) = {}
    BY DEF ToSet, Rowless
  <1>2. GoodTasks(op, ts, Fresh(0))
    BY <1>1 DEF GoodTasks, Rowless
  <1>3. 0 \in {0} \cup Available /\ op \in Ops /\ ts \in Seq(Tasks)
    BY DEF Rowless
  <1> QED
    BY <1>2, <1>3, CallKeeps

LEMMA OneRowless ==
  ASSUME NEW op \in Ops, op # "write", NEW do \in {"flush", "compact"}, NEW p \in Partitions \cup {0},
         do = "compact" => p \in Partitions
  PROVE  Rowless(op, <<Task(do, p, <<>>)>>)
  <1>1. PICK a, q : a = Task(do, p, <<>>) /\ q = <<a>>
    OBVIOUS
  <1>2. a \in Tasks /\ a.do = do /\ a.p = p /\ a.rows = <<>>
    BY <1>1 DEF Task, Tasks, Dos
  <1> HIDE DEF Tasks
  <1>3. q \in Seq(Tasks) /\ q # <<>> /\ DOMAIN q = {1} /\ q[1] = a
    BY <1>1, <1>2
  <1>4. Rowless(op, q)
    BY <1>2, <1>3 DEF Rowless, Bringing, OnPartition
  <1> QED
    BY <1>1, <1>4

LEMMA TwoRowless ==
  ASSUME NEW op \in Ops, op # "write", NEW do \in {"scan", "configure", "close"},
         do = "configure" => op = "update_schema", do = "scan" => op # "update_schema"
  PROVE  Rowless(op, Simply("flush") \o Simply(do))
  <1>1. PICK a, b, q : a = Task("flush", 0, <<>>) /\ b = Task(do, 0, <<>>) /\ q = Simply("flush") \o Simply(do)
    OBVIOUS
  <1>2. a \in Tasks /\ b \in Tasks /\ a.do = "flush" /\ b.do = do /\ a.rows = <<>> /\ b.rows = <<>>
    BY <1>1 DEF Task, Tasks, Dos
  <1>3. q = <<a>> \o <<b>> /\ <<a>> \in Seq(Tasks) /\ <<b>> \in Seq(Tasks)
    BY <1>1, <1>2 DEF Simply
  <1> HIDE DEF Tasks
  <1>4. q \in Seq(Tasks) /\ Len(q) = 2 /\ DOMAIN q = 1 .. 2 /\ q[1] = a /\ q[2] = b
    BY <1>3
  <1>5. \A i \in DOMAIN q : q[i] = a \/ q[i] = b
    BY <1>4
  <1>7. q # <<>>
    <2>1. 1 \in DOMAIN q
      BY <1>4
    <2> QED
      BY <2>1
  <1>6. Rowless(op, q)
    BY <1>2, <1>4, <1>5, <1>7 DEF Rowless, Bringing, OnPartition
  <1> QED
    BY <1>1, <1>6

LEMMA RowlessCallsKeep ==
  ASSUME StoreInv, NEW t \in Threads,
         \/ CallFlush(t) \/ CallCompactPartition(t) \/ CallCompactTable(t) \/ CallUpdateSchema(t) \/ CallClose(t)
  PROVE  StoreInv'
  <1>1. CASE CallFlush(t)
    <2>1. PICK op, ts : op = "flush" /\ ts = Simply("flush")
      OBVIOUS
    <2>2. Rowless(op, ts)
      <3>1. "flush" \in Ops /\ 0 \in Partitions \cup {0}
        BY DEF Ops
      <3>2. Rowless("flush", <<Task("flush", 0, <<>>)>>)
        BY <3>1, OneRowless
      <3> QED
        BY <2>1, <3>2 DEF Simply
    <2>3. Call(t, op, ts, 0) /\ op # "update_schema"
      BY <1>1, <2>1 DEF CallFlush
    <2> QED
      BY <2>2, <2>3, RowlessCallKeeps
  <1>2. CASE CallCompactPartition(t)
    <2>1. PICK p \in Partitions : Call(t, "compact", <<Task("compact", p, <<>>)>>, 0)
      BY <1>2 DEF CallCompactPartition
    <2>2. PICK op, ts : op = "compact" /\ ts = <<Task("compact", p, <<>>)>>
      OBVIOUS
    <2>3. Rowless(op, ts)
      <3>1. op \in Ops
        BY <2>2 DEF Ops
      <3> QED
        BY <2>2, <3>1, OneRowless
    <2>4. Call(t, op, ts, 0) /\ op # "update_schema"
      BY <2>1, <2>2
    <2> QED
      BY <2>3, <2>4, RowlessCallKeeps
  <1>3. CASE CallCompactTable(t)
    <2>1. PICK op, ts : op = "compact" /\ ts = Simply("flush") \o Simply("scan")
      OBVIOUS
    <2>2. Rowless(op, ts)
      <3>1. op \in Ops
        BY <2>1 DEF Ops
      <3> QED
        BY <2>1, <3>1, TwoRowless
    <2>3. Call(t, op, ts, 0) /\ op # "update_schema"
      BY <1>3, <2>1 DEF CallCompactTable
    <2> QED
      BY <2>2, <2>3, RowlessCallKeeps
  <1>4. CASE CallUpdateSchema(t)
    <2>1. PICK op, ts : op = "update_schema" /\ ts = Simply("flush") \o Simply("configure")
      OBVIOUS
    <2>2. Rowless(op, ts)
      <3>1. op \in Ops
        BY <2>1 DEF Ops
      <3> QED
        BY <2>1, <3>1, TwoRowless
    <2>3. Call(t, op, ts, 0) /\ schema + 1 \in Schemas
      BY <1>4, <2>1 DEF CallUpdateSchema
    <2> QED
      BY <2>2, <2>3, RowlessCallKeeps
  <1>5. CASE CallClose(t)
    <2>1. PICK op, ts : op = "close" /\ ts = Simply("flush") \o Simply("close")
      OBVIOUS
    <2>2. Rowless(op, ts)
      <3>1. op \in Ops
        BY <2>1 DEF Ops
      <3> QED
        BY <2>1, <3>1, TwoRowless
    <2>3. Call(t, op, ts, 0) /\ op # "update_schema"
      BY <1>5, <2>1 DEF CallClose
    <2> QED
      BY <2>2, <2>3, RowlessCallKeeps
  <1> QED
    BY <1>1, <1>2, <1>3, <1>4, <1>5

LEMMA CallAppendKeeps ==
  ASSUME StoreInv, NEW t \in Threads, CallAppend(t)
  PROVE  StoreInv'
  <1>1. PICK n \in Available : Call(t, "append", Groups("append", Fresh(n)), n)
    BY DEF CallAppend
  <1>2. PICK ts : ts = Groups("append", Fresh(n))
    OBVIOUS
  <1>3. ts \in Seq(Tasks) /\ Appends(ts, Fresh(n))
    BY <1>2, GroupsOfFresh DEF StoreInv
  <1>4. GoodTasks("append", ts, Fresh(n))
    BY <1>3, AppendsAreGood
  <1>5. n \in {0} \cup Available /\ "append" \in Ops /\ Call(t, "append", ts, n)
    BY <1>1, <1>2 DEF Ops
  <1> QED
    BY <1>3, <1>4, <1>5, CallKeeps

LEMMA CallWriteKeeps ==
  ASSUME StoreInv, NEW t \in Threads, CallWrite(t)
  PROVE  StoreInv'
  <1> DEFINE Parts(n) == {PartitionOf[r] : r \in rows + 1 .. rows + n}
  <1>1. PICK n \in Available :
          Call(t, "write", Groups("append", Fresh(n)) \o Simply("flush") \o PerPartition("compact", Parts(n)), n)
    BY DEF CallWrite
  <1>2. n \in {0} \cup Available
    OBVIOUS
  <1>3. PICK P : P = Parts(n)
    OBVIOUS
  <1>4. P \in SUBSET Partitions
    <2>1. rows + 1 .. rows + n \subseteq Rows
      BY <1>2, FreshIs DEF StoreInv, ToSet
    <2> QED
      BY <2>1, <1>3, RowsAre
  <1> HIDE DEF Parts
  <1>5. PICK g, f, c : g = Groups("append", Fresh(n)) /\ f = Simply("flush") /\ c = PerPartition("compact", P)
    OBVIOUS
  <1>6. g \in Seq(Tasks) /\ Appends(g, Fresh(n))
    BY <1>5, GroupsOfFresh DEF StoreInv
  <1>7. f \in Seq(Tasks) /\ f # <<>> /\ DOMAIN f = {1} /\ f[1].do = "flush" /\ f[1].rows = <<>>
    <2>1. PICK do, z, rs : do = "flush" /\ z = 0 /\ rs = <<>>
      OBVIOUS
    <2>2. f = <<Task(do, z, rs)>> /\ do \in Dos /\ rs \in Seq(Rows) /\ z \in Partitions \cup {0}
      BY <1>5, <2>1 DEF Simply, Dos
    <2>3. f \in Seq(Tasks) /\ f # <<>> /\ DOMAIN f = {1} /\ f[1].do = do /\ f[1].rows = rs
      BY ONLY <2>2, OneTask
    <2> QED
      BY <2>1, <2>3
  <1>8. /\ c \in Seq(Tasks)
        /\ \A i \in DOMAIN c : c[i].do = "compact" /\ c[i].p \in P /\ c[i].rows = <<>>
    <2>1. "compact" \in Dos
      BY DEF Dos
    <2> QED
      BY <2>1, <1>4, <1>5, PerPartitionIs
  <1>9. PICK s, q : s = f \o c /\ q = g \o s
    OBVIOUS
  <1> HIDE DEF Tasks
  <1>10. s \in Seq(Tasks) /\ Settles(s)
    <2>1. PICK k : k = Len(c)
      OBVIOUS
    <2>4. f \in Seq(Tasks) /\ c \in Seq(Tasks) /\ s = f \o c /\ k = Len(c) /\ DOMAIN f = {1}
      BY <2>1, <1>7, <1>8, <1>9
    <2>5. Len(f) = 1
      <3>1. PICK l : l = Len(f)
        OBVIOUS
      <3>2. l \in Nat /\ DOMAIN f = 1 .. l
        BY <2>4, <3>1
      <3>3. 1 \in 1 .. l /\ (l > 1 => 2 \in 1 .. l)
        BY <2>4, <3>2
      <3> QED
        BY <2>4, <3>1, <3>2, <3>3
    <2>8. s \in Seq(Tasks) /\ Len(s) = 1 + k /\ k \in Nat
      <3>1. s \in Seq(Tasks)
        BY <2>4
      <3>2. Len(s) = Len(f) + Len(c)
        BY <2>4
      <3> QED
        BY <3>1, <3>2, <2>4, <2>5
    <2>9. s[1] = f[1] /\ \A i \in 1 .. k : s[1 + i] = c[i]
      BY <2>4, <2>5, <2>8
    <2>2. /\ s \in Seq(Tasks) /\ k \in Nat /\ DOMAIN s = 1 .. 1 + k /\ DOMAIN c = 1 .. k
          /\ s[1] = f[1] /\ \A i \in 1 .. k : s[1 + i] = c[i]
      BY <2>4, <2>8, <2>9
    <2>3. \A i \in DOMAIN s : i = 1 \/ (i - 1 \in 1 .. k /\ s[i] = c[i - 1])
      <3> TAKE i \in DOMAIN s
      <3>1. i # 1 => i - 1 \in 1 .. k /\ 1 + (i - 1) = i
        BY <2>2
      <3> QED
        BY <3>1, <2>2
    <2>6. \A i \in DOMAIN s : s[i].do \in {"flush", "compact"} /\ s[i].rows = <<>> /\ (s[i].do = "compact" => s[i].p \in Partitions)
      BY <2>2, <2>3, <1>4, <1>7, <1>8
    <2>7. s # <<>>
      BY <2>2
    <2> QED
      BY <2>2, <2>6, <2>7, <1>7 DEF Settles
  <1>11. q \in Seq(Tasks) /\ GoodTasks("write", q, Fresh(n))
    BY <1>6, <1>9, <1>10, WriteIsGood
  <1>12. q = (g \o f) \o c
    BY <1>6, <1>7, <1>8, <1>9
  <1>13. Call(t, "write", q, n) /\ "write" \in Ops
    BY <1>1, <1>3, <1>5, <1>12 DEF Ops
  <1> QED
    BY <1>2, <1>11, <1>13, CallKeeps

LEMMA CallReplacePartitionKeeps ==
  ASSUME StoreInv, NEW t \in Threads, CallReplacePartition(t)
  PROVE  StoreInv'
  <1>1. PICK p \in Partitions, n \in {0} \cup Available :
          /\ InPartition(p, Fresh(n)) = Fresh(n)
          /\ Call(t, "replace", <<Task("replace", p, Fresh(n))>>, n)
    BY DEF CallReplacePartition
  <1>2. PICK f, ts : f = Fresh(n) /\ ts = <<Task("replace", p, f)>>
    OBVIOUS
  <1>3. f \in Seq(Rows) /\ f \in Inputs
    <2>1. Fresh(n) \in Seq(Rows) /\ Len(Fresh(n)) = n
      BY FreshIs DEF StoreInv
    <2>2. CASE n = 0
      BY <2>1, <2>2, <1>2 DEF Inputs
    <2>3. CASE n # 0
      BY <2>1, <2>3, <1>1, <1>2, FreshInputs DEF StoreInv
    <2> QED
      BY <2>1, <2>2, <2>3, <1>2
  <1>4. ts \in Seq(Tasks) /\ ts # <<>> /\ DOMAIN ts = {1} /\ ts[1].do = "replace" /\ ts[1].p = p /\ ts[1].rows = f
    <2>1. "replace" \in Dos
      BY DEF Dos
    <2> QED
      BY <2>1, <1>2, <1>3, OneTask
  <1>5. GoodTasks("replace", ts, Fresh(n))
    <2>1. \A i, j \in DOMAIN ts : i = j
      BY <1>4
    <2> QED
      BY <2>1, <1>2, <1>3, <1>4 DEF GoodTasks, Bringing, OnPartition
  <1>6. "replace" \in Ops /\ Call(t, "replace", ts, n)
    BY <1>1, <1>2 DEF Ops
  <1> QED
    BY <1>4, <1>5, <1>6, CallKeeps

-----------------------------------------------------------------------------
(* The theorems. *)

LEMMA NothingVisible ==
  ASSUME Init, NEW p \in Partitions
  PROVE  Current(p) = NoManifest /\ Visible(p) = <<>>
  <1>1. Current(p) = NoManifest /\ files[p] = <<>>
    BY DEF Init, Current
  <1>2. PICK m, fs, plan : m = NoManifest /\ fs = files[p] /\ plan = <<>>
    OBVIOUS
  <1>3. Listed(m) /\ m.files = <<>> /\ m.at = <<>>
    BY <1>2 DEF Listed, NoManifest
  <1>4. plan \in Seq(Seq(Rows)) /\ Len(plan) = Len(m.files) /\ DOMAIN plan = {} /\ DOMAIN m.at = {}
    BY <1>2, <1>3
  <1>5. (\A i \in DOMAIN plan : fs[m.files[i]] = plan[i]) /\ \A i, j \in DOMAIN m.at : m.at[i] = m.at[j]
    BY <1>4
  <1>6. Content(m, fs) = FlattenSeq(plan)
    BY <1>3, <1>4, <1>5, ContentTogether
  <1>7. Visible(p) = Content(m, fs)
    BY <1>1, <1>2 DEF Visible, Content
  <1> QED
    BY <1>1, <1>2, <1>6, <1>7, FlattenEmpty

LEMMA Initially == Init => StoreInv
  <1> SUFFICES ASSUME Init PROVE StoreInv
    OBVIOUS
  <1>1. \A t \in Threads : thread[t] = Idle /\ thread[t].at \notin Stages
    BY DEF Init, Idle, Stages
  <1>2. \A p \in Partitions : Current(p) = NoManifest /\ Visible(p) = <<>> /\ lock[p] = None /\ manifest[p] = None
                              /\ buffer[p] = Empty /\ files[p] = <<>>
    BY NothingVisible DEF Init
  <1>3. TypeInv
    <2>1. Empty \in [rows : Seq(Rows), schemas : SUBSET Schemas]
      BY DEF Empty
    <2>2. \A p \in Partitions : files[p] \in [DOMAIN files[p] -> RowSeqs] /\ DOMAIN files[p] \subseteq 1 .. made
      <3> TAKE p \in Partitions
      <3>1. files[p] = <<>> /\ DOMAIN files[p] = {}
        BY <1>2
      <3> QED
        BY <3>1
    <2>3. rows \in 0 .. Len(KeyOf)
      BY RowsAre DEF Init
    <2> QED
      BY <2>1, <2>2, <2>3, NumbersAssumption DEF Init, TypeInv
  <1>4. NewInv /\ \A t \in Threads : ThreadInv(t) /\ CommitInv(t) /\ FreshInv(t) /\ WriteInv(t)
    BY <1>1 DEF NewInv, ThreadInv, CommitInv, FreshInv, WriteInv
  <1>5. \A p \in Partitions : LockInv(p) /\ DiskInv(p)
    <2> TAKE p \in Partitions
    <2>1. LockInv(p)
      BY <1>2 DEF LockInv
    <2>2. PICK m : m = NoManifest
      OBVIOUS
    <2>3. Listed(m) /\ IsInjective(m.files) /\ ToSet(m.files) = {} /\ DOMAIN m.at = {} /\ m.signature = None
      BY <2>2 DEF NoManifest, Listed, IsInjective, ToSet
    <2>4. ToSet(Visible(p)) = {} /\ ToSet(buffer[p].rows) = {}
      BY <1>2 DEF Empty, ToSet
    <2>5. Current(p) = m /\ manifest[p] = None
      BY <1>2, <2>2
    <2> QED
      BY <2>1, <2>3, <2>4, <2>5 DEF DiskInv
  <1> QED
    BY <1>3, <1>4, <1>5 DEF StoreInv

LEMMA StutterKeeps ==
  ASSUME StoreInv, UNCHANGED vars
  PROVE  StoreInv'
  <1>1. UNCHANGED <<manifest, files, buffer, schema, closed, lock, thread, made, rows>>
    BY DEF vars
  <1>2. TypeInv' /\ NewInv'
    BY <1>1 DEF StoreInv, TypeInv, NewInv
  <1>3. \A p \in Partitions : Visible(p)' = Visible(p) /\ Current(p)' = Current(p)
    BY <1>1 DEF Visible, Current
  <1>4. Stored' = Stored
    BY <1>1, <1>3 DEF Stored
  <1>5. ASSUME NEW t \in Threads PROVE ThreadInv(t)' /\ FreshInv(t)' /\ WriteInv(t)'
    BY <1>1, <1>4 DEF StoreInv, ThreadInv, FreshInv, WriteInv, NextTask
  <1>6. ASSUME NEW t \in Threads PROVE CommitInv(t)'
    <2>1. PlanInv(t) => PlanInv(t)'
      BY <1>1 DEF PlanInv, NextTask, Visible, Current
    <2>2. WrittenFiles(t) => WrittenFiles(t)'
      BY <1>1 DEF WrittenFiles, NextTask, Current
    <2> QED
      BY <2>1, <2>2, <1>1 DEF StoreInv, CommitInv, NextTask
  <1>7. ASSUME NEW p \in Partitions PROVE LockInv(p)' /\ DiskInv(p)'
    BY <1>1, <1>3 DEF StoreInv, LockInv, DiskInv, NextTask
  <1> QED
    BY <1>2, <1>5, <1>6, <1>7 DEF StoreInv

LEMMA NextKeeps ==
  ASSUME StoreInv, [Next]_vars
  PROVE  StoreInv'
  <1>1. CASE UNCHANGED vars
    BY <1>1, StutterKeeps
  <1>2. ASSUME NEW t \in Threads, CallAny(t) PROVE StoreInv'
    BY <1>2, CallAppendKeeps, CallWriteKeeps, CallReplacePartitionKeeps, RowlessCallsKeep DEF CallAny
  <1>3. ASSUME NEW t \in Threads, Step(t) PROVE StoreInv'
    BY <1>3, AppendGroupKeeps, SnapshotKeeps, ScanKeeps, QuietTasksKeep, StartsKeep, SignOnlyKeeps,
       WriteFilesKeeps, ReplaceManifestKeeps, CleanupKeeps, FinishKeeps DEF Step
  <1>4. ASSUME NEW t \in Threads, CommitFails(t) \/ CleanupFails(t) PROVE StoreInv'
    BY <1>4, CommitFailsKeeps, CleanupKeeps
  <1>5. CASE Crash \/ Reopen
    BY <1>5, NewInstanceKeeps DEF Crash, Reopen
  <1>6. CASE Stopped
    BY <1>6, StutterKeeps DEF Stopped
  <1> QED
    BY <1>1, <1>2, <1>3, <1>4, <1>5, <1>6 DEF Next

\* Between any two steps, whatever has run, failed or crashed before, a thread that
\* holds a partition has exactly what its commit is about to need, and what a write
\* has left in memory is still on its list (append, flush, _commit, compact).
THEOREM Invariance == Spec => []StoreInv
  <1>1. Init => StoreInv
    BY Initially
  <1>2. StoreInv /\ [Next]_vars => StoreInv'
    BY NextKeeps
  <1> QED
    BY <1>1, <1>2, PTL DEF Spec

LEMMA Readable == StoreInv => DiskIsReadable
  <1> SUFFICES ASSUME StoreInv PROVE TypeOK /\ ManifestFilesExist /\ SignedHasUniqueKeys
    BY DEF DiskIsReadable
  <1>1. TypeInv /\ \A p \in Partitions : DiskInv(p)
    BY DEF StoreInv
  <1>2. ASSUME NEW p \in Partitions, manifest[p] # None
        PROVE  /\ manifest[p].version \in Nat \ {0} /\ manifest[p].signature \in Schemas \cup {None}
               /\ ToSet(manifest[p].files) \subseteq FileIds /\ IsInjective(manifest[p].files)
               /\ DOMAIN manifest[p].at = DOMAIN manifest[p].files
               /\ \A i \in DOMAIN manifest[p].at : manifest[p].at[i] \in 1 .. manifest[p].updated
    <2>1. PICK m : m = manifest[p]
      OBVIOUS
    <2>2. m \in Manifests /\ Current(p) = m /\ m # None
      BY <1>1, <1>2, <2>1 DEF TypeInv, Current
    <2>3. Listed(m) /\ IsInjective(m.files) /\ ToSet(m.files) \subseteq DOMAIN files[p] /\ m.version # 0
          /\ \A i \in DOMAIN m.at : m.at[i] \in 1 .. m.updated
      BY <1>1, <2>1, <2>2 DEF DiskInv
    <2>4. DOMAIN files[p] \subseteq FileIds
      BY <1>1 DEF TypeInv, FileIds
    <2>5. DOMAIN m.at = DOMAIN m.files
      BY <2>3 DEF Listed
    <2>6. m.version \in Nat \ {0} /\ m.signature \in Schemas \cup {None}
      BY <2>2, <2>3 DEF Manifests
    <2> QED
      BY <2>1, <2>3, <2>4, <2>5, <2>6
  <1>3. ASSUME NEW p \in Partitions
        PROVE  /\ DOMAIN files[p] \subseteq FileIds /\ \A f \in DOMAIN files[p] : files[p][f] \in RowSeqs
               /\ buffer[p].rows \in Seq(Rows) /\ buffer[p].schemas \subseteq Schemas
    BY <1>1 DEF TypeInv, FileIds
  <1>4. ASSUME NEW p \in Partitions, NEW t \in Threads
        PROVE  lock[p] = t <=> thread[t].at \in Stages /\ NextTask(t).p = p
    <2>1. lock[p] = t => thread[t].at \in Stages /\ NextTask(t).p = p
      BY NoneAssumption DEF StoreInv, LockInv
    <2>2. thread[t].at \in Stages => lock[NextTask(t).p] = t
      BY Holding
    <2> QED
      BY <2>1, <2>2
  <1>5. TypeOK
    BY <1>1, <1>2, <1>3, <1>4 DEF TypeOK, TypeInv, Stages
  <1>6. ManifestFilesExist
    BY <1>1 DEF ManifestFilesExist, DiskInv
  <1>7. SignedHasUniqueKeys
    BY <1>1 DEF SignedHasUniqueKeys, DiskInv, SameKeyOnce
  <1> QED
    BY <1>5, <1>6, <1>7

\* After any history of calls, crashes and file system errors: every file a
\* manifest names is on disk and is named once, a thread between two steps of a
\* commit holds its partition's lock, and a partition that carries a compaction
\* signature has no key twice (_commit, _compact_partition, _write_manifest).
THEOREM DiskAlwaysReadable == Spec => []DiskIsReadable
  BY Invariance, Readable, PTL

\* Once the flush of a write has returned, none of its rows is only in memory,
\* whichever thread flushed, or failed to flush, its partitions (flush).
THEOREM WritesCommitted == Spec => []WrittenIsCommitted
  <1>1. StoreInv => WrittenIsCommitted
    BY DEF StoreInv, WriteInv, WrittenIsCommitted, Flushed
  <1> QED
    BY <1>1, Invariance, PTL

-----------------------------------------------------------------------------
(* The store implements the table: what a step shows to readers. *)

\* The buffer of the thread's partition has been committed or replaced.
Gone(t) == thread[t].at \in {"committed", "cleaned"} /\ thread[t].drops
Waiting(p) == IF Superseded(p) THEN <<>> ELSE buffer[p].rows

\* A step of t takes a free lock or frees its own, and changes no other thread.
Local(t) ==
  /\ \A u \in Threads \ {t} : thread'[u] = thread[u]
  /\ \A q \in Partitions : lock'[q] \in {lock[q], None, t} /\ (lock[q] \notin {None, t} => lock'[q] = lock[q])

LEMMA SupersededSame ==
  ASSUME StoreInv, NEW t \in Threads, Local(t), NEW q \in Partitions,
         \/ lock[q] # t /\ lock'[q] # t
         \/ (Gone(t)' <=> Gone(t)) /\ (lock'[q] = lock[q] \/ ~Gone(t))
  PROVE  Superseded(q)' <=> Superseded(q)
  <1>1. lock[q] \in Threads \cup {None} /\ t # None /\ lock'[q] \in {lock[q], None, t}
    BY NoneAssumption DEF StoreInv, TypeInv, Local
  <1>2. CASE lock[q] = None
    <2>1. ~Superseded(q)
      BY <1>2 DEF Superseded
    <2>2. lock'[q] = t => ~Gone(t)'
      BY <1>1, <1>2, <2>1 DEF Gone
    <2> QED
      BY <1>1, <1>2, <2>1, <2>2 DEF Superseded, Gone
  <1>3. CASE lock[q] = t
    BY <1>1, <1>3 DEF Superseded, Gone
  <1>4. CASE lock[q] \notin {None, t}
    <2>1. lock'[q] = lock[q] /\ thread'[lock[q]] = thread[lock[q]]
      BY <1>1, <1>4 DEF Local
    <2> QED
      BY <2>1 DEF Superseded
  <1> QED
    BY <1>2, <1>3, <1>4

LEMMA TableStutters ==
  ASSUME \A q \in Partitions : Visible(q)' = Visible(q) /\ Waiting(q)' = Waiting(q)
  PROVE  UNCHANGED Table!vars
  BY DEF Table!vars, Waiting

\* The rows that a thread brings to a partition are none of those there.
LEMMA BroughtIsNew ==
  ASSUME NEW p \in Partitions, NEW rs \in Inputs, ToSet(rs) \cap Stored = {}
  PROVE  rs \in Table!NewIn(p)
  <1> DEFINE shown == [q \in Partitions |-> Visible(q)]
             waits == [q \in Partitions |-> IF Superseded(q) THEN <<>> ELSE buffer[q].rows]
             held == {shown[p][i] : i \in DOMAIN shown[p]} \cup {waits[p][i] : i \in DOMAIN waits[p]}
  <1>1. Table!NewIn(p) = {r \in Inputs : \A i \in DOMAIN r : r[i] \notin held}
    BY DEF Table!NewIn, Table!Held
  <1>2. shown[p] = Visible(p) /\ waits[p] = Waiting(p)
    BY DEF Waiting
  <1>3. ToSet(Visible(p)) \subseteq Stored /\ ToSet(buffer[p].rows) \subseteq Stored
    BY DEF Stored
  <1>4. ToSet(Waiting(p)) \subseteq Stored
    BY <1>3 DEF Waiting, ToSet
  <1>5. held \subseteq Stored
    BY <1>2, <1>3, <1>4 DEF ToSet
  <1>6. \A i \in DOMAIN rs : rs[i] \in ToSet(rs)
    BY DEF ToSet
  <1> HIDE DEF held
  <1> QED
    BY <1>1, <1>5, <1>6

LEMMA TableAppends ==
  ASSUME NEW p \in Partitions, NEW rs \in Table!NewIn(p), Waiting(p)' = Waiting(p) \o rs,
         \A q \in Partitions : Visible(q)' = Visible(q) /\ (q # p => Waiting(q)' = Waiting(q))
  PROVE  Table!Next
  <1>1. Table!AppendRows(p)
    BY DEF Table!AppendRows, Waiting
  <1> QED
    BY <1>1 DEF Table!Next

LEMMA TableCommits ==
  ASSUME NEW p \in Partitions, Visible(p)' = Visible(p) \o Table!Sorted(Waiting(p)), Waiting(p)' = <<>>,
         \A q \in Partitions : q # p => Visible(q)' = Visible(q) /\ Waiting(q)' = Waiting(q)
  PROVE  Table!Next
  <1>1. Table!Commit(p)
    BY DEF Table!Commit, Waiting
  <1> QED
    BY <1>1 DEF Table!Next

LEMMA TableReplaces ==
  ASSUME NEW p \in Partitions, NEW rs \in Table!NewIn(p), Visible(p)' = Table!Sorted(rs), Waiting(p)' = <<>>,
         \A q \in Partitions : q # p => Visible(q)' = Visible(q) /\ Waiting(q)' = Waiting(q)
  PROVE  Table!Next
  <1>1. Table!Replace(p)
    BY DEF Table!Replace, Waiting
  <1> QED
    BY <1>1 DEF Table!Next

LEMMA TableCompacts ==
  ASSUME NEW p \in Partitions, Visible(p)' = Table!Sorted(Table!Winners(Visible(p))), Waiting(p)' = Waiting(p),
         \A q \in Partitions : q # p => Visible(q)' = Visible(q) /\ Waiting(q)' = Waiting(q)
  PROVE  Table!Next
  <1>1. Table!Compact(p)
    BY DEF Table!Compact, Waiting
  <1> QED
    BY <1>1 DEF Table!Next

\* Steps that readers do not see.
LEMMA Unseen ==
  ASSUME StoreInv, NEW t \in Threads, Local(t), buffer' = buffer, \A q \in Partitions : Visible(q)' = Visible(q),
         Gone(t)' <=> Gone(t), lock' = lock \/ ~Gone(t)
  PROVE  UNCHANGED Table!vars
  <1>1. ASSUME NEW q \in Partitions PROVE Waiting(q)' = Waiting(q)
    <2>1. Superseded(q)' <=> Superseded(q)
      BY SupersededSame
    <2> QED
      BY <2>1 DEF Waiting
  <1> QED
    BY <1>1, TableStutters

LEMMA WithAt ==
  ASSUME NEW t \in Threads, thread[t] \in Busy, NEW ts
  PROVE  With(t, ts).at \in {"idle", "ready"}
  <1>1. CASE ts = <<>>
    BY <1>1 DEF With, Idle
  <1>2. CASE ts # <<>>
    BY <1>2 DEF With, Busy
  <1> QED
    BY <1>1, <1>2

\* A step before the commit point goes to another step before it, or returns.
Before(at) == at \notin {"committed", "cleaned"}

\* A free lock is taken, or t's own is freed.
Locks(t) ==
  \/ lock' = lock
  \/ \E p \in Partitions, l \in {None, t} : lock[p] \in {None, t} /\ lock' = [lock EXCEPT ![p] = l]

LEMMA QuietIsLocal ==
  ASSUME StoreInv, NEW t \in Threads, NEW w, thread' = [thread EXCEPT ![t] = w],
         Before(w.at), Before(thread[t].at), Locks(t)
  PROVE  Local(t) /\ ~Gone(t) /\ ~Gone(t)'
  <1>1. thread'[t] = w /\ \A u \in Threads \ {t} : thread'[u] = thread[u]
    BY DEF StoreInv, TypeInv
  <1>2. \A q \in Partitions : lock'[q] \in {lock[q], None, t} /\ (lock[q] \notin {None, t} => lock'[q] = lock[q])
    BY DEF StoreInv, TypeInv, Locks
  <1> QED
    BY <1>1, <1>2 DEF Local, Gone, Before

LEMMA QuietTasksUnseen ==
  ASSUME StoreInv, NEW t \in Threads,
         \/ CallAny(t) \/ Snapshot(t) \/ NothingToFlush(t) \/ MixedSchemas(t) \/ StartFlush(t) \/ StartReplace(t)
         \/ Scan(t) \/ NothingToCompact(t) \/ SignOnly(t) \/ StartCompact(t) \/ Configure(t) \/ Close(t)
         \/ WriteFiles(t) \/ CommitFails(t)
  PROVE  UNCHANGED Table!vars
  <1>1. ASSUME NEW ts, Continue(t, ts), thread[t].at = "ready", lock' = lock
        PROVE  \E w : thread' = [thread EXCEPT ![t] = w] /\ Before(w.at) /\ Before(thread[t].at) /\ Locks(t)
    <2>1. thread[t] \in Busy
      BY <1>1, Kinds DEF StoreInv, Idle
    <2>2. With(t, ts).at \in {"idle", "ready"}
      BY <2>1, WithAt
    <2> QED
      BY <1>1, <2>2 DEF Continue, Before, Locks
  <1>2. ASSUME NEW p \in Partitions, lock[p] = None, thread[t].at = "ready",
               NEW plan, NEW keep, NEW drops, NEW signature, Prepare(t, p, plan, keep, drops, signature)
        PROVE  \E w : thread' = [thread EXCEPT ![t] = w] /\ Before(w.at) /\ Before(thread[t].at) /\ Locks(t)
    <2>1. thread[t] \in Busy
      BY <1>2, Kinds DEF StoreInv, Idle
    <2>2. PICK w : w = [thread[t] EXCEPT !.at = "writing", !.plan = plan, !.ids = <<>>, !.keep = keep,
                                         !.drops = drops, !.signature = signature]
      OBVIOUS
    <2>3. thread' = [thread EXCEPT ![t] = w]
      BY <1>2, <2>2 DEF Prepare
    <2>4. w.at = "writing"
      BY <2>1, <2>2 DEF Busy
    <2>5. lock' = [lock EXCEPT ![p] = t]
      BY <1>2 DEF Prepare
    <2> QED
      BY <1>2, <2>3, <2>4, <2>5 DEF Before, Locks
  <1>3. /\ buffer' = buffer
        /\ \E w : thread' = [thread EXCEPT ![t] = w] /\ Before(w.at) /\ Before(thread[t].at) /\ Locks(t)
    <2>1. CASE CallAny(t)
      <3>1. PICK op, ts, n : Call(t, op, ts, n)
        BY <2>1 DEF CallAny, CallAppend, CallFlush, CallWrite, CallReplacePartition, CallCompactPartition,
           CallCompactTable, CallUpdateSchema, CallClose
      <3>2. PICK w : w = [at |-> "ready", op |-> op, todo |-> ts, schema |-> schema,
                          new |-> Run(rows + 1, rows + n), plan |-> <<>>, ids |-> <<>>,
                          keep |-> FALSE, drops |-> FALSE, signature |-> None]
        OBVIOUS
      <3>3. thread' = [thread EXCEPT ![t] = w] /\ w.at = "ready"
        BY <3>1, <3>2 DEF Call
      <3>4. thread[t] = Idle /\ lock' = lock /\ buffer' = buffer
        BY <3>1 DEF Call, memory
      <3>5. Before(w.at) /\ Before(thread[t].at) /\ Locks(t)
        BY <3>3, <3>4 DEF Before, Locks, Idle
      <3> QED
        BY <3>3, <3>4, <3>5
    <2>2. CASE Snapshot(t) \/ NothingToFlush(t) \/ NothingToCompact(t) \/ SignOnly(t) \/ Configure(t) \/ Close(t)
      <3>1. thread[t].at = "ready" /\ lock' = lock /\ buffer' = buffer /\ \E ts : Continue(t, ts)
        BY <2>2 DEF Snapshot, NothingToFlush, NothingToCompact, SignOnly, Configure, Close, Doing, memory
      <3> QED
        BY <3>1, <1>1
    <2>3. CASE MixedSchemas(t)
      <3>1. thread[t].at = "ready" /\ lock' = lock /\ buffer' = buffer /\ thread' = [thread EXCEPT ![t] = Idle]
        BY <2>3 DEF MixedSchemas, Doing, memory, Raise
      <3> QED
        BY <3>1 DEF Before, Locks, Idle
    <2>4. CASE Scan(t)
      <3>1. thread[t].at = "ready" /\ lock' = lock /\ buffer' = buffer /\ thread[t] \in Busy
        BY <2>4, Kinds DEF Scan, Doing, memory, StoreInv, Idle
      <3>2. PICK found : thread' = [thread EXCEPT ![t] = IF found = <<>> THEN Idle
                                                         ELSE [With(t, found) EXCEPT !.schema = schema]]
        BY <2>4 DEF Scan
      <3>3. PICK w : w = IF found = <<>> THEN Idle ELSE [With(t, found) EXCEPT !.schema = schema]
        OBVIOUS
      <3>4. w.at \in {"idle", "ready"}
        BY <3>1, <3>3 DEF With, Busy, Idle
      <3> QED
        BY <3>1, <3>2, <3>3, <3>4 DEF Before, Locks
    <2>5. CASE StartFlush(t) \/ StartReplace(t) \/ StartCompact(t)
      <3>1. thread[t].at = "ready" /\ buffer' = buffer /\ NextTask(t).do \in OnPartition
        BY <2>5 DEF StartFlush, StartReplace, StartCompact, Doing, memory, OnPartition
      <3>2. NextTask(t).p \in Partitions
        <4>1. \E do : Doing(t, do)
          BY <2>5 DEF StartFlush, StartReplace, StartCompact
        <4> QED
          BY <4>1, <3>1, DoingIs
      <3>3. PICK p \in Partitions : p = NextTask(t).p
        BY <3>2
      <3>4. lock[p] = None /\ \E plan, keep, drops, signature : Prepare(t, p, plan, keep, drops, signature)
        BY <2>5, <3>3 DEF StartFlush, StartReplace, StartCompact
      <3> QED
        BY <3>1, <3>4, <1>2
    <2>6. CASE WriteFiles(t)
      <3>1. thread[t].at = "writing" /\ lock' = lock /\ buffer' = buffer /\ thread[t] \in Busy
        BY <2>6, Kinds DEF WriteFiles, Is, memory, StoreInv, Idle
      <3>2. PICK ids : thread' = [thread EXCEPT ![t].at = "written", ![t].ids = ids]
        BY <2>6 DEF WriteFiles
      <3>3. PICK w : w = [thread[t] EXCEPT !.at = "written", !.ids = ids]
        OBVIOUS
      <3>4. thread' = [thread EXCEPT ![t] = w] /\ w.at = "written"
        BY <3>1, <3>2, <3>3 DEF Busy
      <3> QED
        BY <3>1, <3>4 DEF Before, Locks
    <2>7. CASE CommitFails(t)
      <3>1. thread[t].at \in {"writing", "written"} /\ thread[t].at \in Stages
        BY <2>7 DEF CommitFails, Stages
      <3>2. NextTask(t).p \in Partitions /\ lock[NextTask(t).p] = t
        BY <3>1, Holding
      <3>3. buffer' = buffer /\ lock' = [lock EXCEPT ![NextTask(t).p] = None] /\ thread' = [thread EXCEPT ![t] = Idle]
        BY <2>7 DEF CommitFails, memory, Unlocked, Raise
      <3>4. Locks(t)
        BY <3>2, <3>3 DEF Locks
      <3> QED
        BY <3>1, <3>3, <3>4 DEF Before, Idle
    <2> QED
      BY <2>1, <2>2, <2>3, <2>4, <2>5, <2>6, <2>7
  <1>4. \A q \in Partitions : Visible(q)' = Visible(q)
    <2>1. CASE SignOnly(t)
      BY <2>1, SignOnlyKeeps
    <2>2. CASE WriteFiles(t)
      BY <2>2, WriteFilesKeeps
    <2>3. CASE CommitFails(t)
      BY <2>3, CommitFailsKeeps
    <2>4. CASE ~(SignOnly(t) \/ WriteFiles(t) \/ CommitFails(t))
      <3>1. manifest' = manifest /\ files' = files
        BY <2>4 DEF CallAny, CallAppend, CallFlush, CallWrite, CallReplacePartition, CallCompactPartition,
           CallCompactTable, CallUpdateSchema, CallClose, Call, Snapshot, NothingToFlush, MixedSchemas, StartFlush,
           StartReplace, Scan, NothingToCompact, StartCompact, Configure, Close, disk
      <3> QED
        BY <3>1 DEF Visible, Current
    <2> QED
      BY <2>1, <2>2, <2>3, <2>4
  <1>5. PICK w : thread' = [thread EXCEPT ![t] = w] /\ Before(w.at) /\ Before(thread[t].at) /\ Locks(t)
    BY <1>3
  <1>6. Local(t) /\ ~Gone(t) /\ ~Gone(t)'
    BY <1>5, QuietIsLocal
  <1> QED
    BY <1>3, <1>4, <1>6, Unseen

\* The first task of a thread has still to bring its rows.
LEMMA FirstIsFresh ==
  ASSUME StoreInv, NEW t \in Threads, thread[t] # Idle, NextTask(t).do \in Bringing, Pending(thread[t], 1)
  PROVE  NextTask(t).rows \in Inputs /\ ToSet(NextTask(t).rows) \cap Stored = {}
  <1>1. NextTask(t) = thread[t].todo[1] /\ 1 \in DOMAIN thread[t].todo
    BY RestIs
  <1>2. GoodTasks(thread[t].op, thread[t].todo, thread[t].new) /\ FreshInv(t)
    BY DEF StoreInv, ThreadInv
  <1>3. NextTask(t).rows \in Inputs
    BY <1>1, <1>2 DEF GoodTasks
  <1>4. ToSet(NextTask(t).rows) \cap Stored = {}
    BY <1>1, <1>2 DEF FreshInv
  <1> QED
    BY <1>3, <1>4

LEMMA AppendGroupAppends ==
  ASSUME StoreInv, NEW t \in Threads, AppendGroup(t)
  PROVE  Table!Next
  <1>1. /\ thread[t].at = "ready" /\ thread[t] # Idle /\ thread[t] \in Busy /\ NextTask(t).do = "append"
        /\ NextTask(t).p \in Partitions
    BY DoingIs DEF AppendGroup, OnPartition
  <1>2. PICK p \in Partitions : p = NextTask(t).p
    BY <1>1
  <1>3. PICK rs : rs = NextTask(t).rows
    OBVIOUS
  <1>4. PICK b : b = [rows |-> buffer[p].rows \o rs, schemas |-> buffer[p].schemas \cup {thread[t].schema}]
    OBVIOUS
  <1>5. /\ lock[p] = None /\ buffer' = [buffer EXCEPT ![p] = b] /\ manifest' = manifest /\ files' = files
        /\ \/ Continue(t, Rest(t)) /\ lock' = lock
           \/ Raise(t) /\ lock' = lock
           \/ Prepare(t, p, FlushPlan(b.rows), TRUE, TRUE, None)
    BY <1>2, <1>3, <1>4 DEF AppendGroup, disk
  <1>6. \E w : thread' = [thread EXCEPT ![t] = w] /\ Before(w.at) /\ Before(thread[t].at) /\ Locks(t)
    <2>1. CASE Continue(t, Rest(t)) /\ lock' = lock
      <3>1. With(t, Rest(t)).at \in {"idle", "ready"}
        BY <1>1, WithAt
      <3> QED
        BY <2>1, <3>1, <1>1 DEF Continue, Before, Locks
    <2>2. CASE Raise(t) /\ lock' = lock
      BY <2>2, <1>1 DEF Raise, Before, Locks, Idle
    <2>3. CASE Prepare(t, p, FlushPlan(b.rows), TRUE, TRUE, None)
      <3>1. PICK w : w = [thread[t] EXCEPT !.at = "writing", !.plan = FlushPlan(b.rows), !.ids = <<>>, !.keep = TRUE,
                                           !.drops = TRUE, !.signature = None]
        OBVIOUS
      <3>2. thread' = [thread EXCEPT ![t] = w] /\ lock' = [lock EXCEPT ![p] = t]
        BY <2>3, <3>1 DEF Prepare
      <3>3. w.at = "writing"
        BY <3>1, <1>1 DEF Busy
      <3> QED
        BY <3>2, <3>3, <1>1, <1>5 DEF Before, Locks
    <2> QED
      BY <2>1, <2>2, <2>3, <1>5
  <1>7. PICK w : thread' = [thread EXCEPT ![t] = w] /\ Before(w.at) /\ Before(thread[t].at) /\ Locks(t)
    BY <1>6
  <1>8. Local(t) /\ ~Gone(t) /\ ~Gone(t)'
    BY <1>7, QuietIsLocal
  <1>9. \A q \in Partitions : Superseded(q)' <=> Superseded(q)
    BY <1>8, SupersededSame
  <1>10. ~Superseded(p)
    BY <1>5 DEF Superseded
  <1>11. buffer'[p].rows = buffer[p].rows \o rs /\ \A q \in Partitions : q # p => buffer'[q] = buffer[q]
    BY <1>4, <1>5 DEF StoreInv, TypeInv
  <1>12. Waiting(p)' = Waiting(p) \o rs /\ \A q \in Partitions : q # p => Waiting(q)' = Waiting(q)
    BY <1>9, <1>10, <1>11 DEF Waiting
  <1>13. rs \in Table!NewIn(p)
    <2>1. Pending(thread[t], 1)
      BY <1>1 DEF Pending, Stages
    <2>2. rs \in Inputs /\ ToSet(rs) \cap Stored = {}
      BY <2>1, <1>1, <1>3, FirstIsFresh DEF Bringing
    <2> QED
      BY <2>2, BroughtIsNew
  <1>14. \A q \in Partitions : Visible(q)' = Visible(q)
    BY <1>5 DEF Visible, Current
  <1> QED
    BY <1>12, <1>13, <1>14, TableAppends

\* The commit point is where readers see the commit, the replacement or the
\* compaction, and where the buffer's rows no longer wait.
LEMMA ReplaceManifestSteps ==
  ASSUME StoreInv, NEW t \in Threads, ReplaceManifest(t)
  PROVE  Table!Next
  <1>1. thread[t].at = "written" /\ thread[t].at \in Stages
    BY DEF ReplaceManifest, Is, Stages
  <1>2. /\ thread[t] # Idle /\ thread[t] \in Busy /\ NextTask(t).p \in Partitions /\ lock[NextTask(t).p] = t
        /\ CommitInv(t) /\ NextTask(t) = thread[t].todo[1]
    BY <1>1, Holding
  <1>3. PICK p \in Partitions : p = NextTask(t).p
    BY <1>2
  <1>4. PICK rs : rs = NextTask(t).rows
    OBVIOUS
  <1>5. /\ \A q \in Partitions : q # p => manifest'[q] = manifest[q]
        /\ thread[t].keep => Visible(p)' = Visible(p) \o Table!Sorted(buffer[p].rows)
        /\ thread[t].drops /\ ~thread[t].keep => Visible(p)' = Table!Sorted(rs)
        /\ ~thread[t].drops => Visible(p)' = Table!Sorted(Table!Winners(Visible(p)))
    BY <1>3, <1>4, CommitShows
  <1>6. PICK w : w = [thread[t] EXCEPT !.at = "committed"]
    OBVIOUS
  <1>7. thread' = [thread EXCEPT ![t] = w] /\ UNCHANGED <<files, buffer, lock>>
    BY <1>6 DEF ReplaceManifest, To, memory
  <1>8. w.at = "committed" /\ w.drops = thread[t].drops
    BY <1>2, <1>6 DEF Busy
  <1>9. thread'[t] = w /\ \A u \in Threads \ {t} : thread'[u] = thread[u]
    BY <1>7 DEF StoreInv, TypeInv
  <1>10. Local(t) /\ ~Gone(t) /\ (Gone(t)' <=> thread[t].drops)
    BY <1>1, <1>7, <1>8, <1>9 DEF Local, Gone
  <1>11. \A q \in Partitions : q # p => lock[q] # t /\ lock'[q] # t
    BY <1>3, <1>7, NoneAssumption DEF StoreInv, LockInv
  <1>12. ASSUME NEW q \in Partitions, q # p PROVE Visible(q)' = Visible(q) /\ Waiting(q)' = Waiting(q)
    <2>1. Superseded(q)' <=> Superseded(q)
      BY <1>10, <1>11, <1>12, SupersededSame
    <2>2. manifest'[q] = manifest[q]
      BY <1>5, <1>12
    <2> QED
      BY <2>1, <2>2, <1>7 DEF Waiting, Visible, Current
  <1>13. lock[p] = t /\ lock'[p] = t /\ t # None
    BY <1>2, <1>3, <1>7, NoneAssumption
  <1>14. Waiting(p) = buffer[p].rows
    BY <1>10, <1>13 DEF Waiting, Superseded, Gone
  <1>15. Waiting(p)' = IF thread[t].drops THEN <<>> ELSE buffer[p].rows
    BY <1>7, <1>8, <1>9, <1>13 DEF Waiting, Superseded
  <1>16. CASE thread[t].keep
    <2>1. thread[t].drops
      BY <1>1, <1>2, <1>16 DEF CommitInv
    <2> QED
      BY <2>1, <1>5, <1>12, <1>14, <1>15, <1>16, TableCommits
  <1>17. CASE thread[t].drops /\ ~thread[t].keep
    <2>1. NextTask(t).do = "replace"
      BY <1>1, <1>2, <1>17 DEF CommitInv, PlanInv
    <2>2. Pending(thread[t], 1)
      BY <2>1, <1>1, <1>2 DEF Pending
    <2>3. rs \in Inputs /\ ToSet(rs) \cap Stored = {}
      BY <2>1, <2>2, <1>2, <1>4, FirstIsFresh DEF Bringing
    <2>4. rs \in Table!NewIn(p)
      BY <2>3, BroughtIsNew
    <2> QED
      BY <2>4, <1>5, <1>12, <1>15, <1>17, TableReplaces
  <1>18. CASE ~thread[t].drops
    BY <1>5, <1>12, <1>14, <1>15, <1>18, TableCompacts
  <1> QED
    BY <1>16, <1>17, <1>18

\* After the commit point the buffer is dropped, which readers do not see.
LEMMA CleanupUnseen ==
  ASSUME StoreInv, NEW t \in Threads, Cleanup(t) \/ CleanupFails(t)
  PROVE  UNCHANGED Table!vars
  <1>1. thread[t].at = "committed" /\ thread[t].at \in Stages /\ UNCHANGED <<buffer, lock>> /\ To(t, "cleaned")
    BY DEF Cleanup, CleanupFails, Is, Stages, memory
  <1>2. thread[t] \in Busy
    BY <1>1, Holding
  <1>3. PICK w : w = [thread[t] EXCEPT !.at = "cleaned"]
    OBVIOUS
  <1>4. w.at = "cleaned" /\ w.drops = thread[t].drops /\ thread' = [thread EXCEPT ![t] = w]
    BY <1>1, <1>2, <1>3 DEF Busy, To
  <1>5. thread'[t] = w /\ \A u \in Threads \ {t} : thread'[u] = thread[u]
    BY <1>4 DEF StoreInv, TypeInv
  <1>6. Local(t) /\ (Gone(t)' <=> Gone(t))
    BY <1>1, <1>4, <1>5 DEF Local, Gone
  <1>7. \A q \in Partitions : Visible(q)' = Visible(q)
    BY CleanupKeeps
  <1> QED
    BY <1>1, <1>6, <1>7, Unseen

LEMMA FinishUnseen ==
  ASSUME StoreInv, NEW t \in Threads, Finish(t)
  PROVE  UNCHANGED Table!vars
  <1>1. thread[t].at = "cleaned" /\ thread[t].at \in Stages
    BY DEF Finish, Is, Stages
  <1>2. thread[t] \in Busy /\ NextTask(t).p \in Partitions /\ lock[NextTask(t).p] = t
    BY <1>1, Holding
  <1>3. PICK p \in Partitions : p = NextTask(t).p
    BY <1>2
  <1>4. PICK w : w = With(t, Rest(t))
    OBVIOUS
  <1>5. /\ buffer' = IF thread[t].drops THEN [buffer EXCEPT ![p] = Empty] ELSE buffer
        /\ lock' = [lock EXCEPT ![p] = None] /\ thread' = [thread EXCEPT ![t] = w]
        /\ manifest' = manifest /\ files' = files
    BY <1>3, <1>4 DEF Finish, Unlocked, Continue, disk
  <1>6. thread'[t] = w /\ (\A u \in Threads \ {t} : thread'[u] = thread[u]) /\ lock'[p] = None
        /\ \A q \in Partitions : q # p => lock'[q] = lock[q]
    BY <1>5 DEF StoreInv, TypeInv
  <1>7. Local(t)
    <2>1. lock[p] = t
      BY <1>2, <1>3
    <2> QED
      BY <2>1, <1>6 DEF Local
  <1>8. \A q \in Partitions : q # p => lock[q] # t /\ lock'[q] # t
    BY <1>3, <1>6, NoneAssumption DEF StoreInv, LockInv
  <1>9. ASSUME NEW q \in Partitions, q # p PROVE Waiting(q)' = Waiting(q)
    <2>1. Superseded(q)' <=> Superseded(q)
      BY <1>7, <1>8, <1>9, SupersededSame
    <2>2. buffer'[q] = buffer[q]
      BY <1>5, <1>9 DEF StoreInv, TypeInv
    <2> QED
      BY <2>1, <2>2 DEF Waiting
  <1>10. Waiting(p)' = Waiting(p)
    <2>1. ~Superseded(p)'
      BY <1>6 DEF Superseded
    <2>2. Superseded(p) <=> thread[t].drops
      BY <1>1, <1>2, <1>3, NoneAssumption DEF Superseded
    <2>3. buffer'[p].rows = IF thread[t].drops THEN <<>> ELSE buffer[p].rows
      BY <1>5 DEF StoreInv, TypeInv, Empty
    <2> QED
      BY <2>1, <2>2, <2>3 DEF Waiting
  <1>11. \A q \in Partitions : Visible(q)' = Visible(q)
    BY <1>5 DEF Visible, Current
  <1> QED
    BY <1>9, <1>10, <1>11, TableStutters

LEMMA NewInstanceCrashes ==
  ASSUME StoreInv, NewInstance
  PROVE  Table!Next
  <1>1. \A q \in Partitions : Visible(q)' = Visible(q)
    BY NewInstanceKeeps
  <1>2. \A q \in Partitions : Waiting(q)' = <<>>
    BY DEF NewInstance, Waiting, Superseded, Empty
  <1>3. Table!Crash
    BY <1>1, <1>2 DEF Table!Crash, Waiting
  <1> QED
    BY <1>3 DEF Table!Next

LEMMA StepImplements ==
  ASSUME StoreInv, [Next]_vars
  PROVE  [Table!Next]_(Table!vars)
  <1>1. CASE UNCHANGED vars
    <2>1. \A q \in Partitions : Visible(q)' = Visible(q) /\ Waiting(q)' = Waiting(q)
      BY <1>1 DEF vars, Visible, Current, Waiting, Superseded
    <2> QED
      BY <2>1, TableStutters
  <1>2. ASSUME NEW t \in Threads, CallAny(t) PROVE UNCHANGED Table!vars
    BY <1>2, QuietTasksUnseen
  <1>3. ASSUME NEW t \in Threads, Step(t) PROVE [Table!Next]_(Table!vars)
    BY <1>3, QuietTasksUnseen, AppendGroupAppends, ReplaceManifestSteps, CleanupUnseen, FinishUnseen DEF Step
  <1>4. ASSUME NEW t \in Threads, CommitFails(t) \/ CleanupFails(t) PROVE UNCHANGED Table!vars
    BY <1>4, QuietTasksUnseen, CleanupUnseen
  <1>5. CASE Crash \/ Reopen
    BY <1>5, NewInstanceCrashes DEF Crash, Reopen
  <1>6. CASE Stopped
    BY <1>1, <1>6 DEF Stopped
  <1> QED
    BY <1>1, <1>2, <1>3, <1>4, <1>5, <1>6 DEF Next

\* Whatever calls run together, and whatever crashes and errors come between
\* their steps, readers see the table that PartitionTable specifies: commits,
\* replacements and compactions happen at the manifest's replacement, in the
\* order of their commit times, and a crash loses buffered rows only.
THEOREM StoreImplementsTable == Spec => ImplementsTable
  <1>1. Init => Table!Init
    <2> SUFFICES ASSUME Init PROVE Table!Init
      OBVIOUS
    <2>1. \A p \in Partitions : Visible(p) = <<>>
      BY NothingVisible
    <2>2. \A p \in Partitions : (IF Superseded(p) THEN <<>> ELSE buffer[p].rows) = <<>>
      BY DEF Init, Empty
    <2> QED
      BY <2>1, <2>2 DEF Table!Init
  <1>2. StoreInv /\ [Next]_vars => [Table!Next]_(Table!vars)
    BY StepImplements
  <1> QED
    BY <1>1, <1>2, Invariance, PTL DEF Spec, ImplementsTable, Table!Spec
=============================================================================
