--------------------------- MODULE OperatorProofs ---------------------------
(***************************************************************************)
(* What the operators of the models return.  Arrangement: a finite set has *)
(* exactly one arrangement in a linear order; concatenating sequences goes *)
(* piece by piece.  DateRanges: merging keeps the days and leaves ranges   *)
(* that neither overlap nor touch, and what is missing of a request is     *)
(* exactly its days that are not complete.                                 *)
(***************************************************************************)
EXTENDS DateRanges, FiniteSetTheorems, SequenceTheorems, WellFoundedInduction, TLAPS

\* Counting down must end, which serves as the induction here.
LEMMA LeastNumber ==
  ASSUME NEW S \in SUBSET Nat, S # {}
  PROVE  \E n \in S : \A m \in S : n <= m
  <1>1. PICK n \in S : \A m \in S : ~(<<m, n>> \in OpToRel(<, Nat))
    BY NatLessThanWellFounded, WFMin
  <1>2. \A m \in S : n <= m
    <2> TAKE m \in S
    <2>1. ~(m < n)
      BY <1>1 DEF OpToRel
    <2> QED
      BY <2>1
  <1> QED
    BY <1>2

\* Induction over the numbers up to n, for a property given as the set of those that have it.
LEMMA CountingUp ==
  ASSUME NEW n \in Nat, NEW P, 0 \in P, \A i \in 1 .. n : i - 1 \in P => i \in P
  PROVE  \A i \in 0 .. n : i \in P
  <1> DEFINE bad == {i \in 0 .. n : i \notin P}
  <1> SUFFICES ASSUME bad # {} PROVE FALSE
    OBVIOUS
  <1>1. PICK i \in bad : \A j \in bad : i <= j
    <2>1. bad \in SUBSET Nat
      OBVIOUS
    <2> HIDE DEF bad
    <2> QED
      BY <2>1, LeastNumber
  <1>2. i \in 1 .. n /\ i - 1 \in 0 .. n /\ ~(i <= i - 1)
    OBVIOUS
  <1>3. i - 1 \in P
    BY <1>1, <1>2
  <1> QED
    BY <1>2, <1>3

\* step takes the value at i - 1 to the one at i.
Steps(step, n, S) == step \in [(1 .. n) \X S -> S]
Iterates(f, n, base, step) == f[0] = base /\ \A i \in 1 .. n : f[i] = step[<<i, f[i - 1]>>]

\* A recursion over the numbers up to n has a solution.
LEMMA IterationExists ==
  ASSUME NEW S, NEW n \in Nat, NEW base \in S, NEW step, Steps(step, n, S)
  PROVE  \E f \in [0 .. n -> S] : Iterates(f, n, base, step)
  <1> DEFINE Solves(f, m) == f \in [0 .. m -> S] /\ f[0] = base /\ \A i \in 1 .. m : f[i] = step[<<i, f[i - 1]>>]
             P == {m \in 0 .. n : \E f : Solves(f, m)}
  <1> USE DEF Steps
  <1>1. 0 \in P
    <2> DEFINE f == [i \in 0 .. 0 |-> base]
    <2>1. Solves(f, 0)
      OBVIOUS
    <2> HIDE DEF f, Solves
    <2> QED
      BY <2>1
  <1>2. ASSUME NEW m \in 1 .. n, m - 1 \in P PROVE m \in P
    <2>1. PICK f : Solves(f, m - 1)
      BY <1>2
    <2> DEFINE g == [i \in 0 .. m |-> IF i = m THEN step[<<m, f[m - 1]>>] ELSE f[i]]
    <2>2. f[m - 1] \in S /\ step[<<m, f[m - 1]>>] \in S
      BY <2>1
    <2>3. \A i \in 0 .. m : i # m => i \in 0 .. m - 1
      OBVIOUS
    <2>4. g \in [0 .. m -> S]
      BY <2>1, <2>2, <2>3
    <2>5. g[0] = base
      BY <2>1
    <2>6. ASSUME NEW i \in 1 .. m PROVE g[i] = step[<<i, g[i - 1]>>]
      <3>1. CASE i = m
        <4>1. i - 1 \in 0 .. m /\ i - 1 # m /\ i \in 0 .. m
          BY <3>1
        <4> QED
          BY <3>1, <4>1
      <3>2. CASE i # m
        <4>1. i \in 1 .. m - 1 /\ i - 1 \in 0 .. m /\ i - 1 # m
          BY <3>2
        <4> QED
          BY <3>2, <4>1, <2>1
      <3> QED
        BY <3>1, <3>2
    <2>7. Solves(g, m)
      BY <2>4, <2>5, <2>6
    <2> HIDE DEF g, Solves
    <2> QED
      BY <2>7
  <1> HIDE DEF P
  <1>3. n \in P
    BY <1>1, <1>2, CountingUp
  <1> QED
    BY <1>3 DEF P, Iterates

LEMMA SameFunction ==
  ASSUME NEW D, NEW S, NEW T, NEW f \in [D -> S], NEW g \in [D -> T], \A x \in D : f[x] = g[x]
  PROVE  f = g
  OBVIOUS

LEMMA FunctionIsSequence ==
  ASSUME NEW S, NEW n \in Nat, NEW f \in [1 .. n -> S]
  PROVE  f \in Seq(S) /\ Len(f) = n
  OBVIOUS

-----------------------------------------------------------------------------
(* Arrangements. *)

\* R is a linear order of S.
Linear(S, R) ==
  /\ \A x \in S : <<x, x>> \notin R
  /\ \A x, y \in S : x = y \/ <<x, y>> \in R \/ <<y, x>> \in R
  /\ \A x, y, z \in S : <<x, y>> \in R /\ <<y, z>> \in R => <<x, z>> \in R

\* s lists the elements of S in the order R.
InOrder(s, S, R) ==
  /\ s \in [1 .. Cardinality(S) -> S]
  /\ \A i, j \in 1 .. Cardinality(S) : i < j => <<s[i], s[j]>> \in R

LEMMA LinearSubset ==
  ASSUME NEW S, NEW R, Linear(S, R), NEW T \in SUBSET S
  PROVE  Linear(T, R)
  BY DEF Linear

\* The last element of a finite set.
LEMMA LastElement ==
  ASSUME NEW S, NEW R, Linear(S, R), IsFiniteSet(S), S # {}
  PROVE  \E m \in S : \A x \in S \ {m} : <<x, m>> \in R
  <1> DEFINE Lacks(T) == ~ \E m \in T : \A x \in T \ {m} : <<x, m>> \in R
             bad == {n \in Nat : \E T \in SUBSET S : T # {} /\ Cardinality(T) = n /\ Lacks(T)}
  <1> SUFFICES ASSUME bad # {} PROVE FALSE
    BY FS_CardinalityType
  <1>1. PICK n \in bad : \A k \in bad : n <= k
    <2> HIDE DEF bad
    <2>1. bad \in SUBSET Nat
      BY DEF bad
    <2> QED
      BY <2>1, LeastNumber
  <1>2. PICK T \in SUBSET S : T # {} /\ Cardinality(T) = n /\ Lacks(T)
    BY <1>1
  <1>3. PICK a \in T : TRUE
    BY <1>2
  <1>4. IsFiniteSet(T) /\ IsFiniteSet(T \ {a}) /\ Cardinality(T \ {a}) = n - 1 /\ n \in Nat
    BY <1>1, <1>2, <1>3, FS_Subset, FS_RemoveElement
  <1>5. T \ {a} # {}
    BY <1>2, <1>3
  <1>6. n - 1 \notin bad
    BY <1>1, <1>4
  <1>7. n - 1 \in Nat
    BY <1>4, FS_CardinalityType
  <1>8. ~Lacks(T \ {a})
    BY <1>2, <1>4, <1>5, <1>6, <1>7
  <1>9. PICK m \in T \ {a} : \A x \in (T \ {a}) \ {m} : <<x, m>> \in R
    BY <1>8
  <1>10. CASE <<a, m>> \in R
    <2>1. \A x \in T \ {m} : <<x, m>> \in R
      BY <1>9, <1>10
    <2> QED
      BY <2>1, <1>2, <1>9
  <1>11. CASE <<m, a>> \in R
    <2>1. \A x \in T \ {a} : <<x, a>> \in R
      <3> TAKE x \in T \ {a}
      <3>1. CASE x = m
        BY <3>1, <1>11
      <3>2. CASE x # m
        BY <3>2, <1>2, <1>3, <1>9, <1>11 DEF Linear
      <3> QED
        BY <3>1, <3>2
    <2> QED
      BY <2>1, <1>2, <1>3
  <1> QED
    BY <1>2, <1>3, <1>9, <1>10, <1>11 DEF Linear

LEMMA OrderExists ==
  ASSUME NEW S, NEW R, Linear(S, R), IsFiniteSet(S)
  PROVE  \E s : InOrder(s, S, R)
  <1> DEFINE bad == {n \in Nat : \E T \in SUBSET S : Cardinality(T) = n /\ ~ \E s : InOrder(s, T, R)}
  <1> SUFFICES ASSUME bad # {} PROVE FALSE
    BY FS_CardinalityType
  <1>1. PICK n \in bad : \A k \in bad : n <= k
    <2> HIDE DEF bad
    <2>1. bad \in SUBSET Nat
      BY DEF bad
    <2> QED
      BY <2>1, LeastNumber
  <1>2. PICK T \in SUBSET S : Cardinality(T) = n /\ ~ \E s : InOrder(s, T, R)
    BY <1>1
  <1>3. IsFiniteSet(T) /\ n \in Nat
    BY <1>1, <1>2, FS_Subset
  <1>4. CASE T = {}
    <2>1. InOrder([i \in 1 .. Cardinality(T) |-> i], T, R)
      BY <1>4, FS_EmptySet DEF InOrder
    <2> QED
      BY <2>1, <1>2
  <1>5. CASE T # {}
    <2>1. PICK m \in T : \A x \in T \ {m} : <<x, m>> \in R
      <3> HIDE DEF bad
      <3>1. Linear(T, R)
        BY <1>2, LinearSubset
      <3> QED
        BY <3>1, <1>3, <1>5, LastElement
    <2>2. IsFiniteSet(T \ {m}) /\ Cardinality(T \ {m}) = n - 1
      BY <1>2, <1>3, <2>1, FS_RemoveElement
    <2>3. n - 1 \in Nat
      BY <2>2, FS_CardinalityType
    <2>4. n - 1 \notin bad
      BY <1>1, <1>3
    <2>5. PICK s : InOrder(s, T \ {m}, R)
      BY <2>2, <2>3, <2>4
    <2>9. s \in [1 .. n - 1 -> T \ {m}]
      BY <2>2, <2>5 DEF InOrder
    <2>10. \A i, j \in 1 .. n - 1 : i < j => <<s[i], s[j]>> \in R
      BY <2>2, <2>5 DEF InOrder
    <2> HIDE DEF bad
    <2> DEFINE t == [i \in 1 .. n |-> IF i = n THEN m ELSE s[i]]
    <2>6. t \in [1 .. n -> T]
      <3>1. \A i \in 1 .. n : i # n => i \in 1 .. n - 1
        BY <1>3
      <3> QED
        BY <3>1, <2>1, <2>9
    <2>7. \A i, j \in 1 .. n : i < j => <<t[i], t[j]>> \in R
      <3> TAKE i, j \in 1 .. n
      <3> HAVE i < j
      <3>1. i \in 1 .. n - 1 /\ t[i] = s[i] /\ s[i] \in T \ {m}
        <4>1. i \in 1 .. n - 1 /\ i # n
          BY <1>3
        <4> QED
          BY <4>1, <2>9
      <3>2. CASE j = n
        BY <3>1, <3>2, <2>1
      <3>3. CASE j # n
        <4>1. j \in 1 .. n - 1
          BY <1>3, <3>3
        <4> QED
          BY <3>1, <3>3, <4>1, <2>10
      <3> QED
        BY <3>2, <3>3
    <2>8. InOrder(t, T, R)
      BY <2>6, <2>7, <1>2 DEF InOrder
    <2> QED
      BY <2>8, <1>2
  <1> QED
    BY <1>4, <1>5

LEMMA ArrangedInOrder ==
  ASSUME NEW S, NEW R, Linear(S, R), IsFiniteSet(S)
  PROVE  InOrder(Arranged(S, R), S, R)
  <1>1. PICK s : InOrder(s, S, R)
    BY OrderExists
  <1>2. \E a \in [1 .. Cardinality(S) -> S] :
          \A i, j \in 1 .. Cardinality(S) : i < j => <<a[i], a[j]>> \in R
    BY <1>1 DEF InOrder
  <1> QED
    BY <1>2 DEF InOrder, Arranged

\* An arrangement lists every element, and lists it once.
LEMMA OrderIsBijective ==
  ASSUME NEW S, NEW R, Linear(S, R), IsFiniteSet(S), NEW s, InOrder(s, S, R)
  PROVE  /\ \A i, j \in 1 .. Cardinality(S) : s[i] = s[j] => i = j
         /\ \A x \in S : \E i \in 1 .. Cardinality(S) : s[i] = x
  <1>1. Cardinality(S) \in Nat
    BY FS_CardinalityType
  <1>2. \A i, j \in 1 .. Cardinality(S) : s[i] = s[j] => i = j
    <2> SUFFICES ASSUME NEW i \in 1 .. Cardinality(S), NEW j \in 1 .. Cardinality(S),
                        s[i] = s[j], i # j
                 PROVE  FALSE
      OBVIOUS
    <2>1. i < j \/ j < i
      BY <1>1
    <2> QED
      BY <2>1 DEF InOrder, Linear
  <1>3. s \in Injection(1 .. Cardinality(S), S)
    BY <1>2 DEF InOrder, Injection, IsInjective
  <1>4. IsFiniteSet(1 .. Cardinality(S)) /\ Cardinality(1 .. Cardinality(S)) = Cardinality(S)
    BY <1>1, FS_Interval
  <1>5. s \in Surjection(1 .. Cardinality(S), S)
    BY <1>3, <1>4, FS_Injection
  <1> QED
    BY <1>2, <1>5 DEF Surjection

\* There is no other.
LEMMA OrderIsUnique ==
  ASSUME NEW S, NEW R, Linear(S, R), IsFiniteSet(S),
         NEW s, InOrder(s, S, R), NEW t, InOrder(t, S, R)
  PROVE  s = t
  <1>1. Cardinality(S) \in Nat
    BY FS_CardinalityType
  <1> DEFINE bad == {i \in 1 .. Cardinality(S) : s[i] # t[i]}
  <1>2. CASE bad = {}
    <2>1. s \in [1 .. Cardinality(S) -> S] /\ t \in [1 .. Cardinality(S) -> S]
      BY DEF InOrder
    <2>2. \A i \in 1 .. Cardinality(S) : s[i] = t[i]
      BY <1>2
    <2> DEFINE D == 1 .. Cardinality(S)
    <2>3. s \in [D -> S] /\ t \in [D -> S] /\ \A i \in D : s[i] = t[i]
      BY <2>1, <2>2
    <2> HIDE DEF bad, D
    <2> QED
      BY <2>3, SameFunction
  <1>3. CASE bad # {}
    <2>1. PICK i \in bad : \A j \in bad : i <= j
      <3>1. bad \in SUBSET Nat
        BY <1>1
      <3> HIDE DEF bad
      <3> QED
        BY <3>1, <1>3, LeastNumber
    <2>2. i \in 1 .. Cardinality(S) /\ s[i] # t[i] /\ s[i] \in S /\ t[i] \in S
      BY DEF InOrder
    <2>3. \A j \in 1 .. Cardinality(S) : j < i => s[j] = t[j]
      BY <2>1, <1>1
    <2>4. PICK j \in 1 .. Cardinality(S) : t[j] = s[i]
      BY <2>2, OrderIsBijective
    <2>5. PICK k \in 1 .. Cardinality(S) : s[k] = t[i]
      BY <2>2, OrderIsBijective
    <2>6. i < j
      BY <2>2, <2>3, <2>4, <1>1, OrderIsBijective
    <2>7. i < k
      BY <2>2, <2>3, <2>5, <1>1, OrderIsBijective
    <2>8. <<t[i], s[i]>> \in R /\ <<s[i], t[i]>> \in R
      BY <2>2, <2>4, <2>5, <2>6, <2>7 DEF InOrder
    <2> QED
      BY <2>2, <2>8 DEF Linear
  <1> QED
    BY <1>2, <1>3

LEMMA ArrangedIs ==
  ASSUME NEW S, NEW R, Linear(S, R), IsFiniteSet(S), NEW s, InOrder(s, S, R)
  PROVE  Arranged(S, R) = s
  BY ArrangedInOrder, OrderIsUnique

LEMMA AscendingIs ==
  ASSUME NEW S \in SUBSET Nat, IsFiniteSet(S)
  PROVE  /\ Ascending(S) \in Seq(S) /\ Len(Ascending(S)) = Cardinality(S)
         /\ \A i, j \in DOMAIN Ascending(S) : i < j => Ascending(S)[i] < Ascending(S)[j]
         /\ ToSet(Ascending(S)) = S
  <1> DEFINE R == {x \in S \X S : x[1] < x[2]}
  <1>1. Linear(S, R)
    BY DEF Linear
  <1> DEFINE s == Arranged(S, R)
             n == Cardinality(S)
  <1>2. n \in Nat
    BY FS_CardinalityType
  <1>3. InOrder(s, S, R)
    <2> HIDE DEF R
    <2> QED
      BY <1>1, ArrangedInOrder
  <1>4. /\ \A i, j \in 1 .. n : s[i] = s[j] => i = j
        /\ \A x \in S : \E i \in 1 .. n : s[i] = x
    <2> HIDE DEF R, s
    <2> QED
      BY <1>1, <1>3, OrderIsBijective
  <1>5. s \in [1 .. n -> S] /\ \A i, j \in 1 .. n : i < j => s[i] < s[j]
    BY <1>3 DEF InOrder
  <1>6. Ascending(S) = s
    BY DEF Ascending
  <1> HIDE DEF s, n
  <1>7. s \in Seq(S) /\ Len(s) = n /\ DOMAIN s = 1 .. n
    BY <1>2, <1>5, FunctionIsSequence
  <1>8. ToSet(s) = S
    <2>1. \A i \in 1 .. n : s[i] \in S
      BY <1>5
    <2>2. ToSet(s) \subseteq S
      BY <2>1, <1>7 DEF ToSet
    <2>3. \A x \in S : x \in ToSet(s)
      BY <1>4, <1>7 DEF ToSet
    <2> QED
      BY <2>2, <2>3
  <1> QED
    BY <1>5, <1>6, <1>7, <1>8 DEF n

-----------------------------------------------------------------------------
(* Concatenation. *)

\* g[i] is the concatenation of the first i sequences.
Partials(g, ss, n) ==
  \A i \in 1 .. n : g[i] = IF i = 1 THEN ss[i] ELSE g[i - 1] \o ss[i]

LEMMA PartialsExist ==
  ASSUME NEW X, NEW ss \in Seq(Seq(X)), NEW n \in 1 .. Len(ss)
  PROVE  \E g \in [1 .. n -> Seq(X)] : Partials(g, ss, n)
  <1> DEFINE bad == {m \in 1 .. Len(ss) : ~ \E g \in [1 .. m -> Seq(X)] : Partials(g, ss, m)}
  <1> SUFFICES ASSUME bad # {} PROVE FALSE
    OBVIOUS
  <1>1. PICK m \in bad : \A k \in bad : m <= k
    <2>1. bad \in SUBSET Nat
      OBVIOUS
    <2> HIDE DEF bad
    <2> QED
      BY <2>1, LeastNumber
  <1>2. m \in 1 .. Len(ss) /\ ~ \E g \in [1 .. m -> Seq(X)] : Partials(g, ss, m)
    OBVIOUS
  <1>3. \A k \in 1 .. m - 1 : \E g \in [1 .. k -> Seq(X)] : Partials(g, ss, k)
    <2> TAKE k \in 1 .. m - 1
    <2>1. k \in 1 .. Len(ss) /\ ~(m <= k)
      BY <1>2
    <2>2. k \notin bad
      BY <2>1, <1>1
    <2> QED
      BY <2>1, <2>2
  <1> HIDE DEF bad
  <1>4. CASE m = 1
    <2> DEFINE g == [i \in 1 .. 1 |-> ss[i]]
    <2>1. g \in [1 .. m -> Seq(X)] /\ Partials(g, ss, m)
      BY <1>2, <1>4 DEF Partials
    <2> QED
      BY <2>1, <1>2
  <1>5. CASE m # 1
    <2>1. m - 1 \in 1 .. m - 1
      BY <1>2, <1>5
    <2>2. PICK f \in [1 .. m - 1 -> Seq(X)] : Partials(f, ss, m - 1)
      BY <1>3, <2>1
    <2> DEFINE g == [i \in 1 .. m |-> IF i = m THEN f[m - 1] \o ss[m] ELSE f[i]]
    <2>3. f[m - 1] \o ss[m] \in Seq(X)
      BY <1>2, <2>1
    <2>4. \A i \in 1 .. m : i # m => i \in 1 .. m - 1
      BY <1>2
    <2>5. g \in [1 .. m -> Seq(X)]
      BY <2>3, <2>4
    <2>6. ASSUME NEW i \in 1 .. m
          PROVE  g[i] = IF i = 1 THEN ss[i] ELSE g[i - 1] \o ss[i]
      <3>1. CASE i = m
        <4>1. i # 1 /\ i - 1 \in 1 .. m /\ i - 1 # m
          BY <3>1, <1>2, <1>5
        <4> QED
          BY <3>1, <4>1
      <3>2. CASE i # m /\ i # 1
        <4>1. i \in 1 .. m - 1 /\ i - 1 \in 1 .. m /\ i - 1 # m
          BY <3>2, <1>2
        <4> QED
          BY <3>2, <4>1, <2>2 DEF Partials
      <3>3. CASE i # m /\ i = 1
        BY <3>3, <2>2, <2>4 DEF Partials
      <3> QED
        BY <3>1, <3>2, <3>3
    <2>7. Partials(g, ss, m)
      BY <2>6 DEF Partials
    <2> HIDE DEF g
    <2> QED
      BY <2>5, <2>7, <1>2
  <1> QED
    BY <1>4, <1>5

LEMMA FlattenIs ==
  ASSUME NEW X, NEW ss \in Seq(Seq(X)), Len(ss) > 0,
         NEW g \in [1 .. Len(ss) -> Seq(X)], Partials(g, ss, Len(ss))
  PROVE  FlattenSeq(ss) = g[Len(ss)]
  <1> DEFINE Satisfies(h) == h = [i \in 1 .. Len(ss) |-> IF i = 1 THEN ss[i] ELSE h[i - 1] \o ss[i]]
             f == CHOOSE h : Satisfies(h)
  <1>1. Satisfies(g)
    <2>1. \A i \in 1 .. Len(ss) : g[i] = IF i = 1 THEN ss[i] ELSE g[i - 1] \o ss[i]
      BY DEF Partials
    <2> DEFINE e == [i \in 1 .. Len(ss) |-> IF i = 1 THEN ss[i] ELSE g[i - 1] \o ss[i]]
    <2>2. e \in [1 .. Len(ss) -> Seq(X)] /\ \A i \in 1 .. Len(ss) : e[i] = g[i]
      BY <2>1
    <2>3. g = e
      BY <2>2
    <2> QED
      BY <2>3
  <1>2. Satisfies(f)
    <2> HIDE DEF Satisfies
    <2> QED
      BY <1>1
  <1>3. FlattenSeq(ss) = f[Len(ss)]
    BY DEF FlattenSeq
  <1>4. \A i \in 1 .. Len(ss) : f[i] = IF i = 1 THEN ss[i] ELSE f[i - 1] \o ss[i]
    <2> HIDE DEF f
    <2> QED
      BY <1>2
  <1> HIDE DEF f, Satisfies
  <1> DEFINE bad == {i \in 1 .. Len(ss) : f[i] # g[i]}
  <1>5. bad = {}
    <2> SUFFICES ASSUME bad # {} PROVE FALSE
      OBVIOUS
    <2>1. PICK i \in bad : \A j \in bad : i <= j
      <3>1. bad \in SUBSET Nat
        OBVIOUS
      <3> HIDE DEF bad
      <3> QED
        BY <3>1, LeastNumber
    <2>2. i \in 1 .. Len(ss) /\ f[i] # g[i]
      OBVIOUS
    <2>3. CASE i = 1
      BY <2>2, <2>3, <1>4 DEF Partials
    <2>4. CASE i # 1
      <3>1. i - 1 \in 1 .. Len(ss) /\ f[i - 1] = g[i - 1]
        BY <2>1, <2>2, <2>4
      <3>2. f[i] = f[i - 1] \o ss[i] /\ g[i] = g[i - 1] \o ss[i]
        BY <2>2, <2>4, <1>4 DEF Partials
      <3> QED
        BY <2>2, <3>1, <3>2
    <2> QED
      BY <2>3, <2>4
  <1>6. Len(ss) \in 1 .. Len(ss)
    OBVIOUS
  <1>7. f[Len(ss)] = g[Len(ss)]
    BY <1>5, <1>6
  <1> QED
    BY <1>3, <1>7

LEMMA FlattenEmpty == FlattenSeq(<<>>) = <<>>
  BY DEF FlattenSeq

\* f is in order by R.
OrderedBy(f, R) == \A i, j \in DOMAIN f : i < j => <<f[i], f[j]>> \in R
Follow(s, t, R) == \A i \in DOMAIN s, j \in DOMAIN t : <<s[i], t[j]>> \in R
Has(f, x) == \E i \in DOMAIN f : f[i] = x

\* One more piece at the end.
LEMMA ConcatenationIs ==
  ASSUME NEW X, NEW s \in Seq(X), NEW t \in Seq(X)
  PROVE  /\ s \o t \in Seq(X)
         /\ \A x : Has(s \o t, x) <=> Has(s, x) \/ Has(t, x)
         /\ \A R : OrderedBy(s, R) /\ OrderedBy(t, R) /\ Follow(s, t, R) => OrderedBy(s \o t, R)
  <1> DEFINE u == s \o t
  <1>1. /\ u \in Seq(X) /\ DOMAIN u = 1 .. Len(s) + Len(t) /\ Len(s) \in Nat /\ Len(t) \in Nat
        /\ DOMAIN s = 1 .. Len(s) /\ DOMAIN t = 1 .. Len(t)
        /\ \A i \in 1 .. Len(s) : u[i] = s[i]
        /\ \A i \in 1 .. Len(t) : u[Len(s) + i] = t[i]
    OBVIOUS
  <1> HIDE DEF u
  <1>2. \A i \in DOMAIN u : (i \in DOMAIN s /\ u[i] = s[i])
                            \/ (i - Len(s) \in DOMAIN t /\ u[i] = t[i - Len(s)] /\ i > Len(s))
    <2> TAKE i \in DOMAIN u
    <2>1. CASE i <= Len(s)
      BY <1>1, <2>1
    <2>2. CASE i > Len(s)
      <3>1. i - Len(s) \in 1 .. Len(t) /\ Len(s) + (i - Len(s)) = i
        BY <1>1, <2>2
      <3> QED
        BY <1>1, <2>2, <3>1
    <2> QED
      BY <1>1, <2>1, <2>2
  <1>3. ASSUME NEW x
        PROVE Has(u, x) <=> Has(s, x) \/ Has(t, x)
    <2>1. ASSUME NEW i \in DOMAIN s, s[i] = x PROVE \E j \in DOMAIN u : u[j] = x
      BY <1>1, <2>1
    <2>2. ASSUME NEW i \in DOMAIN t, t[i] = x PROVE \E j \in DOMAIN u : u[j] = x
      <3>1. Len(s) + i \in DOMAIN u /\ u[Len(s) + i] = x
        BY <1>1, <2>2
      <3> QED
        BY <3>1
    <2>3. ASSUME NEW i \in DOMAIN u, u[i] = x PROVE (\E j \in DOMAIN s : s[j] = x) \/ (\E j \in DOMAIN t : t[j] = x)
      BY <1>2, <2>3
    <2> QED
      BY <2>1, <2>2, <2>3 DEF Has
  <1>4. ASSUME NEW R, OrderedBy(s, R), OrderedBy(t, R), Follow(s, t, R)
        PROVE  OrderedBy(u, R)
    <2> SUFFICES ASSUME NEW i \in DOMAIN u, NEW j \in DOMAIN u, i < j PROVE <<u[i], u[j]>> \in R
      BY DEF OrderedBy
    <2>1. CASE i \in DOMAIN s /\ u[i] = s[i]
      BY <1>2, <1>4, <2>1 DEF OrderedBy, Follow
    <2>2. CASE i - Len(s) \in DOMAIN t /\ u[i] = t[i - Len(s)] /\ i > Len(s)
      <3>1. i \in Nat /\ j \in Nat
        BY <1>1
      <3>2. j - Len(s) \in DOMAIN t /\ u[j] = t[j - Len(s)]
        BY <1>1, <1>2, <2>2, <3>1
      <3>3. i - Len(s) < j - Len(s)
        BY <1>1, <3>1
      <3> QED
        BY <1>4, <2>2, <3>2, <3>3 DEF OrderedBy
    <2> QED
      BY <1>2, <2>1, <2>2
  <1> QED
    BY <1>1, <1>3, <1>4 DEF u

\* The elements of a concatenation are those of its pieces, and in order if the pieces are, and follow
\* one another.
LEMMA FlattenElements ==
  ASSUME NEW X, NEW ss \in Seq(Seq(X))
  PROVE  LET F == FlattenSeq(ss)
         IN  /\ F \in Seq(X)
             /\ \A x : Has(F, x) <=> \E k \in DOMAIN ss : Has(ss[k], x)
             /\ \A R : /\ \A k \in DOMAIN ss : OrderedBy(ss[k], R)
                       /\ \A k, l \in DOMAIN ss : k < l => Follow(ss[k], ss[l], R)
                       => OrderedBy(F, R)
  <1>1. CASE ss = <<>>
    <2>1. FlattenSeq(ss) = <<>> /\ DOMAIN ss = {} /\ DOMAIN FlattenSeq(ss) = {}
      BY <1>1, FlattenEmpty
    <2> QED
      BY <2>1 DEF OrderedBy, Has
  <1>2. CASE ss # <<>>
    <2> DEFINE n == Len(ss)
    <2>1. n \in Nat \ {0} /\ n \in 1 .. n /\ DOMAIN ss = 1 .. n /\ \A k \in 1 .. n : ss[k] \in Seq(X)
      BY <1>2
    <2>2. PICK g \in [1 .. n -> Seq(X)] : Partials(g, ss, n)
      BY <2>1, PartialsExist
    <2>3. FlattenSeq(ss) = g[n]
      BY <2>1, <2>2, FlattenIs
    <2>4. /\ \A k \in 1 .. n : g[k] \in Seq(X)
          /\ \A k \in 1 .. n : g[k] = IF k = 1 THEN ss[k] ELSE g[k - 1] \o ss[k]
      BY <2>2 DEF Partials
    <2> HIDE DEF n
    <2> DEFINE Elements(k) == \A x : Has(g[k], x) <=> \E l \in 1 .. k : Has(ss[l], x)
               Fits(R) == /\ \A k \in 1 .. n : OrderedBy(ss[k], R)
                          /\ \A k, l \in 1 .. n : k < l => Follow(ss[k], ss[l], R)
               P == {k \in 0 .. n : k = 0 \/ (Elements(k) /\ \A R : Fits(R) => OrderedBy(g[k], R))}
    <2>5. ASSUME NEW k \in 1 .. n, k - 1 \in P PROVE Elements(k) /\ \A R : Fits(R) => OrderedBy(g[k], R)
      <3>1. CASE k = 1
        <4>1. g[k] = ss[k]
          BY <2>4, <3>1
        <4>2. \A l : l \in 1 .. k <=> l = k
          BY <3>1
        <4>3. \A x : Has(g[k], x) <=> \E l \in 1 .. k : Has(ss[l], x)
          <5> SUFFICES ASSUME NEW x PROVE Has(g[k], x) <=> \E l \in 1 .. k : Has(ss[l], x)
            OBVIOUS
          <5>1. (\E l \in 1 .. k : Has(ss[l], x)) <=> Has(ss[k], x)
            BY <4>2, Zenon
          <5>2. Has(g[k], x) <=> Has(ss[k], x)
            BY <4>1, Zenon
          <5> QED
            BY <5>1, <5>2
        <4>4. \A R : Fits(R) => OrderedBy(g[k], R)
          BY <4>1
        <4> QED
          BY <4>3, <4>4
      <3>2. CASE k # 1
        <4>1. k - 1 \in 1 .. n /\ g[k] = g[k - 1] \o ss[k] /\ g[k - 1] \in Seq(X) /\ ss[k] \in Seq(X) /\ k - 1 # 0
          BY <2>1, <2>4, <3>2
        <4>2. Elements(k - 1) /\ \A R : Fits(R) => OrderedBy(g[k - 1], R)
          BY <2>5, <4>1
        <4>3. \A l : l \in 1 .. k <=> l \in 1 .. k - 1 \/ l = k
          BY <2>1
        <4>4. Elements(k)
          <5> SUFFICES ASSUME NEW x
                       PROVE Has(g[k], x) <=> \E l \in 1 .. k : Has(ss[l], x)
            OBVIOUS
          <5>1. Has(g[k], x) <=> Has(g[k - 1], x) \/ Has(ss[k], x)
            BY <4>1, ConcatenationIs
          <5>2. Has(g[k - 1], x) <=> \E l \in 1 .. k - 1 : Has(ss[l], x)
            BY <4>2
          <5> QED
            BY <4>3, <5>1, <5>2
        <4>5. ASSUME NEW R, Fits(R) PROVE OrderedBy(g[k], R)
          <5>1. OrderedBy(g[k - 1], R) /\ OrderedBy(ss[k], R)
            BY <4>2, <4>5
          <5>2. Follow(g[k - 1], ss[k], R)
            <6> SUFFICES ASSUME NEW i \in DOMAIN g[k - 1], NEW j \in DOMAIN ss[k] PROVE <<g[k - 1][i], ss[k][j]>> \in R
              BY DEF Follow
            <6>1. Has(g[k - 1], g[k - 1][i])
              BY DEF Has
            <6>2. PICK l \in 1 .. k - 1 : Has(ss[l], g[k - 1][i])
              BY <4>2, <6>1
            <6>3. l \in 1 .. n /\ l < k
              BY <2>1, <6>2
            <6>4. Follow(ss[l], ss[k], R)
              BY <4>5, <6>3
            <6> QED
              BY <6>2, <6>4 DEF Follow, Has
          <5> QED
            BY <4>1, <5>1, <5>2, ConcatenationIs
        <4> QED
          BY <4>4, <4>5
      <3> QED
        BY <3>1, <3>2
    <2>6. n \in P
      <3> HIDE DEF Elements, Fits
      <3>1. 0 \in P
        BY <2>1
      <3>2. \A k \in 1 .. n : k - 1 \in P => k \in P
        <4> TAKE k \in 1 .. n
        <4>1. k \in 0 .. n
          BY <2>1
        <4> QED
          BY <2>5, <4>1
      <3> HIDE DEF P
      <3>3. \A k \in 0 .. n : k \in P
        BY <2>1, <3>1, <3>2, CountingUp
      <3> QED
        BY <2>1, <3>3
    <2>7. Elements(n) /\ \A R : Fits(R) => OrderedBy(g[n], R)
      BY <2>1, <2>6
    <2> QED
      BY <2>1, <2>3, <2>4, <2>7
  <1> QED
    BY <1>1, <1>2

LEMMA FlattenType ==
  ASSUME NEW X, NEW ss \in Seq(Seq(X))
  PROVE  FlattenSeq(ss) \in Seq(X)
  <1>1. CASE ss = <<>>
    <2>1. FlattenSeq(ss) = FlattenSeq(<<>>)
      BY <1>1
    <2>2. FlattenSeq(ss) = <<>>
      BY <2>1, FlattenEmpty
    <2> QED
      BY <2>2
  <1>2. CASE ss # <<>>
    <2>1. Len(ss) \in 1 .. Len(ss)
      BY <1>2
    <2>2. PICK g \in [1 .. Len(ss) -> Seq(X)] : Partials(g, ss, Len(ss))
      BY <2>1, PartialsExist
    <2>3. Len(ss) > 0
      BY <2>1
    <2>4. FlattenSeq(ss) = g[Len(ss)]
      BY <2>2, <2>3, FlattenIs
    <2>5. g[Len(ss)] \in Seq(X)
      BY <2>1
    <2> QED
      BY <2>4, <2>5
  <1> QED
    BY <1>1, <1>2

LEMMA FlattenAppend ==
  ASSUME NEW X, NEW ss \in Seq(Seq(X)), NEW s \in Seq(X)
  PROVE  FlattenSeq(Append(ss, s)) = FlattenSeq(ss) \o s
  <1> DEFINE tt == Append(ss, s)
  <1>1. tt \in Seq(Seq(X)) /\ Len(tt) = Len(ss) + 1 /\ Len(ss) \in Nat
        /\ tt[Len(tt)] = s /\ \A i \in 1 .. Len(ss) : tt[i] = ss[i]
    OBVIOUS
  <1> HIDE DEF tt
  <1>2. Len(tt) \in 1 .. Len(tt) /\ Len(tt) > 0
    BY <1>1
  <1>3. PICK g \in [1 .. Len(tt) -> Seq(X)] : Partials(g, tt, Len(tt))
    BY <1>1, <1>2, PartialsExist
  <1>4. FlattenSeq(tt) = g[Len(tt)]
    BY <1>1, <1>2, <1>3, FlattenIs
  <1>5. CASE Len(ss) = 0
    <2>1. FlattenSeq(ss) = <<>>
      BY <1>5, FlattenEmpty
    <2>2. g[Len(tt)] = s
      BY <1>1, <1>2, <1>3, <1>5 DEF Partials
    <2> QED
      BY <1>4, <2>1, <2>2 DEF tt
  <1>6. CASE Len(ss) > 0
    <2> DEFINE h == [i \in 1 .. Len(ss) |-> g[i]]
    <2>1. \A i \in 1 .. Len(ss) : i \in 1 .. Len(tt) /\ (i # 1 => i - 1 \in 1 .. Len(ss))
      BY <1>1
    <2>2. h \in [1 .. Len(ss) -> Seq(X)]
      BY <2>1
    <2>3. Partials(h, ss, Len(ss))
      BY <1>1, <1>3, <2>1 DEF Partials
    <2>4. FlattenSeq(ss) = h[Len(ss)]
      <3> HIDE DEF h
      <3> QED
        BY <1>6, <2>2, <2>3, FlattenIs
    <2>5. Len(tt) # 1 /\ Len(tt) - 1 = Len(ss) /\ Len(ss) \in 1 .. Len(ss)
      BY <1>1, <1>6
    <2>6. g[Len(tt)] = g[Len(ss)] \o s
      BY <1>1, <1>2, <1>3, <2>5 DEF Partials
    <2> QED
      BY <1>4, <2>4, <2>5, <2>6 DEF tt
  <1> QED
    BY <1>1, <1>5, <1>6

\* Splitting a sequence into pieces of T elements and concatenating them.
LEMMA Pieces ==
  ASSUME NEW n \in Nat, NEW T \in Nat \ {0}
  PROVE  LET k == (n + T - 1) \div T
         IN  k \in Nat /\ k * T >= n /\ (k - 1) * T < n /\ (n = 0 <=> k = 0)
  <1> DEFINE k == (n + T - 1) \div T
  <1>1. k \in Int /\ T * k <= n + T - 1 /\ n + T - 1 < T * k + T
    OBVIOUS
  <1> HIDE DEF k
  <1>2. k >= 0
    BY <1>1
  <1>3. T * k = k * T /\ (k - 1) * T = k * T - T
    BY <1>1
  <1>4. n = 0 => k = 0
    BY <1>1, <1>2
  <1> QED
    BY <1>1, <1>2, <1>3, <1>4 DEF k

LEMMA TimesMonotone ==
  ASSUME NEW a \in Nat, NEW b \in Nat, NEW T \in Nat, a <= b
  PROVE  a * T <= b * T
  <1>1. (b - a) * T >= 0
    OBVIOUS
  <1>2. (b - a) * T = b * T - a * T
    OBVIOUS
  <1> QED
    BY <1>1, <1>2

PiecesOf(s, T) ==
  [i \in 1 .. (Len(s) + T - 1) \div T |->
     SubSeq(s, (i - 1) * T + 1, IF i * T < Len(s) THEN i * T ELSE Len(s))]

LEMMA FlattenPieces ==
  ASSUME NEW X, NEW s \in Seq(X), NEW T \in Nat \ {0}, NEW ss, ss = PiecesOf(s, T)
  PROVE  /\ ss \in Seq(Seq(X)) /\ FlattenSeq(ss) = s
         /\ \A i \in DOMAIN ss : ss[i] # <<>>
  <1> DEFINE n == Len(s)
  <1>1. PICK k : k = (n + T - 1) \div T
    OBVIOUS
  <1>2. n \in Nat /\ k \in Nat /\ k * T >= n /\ (k - 1) * T < n /\ (n = 0 <=> k = 0)
    BY <1>1, Pieces
  <1> DEFINE End(i) == IF i * T < n THEN i * T ELSE n
  <1>3. ASSUME NEW i \in 1 .. k
        PROVE  /\ i * T \in Nat /\ (i - 1) * T \in Nat /\ (i - 1) * T < n
               /\ End(i) \in (i - 1) * T + 1 .. n
    <2>1. i - 1 \in Nat /\ k - 1 \in Nat /\ i - 1 <= k - 1
      BY <1>2
    <2>2. (i - 1) * T <= (k - 1) * T
      BY <2>1, TimesMonotone
    <2>3. i * T \in Nat /\ (i - 1) * T \in Nat /\ i * T = (i - 1) * T + T
      BY <2>1
    <2> QED
      BY <2>2, <2>3, <1>2
  <1>4. ss = [i \in 1 .. k |-> SubSeq(s, (i - 1) * T + 1, End(i))]
    BY <1>1 DEF PiecesOf
  <1>5. \A i \in 1 .. k : SubSeq(s, (i - 1) * T + 1, End(i)) \in Seq(X)
                          /\ SubSeq(s, (i - 1) * T + 1, End(i)) # <<>>
    <2> TAKE i \in 1 .. k
    <2>1. PICK a, b : a = (i - 1) * T + 1 /\ b = End(i)
      OBVIOUS
    <2>2. a \in 1 .. n /\ b \in a .. n
      BY <1>3, <2>1
    <2>3. SubSeq(s, a, b) \in Seq(X) /\ Len(SubSeq(s, a, b)) = b - a + 1
      BY <2>2
    <2>4. SubSeq(s, a, b) # <<>>
      BY <2>2, <2>3
    <2> HIDE DEF End
    <2> QED
      BY <2>1, <2>3, <2>4
  <1>6. ss \in Seq(Seq(X)) /\ Len(ss) = k /\ \A i \in DOMAIN ss : ss[i] # <<>>
    <2>1. ss \in [1 .. k -> Seq(X)]
      BY <1>4, <1>5
    <2>2. DOMAIN ss = 1 .. k
      BY <1>4
    <2>3. ss \in Seq(Seq(X)) /\ Len(ss) = k
      <3>1. k \in Nat
        BY <1>2
      <3> DEFINE Y == Seq(X)
      <3>2. ss \in [1 .. k -> Y]
        BY <2>1
      <3> HIDE DEF Y
      <3>3. ss \in Seq(Y) /\ Len(ss) = k
        BY <3>1, <3>2, FunctionIsSequence
      <3> QED
        BY <3>3 DEF Y
    <2> QED
      BY <2>2, <2>3, <1>4, <1>5
  <1>7. CASE n = 0
    BY <1>2, <1>6, <1>7, FlattenEmpty
  <1>8. CASE n # 0
    <2>1. k \in 1 .. k /\ Len(ss) > 0
      BY <1>2, <1>6, <1>8
    <2> DEFINE g == [i \in 1 .. k |-> SubSeq(s, 1, End(i))]
    <2>2. g \in [1 .. k -> Seq(X)]
      <3>1. \A i \in 1 .. k : SubSeq(s, 1, End(i)) \in Seq(X)
        <4> TAKE i \in 1 .. k
        <4>1. End(i) \in 1 .. n
          BY <1>3, <1>2
        <4> HIDE DEF End
        <4> QED
          BY <4>1, <1>2
      <3> HIDE DEF End
      <3> QED
        BY <3>1
    <2>3. ASSUME NEW i \in 1 .. k
          PROVE  g[i] = IF i = 1 THEN ss[i] ELSE g[i - 1] \o ss[i]
      <3>1. CASE i = 1
        <4>1. (i - 1) * T + 1 = 1
          BY <3>1
        <4> QED
          BY <3>1, <4>1, <1>4
      <3>2. CASE i # 1
        <4>1. i - 1 \in 1 .. k /\ i \in 1 .. k
          BY <3>2, <1>2
        <4>2. End(i - 1) = (i - 1) * T
          BY <1>3
        <4>3. PICK a, b : a = (i - 1) * T /\ b = End(i)
          OBVIOUS
        <4>4. a \in 1 .. n /\ b \in a .. n
          <5>1. PICK x : x = (i - 1 - 1) * T
            OBVIOUS
          <5>2. x \in Nat /\ a \in x + 1 .. n
            BY <1>3, <4>1, <4>2, <4>3, <5>1
          <5>3. b \in a + 1 .. n
            BY <1>3, <4>3
          <5> HIDE DEF End, n
          <5> QED
            BY <5>2, <5>3, <1>2
        <4>5. SubSeq(s, 1, a) \o SubSeq(s, a + 1, b) = SubSeq(s, 1, b)
          BY <4>4, <1>2, ConcatAdjacentSubSeq
        <4> HIDE DEF End, n
        <4> QED
          BY <3>2, <4>1, <4>2, <4>3, <4>5, <1>4
      <3> QED
        BY <3>1, <3>2
    <2>4. Partials(g, ss, Len(ss))
      BY <2>3, <1>6 DEF Partials
    <2>5. g[k] = s
      <3>1. End(k) = n
        BY <1>2, <1>3, <2>1
      <3>2. SubSeq(s, 1, n) = s
        BY SubSeqFull
      <3> QED
        BY <3>1, <3>2, <2>1
    <2>6. FlattenSeq(ss) = g[Len(ss)]
      <3> HIDE DEF g
      <3> QED
        BY <1>6, <2>1, <2>2, <2>4, FlattenIs
    <2> QED
      BY <1>6, <2>5, <2>6
  <1> QED
    BY <1>6, <1>7, <1>8

-----------------------------------------------------------------------------
(* Date ranges. *)

\* Nonempty ranges in order that neither overlap nor touch.
Apart(rs) ==
  /\ rs \in Seq(Int \X Int)
  /\ \A i \in DOMAIN rs : rs[i][1] <= rs[i][2]
  /\ \A i, j \in DOMAIN rs : i < j => rs[i][2] + 1 < rs[j][1]

In(day, r) == r[1] <= day /\ day <= r[2]

LEMMA DaysAre ==
  ASSUME NEW rs \in Seq(Int \X Int)
  PROVE  \A day : day \in DaysOf(rs) <=> day \in Int /\ \E i \in DOMAIN rs : In(day, rs[i])
  <1>1. \A i \in DOMAIN rs : rs[i][1] \in Int /\ rs[i][2] \in Int
    OBVIOUS
  <1>2. \A i \in DOMAIN rs : \A day : day \in rs[i][1] .. rs[i][2] <=> day \in Int /\ In(day, rs[i])
    BY <1>1 DEF In
  <1> QED
    BY <1>2 DEF DaysOf

-----------------------------------------------------------------------------
(* Merging. *)

LEMMA Lasts ==
  ASSUME NEW s \in Seq(Int \X Int), s # <<>>
  PROVE  /\ Len(s) \in Nat \ {0} /\ Len(s) \in DOMAIN s /\ DOMAIN s = 1 .. Len(s)
         /\ Last(s) = s[Len(s)] /\ Last(s) \in Int \X Int
         /\ Front(s) \in Seq(Int \X Int) /\ Len(Front(s)) = Len(s) - 1
         /\ DOMAIN Front(s) = 1 .. Len(s) - 1 /\ \A i \in 1 .. Len(s) - 1 : Front(s)[i] = s[i]
  <1>1. Len(s) \in Nat \ {0} /\ DOMAIN s = 1 .. Len(s)
    OBVIOUS
  <1>2. Last(s) = s[Len(s)] /\ Last(s) \in Int \X Int
    BY <1>1 DEF Last
  <1>3. Front(s) = SubSeq(s, 1, Len(s) - 1)
    BY DEF Front
  <1>4. 1 \in Int /\ Len(s) - 1 \in Int
    BY <1>1
  <1>5. SubSeq(s, 1, Len(s) - 1) = [i \in 1 .. Len(s) - 1 |-> s[i]]
    BY <1>1
  <1>6. \A i \in 1 .. Len(s) - 1 : s[i] \in Int \X Int
    BY <1>1
  <1>7. Front(s) \in [1 .. Len(s) - 1 -> Int \X Int]
    BY <1>3, <1>5, <1>6
  <1>8. Len(s) - 1 \in Nat
    BY <1>1
  <1> QED
    BY <1>1, <1>2, <1>3, <1>5, <1>7, <1>8, FunctionIsSequence

LEMMA Appending ==
  ASSUME NEW S, NEW s \in Seq(S), NEW x \in S
  PROVE  /\ Append(s, x) \in Seq(S) /\ Len(Append(s, x)) = Len(s) + 1 /\ Append(s, x) # <<>>
         /\ DOMAIN Append(s, x) = 1 .. Len(s) + 1 /\ DOMAIN s = 1 .. Len(s) /\ Len(s) \in Nat
         /\ \A i \in 1 .. Len(s) : Append(s, x)[i] = s[i]
         /\ Append(s, x)[Len(s) + 1] = x /\ Last(Append(s, x)) = x
  BY DEF Last

LEMMA ExtendedOnItsOwn ==
  ASSUME NEW m, Apart(m), NEW r \in Int \X Int, r[1] <= r[2], \A i \in DOMAIN m : m[i][2] + 1 < r[1]
  PROVE  Apart(Append(m, r)) /\ \A day \in Int : day \in DaysOf(Append(m, r)) <=> day \in DaysOf(m) \/ In(day, r)
  <1> DEFINE n == Append(m, r)
  <1>1. m \in Seq(Int \X Int)
    BY DEF Apart
  <1>2. /\ n \in Seq(Int \X Int) /\ Len(n) = Len(m) + 1 /\ Len(m) \in Nat
        /\ DOMAIN n = 1 .. Len(m) + 1 /\ DOMAIN m = 1 .. Len(m)
        /\ \A i \in 1 .. Len(m) : n[i] = m[i]
        /\ n[Len(m) + 1] = r
    BY <1>1, Appending
  <1> HIDE DEF n
  <1>3. \A i \in DOMAIN n : i \in DOMAIN m \/ i = Len(m) + 1
    BY <1>2
  <1>4. \A i \in DOMAIN n : n[i][1] <= n[i][2]
    BY <1>2, <1>3 DEF Apart
  <1>5. ASSUME NEW i \in DOMAIN n, NEW j \in DOMAIN n, i < j PROVE n[i][2] + 1 < n[j][1]
    <2>1. i \in DOMAIN m /\ n[i] = m[i]
      <3>1. PICK l \in Nat : l = Len(m)
        BY <1>2
      <3>2. i \in 1 .. l + 1 /\ j \in 1 .. l + 1
        BY <1>2, <3>1
      <3>3. i \in 1 .. l
        BY ONLY <3>2, <1>5, l \in Nat
      <3> QED
        BY <1>2, <3>1, <3>3
    <2>2. CASE j = Len(m) + 1
      BY <1>2, <2>1, <2>2
    <2>3. CASE j \in DOMAIN m
      <3>1. n[j] = m[j]
        BY <1>2, <2>3
      <3> QED
        BY <2>1, <2>3, <3>1, <1>5 DEF Apart
    <2> QED
      BY <2>2, <2>3, <1>3
  <1>6. ASSUME NEW day \in Int PROVE day \in DaysOf(n) <=> day \in DaysOf(m) \/ In(day, r)
    <2>1. day \in DaysOf(n) <=> \E i \in DOMAIN n : In(day, n[i])
      BY <1>2, DaysAre
    <2>2. day \in DaysOf(m) <=> \E i \in DOMAIN m : In(day, m[i])
      BY <1>1, DaysAre
    <2>3. \A i \in DOMAIN m : i \in DOMAIN n /\ n[i] = m[i]
      BY <1>2
    <2>4. Len(m) + 1 \in DOMAIN n /\ n[Len(m) + 1] = r
      BY <1>2
    <2> QED
      BY <2>1, <2>2, <2>3, <2>4, <1>3
  <1>7. Apart(n)
    BY <1>2, <1>4, <1>5 DEF Apart
  <1> QED
    BY <1>6, <1>7 DEF n

LEMMA ExtendedIs ==
  ASSUME NEW m, Apart(m), NEW r \in Int \X Int, r[1] <= r[2], m # <<>> => Last(m)[1] <= r[1]
  PROVE  /\ Apart(Extended(m, r)) /\ Extended(m, r) # <<>> /\ Last(Extended(m, r))[1] <= r[1]
         /\ \A day \in Int : day \in DaysOf(Extended(m, r)) <=> day \in DaysOf(m) \/ In(day, r)
  <1>1. m \in Seq(Int \X Int)
    BY DEF Apart
  <1>2. r[1] \in Int /\ r[2] \in Int
    OBVIOUS
  <1>3. CASE m = <<>> \/ r[1] > Last(m)[2] + 1
    <2>1. Extended(m, r) = Append(m, r)
      BY <1>3 DEF Extended
    <2>2. Append(m, r) # <<>> /\ Last(Append(m, r)) = r
      BY <1>1, Appending
    <2>3. \A i \in DOMAIN m : m[i][2] + 1 < r[1]
      <3> SUFFICES ASSUME NEW i \in DOMAIN m PROVE m[i][2] + 1 < r[1]
        OBVIOUS
      <3>1. m # <<>> /\ Last(m)[2] + 1 < r[1]
        <4>1. m # <<>>
          OBVIOUS
        <4>2. Last(m)[2] \in Int
          BY <1>1, <4>1, Lasts
        <4> QED
          BY <1>2, <1>3, <4>1, <4>2
      <3>2. Last(m) = m[Len(m)] /\ Len(m) \in DOMAIN m /\ i <= Len(m)
        BY <1>1, <3>1, Lasts
      <3>3. m[i] \in Int \X Int /\ m[Len(m)] \in Int \X Int
        BY <1>1, <3>2
      <3>4. i < Len(m) => m[i][2] + 1 < m[Len(m)][1] /\ m[Len(m)][1] <= m[Len(m)][2]
        BY <3>2 DEF Apart
      <3>5. m[i][2] \in Int /\ m[Len(m)][1] \in Int /\ m[Len(m)][2] \in Int
        BY <3>3
      <3>6. i \in Nat /\ Len(m) \in Nat
        BY <1>1
      <3> QED
        BY <1>2, <3>1, <3>2, <3>4, <3>5, <3>6
    <2> QED
      BY <1>2, <2>1, <2>2, <2>3, ExtendedOnItsOwn
  <1>4. CASE m # <<>> /\ ~(r[1] > Last(m)[2] + 1)
    <2> DEFINE l == m[Len(m)]
               x == <<l[1], Later(l[2], r[2])>>
               f == Front(m)
               n == Append(f, x)
    <2>1. Last(m) = l /\ l \in Int \X Int /\ Len(m) \in DOMAIN m /\ Len(m) \in Nat \ {0} /\ DOMAIN m = 1 .. Len(m)
      BY <1>1, <1>4, Lasts
    <2>2. Extended(m, r) = n
      BY <1>4, <2>1 DEF Extended
    <2>3. l[1] \in Int /\ l[2] \in Int /\ l[1] <= l[2]
      BY <2>1 DEF Apart
    <2>4. x \in Int \X Int /\ x[1] = l[1] /\ x[2] = Later(l[2], r[2])
      BY <1>2, <2>3 DEF Later
    <2>5. f \in Seq(Int \X Int) /\ Len(f) = Len(m) - 1 /\ DOMAIN f = 1 .. Len(m) - 1
          /\ \A i \in DOMAIN f : f[i] = m[i] /\ i \in DOMAIN m
      <3>1. f \in Seq(Int \X Int) /\ Len(f) = Len(m) - 1 /\ DOMAIN f = 1 .. Len(m) - 1
            /\ \A i \in 1 .. Len(m) - 1 : f[i] = m[i]
        BY <1>1, <1>4, Lasts
      <3>2. \A i \in 1 .. Len(m) - 1 : i \in DOMAIN m
        BY <2>1
      <3> QED
        BY <3>1, <3>2
    <2> HIDE DEF l, x, f, n
    <2>6. Apart(f)
      BY <2>5 DEF Apart
    <2>7. \A i \in DOMAIN f : f[i][2] + 1 < x[1]
      <3> SUFFICES ASSUME NEW i \in DOMAIN f PROVE f[i][2] + 1 < x[1]
        OBVIOUS
      <3>1. i < Len(m) /\ f[i] = m[i] /\ i \in DOMAIN m
        BY <2>1, <2>5
      <3>2. m[i][2] + 1 < l[1]
        BY <3>1, <2>1 DEF Apart, l
      <3> QED
        BY <3>1, <3>2, <2>4
    <2>8. x[1] <= x[2] /\ l[1] <= r[1]
      BY <1>2, <1>4, <2>1, <2>3, <2>4 DEF Later
    <2>9. Apart(n) /\ \A day \in Int : day \in DaysOf(n) <=> day \in DaysOf(f) \/ In(day, x)
      BY <2>4, <2>6, <2>7, <2>8, ExtendedOnItsOwn DEF n
    <2>10. n # <<>> /\ Last(n) = x
      BY <2>4, <2>5, Appending DEF n
    <2>11. ASSUME NEW day \in Int PROVE day \in DaysOf(m) <=> day \in DaysOf(f) \/ In(day, l)
      <3>1. day \in DaysOf(m) <=> \E i \in DOMAIN m : In(day, m[i])
        BY <1>1, DaysAre
      <3>2. day \in DaysOf(f) <=> \E i \in DOMAIN f : In(day, f[i])
        BY <2>5, DaysAre
      <3>3. \A i \in DOMAIN m : i \in DOMAIN f \/ i = Len(m)
        BY <2>1, <2>5
      <3> QED
        BY <3>1, <3>2, <3>3, <2>1, <2>5 DEF l
    <2>12. ASSUME NEW day \in Int PROVE In(day, x) <=> In(day, l) \/ In(day, r)
      <3>1. r[1] <= l[2] + 1
        BY <1>2, <1>4, <2>1, <2>3
      <3> QED
        BY <1>2, <2>3, <2>4, <2>8, <3>1 DEF In, Later
    <2> QED
      BY <2>2, <2>4, <2>8, <2>9, <2>10, <2>11, <2>12
  <1> QED
    BY <1>3, <1>4

\* The order in which sorted() puts the ranges: equal ones stay in their order.
Sorting(rs) ==
  {x \in (DOMAIN rs) \X (DOMAIN rs) :
     Precedes(rs[x[1]], rs[x[2]]) \/ (rs[x[1]] = rs[x[2]] /\ x[1] < x[2])}

LEMMA SortingIsLinear ==
  ASSUME NEW rs \in Seq(Int \X Int)
  PROVE  Linear(DOMAIN rs, Sorting(rs)) /\ \A i, j : <<i, j>> \in Sorting(rs) => rs[i][1] <= rs[j][1]
  <1>1. PICK D : D = DOMAIN rs
    OBVIOUS
  <1>2. PICK R : R = Sorting(rs)
    OBVIOUS
  <1>3. \A i \in D : i \in Nat /\ rs[i] \in Int \X Int
    BY <1>1
  <1>4. \A i \in D : i \in Nat /\ rs[i][1] \in Int /\ rs[i][2] \in Int
    BY <1>3
  <1>5. ASSUME NEW i \in D, NEW j \in D PROVE rs[i] = rs[j] <=> rs[i][1] = rs[j][1] /\ rs[i][2] = rs[j][2]
    <2>1. rs[i] = <<rs[i][1], rs[i][2]>> /\ rs[j] = <<rs[j][1], rs[j][2]>>
      BY <1>3
    <2> QED
      BY <2>1
  <1> DEFINE Lt(i, j) ==
        \/ rs[i][1] < rs[j][1]
        \/ rs[i][1] = rs[j][1] /\ rs[i][2] < rs[j][2]
        \/ rs[i][1] = rs[j][1] /\ rs[i][2] = rs[j][2] /\ i < j
  <1>6. R = {x \in D \X D : Lt(x[1], x[2])}
    <2>1. R = {x \in D \X D : Precedes(rs[x[1]], rs[x[2]]) \/ (rs[x[1]] = rs[x[2]] /\ x[1] < x[2])}
      BY <1>1, <1>2 DEF Sorting
    <2>2. ASSUME NEW x \in D \X D
          PROVE  Precedes(rs[x[1]], rs[x[2]]) \/ (rs[x[1]] = rs[x[2]] /\ x[1] < x[2]) <=> Lt(x[1], x[2])
      <3>1. x[1] \in D /\ x[2] \in D
        OBVIOUS
      <3> QED
        BY <3>1, <1>5 DEF Precedes
    <2> HIDE DEF Lt
    <2> QED
      BY <2>1, <2>2
  <1>7. ASSUME NEW i \in D PROVE ~Lt(i, i)
    <2>1. i \in Nat /\ rs[i][1] \in Int /\ rs[i][2] \in Int
      BY <1>4
    <2> QED
      BY ONLY <2>1
  <1>8. ASSUME NEW i \in D, NEW j \in D PROVE i = j \/ Lt(i, j) \/ Lt(j, i)
    <2>1. i \in Nat /\ j \in Nat /\ rs[i][1] \in Int /\ rs[j][1] \in Int /\ rs[i][2] \in Int /\ rs[j][2] \in Int
      BY <1>4
    <2> QED
      BY ONLY <2>1
  <1>9. ASSUME NEW i \in D, NEW j \in D, NEW k \in D, Lt(i, j), Lt(j, k) PROVE Lt(i, k)
    <2>1. /\ i \in Nat /\ j \in Nat /\ k \in Nat
          /\ rs[i][1] \in Int /\ rs[j][1] \in Int /\ rs[k][1] \in Int
          /\ rs[i][2] \in Int /\ rs[j][2] \in Int /\ rs[k][2] \in Int
      BY <1>4
    <2> DEFINE a == rs[i][1]
               b == rs[j][1]
               c == rs[k][1]
               x == rs[i][2]
               y == rs[j][2]
               z == rs[k][2]
    <2>2. a \in Int /\ b \in Int /\ c \in Int /\ x \in Int /\ y \in Int /\ z \in Int
      BY <2>1
    <2>3. a < b \/ (a = b /\ x < y) \/ (a = b /\ x = y /\ i < j)
      BY <1>9
    <2>4. b < c \/ (b = c /\ y < z) \/ (b = c /\ y = z /\ j < k)
      BY <1>9
    <2> SUFFICES a < c \/ (a = c /\ x < z) \/ (a = c /\ x = z /\ i < k)
      OBVIOUS
    <2> HIDE DEF a, b, c, x, y, z, Lt
    <2> QED
      BY ONLY <2>1, <2>2, <2>3, <2>4
  <1>10. ASSUME NEW i \in D, NEW j \in D, Lt(i, j) PROVE rs[i][1] <= rs[j][1]
    <2>1. rs[i][1] \in Int /\ rs[j][1] \in Int
      BY <1>4
    <2> QED
      BY ONLY <2>1, <1>10
  <1> HIDE DEF Lt
  <1>11. Linear(D, R)
    BY ONLY <1>6, <1>7, <1>8, <1>9 DEF Linear
  <1>12. \A i, j : <<i, j>> \in R => rs[i][1] <= rs[j][1]
    BY ONLY <1>6, <1>10
  <1> QED
    BY <1>1, <1>2, <1>11, <1>12

\* order lists the positions of rs by the first days.
Sorts(order, rs) ==
  /\ order \in [1 .. Len(rs) -> DOMAIN rs]
  /\ \A k \in DOMAIN rs : \E i \in 1 .. Len(rs) : order[i] = k
  /\ \A i, j \in 1 .. Len(rs) : i < j => rs[order[i]][1] <= rs[order[j]][1]

LEMMA SortedRanges ==
  ASSUME NEW rs \in Seq(Int \X Int)
  PROVE  Sorts(Arranged(DOMAIN rs, Sorting(rs)), rs)
  <1> DEFINE order == Arranged(DOMAIN rs, Sorting(rs))
  <1>1. Len(rs) \in Nat /\ DOMAIN rs = 1 .. Len(rs)
    OBVIOUS
  <1>2. IsFiniteSet(DOMAIN rs) /\ Cardinality(DOMAIN rs) = Len(rs)
    <2> HIDE DEF order
    <2>1. PICK l \in Nat : l = Len(rs)
      BY <1>1
    <2>2. IsFiniteSet(1 .. l) /\ Cardinality(1 .. l) = l
      BY ONLY l \in Nat, FS_Interval
    <2> QED
      BY <1>1, <2>1, <2>2
  <1>3. InOrder(order, DOMAIN rs, Sorting(rs))
    BY <1>2, SortingIsLinear, ArrangedInOrder
  <1>4. \A k \in DOMAIN rs : \E i \in 1 .. Len(rs) : order[i] = k
    <2>1. Linear(DOMAIN rs, Sorting(rs))
      BY SortingIsLinear
    <2>2. \A k \in DOMAIN rs : \E i \in 1 .. Cardinality(DOMAIN rs) : order[i] = k
      <3> HIDE DEF order
      <3> QED
        BY ONLY <1>2, <1>3, <2>1, OrderIsBijective
    <2> QED
      BY ONLY <1>2, <2>2
  <1>5. order \in [1 .. Len(rs) -> DOMAIN rs] /\ \A i, j \in 1 .. Len(rs) : i < j => <<order[i], order[j]>> \in Sorting(rs)
    BY <1>2, <1>3 DEF InOrder
  <1> HIDE DEF order
  <1> QED
    BY <1>4, <1>5, SortingIsLinear DEF Sorts, order

\* f follows a recursion up to n.
Follows(f, n, base, step) == f = [i \in 0 .. n |-> IF i = 0 THEN base ELSE step[<<i, f[i - 1]>>]]

LEMMA RecursionHasSolution ==
  ASSUME NEW S, NEW n \in Nat, NEW base \in S, NEW step, Steps(step, n, S)
  PROVE  \E f \in [0 .. n -> S] : Follows(f, n, base, step)
  <1>1. PICK f \in [0 .. n -> S] : Iterates(f, n, base, step)
    BY IterationExists
  <1> DEFINE g == [i \in 0 .. n |-> IF i = 0 THEN base ELSE step[<<i, f[i - 1]>>]]
  <1>2. \A i \in 0 .. n : g[i] = f[i]
    BY <1>1 DEF Iterates
  <1>3. g = f
    <2>1. \A i \in 0 .. n : f[i] \in S
      OBVIOUS
    <2>2. g \in [0 .. n -> S]
      BY <1>2, <2>1
    <2> HIDE DEF g
    <2> QED
      BY <1>2, <2>2
  <1> QED
    BY <1>3 DEF Follows

\* Sorting the ranges by their first days and extending with one after the other keeps
\* every day once (_merge_date_ranges).
Merging(h, s, rs) ==
  /\ MergeDateRanges(rs) = h[Len(rs)] /\ h[0] = <<>>
  /\ \A i \in 1 .. Len(rs) : s[i] \in Int \X Int /\ s[i][1] <= s[i][2] /\ h[i] = Extended(h[i - 1], s[i])
  /\ \A i, j \in 1 .. Len(rs) : i < j => s[i][1] <= s[j][1]
  /\ \A i \in 1 .. Len(rs) : \E k \in DOMAIN rs : s[i] = rs[k]
  /\ \A k \in DOMAIN rs : \E i \in 1 .. Len(rs) : s[i] = rs[k]

LEMMA MergeSolves ==
  ASSUME NEW rs \in Seq(Int \X Int), \A i \in DOMAIN rs : rs[i][1] <= rs[i][2]
  PROVE  \E h, s : Merging(h, s, rs)
  <1> DEFINE n == Len(rs)
  <1>1. PICK order : order = Arranged(DOMAIN rs, Sorting(rs))
    OBVIOUS
  <1> DEFINE Solves(f) == f = [i \in 0 .. n |-> IF i = 0 THEN <<>> ELSE Extended(f[i - 1], rs[order[i]])]
             h == CHOOSE f : Solves(f)
             s == [i \in 1 .. n |-> rs[order[i]]]
  <1>2. MergeDateRanges(rs) = h[n]
    BY <1>1 DEF MergeDateRanges, Sorting
  <1> HIDE DEF Solves
  <1>3. Sorts(order, rs)
    BY <1>1, SortedRanges
  <1>10. order \in [1 .. n -> DOMAIN rs] /\ \A i \in 1 .. n : order[i] \in DOMAIN rs
    BY <1>3 DEF Sorts
  <1>11. \A k \in DOMAIN rs : \E i \in 1 .. n : order[i] = k
    BY <1>3 DEF Sorts
  <1>12. \A i, j \in 1 .. n : i < j => rs[order[i]][1] <= rs[order[j]][1]
    BY <1>3 DEF Sorts
  <1>4. \E f : Solves(f)
    <2> DEFINE X == Seq(Int \X Int)
               step == [x \in (1 .. n) \X X |-> Extended(x[2], rs[order[x[1]]])]
    <2>1. ASSUME NEW m \in X, NEW i \in 1 .. n PROVE Extended(m, rs[order[i]]) \in X
      <3>1. rs[order[i]] \in Int \X Int
        BY <1>10
      <3>2. PICK r \in Int \X Int : r = rs[order[i]]
        BY <3>1
      <3>3. CASE m = <<>> \/ r[1] > Last(m)[2] + 1
        <4>1. Append(m, r) \in X
          BY <3>2
        <4> HIDE DEF X
        <4> QED
          BY <3>2, <3>3, <4>1 DEF Extended
      <3>4. CASE m # <<>> /\ ~(r[1] > Last(m)[2] + 1)
        <4>1. Last(m) \in Int \X Int /\ Front(m) \in Seq(Int \X Int)
          BY <3>4, Lasts
        <4>2. <<Last(m)[1], Later(Last(m)[2], r[2])>> \in Int \X Int
          BY <4>1 DEF Later
        <4>3. Append(Front(m), <<Last(m)[1], Later(Last(m)[2], r[2])>>) \in X
          BY <4>1, <4>2
        <4> QED
          BY <3>2, <3>4, <4>3 DEF Extended
      <3> QED
        BY <3>3, <3>4
    <2>2. Steps(step, n, X)
      BY <2>1 DEF Steps
    <2>3. <<>> \in X /\ n \in Nat
      OBVIOUS
    <2> HIDE DEF X, step, n
    <2>4. PICK f \in [0 .. n -> X] : Follows(f, n, <<>>, step)
      BY <2>2, <2>3, RecursionHasSolution
    <2>5. \A i \in 0 .. n : i # 0 => i \in 1 .. n /\ i - 1 \in 0 .. n
      BY <2>3
    <2>6. \A i \in 0 .. n : i # 0 => step[<<i, f[i - 1]>>] = Extended(f[i - 1], rs[order[i]])
      BY <2>5 DEF step
    <2>7. Solves(f)
      BY <2>4, <2>6 DEF Solves, Follows
    <2> QED
      BY <2>7
  <1>5. Solves(h)
    BY <1>4
  <1> HIDE DEF h
  <1>6. h[0] = <<>> /\ \A i \in 1 .. n : h[i] = Extended(h[i - 1], rs[order[i]])
    <2>1. n \in Nat /\ 0 \in 0 .. n /\ \A i \in 1 .. n : i \in 0 .. n /\ i # 0
      OBVIOUS
    <2> HIDE DEF n
    <2> QED
      BY <2>1, <1>5 DEF Solves
  <1>7. \A i \in 1 .. n : order[i] \in DOMAIN rs /\ s[i] = rs[order[i]] /\ s[i] \in Int \X Int /\ s[i][1] <= s[i][2]
    <2> TAKE i \in 1 .. n
    <2>1. order[i] \in DOMAIN rs
      BY <1>3 DEF Sorts
    <2>2. rs[order[i]] \in Int \X Int /\ rs[order[i]][1] <= rs[order[i]][2]
      BY <2>1
    <2> QED
      BY <2>1, <2>2
  <1>8. \A i \in 1 .. n : s[i] \in Int \X Int /\ s[i][1] <= s[i][2] /\ h[i] = Extended(h[i - 1], s[i])
    <2> HIDE DEF s
    <2> QED
      BY <1>6, <1>7
  <1>9. /\ \A i, j \in 1 .. n : i < j => s[i][1] <= s[j][1]
        /\ \A i \in 1 .. n : \E k \in DOMAIN rs : s[i] = rs[k]
        /\ \A k \in DOMAIN rs : \E i \in 1 .. n : s[i] = rs[k]
    <2> HIDE DEF s, n
    <2>1. \A i, j \in 1 .. n : i < j => s[i][1] <= s[j][1]
      BY <1>7, <1>12
    <2>2. \A i \in 1 .. n : \E k \in DOMAIN rs : s[i] = rs[k]
      BY <1>7
    <2>3. \A k \in DOMAIN rs : \E i \in 1 .. n : s[i] = rs[k]
      <3> TAKE k \in DOMAIN rs
      <3>1. PICK i \in 1 .. n : order[i] = k
        BY <1>11
      <3>2. s[i] = rs[k]
        BY <3>1, <1>7
      <3> QED
        BY <3>2
    <2> QED
      BY <2>1, <2>2, <2>3
  <1> HIDE DEF s
  <1>13. Merging(h, s, rs)
    BY <1>2, <1>6, <1>8, <1>9 DEF Merging
  <1> QED
    BY <1>13

\* The days of ranges are those of all of them together.
LEMMA MergeIs ==
  ASSUME NEW rs \in Seq(Int \X Int), \A i \in DOMAIN rs : rs[i][1] <= rs[i][2]
  PROVE  Apart(MergeDateRanges(rs)) /\ DaysOf(MergeDateRanges(rs)) = DaysOf(rs)
  <1>1. PICK h, s : Merging(h, s, rs)
    BY MergeSolves
  <1> DEFINE n == Len(rs)
             Good(i) ==
               /\ Apart(h[i]) /\ (i > 0 => h[i] # <<>> /\ Last(h[i])[1] <= s[i][1])
               /\ \A day \in Int : day \in DaysOf(h[i]) <=> \E j \in 1 .. i : In(day, s[j])
             P == {i \in 0 .. n : Good(i)}
  <1>2. n \in Nat /\ h[0] = <<>>
    BY <1>1 DEF Merging
  <1>3. \A i \in 1 .. n : s[i] \in Int \X Int /\ s[i][1] <= s[i][2] /\ h[i] = Extended(h[i - 1], s[i])
    BY <1>1 DEF Merging
  <1>4. \A i, j \in 1 .. n : i < j => s[i][1] <= s[j][1]
    BY <1>1 DEF Merging
  <1>5. /\ \A i \in 1 .. n : \E k \in DOMAIN rs : s[i] = rs[k]
        /\ \A k \in DOMAIN rs : \E i \in 1 .. n : s[i] = rs[k]
    BY <1>1 DEF Merging
  <1>6. MergeDateRanges(rs) = h[n]
    BY <1>1 DEF Merging
  <1> HIDE DEF n
  <1>7. Good(0)
    <2>1. <<>> \in Seq(Int \X Int) /\ DOMAIN <<>> = {}
      OBVIOUS
    <2>2. Apart(<<>>)
      BY <2>1 DEF Apart
    <2>3. \A day : day \notin DaysOf(<<>>)
      BY <2>1, DaysAre
    <2> QED
      BY <1>2, <2>2, <2>3
  <1>8. ASSUME NEW i \in 1 .. n, Good(i - 1) PROVE Good(i)
    <2> DEFINE m == h[i - 1]
    <2>1. s[i] \in Int \X Int /\ s[i][1] <= s[i][2] /\ h[i] = Extended(m, s[i])
      BY <1>3
    <2>2. Apart(m)
      BY <1>8
    <2>3. m # <<>> => Last(m)[1] <= s[i][1]
      <3>1. CASE i = 1
        BY <3>1, <1>2
      <3>2. CASE i # 1
        <4>1. i - 1 \in 1 .. n /\ i - 1 > 0 /\ i - 1 < i
          BY <3>2, <1>2
        <4>2. m # <<>> /\ Last(m)[1] <= s[i - 1][1] /\ s[i - 1][1] <= s[i][1]
          BY <4>1, <1>4, <1>8
        <4>3. Last(m) \in Int \X Int
          BY <2>2, <4>2, Lasts DEF Apart
        <4>4. Last(m)[1] \in Int /\ s[i - 1][1] \in Int /\ s[i][1] \in Int
          BY <4>1, <4>3, <1>3
        <4> HIDE DEF m
        <4> QED
          BY <4>2, <4>4
      <3> QED
        BY <3>1, <3>2
    <2>4. \A day \in Int : day \in DaysOf(m) <=> \E j \in 1 .. i - 1 : In(day, s[j])
      BY <1>8
    <2> HIDE DEF m
    <2>5. /\ Apart(h[i]) /\ h[i] # <<>> /\ Last(h[i])[1] <= s[i][1]
          /\ \A day \in Int : day \in DaysOf(h[i]) <=> day \in DaysOf(m) \/ In(day, s[i])
      BY <2>1, <2>2, <2>3, ExtendedIs
    <2>6. \A j : j \in 1 .. i <=> j \in 1 .. i - 1 \/ j = i
      BY <1>2
    <2>7. \A day \in Int : day \in DaysOf(h[i]) <=> \E j \in 1 .. i : In(day, s[j])
      BY <2>4, <2>5, <2>6
    <2> QED
      BY <2>5, <2>7
  <1>9. n \in P
    <2> HIDE DEF Good
    <2>1. 0 \in P
      BY <1>2, <1>7
    <2>2. \A i \in 1 .. n : i - 1 \in P => i \in P
      <3> TAKE i \in 1 .. n
      <3>1. i \in 0 .. n
        BY <1>2
      <3> QED
        BY <3>1, <1>8
    <2> HIDE DEF P
    <2>3. \A i \in 0 .. n : i \in P
      BY ONLY <1>2, <2>1, <2>2, CountingUp
    <2> QED
      BY <1>2, <2>3
  <1>10. Apart(h[n]) /\ \A day \in Int : day \in DaysOf(h[n]) <=> \E j \in 1 .. n : In(day, s[j])
    BY <1>9
  <1>11. \A day : day \in DaysOf(rs) <=> day \in Int /\ \E k \in DOMAIN rs : In(day, rs[k])
    BY DaysAre
  <1>12. \A day : day \in DaysOf(h[n]) => day \in Int
    BY <1>10, DaysAre DEF Apart
  <1>13. \A day : day \in DaysOf(h[n]) <=> day \in DaysOf(rs)
    BY <1>5, <1>10, <1>11, <1>12
  <1> QED
    BY <1>6, <1>10, <1>13

-----------------------------------------------------------------------------
(* What is missing. *)

\* Up to the cursor it is settled what the first i completed ranges leave of start .. end.
Scanned(q, i, start, end, completed) ==
  /\ q.cursor \in Int /\ start <= q.cursor
  /\ q.cursor = start \/ \E j \in 1 .. i : q.cursor = completed[j][2] + 1
  /\ \A j \in 1 .. i : completed[j][2] < q.cursor \/ end < completed[j][1]
  /\ Apart(q.found)
  /\ \A k \in DOMAIN q.found : q.found[k][2] + 1 < q.cursor
  /\ \A day \in Int : day \in DaysOf(q.found) <=>
       start <= day /\ day <= end /\ day < q.cursor /\ \A j \in 1 .. i : ~In(day, completed[j])

LEMMA PassedKeeps ==
  ASSUME NEW start \in Int, NEW end \in Int, NEW completed, Apart(completed),
         NEW i \in 1 .. Len(completed), NEW q, Scanned(q, i - 1, start, end, completed)
  PROVE  Scanned(Passed(q, completed[i], end), i, start, end, completed)
  <1> DEFINE r == completed[i]
             c == q.cursor
             p == Passed(q, r, end)
  <1>1. completed \in Seq(Int \X Int) /\ i \in DOMAIN completed /\ i \in Nat
    BY DEF Apart
  <1>2. r[1] \in Int /\ r[2] \in Int /\ r[1] <= r[2]
    BY <1>1 DEF Apart
  <1>3. c \in Int /\ start <= c
    BY DEF Scanned
  <1>4. \A j : j \in 1 .. i <=> j \in 1 .. i - 1 \/ j = i
    <2>1. i \in Nat \ {0}
      BY <1>1
    <2> QED
      BY ONLY <2>1
  <1>5. \A j \in 1 .. i - 1 : completed[j][1] \in Int /\ completed[j][2] \in Int /\ completed[j][2] + 1 < r[1]
    <2> TAKE j \in 1 .. i - 1
    <2>1. j \in DOMAIN completed /\ j < i
      <3>1. PICK l \in Nat : l = Len(completed) /\ DOMAIN completed = 1 .. l
        BY <1>1
      <3>2. i \in 1 .. l
        BY <1>1, <3>1
      <3>3. j \in 1 .. l /\ j < i
        BY ONLY <3>2, j \in 1 .. i - 1, l \in Nat
      <3> QED
        BY <3>1, <3>3
    <2>2. completed[j] \in Int \X Int
      BY <1>1, <2>1
    <2> QED
      BY <1>1, <2>1, <2>2 DEF Apart
  <1>6. c = start \/ c < r[1]
    <2> SUFFICES ASSUME c # start PROVE c < r[1]
      OBVIOUS
    <2>1. PICK j \in 1 .. i - 1 : c = completed[j][2] + 1
      BY DEF Scanned
    <2> HIDE DEF r, c
    <2> QED
      BY <2>1, <1>5
  <1>7. \A j \in 1 .. i - 1 : completed[j][2] < c \/ end < completed[j][1]
    BY DEF Scanned
  <1>8. Apart(q.found) /\ \A k \in DOMAIN q.found : q.found[k][2] + 1 < c
    BY DEF Scanned
  <1>9. \A day \in Int : day \in DaysOf(q.found) <=>
          start <= day /\ day <= end /\ day < c /\ \A j \in 1 .. i - 1 : ~In(day, completed[j])
    BY DEF Scanned
  <1>10. CASE r[2] < c \/ end < r[1]
    <2>1. p = q
      BY <1>2, <1>3, <1>10 DEF Passed
    <2>2. \A j \in 1 .. i : completed[j][2] < c \/ end < completed[j][1]
      BY <1>4, <1>7, <1>10
    <2>3. c = start \/ \E j \in 1 .. i : c = completed[j][2] + 1
      BY <1>4 DEF Scanned
    <2> HIDE DEF r, c, p
    <2>4. \A day \in Int : start <= day /\ day <= end /\ day < c => ~In(day, r)
      BY <1>2, <1>3, <1>6, <1>10 DEF In
    <2>5. \A day \in Int : day \in DaysOf(q.found) <=>
            start <= day /\ day <= end /\ day < c /\ \A j \in 1 .. i : ~In(day, completed[j])
      <3>1. r = completed[i]
        BY DEF r
      <3> QED
        BY <1>4, <1>9, <2>4, <3>1
    <2>6. Scanned(q, i, start, end, completed)
      BY <1>3, <1>8, <2>2, <2>3, <2>5 DEF Scanned, c
    <2> QED
      BY <2>1, <2>6 DEF p, r
  <1>11. CASE c <= r[2] /\ r[1] <= end
    <2>1. /\ p.cursor = r[2] + 1
          /\ p.found = IF r[1] > c THEN Append(q.found, <<c, r[1] - 1>>) ELSE q.found
      <3>1. Later(c, r[2] + 1) = r[2] + 1 /\ Earlier(end, r[1] - 1) = r[1] - 1
        BY <1>2, <1>3, <1>11 DEF Later, Earlier
      <3>2. ~(r[2] < c \/ r[1] > end)
        BY <1>2, <1>3, <1>11
      <3> QED
        BY <3>1, <3>2 DEF Passed
    <2>2. p.cursor = completed[i][2] + 1 /\ i \in 1 .. i
      BY <2>1, <1>4
    <2> HIDE DEF r, c, p
    <2>3. \A j \in 1 .. i : completed[j][2] < r[2] + 1 \/ end < completed[j][1]
      <3> TAKE j \in 1 .. i
      <3>1. r = completed[i]
        BY DEF r
      <3>2. CASE j = i
        BY <1>2, <3>1, <3>2
      <3>3. CASE j \in 1 .. i - 1
        <4>1. completed[j][2] \in Int /\ completed[j][2] + 1 < r[1]
          BY <1>5, <3>3
        <4> QED
          BY <1>2, <4>1
      <3> QED
        BY <1>4, <3>2, <3>3
    <2>4. CASE c < r[1]
      <3>1. p.found = Append(q.found, <<c, r[1] - 1>>)
        BY <1>2, <1>3, <2>1, <2>4
      <3>2. <<c, r[1] - 1>> \in Int \X Int /\ c <= r[1] - 1
        BY <1>2, <1>3, <2>4
      <3>3. /\ Apart(p.found)
            /\ \A day \in Int : day \in DaysOf(p.found) <=> day \in DaysOf(q.found) \/ In(day, <<c, r[1] - 1>>)
        BY <1>8, <3>1, <3>2, ExtendedOnItsOwn
      <3>4. \A k \in DOMAIN p.found : p.found[k][2] + 1 < r[2] + 1
        <4> SUFFICES ASSUME NEW k \in DOMAIN p.found PROVE p.found[k][2] + 1 < r[2] + 1
          OBVIOUS
        <4>1. q.found \in Seq(Int \X Int)
          BY <1>8 DEF Apart
        <4>2. (k \in DOMAIN q.found /\ p.found[k] = q.found[k]) \/ p.found[k] = <<c, r[1] - 1>>
          <5> HIDE DEF p
          <5>1. PICK f : f = q.found
            OBVIOUS
          <5>2. PICK x : x = <<c, r[1] - 1>>
            OBVIOUS
          <5>3. p.found = Append(f, x) /\ f \in Seq(Int \X Int) /\ x \in Int \X Int
            BY <4>1, <3>1, <3>2, <5>1, <5>2
          <5>4. k \in 1 .. Len(f) + 1 /\ DOMAIN f = 1 .. Len(f) /\ Len(f) \in Nat
            BY <5>3, Appending
          <5>5. (k \in DOMAIN f /\ p.found[k] = f[k]) \/ p.found[k] = x
            BY <5>3, <5>4, Appending
          <5> QED
            BY <5>1, <5>2, <5>5
        <4>3. CASE k \in DOMAIN q.found /\ p.found[k] = q.found[k]
          <5>1. q.found[k][2] \in Int
            BY <4>1, <4>3
          <5>2. q.found[k][2] + 1 < c
            BY <1>8, <4>3
          <5> QED
            BY <1>2, <1>3, <1>11, <4>3, <5>1, <5>2
        <4>4. CASE p.found[k] = <<c, r[1] - 1>>
          BY <1>2, <1>3, <4>4
        <4> QED
          BY <4>2, <4>3, <4>4
      <3>5. ASSUME NEW day \in Int
            PROVE  day \in DaysOf(p.found) <=>
                     start <= day /\ day <= end /\ day < r[2] + 1 /\ \A j \in 1 .. i : ~In(day, completed[j])
        <4>1. r = completed[i]
          BY DEF r
        <4>2. (\A j \in 1 .. i : ~In(day, completed[j])) <=> (\A j \in 1 .. i - 1 : ~In(day, completed[j])) /\ ~In(day, r)
          BY <1>4, <4>1
        <4>3. c <= day /\ day <= end => \A j \in 1 .. i - 1 : ~In(day, completed[j])
          BY <1>3, <1>5, <1>7 DEF In
        <4>4. In(day, <<c, r[1] - 1>>) <=> c <= day /\ day < r[1]
          BY <1>2, <1>3 DEF In
        <4>5. In(day, r) <=> r[1] <= day /\ day <= r[2]
          BY DEF In
        <4>6. PICK free : free = \A j \in 1 .. i - 1 : ~In(day, completed[j])
          OBVIOUS
        <4>7. day \in DaysOf(q.found) <=> start <= day /\ day <= end /\ day < c /\ free
          BY <1>9, <4>6
        <4>8. day < r[1] /\ c <= day => start <= day /\ day <= end /\ day < r[2] + 1 /\ free
          BY <1>2, <1>3, <1>11, <4>3, <4>6
        <4>9. day < c => day < r[1] /\ day < r[2] + 1
          BY <1>2, <1>3, <1>11, <2>4
        <4>10. day < c \/ c <= day
          BY <1>3
        <4>11. day < r[1] \/ r[1] <= day
          BY <1>2
        <4>12. day < r[2] + 1 <=> day <= r[2]
          BY <1>2
        <4>13. day < r[1] => ~In(day, r)
          BY <1>2, <4>5
        <4>14. day \in DaysOf(p.found) <=> (start <= day /\ day <= end /\ day < c /\ free) \/ (c <= day /\ day < r[1])
          BY <3>3, <4>4, <4>7
        <4>15. CASE day < r[1]
          BY <4>2, <4>6, <4>8, <4>9, <4>10, <4>13, <4>14, <4>15
        <4>16. CASE r[1] <= day
          <5>1. ~(day < c) /\ ~(day < r[1])
            BY <1>2, <1>3, <2>4, <4>16
          <5> QED
            BY <5>1, <4>2, <4>5, <4>12, <4>14, <4>16
        <4> QED
          BY <4>11, <4>15, <4>16
      <3>6. start <= r[2] + 1 /\ r[2] + 1 \in Int
        BY <1>2, <1>3, <1>11
      <3>7. Scanned(p, i, start, end, completed)
        BY <2>1, <2>2, <2>3, <3>3, <3>4, <3>5, <3>6 DEF Scanned
      <3> QED
        BY <3>7 DEF p, r
    <2>5. CASE r[1] <= c
      <3>1. p.found = q.found /\ c = start
        BY <1>2, <1>3, <1>6, <2>1, <2>5
      <3>2. \A k \in DOMAIN p.found : p.found[k][2] + 1 < r[2] + 1
        <4> SUFFICES ASSUME NEW k \in DOMAIN q.found PROVE q.found[k][2] + 1 < r[2] + 1
          BY <3>1
        <4>1. q.found[k] \in Int \X Int
          BY <1>8 DEF Apart
        <4>2. q.found[k][2] \in Int /\ q.found[k][2] + 1 < c
          BY <1>8, <4>1
        <4> QED
          BY <1>2, <1>3, <1>11, <4>2
      <3>3. ASSUME NEW day \in Int
            PROVE  day \in DaysOf(p.found) <=>
                     start <= day /\ day <= end /\ day < r[2] + 1 /\ \A j \in 1 .. i : ~In(day, completed[j])
        <4>1. r = completed[i]
          BY DEF r
        <4>2. (\A j \in 1 .. i : ~In(day, completed[j])) => ~In(day, r)
          BY <1>4, <4>1
        <4>3. day \notin DaysOf(p.found)
          BY <1>3, <1>9, <3>1
        <4>4. start <= day /\ day < r[2] + 1 => In(day, r)
          BY <1>2, <1>3, <2>5, <3>1 DEF In
        <4> QED
          BY <4>2, <4>3, <4>4
      <3>4. start <= r[2] + 1 /\ r[2] + 1 \in Int
        BY <1>2, <1>3, <1>11
      <3>5. Scanned(p, i, start, end, completed)
        BY <1>8, <2>1, <2>2, <2>3, <3>1, <3>2, <3>3, <3>4 DEF Scanned
      <3> QED
        BY <3>5 DEF p, r
    <2> QED
      BY <1>2, <1>3, <2>4, <2>5
  <1> QED
    BY <1>2, <1>3, <1>10, <1>11

\* The days of a request that are not complete, each once, in ranges within the request
\* (_missing_date_ranges).
LEMMA MissingIs ==
  ASSUME NEW start \in Int, NEW end \in Int, NEW completed, Apart(completed)
  PROVE  /\ Apart(MissingDateRanges(start, end, completed))
         /\ \A day \in Int : day \in DaysOf(MissingDateRanges(start, end, completed)) <=>
              start <= day /\ day <= end /\ day \notin DaysOf(completed)
  <1> DEFINE n == Len(completed)
             first == [cursor |-> start, found |-> <<>>]
             Solves(f) == f = [i \in 0 .. n |-> IF i = 0 THEN first ELSE Passed(f[i - 1], completed[i], end)]
             h == CHOOSE f : Solves(f)
             m == MissingDateRanges(start, end, completed)
             q == h[n]
  <1>1. completed \in Seq(Int \X Int) /\ n \in Nat /\ DOMAIN completed = 1 .. n
    BY DEF Apart
  <1>2. m = IF q.cursor <= end THEN Append(q.found, <<q.cursor, end>>) ELSE q.found
    BY DEF MissingDateRanges
  <1> HIDE DEF m, Solves
  <1>3. \E f : Solves(f)
    <2> DEFINE X == [cursor : Int, found : Seq(Int \X Int)]
               step == [x \in (1 .. n) \X X |-> Passed(x[2], completed[x[1]], end)]
    <2>1. ASSUME NEW x \in X, NEW i \in 1 .. n PROVE Passed(x, completed[i], end) \in X
      <3>1. completed[i] \in Int \X Int
        BY <1>1
      <3>2. PICK r \in Int \X Int : r = completed[i]
        BY <3>1
      <3>3. x.cursor \in Int /\ x.found \in Seq(Int \X Int) /\ r[1] \in Int /\ r[2] \in Int
        OBVIOUS
      <3>4. Later(x.cursor, r[2] + 1) \in Int /\ Earlier(end, r[1] - 1) \in Int
        BY <3>3 DEF Later, Earlier
      <3>5. Append(x.found, <<x.cursor, Earlier(end, r[1] - 1)>>) \in Seq(Int \X Int)
        BY <3>3, <3>4
      <3>6. Passed(x, r, end) \in X
        BY <3>3, <3>4, <3>5 DEF Passed
      <3> QED
        BY <3>2, <3>6
    <2>2. Steps(step, n, X)
      BY <2>1 DEF Steps
    <2>3. first \in X
      OBVIOUS
    <2> HIDE DEF X, step, n, first
    <2>4. PICK f \in [0 .. n -> X] : Follows(f, n, first, step)
      BY <1>1, <2>2, <2>3, RecursionHasSolution
    <2>5. \A i \in 0 .. n : i # 0 => i \in 1 .. n /\ i - 1 \in 0 .. n
      BY <1>1
    <2>6. \A i \in 0 .. n : i # 0 => step[<<i, f[i - 1]>>] = Passed(f[i - 1], completed[i], end)
      BY <2>5 DEF step
    <2>7. Solves(f)
      BY <2>4, <2>6 DEF Solves, Follows
    <2> QED
      BY <2>7
  <1>4. Solves(h)
    BY <1>3
  <1> HIDE DEF h
  <1>5. h[0] = first /\ \A i \in 1 .. n : h[i] = Passed(h[i - 1], completed[i], end)
    <2>1. 0 \in 0 .. n /\ \A i \in 1 .. n : i \in 0 .. n /\ i # 0
      BY <1>1
    <2> HIDE DEF n, first
    <2> QED
      BY <2>1, <1>4 DEF Solves
  <1> DEFINE P == {i \in 0 .. n : Scanned(h[i], i, start, end, completed)}
  <1>6. 0 \in P
    <2>1. Apart(<<>>) /\ DOMAIN <<>> = {}
      BY DEF Apart
    <2>2. \A day : day \notin DaysOf(<<>>)
      BY <2>1 DEF DaysOf
    <2>3. first.cursor = start /\ first.found = <<>>
      OBVIOUS
    <2>4. \A j : j \notin 1 .. 0
      OBVIOUS
    <2> HIDE DEF first
    <2>5. Scanned(first, 0, start, end, completed)
      BY <2>1, <2>2, <2>3, <2>4 DEF Scanned
    <2> QED
      BY <1>1, <1>5, <2>5
  <1>7. \A i \in 1 .. n : i - 1 \in P => i \in P
    <2> TAKE i \in 1 .. n
    <2> HAVE i - 1 \in P
    <2>1. i \in 0 .. n /\ Scanned(h[i - 1], i - 1, start, end, completed)
      BY <1>1
    <2>2. Scanned(h[i], i, start, end, completed)
      BY <1>5, <2>1, PassedKeeps
    <2> QED
      BY <2>1, <2>2
  <1>8. Scanned(q, n, start, end, completed)
    <2> HIDE DEF P
    <2>1. \A i \in 0 .. n : i \in P
      BY ONLY <1>1, <1>6, <1>7, CountingUp
    <2>2. n \in P
      BY <1>1, <2>1
    <2> QED
      BY <2>2 DEF P
  <1> HIDE DEF q, P, n
  <1>9. q.cursor \in Int /\ start <= q.cursor /\ Apart(q.found)
    BY <1>8 DEF Scanned
  <1>10. \A k \in DOMAIN q.found : q.found[k][2] + 1 < q.cursor
    BY <1>8 DEF Scanned
  <1>11. \A day \in Int : day \in DaysOf(q.found) <=>
           start <= day /\ day <= end /\ day < q.cursor /\ \A j \in 1 .. n : ~In(day, completed[j])
    BY <1>8 DEF Scanned
  <1>12. \A day \in Int : day \in DaysOf(completed) <=> \E j \in 1 .. n : In(day, completed[j])
    BY <1>1, DaysAre
  <1>13. CASE q.cursor <= end
    <2> DEFINE r == <<q.cursor, end>>
    <2>1. m = Append(q.found, r) /\ r \in Int \X Int /\ r[1] <= r[2] /\ r[1] = q.cursor /\ r[2] = end
      BY <1>2, <1>9, <1>13
    <2> HIDE DEF r
    <2>2. Apart(m) /\ \A day \in Int : day \in DaysOf(m) <=> day \in DaysOf(q.found) \/ In(day, r)
      BY <2>1, <1>9, <1>10, ExtendedOnItsOwn
    <2>3. ASSUME NEW day \in Int, q.cursor <= day, day <= end, NEW j \in 1 .. n PROVE ~In(day, completed[j])
      <3>1. completed[j] \in Int \X Int
        BY <1>1
      <3>2. completed[j][2] < q.cursor \/ end < completed[j][1]
        BY <1>8 DEF Scanned
      <3>3. completed[j][1] \in Int /\ completed[j][2] \in Int
        BY <3>1
      <3> QED
        BY <3>2, <3>3, <2>3, <1>9 DEF In
    <2>4. ASSUME NEW day \in Int
          PROVE  day \in DaysOf(m) <=> start <= day /\ day <= end /\ day \notin DaysOf(completed)
      <3>1. In(day, r) <=> q.cursor <= day /\ day <= end
        BY <2>1 DEF In
      <3>2. CASE day < q.cursor
        <4>1. ~In(day, r)
          BY <3>1, <3>2, <1>9
        <4> QED
          BY <4>1, <3>2, <2>2, <1>11, <1>12
      <3>3. CASE q.cursor <= day
        <4>1. start <= day /\ ~(day < q.cursor)
          BY <1>9, <3>3
        <4> QED
          BY <4>1, <3>1, <3>3, <2>2, <2>3, <1>11, <1>12
      <3> QED
        BY <3>2, <3>3, <1>9
    <2> QED
      BY <2>2, <2>4 DEF m
  <1>14. CASE ~(q.cursor <= end)
    <2>1. m = q.found
      BY <1>2, <1>14
    <2>2. \A day \in Int : day <= end => day < q.cursor
      BY <1>9, <1>14
    <2> QED
      BY <2>1, <2>2, <1>9, <1>11, <1>12 DEF m
  <1> QED
    BY <1>13, <1>14

\* What chunk i of a range begins and ends with.
LEMMA ChunkBounds ==
  ASSUME NEW length \in Nat, NEW days \in Nat \ {0}
  PROVE  LET n == length \div days + 1
         IN  /\ n \in Nat \ {0} /\ (n - 1) * days <= length /\ length < n * days
             /\ \A i \in 1 .. n : (i - 1) * days \in Nat /\ (i - 1) * days <= length /\ i * days = (i - 1) * days + days
             /\ \A i, j \in 1 .. n : i < j => i * days <= (j - 1) * days
             /\ \A x \in 0 .. length : \E i \in 1 .. n : (i - 1) * days <= x /\ x < i * days
  <1> DEFINE n == length \div days + 1
  <1>1. /\ length \div days \in Nat /\ days * (length \div days) <= length
        /\ length < days * (length \div days) + days
    OBVIOUS
  <1>2. /\ n \in Nat \ {0} /\ (n - 1) * days <= length /\ length < n * days
    <2>1. PICK q \in Nat : q = length \div days
      BY <1>1
    <2>2. (q + 1) * days = days * q + days
      OBVIOUS
    <2> QED
      BY <1>1, <2>1, <2>2
  <1> HIDE DEF n
  <1>3. ASSUME NEW i \in 1 .. n
        PROVE  (i - 1) * days \in Nat /\ (i - 1) * days <= length /\ i * days = (i - 1) * days + days
    <2>1. i - 1 \in Nat /\ n - 1 \in Nat /\ i - 1 <= n - 1
      BY <1>2
    <2>2. (i - 1) * days <= (n - 1) * days
      BY <2>1, TimesMonotone
    <2>3. (i - 1) * days \in Nat /\ (n - 1) * days \in Nat
      BY <2>1
    <2>4. i * days = (i - 1) * days + days
      BY <2>1
    <2> QED
      BY <1>2, <2>2, <2>3, <2>4
  <1>4. ASSUME NEW i \in 1 .. n, NEW j \in 1 .. n, i < j PROVE i * days <= (j - 1) * days
    <2>1. i \in Nat /\ j - 1 \in Nat /\ i <= j - 1
      BY <1>2, <1>4
    <2> QED
      BY <2>1, TimesMonotone
  <1>5. ASSUME NEW x \in 0 .. length PROVE \E i \in 1 .. n : (i - 1) * days <= x /\ x < i * days
    <2>1. x \in Nat /\ x <= length
      OBVIOUS
    <2>2. PICK q \in Nat : q = x \div days
      BY <2>1
    <2>3. days * q <= x /\ x < days * q + days
      BY <2>1, <2>2
    <2>4. q * days = days * q /\ (q + 1) * days = days * q + days
      OBVIOUS
    <2>5. q < n
      <3> SUFFICES ASSUME n <= q PROVE FALSE
        BY <1>2
      <3>1. n * days <= q * days
        BY <1>2, TimesMonotone
      <3>2. n * days \in Nat /\ q * days \in Nat
        BY <1>2
      <3> QED
        BY <1>2, <2>1, <2>3, <2>4, <3>1, <3>2
    <2>6. q + 1 \in 1 .. n /\ (q + 1) - 1 = q
      BY <1>2, <2>5
    <2>7. ((q + 1) - 1) * days <= x /\ x < (q + 1) * days
      BY <2>3, <2>4, <2>6
    <2> QED
      BY <2>6, <2>7
  <1> QED
    BY <1>2, <1>3, <1>4, <1>5 DEF n

\* The chunks of a range follow one another and have all its days.
LEMMA SplitIs ==
  ASSUME NEW start \in Int, NEW end \in Int, start <= end, NEW days \in Nat \ {0},
         NEW s, s = SplitRange(start, end, days)
  PROVE  /\ s \in Seq(Int \X Int) /\ s # <<>>
         /\ \A i \in DOMAIN s : start <= s[i][1] /\ s[i][1] <= s[i][2] /\ s[i][2] <= end
         /\ \A i, j \in DOMAIN s : i < j => s[i][2] < s[j][1]
         /\ \A day \in start .. end : \E i \in DOMAIN s : In(day, s[i])
  <1> DEFINE length == end - start
             n == length \div days + 1
  <1>1. length \in Nat
    OBVIOUS
  <1>2. /\ n \in Nat \ {0}
        /\ \A i \in 1 .. n : (i - 1) * days \in Nat /\ (i - 1) * days <= length /\ i * days = (i - 1) * days + days
        /\ \A i, j \in 1 .. n : i < j => i * days <= (j - 1) * days
        /\ \A x \in 0 .. length : \E i \in 1 .. n : (i - 1) * days <= x /\ x < i * days
    BY <1>1, ChunkBounds
  <1>3. s = [i \in 1 .. n |-> <<start + (i - 1) * days, Earlier(end, start + i * days - 1)>>]
    BY DEF SplitRange
  <1> HIDE DEF n
  <1>4. ASSUME NEW i \in 1 .. n
        PROVE  /\ s[i] = <<start + (i - 1) * days, Earlier(end, start + i * days - 1)>>
               /\ s[i] \in Int \X Int /\ s[i][1] = start + (i - 1) * days
               /\ s[i][2] <= end /\ s[i][2] <= start + i * days - 1 /\ (s[i][2] = end \/ s[i][2] = start + i * days - 1)
               /\ s[i][1] <= s[i][2] /\ start <= s[i][1]
    <2>1. PICK a \in Nat : a = (i - 1) * days
      BY <1>2
    <2>2. PICK b \in Nat : b = i * days
      BY <1>2
    <2>3. b = a + days /\ a <= length
      BY <1>2, <2>1, <2>2
    <2>4. s[i] = <<start + a, Earlier(end, start + b - 1)>>
      BY <1>3, <2>1, <2>2
    <2> QED
      BY <2>1, <2>2, <2>3, <2>4 DEF Earlier
  <1>5. s \in Seq(Int \X Int) /\ Len(s) = n /\ DOMAIN s = 1 .. n
    <2>1. s \in [1 .. n -> Int \X Int]
      BY <1>3, <1>4
    <2> QED
      BY <1>2, <2>1, FunctionIsSequence
  <1>6. ASSUME NEW i \in 1 .. n, NEW j \in 1 .. n, i < j PROVE s[i][2] < s[j][1]
    <2>1. i * days <= (j - 1) * days /\ i * days \in Int /\ (j - 1) * days \in Int
      BY <1>2, <1>6
    <2>2. s[i][2] \in Int
      BY <1>4
    <2> QED
      BY <1>4, <2>1, <2>2
  <1>7. ASSUME NEW day \in start .. end PROVE \E i \in 1 .. n : In(day, s[i])
    <2>1. day - start \in 0 .. length
      OBVIOUS
    <2>2. PICK i \in 1 .. n : (i - 1) * days <= day - start /\ day - start < i * days
      BY <1>2, <2>1
    <2>3. (i - 1) * days \in Int /\ i * days \in Int
      BY <1>2
    <2>4. s[i][1] <= day /\ day <= s[i][2]
      BY <1>4, <2>2, <2>3
    <2> QED
      BY <2>4 DEF In
  <1>8. s # <<>>
    BY <1>2, <1>5
  <1> QED
    BY <1>4, <1>5, <1>6, <1>7, <1>8

\* The step of _contiguous_ranges, which is that of merging a range of one day.
JoinedTo(m, day) ==
  IF m # <<>> /\ day = Last(m)[2] + 1
  THEN Append(Front(m), <<Last(m)[1], day>>)
  ELSE Append(m, <<day, day>>)

LEMMA DayJoined ==
  ASSUME NEW m, Apart(m), NEW day \in Int, m # <<>> => Last(m)[2] < day
  PROVE  /\ Apart(JoinedTo(m, day)) /\ JoinedTo(m, day) # <<>> /\ Last(JoinedTo(m, day))[2] = day
         /\ \A x \in Int : x \in DaysOf(JoinedTo(m, day)) <=> x \in DaysOf(m) \/ x = day
  <1> DEFINE r == <<day, day>>
             j == JoinedTo(m, day)
  <1>1. m \in Seq(Int \X Int)
    BY DEF Apart
  <1>2. r \in Int \X Int /\ r[1] = day /\ r[2] = day
    OBVIOUS
  <1>3. m # <<>> => /\ Last(m) \in Int \X Int /\ Last(m)[1] \in Int /\ Last(m)[2] \in Int
                    /\ Last(m)[1] <= Last(m)[2] /\ Front(m) \in Seq(Int \X Int)
    <2> SUFFICES ASSUME m # <<>> PROVE /\ Last(m) \in Int \X Int /\ Last(m)[1] \in Int /\ Last(m)[2] \in Int
                                       /\ Last(m)[1] <= Last(m)[2] /\ Front(m) \in Seq(Int \X Int)
      OBVIOUS
    <2>1. Last(m) = m[Len(m)] /\ Len(m) \in DOMAIN m /\ Last(m) \in Int \X Int /\ Front(m) \in Seq(Int \X Int)
      BY <1>1, Lasts
    <2>2. m[Len(m)][1] <= m[Len(m)][2]
      BY <2>1 DEF Apart
    <2> QED
      BY <2>1, <2>2
  <1>4. j = Extended(m, r)
    <2>1. CASE m = <<>>
      BY <2>1 DEF JoinedTo, Extended
    <2>2. CASE m # <<>> /\ day = Last(m)[2] + 1
      <3>1. Later(Last(m)[2], r[2]) = day /\ ~(r[1] > Last(m)[2] + 1)
        BY <1>2, <1>3, <2>2 DEF Later
      <3> QED
        BY <2>2, <3>1 DEF JoinedTo, Extended
    <2>3. CASE m # <<>> /\ day # Last(m)[2] + 1
      <3>1. r[1] > Last(m)[2] + 1
        BY <1>2, <1>3, <2>3
      <3> QED
        BY <2>3, <3>1 DEF JoinedTo, Extended
    <2> QED
      BY <2>1, <2>2, <2>3
  <1>5. m # <<>> => Last(m)[1] <= r[1]
    BY <1>2, <1>3
  <1>6. /\ Apart(Extended(m, r)) /\ Extended(m, r) # <<>>
        /\ \A x \in Int : x \in DaysOf(Extended(m, r)) <=> x \in DaysOf(m) \/ In(x, r)
    BY <1>2, <1>5, ExtendedIs
  <1>7. Last(j)[2] = day
    <2>1. CASE m # <<>> /\ day = Last(m)[2] + 1
      <3>1. <<Last(m)[1], day>> \in Int \X Int
        BY <1>3, <2>1
      <3>2. Last(j) = <<Last(m)[1], day>>
        BY <1>3, <2>1, <3>1, Appending DEF JoinedTo
      <3> QED
        BY <3>2
    <2>2. CASE ~(m # <<>> /\ day = Last(m)[2] + 1)
      <3>1. Last(j) = r
        BY <1>1, <1>2, <2>2, Appending DEF JoinedTo
      <3> QED
        BY <3>1
    <2> QED
      BY <2>1, <2>2
  <1>8. \A x \in Int : In(x, r) <=> x = day
    BY <1>2 DEF In
  <1> QED
    BY <1>4, <1>6, <1>7, <1>8

\* Runs of days are the days, as ranges that do not touch (_contiguous_ranges).
LEMMA ContiguousIs ==
  ASSUME NEW dates \in Seq(Int), \A i, j \in DOMAIN dates : i < j => dates[i] < dates[j]
  PROVE  /\ Apart(ContiguousRanges(dates))
         /\ \A x \in Int : x \in DaysOf(ContiguousRanges(dates)) <=> \E i \in DOMAIN dates : x = dates[i]
  <1> DEFINE n == Len(dates)
             Solves(f) == f = [i \in 0 .. n |-> IF i = 0 THEN <<>> ELSE JoinedTo(f[i - 1], dates[i])]
             h == CHOOSE f : Solves(f)
  <1>1. ContiguousRanges(dates) = h[n]
    BY DEF ContiguousRanges, JoinedTo
  <1>2. n \in Nat /\ DOMAIN dates = 1 .. n /\ \A i \in 1 .. n : dates[i] \in Int
    OBVIOUS
  <1>3. \A i, j \in 1 .. n : i < j => dates[i] < dates[j]
    BY <1>2
  <1> HIDE DEF Solves, n
  <1>4. \E f : Solves(f)
    <2> DEFINE X == Seq(Int \X Int)
               step == [x \in (1 .. n) \X X |-> JoinedTo(x[2], dates[x[1]])]
    <2>1. ASSUME NEW m \in X, NEW i \in 1 .. n PROVE JoinedTo(m, dates[i]) \in X
      <3>1. CASE m # <<>> /\ dates[i] = Last(m)[2] + 1
        <4>1. Last(m) \in Int \X Int /\ Front(m) \in Seq(Int \X Int)
          BY <3>1, Lasts
        <4>2. <<Last(m)[1], dates[i]>> \in Int \X Int
          BY <1>2, <4>1
        <4> QED
          BY <3>1, <4>1, <4>2 DEF JoinedTo
      <3>2. CASE ~(m # <<>> /\ dates[i] = Last(m)[2] + 1)
        <4>1. <<dates[i], dates[i]>> \in Int \X Int
          BY <1>2
        <4> QED
          BY <3>2, <4>1 DEF JoinedTo
      <3> QED
        BY <3>1, <3>2
    <2>2. Steps(step, n, X)
      BY <2>1 DEF Steps
    <2>3. <<>> \in X
      OBVIOUS
    <2> HIDE DEF X, step
    <2>4. PICK f \in [0 .. n -> X] : Follows(f, n, <<>>, step)
      BY <1>2, <2>2, <2>3, RecursionHasSolution
    <2>5. \A i \in 0 .. n : i # 0 => i \in 1 .. n /\ i - 1 \in 0 .. n
      BY <1>2
    <2>6. \A i \in 0 .. n : i # 0 => step[<<i, f[i - 1]>>] = JoinedTo(f[i - 1], dates[i])
      BY <2>5 DEF step
    <2>7. Solves(f)
      BY <2>4, <2>6 DEF Solves, Follows
    <2> QED
      BY <2>7
  <1>5. Solves(h)
    BY <1>4
  <1> HIDE DEF h
  <1>6. h[0] = <<>> /\ \A i \in 1 .. n : h[i] = JoinedTo(h[i - 1], dates[i])
    <2>1. 0 \in 0 .. n /\ \A i \in 1 .. n : i \in 0 .. n /\ i # 0
      BY <1>2
    <2> QED
      BY <2>1, <1>5 DEF Solves
  <1> DEFINE Good(i) ==
               /\ Apart(h[i]) /\ (i > 0 => h[i] # <<>> /\ Last(h[i])[2] = dates[i])
               /\ \A x \in Int : x \in DaysOf(h[i]) <=> \E j \in 1 .. i : x = dates[j]
             P == {i \in 0 .. n : Good(i)}
  <1>7. Good(0)
    <2>1. <<>> \in Seq(Int \X Int) /\ DOMAIN <<>> = {}
      OBVIOUS
    <2>2. Apart(<<>>)
      BY <2>1 DEF Apart
    <2>3. \A day : day \notin DaysOf(<<>>)
      BY <2>1, DaysAre
    <2> QED
      BY <1>6, <2>2, <2>3
  <1>8. ASSUME NEW i \in 1 .. n, Good(i - 1) PROVE Good(i)
    <2> DEFINE m == h[i - 1]
    <2>1. h[i] = JoinedTo(m, dates[i]) /\ dates[i] \in Int
      BY <1>2, <1>6
    <2>2. Apart(m)
      BY <1>8
    <2>3. m # <<>> => Last(m)[2] < dates[i]
      <3>1. CASE i = 1
        BY <3>1, <1>6
      <3>2. CASE i # 1
        <4>1. i - 1 \in 1 .. n /\ i - 1 > 0 /\ i - 1 < i
          BY <3>2, <1>2
        <4>2. Last(m)[2] = dates[i - 1] /\ dates[i - 1] < dates[i]
          BY <4>1, <1>3, <1>8
        <4> QED
          BY <4>2
      <3> QED
        BY <3>1, <3>2
    <2>4. \A x \in Int : x \in DaysOf(m) <=> \E j \in 1 .. i - 1 : x = dates[j]
      BY <1>8
    <2> HIDE DEF m
    <2>5. /\ Apart(h[i]) /\ h[i] # <<>> /\ Last(h[i])[2] = dates[i]
          /\ \A x \in Int : x \in DaysOf(h[i]) <=> x \in DaysOf(m) \/ x = dates[i]
      BY <2>1, <2>2, <2>3, DayJoined
    <2>6. \A j : j \in 1 .. i <=> j \in 1 .. i - 1 \/ j = i
      BY <1>2
    <2>7. \A x \in Int : x \in DaysOf(h[i]) <=> \E j \in 1 .. i : x = dates[j]
      BY <2>4, <2>5, <2>6
    <2> QED
      BY <2>5, <2>7
  <1>9. n \in P
    <2> HIDE DEF Good
    <2>1. 0 \in P
      BY <1>2, <1>7
    <2>2. \A i \in 1 .. n : i - 1 \in P => i \in P
      <3> TAKE i \in 1 .. n
      <3>1. i \in 0 .. n
        BY <1>2
      <3> QED
        BY <3>1, <1>8
    <2> HIDE DEF P
    <2>3. \A i \in 0 .. n : i \in P
      BY <1>2, <2>1, <2>2, CountingUp
    <2> QED
      BY <1>2, <2>3
  <1>10. Apart(h[n]) /\ \A x \in Int : x \in DaysOf(h[n]) <=> \E j \in 1 .. n : x = dates[j]
    BY <1>9
  <1> QED
    BY <1>1, <1>2, <1>10

LEMMA SequenceInto ==
  ASSUME NEW A, NEW B, NEW s \in Seq(A), \A i \in DOMAIN s : s[i] \in B
  PROVE  s \in Seq(B)
  <1>1. Len(s) \in Nat /\ DOMAIN s = 1 .. Len(s) /\ s = [i \in 1 .. Len(s) |-> s[i]]
    OBVIOUS
  <1>2. s \in [1 .. Len(s) -> B]
    BY <1>1
  <1> QED
    BY <1>1, <1>2, FunctionIsSequence

\* Ranges that lie apart, in chunks, one after the other.
LEMMA SplitAll ==
  ASSUME NEW ranges, Apart(ranges), NEW days \in Nat \ {0}, NEW chunks,
         chunks = FlattenSeq([i \in DOMAIN ranges |-> SplitRange(ranges[i][1], ranges[i][2], days)])
  PROVE  /\ chunks \in Seq(Int \X Int)
         /\ \A i \in DOMAIN chunks : chunks[i][1] <= chunks[i][2]
         /\ \A i, j \in DOMAIN chunks : i < j => chunks[i][2] < chunks[j][1]
         /\ \A day \in Int : (\E i \in DOMAIN chunks : In(day, chunks[i])) <=> day \in DaysOf(ranges)
  <1> DEFINE X == Int \X Int
             ss == [i \in DOMAIN ranges |-> SplitRange(ranges[i][1], ranges[i][2], days)]
             R == {x \in X \X X : x[1][2] < x[2][1]}
  <1>1. /\ ranges \in Seq(X) /\ Len(ranges) \in Nat /\ DOMAIN ranges = 1 .. Len(ranges)
        /\ \A i \in DOMAIN ranges : ranges[i][1] \in Int /\ ranges[i][2] \in Int /\ ranges[i][1] <= ranges[i][2]
        /\ \A i, j \in DOMAIN ranges : i < j => ranges[i][2] + 1 < ranges[j][1]
    BY DEF Apart
  <1>2. \A k \in DOMAIN ranges :
          /\ ss[k] \in Seq(X)
          /\ \A i \in DOMAIN ss[k] : /\ ranges[k][1] <= ss[k][i][1] /\ ss[k][i][1] <= ss[k][i][2]
                                     /\ ss[k][i][2] <= ranges[k][2]
          /\ \A i, j \in DOMAIN ss[k] : i < j => ss[k][i][2] < ss[k][j][1]
          /\ \A day \in ranges[k][1] .. ranges[k][2] : \E i \in DOMAIN ss[k] : In(day, ss[k][i])
    <2> TAKE k \in DOMAIN ranges
    <2>1. PICK s : s = SplitRange(ranges[k][1], ranges[k][2], days)
      OBVIOUS
    <2>2. ss[k] = s
      BY <2>1
    <2> HIDE DEF ss
    <2> QED
      BY <1>1, <2>1, <2>2, SplitIs
  <1>3. ss \in Seq(Seq(X)) /\ DOMAIN ss = DOMAIN ranges
    <2>1. ss \in [1 .. Len(ranges) -> Seq(X)]
      <3>1. \A k \in 1 .. Len(ranges) : ss[k] \in Seq(X)
        BY <1>1, <1>2
      <3> QED
        BY <1>1, <3>1
    <2> HIDE DEF ss
    <2> QED
      BY <1>1, <2>1, FunctionIsSequence
  <1> HIDE DEF ss
  <1>4. /\ chunks \in Seq(X)
        /\ \A x : Has(chunks, x) <=> \E k \in DOMAIN ss : Has(ss[k], x)
        /\ (\A k \in DOMAIN ss : OrderedBy(ss[k], R)) /\ (\A k, l \in DOMAIN ss : k < l => Follow(ss[k], ss[l], R))
           => OrderedBy(chunks, R)
    <2>1. chunks = FlattenSeq(ss)
      BY DEF ss
    <2> HIDE DEF R, X
    <2> QED
      BY <1>3, <2>1, FlattenElements
  <1>5. \A k \in DOMAIN ss : \A i \in DOMAIN ss[k] : ss[k][i] \in X /\ ss[k][i][1] \in Int /\ ss[k][i][2] \in Int
    BY <1>2, <1>3
  <1>6. ASSUME NEW k \in DOMAIN ss PROVE OrderedBy(ss[k], R)
    <2> SUFFICES ASSUME NEW i \in DOMAIN ss[k], NEW j \in DOMAIN ss[k], i < j PROVE <<ss[k][i], ss[k][j]>> \in R
      BY DEF OrderedBy
    <2>1. ss[k][i][2] < ss[k][j][1]
      BY <1>2, <1>3
    <2> QED
      BY <1>5, <2>1
  <1>7. ASSUME NEW k \in DOMAIN ss, NEW l \in DOMAIN ss, k < l PROVE Follow(ss[k], ss[l], R)
    <2> SUFFICES ASSUME NEW i \in DOMAIN ss[k], NEW j \in DOMAIN ss[l] PROVE <<ss[k][i], ss[l][j]>> \in R
      BY DEF Follow
    <2>1. ss[k][i][2] <= ranges[k][2] /\ ranges[k][2] + 1 < ranges[l][1] /\ ranges[l][1] <= ss[l][j][1]
      BY <1>1, <1>2, <1>3, <1>7
    <2>2. ss[k][i][2] < ss[l][j][1]
      <3>1. ss[k][i][2] \in Int /\ ss[l][j][1] \in Int /\ ranges[k][2] \in Int /\ ranges[l][1] \in Int
        BY <1>1, <1>3, <1>5
      <3> QED
        BY <2>1, <3>1
    <2> QED
      BY <1>5, <2>2
  <1>8. OrderedBy(chunks, R)
    BY <1>4, <1>6, <1>7
  <1>9. \A i, j \in DOMAIN chunks : i < j => chunks[i][2] < chunks[j][1]
    BY <1>8 DEF OrderedBy
  <1>10. \A i \in DOMAIN chunks : \E k \in DOMAIN ss : \E j \in DOMAIN ss[k] : chunks[i] = ss[k][j]
    <2> TAKE i \in DOMAIN chunks
    <2>1. Has(chunks, chunks[i])
      BY DEF Has
    <2>2. PICK k \in DOMAIN ss : Has(ss[k], chunks[i])
      BY <1>4, <2>1
    <2> QED
      BY <2>2 DEF Has
  <1>11. ASSUME NEW i \in DOMAIN chunks PROVE chunks[i][1] <= chunks[i][2]
    <2>1. PICK k \in DOMAIN ss : \E j \in DOMAIN ss[k] : chunks[i] = ss[k][j]
      BY <1>10
    <2>2. PICK j \in DOMAIN ss[k] : chunks[i] = ss[k][j]
      BY <2>1
    <2>3. ss[k][j][1] <= ss[k][j][2]
      BY <1>2, <1>3
    <2> QED
      BY <2>2, <2>3
  <1>12. ASSUME NEW day \in Int PROVE (\E i \in DOMAIN chunks : In(day, chunks[i])) <=> day \in DaysOf(ranges)
    <2>1. day \in DaysOf(ranges) <=> \E k \in DOMAIN ranges : In(day, ranges[k])
      BY <1>1, DaysAre
    <2>2. ASSUME NEW i \in DOMAIN chunks, In(day, chunks[i]) PROVE \E k \in DOMAIN ranges : In(day, ranges[k])
      <3>1. PICK k \in DOMAIN ss : \E j \in DOMAIN ss[k] : chunks[i] = ss[k][j]
        BY <1>10
      <3>2. PICK j \in DOMAIN ss[k] : chunks[i] = ss[k][j]
        BY <3>1
      <3>3. ranges[k][1] <= ss[k][j][1] /\ ss[k][j][2] <= ranges[k][2]
        <4>1. k \in DOMAIN ranges
          BY <1>3
        <4> QED
          BY <1>2, <4>1
      <3>4. ss[k][j][1] <= day /\ day <= ss[k][j][2]
        <4>1. In(day, ss[k][j])
          BY <2>2, <3>2
        <4> QED
          BY <4>1 DEF In
      <3>5. /\ ss[k][j][1] \in Int /\ ss[k][j][2] \in Int
            /\ ranges[k][1] \in Int /\ ranges[k][2] \in Int
        BY <1>1, <1>3, <1>5
      <3>6. ranges[k][1] <= day /\ day <= ranges[k][2]
        <4>1. PICK a \in Int, b \in Int : a = ss[k][j][1] /\ b = ss[k][j][2]
          BY <3>5
        <4>2. PICK c \in Int, d \in Int : c = ranges[k][1] /\ d = ranges[k][2]
          BY <3>5
        <4>3. c <= a /\ a <= day /\ day <= b /\ b <= d
          BY <3>3, <3>4, <4>1, <4>2
        <4>4. c <= day /\ day <= d
          BY <4>3
        <4> QED
          BY <4>2, <4>4
      <3>7. In(day, ranges[k])
        BY <3>6 DEF In
      <3> QED
        BY <1>3, <3>7
    <2>3. ASSUME NEW k \in DOMAIN ranges, In(day, ranges[k]) PROVE \E i \in DOMAIN chunks : In(day, chunks[i])
      <3>1. day \in ranges[k][1] .. ranges[k][2]
        BY <1>1, <2>3 DEF In
      <3>2. PICK j \in DOMAIN ss[k] : In(day, ss[k][j])
        BY <1>2, <3>1
      <3>3. Has(ss[k], ss[k][j])
        BY DEF Has
      <3>4. Has(chunks, ss[k][j])
        BY <1>3, <1>4, <3>3
      <3> QED
        BY <3>2, <3>4 DEF Has
    <2> QED
      BY <2>1, <2>2, <2>3
  <1> QED
    BY <1>4, <1>9, <1>11, <1>12
=============================================================================
