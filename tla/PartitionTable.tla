--------------------------- MODULE PartitionTable ---------------------------
(***************************************************************************)
(* What parquet_store promises of one table: each partition has rows every *)
(* reader sees, in the order they were committed, and rows appended but    *)
(* not yet committed, which a crash loses.  Commits, replacements and      *)
(* compactions happen at one instant.  ParquetStore implements it.         *)
(***************************************************************************)
EXTENDS Integers, Sequences, Arrangement

CONSTANTS
  Partitions,
  Inputs,  \* the row sequences a call may carry for a partition
  KeyOf,   \* row -> its primary key, a number; rows are sorted by it
  PreferOf \* row -> its value in the deduplicate_prefer_by field

VARIABLES
  visible, \* partition -> the committed rows, in reading order
  buffered \* partition -> the rows appended since

vars == <<visible, buffered>>

\* sort_by the key; rows with equal keys keep their order.
Before(rs, i, j) ==
  \/ KeyOf[rs[i]] < KeyOf[rs[j]]
  \/ KeyOf[rs[i]] = KeyOf[rs[j]] /\ i < j
Sorted(rs) ==
  Along(rs, Arranged(DOMAIN rs, {x \in (DOMAIN rs) \X (DOMAIN rs) : Before(rs, x[1], x[2])}))

\* One row for every key: the one preferred most, and of those the last.
Beats(rs, i, j) ==
  \/ PreferOf[rs[i]] > PreferOf[rs[j]]
  \/ PreferOf[rs[i]] = PreferOf[rs[j]] /\ i > j
Won(rs, i) == \A j \in DOMAIN rs \ {i} : KeyOf[rs[j]] = KeyOf[rs[i]] => Beats(rs, i, j)
Winners(rs) == Along(rs, Ascending({i \in DOMAIN rs : Won(rs, i)}))

Init ==
  /\ visible = [p \in Partitions |-> <<>>]
  /\ buffered = [p \in Partitions |-> <<>>]

Held(p) == {visible[p][i] : i \in DOMAIN visible[p]} \cup {buffered[p][i] : i \in DOMAIN buffered[p]}

\* Rows that a call brings are none of those already there.
NewIn(p) == {rows \in Inputs : \A i \in DOMAIN rows : rows[i] \notin Held(p)}

AppendRows(p) ==
  /\ UNCHANGED visible
  /\ \E rows \in NewIn(p) : buffered' = [buffered EXCEPT ![p] = @ \o rows]

Commit(p) ==
  /\ buffered' = [buffered EXCEPT ![p] = <<>>]
  /\ visible' = [visible EXCEPT ![p] = @ \o Sorted(buffered[p])]

Replace(p) ==
  /\ buffered' = [buffered EXCEPT ![p] = <<>>]
  /\ \E rows \in NewIn(p) : visible' = [visible EXCEPT ![p] = Sorted(rows)]

Compact(p) ==
  /\ UNCHANGED buffered
  /\ visible' = [visible EXCEPT ![p] = Sorted(Winners(@))]

Crash ==
  /\ buffered' = [p \in Partitions |-> <<>>]
  /\ UNCHANGED visible

Next == Crash \/ \E p \in Partitions : AppendRows(p) \/ Commit(p) \/ Replace(p) \/ Compact(p)

Spec == Init /\ [][Next]_vars
=============================================================================
