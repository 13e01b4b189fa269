---------------------------- MODULE ParquetStore ----------------------------
(***************************************************************************)
(* parquet_store/store.py: one table of a ParquetStore, used by several    *)
(* threads and by the sync code that appends, flushes and compacts.        *)
(*                                                                         *)
(* On disk a partition is its parquet files and a manifest that names the  *)
(* valid ones; in memory it is a buffer.  Everything that touches one      *)
(* partition is done under its lock; a step is the code between two        *)
(* changes of the disk or of shared memory, so that a crash, or an error   *)
(* from the file system, can come between any two of them.                 *)
(* A row is a number; its key, partition and preference are constants.     *)
(***************************************************************************)
EXTENDS Integers, Sequences, FiniteSets, SequencesExt, FiniteSetsExt, Arrangement

CONSTANTS
  Partitions,  \* numbers standing for partition ids; sorted() is their order
  Threads,
  PartitionOf, KeyOf, PreferOf, \* sequences: row -> its partition, key, preference
  BufferLimit, \* max_buffer_rows
  TargetRows,  \* target_rows_per_file
  Clock,       \* the values time_ns() may have, in any order
  Schemas,     \* the table's schema versions 1 .. n
  MaxCalls,    \* bound: calls made
  MaxFaults,   \* bound: crashes and file system errors
  None

ASSUME NumbersAssumption ==
  /\ Partitions \subseteq Nat /\ IsFiniteSet(Partitions) /\ Clock \subseteq Nat
  /\ BufferLimit \in Nat \ {0} /\ TargetRows \in Nat \ {0}
  /\ Schemas \subseteq Nat /\ 1 \in Schemas
ASSUME RowsAssumption ==
  /\ PartitionOf \in Seq(Partitions) /\ KeyOf \in Seq(Int) /\ PreferOf \in Seq(Int)
  /\ Len(PartitionOf) = Len(KeyOf) /\ Len(PreferOf) = Len(KeyOf)

Manifests ==
  [version : Nat, files : Seq(Nat), at : Seq(Nat), updated : Nat, signature : Schemas \cup {None}]
ASSUME NoneAssumption == None \notin Threads /\ None \notin Schemas /\ None \notin Manifests

VARIABLES
  manifest, \* partition -> _manifest.json, or None where there is none
  files,    \* partition -> the parquet files in its directory: id -> rows
  buffer,   \* partition -> the buffered rows and the schemas of their tables
  schema,   \* the schema version the table is registered with
  closed,   \* _closed
  lock,     \* partition -> the thread holding its lock, or None
  thread,   \* thread -> what is left of its call
  made,     \* ids given to files so far
  rows,     \* rows handed to calls so far
  calls, faults

disk == <<manifest, files>>
memory == <<buffer, schema, closed>>
bounds == <<rows, calls, faults>>
vars == <<manifest, files, buffer, schema, closed, lock, thread, made, rows, calls, faults>>

Rows == DOMAIN KeyOf
Empty == [rows |-> <<>>, schemas |-> {}]
Idle == [at |-> "idle"]
Run(from, to) == [i \in 1 .. to - from + 1 |-> from + i - 1]
InPartition(p, rs) == Ascending({r \in ToSet(rs) : PartitionOf[r] = p})
Inputs == {<<>>} \cup {InPartition(p, Run(m, n)) : p \in Partitions, m \in Rows, n \in Rows}

\* _load_manifest where there is no file.
NoManifest == [version |-> 0, files |-> <<>>, at |-> <<>>, updated |-> 0, signature |-> None]
Current(p) == IF manifest[p] = None THEN NoManifest ELSE manifest[p]

\* _ordered_manifest_files: by commit time, and by position within one commit.
Ordered(m) ==
  LET Earlier(i, j) == m.at[i] < m.at[j] \/ (m.at[i] = m.at[j] /\ i < j)
      order == {x \in (DOMAIN m.files) \X (DOMAIN m.files) : Earlier(x[1], x[2])}
  IN Along(m.files, Arranged(DOMAIN m.files, order))

\* What read returns of a partition.
Visible(p) == FlattenSeq(Along(files[p], Ordered(Current(p))))

\* The buffer, once what it holds has been committed or replaced, is only
\* waiting to be dropped.
Superseded(p) ==
  lock[p] # None /\ thread[lock[p]].at \in {"committed", "cleaned"} /\ thread[lock[p]].drops

Table == INSTANCE PartitionTable WITH
  visible <- [p \in Partitions |-> Visible(p)],
  buffered <- [p \in Partitions |-> IF Superseded(p) THEN <<>> ELSE buffer[p].rows]

Init ==
  /\ manifest = [p \in Partitions |-> None]
  /\ files = [p \in Partitions |-> <<>>]
  /\ buffer = [p \in Partitions |-> Empty]
  /\ schema = 1
  /\ closed = FALSE
  /\ lock = [p \in Partitions |-> None]
  /\ thread = [t \in Threads |-> Idle]
  /\ made = 0 /\ rows = 0 /\ calls = 0 /\ faults = 0

-----------------------------------------------------------------------------
(* Calls.  A call is a sequence of tasks, each of which needs one          *)
(* partition's lock at most.                                               *)

Task(do, p, rs) == [do |-> do, p |-> p, rows |-> rs]
Simply(do) == <<Task(do, 0, <<>>)>>
\* _group_rows: one group for every partition, in the order of its first row.
Groups(do, rs) ==
  LET P == {PartitionOf[rs[i]] : i \in DOMAIN rs}
      ps == Arranged(P, {x \in P \X P : Head(InPartition(x[1], rs)) < Head(InPartition(x[2], rs))})
  IN [i \in DOMAIN ps |-> Task(do, ps[i], InPartition(ps[i], rs))]
PerPartition(do, P) == [i \in DOMAIN Ascending(P) |-> Task(do, Ascending(P)[i], <<>>)]

Call(t, op, tasks, used) ==
  /\ thread[t] = Idle /\ ~closed /\ calls < MaxCalls
  /\ calls' = calls + 1
  /\ rows' = rows + used
  /\ thread' = [thread EXCEPT ![t] = [at |-> "ready", op |-> op, todo |-> tasks, schema |-> schema,
                                      new |-> Run(rows + 1, rows + used), plan |-> <<>>, ids |-> <<>>,
                                      keep |-> FALSE, drops |-> FALSE, signature |-> None]]
  /\ UNCHANGED <<disk, memory, lock, made, faults>>

Fresh(n) == Run(rows + 1, rows + n)
Available == 1 .. Cardinality(Rows) - rows

CallAppend(t) == \E n \in Available : Call(t, "append", Groups("append", Fresh(n)), n)
CallFlush(t) == Call(t, "flush", Simply("flush"), 0)

\* External to the store: write of the sync code, with the data's partitions sorted.
CallWrite(t) ==
  \E n \in Available :
    Call(t, "write", Groups("append", Fresh(n)) \o Simply("flush")
                     \o PerPartition("compact", {PartitionOf[r] : r \in rows + 1 .. rows + n}), n)

CallReplacePartition(t) ==
  \E p \in Partitions, n \in {0} \cup Available :
    /\ InPartition(p, Fresh(n)) = Fresh(n)
    /\ Call(t, "replace", <<Task("replace", p, Fresh(n))>>, n)

CallCompactPartition(t) ==
  \E p \in Partitions : Call(t, "compact", <<Task("compact", p, <<>>)>>, 0)
CallCompactTable(t) == Call(t, "compact", Simply("flush") \o Simply("scan"), 0)

CallUpdateSchema(t) ==
  schema + 1 \in Schemas /\ Call(t, "update_schema", Simply("flush") \o Simply("configure"), 0)

\* close, at the end of the `with` block, when the thread pool has finished.
CallClose(t) ==
  /\ \A u \in Threads : thread[u] = Idle
  /\ Call(t, "close", Simply("flush") \o Simply("close"), 0)

-----------------------------------------------------------------------------
(* Tasks. *)

NextTask(t) == Head(thread[t].todo)
Doing(t, do) == thread[t].at = "ready" /\ thread[t].todo # <<>> /\ NextTask(t).do = do
Rest(t) == Tail(thread[t].todo)

\* The thread with its tasks replaced by ts; without any, the call returns.
\* After its flush, write calls compact_partition, which reads the configuration.
With(t, ts) ==
  IF ts = <<>> THEN Idle
  ELSE [thread[t] EXCEPT !.at = "ready", !.todo = ts,
                         !.schema = IF thread[t].op = "write" /\ Head(ts).do = "compact" THEN schema ELSE @]
Continue(t, ts) == thread' = [thread EXCEPT ![t] = With(t, ts)]
Raise(t) == thread' = [thread EXCEPT ![t] = Idle]

\* The partition's lock is taken and files with these rows are to be committed.
Prepare(t, p, plan, keep, drops, signature) ==
  /\ lock' = [lock EXCEPT ![p] = t]
  /\ thread' = [thread EXCEPT ![t].at = "writing", ![t].plan = plan, ![t].ids = <<>>, ![t].keep = keep,
                              ![t].drops = drops, ![t].signature = signature]

FlushPlan(rs) == <<Table!Sorted(rs)>>
\* _split_table
Chunks(rs) ==
  [i \in 1 .. (Len(rs) + TargetRows - 1) \div TargetRows |->
     SubSeq(rs, (i - 1) * TargetRows + 1, IF i * TargetRows < Len(rs) THEN i * TargetRows ELSE Len(rs))]

\* Mutant: the rows are buffered without the partition's lock.
AppendGroupUnlocked(t) ==
  LET p == NextTask(t).p
      b == [rows |-> buffer[p].rows \o NextTask(t).rows, schemas |-> buffer[p].schemas \cup {thread[t].schema}]
  IN
  /\ Doing(t, "append")
  /\ buffer' = [buffer EXCEPT ![p] = b]
  /\ IF Len(b.rows) < BufferLimit \/ lock[p] # None THEN Continue(t, Rest(t)) /\ UNCHANGED lock
     ELSE Prepare(t, p, FlushPlan(b.rows), TRUE, TRUE, None)
  /\ UNCHANGED <<disk, schema, closed, made, bounds>>

\* append, for one partition: the rows are buffered under its lock, and the
\* lock is kept to flush them when the limit is reached.
AppendGroup(t) ==
  LET p == NextTask(t).p
      b == [rows |-> buffer[p].rows \o NextTask(t).rows, schemas |-> buffer[p].schemas \cup {thread[t].schema}]
  IN
  /\ Doing(t, "append") /\ lock[p] = None
  /\ buffer' = [buffer EXCEPT ![p] = b]
  /\ IF Len(b.rows) < BufferLimit THEN Continue(t, Rest(t)) /\ UNCHANGED lock
     ELSE IF Cardinality(b.schemas) > 1 THEN Raise(t) /\ UNCHANGED lock
     ELSE Prepare(t, p, FlushPlan(b.rows), TRUE, TRUE, None)
  /\ UNCHANGED <<disk, schema, closed, made, bounds>>

\* Mutant: a partition another thread is working on is left to that thread.
SnapshotIdle(t) ==
  /\ Doing(t, "flush")
  /\ Continue(t, PerPartition("commit", {p \in Partitions : buffer[p].rows # <<>> /\ lock[p] = None}) \o Rest(t))
  /\ UNCHANGED <<disk, memory, lock, made, bounds>>

\* flush notes which partitions have rows ...
Snapshot(t) ==
  /\ Doing(t, "flush")
  /\ Continue(t, PerPartition("commit", {p \in Partitions : buffer[p].rows # <<>>}) \o Rest(t))
  /\ UNCHANGED <<disk, memory, lock, made, bounds>>

\* ... and flushes each, unless another thread has done so meanwhile.
NothingToFlush(t) ==
  /\ Doing(t, "commit") /\ lock[NextTask(t).p] = None
  /\ buffer[NextTask(t).p].rows = <<>>
  /\ Continue(t, Rest(t))
  /\ UNCHANGED <<disk, memory, lock, made, bounds>>

\* concat_tables raises for tables of different schemas.
MixedSchemas(t) ==
  /\ Doing(t, "commit") /\ lock[NextTask(t).p] = None
  /\ Cardinality(buffer[NextTask(t).p].schemas) > 1
  /\ Raise(t)
  /\ UNCHANGED <<disk, memory, lock, made, bounds>>

StartFlush(t) ==
  LET p == NextTask(t).p IN
  /\ Doing(t, "commit") /\ lock[p] = None
  /\ buffer[p].rows # <<>> /\ Cardinality(buffer[p].schemas) = 1
  /\ Prepare(t, p, FlushPlan(buffer[p].rows), TRUE, TRUE, None)
  /\ UNCHANGED <<disk, memory, made, bounds>>

StartReplace(t) ==
  /\ Doing(t, "replace") /\ lock[NextTask(t).p] = None
  /\ Prepare(t, NextTask(t).p, Chunks(Table!Sorted(NextTask(t).rows)), FALSE, TRUE, None)
  /\ UNCHANGED <<disk, memory, made, bounds>>

\* compact_table looks for manifests once it has flushed.
Scan(t) ==
  LET found == PerPartition("compact", {p \in Partitions : manifest[p] # None}) IN
  /\ Doing(t, "scan")
  /\ thread' = [thread EXCEPT ![t] = IF found = <<>> THEN Idle
                                     ELSE [With(t, found) EXCEPT !.schema = schema]]
  /\ UNCHANGED <<disk, memory, lock, made, bounds>>

\* The signature stands for the algorithm and the table's configuration.
Signed(t, p) == Current(p).signature = thread[t].schema

NothingToCompact(t) ==
  LET p == NextTask(t).p IN
  /\ Doing(t, "compact") /\ lock[p] = None
  /\ Signed(t, p) \/ Current(p).files = <<>>
  /\ Continue(t, Rest(t))
  /\ UNCHANGED <<disk, memory, lock, made, bounds>>

\* A single file without a repeated key stays; only the signature is noted.
Unrepeated(p) == Len(Current(p).files) = 1 /\ Len(Table!Winners(Visible(p))) = Len(Visible(p))

SignOnly(t) ==
  LET p == NextTask(t).p IN
  /\ Doing(t, "compact") /\ lock[p] = None
  /\ ~Signed(t, p) /\ Current(p).files # <<>> /\ Unrepeated(p)
  /\ manifest' = [manifest EXCEPT ![p].signature = thread[t].schema]
  /\ Continue(t, Rest(t))
  /\ UNCHANGED <<files, memory, lock, made, bounds>>

StartCompact(t) ==
  LET p == NextTask(t).p IN
  /\ Doing(t, "compact") /\ lock[p] = None
  /\ ~Signed(t, p) /\ Current(p).files # <<>> /\ ~Unrepeated(p)
  /\ Prepare(t, p, Chunks(Table!Sorted(Table!Winners(Visible(p)))), FALSE, FALSE, thread[t].schema)
  /\ UNCHANGED <<disk, memory, made, bounds>>

\* update_schema ends by registering the extended schema it was called with.
Configure(t) ==
  /\ Doing(t, "configure")
  /\ schema' = thread[t].schema + 1
  /\ Continue(t, <<>>)
  /\ UNCHANGED <<disk, buffer, closed, lock, made, bounds>>

Close(t) ==
  /\ Doing(t, "close")
  /\ closed' = TRUE
  /\ Continue(t, <<>>)
  /\ UNCHANGED <<disk, buffer, schema, lock, made, bounds>>

-----------------------------------------------------------------------------
(* _commit, and the same steps at the end of _compact_partition. *)

Is(t, stage) == thread[t].at = stage
To(t, stage) == thread' = [thread EXCEPT ![t].at = stage]
Unlocked(p) == [lock EXCEPT ![p] = None]

\* _write_files: temporary files, fsync, rename.
WriteFiles(t) ==
  LET p == NextTask(t).p
      ids == [i \in DOMAIN thread[t].plan |-> made + i]
  IN
  /\ Is(t, "writing")
  /\ made' = made + Len(ids)
  /\ files' = [files EXCEPT ![p] =
                 [f \in DOMAIN @ \cup ToSet(ids) |-> IF f > made THEN thread[t].plan[f - made] ELSE @[f]]]
  /\ thread' = [thread EXCEPT ![t].at = "written", ![t].ids = ids]
  /\ UNCHANGED <<manifest, memory, lock, bounds>>

\* The time of a commit: the clock, but later than every earlier commit.
CommittedAt(now, m) == Max({now, m.updated + 1} \cup {m.at[i] + 1 : i \in DOMAIN m.at})

\* Mutant: an appended file keeps the partition's signature.
NewManifestSigned(t, now) ==
  LET w == thread[t]
      m == Current(NextTask(t).p)
      at == [i \in DOMAIN w.ids |-> CommittedAt(now, m)]
  IN [version |-> m.version + 1,
      files |-> IF w.keep THEN m.files \o w.ids ELSE w.ids,
      at |-> IF w.keep THEN m.at \o at ELSE at,
      updated |-> CommittedAt(now, m),
      signature |-> IF w.keep THEN m.signature ELSE w.signature]

NewManifest(t, now) ==
  LET w == thread[t]
      m == Current(NextTask(t).p)
      at == [i \in DOMAIN w.ids |-> CommittedAt(now, m)]
  IN [version |-> m.version + 1,
      files |-> IF w.keep THEN m.files \o w.ids ELSE w.ids,
      at |-> IF w.keep THEN m.at \o at ELSE at,
      updated |-> CommittedAt(now, m),
      signature |-> w.signature]

\* _write_manifest: os.replace is the commit point.
ReplaceManifest(t) ==
  /\ Is(t, "written")
  /\ \E now \in Clock : manifest' = [manifest EXCEPT ![NextTask(t).p] = NewManifest(t, now)]
  /\ To(t, "committed")
  /\ UNCHANGED <<files, memory, lock, made, bounds>>

Only(fs, ids) == [f \in DOMAIN fs \cap ids |-> fs[f]]

\* _cleanup_unreferenced_files
Cleanup(t) ==
  LET p == NextTask(t).p IN
  /\ Is(t, "committed")
  /\ files' = [files EXCEPT ![p] = Only(@, ToSet(manifest[p].files))]
  /\ To(t, "cleaned")
  /\ UNCHANGED <<manifest, memory, lock, made, bounds>>

\* What has been committed or replaced leaves the buffer, and the lock is freed.
Finish(t) ==
  LET p == NextTask(t).p IN
  /\ Is(t, "cleaned")
  /\ buffer' = IF thread[t].drops THEN [buffer EXCEPT ![p] = Empty] ELSE buffer
  /\ lock' = Unlocked(p)
  /\ Continue(t, Rest(t))
  /\ UNCHANGED <<disk, schema, closed, made, bounds>>

-----------------------------------------------------------------------------
(* Errors of the file system, crashes and restarts. *)

Fault == faults < MaxFaults /\ faults' = faults + 1

\* Writing a file or the manifest raises: what was written is removed again.
CommitFails(t) ==
  LET p == NextTask(t).p IN
  /\ Fault
  /\ thread[t].at \in {"writing", "written"}
  /\ files' = [files EXCEPT ![p] = Only(@, DOMAIN @ \ ToSet(thread[t].ids))]
  /\ lock' = Unlocked(p)
  /\ Raise(t)
  /\ UNCHANGED <<manifest, memory, made, rows, calls>>

\* A file cannot be removed: a warning, and the call goes on.
CleanupFails(t) ==
  LET p == NextTask(t).p IN
  /\ Fault
  /\ Is(t, "committed")
  /\ \E left \in (SUBSET (DOMAIN files[p] \ ToSet(manifest[p].files))) \ {{}} :
       files' = [files EXCEPT ![p] = Only(@, ToSet(manifest[p].files) \cup left)]
  /\ To(t, "cleaned")
  /\ UNCHANGED <<manifest, memory, lock, made, rows, calls>>

\* A new instance on the same directory.
NewInstance ==
  /\ buffer' = [p \in Partitions |-> Empty]
  /\ closed' = FALSE
  /\ lock' = [p \in Partitions |-> None]
  /\ thread' = [t \in Threads |-> Idle]
  /\ UNCHANGED <<disk, schema, made, rows, calls>>

Crash == Fault /\ NewInstance

Reopen == closed /\ NewInstance /\ UNCHANGED faults

CallAny(t) ==
  \/ CallAppend(t) \/ CallFlush(t) \/ CallWrite(t) \/ CallReplacePartition(t)
  \/ CallCompactPartition(t) \/ CallCompactTable(t) \/ CallUpdateSchema(t) \/ CallClose(t)

Step(t) ==
  \/ AppendGroup(t) \/ Snapshot(t) \/ NothingToFlush(t) \/ MixedSchemas(t) \/ StartFlush(t)
  \/ StartReplace(t) \/ Scan(t) \/ NothingToCompact(t) \/ SignOnly(t) \/ StartCompact(t)
  \/ Configure(t) \/ Close(t) \/ WriteFiles(t) \/ ReplaceManifest(t) \/ Cleanup(t) \/ Finish(t)

\* The bound on calls is reached.
Stopped ==
  /\ calls = MaxCalls /\ \A t \in Threads : thread[t] = Idle
  /\ UNCHANGED vars

Next ==
  \/ \E t \in Threads : CallAny(t) \/ Step(t) \/ CommitFails(t) \/ CleanupFails(t)
  \/ Crash \/ Reopen \/ Stopped

Spec == Init /\ [][Next]_vars
-----------------------------------------------------------------------------
FileIds == 1 .. made
RowSeqs == {rs \in Seq(Rows) : rs # <<>>}

\* The variables have the types the code declares: a manifest's lists match, no
\* file is empty, and a thread that commits holds its partition's lock.
TypeOK ==
  /\ \A p \in Partitions :
       /\ manifest[p] # None =>
            /\ manifest[p].version \in Nat \ {0} /\ manifest[p].signature \in Schemas \cup {None}
            /\ ToSet(manifest[p].files) \subseteq FileIds /\ IsInjective(manifest[p].files)
            /\ DOMAIN manifest[p].at = DOMAIN manifest[p].files
            /\ \A i \in DOMAIN manifest[p].at : manifest[p].at[i] \in 1 .. manifest[p].updated
       /\ DOMAIN files[p] \subseteq FileIds /\ \A f \in DOMAIN files[p] : files[p][f] \in RowSeqs
       /\ buffer[p].rows \in Seq(Rows) /\ buffer[p].schemas \subseteq Schemas
       /\ \A t \in Threads : lock[p] = t <=>
            thread[t].at \in {"writing", "written", "committed", "cleaned"} /\ NextTask(t).p = p
  /\ schema \in Schemas /\ closed \in BOOLEAN

\* Every file a manifest names is on disk, whatever was being written, cleaned up
\* or undone when the process died or the file system failed.
ManifestFilesExist ==
  \A p \in Partitions : ToSet(Current(p).files) \subseteq DOMAIN files[p]

\* A compaction signature is never stale: a partition that carries one has no
\* key twice, so that a later compaction may skip it.
SignedHasUniqueKeys ==
  \A p \in Partitions :
    Current(p).signature # None => IsInjective([i \in DOMAIN Visible(p) |-> KeyOf[Visible(p)[i]]])

\* What is on disk can be read, and read as it is said to be.
DiskIsReadable == TypeOK /\ ManifestFilesExist /\ SignedHasUniqueKeys

\* What the synchronisation relies on when it marks a range as completed: once
\* the flush of its write has returned, no row of the write is only in memory,
\* also where another thread flushed, or failed to flush, the same partition.
Flushed(t) ==
  /\ thread[t] # Idle /\ thread[t].op = "write"
  /\ \A i \in DOMAIN thread[t].todo : thread[t].todo[i].do = "compact"

WrittenIsCommitted ==
  \A t \in Threads : Flushed(t) =>
    \A p \in Partitions : ToSet(thread[t].new) \cap ToSet(buffer[p].rows) = {}

\* Readers see commits, replacements and compactions as if each happened at one
\* instant and in the order of the commits; a crash loses buffered rows only.
ImplementsTable == Table!Spec
=============================================================================
