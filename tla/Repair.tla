------------------------------- MODULE Repair -------------------------------
(***************************************************************************)
(* data_cleaning: detections are recorded, a repair patches and fetches    *)
(* partitions again under a journal it can be undone from, and the quality *)
(* status that detections leave decides what market_data/catalog.py makes  *)
(* available.  One operator runs one command at a time (`tool`), the       *)
(* ordinary synchronisation runs between the commands, and a reader may    *)
(* load the tables at any time.                                            *)
(*                                                                         *)
(* `disk` has the partitions, at <<dataset, day>>, and the checkpoints of  *)
(* the synchronisation, at <<dataset, Missing>>.  A command is the         *)
(* sequence of the steps it still has to take.  A repair writes through a   *)
(* store that it closes at its end: what a failed flush has left in the     *)
(* buffers is flushed then, after the repair has been undone.               *)
(***************************************************************************)
EXTENDS Sequences, SequencesExt, DateRanges, Detector

CONSTANTS
  Worlds,      \* [datasets, lake, marks, upstream, syncs, decidable, values]
  Scopes(_),   \* the scopes of the detections the operator asks for in a world
  LastDay,     \* the last day anything is dated
  MaxRounds, MaxRepairs, MaxSyncs, MaxFaults

\* The tables in the order of TABLE_SCHEMAS.
Order == <<"daily", "adj_factor", "suspend_d", "income", "fina_indicator", "trade_cal">>
Exchanges == {"SSE", "SZSE", "BSE"}

\* The days and the counters.
ASSUME BoundsAssumption ==
  /\ LastDay \in Nat /\ Missing \in Int \ Nat
  /\ {MaxRounds, MaxRepairs, MaxSyncs, MaxFaults} \subseteq Nat

\* The rows are those of a day.
InPlace(rows, day) == \A r \in rows : "date" \in DOMAIN r /\ r.date = day

\* What there is and what upstream has is dated; rows lie in the partition of their day, as
\* the store files them, of which only the calendar's matters; nothing is decided about a
\* table without rows, and no decision moves a row of the market to another day.
ASSUME WorldsAssumption ==
  \A w \in Worlds :
    /\ "trade_cal" \in w.datasets /\ w.datasets \subseteq Range(Order)
    /\ DOMAIN w.lake \subseteq w.datasets \X (0 .. LastDay)
    /\ \A p \in DOMAIN w.lake : /\ w.lake[p].flaw \in Flaws \cup {"none"}
                                /\ p[1] = "trade_cal" => InPlace(w.lake[p].rows, p[2])
    /\ \A d \in w.datasets : \A r \in w.upstream[d] : r[PartitionField(d)] \in 0 .. LastDay
    /\ \A r \in w.upstream["trade_cal"] : "date" \in DOMAIN r
    /\ \A range \in w.syncs : /\ range.dataset \in w.datasets
                              /\ range.first .. range.last \subseteq 0 .. LastDay
    /\ "dataset_empty_v1" \notin w.decidable /\ "date" \notin DOMAIN w.values

\* A detection is of known tables and of days that there are.
ASSUME ScopesAssumption ==
  \A w \in Worlds : \A scope \in Scopes(w) :
    /\ scope.datasets \subseteq w.datasets
    /\ scope.start \in {Missing} \cup (0 .. LastDay) /\ scope.through \in 0 .. LastDay

FullSnapshot == Announcement           \* _FULL_SNAPSHOT_REFETCH
PartitionDateRefetch == MarketDate     \* _PARTITION_DATE_REFETCH
ResetBeforeRefetch ==                  \* _RESET_BEFORE_REFETCH
  {"manifest_v1", "manifest_file_missing_v1", "parquet_read_v1", "schema_v1", "partition_value_v1"}

VARIABLES
  world,    \* what upstream has
  disk,     \* path -> [flaw, rows, commit]
  status,   \* _quality/status.json
  report,   \* the report of the last detection recorded
  repairs,  \* the journals; ghosts: the disk before and after, and what was changed
  tool,     \* the command under way
  store,    \* the buffers that are still to be flushed, and of which repair
  commits, syncs, faults

bounds == <<commits, syncs, faults>>
vars == <<world, disk, status, report, repairs, tool, store, commits, syncs, faults>>

Checkpoint(d) == <<d, Missing>>
Paths(d) == {p \in DOMAIN disk : p[1] = d /\ p # Checkpoint(d)}
Tables(files) == Restrict(files, {p \in DOMAIN files : p[2] # Missing})
Lake == Tables(disk)
Content(path) == IF path \in DOMAIN disk THEN disk[path].rows ELSE {}
Without(path) == Restrict(disk, DOMAIN disk \ {path})
With(path, content) == [p \in DOMAIN disk \cup {path} |-> IF p = path THEN content ELSE disk[p]]

\* What a commit leaves: the number stands for the names and sizes of its files.
Committed(rows, commit) == [flaw |-> "none", rows |-> rows, commit |-> commit]

NoStatus == [found |-> FALSE]
NoReport == [scope |-> [datasets |-> {}, start |-> Missing, through |-> Missing], issues |-> {}, fingerprint |-> << >>]
Idle == [id |-> 0, todo |-> << >>]
Closed == [id |-> 0, kept |-> {}]
Ready == tool = Idle /\ store = Closed

Init ==
  /\ world \in Worlds
  /\ disk = [p \in DOMAIN world.lake \cup {Checkpoint(d) : d \in world.datasets} |->
               IF p[2] = Missing THEN Committed(world.marks, 0)
               ELSE [flaw |-> world.lake[p].flaw, rows |-> world.lake[p].rows, commit |-> 0]]
  /\ status = NoStatus /\ report = NoReport /\ repairs = << >>
  /\ Ready /\ commits = 0 /\ syncs = 0 /\ faults = 0

-----------------------------------------------------------------------------
(* Detection *)

\* record_detection: only a detection of everything is the state of the whole.
Recorded(scope, issues) ==
  /\ report' = [scope |-> scope, issues |-> issues, fingerprint |-> Fingerprint(Lake, scope.datasets)]
  /\ status' = IF scope.start = Missing /\ scope.datasets = world.datasets
               THEN [found |-> TRUE, fingerprint |-> Fingerprint(Lake, world.datasets),
                     errors |-> {d \in world.datasets : Errors(issues, d) # {}}]
               ELSE status

\* data-cleaning detect
Detect ==
  /\ Ready
  /\ \E scope \in Scopes(world) :
       /\ ~DetectFails(Lake, scope)
       /\ \E issues \in {Detected(Lake, scope)} : Recorded(scope, issues)
  /\ UNCHANGED <<world, disk, repairs, tool, store, bounds>>

-----------------------------------------------------------------------------
(* What a repair does about an issue *)

\* _REPAIRERS
Instruction(i) ==
  CASE i.fix = "AUTO_FIX" -> "PATCH"
    [] /\ i.fix = "MANUAL" /\ i.severity = "ERROR" /\ i.suggested.action = "REFETCH"
       /\ i.rule \in ResetBeforeRefetch => i.dataset \in PartitionDateRefetch -> "REFETCH"
    [] OTHER -> "MANUAL"

\* _refetch_issue_ids
ToRefetch(issues, decided) == {i \in issues \ decided : Instruction(i) = "REFETCH"}

\* refetch_ranges, in the order of the tables and of the days.
RefetchRanges(issues, decided) ==
  LET Days(d) == Ascending({i.suggested.day : i \in {x \in ToRefetch(issues, decided) : x.dataset = d}})
      Merged(d) == IF d \in FullSnapshot /\ Days(d) # << >> THEN <<<<Head(Days(d)), Last(Days(d))>>>>
                   ELSE ContiguousRanges(Days(d))
      Of(d) == [k \in DOMAIN Merged(d) |-> [dataset |-> d, first |-> Merged(d)[k][1], last |-> Merged(d)[k][2]]]
  IN FlattenSeq([k \in DOMAIN Order |-> Of(Order[k])])

\* Where _apply_patches changes something, and what.
ToPatch(issues, decided) == {i \in issues : i.fix = "AUTO_FIX" \/ i \in decided}
PatchSteps(issues, decided) ==
  LET changes == ToPatch(issues, decided)
      places == SetToSeq({<<i.dataset, i.day>> : i \in changes})
      unlisted == {i.dataset : i \in changes} \cap {p[1] : p \in {q \in DOMAIN Lake : disk[q].flaw \in {"manifest", "format"}}}
      Of(path) == <<[do |-> "backup", path |-> path],
                    [do |-> "patch", path |-> path, changes |-> {i \in changes : <<i.dataset, i.day>> = path}]>>
  IN IF unlisted # {} THEN <<[do |-> "raise"]>>
     ELSE FlattenSeq([k \in DOMAIN places |-> Of(places[k])])

\* The row an issue is about: there has to be one, with the values that were decided about.
Matching(rows, i) == {r \in rows : Fields(r, DOMAIN i.key) = i.key}
Applies(rows, i) ==
  /\ Cardinality(Matching(rows, i)) = 1
  /\ i.fix = "MANUAL" => \A r \in Matching(rows, i) : Fields(r, DOMAIN i.observed) = i.observed

\* A row that is deleted is not there for the other changes, which come after it.
Deleted(rows, changes) == UNION {Matching(rows, i) : i \in {x \in changes : x.suggested = Delete}}
Patchable(rows, changes) ==
  \A i \in changes : Applies(rows, i) /\ (i.suggested # Delete => Matching(rows, i) \cap Deleted(rows, changes) = {})
Patched(rows, changes) ==
  LET New(i) == IF i.fix = "AUTO_FIX" THEN i.suggested.values ELSE world.values
      Of(r, f) == {i \in changes : r \in Matching(rows, i) /\ f \in DOMAIN New(i)}
      Changed(r) == [f \in DOMAIN r |-> IF Of(r, f) = {} THEN r[f] ELSE New(CHOOSE i \in Of(r, f) : TRUE)[f]]
  IN {Changed(r) : r \in rows \ Deleted(rows, changes)}

-----------------------------------------------------------------------------
(* The synchronisation, sync_datasets with force *)

\* A flush fails on the manifest, and a compaction on the files too.
Unlisted(path) == path \in DOMAIN disk /\ disk[path].flaw \in {"manifest", "format"}
Blocked(path) == path \in DOMAIN disk /\ disk[path].flaw \in Flaws \ {"schema"}

\* A flush adds rows as they are; the second one of a key is told by its field `copy`.
SameKey(d, rows, r) == {s \in rows : RowKey(d, s) = RowKey(d, r)}
Copy(r) == [f \in DOMAIN r \cup {"copy"} |-> IF f = "copy" THEN TRUE ELSE r[f]]
Appended(d, old, new) == old \cup {IF SameKey(d, old, r) = {} THEN r ELSE Copy(r) : r \in new}
\* A compaction keeps the last one of each key.
Compacted(d, rows) ==
  {Restrict(r, DOMAIN r \ {"copy"}) : r \in {x \in rows : "copy" \in DOMAIN x \/ \A s \in SameKey(d, rows, x) : "copy" \notin DOMAIN s}}
Upsert(d, old, new) == new \cup Compacted(d, {r \in old : SameKey(d, new, r) = {}})

\* The days of the calendar that lack an exchange are fetched first, _ensure_trade_calendars.
CalendarDays(first, last) ==
  {day \in first .. last : {r.exchange : r \in Content(<<"trade_cal", day>>)} # Exchanges}
\* The rows upstream has for the days asked for: by announcement, or by the day itself.
Upstream(d, days) ==
  {r \in world.upstream[d] : (IF d \in Announcement THEN r.ann ELSE r.date) \in days}
FetchedRows(d, first, last) ==
  LET added == Upstream("trade_cal", CalendarDays(first, last))
      calendar == UNION {Upsert("trade_cal", Content(<<"trade_cal", day>>), {r \in added : r.date = day}) : day \in first .. last}
      open == {r.date : r \in {x \in calendar : x.open = 1}}
      traded == d \in MarketDate \ {"trade_cal"}
  IN [calendar |-> IF traded THEN added ELSE {},
      rows |-> Upstream(d, IF traded THEN open ELSE first .. last)]

\* The partitions a fetch writes: those of the calendar first.
Writes(d, rows) ==
  LET days == Ascending({r[PartitionField(d)] : r \in rows})
  IN [k \in DOMAIN days |-> [do |-> "write", path |-> <<d, days[k]>>,
                             rows |-> {r \in rows : r[PartitionField(d)] = days[k]}]]
RequestSteps(range, rows) ==
  LET d == range.dataset
  IN Writes(d, rows) \o <<[do |-> "mark", path |-> Checkpoint(d), days |-> range.first .. range.last]>>
FetchSteps(range) ==
  LET fetched == FetchedRows(range.dataset, range.first, range.last)
  IN Writes("trade_cal", fetched.calendar) \o RequestSteps(range, fetched.rows)
\* The calendar is read before the first request.
CalendarBlocked(range) ==
  range.dataset \in MarketDate \ {"trade_cal"} /\ \E day \in range.first .. range.last : Blocked(<<"trade_cal", day>>)

\* Ordinary synchronisation between the commands; one that meets an error is left out.
Sync ==
  /\ Ready /\ syncs < MaxSyncs
  /\ \E range \in world.syncs :
       LET steps == FetchSteps(range)
           fetched == {steps[k].path : k \in DOMAIN steps}
           Of(p) == steps[CHOOSE k \in DOMAIN steps : steps[k].path = p]
           New(p) == IF Of(p).do = "mark" THEN Committed(Content(p) \cup Of(p).days, 0)
                     ELSE Committed(Upsert(p[1], Content(p), Of(p).rows), commits + 1)
       IN /\ ~CalendarBlocked(range) /\ \A p \in fetched : ~Blocked(p)
          /\ disk' = [p \in DOMAIN disk \cup fetched |-> IF p \in fetched THEN New(p) ELSE disk[p]]
  /\ commits' = commits + 1 /\ syncs' = syncs + 1
  /\ UNCHANGED <<world, status, report, repairs, tool, store, faults>>

-----------------------------------------------------------------------------
(* The journal *)

Entry(j, path) == {e \in Range(j.entries) : e.path = path}
Backed(j) == {e.path : e \in Range(j.entries)}

Noted(path) ==
  [path |-> path, found |-> path \in DOMAIN disk, content |-> IF path \in DOMAIN disk THEN disk[path] ELSE << >>]

\* Mutant: a path that is backed up once more has its backup replaced.
BackedUpAgain(j, paths) ==
  LET again == SetToSeq(paths)
  IN [j EXCEPT !.entries = SelectSeq(@, LAMBDA e : e.path \notin paths) \o [k \in DOMAIN again |-> Noted(again[k])]]

\* _backup: what is backed up once stays as it was.
BackedUp(j, paths) ==
  LET new == SetToSeq(paths \ Backed(j)) IN [j EXCEPT !.entries = @ \o [k \in DOMAIN new |-> Noted(new[k])]]

\* restore: the new partitions of a table that is backed up as a whole go, and then each
\* path is as it was, the last one first.
RestoreSteps(j) ==
  LET added == SetToSeq(UNION {Paths(d) \ j.before[d] : d \in DOMAIN j.before})
      Undo(e) == (IF e.path \in DOMAIN disk THEN <<[do |-> "remove", path |-> e.path]>> ELSE << >>)
                   \o (IF e.found THEN <<[do |-> "put", path |-> e.path, content |-> e.content]>> ELSE << >>)
  IN [k \in DOMAIN added |-> [do |-> "remove", path |-> added[k]]]
       \o FlattenSeq(Reverse([k \in DOMAIN j.entries |-> Undo(j.entries[k])]))
       \o <<[do |-> "restored"]>>

-----------------------------------------------------------------------------
(* The steps of a repair *)

Mine == repairs[tool.id]
Step == Head(tool.todo)
Doing(what) == tool.todo # << >> /\ Step.do = what
Then(steps) == tool' = [tool EXCEPT !.todo = steps \o Tail(@)] /\ UNCHANGED store
\* The ghosts: what is changed, apart from the calendar that a fetch completes.
Touched(j, path) ==
  IF path[1] = "trade_cal" /\ path \notin Backed(j) THEN [j EXCEPT !.completed = @ \cup {path}]
  ELSE [j EXCEPT !.touched = @ \cup {path}]
Touch(path) == repairs' = [repairs EXCEPT ![tool.id] = Touched(@, path)]
\* The rows in the buffers while a table is written: those of its partitions to come.
Pending == {s \in Range(tool.todo) : s.do = "write" /\ s.path[1] = Step.path[1]}
\* An exception: the repair is undone, and then the store is closed.
Undone(kept) ==
  /\ tool' = [tool EXCEPT !.todo = RestoreSteps(Mine)]
  /\ store' = IF kept = {} THEN Closed ELSE [id |-> tool.id, kept |-> kept]
Commit(path, rows) ==
  /\ disk' = With(path, Committed(rows, commits + 1))
  /\ commits' = commits + 1
  /\ Touch(path)

\* data-cleaning repair: the report has to be of the data as they are.
Begin ==
  /\ Ready /\ Len(repairs) < MaxRepairs
  /\ report # NoReport /\ Fingerprint(Lake, report.scope.datasets) = report.fingerprint
  /\ \E decided \in {{}} \cup {{i} : i \in {x \in report.issues : x.rule \in world.decidable}} :
       tool' = [id |-> Len(repairs) + 1, scope |-> report.scope, issues |-> report.issues, decided |-> decided,
                rounds |-> 0, detected |-> FALSE,
                todo |-> PatchSteps(report.issues, decided) \o <<[do |-> "round"]>>]
  /\ repairs' = Append(repairs, [status |-> "PREPARED", datasets |-> report.scope.datasets, output |-> << >>,
                                 entries |-> << >>, before |-> << >>, origin |-> disk, left |-> << >>,
                                 touched |-> {}, completed |-> {}, late |-> {}])
  /\ UNCHANGED <<world, disk, status, report, store, bounds>>

Backup ==
  /\ Doing("backup")
  /\ repairs' = [repairs EXCEPT ![tool.id] = BackedUp(@, {Step.path})]
  /\ Then(<< >>)
  /\ UNCHANGED <<world, disk, status, report, bounds>>

\* _apply_patches, one partition
Patch ==
  /\ Doing("patch")
  /\ LET path == Step.path IN
     IF path \in DOMAIN disk /\ Patchable(Content(path), Step.changes)
     THEN Commit(path, Patched(Content(path), Step.changes)) /\ Then(<< >>)
     ELSE Undone({}) /\ UNCHANGED <<disk, repairs, commits>>
  /\ UNCHANGED <<world, status, report, syncs, faults>>

\* The loop of repair
Round ==
  /\ Doing("round")
  /\ LET ranges == RefetchRanges(tool.issues, tool.decided)
         patches == PatchSteps(tool.issues, tool.decided)
     IN IF ranges # << >> /\ tool.rounds < MaxRounds
        THEN Then([k \in DOMAIN ranges |-> [do |-> "refetch", range |-> ranges[k]]] \o <<[do |-> "detect"]>>)
        ELSE IF tool.detected THEN Then(patches \o (IF patches = << >> THEN << >> ELSE <<[do |-> "last"]>>) \o <<[do |-> "commit"]>>)
        ELSE Then(<<[do |-> "last"], [do |-> "commit"]>>)
  /\ UNCHANGED <<world, disk, status, report, repairs, bounds>>

\* backup_refetch and what _reset_broken_partitions finds; the rows are asked for after them.
BackUpRange ==
  /\ Doing("refetch")
  /\ LET range == Step.range
         d == range.dataset
         whole == d \in FullSnapshot
         known == d \in DOMAIN Mine.before
         paths == IF whole THEN IF known THEN {} ELSE Paths(d) ELSE {<<d, day>> : day \in range.first .. range.last}
         j == IF whole /\ ~known THEN [Mine EXCEPT !.before = [t \in DOMAIN @ \cup {d} |-> IF t = d THEN paths ELSE @[t]]] ELSE Mine
         broken == {<<d, i.day>> : i \in {x \in tool.issues : /\ x.dataset = d /\ x.rule \in ResetBeforeRefetch
                                                              /\ Instruction(x) = "REFETCH" /\ x.suggested.day \in range.first .. range.last}}
         resets == SetToSeq(broken \cap DOMAIN disk)
     IN /\ repairs' = [repairs EXCEPT ![tool.id] = BackedUp(j, {Checkpoint(d)} \cup paths)]
        /\ Then([k \in DOMAIN resets |-> [do |-> "remove", path |-> resets[k]]] \o <<[do |-> "fetch", range |-> range]>>)
  /\ UNCHANGED <<world, disk, status, report, bounds>>

Fetch ==
  /\ Doing("fetch")
  /\ LET range == Step.range
         fetched == FetchedRows(range.dataset, range.first, range.last)
     IN IF CalendarBlocked(range) THEN Undone({})
        ELSE Then(Writes("trade_cal", fetched.calendar)
                    \o <<[do |-> "request", range |-> range, rows |-> fetched.rows]>>)
  /\ UNCHANGED <<world, disk, status, report, repairs, bounds>>

Request ==
  /\ Doing("request")
  /\ Then(RequestSteps(Step.range, Step.rows))
  /\ UNCHANGED <<world, disk, status, report, repairs, bounds>>

Write ==
  /\ Doing("write")
  /\ LET path == Step.path IN
     IF Blocked(path) THEN Undone(IF Unlisted(path) THEN Pending ELSE {}) /\ UNCHANGED <<disk, repairs, commits>>
     ELSE Commit(path, Upsert(path[1], Content(path), Step.rows)) /\ Then(<< >>)
  /\ UNCHANGED <<world, status, report, syncs, faults>>

Mark ==
  /\ Doing("mark")
  /\ disk' = With(Step.path, Committed(Content(Step.path) \cup Step.days, 0))
  /\ Touch(Step.path) /\ Then(<< >>)
  /\ UNCHANGED <<world, status, report, bounds>>

\* A detection of the repair's own, of the scope of its report.
Redetect ==
  /\ Doing("detect") \/ Doing("last")
  /\ IF DetectFails(Lake, tool.scope) THEN Undone({}) /\ UNCHANGED <<status, report>>
     ELSE \E issues \in {Detected(Lake, tool.scope)} :
       LET same == ToRefetch(issues, tool.decided) = ToRefetch(tool.issues, tool.decided) IN
       /\ Recorded(tool.scope, issues)
       /\ tool' = [tool EXCEPT !.issues = issues, !.detected = TRUE,
                               !.rounds = IF same THEN MaxRounds ELSE @ + 1,
                               !.todo = IF Step.do = "last" THEN Tail(@) ELSE <<[do |-> "round"]>>]
       /\ UNCHANGED store
  /\ UNCHANGED <<world, disk, repairs, bounds>>

\* commit, with the fingerprint of the last detection
Settle ==
  /\ Doing("commit")
  /\ repairs' = [repairs EXCEPT ![tool.id].status = "COMMITTED", ![tool.id].output = report.fingerprint,
                               ![tool.id].left = disk]
  /\ tool' = Idle
  /\ UNCHANGED <<world, disk, status, report, store, bounds>>

\* rmtree, and the copy of a backup
RemoveTree ==
  /\ Doing("remove")
  /\ disk' = Without(Step.path)
  /\ Touch(Step.path) /\ Then(<< >>)
  /\ UNCHANGED <<world, status, report, bounds>>
PutBack ==
  /\ Doing("put")
  /\ disk' = With(Step.path, Step.content)
  /\ Then(<< >>)
  /\ UNCHANGED <<world, status, report, repairs, bounds>>
Restored ==
  /\ Doing("restored")
  /\ repairs' = [repairs EXCEPT ![tool.id].status = "ROLLED_BACK", ![tool.id].output = << >>]
  /\ tool' = Idle
  /\ UNCHANGED <<world, disk, status, report, store, bounds>>

\* An error of the repair's own, or of a request or the file system; of a write it is one
\* of a flush, which keeps the rows, or of a compaction, which has none left.
Restoring == \E k \in DOMAIN tool.todo : tool.todo[k].do = "restored"
Raise ==
  /\ tool # Idle /\ ~Restoring
  /\ Doing("raise") \/ faults < MaxFaults
  /\ faults' = IF Doing("raise") THEN faults ELSE faults + 1
  /\ Undone({}) \/ (Doing("write") /\ Undone(Pending))
  /\ UNCHANGED <<world, disk, status, report, repairs, commits, syncs>>

\* TushareDataStore.__exit__: what is still in the buffers is flushed, the first partition
\* first, and is not compacted; a flush that fails ends it.
Flush(s) ==
  LET path == s.path
      flaw == IF path \in DOMAIN disk THEN disk[path].flaw ELSE "none"
      rest == store.kept \ {s}
      j == Touched(repairs[store.id], path)
  IN IF Unlisted(path) THEN store' = Closed /\ UNCHANGED <<disk, repairs, commits>>
     ELSE /\ disk' = With(path, [flaw |-> flaw, rows |-> Appended(path[1], Content(path), s.rows), commit |-> commits + 1])
          /\ commits' = commits + 1
          /\ repairs' = [repairs EXCEPT ![store.id] = [j EXCEPT !.late = @ \cup {path}]]
          /\ store' = IF rest = {} THEN Closed ELSE [store EXCEPT !.kept = rest]
Close ==
  /\ tool = Idle
  /\ \E s \in store.kept : (\A t \in store.kept : s.path[2] <= t.path[2]) /\ Flush(s)
  /\ UNCHANGED <<world, status, report, tool, syncs, faults>>

\* The process dies: what it has done stays, and so does its journal.
Crash ==
  /\ ~Ready /\ faults < MaxFaults
  /\ faults' = faults + 1
  /\ tool' = Idle /\ store' = Closed
  /\ UNCHANGED <<world, disk, status, report, repairs, commits, syncs>>

\* Mutant: the data are not compared with what the repair left.
MayRollbackAlways(j) == j.status = "COMMITTED"

\* data-cleaning rollback: of a repair that is done, if nothing has changed since.
MayRollback(j) == j.status = "COMMITTED" /\ Fingerprint(Lake, j.datasets) = j.output
Rollback ==
  /\ Ready
  /\ \E k \in DOMAIN repairs :
       MayRollback(repairs[k]) /\ tool' = [id |-> k, todo |-> RestoreSteps(repairs[k])]
  /\ UNCHANGED <<world, disk, status, report, repairs, store, bounds>>

-----------------------------------------------------------------------------
(* The reader *)

\* Mutant: a status of other data is as good.
UnavailableByErrors == IF status.found THEN status.errors ELSE {}

\* _load_unavailable_datasets
Unavailable ==
  IF ~status.found THEN {}
  ELSE IF status.fingerprint # Fingerprint(Lake, world.datasets) THEN world.datasets
  ELSE status.errors

\* DataCatalog.refresh, which fails on a manifest that is invalid or names no file.  What a
\* reader that refreshes now loads is a function of the disk.
Loadable == \A p \in DOMAIN Lake : disk[p].flaw \notin {"manifest", "format", "missing_file"}
Available == IF Loadable THEN world.datasets \ Unavailable ELSE {}
Loaded(d) == IF d \in Available THEN UNION {RowsOf(Lake, d, day) : day \in DaysIn(Lake, d)} ELSE {}

-----------------------------------------------------------------------------
Work ==
  \/ Backup \/ Patch \/ Round \/ BackUpRange \/ Fetch \/ Request \/ Write \/ Mark \/ Redetect \/ Settle
  \/ RemoveTree \/ PutBack \/ Restored
Next == Detect \/ Begin \/ Work \/ Raise \/ Close \/ Crash \/ Rollback \/ Sync
Spec == Init /\ [][Next]_vars

-----------------------------------------------------------------------------
(* Properties *)

Path == world.datasets \X ((0 .. LastDay) \cup {Missing})
TypeOK ==
  /\ world \in Worlds /\ DOMAIN disk \subseteq Path
  /\ \A p \in DOMAIN disk : disk[p].flaw \in Flaws \cup {"none"} /\ disk[p].commit \in 0 .. commits
  /\ status.found => status.errors \subseteq world.datasets
  /\ \A k \in DOMAIN repairs : LET j == repairs[k] IN
       /\ j.status \in {"PREPARED", "COMMITTED", "ROLLED_BACK"}
       /\ j.touched \cup j.completed \cup Backed(j) \subseteq Path /\ j.late \subseteq j.touched \cup j.completed
       /\ IsInjective([e \in DOMAIN j.entries |-> j.entries[e].path])
  /\ store # Closed => store.id \in DOMAIN repairs /\ store.kept # {}
  /\ tool.id \in 0 .. Len(repairs) /\ (tool = Idle <=> tool.todo = << >>)
  /\ faults \in 0 .. MaxFaults

\* Of each path that a repair has changed its journal has what was there before, from
\* before the change on, whatever the repair did to the path afterwards and however often;
\* a path that it has no entry of was not there before, and goes when it is undone.
NothingLost ==
  TypeOK /\ \A k \in DOMAIN repairs : LET j == repairs[k] IN
    \A path \in j.touched \ j.completed :
      \/ \E e \in Entry(j, path) : /\ e.found = (path \in DOMAIN j.origin)
                                   /\ e.found => e.content = j.origin[path]
      \/ path \notin DOMAIN j.origin /\ path[1] \in DOMAIN j.before /\ path \notin j.before[path[1]]

Same(files, others, path) ==
  /\ path \in DOMAIN files <=> path \in DOMAIN others
  /\ path \in DOMAIN files => files[path] = others[path]

\* A partition that a repair has added to a table it backs up as a whole, and that a late
\* patch of its own has backed up afterwards: restore removes it and then puts it back.
Readded(j, path) ==
  path[2] # Missing /\ path[1] \in DOMAIN j.before /\ path \notin j.before[path[1]] /\ path \in Backed(j)

\* Each path that a repair had changed is as it was before the repair, but for those that it
\* has added and then patched, and for the rows that the store flushed late on top of what
\* was restored.
AsBefore(j) ==
  \A path \in j.touched \ j.completed :
    \/ Readded(j, path) \/ Same(disk, j.origin, path)
    \/ path \in j.late /\ path \in DOMAIN disk /\ (path \in DOMAIN j.origin => j.origin[path].rows \subseteq disk[path].rows)
Ended(k) == k \in {tool.id, store.id} /\ Ready'

\* When the command of a repair that was undone ends, by an error and the close of its store
\* or by a rollback, the paths the repair had changed are as they were before it, and nothing
\* of theirs is gone; and a rollback only begins while the partitions that the repair had
\* changed are as the repair left them, so no later change of theirs is lost.
RestoresItsOwn ==
  [][\A k \in DOMAIN repairs :
       /\ Ended(k) /\ repairs'[k].status = "ROLLED_BACK" => AsBefore(repairs[k])'
       /\ (repairs[k].status = "COMMITTED" /\ Ready /\ tool'.id = k) =>
            \A path \in repairs[k].touched \ repairs[k].completed :
              path[2] # Missing => Same(disk, repairs[k].left, path)]_<<repairs, tool, store>>

\* What a reader is served once everything has been detected is without an error that such
\* a detection of it would find, whatever repair, rollback or synchronisation is under way.
ServedWasChecked ==
  LET everything == [datasets |-> world.datasets, start |-> Missing, through |-> LastDay]
  IN status.found /\ Available # {} => \A d \in Available : Errors(Detected(Lake, everything), d) = {}

PIT == INSTANCE PointInTime WITH SupportedFrom <- 1, Never <- LastDay + 1

\* The tables as the adapters read them, without codes that change.
Db == [daily |-> {r @@ [value |-> r.close] : r \in Loaded("daily")}, adj_factor |-> Loaded("adj_factor"),
       trade_cal |-> {[r EXCEPT !.open = (@ = 1)] : r \in Loaded("trade_cal")},
       suspend_d |-> Loaded("suspend_d"), fina_indicator |-> Loaded("fina_indicator"),
       suspend_ranges |-> {[start |-> day, end |-> day] : day \in Content(Checkpoint("suspend_d"))},
       unavailable |-> world.datasets \ Available, checked |-> FALSE]
All == [symbols |-> PIT!Every, start |-> 0, end |-> PIT!At(LastDay + 1, 0), count |-> 0, periods |-> 0, forward |-> TRUE]

\* Bars that are served with their factors have an adjusted price, and a positive one.
PricesAnswered ==
  {"daily", "adj_factor"} \subseteq Available =>
    LET bars == PIT!TushareDaily(Db, PIT!At(LastDay + 1, 0), All)
    IN bars.ok /\ \A b \in bars.rows : b.price[1] > 0 /\ b.price[2] > 0
\* No indicator is seen on or before the day its report ends.
ReportsHaveEnded ==
  "fina_indicator" \in Available =>
    \A r \in PIT!Indicators(Db, PIT!At(LastDay + 1, 0), All).rows : PIT!DayOf(r.visible) > r.end
\* A stock that upstream had suspended all day does not trade on a day whose suspensions
\* have been fetched, unless a repair was left half done.
SuspendedIsKnown ==
  "suspend_d" \in Available /\ (\A k \in DOMAIN repairs : repairs[k].status # "PREPARED") =>
    \A r \in {x \in world.upstream["suspend_d"] : x.type = "S" /\ x.intervals = {} /\ x.date \in Content(Checkpoint("suspend_d"))} :
      \A answer \in PIT!Suspensions(Db, PIT!At(r.date, PIT!Trading), [symbols |-> PIT!Only({r.code})]).rows :
        answer.suspended # "trading"

\* What passes the gate can be used: the answers of the adapters from it are sound.
UsableAnswers == status.found => PricesAnswered /\ ReportsHaveEnded /\ SuspendedIsKnown
=============================================================================
