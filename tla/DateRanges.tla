----------------------------- MODULE DateRanges -----------------------------
(***************************************************************************)
(* The arithmetic of closed date ranges that the synchronisation keeps its *)
(* checkpoints with.  A date is its ordinal, a range is <<first, last>>.   *)
(***************************************************************************)
EXTENDS Integers, Sequences, SequencesExt, Arrangement

Earlier(a, b) == IF a < b THEN a ELSE b
Later(a, b) == IF a > b THEN a ELSE b

\* The dates that ranges stand for.
DaysOf(ranges) == UNION {ranges[i][1] .. ranges[i][2] : i \in DOMAIN ranges}

\* Ranges compare by their first date, and then by their last.
Precedes(r, s) == r[1] < s[1] \/ (r[1] = s[1] /\ r[2] < s[2])

\* Mutant: adjacent ranges stay apart.
ExtendedOverlapping(merged, r) ==
  IF merged = <<>> \/ r[1] > Last(merged)[2]
  THEN Append(merged, r)
  ELSE Append(Front(merged), <<Last(merged)[1], Later(Last(merged)[2], r[2])>>)

\* A range that comes after those merged so far: on its own, or part of their last.
Extended(merged, r) ==
  IF merged = <<>> \/ r[1] > Last(merged)[2] + 1
  THEN Append(merged, r)
  ELSE Append(Front(merged), <<Last(merged)[1], Later(Last(merged)[2], r[2])>>)

\* _merge_date_ranges: overlapping and adjacent ranges become one.
MergeDateRanges(ranges) ==
  LET Before(i, j) == Precedes(ranges[i], ranges[j]) \/ (ranges[i] = ranges[j] /\ i < j)
      order == Arranged(DOMAIN ranges, {x \in (DOMAIN ranges) \X (DOMAIN ranges) : Before(x[1], x[2])})
      merged[i \in 0 .. Len(ranges)] == IF i = 0 THEN <<>> ELSE Extended(merged[i - 1], ranges[order[i]])
  IN merged[Len(ranges)]

\* Mutant: the day after a completed range is where it ends.
PassedFromEnd(scan, r, end) ==
  IF r[2] < scan.cursor \/ r[1] > end THEN scan
  ELSE [cursor |-> Later(scan.cursor, r[2]),
        found |-> IF r[1] > scan.cursor THEN Append(scan.found, <<scan.cursor, Earlier(end, r[1] - 1)>>) ELSE scan.found]

\* The search for what is missing goes past a completed range.
Passed(scan, r, end) ==
  IF r[2] < scan.cursor \/ r[1] > end THEN scan
  ELSE [cursor |-> Later(scan.cursor, r[2] + 1),
        found |-> IF r[1] > scan.cursor THEN Append(scan.found, <<scan.cursor, Earlier(end, r[1] - 1)>>) ELSE scan.found]

\* Mutant: what lies before or between completed ranges is not seen.
MissingAfterLast(start, end, completed) ==
  LET cursor == IF completed = <<>> THEN start ELSE Later(start, Last(completed)[2] + 1)
  IN IF cursor <= end THEN <<<<cursor, end>>>> ELSE <<>>

\* _missing_date_ranges: what completed leaves of start .. end.  Ranges that
\* begin after the end change nothing, so the loop's breaks are left out.
MissingDateRanges(start, end, completed) ==
  LET scan[i \in 0 .. Len(completed)] ==
        IF i = 0 THEN [cursor |-> start, found |-> <<>>] ELSE Passed(scan[i - 1], completed[i], end)
      scanned == scan[Len(completed)]
  IN IF scanned.cursor <= end THEN Append(scanned.found, <<scanned.cursor, end>>) ELSE scanned.found

\* _split_range: pieces of days dates each, the last one shorter.
SplitRange(start, end, days) ==
  [i \in 1 .. (end - start) \div days + 1 |->
     <<start + (i - 1) * days, Earlier(end, start + i * days - 1)>>]

\* _contiguous_ranges of dates in ascending order: one for each run of days.
ContiguousRanges(dates) ==
  LET Joined(ranges, day) ==
        IF ranges # <<>> /\ day = Last(ranges)[2] + 1
        THEN Append(Front(ranges), <<Last(ranges)[1], day>>)
        ELSE Append(ranges, <<day, day>>)
      found[i \in 0 .. Len(dates)] == IF i = 0 THEN <<>> ELSE Joined(found[i - 1], dates[i])
  IN found[Len(dates)]
=============================================================================
