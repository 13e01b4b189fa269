------------------------- MODULE TushareSyncProofs -------------------------
(***************************************************************************)
(* The synchronisation with Tushare keeps its promises for any datasets,   *)
(* calendars and publications, any calls, and any failures and crashes.    *)
(***************************************************************************)
EXTENDS TushareSync, OperatorProofs

AllParts == UNION {PartsOf[d] : d \in Datasets}
AllVersions ==
  {v \in [specs -> UNION {[Cells(d) -> 0 .. MaxVersion] : d \in specs}] :
     \A d \in specs : v[d] \in [Cells(d) -> 0 .. MaxVersion]}
CallRecords == [first : Days, last : Days, marks : Seq(Days \X Days)]
RoundRecords == [table : specs, first : Int, last : Int, parts : SUBSET AllParts]
Fetched == (UNION {[Cells(d) -> 0 .. MaxVersion] : d \in specs}) \cup {<<>>}
Threads ==
  [at : {"call", "fetch", "flush", "mark", "done", "failed"}, calls : Seq(CallRecords), rounds : Seq(RoundRecords),
   requests : SUBSET SUBSET (Int \X AllParts), got : Fetched, flushing : SUBSET Days]
Runs ==
  [mode : {"all", "inc"}, status : {"running", "ok", "failed"}, force : BOOLEAN, first : Days, last : Days,
   stages : Seq(SUBSET specs), selected : SUBSET specs, asked : AllVersions, monthly : BOOLEAN, weekly : BOOLEAN]

Running == run.status = "running"
Working(d) == job[d].at \in {"fetch", "flush", "mark"}
\* A thread's calls that have not ended.
Left(d) == IF job[d].at \in {"call", "fetch", "flush", "mark"} THEN job[d].calls ELSE <<>>
Task(d) == Head(job[d].calls)

\* The cells a call is to bring, and those of a round.
Needs(call, d, c) == KindOf[d] = "snapshot" \/ c[1] \in call.first .. call.last
InRound(round, t, c) == round.table = t /\ c[1] \in round.first .. round.last /\ c[2] \in round.parts

\* The store has what upstream had of a cell when the run began, and no buffer will take it back.
Brought(d, c) ==
  /\ stored[d][c] >= run.asked[d][c]
  /\ buffer[d][c] # 0 => buffer[d][c] >= run.asked[d][c]

\* A later round will ask for the cell; or a request of this one will, or has; or it is about to be committed.
OnTheWay(d, t, c, least) ==
  \/ \E i \in DOMAIN job[d].rounds : i > 1 /\ InRound(job[d].rounds[i], t, c)
  \/ /\ At(d, "fetch") /\ Table(d) = t
     /\ job[d].got[c] >= least \/ \E request \in job[d].requests : c \in request
  \/ /\ At(d, "flush") /\ Table(d) = t
     /\ buffer[t][c] >= least /\ c[1] \in job[d].flushing

\* What the run is to bring.
Wanted(d, c) ==
  \/ run.mode = "all" /\ run.force /\ (KindOf[d] = "snapshot" \/ c[1] \in run.first .. run.last)
  \/ run.mode = "inc" /\ InWindow(d, c[1]) /\ (Traded(d) => run.asked[d][c] # 0)

-----------------------------------------------------------------------------
Types ==
  /\ specs \in Specs
  /\ source \in AllVersions /\ stored \in AllVersions /\ buffer \in AllVersions /\ pledged \in AllVersions
  /\ marks \in [specs -> Seq(Days \X Days)] /\ covered \in [specs -> SUBSET Days]
  /\ run = NoRun \/ (run \in Runs /\ run.first <= run.last)
  /\ job \in [specs -> Threads \cup {Idle}]
  /\ ~Running => \A d \in specs : job[d] = Idle
  /\ faults \in 0 .. MaxFaults

\* Upstream never goes back, and has a day's calendar before its data.
Upstream ==
  /\ \A d \in specs : \A c \in Cells(d) : pledged[d][c] <= source[d][c]
  /\ \A d \in specs : \A c \in Cells(d) :
       Traded(d) /\ source[d][c] # 0 => c[1] \in OpenDays /\ \E e \in PartsOf[Calendar] : source[Calendar][<<c[1], e>>] # 0
  /\ run.mode # "none" => \A d \in specs : \A c \in Cells(d) :
       /\ pledged[d][c] <= run.asked[d][c] /\ run.asked[d][c] <= source[d][c]
       /\ Traded(d) /\ run.asked[d][c] # 0 =>
            c[1] \in OpenDays /\ \E e \in PartsOf[Calendar] : run.asked[Calendar][<<c[1], e>>] # 0

\* What is pledged is stored, and what is buffered is not older.
Pledges ==
  \A d \in specs : \A c \in Cells(d) :
    stored[d][c] >= pledged[d][c] /\ (buffer[d][c] # 0 => buffer[d][c] >= pledged[d][c])

Checkpoints == \A d \in specs : Apart(marks[d]) /\ DaysOf(marks[d]) = covered[d]

\* A thread's calls: one range of days each, and a snapshot's call all the marks of its dataset.
CallsOK(d) ==
  /\ At(d, "call") => job[d].calls # <<>>
  /\ \A i \in DOMAIN Left(d) :
       LET call == Left(d)[i] IN
       /\ call.first <= call.last
       /\ \A j \in DOMAIN call.marks : call.marks[j][1] <= call.marks[j][2]
       /\ KindOf[d] # "snapshot" /\ call.marks # <<>> => call.marks = <<<<call.first, call.last>>>>

\* The rounds of the calendar come before the dataset's own, which stay within the call.
RoundsOK(d) ==
  Working(d) =>
    /\ job[d].calls # <<>> /\ job[d].rounds # <<>>
    /\ At(d, "mark") => Len(job[d].rounds) = 1 /\ Task(d).marks # <<>>
    /\ \A i \in DOMAIN job[d].rounds :
         LET round == job[d].rounds[i] IN
         /\ round.table = d \/ (round.table = Calendar /\ Traded(d))
         /\ round.table = d /\ KindOf[d] # "snapshot" => Task(d).first <= round.first /\ round.last <= Task(d).last
         /\ round.table = Calendar => \A j \in 1 .. i : job[d].rounds[j].table = Calendar

\* What this round has fetched is no older than the run, and what it still asks for is in its range.
FetchOK(d) ==
  At(d, "fetch") =>
    /\ job[d].got \in [Cells(Table(d)) -> 0 .. MaxVersion]
    /\ \A c \in Cells(Table(d)) : job[d].got[c] # 0 => job[d].got[c] >= run.asked[Table(d)][c]
    /\ \A request \in job[d].requests : \A c \in request :
         c[1] \in Head(job[d].rounds).first .. Head(job[d].rounds).last

\* Of what a call is to bring, and of the calendar it needs, nothing is forgotten on the way.
OwnOnTheWay(d) ==
  Working(d) => \A c \in Cells(d) : Needs(Task(d), d, c) => Brought(d, c) \/ OnTheWay(d, d, c, run.asked[d][c])
CalendarOnTheWay(d) ==
  Working(d) /\ Traded(d) =>
    \A c \in Cells(Calendar) :
      c[1] \in Task(d).first .. Task(d).last /\ run.asked[Calendar][c] # 0 =>
        stored[Calendar][c] # 0 \/ OnTheWay(d, Calendar, c, 1)

\* A call that is not forced asks for nothing that is complete.
NothingTwice(d) ==
  Running /\ run.mode = "all" /\ ~run.force /\ KindOf[d] # "snapshot" =>
    /\ \A i, j \in DOMAIN Left(d) : i < j => Left(d)[i].last < Left(d)[j].first
    /\ \A i \in DOMAIN Left(d) : \A day \in Left(d)[i].first .. Left(d)[i].last : day \notin covered[d]

ThreadInv(d) ==
  CallsOK(d) /\ RoundsOK(d) /\ FetchOK(d) /\ OwnOnTheWay(d) /\ CalendarOnTheWay(d) /\ NothingTwice(d)

\* How far the run has come with a dataset: its stage is still to come, its thread has failed, or
\* what it was asked for is done or among the calls left.
Staged(d) == \E i \in DOMAIN run.stages : d \in run.stages[i]
DaysLeft(d) == UNION {DaysOf(Left(d)[i].marks) : i \in DOMAIN Left(d)}
Settled(d) ==
  Staged(d) \/ job[d].at = "failed" \/
    /\ run.mode = "all" => run.first .. run.last \subseteq covered[d] \cup DaysLeft(d)
    /\ \A c \in Cells(d) : Wanted(d, c) => Brought(d, c) \/ \E i \in DOMAIN Left(d) : Needs(Left(d)[i], d, c)

\* sync_inc has its calendar before anything else begins.
CalendarFirst ==
  run.mode = "inc" =>
    /\ run.selected = specs
    /\ run.stages \in {<<{Calendar}, specs \ {Calendar}>>, <<specs \ {Calendar}>>, <<>>}
    /\ run.stages = <<>> => \A c \in Cells(Calendar) : Wanted(Calendar, c) => Brought(Calendar, c)

RunInv ==
  run.mode # "none" /\ run.status # "failed" =>
    /\ run.status = "ok" => run.stages = <<>>
    /\ CalendarFirst
    /\ \A d \in run.selected : Settled(d)

SyncInv ==
  Types /\ Upstream /\ Pledges /\ Checkpoints /\ (\A d \in specs : ThreadInv(d)) /\ RunInv

-----------------------------------------------------------------------------
(* Datasets, versions and the days of the calendar. *)

LEMMA DatasetFacts ==
  ASSUME specs \in Specs
  PROVE  /\ specs \subseteq Datasets /\ Calendar \in specs /\ KindOf[Calendar] = "calendar" /\ ~Traded(Calendar)
         /\ LastDay \in Nat \ {0} /\ MaxVersion \in Nat \ {0} /\ MaxFaults \in Nat
         /\ \A d \in specs : KindOf[d] \in Kinds /\ ChunkDays[d] \in Nat \ {0} /\ PartsOf[d] \subseteq AllParts
  BY DatasetsAssumption DEF Traded, AllParts

LEMMA Cell ==
  ASSUME NEW d, NEW c \in Cells(d)
  PROVE  c[1] \in Days /\ c[2] \in PartsOf[d] /\ c = <<c[1], c[2]>> /\ c[1] \in Int
  BY DEF Cells, Days

LEMMA Versions ==
  ASSUME NEW v \in AllVersions, NEW d \in specs, specs \in Specs
  PROVE  /\ v[d] \in [Cells(d) -> 0 .. MaxVersion] /\ DOMAIN v[d] = Cells(d)
         /\ \A c \in Cells(d) : v[d][c] \in 0 .. MaxVersion /\ v[d][c] \in Nat
  BY DatasetFacts DEF AllVersions

LEMMA VersionsMade ==
  ASSUME NEW v, v = [d \in specs |-> v[d]], \A d \in specs : v[d] \in [Cells(d) -> 0 .. MaxVersion]
  PROVE  v \in AllVersions
  <1> DEFINE X == UNION {[Cells(e) -> 0 .. MaxVersion] : e \in specs}
  <1>1. \A d \in specs : v[d] \in X
    OBVIOUS
  <1> HIDE DEF X
  <1>2. v \in [specs -> X]
    BY <1>1
  <1> QED
    BY <1>2 DEF AllVersions, X

LEMMA VersionsExcept ==
  ASSUME NEW t \in specs, NEW f \in [Cells(t) -> 0 .. MaxVersion]
  PROVE  /\ buffer \in AllVersions /\ buffer' = [buffer EXCEPT ![t] = f] =>
              buffer' \in AllVersions /\ buffer'[t] = f /\ \A e \in specs : e # t => buffer'[e] = buffer[e]
         /\ stored \in AllVersions /\ stored' = [stored EXCEPT ![t] = f] =>
              stored' \in AllVersions /\ stored'[t] = f /\ \A e \in specs : e # t => stored'[e] = stored[e]
         /\ pledged \in AllVersions /\ pledged' = [pledged EXCEPT ![t] = f] =>
              pledged' \in AllVersions /\ pledged'[t] = f /\ \A e \in specs : e # t => pledged'[e] = pledged[e]
  <1> DEFINE X == UNION {[Cells(e) -> 0 .. MaxVersion] : e \in specs}
  <1>1. \A v \in AllVersions : v \in [specs -> X] /\ \A e \in specs : v[e] \in [Cells(e) -> 0 .. MaxVersion]
    BY DEF AllVersions
  <1>2. f \in X
    OBVIOUS
  <1>3. \A v \in [specs -> X] : (\A e \in specs : v[e] \in [Cells(e) -> 0 .. MaxVersion]) => v \in AllVersions
    BY DEF AllVersions
  <1> HIDE DEF X
  <1>4. ASSUME buffer \in AllVersions, buffer' = [buffer EXCEPT ![t] = f]
        PROVE  buffer' \in AllVersions /\ buffer'[t] = f /\ \A e \in specs : e # t => buffer'[e] = buffer[e]
    <2>1. buffer' \in [specs -> X] /\ buffer'[t] = f /\ \A e \in specs : e # t => buffer'[e] = buffer[e]
      BY <1>1, <1>2, <1>4
    <2> QED
      BY <1>1, <1>3, <1>4, <2>1
  <1>5. ASSUME stored \in AllVersions, stored' = [stored EXCEPT ![t] = f]
        PROVE  stored' \in AllVersions /\ stored'[t] = f /\ \A e \in specs : e # t => stored'[e] = stored[e]
    <2>1. stored' \in [specs -> X] /\ stored'[t] = f /\ \A e \in specs : e # t => stored'[e] = stored[e]
      BY <1>1, <1>2, <1>5
    <2> QED
      BY <1>1, <1>3, <1>5, <2>1
  <1>6. ASSUME pledged \in AllVersions, pledged' = [pledged EXCEPT ![t] = f]
        PROVE  pledged' \in AllVersions /\ pledged'[t] = f /\ \A e \in specs : e # t => pledged'[e] = pledged[e]
    <2>1. pledged' \in [specs -> X] /\ pledged'[t] = f /\ \A e \in specs : e # t => pledged'[e] = pledged[e]
      BY <1>1, <1>2, <1>6
    <2> QED
      BY <1>1, <1>3, <1>6, <2>1
  <1> QED
    BY <1>4, <1>5, <1>6

LEMMA NothingIs ==
  ASSUME specs \in Specs
  PROVE  Nothing \in AllVersions /\ \A d \in specs : \A c \in Cells(d) : Nothing[d][c] = 0
  <1>1. Nothing = [d \in specs |-> Nothing[d]] /\ \A d \in specs : Nothing[d] = [c \in Cells(d) |-> 0]
    BY DEF Nothing
  <1>2. 0 \in 0 .. MaxVersion
    BY DatasetFacts
  <1>3. \A d \in specs : Nothing[d] \in [Cells(d) -> 0 .. MaxVersion]
    BY <1>1, <1>2
  <1> QED
    BY <1>1, <1>3, VersionsMade

LEMMA OverIs ==
  ASSUME NEW S, NEW new \in [S -> 0 .. MaxVersion], NEW old \in [S -> 0 .. MaxVersion]
  PROVE  /\ Over(new, old) \in [S -> 0 .. MaxVersion]
         /\ \A c \in S : Over(new, old)[c] = IF new[c] # 0 THEN new[c] ELSE old[c]
  BY DEF Over

\* A run, as one of its fields is replaced.
LEMMA RunFields ==
  ASSUME NEW r \in Runs
  PROVE  /\ r.mode \in {"all", "inc"} /\ r.status \in {"running", "ok", "failed"} /\ r.force \in BOOLEAN
         /\ r.first \in Days /\ r.last \in Days /\ r.stages \in Seq(SUBSET specs) /\ r.selected \subseteq specs
         /\ r.asked \in AllVersions /\ r.monthly \in BOOLEAN /\ r.weekly \in BOOLEAN
  BY DEF Runs

LEMMA RunningIsRun ==
  ASSUME Types
  PROVE  /\ run.mode # "none" => run \in Runs /\ run.first <= run.last
         /\ Running => run \in Runs /\ run.mode # "none" /\ run.first <= run.last
  <1>1. NoRun.mode = "none" /\ NoRun.status = "ok"
    BY DEF NoRun
  <1> QED
    BY <1>1, RunFields DEF Types, Running

LEMMA ThreadFields ==
  ASSUME NEW j \in Threads
  PROVE  /\ j.at \in {"call", "fetch", "flush", "mark", "done", "failed"} /\ j.calls \in Seq(CallRecords)
         /\ j.rounds \in Seq(RoundRecords) /\ j.requests \in SUBSET SUBSET (Int \X AllParts) /\ j.flushing \in SUBSET Days
         /\ j.at # "idle"
  BY DEF Threads

-----------------------------------------------------------------------------
(* Rows on their way from a buffer to the store. *)

\* What a step does to a cell of a table: nothing, a commit of what is buffered, or an append of
\* what was fetched in this run.
Flows(t, c) ==
  \/ buffer'[t][c] = buffer[t][c] /\ stored'[t][c] = stored[t][c]
  \/ buffer'[t][c] = 0 /\ stored'[t][c] = IF buffer[t][c] # 0 THEN buffer[t][c] ELSE stored[t][c]
  \/ /\ Running /\ buffer'[t][c] # 0 /\ buffer'[t][c] >= run.asked[t][c]
     /\ stored'[t][c] = stored[t][c]
AllFlow == \A t \in specs : \A c \in Cells(t) : Flows(t, c)

\* The state's numbers are numbers.
LEMMA Numbers ==
  ASSUME Types, NEW d \in specs, NEW c \in Cells(d)
  PROVE  /\ source[d][c] \in Nat /\ stored[d][c] \in Nat /\ buffer[d][c] \in Nat /\ pledged[d][c] \in Nat
         /\ run.mode # "none" => run.asked[d][c] \in Nat
         /\ Running => run.asked[d][c] \in Nat
  BY Versions, RunningIsRun, RunFields DEF Types

\* What has been brought stays.
LEMMA BroughtStays ==
  ASSUME Types, Types', run.mode # "none", run'.mode # "none", run'.asked = run.asked, specs' = specs,
         NEW d \in specs, NEW c \in Cells(d), Flows(d, c), Brought(d, c)
  PROVE  Brought(d, c)'
  <1>1. stored[d][c] \in Nat /\ buffer[d][c] \in Nat /\ run.asked[d][c] \in Nat
    BY Numbers
  <1>2. stored'[d][c] \in Nat /\ buffer'[d][c] \in Nat
    <2>1. stored' \in AllVersions' /\ buffer' \in AllVersions' /\ AllVersions' = AllVersions
      BY DEF Types, AllVersions
    <2> QED
      BY <2>1, Versions DEF Types
  <1>3. stored[d][c] >= run.asked[d][c] /\ (buffer[d][c] # 0 => buffer[d][c] >= run.asked[d][c])
    BY DEF Brought
  <1>4. stored'[d][c] >= run.asked[d][c] /\ (buffer'[d][c] # 0 => buffer'[d][c] >= run.asked[d][c])
    BY <1>1, <1>2, <1>3 DEF Flows
  <1> QED
    BY <1>4 DEF Brought

\* Nothing was asked for, so nothing is lacking.
LEMMA NothingAsked ==
  ASSUME Types, run.mode # "none", NEW d \in specs, NEW c \in Cells(d), run.asked[d][c] = 0
  PROVE  Brought(d, c)
  BY Numbers DEF Brought

\* What is stored of the calendar stays.
LEMMA KnownStays ==
  ASSUME Types, NEW d \in specs, NEW c \in Cells(d), Flows(d, c), stored[d][c] # 0
  PROVE  stored'[d][c] # 0
  BY Numbers DEF Flows

LEMMA PledgesStay ==
  ASSUME Types, Types', Upstream, Pledges, AllFlow, UNCHANGED <<specs, pledged>>
  PROVE  Pledges'
  <1> SUFFICES ASSUME NEW d \in specs, NEW c \in Cells(d)
               PROVE  stored'[d][c] >= pledged[d][c] /\ (buffer'[d][c] # 0 => buffer'[d][c] >= pledged[d][c])
    BY DEF Pledges
  <1>1. /\ stored[d][c] \in Nat /\ buffer[d][c] \in Nat /\ pledged[d][c] \in Nat
        /\ Running => run.asked[d][c] \in Nat
    BY Numbers
  <1>2. stored'[d][c] \in Nat /\ buffer'[d][c] \in Nat
    <2>1. stored' \in AllVersions' /\ buffer' \in AllVersions' /\ AllVersions' = AllVersions
      BY DEF Types, AllVersions
    <2> QED
      BY <2>1, Versions DEF Types
  <1>3. stored[d][c] >= pledged[d][c] /\ (buffer[d][c] # 0 => buffer[d][c] >= pledged[d][c])
    BY DEF Pledges
  <1>4. Running => pledged[d][c] <= run.asked[d][c]
    BY RunningIsRun DEF Upstream
  <1>5. Flows(d, c)
    BY DEF AllFlow
  <1> QED
    BY <1>1, <1>2, <1>3, <1>4, <1>5 DEF Flows

\* A thread that takes no step keeps what it knows, whatever another one appends or commits.
LEMMA OnTheWayStays ==
  ASSUME Types, Types', Running, UNCHANGED <<specs, run>>, NEW d \in specs, job'[d] = job[d],
         NEW t \in specs, NEW c \in Cells(t), NEW least \in Nat, Flows(t, c), least <= run.asked[t][c] \/ least = 1,
         OnTheWay(d, t, c, least)
  PROVE  \/ OnTheWay(d, t, c, least)'
         \/ least = 0
         \/ /\ stored'[t][c] >= least /\ stored'[t][c] # 0
            /\ buffer'[t][c] = 0
  <1>1. CASE \E i \in DOMAIN job[d].rounds : i > 1 /\ InRound(job[d].rounds[i], t, c)
    BY <1>1 DEF OnTheWay, InRound
  <1>2. CASE /\ At(d, "fetch") /\ Table(d) = t
             /\ job[d].got[c] >= least \/ \E request \in job[d].requests : c \in request
    BY <1>2 DEF OnTheWay, At, Table
  <1>3. CASE At(d, "flush") /\ Table(d) = t /\ buffer[t][c] >= least /\ c[1] \in job[d].flushing
    <2>1. /\ stored[t][c] \in Nat /\ buffer[t][c] \in Nat /\ run.asked[t][c] \in Nat
      BY Numbers
    <2>2. CASE buffer'[t][c] >= least
      BY <1>3, <2>2 DEF OnTheWay, At, Table
    <2>3. CASE ~(buffer'[t][c] >= least)
      <3>1. \/ buffer'[t][c] = 0 /\ stored'[t][c] = IF buffer[t][c] # 0 THEN buffer[t][c] ELSE stored[t][c]
            \/ /\ buffer'[t][c] # 0 /\ buffer'[t][c] >= run.asked[t][c]
        BY <1>3, <2>1, <2>3 DEF Flows
      <3>2. buffer'[t][c] \in Nat
        <4>1. buffer' \in AllVersions' /\ AllVersions' = AllVersions
          BY DEF Types, AllVersions
        <4> QED
          BY <4>1, Versions DEF Types
      <3>3. buffer'[t][c] = 0
        BY <2>1, <2>3, <3>1, <3>2
      <3> QED
        BY <1>3, <2>1, <3>1, <3>2, <3>3
    <2> QED
      BY <2>2, <2>3
  <1> QED
    BY <1>1, <1>2, <1>3 DEF OnTheWay

\* A thread that is not there promises nothing.
LEMMA IdleThread ==
  ASSUME NEW d, job[d] = Idle
  PROVE  ThreadInv(d)
  <1>1. job[d].at = "idle"
    BY DEF Idle
  <1>2. Left(d) = <<>> /\ DOMAIN Left(d) = {}
    BY <1>1 DEF Left
  <1>3. ~Working(d) /\ ~At(d, "fetch") /\ ~At(d, "call")
    BY <1>1 DEF Working, At
  <1> QED
    BY <1>2, <1>3 DEF ThreadInv, CallsOK, RoundsOK, FetchOK, OwnOnTheWay, CalendarOnTheWay, NothingTwice

\* The parts of ThreadInv that speak of the thread alone.
LEMMA ThreadAlone ==
  ASSUME NEW d, job'[d] = job[d], UNCHANGED <<specs, run>>, covered'[d] = covered[d],
         CallsOK(d), RoundsOK(d), FetchOK(d), NothingTwice(d)
  PROVE  CallsOK(d)' /\ RoundsOK(d)' /\ FetchOK(d)' /\ NothingTwice(d)'
  <1>1. Left(d)' = Left(d)
    BY DEF Left
  <1>2. CallsOK(d)'
    BY <1>1 DEF CallsOK, At
  <1>3. RoundsOK(d)'
    BY DEF RoundsOK, Working, At, Task
  <1>4. FetchOK(d)'
    BY DEF FetchOK, At, Table
  <1>5. NothingTwice(d)'
    BY <1>1 DEF NothingTwice, Running
  <1> QED
    BY <1>2, <1>3, <1>4, <1>5

LEMMA OtherThread ==
  ASSUME Types, Types', Running, UNCHANGED <<specs, run>>, AllFlow,
         NEW d \in specs, job'[d] = job[d], covered'[d] = covered[d], ThreadInv(d)
  PROVE  ThreadInv(d)'
  <1>1. run.mode # "none" /\ run'.mode # "none" /\ run'.asked = run.asked
    BY RunningIsRun
  <1>2. specs \in Specs /\ Calendar \in specs
    BY DatasetFacts DEF Types
  <1>3. \A t \in specs : \A c \in Cells(t) : run.asked[t][c] \in Nat
    BY Numbers
  <1>4. OwnOnTheWay(d)'
    <2> SUFFICES ASSUME Working(d)', NEW c \in Cells(d), Needs(Task(d)', d, c)
                 PROVE  Brought(d, c)' \/ OnTheWay(d, d, c, run.asked[d][c])'
      BY DEF OwnOnTheWay, Needs
    <2>1. Working(d) /\ Task(d)' = Task(d)
      BY DEF Working, Task
    <2>2. Brought(d, c) \/ OnTheWay(d, d, c, run.asked[d][c])
      BY <2>1 DEF ThreadInv, OwnOnTheWay
    <2>3. Flows(d, c)
      BY DEF AllFlow
    <2>4. CASE Brought(d, c)
      BY <1>1, <2>3, <2>4, BroughtStays
    <2>5. CASE OnTheWay(d, d, c, run.asked[d][c])
      <3>1. PICK least \in Nat : least = run.asked[d][c]
        BY <1>3
      <3>2. \/ OnTheWay(d, d, c, least)' \/ least = 0
            \/ stored'[d][c] >= least /\ stored'[d][c] # 0 /\ buffer'[d][c] = 0
        BY <2>3, <2>5, <3>1, OnTheWayStays
      <3>3. CASE least = 0
        BY <1>1, <3>1, <3>3, <2>3, NothingAsked, BroughtStays
      <3>4. CASE stored'[d][c] >= least /\ buffer'[d][c] = 0
        BY <3>1, <3>4 DEF Brought
      <3> QED
        BY <3>1, <3>2, <3>3, <3>4
    <2> QED
      BY <2>2, <2>4, <2>5
  <1>5. CalendarOnTheWay(d)'
    <2> SUFFICES ASSUME Working(d)', Traded(d), NEW c \in Cells(Calendar),
                        c[1] \in Task(d)'.first .. Task(d)'.last, run.asked[Calendar][c] # 0
                 PROVE  stored'[Calendar][c] # 0 \/ OnTheWay(d, Calendar, c, 1)'
      BY <1>1 DEF CalendarOnTheWay
    <2>1. Working(d) /\ Task(d)' = Task(d)
      BY DEF Working, Task
    <2>2. stored[Calendar][c] # 0 \/ OnTheWay(d, Calendar, c, 1)
      BY <2>1 DEF ThreadInv, CalendarOnTheWay
    <2>3. Flows(Calendar, c)
      BY <1>2 DEF AllFlow
    <2>4. CASE stored[Calendar][c] # 0
      BY <1>2, <2>3, <2>4, KnownStays
    <2>5. CASE OnTheWay(d, Calendar, c, 1)
      <3>1. PICK least \in Nat : least = 1
        OBVIOUS
      <3>2. \/ OnTheWay(d, Calendar, c, least)' \/ least = 0
            \/ stored'[Calendar][c] >= least /\ stored'[Calendar][c] # 0 /\ buffer'[Calendar][c] = 0
        BY <1>2, <2>3, <2>5, <3>1, OnTheWayStays
      <3> QED
        BY <3>1, <3>2
    <2> QED
      BY <2>2, <2>4, <2>5
  <1> QED
    BY <1>4, <1>5, ThreadAlone DEF ThreadInv

\* The fields of a run that say what is asked of it.
SameRequest ==
  /\ run'.mode = run.mode /\ run'.force = run.force /\ run'.first = run.first /\ run'.last = run.last
  /\ run'.monthly = run.monthly /\ run'.weekly = run.weekly /\ run'.asked = run.asked
  /\ run'.selected = run.selected

LEMMA OpenDates ==
  ASSUME NEW a \in Int, NEW b \in Int
  PROVE  /\ IsFiniteSet(MarketOpenDates(a, b)) /\ MarketOpenDates(a, b) \subseteq a .. b
         /\ \A day : day \in MarketOpenDates(a, b) <=>
              day \in a .. b /\ day \in OpenDays /\ \E e \in PartsOf[Calendar] : stored[Calendar][<<day, e>>] # 0
  <1>1. IsFiniteSet(a .. b)
    BY FS_Interval
  <1>2. MarketOpenDates(a, b) \subseteq a .. b
    BY DEF MarketOpenDates
  <1>3. IsFiniteSet(MarketOpenDates(a, b))
    BY <1>1, <1>2, FS_Subset
  <1> QED
    BY <1>2, <1>3 DEF MarketOpenDates

\* A commit of the calendar adds open days only before those of the window that have data.
LEMMA WantedShrinks ==
  ASSUME Types, Types', Upstream, run.mode # "none", CalendarFirst, AllFlow, specs' = specs, SameRequest,
         NEW d \in specs, NEW c \in Cells(d), run.mode = "inc" /\ Traded(d) => run.stages = <<>>,
         Wanted(d, c)'
  PROVE  Wanted(d, c)
  <1>1. CASE ~(run.mode = "inc" /\ Traded(d))
    <2>1. InWindow(d, c[1])' => InWindow(d, c[1]) \/ Traded(d)
      BY DEF InWindow, SameRequest, Traded
    <2> QED
      BY <1>1, <2>1 DEF Wanted, SameRequest
  <1>2. CASE run.mode = "inc" /\ Traded(d)
    <2> DEFINE a == Later(1, run.last - CalendarPast)
               b == run.last
               day == c[1]
               open == MarketOpenDates(a, b)
               opened == open'
               back == IF run.monthly THEN IncDays[d].monthly ELSE IncDays[d].daily
    <2>1. /\ specs \in Specs /\ d \in Datasets /\ Calendar \in specs /\ KindOf[d] = "traded" /\ ~Traded(Calendar)
          /\ KindOf[Calendar] = "calendar"
      BY <1>2, DatasetFacts DEF Types, Traded
    <2>2. b \in Int /\ run.last \in Days /\ a \in Int /\ back \in Nat /\ day \in Days /\ day \in Int /\ CalendarPast \in Nat /\ CalendarFuture \in Nat
      BY <1>2, <2>1, RunningIsRun, RunFields, Cell, CallsAssumption DEF Later, Days
    <2>3. a' = a /\ b' = b /\ back' = back
      BY DEF SameRequest
    <2>4. InWindow(d, day)' /\ run.asked[d][c] # 0
      BY <1>2 DEF Wanted, SameRequest
    <2>5. day \in opened /\ Cardinality({o \in opened : o > day}) < back
      BY <2>1, <2>3, <2>4 DEF InWindow
    <2>6. day \in open /\ Cardinality({o \in open : o > day}) < back => InWindow(d, day)
      BY <2>1, CallsAssumption DEF InWindow
    <2>7. /\ IsFiniteSet(opened) /\ opened \subseteq a .. b
          /\ \A x : x \in opened <=> x \in a .. b /\ x \in OpenDays /\ \E e \in PartsOf[Calendar] : stored'[Calendar][<<x, e>>] # 0
      <3>1. opened = MarketOpenDates(a, b)'
        OBVIOUS
      <3>2. PICK p \in Int : p = a
        BY <2>2
      <3>3. PICK q \in Int : q = b
        BY <2>2
      <3>4. opened = MarketOpenDates(p, q)'
        BY <2>3, <3>2, <3>3 DEF MarketOpenDates
      <3>5. IsFiniteSet(p .. q)
        BY FS_Interval
      <3>6. opened \subseteq p .. q
        BY <3>4 DEF MarketOpenDates
      <3>7. IsFiniteSet(opened)
        BY <3>5, <3>6, FS_Subset
      <3>8. \A x : x \in opened <=> x \in p .. q /\ x \in OpenDays /\ \E e \in PartsOf[Calendar] : stored'[Calendar][<<x, e>>] # 0
        BY <3>4 DEF MarketOpenDates
      <3> QED
        BY <3>2, <3>3, <3>6, <3>7, <3>8
    <2>8. \A x : x \in open <=> x \in a .. b /\ x \in OpenDays /\ \E e \in PartsOf[Calendar] : stored[Calendar][<<x, e>>] # 0
      BY <2>2, OpenDates
    <2> HIDE DEF open, opened, back
    <2>9. ASSUME NEW x \in open PROVE x \in opened
      <3>1. PICK e \in PartsOf[Calendar] : stored[Calendar][<<x, e>>] # 0
        BY <2>8
      <3>2. <<x, e>> \in Cells(Calendar)
        <4>1. x \in Days
          BY <2>8, DatasetsAssumption
        <4> QED
          BY <4>1 DEF Cells
      <3>3. Flows(Calendar, <<x, e>>)
        BY <2>1, <3>2 DEF AllFlow
      <3>4. stored'[Calendar][<<x, e>>] # 0
        BY <2>1, <3>1, <3>2, <3>3, KnownStays
      <3> QED
        BY <2>7, <2>8, <3>4
    <2>10. day \in open
      <3>1. PICK e \in PartsOf[Calendar] : run.asked[Calendar][<<day, e>>] # 0
        BY <1>2, <2>4 DEF Upstream
      <3>2. <<day, e>> \in Cells(Calendar) /\ <<day, e>>[1] = day
        BY <2>2 DEF Cells
      <3>3. day \in a .. b /\ day \in OpenDays
        BY <2>5, <2>7
      <3>4. day >= run.last - CalendarPast /\ day <= run.last + CalendarFuture
        BY <2>2, <3>3 DEF Later, Days
      <3>5. InWindow(Calendar, day)
        BY <2>1, <3>4, CallsAssumption DEF InWindow
      <3>6. Wanted(Calendar, <<day, e>>)
        BY <1>2, <2>1, <3>2, <3>5 DEF Wanted
      <3>7. Brought(Calendar, <<day, e>>)
        BY <1>2, <3>2, <3>6 DEF CalendarFirst
      <3>8. stored[Calendar][<<day, e>>] # 0
        BY <2>1, <3>1, <3>2, <3>7, Numbers DEF Brought
      <3> QED
        BY <2>8, <3>3, <3>8
    <2>11. Cardinality({o \in open : o > day}) < back
      <3> DEFINE A == {o \in open : o > day}
                 B == {o \in opened : o > day}
      <3>1. A \subseteq B /\ B \subseteq opened
        BY <2>9
      <3>2. IsFiniteSet(B)
        BY <2>7, <3>1, FS_Subset
      <3>3. Cardinality(A) <= Cardinality(B) /\ Cardinality(A) \in Nat /\ Cardinality(B) \in Nat
        <4> HIDE DEF A, B
        <4> QED
          BY <3>1, <3>2, FS_Subset, FS_CardinalityType
      <3> QED
        BY <2>2, <2>5, <3>3 DEF back
    <2> QED
      BY <1>2, <2>4, <2>6, <2>10, <2>11 DEF Wanted
  <1> QED
    BY <1>1, <1>2

-----------------------------------------------------------------------------
(* The run's promise. *)

\* What is done stays done while the thread's calls lose nothing.
LEMMA SettledStays ==
  ASSUME Types, Types', Upstream, run.mode # "none", run'.mode # "none", CalendarFirst, AllFlow, specs' = specs,
         SameRequest, NEW e \in specs, Settled(e), Staged(e) => Staged(e)',
         job[e].at = "failed" => job'[e].at = "failed",
         covered[e] \cup DaysLeft(e) \subseteq covered'[e] \cup DaysLeft(e)',
         \A c \in Cells(e) : (\E i \in DOMAIN Left(e) : Needs(Left(e)[i], e, c)) =>
           Brought(e, c)' \/ \E i \in DOMAIN Left(e)' : Needs(Left(e)'[i], e, c)
  PROVE  Settled(e)'
  <1>1. CASE Staged(e) \/ job[e].at = "failed"
    BY <1>1 DEF Settled
  <1>2. CASE ~Staged(e) /\ job[e].at # "failed"
    <2>1. /\ run.mode = "all" => run.first .. run.last \subseteq covered[e] \cup DaysLeft(e)
          /\ \A c \in Cells(e) : Wanted(e, c) => Brought(e, c) \/ \E i \in DOMAIN Left(e) : Needs(Left(e)[i], e, c)
      BY <1>2 DEF Settled
    <2>2. run.mode = "inc" /\ Traded(e) => run.stages = <<>>
      <3> SUFFICES ASSUME run.mode = "inc", Traded(e), run.stages # <<>> PROVE FALSE
        OBVIOUS
      <3>1. e # Calendar
        BY DatasetFacts DEF Types
      <3>2. run.stages = <<{Calendar}, specs \ {Calendar}>> \/ run.stages = <<specs \ {Calendar}>>
        BY DEF CalendarFirst
      <3>3. \E i \in DOMAIN run.stages : run.stages[i] = specs \ {Calendar}
        BY <3>2
      <3> QED
        BY <1>2, <3>1, <3>3 DEF Staged
    <2>3. run'.mode = "all" => run'.first .. run'.last \subseteq covered'[e] \cup DaysLeft(e)'
      BY <2>1 DEF SameRequest
    <2>4. ASSUME NEW c \in Cells(e), Wanted(e, c)'
          PROVE  Brought(e, c)' \/ \E i \in DOMAIN Left(e)' : Needs(Left(e)'[i], e, c)
      <3>1. Wanted(e, c)
        BY <2>2, <2>4, WantedShrinks
      <3>2. CASE Brought(e, c)
        <4>1. Flows(e, c) /\ run'.asked = run.asked
          BY DEF AllFlow, SameRequest
        <4> QED
          BY <3>2, <4>1, BroughtStays
      <3> QED
        BY <2>1, <3>1, <3>2
    <2>5. \A c \in Cells(e)' : (Wanted(e, c) => Brought(e, c) \/ \E i \in DOMAIN Left(e) : Needs(Left(e)[i], e, c))'
      BY <2>4 DEF Needs, Cells
    <2> QED
      BY <2>3, <2>5 DEF Settled
  <1> QED
    BY <1>1, <1>2

LEMMA CalendarFirstStays ==
  ASSUME Types, Types', Upstream, run.mode # "none", run'.mode # "none", CalendarFirst, AllFlow, specs' = specs,
         SameRequest, run'.stages = run.stages
  PROVE  CalendarFirst'
  <1> SUFFICES ASSUME run.mode = "inc", run.stages = <<>>, NEW c \in Cells(Calendar), Wanted(Calendar, c)'
               PROVE  Brought(Calendar, c)'
    BY DEF CalendarFirst, SameRequest, Cells
  <1>1. Calendar \in specs
    BY DatasetFacts DEF Types
  <1>2. Wanted(Calendar, c)
    BY <1>1, WantedShrinks
  <1>3. Brought(Calendar, c)
    BY <1>2 DEF CalendarFirst
  <1>4. Flows(Calendar, c) /\ run'.asked = run.asked
    BY <1>1 DEF AllFlow, SameRequest
  <1> QED
    BY <1>1, <1>3, <1>4, BroughtStays

\* A thread's step, as it marks nothing: what is left to show is that the thread keeps its own promises.
LEMMA WorkKeeps ==
  ASSUME SyncInv, Types', Running, UNCHANGED <<specs, source, marks, run, covered, pledged>>, AllFlow,
         NEW d \in specs, \A e \in specs : e # d => job'[e] = job[e], ThreadInv(d)', Settled(d) => Settled(d)'
  PROVE  SyncInv'
  <1>1. Types /\ Upstream /\ Pledges /\ RunInv /\ Checkpoints /\ run.mode # "none" /\ \A e \in specs : ThreadInv(e)
    BY RunningIsRun DEF SyncInv
  <1>2. Upstream'
    BY <1>1 DEF Upstream, Cells, Traded
  <1>3. Pledges'
    BY <1>1, PledgesStay
  <1>4. Checkpoints'
    BY <1>1 DEF Checkpoints, Apart, DaysOf
  <1>5. \A e \in specs : ThreadInv(e)'
    BY <1>1, OtherThread
  <1>6. RunInv'
    <2>1. CalendarFirst /\ run.selected \subseteq specs /\ SameRequest /\ \A e \in run.selected : Settled(e)
      BY <1>1, RunningIsRun, RunFields DEF RunInv, Running, SameRequest
    <2>2. CalendarFirst'
      BY <1>1, <2>1, CalendarFirstStays
    <2>3. ASSUME NEW e \in run.selected, e # d PROVE Settled(e)'
      <3>1. e \in specs /\ Settled(e) /\ job'[e] = job[e]
        BY <2>1, <2>3
      <3>2. Left(e)' = Left(e) /\ (Staged(e) => Staged(e)')
        BY <3>1 DEF Left, Staged
      <3>3. DaysLeft(e)' = DaysLeft(e)
        BY <3>2 DEF DaysLeft, DaysOf
      <3> QED
        BY <1>1, <2>1, <3>1, <3>2, <3>3, SettledStays
    <2>4. \A e \in run'.selected : Settled(e)'
      BY <2>1, <2>3
    <2>5. run'.status = run.status /\ run.status = "running"
      BY DEF Running
    <2> QED
      BY <2>2, <2>4, <2>5 DEF RunInv
  <1> QED
    BY <1>2, <1>3, <1>4, <1>5, <1>6 DEF SyncInv

LEMMA SettledAlone ==
  ASSUME SyncInv, Types', Running, UNCHANGED <<specs, run, covered>>, AllFlow,
         NEW d \in specs, Left(d)' = Left(d), job[d].at # "failed", Settled(d)
  PROVE  Settled(d)'
  <1>1. Types /\ Upstream /\ RunInv /\ run.mode # "none"
    BY RunningIsRun DEF SyncInv
  <1>2. CalendarFirst /\ SameRequest /\ (Staged(d) => Staged(d)')
    BY <1>1 DEF RunInv, Running, SameRequest, Staged
  <1>3. DaysLeft(d)' = DaysLeft(d)
    BY DEF DaysLeft, DaysOf
  <1> QED
    BY <1>1, <1>2, <1>3, SettledStays

-----------------------------------------------------------------------------
(* The rounds of a call, and the requests of a round. *)

LEMMA RoundIs ==
  ASSUME NEW t \in specs, NEW a \in Int, NEW b \in Int, NEW parts \in SUBSET AllParts, NEW round,
         round = [table |-> t, first |-> a, last |-> b, parts |-> parts]
  PROVE  round \in RoundRecords
  BY DEF RoundRecords

LEMMA ChunkRoundsAre ==
  ASSUME specs \in Specs, NEW t \in specs, NEW first \in Int, NEW last \in Int, first <= last,
         NEW rounds, rounds = ChunkRounds(t, first, last)
  PROVE  /\ rounds \in Seq(RoundRecords) /\ rounds # <<>>
         /\ \A i \in DOMAIN rounds : rounds[i].table = t /\ first <= rounds[i].first /\ rounds[i].last <= last
         /\ \A c \in Cells(t) : c[1] \in first .. last => \E i \in DOMAIN rounds : InRound(rounds[i], t, c)
  <1> DEFINE chunks == SplitRange(first, last, ChunkDays[t])
  <1>1. ChunkDays[t] \in Nat \ {0} /\ PartsOf[t] \in SUBSET AllParts
    BY DatasetFacts
  <1>2. /\ chunks \in Seq(Int \X Int) /\ chunks # <<>>
        /\ \A i \in DOMAIN chunks : first <= chunks[i][1] /\ chunks[i][1] <= chunks[i][2] /\ chunks[i][2] <= last
        /\ \A day \in first .. last : \E i \in DOMAIN chunks : In(day, chunks[i])
    <2>1. PICK n \in Nat \ {0} : n = ChunkDays[t]
      BY <1>1
    <2> QED
      BY <2>1, SplitIs
  <1> HIDE DEF chunks
  <1>3. rounds = [i \in DOMAIN chunks |-> Round(t, chunks[i][1], chunks[i][2], PartsOf[t])]
    BY DEF ChunkRounds, chunks
  <1>4. \A i \in DOMAIN chunks : rounds[i] = [table |-> t, first |-> chunks[i][1], last |-> chunks[i][2], parts |-> PartsOf[t]]
    BY <1>3 DEF Round
  <1>5. DOMAIN chunks = 1 .. Len(chunks) /\ Len(chunks) \in Nat \ {0} /\ DOMAIN rounds = 1 .. Len(chunks)
    BY <1>2, <1>3
  <1>6. \A i \in 1 .. Len(chunks) : rounds[i] \in RoundRecords
    <2> SUFFICES ASSUME NEW i \in 1 .. Len(chunks) PROVE rounds[i] \in RoundRecords
      OBVIOUS
    <2>1. chunks[i][1] \in Int /\ chunks[i][2] \in Int
      BY <1>2, <1>5
    <2>2. rounds[i] = [table |-> t, first |-> chunks[i][1], last |-> chunks[i][2], parts |-> PartsOf[t]]
      BY <1>4, <1>5
    <2>3. PICK a \in Int, b \in Int : rounds[i] = [table |-> t, first |-> a, last |-> b, parts |-> PartsOf[t]]
      BY <2>1, <2>2
    <2> QED
      BY <1>1, <2>3, RoundIs
  <1>7. rounds \in [1 .. Len(chunks) -> RoundRecords]
    BY <1>3, <1>5, <1>6
  <1>8. rounds \in Seq(RoundRecords) /\ rounds # <<>>
    BY <1>5, <1>7, FunctionIsSequence
  <1>9. \A i \in DOMAIN rounds : rounds[i].table = t /\ first <= rounds[i].first /\ rounds[i].last <= last
    BY <1>2, <1>4, <1>5
  <1>10. ASSUME NEW c \in Cells(t), c[1] \in first .. last PROVE \E i \in DOMAIN rounds : InRound(rounds[i], t, c)
    <2>1. PICK i \in DOMAIN chunks : In(c[1], chunks[i])
      BY <1>2, <1>10
    <2>2. c[1] \in chunks[i][1] .. chunks[i][2] /\ c[2] \in PartsOf[t]
      BY <1>2, <2>1, <1>10, Cell DEF In
    <2> QED
      BY <1>4, <1>5, <2>1, <2>2 DEF InRound
  <1> QED
    BY <1>8, <1>9, <1>10

LEMMA RoundsAre ==
  ASSUME specs \in Specs, NEW d \in specs, NEW first \in Days, NEW last \in Days, first <= last,
         NEW rounds, rounds = Rounds(d, first, last)
  PROVE  /\ rounds \in Seq(RoundRecords) /\ rounds # <<>>
         /\ \A i \in DOMAIN rounds : rounds[i].table = d
         /\ KindOf[d] # "snapshot" => \A i \in DOMAIN rounds : first <= rounds[i].first /\ rounds[i].last <= last
         /\ \A c \in Cells(d) : KindOf[d] = "snapshot" \/ c[1] \in first .. last =>
              \E i \in DOMAIN rounds : InRound(rounds[i], d, c)
  <1>1. PartsOf[d] \in SUBSET AllParts /\ first \in Int /\ last \in Int /\ LastDay \in Nat \ {0} /\ d \in Datasets
    BY DatasetFacts DEF Days
  <1>2. CASE KindOf[d] = "audited"
    <2>1. rounds = [i \in DOMAIN StockBatches |-> Round(d, first, last, StockBatches[i])]
      BY <1>2 DEF Rounds, BatchRounds
    <2>2. /\ StockBatches \in Seq(SUBSET AllParts) /\ StockBatches # <<>>
          /\ PartsOf[d] = UNION Range(StockBatches)
      BY <1>1, <1>2, DatasetsAssumption DEF AllParts
    <2>3. /\ DOMAIN StockBatches = 1 .. Len(StockBatches) /\ Len(StockBatches) \in Nat \ {0}
          /\ \A i \in DOMAIN StockBatches : StockBatches[i] \in SUBSET AllParts
      BY <2>2
    <2>4. \A i \in DOMAIN StockBatches :
            rounds[i] = [table |-> d, first |-> first, last |-> last, parts |-> StockBatches[i]]
      BY <2>1 DEF Round
    <2>5. \A i \in DOMAIN StockBatches : rounds[i] \in RoundRecords
      BY <1>1, <2>3, <2>4, RoundIs
    <2>6. rounds \in [1 .. Len(StockBatches) -> RoundRecords]
      BY <2>1, <2>3, <2>5
    <2>7. rounds \in Seq(RoundRecords) /\ rounds # <<>> /\ DOMAIN rounds = DOMAIN StockBatches
      BY <2>3, <2>6, FunctionIsSequence
    <2>8. ASSUME NEW c \in Cells(d), c[1] \in first .. last PROVE \E i \in DOMAIN rounds : InRound(rounds[i], d, c)
      <3>1. PICK i \in DOMAIN StockBatches : c[2] \in StockBatches[i]
        BY <2>2, <2>8, Cell DEF Range
      <3> QED
        BY <2>4, <2>7, <2>8, <3>1 DEF InRound
    <2> QED
      BY <1>1, <1>2, <2>4, <2>7, <2>8
  <1>3. CASE KindOf[d] = "snapshot"
    <2> DEFINE whole == [table |-> d, first |-> 1, last |-> LastDay, parts |-> PartsOf[d]]
    <2>1. rounds = <<whole>>
      BY <1>3 DEF Rounds, SnapshotRounds, Round
    <2>2. whole \in RoundRecords
      BY <1>1 DEF RoundRecords
    <2>3. rounds \in Seq(RoundRecords) /\ rounds # <<>> /\ DOMAIN rounds = {1} /\ rounds[1] = whole
      BY <2>1, <2>2
    <2>4. \A c \in Cells(d) : InRound(rounds[1], d, c)
      BY <2>3, Cell DEF InRound, Days
    <2> QED
      BY <1>3, <2>3, <2>4
  <1>4. CASE KindOf[d] # "audited" /\ KindOf[d] # "snapshot"
    <2>1. rounds = ChunkRounds(d, first, last)
      BY <1>4 DEF Rounds
    <2>2. /\ rounds \in Seq(RoundRecords) /\ rounds # <<>>
          /\ \A i \in DOMAIN rounds : rounds[i].table = d /\ first <= rounds[i].first /\ rounds[i].last <= last
          /\ \A c \in Cells(d) : c[1] \in first .. last => \E i \in DOMAIN rounds : InRound(rounds[i], d, c)
      BY <1>1, <2>1, ChunkRoundsAre
    <2> QED
      BY <1>4, <2>2
  <1> QED
    BY <1>2, <1>3, <1>4

\* _ensure_trade_calendars leaves no day of the range out.
LEMMA CalendarRoundsAre ==
  ASSUME specs \in Specs, NEW first \in Days, NEW last \in Days, NEW rounds, rounds = CalendarRounds(first, last)
  PROVE  /\ rounds \in Seq(RoundRecords) /\ \A i \in DOMAIN rounds : rounds[i].table = Calendar
         /\ \A c \in Cells(Calendar) : c[1] \in first .. last =>
              stored[Calendar][c] # 0 \/ \E i \in DOMAIN rounds : InRound(rounds[i], Calendar, c)
  <1> DEFINE known == {day \in Days : \A e \in PartsOf[Calendar] : stored[Calendar][<<day, e>>] # 0}
             unknown == (first .. last) \ known
             dates == Ascending(unknown)
             missing == ContiguousRanges(dates)
             ss == [i \in DOMAIN missing |-> ChunkRounds(Calendar, missing[i][1], missing[i][2])]
  <1>1. Calendar \in specs /\ LastDay \in Nat \ {0} /\ first \in Nat /\ last \in Nat
    BY DatasetFacts DEF Days
  <1>2. unknown \in SUBSET Nat /\ IsFiniteSet(unknown)
    <2>1. IsFiniteSet(first .. last)
      BY <1>1, FS_Interval
    <2>2. unknown \subseteq first .. last
      OBVIOUS
    <2> HIDE DEF unknown
    <2>3. IsFiniteSet(unknown)
      BY <2>1, <2>2, FS_Subset
    <2> QED
      BY <1>1, <2>2, <2>3
  <1> HIDE DEF unknown
  <1>3. /\ dates \in Seq(unknown) /\ \A i, j \in DOMAIN dates : i < j => dates[i] < dates[j]
        /\ ToSet(dates) = unknown
    BY <1>2, AscendingIs
  <1>4. dates \in Seq(Int) /\ \A x \in unknown : \E i \in DOMAIN dates : x = dates[i]
    <2> HIDE DEF dates
    <2>1. \A i \in DOMAIN dates : dates[i] \in Int
      <3>1. dates \in Seq(unknown)
        BY <1>3
      <3>2. \A i \in DOMAIN dates : dates[i] \in unknown
        BY <3>1
      <3>3. \A x \in unknown : x \in Int
        BY <1>2
      <3> QED
        BY <3>2, <3>3
    <2>2. ToSet(dates) = {dates[i] : i \in DOMAIN dates}
      BY DEF ToSet
    <2> QED
      BY <1>3, <2>1, <2>2, SequenceInto
  <1> HIDE DEF dates
  <1>5. Apart(missing) /\ \A x \in Int : x \in DaysOf(missing) <=> \E i \in DOMAIN dates : x = dates[i]
    BY <1>3, <1>4, ContiguousIs
  <1> HIDE DEF missing
  <1>6. missing \in Seq(Int \X Int) /\ \A i \in DOMAIN missing : missing[i][1] \in Int /\ missing[i][2] \in Int /\ missing[i][1] <= missing[i][2]
    BY <1>5 DEF Apart
  <1>7. \A i \in DOMAIN missing :
          /\ ss[i] \in Seq(RoundRecords)
          /\ \A k \in DOMAIN ss[i] : ss[i][k].table = Calendar
          /\ \A c \in Cells(Calendar) : c[1] \in missing[i][1] .. missing[i][2] =>
               \E k \in DOMAIN ss[i] : InRound(ss[i][k], Calendar, c)
    <2> SUFFICES ASSUME NEW i \in DOMAIN missing
                 PROVE  /\ ss[i] \in Seq(RoundRecords)
                        /\ \A k \in DOMAIN ss[i] : ss[i][k].table = Calendar
                        /\ \A c \in Cells(Calendar) : c[1] \in missing[i][1] .. missing[i][2] =>
                             \E k \in DOMAIN ss[i] : InRound(ss[i][k], Calendar, c)
      OBVIOUS
    <2>1. missing[i][1] \in Int /\ missing[i][2] \in Int /\ missing[i][1] <= missing[i][2]
      BY <1>6
    <2>2. ss[i] = ChunkRounds(Calendar, missing[i][1], missing[i][2])
      OBVIOUS
    <2> HIDE DEF ss
    <2> QED
      BY <1>1, <2>1, <2>2, ChunkRoundsAre
  <1>8. ss \in Seq(Seq(RoundRecords)) /\ DOMAIN ss = DOMAIN missing
    <2>1. DOMAIN missing = 1 .. Len(missing) /\ Len(missing) \in Nat /\ DOMAIN ss = DOMAIN missing
      BY <1>6
    <2>2. ss \in [1 .. Len(missing) -> Seq(RoundRecords)]
      BY <1>7, <2>1
    <2> HIDE DEF ss
    <2> QED
      BY <2>1, <2>2, FunctionIsSequence
  <1>9. rounds = FlattenSeq(ss)
    BY DEF CalendarRounds, missing, dates, unknown
  <1> HIDE DEF ss
  <1>10. rounds \in Seq(RoundRecords) /\ \A x : Has(rounds, x) <=> \E k \in DOMAIN ss : Has(ss[k], x)
    BY <1>8, <1>9, FlattenElements
  <1>11. \A i \in DOMAIN rounds : rounds[i].table = Calendar
    <2> SUFFICES ASSUME NEW i \in DOMAIN rounds PROVE rounds[i].table = Calendar
      OBVIOUS
    <2>1. Has(rounds, rounds[i])
      BY DEF Has
    <2>2. PICK k \in DOMAIN ss : Has(ss[k], rounds[i])
      BY <1>10, <2>1
    <2> QED
      BY <1>7, <1>8, <2>2 DEF Has
  <1>12. ASSUME NEW c \in Cells(Calendar), c[1] \in first .. last, stored[Calendar][c] = 0
         PROVE  \E i \in DOMAIN rounds : InRound(rounds[i], Calendar, c)
    <2>1. c = <<c[1], c[2]>> /\ c[1] \in Days /\ c[2] \in PartsOf[Calendar] /\ c[1] \in Int
      BY <1>12, Cell
    <2>2. c[1] \in unknown
      BY <1>12, <2>1 DEF unknown
    <2>3. c[1] \in DaysOf(missing)
      BY <1>4, <1>5, <2>1, <2>2
    <2>4. PICK i \in DOMAIN missing : c[1] \in missing[i][1] .. missing[i][2]
      BY <2>3 DEF DaysOf
    <2>5. PICK k \in DOMAIN ss[i] : InRound(ss[i][k], Calendar, c)
      BY <1>7, <1>12, <2>4
    <2>6. Has(ss[i], ss[i][k]) /\ i \in DOMAIN ss
      BY <1>8, <2>4, <2>5 DEF Has
    <2>7. Has(rounds, ss[i][k])
      BY <1>10, <2>6
    <2> QED
      BY <2>5, <2>7 DEF Has
  <1> QED
    BY <1>10, <1>11, <1>12

LEMMA RequestsAre ==
  ASSUME specs \in Specs, NEW round \in RoundRecords
  PROVE  /\ RequestsOf(round) \in SUBSET SUBSET (Int \X AllParts)
         /\ \A request \in RequestsOf(round) : \A c \in request : c[1] \in round.first .. round.last
         /\ \A c \in Cells(round.table) :
              InRound(round, round.table, c) /\ (Traded(round.table) => c[1] \in MarketOpenDates(round.first, round.last))
              => \E request \in RequestsOf(round) : c \in request
  <1>1. /\ round.table \in specs /\ round.first \in Int /\ round.last \in Int /\ round.parts \subseteq AllParts
        /\ KindOf[round.table] \in Kinds
    BY DatasetFacts DEF RoundRecords
  <1>2. \A dates \in RequestDates(round) : dates \subseteq round.first .. round.last
    BY <1>1, OpenDates DEF RequestDates, Kinds
  <1>3. \A request \in RequestsOf(round) : \E dates \in RequestDates(round), part \in round.parts : request = dates \X {part}
    BY DEF RequestsOf
  <1>4. ASSUME NEW c \in Cells(round.table), InRound(round, round.table, c),
               Traded(round.table) => c[1] \in MarketOpenDates(round.first, round.last)
        PROVE  \E request \in RequestsOf(round) : c \in request
    <2>1. \E dates \in RequestDates(round) : c[1] \in dates
      BY <1>1, <1>4 DEF RequestDates, Kinds, Traded, InRound
    <2>2. c[2] \in round.parts /\ c = <<c[1], c[2]>>
      BY <1>4, Cell DEF InRound
    <2>3. PICK dates \in RequestDates(round) : c[1] \in dates
      BY <2>1
    <2>4. dates \X {c[2]} \in RequestsOf(round)
      BY <2>2, <2>3 DEF RequestsOf
    <2>5. c \in dates \X {c[2]}
      BY <2>2, <2>3
    <2> QED
      BY <2>4, <2>5
  <1> QED
    BY <1>1, <1>2, <1>3, <1>4

-----------------------------------------------------------------------------
(* One thread's record is replaced. *)

LEMMA ActiveThread ==
  ASSUME Types, NEW d \in specs, job[d].at # "idle"
  PROVE  job[d] \in Threads /\ Running
  <1>1. Idle.at = "idle"
    BY DEF Idle
  <1> QED
    BY <1>1 DEF Types

LEMMA JobExcept ==
  ASSUME Types, NEW d \in specs, NEW j \in Threads \cup {Idle}, job' = [job EXCEPT ![d] = j], specs' = specs
  PROVE  /\ job'[d] = j /\ \A e \in specs : e # d => job'[e] = job[e]
         /\ job' \in [specs -> Threads \cup {Idle}]
  BY DEF Types

\* What a thread's step leaves alone of Types.
LEMMA TypesStay ==
  ASSUME Types, Running, UNCHANGED <<specs, source, run>>, stored' \in AllVersions, buffer' \in AllVersions,
         pledged' \in AllVersions, marks' \in [specs -> Seq(Days \X Days)], covered' \in [specs -> SUBSET Days],
         job' \in [specs -> Threads \cup {Idle}], faults' \in 0 .. MaxFaults
  PROVE  Types'
  <1>1. AllVersions' = AllVersions /\ Threads' = Threads /\ Runs' = Runs
    BY DEF AllVersions, Threads, Runs, Fetched, RoundRecords
  <1> QED
    BY <1>1 DEF Types, Running

LEMMA SameThreads ==
  ASSUME specs' = specs
  PROVE  AllVersions' = AllVersions /\ Threads' = Threads /\ Runs' = Runs /\ RoundRecords' = RoundRecords
  BY DEF AllVersions, Threads, Runs, Fetched, RoundRecords

LEMMA HeadTail ==
  ASSUME NEW S, NEW s \in Seq(S), s # <<>>
  PROVE  /\ DOMAIN s = 1 .. Len(s) /\ Len(s) \in Nat \ {0} /\ Head(s) = s[1] /\ Head(s) \in S
         /\ Tail(s) \in Seq(S) /\ Len(Tail(s)) = Len(s) - 1 /\ DOMAIN Tail(s) = 1 .. Len(s) - 1
         /\ \A i \in 1 .. Len(s) - 1 : Tail(s)[i] = s[i + 1]
         /\ Tail(s) = <<>> <=> Len(s) = 1
  <1>1. DOMAIN s = 1 .. Len(s) /\ Len(s) \in Nat \ {0} /\ Head(s) = s[1] /\ s[1] \in S
    OBVIOUS
  <1>2. Tail(s) \in Seq(S) /\ Len(Tail(s)) = Len(s) - 1
    OBVIOUS
  <1>3. \A i \in 1 .. Len(s) - 1 : Tail(s)[i] = s[i + 1]
    OBVIOUS
  <1>4. DOMAIN Tail(s) = 1 .. Len(s) - 1
    BY <1>2
  <1>5. \A t \in Seq(S) : t = <<>> <=> Len(t) = 0
    OBVIOUS
  <1>6. Tail(s) = <<>> <=> Len(s) = 1
    <2>1. PICK t \in Seq(S) : t = Tail(s)
      BY <1>2
    <2>2. Len(t) = Len(s) - 1
      BY <1>2, <2>1
    <2>3. t = <<>> <=> Len(t) = 0
      BY <1>5
    <2>4. t = <<>> <=> Len(s) = 1
      BY ONLY <1>1, <2>2, <2>3
    <2> QED
      BY ONLY <2>1, <2>4
  <1> QED
    BY <1>1, <1>2, <1>3, <1>4, <1>6

Thread(at, calls, rounds, requests, got, flushing) ==
  [at |-> at, calls |-> calls, rounds |-> rounds, requests |-> requests, got |-> got, flushing |-> flushing]

LEMMA ThreadMade ==
  ASSUME NEW at \in {"call", "fetch", "flush", "mark", "done", "failed"}, NEW calls \in Seq(CallRecords),
         NEW rounds \in Seq(RoundRecords), NEW requests \in SUBSET SUBSET (Int \X AllParts),
         NEW got \in Fetched, NEW flushing \in SUBSET Days
  PROVE  Thread(at, calls, rounds, requests, got, flushing) \in Threads
  <1> DEFINE A == {"call", "fetch", "flush", "mark", "done", "failed"}
             B == Seq(CallRecords)
             C == Seq(RoundRecords)
             D == SUBSET SUBSET (Int \X AllParts)
             E == Fetched
             F == SUBSET Days
  <1>1. Threads = [at : A, calls : B, rounds : C, requests : D, got : E, flushing : F]
    BY DEF Threads
  <1>2. at \in A /\ calls \in B /\ rounds \in C /\ requests \in D /\ got \in E /\ flushing \in F
    OBVIOUS
  <1> HIDE DEF A, B, C, D, E, F
  <1> QED
    BY <1>1, <1>2 DEF Thread

LEMMA ThreadIs ==
  ASSUME NEW j \in Threads
  PROVE  /\ j = Thread(j.at, j.calls, j.rounds, j.requests, j.got, j.flushing)
         /\ j.at \in {"call", "fetch", "flush", "mark", "done", "failed"} /\ j.calls \in Seq(CallRecords)
         /\ j.rounds \in Seq(RoundRecords) /\ j.requests \in SUBSET SUBSET (Int \X AllParts)
         /\ j.got \in Fetched /\ j.flushing \in SUBSET Days
  <1> DEFINE A == {"call", "fetch", "flush", "mark", "done", "failed"}
             B == Seq(CallRecords)
             C == Seq(RoundRecords)
             D == SUBSET SUBSET (Int \X AllParts)
             E == Fetched
             F == SUBSET Days
  <1>1. Threads = [at : A, calls : B, rounds : C, requests : D, got : E, flushing : F]
    BY DEF Threads
  <1> HIDE DEF A, B, C, D, E, F
  <1>2. /\ j = Thread(j.at, j.calls, j.rounds, j.requests, j.got, j.flushing)
        /\ j.at \in A /\ j.calls \in B /\ j.rounds \in C /\ j.requests \in D /\ j.got \in E /\ j.flushing \in F
    BY <1>1 DEF Thread
  <1> QED
    BY <1>2 DEF A, B, C, D, E, F

LEMMA ThreadAt ==
  ASSUME NEW thread \in Threads, NEW x, NEW j, j = [thread EXCEPT !.at = x]
  PROVE  j = Thread(x, thread.calls, thread.rounds, thread.requests, thread.got, thread.flushing)
  <1>1. PICK a, b, c, q, g, f : thread = [at |-> a, calls |-> b, rounds |-> c, requests |-> q, got |-> g, flushing |-> f]
    BY ThreadIs DEF Thread
  <1>2. j = [at |-> x, calls |-> b, rounds |-> c, requests |-> q, got |-> g, flushing |-> f]
    BY <1>1
  <1> QED
    BY <1>1, <1>2 DEF Thread

LEMMA ThreadFetched ==
  ASSUME NEW thread \in Threads, NEW x, NEW y, NEW j, j = [thread EXCEPT !.requests = x, !.got = y]
  PROVE  j = Thread(thread.at, thread.calls, thread.rounds, x, y, thread.flushing)
  <1>1. PICK a, b, c, q, g, f : thread = [at |-> a, calls |-> b, rounds |-> c, requests |-> q, got |-> g, flushing |-> f]
    BY ThreadIs DEF Thread
  <1>2. j = [at |-> a, calls |-> b, rounds |-> c, requests |-> x, got |-> y, flushing |-> f]
    BY <1>1
  <1> QED
    BY <1>1, <1>2 DEF Thread

LEMMA ThreadAppended ==
  ASSUME NEW thread \in Threads, NEW x, NEW y, NEW j, j = [thread EXCEPT !.at = x, !.flushing = y]
  PROVE  j = Thread(x, thread.calls, thread.rounds, thread.requests, thread.got, y)
  <1>1. PICK a, b, c, q, g, f : thread = [at |-> a, calls |-> b, rounds |-> c, requests |-> q, got |-> g, flushing |-> f]
    BY ThreadIs DEF Thread
  <1>2. j = [at |-> x, calls |-> b, rounds |-> c, requests |-> q, got |-> g, flushing |-> y]
    BY <1>1
  <1> QED
    BY <1>1, <1>2 DEF Thread

LEMMA ThreadFlushed ==
  ASSUME NEW thread \in Threads, NEW x, NEW j, j = [thread EXCEPT !.flushing = x]
  PROVE  j = Thread(thread.at, thread.calls, thread.rounds, thread.requests, thread.got, x)
  <1>1. PICK a, b, c, q, g, f : thread = [at |-> a, calls |-> b, rounds |-> c, requests |-> q, got |-> g, flushing |-> f]
    BY ThreadIs DEF Thread
  <1>2. j = [at |-> a, calls |-> b, rounds |-> c, requests |-> q, got |-> g, flushing |-> x]
    BY <1>1
  <1> QED
    BY <1>1, <1>2 DEF Thread

LEMMA ThreadCalls ==
  ASSUME NEW thread \in Threads, NEW x, NEW j, j = [thread EXCEPT !.calls = x]
  PROVE  j = Thread(thread.at, x, thread.rounds, thread.requests, thread.got, thread.flushing)
  <1>1. PICK a, b, c, q, g, f : thread = [at |-> a, calls |-> b, rounds |-> c, requests |-> q, got |-> g, flushing |-> f]
    BY ThreadIs DEF Thread
  <1>2. j = [at |-> a, calls |-> x, rounds |-> c, requests |-> q, got |-> g, flushing |-> f]
    BY <1>1
  <1> QED
    BY <1>1, <1>2 DEF Thread

LEMMA ThreadNothing ==
  /\ <<>> \in Seq(CallRecords) /\ <<>> \in Seq(RoundRecords) /\ {} \in SUBSET SUBSET (Int \X AllParts)
  /\ {} \in SUBSET Days /\ <<>> \in Fetched
  <1>1. <<>> \in Seq(CallRecords)
    OBVIOUS
  <1>2. <<>> \in Seq(RoundRecords)
    OBVIOUS
  <1>3. <<>> \in Fetched
    BY DEF Fetched
  <1> QED
    BY <1>1, <1>2, <1>3

LEMMA CallingIs ==
  ASSUME NEW calls \in Seq(CallRecords), NEW j, j = Calling(calls)
  PROVE  /\ j \in Threads /\ j.at \in {"call", "done"} /\ j.calls = calls /\ (j.at = "done" <=> calls = <<>>)
         /\ (IF j.at \in {"call", "fetch", "flush", "mark"} THEN j.calls ELSE <<>>) = calls
  <1>1. j = Thread(IF calls = <<>> THEN "done" ELSE "call", calls, <<>>, {}, <<>>, {})
    BY DEF Calling, Thread
  <1>2. j \in Threads
    <2>1. CASE calls = <<>>
      <3>1. j = Thread("done", calls, <<>>, {}, <<>>, {})
        BY <1>1, <2>1
      <3> QED
        BY <3>1, ThreadNothing, ThreadMade
    <2>2. CASE calls # <<>>
      <3>1. j = Thread("call", calls, <<>>, {}, <<>>, {})
        BY <1>1, <2>2
      <3> QED
        BY <3>1, ThreadNothing, ThreadMade
    <2> QED
      BY <2>1, <2>2
  <1> QED
    BY <1>1, <1>2 DEF Thread

LEMMA BeginIs ==
  ASSUME specs \in Specs, NEW thread \in Threads, NEW rounds \in Seq(RoundRecords), rounds # <<>>,
         NEW j, j = Begin(thread, rounds)
  PROVE  /\ j \in Threads /\ j.at = "fetch" /\ j.calls = thread.calls /\ j.rounds = rounds
         /\ j.requests = RequestsOf(Head(rounds)) /\ j.got = Nothing[Head(rounds).table]
         /\ Head(rounds) \in RoundRecords /\ Head(rounds).table \in specs
  <1>1. Head(rounds) \in RoundRecords
    BY HeadTail
  <1>2. Head(rounds).table \in specs
    BY <1>1 DEF RoundRecords
  <1>3. RequestsOf(Head(rounds)) \in SUBSET SUBSET (Int \X AllParts)
    BY <1>1, RequestsAre
  <1>4. Nothing[Head(rounds).table] \in Fetched
    <2>1. Nothing[Head(rounds).table] \in [Cells(Head(rounds).table) -> 0 .. MaxVersion]
      BY <1>2, NothingIs, Versions
    <2> QED
      BY <1>2, <2>1 DEF Fetched
  <1>5. j = Thread("fetch", thread.calls, rounds, RequestsOf(Head(rounds)), Nothing[Head(rounds).table], thread.flushing)
    <2>1. j = [thread EXCEPT !.at = "fetch", !.rounds = rounds,
                 !.requests = RequestsOf(Head(rounds)), !.got = Nothing[Head(rounds).table]]
      BY DEF Begin
    <2>2. PICK a, b, c, q, g, f : thread = [at |-> a, calls |-> b, rounds |-> c, requests |-> q, got |-> g, flushing |-> f]
      BY ThreadIs DEF Thread
    <2>3. PICK z, w : z = RequestsOf(Head(rounds)) /\ w = Nothing[Head(rounds).table]
      OBVIOUS
    <2>4. j = [at |-> "fetch", calls |-> b, rounds |-> rounds, requests |-> z, got |-> w, flushing |-> f]
      BY <2>1, <2>2, <2>3
    <2> QED
      BY <2>2, <2>3, <2>4 DEF Thread
  <1>6. j \in Threads
    BY <1>3, <1>4, <1>5, ThreadIs, ThreadMade
  <1> QED
    BY <1>1, <1>2, <1>5, <1>6 DEF Thread

-----------------------------------------------------------------------------
(* A thread begins at the first of the rounds it has left.                 *)

LEMMA BeginKeeps ==
  ASSUME Types, Upstream, Running, UNCHANGED <<specs, stored, buffer, run>>, NEW d \in specs,
         job[d] \in Threads, job[d].calls # <<>>, CallsOK(d), Left(d) = job[d].calls,
         NEW rounds \in Seq(RoundRecords), rounds # <<>>, job'[d] = Begin(job[d], rounds),
         \A i \in DOMAIN rounds :
           /\ rounds[i].table = d \/ (rounds[i].table = Calendar /\ Traded(d))
           /\ rounds[i].table = d /\ KindOf[d] # "snapshot" => Task(d).first <= rounds[i].first /\ rounds[i].last <= Task(d).last
           /\ rounds[i].table = Calendar => \A j \in 1 .. i : rounds[j].table = Calendar,
         \A c \in Cells(d) : Needs(Task(d), d, c) => Brought(d, c) \/ \E i \in DOMAIN rounds : InRound(rounds[i], d, c),
         Traded(d) => \A c \in Cells(Calendar) : c[1] \in Task(d).first .. Task(d).last /\ run.asked[Calendar][c] # 0 =>
           stored[Calendar][c] # 0 \/ \E i \in DOMAIN rounds : InRound(rounds[i], Calendar, c)
  PROVE  /\ job'[d] \in Threads /\ Left(d)' = Left(d) /\ job'[d].at = "fetch"
         /\ CallsOK(d)' /\ RoundsOK(d)' /\ FetchOK(d)' /\ OwnOnTheWay(d)' /\ CalendarOnTheWay(d)'
  <1> DEFINE round == Head(rounds)
             j == job'[d]
  <1>1. specs \in Specs /\ Calendar \in specs /\ ~Traded(Calendar) /\ LastDay \in Nat \ {0} /\ KindOf[Calendar] = "calendar"
    BY DatasetFacts DEF Types
  <1>2. /\ j \in Threads /\ j.at = "fetch" /\ j.calls = job[d].calls /\ j.rounds = rounds
        /\ j.requests = RequestsOf(round) /\ j.got = Nothing[round.table]
        /\ round \in RoundRecords /\ round.table \in specs
    BY <1>1, BeginIs
  <1>3. DOMAIN rounds = 1 .. Len(rounds) /\ Len(rounds) \in Nat \ {0} /\ round = rounds[1]
    BY HeadTail
  <1>4. /\ Working(d)' /\ At(d, "fetch")' /\ ~At(d, "mark")' /\ Task(d)' = Task(d) /\ Table(d)' = round.table
        /\ Left(d)' = Left(d)
    BY <1>2 DEF Working, At, Task, Table, Left
  <1>5. CallsOK(d)'
    BY <1>2, <1>4 DEF CallsOK, At
  <1>6. RoundsOK(d)'
    BY <1>2, <1>4 DEF RoundsOK
  <1>7. run.mode # "none" /\ run.asked \in AllVersions
    BY RunningIsRun, RunFields
  <1>8. FetchOK(d)'
    <2>1. Nothing[round.table] \in [Cells(round.table) -> 0 .. MaxVersion] /\ \A c \in Cells(round.table) : Nothing[round.table][c] = 0
      BY <1>1, <1>2, NothingIs, Versions
    <2>2. \A request \in RequestsOf(round) : \A c \in request : c[1] \in round.first .. round.last
      BY <1>1, <1>2, RequestsAre
    <2> QED
      BY <1>2, <1>4, <2>1, <2>2 DEF FetchOK, Cells
  <1>9. ASSUME NEW t \in specs, NEW c \in Cells(t), NEW least, NEW i \in DOMAIN rounds, InRound(rounds[i], t, c),
               i = 1 /\ Traded(t) => c[1] \in MarketOpenDates(round.first, round.last)
        PROVE  OnTheWay(d, t, c, least)'
    <2>1. CASE i > 1
      BY <1>2, <1>9, <2>1 DEF OnTheWay, InRound
    <2>2. CASE i = 1
      <3>1. round.table = t /\ InRound(round, t, c)
        BY <1>3, <1>9, <2>2 DEF InRound
      <3>2. \E request \in RequestsOf(round) : c \in request
        BY <1>1, <1>2, <1>9, <2>2, <3>1, RequestsAre
      <3> QED
        BY <1>2, <1>4, <3>1, <3>2 DEF OnTheWay
    <2> QED
      BY <1>3, <2>1, <2>2
  <1>10. CalendarOnTheWay(d)'
    <2> SUFFICES ASSUME Traded(d), NEW c \in Cells(Calendar), c[1] \in Task(d).first .. Task(d).last,
                        run.asked[Calendar][c] # 0
                 PROVE  stored[Calendar][c] # 0 \/ OnTheWay(d, Calendar, c, 1)'
      BY <1>4 DEF CalendarOnTheWay, Cells
    <2>1. CASE \E i \in DOMAIN rounds : InRound(rounds[i], Calendar, c)
      BY <1>1, <1>9, <2>1
    <2> QED
      BY <2>1
  <1>11. OwnOnTheWay(d)'
    <2> SUFFICES ASSUME NEW c \in Cells(d), Needs(Task(d), d, c), ~Brought(d, c)
                 PROVE  OnTheWay(d, d, c, run.asked[d][c])'
      BY <1>4 DEF OwnOnTheWay, Cells, Brought, Needs
    <2>1. PICK i \in DOMAIN rounds : InRound(rounds[i], d, c)
      OBVIOUS
    <2>2. ASSUME i = 1, Traded(d) PROVE c[1] \in MarketOpenDates(round.first, round.last)
      <3>1. run.asked[d][c] # 0
        BY <1>7, Numbers, NothingAsked
      <3>2. c[1] \in OpenDays /\ \E e \in PartsOf[Calendar] : run.asked[Calendar][<<c[1], e>>] # 0
        BY <1>7, <2>2, <3>1 DEF Upstream
      <3>3. PICK e \in PartsOf[Calendar] : run.asked[Calendar][<<c[1], e>>] # 0
        BY <3>2
      <3>4. round.table = d /\ c[1] \in round.first .. round.last /\ round.first \in Int /\ round.last \in Int /\ d # Calendar
        BY <1>1, <1>2, <1>3, <2>1, <2>2 DEF InRound, RoundRecords
      <3>5. <<c[1], e>> \in Cells(Calendar) /\ c[1] \in Task(d).first .. Task(d).last /\ <<c[1], e>>[1] = c[1]
        BY <2>2, <3>3, Cell DEF Cells, Needs, Traded
      <3>6. \A k \in DOMAIN rounds : rounds[k].table # Calendar
        BY <1>3, <3>4
      <3>7. stored[Calendar][<<c[1], e>>] # 0
        BY <2>2, <3>3, <3>5, <3>6 DEF InRound
      <3>8. \E x \in PartsOf[Calendar] : stored[Calendar][<<c[1], x>>] # 0
        BY <3>3, <3>7
      <3> QED
        BY <3>2, <3>4, <3>8, OpenDates
    <2> QED
      BY <1>9, <2>1, <2>2
  <1> QED
    BY <1>2, <1>4, <1>5, <1>6, <1>8, <1>10, <1>11

LEMMA NothingTwiceStays ==
  ASSUME NEW d, UNCHANGED run, covered'[d] = covered[d], Left(d)' = Left(d), NothingTwice(d)
  PROVE  NothingTwice(d)'
  BY DEF NothingTwice, Running

\* A calendar's rounds before a dataset's own.
LEMMA EnterCallKeeps ==
  ASSUME SyncInv, NEW d \in specs, EnterCall(d)
  PROVE  SyncInv'
  <1> DEFINE call == Head(job[d].calls)
             calendar == IF Traded(d) THEN CalendarRounds(call.first, call.last) ELSE <<>>
             own == Rounds(d, call.first, call.last)
             rounds == calendar \o own
  <1>1. /\ Types /\ Upstream /\ specs \in Specs /\ job[d].at = "call" /\ ThreadInv(d)
        /\ job' = [job EXCEPT ![d] = Begin(@, rounds)]
        /\ UNCHANGED <<specs, source, stored, marks, buffer, run, faults, pledged, covered>>
    BY DEF SyncInv, Types, EnterCall, At, disk, ghosts
  <1>2. job[d] \in Threads /\ Running
    BY <1>1, ActiveThread
  <1>3. /\ Left(d) = job[d].calls /\ job[d].calls \in Seq(CallRecords) /\ job[d].calls # <<>> /\ Task(d) = call
        /\ Left(d)[1] = call /\ 1 \in DOMAIN Left(d) /\ call \in CallRecords
    <2>1. Left(d) = job[d].calls /\ job[d].calls \in Seq(CallRecords) /\ job[d].calls # <<>> /\ Task(d) = call
      BY <1>1, <1>2, ThreadIs DEF Left, ThreadInv, CallsOK, At, Task
    <2> QED
      BY <2>1, HeadTail
  <1>4. call.first \in Days /\ call.last \in Days /\ call.first <= call.last /\ CallsOK(d)
    BY <1>1, <1>3 DEF ThreadInv, CallsOK, CallRecords
  <1> HIDE DEF call
  <1>5. /\ own \in Seq(RoundRecords) /\ own # <<>>
        /\ \A i \in DOMAIN own : own[i].table = d
        /\ KindOf[d] # "snapshot" => \A i \in DOMAIN own : call.first <= own[i].first /\ own[i].last <= call.last
        /\ \A c \in Cells(d) : KindOf[d] = "snapshot" \/ c[1] \in call.first .. call.last =>
              \E i \in DOMAIN own : InRound(own[i], d, c)
    BY <1>1, <1>4, RoundsAre
  <1>6. /\ calendar \in Seq(RoundRecords) /\ \A i \in DOMAIN calendar : calendar[i].table = Calendar /\ Traded(d)
        /\ Traded(d) => \A c \in Cells(Calendar) : c[1] \in call.first .. call.last =>
              stored[Calendar][c] # 0 \/ \E i \in DOMAIN calendar : InRound(calendar[i], Calendar, c)
    <2>1. CASE Traded(d)
      BY <1>1, <1>4, <2>1, CalendarRoundsAre
    <2>2. CASE ~Traded(d)
      BY <2>2
    <2> QED
      BY <2>1, <2>2
  <1> HIDE DEF own, calendar
  <1>7. /\ rounds \in Seq(RoundRecords) /\ rounds # <<>>
        /\ DOMAIN rounds = 1 .. Len(calendar) + Len(own) /\ Len(calendar) \in Nat /\ Len(own) \in Nat \ {0}
        /\ \A i \in 1 .. Len(calendar) : rounds[i] = calendar[i] /\ i \in DOMAIN calendar
        /\ \A i \in 1 .. Len(own) : rounds[Len(calendar) + i] = own[i] /\ Len(calendar) + i \in DOMAIN rounds
        /\ DOMAIN own = 1 .. Len(own) /\ DOMAIN calendar = 1 .. Len(calendar)
    BY <1>5, <1>6
  <1>8. \A i \in DOMAIN rounds :
          \/ i <= Len(calendar) /\ rounds[i].table = Calendar /\ Traded(d)
          \/ i > Len(calendar) /\ rounds[i].table = d
             /\ (KindOf[d] # "snapshot" => call.first <= rounds[i].first /\ rounds[i].last <= call.last)
    <2> SUFFICES ASSUME NEW i \in DOMAIN rounds
                 PROVE  \/ i <= Len(calendar) /\ rounds[i].table = Calendar /\ Traded(d)
                        \/ i > Len(calendar) /\ rounds[i].table = d
                           /\ (KindOf[d] # "snapshot" => call.first <= rounds[i].first /\ rounds[i].last <= call.last)
      OBVIOUS
    <2>1. CASE i <= Len(calendar)
      BY <1>6, <1>7, <2>1
    <2>2. CASE i > Len(calendar)
      <3>1. i - Len(calendar) \in 1 .. Len(own) /\ Len(calendar) + (i - Len(calendar)) = i
        BY <1>7, <2>2
      <3>2. rounds[i] = own[i - Len(calendar)]
        BY <1>7, <3>1
      <3> QED
        BY <1>5, <1>7, <2>2, <3>1, <3>2
    <2> QED
      BY <1>7, <2>1, <2>2
  <1>9. ~Traded(Calendar) /\ Calendar \in specs
    BY <1>1, DatasetFacts
  <1>10. \A i \in DOMAIN rounds :
          /\ rounds[i].table = d \/ (rounds[i].table = Calendar /\ Traded(d))
          /\ rounds[i].table = d /\ KindOf[d] # "snapshot" => Task(d).first <= rounds[i].first /\ rounds[i].last <= Task(d).last
          /\ rounds[i].table = Calendar => \A j \in 1 .. i : rounds[j].table = Calendar
    <2> HIDE DEF rounds
    <2>1. ASSUME NEW i \in DOMAIN rounds, rounds[i].table = Calendar, NEW j \in 1 .. i PROVE rounds[j].table = Calendar
      <3>1. j \in DOMAIN rounds
        BY <1>7, <2>1
      <3> QED
        BY <1>7, <1>8, <1>9, <2>1, <3>1
    <2>2. ASSUME NEW i \in DOMAIN rounds, rounds[i].table = d, KindOf[d] # "snapshot"
          PROVE  Task(d).first <= rounds[i].first /\ rounds[i].last <= Task(d).last
      BY <1>3, <1>8, <1>9, <2>2
    <2>3. \A i \in DOMAIN rounds : rounds[i].table = d \/ (rounds[i].table = Calendar /\ Traded(d))
      BY <1>8
    <2> QED
      BY <2>1, <2>2, <2>3
  <1>11. \A c \in Cells(d) : Needs(Task(d), d, c) => Brought(d, c) \/ \E i \in DOMAIN rounds : InRound(rounds[i], d, c)
    BY <1>3, <1>5, <1>7 DEF Needs
  <1>12. Traded(d) => \A c \in Cells(Calendar) : c[1] \in Task(d).first .. Task(d).last /\ run.asked[Calendar][c] # 0 =>
           stored[Calendar][c] # 0 \/ \E i \in DOMAIN rounds : InRound(rounds[i], Calendar, c)
    BY <1>3, <1>6, <1>7
  <1> HIDE DEF rounds
  <1>13. Begin(job[d], rounds) \in Threads
    BY <1>1, <1>2, <1>7, BeginIs
  <1>14. /\ job'[d] = Begin(job[d], rounds) /\ \A e \in specs : e # d => job'[e] = job[e]
         /\ job' \in [specs -> Threads \cup {Idle}]
    BY <1>1, <1>13, JobExcept
  <1>15. Types'
    BY <1>1, <1>2, <1>14, TypesStay DEF Types
  <1>16. /\ CallsOK(d)' /\ RoundsOK(d)' /\ FetchOK(d)' /\ OwnOnTheWay(d)' /\ CalendarOnTheWay(d)' /\ Left(d)' = Left(d)
    BY <1>1, <1>2, <1>3, <1>4, <1>7, <1>10, <1>11, <1>12, <1>14, BeginKeeps
  <1>17. NothingTwice(d)'
    BY <1>1, <1>16, NothingTwiceStays DEF ThreadInv
  <1>18. AllFlow
    BY <1>1 DEF AllFlow, Flows
  <1>19. Settled(d) => Settled(d)'
    BY <1>1, <1>2, <1>15, <1>16, <1>18, SettledAlone
  <1> QED
    BY <1>1, <1>2, <1>14, <1>15, <1>16, <1>17, <1>18, <1>19, WorkKeeps DEF ThreadInv

-----------------------------------------------------------------------------
(* A round: requests, an append, and commits. *)

LEMMA WorkingThread ==
  ASSUME SyncInv, NEW d \in specs, Working(d)
  PROVE  /\ Types /\ Upstream /\ specs \in Specs /\ job[d] \in Threads /\ Running /\ ThreadInv(d)
         /\ Left(d) = job[d].calls /\ job[d].calls \in Seq(CallRecords) /\ job[d].calls # <<>>
         /\ Left(d)[1] = Task(d) /\ 1 \in DOMAIN Left(d) /\ Task(d) \in CallRecords /\ Task(d).first <= Task(d).last
         /\ job[d].rounds \in Seq(RoundRecords) /\ job[d].rounds # <<>> /\ Head(job[d].rounds) \in RoundRecords
         /\ Head(job[d].rounds) = job[d].rounds[1] /\ Table(d) \in specs
         /\ run.mode # "none" /\ run.asked \in AllVersions
         /\ Table(d) = d \/ (Table(d) = Calendar /\ Traded(d))
  <1>1. Types /\ Upstream /\ specs \in Specs /\ ThreadInv(d) /\ job[d].at \in {"fetch", "flush", "mark"}
    BY DEF SyncInv, Types, Working
  <1>2. job[d] \in Threads /\ Running
    BY <1>1, ActiveThread
  <1>3. job[d].calls # <<>> /\ job[d].rounds # <<>> /\ Left(d) = job[d].calls
    BY <1>1 DEF ThreadInv, RoundsOK, Left
  <1>4. job[d].calls \in Seq(CallRecords) /\ job[d].rounds \in Seq(RoundRecords)
    BY <1>2, ThreadIs
  <1>5. /\ Head(job[d].calls) \in CallRecords /\ Head(job[d].calls) = job[d].calls[1] /\ 1 \in DOMAIN job[d].calls
        /\ Head(job[d].rounds) \in RoundRecords /\ Head(job[d].rounds) = job[d].rounds[1] /\ 1 \in DOMAIN job[d].rounds
    BY <1>3, <1>4, HeadTail
  <1>6. Table(d) \in specs /\ Table(d) = job[d].rounds[1].table
    BY <1>5 DEF Table, RoundRecords
  <1>7. Table(d) = d \/ (Table(d) = Calendar /\ Traded(d))
    BY <1>1, <1>5, <1>6 DEF ThreadInv, RoundsOK
  <1>8. run.mode # "none" /\ run.asked \in AllVersions
    BY <1>1, <1>2, RunningIsRun, RunFields
  <1>9. Task(d).first <= Task(d).last
    BY <1>1, <1>3, <1>5 DEF ThreadInv, CallsOK, Task
  <1> QED
    BY <1>1, <1>2, <1>3, <1>4, <1>5, <1>6, <1>7, <1>8, <1>9 DEF Task

\* The parts of ThreadInv that a step within a round, which keeps calls and rounds, cannot disturb.
LEMMA SameRound ==
  ASSUME NEW d, Working(d), job'[d].at \in {"fetch", "flush"}, job'[d].calls = job[d].calls, job'[d].rounds = job[d].rounds,
         UNCHANGED <<specs, run>>, covered'[d] = covered[d], CallsOK(d), RoundsOK(d), NothingTwice(d)
  PROVE  /\ CallsOK(d)' /\ RoundsOK(d)' /\ NothingTwice(d)' /\ Left(d)' = Left(d) /\ Task(d)' = Task(d) /\ Table(d)' = Table(d)
         /\ Working(d)'
  <1>1. Left(d)' = Left(d) /\ Task(d)' = Task(d) /\ Table(d)' = Table(d) /\ ~At(d, "mark")' /\ ~At(d, "call")' /\ Working(d)'
    BY DEF Left, Task, Table, Working, At
  <1>2. CallsOK(d)'
    BY <1>1 DEF CallsOK
  <1>3. RoundsOK(d)'
    BY <1>1 DEF RoundsOK
  <1> QED
    BY <1>1, <1>2, <1>3, NothingTwiceStays

\* Within a round, what was on the way still is, or has arrived.
LEMMA RoundKeeps ==
  ASSUME Types, Types', Running, UNCHANGED <<specs, run>>, AllFlow, NEW d \in specs, Working(d), Working(d)',
         Task(d)' = Task(d), OwnOnTheWay(d), CalendarOnTheWay(d),
         \A t \in specs : \A c \in Cells(t) : \A least \in Nat :
           OnTheWay(d, t, c, least) /\ ((least = 1 /\ run.asked[t][c] # 0) \/ least = run.asked[t][c]) /\ least # 0 =>
             OnTheWay(d, t, c, least)' \/ (stored'[t][c] >= least /\ stored'[t][c] # 0 /\ buffer'[t][c] = 0)
  PROVE  OwnOnTheWay(d)' /\ CalendarOnTheWay(d)'
  <1>1. run.mode # "none" /\ run'.mode # "none" /\ run'.asked = run.asked /\ Calendar \in specs
    BY RunningIsRun, DatasetFacts DEF Types
  <1>2. ASSUME NEW c \in Cells(d), Needs(Task(d), d, c)
        PROVE  Brought(d, c)' \/ OnTheWay(d, d, c, run.asked[d][c])'
    <2>1. Brought(d, c) \/ OnTheWay(d, d, c, run.asked[d][c])
      BY <1>2 DEF OwnOnTheWay
    <2>2. Flows(d, c)
      BY DEF AllFlow
    <2>3. CASE Brought(d, c)
      BY <1>1, <2>2, <2>3, BroughtStays
    <2>4. CASE run.asked[d][c] = 0
      BY <1>1, <2>2, <2>4, NothingAsked, BroughtStays
    <2>5. CASE OnTheWay(d, d, c, run.asked[d][c]) /\ run.asked[d][c] # 0
      <3>1. PICK least \in Nat : least = run.asked[d][c]
        BY Numbers
      <3>2. OnTheWay(d, d, c, least)' \/ (stored'[d][c] >= least /\ buffer'[d][c] = 0)
        BY <2>5, <3>1
      <3>3. CASE stored'[d][c] >= least /\ buffer'[d][c] = 0
        BY <1>1, <3>1, <3>3 DEF Brought
      <3> QED
        BY <3>1, <3>2, <3>3
    <2> QED
      BY <2>1, <2>3, <2>4, <2>5
  <1>3. ASSUME Traded(d), NEW c \in Cells(Calendar), c[1] \in Task(d).first .. Task(d).last, run.asked[Calendar][c] # 0
        PROVE  stored'[Calendar][c] # 0 \/ OnTheWay(d, Calendar, c, 1)'
    <2>1. stored[Calendar][c] # 0 \/ OnTheWay(d, Calendar, c, 1)
      BY <1>3 DEF CalendarOnTheWay
    <2>2. CASE stored[Calendar][c] # 0
      BY <1>1, <2>2, KnownStays DEF AllFlow
    <2>3. CASE OnTheWay(d, Calendar, c, 1)
      BY <1>1, <1>3, <2>3
    <2> QED
      BY <2>1, <2>2, <2>3
  <1>4. OwnOnTheWay(d)'
    BY <1>1, <1>2 DEF OwnOnTheWay, Cells, Needs
  <1>5. CalendarOnTheWay(d)'
    BY <1>1, <1>3 DEF CalendarOnTheWay, Cells, Traded
  <1> QED
    BY <1>4, <1>5

LEMMA FetchKeeps ==
  ASSUME SyncInv, NEW d \in specs, Fetch(d)
  PROVE  SyncInv'
  <1> DEFINE t == Table(d)
             r == NextRequest(d)
             got == [c \in DOMAIN job[d].got |-> IF c \in r THEN source[t][c] ELSE job[d].got[c]]
  <1>1. /\ job[d].at = "fetch" /\ At(d, "fetch") /\ Working(d) /\ job[d].requests # {}
        /\ job' = [job EXCEPT ![d].requests = @ \ {r},
                      ![d].got = [c \in DOMAIN @ |-> IF c \in r THEN source[t][c] ELSE @[c]]]
        /\ UNCHANGED <<specs, source, stored, marks, buffer, run, faults, pledged, covered>>
    BY DEF Fetch, At, Working, disk, ghosts
  <1>2. /\ Types /\ Upstream /\ specs \in Specs /\ job[d] \in Threads /\ Running /\ ThreadInv(d) /\ t \in specs
        /\ run.mode # "none" /\ run.asked \in AllVersions
    BY <1>1, WorkingThread
  <1>3. r \in job[d].requests
    BY <1>1 DEF NextRequest
  <1>4. /\ job[d].got \in [Cells(t) -> 0 .. MaxVersion]
        /\ \A c \in Cells(t) : job[d].got[c] # 0 => job[d].got[c] >= run.asked[t][c]
        /\ \A request \in job[d].requests : \A c \in request :
             c[1] \in Head(job[d].rounds).first .. Head(job[d].rounds).last
    BY <1>1, <1>2 DEF ThreadInv, FetchOK
  <1> HIDE DEF r, t
  <1>5. \A c \in Cells(t) : source[t][c] \in 0 .. MaxVersion /\ source[t][c] >= run.asked[t][c]
    BY <1>2, Versions DEF Types, Upstream
  <1>6. /\ got \in [Cells(t) -> 0 .. MaxVersion] /\ got \in Fetched
        /\ \A c \in Cells(t) : got[c] = IF c \in r THEN source[t][c] ELSE job[d].got[c]
    <2>1. got \in [Cells(t) -> 0 .. MaxVersion] /\ \A c \in Cells(t) : got[c] = IF c \in r THEN source[t][c] ELSE job[d].got[c]
      BY <1>4, <1>5
    <2> HIDE DEF got
    <2> QED
      BY <1>2, <2>1 DEF Fetched
  <1> DEFINE j == [job[d] EXCEPT !.requests = job[d].requests \ {r}, !.got = got]
  <1>7. job' = [job EXCEPT ![d] = j]
    BY <1>1
  <1> HIDE DEF got
  <1>8. j = Thread("fetch", job[d].calls, job[d].rounds, job[d].requests \ {r}, got, job[d].flushing)
    BY <1>1, <1>2, ThreadFetched
  <1> HIDE DEF j
  <1>9. j \in Threads
    <2>1. job[d].requests \ {r} \in SUBSET SUBSET (Int \X AllParts)
      BY <1>2, ThreadIs
    <2> QED
      BY <1>2, <1>6, <1>8, <2>1, ThreadIs, ThreadMade
  <1>10. /\ job'[d] = j /\ \A e \in specs : e # d => job'[e] = job[e]
         /\ job' \in [specs -> Threads \cup {Idle}]
    BY <1>1, <1>2, <1>7, <1>9, JobExcept
  <1>11. /\ job'[d].at = "fetch" /\ job'[d].calls = job[d].calls /\ job'[d].rounds = job[d].rounds
         /\ job'[d].requests = job[d].requests \ {r} /\ job'[d].got = got
    BY <1>8, <1>10 DEF Thread
  <1>12. Types'
    BY <1>1, <1>2, <1>10, TypesStay DEF Types
  <1>13. AllFlow
    BY <1>1 DEF AllFlow, Flows
  <1>14. /\ CallsOK(d)' /\ RoundsOK(d)' /\ NothingTwice(d)' /\ Left(d)' = Left(d) /\ Task(d)' = Task(d)
         /\ Table(d)' = Table(d) /\ Working(d)'
    BY <1>1, <1>2, <1>11, SameRound DEF ThreadInv
  <1>15. FetchOK(d)'
    <2>1. \A c \in Cells(t) : got[c] # 0 => got[c] >= run.asked[t][c]
      BY <1>4, <1>5, <1>6
    <2> QED
      BY <1>1, <1>4, <1>6, <1>11, <1>14, <2>1 DEF FetchOK, t, Cells
  <1>16. ASSUME NEW u \in specs, NEW c \in Cells(u), NEW least \in Nat, OnTheWay(d, u, c, least),
                (least = 1 /\ run.asked[u][c] # 0) \/ least = run.asked[u][c]
         PROVE  OnTheWay(d, u, c, least)'
    <2>1. CASE \E i \in DOMAIN job[d].rounds : i > 1 /\ InRound(job[d].rounds[i], u, c)
      BY <1>11, <2>1 DEF OnTheWay, InRound
    <2>2. CASE t = u /\ (job[d].got[c] >= least \/ \E request \in job[d].requests : c \in request)
      <3>1. least <= source[t][c]
        BY <1>2, <1>5, <1>16, <2>2, Numbers
      <3>2. CASE c \in r
        BY <1>6, <1>11, <1>14, <2>2, <3>1, <3>2 DEF OnTheWay, At, t
      <3>3. CASE c \notin r
        BY <1>6, <1>11, <1>14, <2>2, <3>3 DEF OnTheWay, At, t
      <3> QED
        BY <3>2, <3>3
    <2> QED
      BY <1>1, <1>16, <2>1, <2>2 DEF OnTheWay, At, t
  <1>17. OwnOnTheWay(d)' /\ CalendarOnTheWay(d)'
    <2>1. OwnOnTheWay(d) /\ CalendarOnTheWay(d)
      BY <1>2 DEF ThreadInv
    <2> QED
      BY <1>1, <1>2, <1>12, <1>13, <1>14, <1>16, <2>1, RoundKeeps
  <1>18. Settled(d) => Settled(d)'
    BY <1>1, <1>2, <1>12, <1>13, <1>14, SettledAlone
  <1> QED
    BY <1>1, <1>2, <1>10, <1>12, <1>13, <1>14, <1>15, <1>17, <1>18, WorkKeeps DEF ThreadInv

LEMMA AppendRowsKeeps ==
  ASSUME SyncInv, NEW d \in specs, AppendRows(d)
  PROVE  SyncInv'
  <1> DEFINE t == Table(d)
             filled == Over(job[d].got, buffer[t])
             days == {day \in Days : \E c \in Cells(t) : c[1] = day /\ filled[c] # 0}
  <1>1. /\ job[d].at = "fetch" /\ At(d, "fetch") /\ Working(d) /\ job[d].requests = {}
        /\ buffer' = [buffer EXCEPT ![t] = filled]
        /\ job' = [job EXCEPT ![d].at = "flush", ![d].flushing = days]
        /\ UNCHANGED <<specs, source, stored, marks, run, faults, pledged, covered>>
    BY DEF AppendRows, At, Working, disk, ghosts
  <1>2. /\ Types /\ Upstream /\ specs \in Specs /\ job[d] \in Threads /\ Running /\ ThreadInv(d) /\ t \in specs
        /\ run.mode # "none" /\ run.asked \in AllVersions
    BY <1>1, WorkingThread
  <1>3. /\ job[d].got \in [Cells(t) -> 0 .. MaxVersion]
        /\ \A c \in Cells(t) : job[d].got[c] # 0 => job[d].got[c] >= run.asked[t][c]
    BY <1>1, <1>2 DEF ThreadInv, FetchOK
  <1> HIDE DEF t
  <1>4. /\ filled \in [Cells(t) -> 0 .. MaxVersion]
        /\ \A c \in Cells(t) : filled[c] = IF job[d].got[c] # 0 THEN job[d].got[c] ELSE buffer[t][c]
    <2>1. buffer[t] \in [Cells(t) -> 0 .. MaxVersion]
      BY <1>2, Versions DEF Types
    <2> QED
      BY <1>3, <2>1, OverIs
  <1> HIDE DEF filled
  <1>5. /\ buffer' \in AllVersions /\ buffer'[t] = filled
        /\ \A e \in specs : e # t => buffer'[e] = buffer[e]
    <2>1. buffer \in AllVersions /\ t \in specs /\ filled \in [Cells(t) -> 0 .. MaxVersion]
      BY <1>2, <1>4 DEF Types
    <2>2. buffer' = [buffer EXCEPT ![t] = filled]
      BY <1>1
    <2> QED
      BY <2>1, <2>2, VersionsExcept
  <1>6. AllFlow
    <2> SUFFICES ASSUME NEW u \in specs, NEW c \in Cells(u) PROVE Flows(u, c)
      BY DEF AllFlow
    <2>1. CASE u # t
      BY <1>1, <1>5, <2>1 DEF Flows
    <2>2. CASE u = t
      BY <1>1, <1>2, <1>3, <1>4, <1>5, <2>2 DEF Flows
    <2> QED
      BY <2>1, <2>2
  <1> DEFINE j == [job[d] EXCEPT !.at = "flush", !.flushing = days]
  <1>7. days \in SUBSET Days
    OBVIOUS
  <1> HIDE DEF days
  <1>8. job' = [job EXCEPT ![d] = j]
    BY <1>1
  <1>9. j = Thread("flush", job[d].calls, job[d].rounds, job[d].requests, job[d].got, days)
    BY <1>2, ThreadAppended
  <1> HIDE DEF j
  <1>10. j \in Threads
    BY <1>2, <1>7, <1>9, ThreadIs, ThreadMade
  <1>11. /\ job'[d] = j /\ \A e \in specs : e # d => job'[e] = job[e]
         /\ job' \in [specs -> Threads \cup {Idle}]
    BY <1>1, <1>2, <1>8, <1>10, JobExcept
  <1>12. /\ job'[d].at = "flush" /\ job'[d].calls = job[d].calls /\ job'[d].rounds = job[d].rounds
         /\ job'[d].flushing = days
    BY <1>9, <1>11 DEF Thread
  <1>13. Types'
    BY <1>1, <1>2, <1>5, <1>11, TypesStay DEF Types
  <1>14. /\ CallsOK(d)' /\ RoundsOK(d)' /\ NothingTwice(d)' /\ Left(d)' = Left(d) /\ Task(d)' = Task(d)
         /\ Table(d)' = Table(d) /\ Working(d)'
    BY <1>1, <1>2, <1>12, SameRound DEF ThreadInv
  <1>15. FetchOK(d)'
    BY <1>12 DEF FetchOK, At
  <1>16. ASSUME NEW u \in specs, NEW c \in Cells(u), NEW least \in Nat, OnTheWay(d, u, c, least), least # 0
         PROVE  OnTheWay(d, u, c, least)'
    <2>1. CASE \E i \in DOMAIN job[d].rounds : i > 1 /\ InRound(job[d].rounds[i], u, c)
      BY <1>12, <2>1 DEF OnTheWay, InRound
    <2>2. CASE t = u /\ job[d].got[c] >= least
      <3>1. filled[c] >= least /\ filled[c] # 0
        BY <1>3, <1>4, <1>16, <2>2
      <3>2. c[1] \in days
        BY <2>2, <3>1, Cell DEF days
      <3> QED
        BY <1>5, <1>12, <1>14, <2>2, <3>1, <3>2 DEF OnTheWay, At, t
    <2> QED
      BY <1>1, <1>16, <2>1, <2>2 DEF OnTheWay, At, t
  <1>17. OwnOnTheWay(d)' /\ CalendarOnTheWay(d)'
    <2>1. OwnOnTheWay(d) /\ CalendarOnTheWay(d)
      BY <1>2 DEF ThreadInv
    <2> QED
      BY <1>1, <1>2, <1>6, <1>13, <1>14, <1>16, <2>1, RoundKeeps
  <1>18. Settled(d) => Settled(d)'
    BY <1>1, <1>2, <1>6, <1>13, <1>14, SettledAlone
  <1> QED
    BY <1>1, <1>2, <1>6, <1>11, <1>13, <1>14, <1>15, <1>17, <1>18, WorkKeeps DEF ThreadInv

LEMMA LeastDay ==
  ASSUME NEW S \in SUBSET Days, S # {}
  PROVE  Min(S) \in S
  <1>1. S \in SUBSET Nat
    BY DEF Days
  <1>2. \E n \in S : \A m \in S : n <= m
    BY <1>1, LeastNumber
  <1> QED
    BY <1>2 DEF Min

LEMMA FlushPartitionKeeps ==
  ASSUME SyncInv, NEW d \in specs, FlushPartition(d)
  PROVE  SyncInv'
  <1> DEFINE t == Table(d)
             day == Min(job[d].flushing)
             committed == Over(OnDay(day, buffer[t]), stored[t])
             kept == [c \in Cells(t) |-> IF c[1] = day THEN 0 ELSE buffer[t][c]]
  <1>1. /\ job[d].at = "flush" /\ At(d, "flush") /\ Working(d) /\ job[d].flushing # {}
        /\ stored' = [stored EXCEPT ![t] = committed]
        /\ buffer' = [buffer EXCEPT ![t] = kept]
        /\ job' = [job EXCEPT ![d].flushing = @ \ {day}]
        /\ UNCHANGED <<specs, source, marks, run, faults, pledged, covered>>
    BY DEF FlushPartition, At, Working, ghosts
  <1>2. /\ Types /\ Upstream /\ specs \in Specs /\ job[d] \in Threads /\ Running /\ ThreadInv(d) /\ t \in specs
        /\ run.mode # "none" /\ run.asked \in AllVersions
    BY <1>1, WorkingThread
  <1> HIDE DEF t
  <1>3. buffer[t] \in [Cells(t) -> 0 .. MaxVersion] /\ stored[t] \in [Cells(t) -> 0 .. MaxVersion] /\ MaxVersion \in Nat
    BY <1>2, Versions, DatasetFacts DEF Types
  <1> HIDE DEF day
  <1>4. /\ OnDay(day, buffer[t]) \in [Cells(t) -> 0 .. MaxVersion]
        /\ \A c \in Cells(t) : OnDay(day, buffer[t])[c] = IF c[1] = day THEN buffer[t][c] ELSE 0
    BY <1>3 DEF OnDay
  <1>5. /\ committed \in [Cells(t) -> 0 .. MaxVersion]
        /\ \A c \in Cells(t) : committed[c] = IF c[1] = day /\ buffer[t][c] # 0 THEN buffer[t][c] ELSE stored[t][c]
    BY <1>3, <1>4, OverIs
  <1> HIDE DEF committed
  <1>6. kept \in [Cells(t) -> 0 .. MaxVersion] /\ \A c \in Cells(t) : kept[c] = IF c[1] = day THEN 0 ELSE buffer[t][c]
    BY <1>3
  <1> HIDE DEF kept
  <1>7. /\ buffer' \in AllVersions /\ buffer'[t] = kept /\ \A e \in specs : e # t => buffer'[e] = buffer[e]
        /\ stored' \in AllVersions /\ stored'[t] = committed /\ \A e \in specs : e # t => stored'[e] = stored[e]
    <2>1. buffer \in AllVersions /\ stored \in AllVersions
      BY <1>2 DEF Types
    <2>2. buffer' \in AllVersions /\ buffer'[t] = kept /\ \A e \in specs : e # t => buffer'[e] = buffer[e]
      <3>1. t \in specs /\ kept \in [Cells(t) -> 0 .. MaxVersion] /\ buffer' = [buffer EXCEPT ![t] = kept]
        BY <1>1, <1>2, <1>6
      <3> QED
        BY <2>1, <3>1, VersionsExcept
    <2>3. stored' \in AllVersions /\ stored'[t] = committed /\ \A e \in specs : e # t => stored'[e] = stored[e]
      <3>1. t \in specs /\ committed \in [Cells(t) -> 0 .. MaxVersion] /\ stored' = [stored EXCEPT ![t] = committed]
        BY <1>1, <1>2, <1>5
      <3> QED
        BY <2>1, <3>1, VersionsExcept
    <2> QED
      BY <2>2, <2>3
  <1>8. AllFlow
    <2> SUFFICES ASSUME NEW u \in specs, NEW c \in Cells(u) PROVE Flows(u, c)
      BY DEF AllFlow
    <2>1. CASE u # t
      BY <1>7, <2>1 DEF Flows
    <2>2. CASE u = t
      BY <1>5, <1>6, <1>7, <2>2 DEF Flows
    <2> QED
      BY <2>1, <2>2
  <1> DEFINE j == [job[d] EXCEPT !.flushing = job[d].flushing \ {day}]
  <1>9. job' = [job EXCEPT ![d] = j]
    BY <1>1
  <1>10. j = Thread("flush", job[d].calls, job[d].rounds, job[d].requests, job[d].got, job[d].flushing \ {day})
    BY <1>1, <1>2, ThreadFlushed
  <1> HIDE DEF j
  <1>11. j \in Threads
    <2>1. job[d].flushing \ {day} \in SUBSET Days
      BY <1>2, ThreadIs
    <2> QED
      BY <1>2, <1>10, <2>1, ThreadIs, ThreadMade
  <1>12. /\ job'[d] = j /\ \A e \in specs : e # d => job'[e] = job[e]
         /\ job' \in [specs -> Threads \cup {Idle}]
    BY <1>1, <1>2, <1>9, <1>11, JobExcept
  <1>13. /\ job'[d].at = "flush" /\ job'[d].calls = job[d].calls /\ job'[d].rounds = job[d].rounds
         /\ job'[d].flushing = job[d].flushing \ {day}
    BY <1>10, <1>12 DEF Thread
  <1>14. Types'
    BY <1>1, <1>2, <1>7, <1>12, TypesStay DEF Types
  <1>15. /\ CallsOK(d)' /\ RoundsOK(d)' /\ NothingTwice(d)' /\ Left(d)' = Left(d) /\ Task(d)' = Task(d)
         /\ Table(d)' = Table(d) /\ Working(d)'
    BY <1>1, <1>2, <1>13, SameRound DEF ThreadInv
  <1>16. FetchOK(d)'
    BY <1>13 DEF FetchOK, At
  <1>17. ASSUME NEW u \in specs, NEW c \in Cells(u), NEW least \in Nat, OnTheWay(d, u, c, least), least # 0
         PROVE  OnTheWay(d, u, c, least)' \/ (stored'[u][c] >= least /\ stored'[u][c] # 0 /\ buffer'[u][c] = 0)
    <2>1. CASE \E i \in DOMAIN job[d].rounds : i > 1 /\ InRound(job[d].rounds[i], u, c)
      BY <1>13, <2>1 DEF OnTheWay, InRound
    <2>2. CASE t = u /\ buffer[u][c] >= least /\ c[1] \in job[d].flushing
      <3>1. CASE c[1] = day
        <4>1. buffer[u][c] # 0
          BY <1>2, <1>17, <2>2, Numbers
        <4> QED
          BY <1>5, <1>6, <1>7, <1>17, <2>2, <3>1, <4>1
      <3>2. CASE c[1] # day
        BY <1>6, <1>7, <1>13, <1>15, <2>2, <3>2 DEF OnTheWay, At, t
      <3> QED
        BY <3>1, <3>2
    <2> QED
      BY <1>1, <1>17, <2>1, <2>2 DEF OnTheWay, At, t
  <1>18. OwnOnTheWay(d)' /\ CalendarOnTheWay(d)'
    <2>1. OwnOnTheWay(d) /\ CalendarOnTheWay(d)
      BY <1>2 DEF ThreadInv
    <2> QED
      BY <1>1, <1>2, <1>8, <1>14, <1>15, <1>17, <2>1, RoundKeeps
  <1>19. Settled(d) => Settled(d)'
    BY <1>1, <1>2, <1>8, <1>14, <1>15, SettledAlone
  <1> QED
    BY <1>1, <1>2, <1>8, <1>12, <1>14, <1>15, <1>16, <1>18, <1>19, WorkKeeps DEF ThreadInv

-----------------------------------------------------------------------------
(* The end of a round and of a call. *)

\* Nothing is on the way of a thread that has committed its last round.
LEMMA AllBrought ==
  ASSUME SyncInv, NEW d \in specs, Working(d), ~At(d, "fetch"), At(d, "flush") => job[d].flushing = {},
         Len(job[d].rounds) = 1, NEW c \in Cells(d), Needs(Task(d), d, c)
  PROVE  Brought(d, c)
  <1>1. Brought(d, c) \/ OnTheWay(d, d, c, run.asked[d][c])
    BY WorkingThread DEF ThreadInv, OwnOnTheWay
  <1>2. ~ \E i \in DOMAIN job[d].rounds : i > 1
    <2>1. job[d].rounds \in Seq(RoundRecords) /\ job[d].rounds # <<>>
      BY WorkingThread
    <2>2. DOMAIN job[d].rounds = 1 .. 1
      BY <2>1, HeadTail
    <2> QED
      BY <2>2
  <1> QED
    BY <1>1, <1>2 DEF OnTheWay

LEMMA CallFields ==
  ASSUME NEW call \in CallRecords
  PROVE  call.first \in Days /\ call.last \in Days /\ call.first \in Int /\ call.last \in Int /\ call.marks \in Seq(Days \X Days)
  BY DEF CallRecords, Days

LEMMA CallDone ==
  ASSUME SyncInv, NEW d \in specs, Working(d), UNCHANGED <<specs, run>>, job'[d] = Calling(Tail(job[d].calls)),
         KindOf[d] # "snapshot" => covered'[d] \subseteq covered[d] \cup (Task(d).first .. Task(d).last)
  PROVE  /\ job'[d] \in Threads /\ Left(d)' = Tail(Left(d)) /\ ThreadInv(d)'
         /\ Left(d) \in Seq(CallRecords) /\ Left(d) # <<>> /\ Left(d)[1] = Task(d)
  <1>1. /\ ThreadInv(d) /\ Left(d) = job[d].calls /\ Left(d) \in Seq(CallRecords) /\ Left(d) # <<>> /\ Left(d)[1] = Task(d)
        /\ Types /\ Running /\ Task(d) \in CallRecords
    BY WorkingThread
  <1>2. /\ Tail(Left(d)) \in Seq(CallRecords) /\ DOMAIN Left(d) = 1 .. Len(Left(d)) /\ Len(Left(d)) \in Nat \ {0}
        /\ DOMAIN Tail(Left(d)) = 1 .. Len(Left(d)) - 1
        /\ \A i \in 1 .. Len(Left(d)) - 1 : Tail(Left(d))[i] = Left(d)[i + 1]
    BY <1>1, HeadTail
  <1>3. /\ job'[d] \in Threads /\ job'[d].at \in {"call", "done"} /\ job'[d].calls = Tail(Left(d))
        /\ (job'[d].at = "done" <=> Tail(Left(d)) = <<>>)
        /\ (IF job'[d].at \in {"call", "fetch", "flush", "mark"} THEN job'[d].calls ELSE <<>>) = Tail(Left(d))
    <2>1. PICK calls \in Seq(CallRecords) : calls = Tail(Left(d))
      BY <1>2
    <2>2. PICK j : j = job'[d]
      OBVIOUS
    <2>3. j = Calling(calls)
      BY <1>1, <2>1, <2>2
    <2>4. /\ j \in Threads /\ j.at \in {"call", "done"} /\ j.calls = calls /\ (j.at = "done" <=> calls = <<>>)
          /\ (IF j.at \in {"call", "fetch", "flush", "mark"} THEN j.calls ELSE <<>>) = calls
      BY ONLY <2>3, calls \in Seq(CallRecords), CallingIs
    <2> QED
      BY ONLY <2>1, <2>2, <2>4
  <1>4. Left(d)' = Tail(Left(d)) /\ ~Working(d)' /\ ~At(d, "fetch")' /\ (At(d, "call")' => job'[d].calls # <<>>)
    BY <1>3 DEF Left, Working, At
  <1>5. CallsOK(d)'
    <2> SUFFICES ASSUME NEW i \in DOMAIN Tail(Left(d))
                 PROVE  LET call == Tail(Left(d))[i] IN
                        /\ call.first <= call.last
                        /\ \A j \in DOMAIN call.marks : call.marks[j][1] <= call.marks[j][2]
                        /\ KindOf[d] # "snapshot" /\ call.marks # <<>> => call.marks = <<<<call.first, call.last>>>>
      BY <1>4 DEF CallsOK
    <2>1. i + 1 \in DOMAIN Left(d) /\ Tail(Left(d))[i] = Left(d)[i + 1]
      BY <1>2
    <2> QED
      BY <1>1, <2>1 DEF ThreadInv, CallsOK
  <1>6. NothingTwice(d)'
    <2> SUFFICES ASSUME Running, run.mode = "all", ~run.force, KindOf[d] # "snapshot"
                 PROVE  /\ \A i, j \in DOMAIN Tail(Left(d)) : i < j => Tail(Left(d))[i].last < Tail(Left(d))[j].first
                        /\ \A i \in DOMAIN Tail(Left(d)) : \A day \in Tail(Left(d))[i].first .. Tail(Left(d))[i].last :
                             day \notin covered'[d]
      BY <1>4 DEF NothingTwice, Running
    <2>1. /\ \A i, j \in DOMAIN Left(d) : i < j => Left(d)[i].last < Left(d)[j].first
          /\ \A i \in DOMAIN Left(d) : \A day \in Left(d)[i].first .. Left(d)[i].last : day \notin covered[d]
      BY <1>1 DEF ThreadInv, NothingTwice
    <2>2. ASSUME NEW i \in DOMAIN Tail(Left(d)), NEW j \in DOMAIN Tail(Left(d)), i < j
          PROVE  Tail(Left(d))[i].last < Tail(Left(d))[j].first
      BY <1>2, <2>1, <2>2
    <2>3. ASSUME NEW i \in DOMAIN Tail(Left(d)), NEW day \in Tail(Left(d))[i].first .. Tail(Left(d))[i].last
          PROVE  day \notin covered'[d]
      <3>1. i + 1 \in DOMAIN Left(d) /\ Tail(Left(d))[i] = Left(d)[i + 1] /\ 1 \in DOMAIN Left(d) /\ 1 < i + 1
        BY <1>2
      <3>2. Task(d).last < Left(d)[i + 1].first /\ day \notin covered[d]
        BY <1>1, <2>1, <3>1
      <3>3. Left(d)[i + 1] \in CallRecords
        BY <1>1, <3>1
      <3>4. Left(d)[i + 1].first \in Int /\ Left(d)[i + 1].last \in Int /\ Task(d).last \in Int /\ Task(d).first \in Int
        BY <1>1, <3>3, CallFields
      <3>5. day \notin Task(d).first .. Task(d).last
        BY <3>1, <3>2, <3>4
      <3> QED
        BY <3>2, <3>5
    <2> QED
      BY <2>2, <2>3
  <1> QED
    BY <1>1, <1>3, <1>4, <1>5, <1>6 DEF ThreadInv, RoundsOK, FetchOK, OwnOnTheWay, CalendarOnTheWay

LEMMA CallSettled ==
  ASSUME SyncInv, Types', Running, UNCHANGED <<specs, run>>, AllFlow, NEW d \in specs, Working(d),
         Left(d)' = Tail(Left(d)), \A c \in Cells(d) : Needs(Task(d), d, c) => Brought(d, c),
         covered[d] \cup DaysOf(Task(d).marks) \subseteq covered'[d], Settled(d)
  PROVE  Settled(d)'
  <1>1. /\ Types /\ Upstream /\ RunInv /\ run.mode # "none" /\ Left(d) \in Seq(CallRecords) /\ Left(d) # <<>>
        /\ Left(d)[1] = Task(d) /\ job[d].at # "failed"
    BY WorkingThread DEF SyncInv, Working
  <1>2. CalendarFirst /\ SameRequest /\ (Staged(d) => Staged(d)')
    BY <1>1 DEF RunInv, Running, SameRequest, Staged
  <1>3. /\ DOMAIN Left(d) = 1 .. Len(Left(d)) /\ Len(Left(d)) \in Nat \ {0}
        /\ DOMAIN Tail(Left(d)) = 1 .. Len(Left(d)) - 1
        /\ \A i \in 1 .. Len(Left(d)) - 1 : Tail(Left(d))[i] = Left(d)[i + 1]
    BY <1>1, HeadTail
  <1>4. \A i \in DOMAIN Left(d) : i = 1 \/ \E k \in DOMAIN Left(d)' : Left(d)'[k] = Left(d)[i]
    <2> SUFFICES ASSUME NEW i \in DOMAIN Left(d), i # 1 PROVE \E k \in DOMAIN Left(d)' : Left(d)'[k] = Left(d)[i]
      OBVIOUS
    <2>1. i - 1 \in DOMAIN Tail(Left(d)) /\ Tail(Left(d))[i - 1] = Left(d)[i]
      BY <1>3
    <2> QED
      BY <2>1
  <1>5. DaysLeft(d)' = UNION {DaysOf(Left(d)'[i].marks) : i \in DOMAIN Left(d)'}
    BY DEF DaysLeft, DaysOf
  <1>6. covered[d] \cup DaysLeft(d) \subseteq covered'[d] \cup DaysLeft(d)'
    <2> SUFFICES ASSUME NEW i \in DOMAIN Left(d), NEW day \in DaysOf(Left(d)[i].marks)
                 PROVE  day \in covered'[d] \cup DaysLeft(d)'
      BY DEF DaysLeft
    <2>1. CASE i = 1
      BY <1>1, <2>1
    <2>2. CASE i # 1
      BY <1>4, <1>5, <2>2
    <2> QED
      BY <2>1, <2>2
  <1>7. ASSUME NEW c \in Cells(d), NEW i \in DOMAIN Left(d), Needs(Left(d)[i], d, c)
        PROVE  Brought(d, c)' \/ \E k \in DOMAIN Left(d)' : Needs(Left(d)'[k], d, c)
    <2>1. CASE i = 1
      <3>1. Brought(d, c) /\ Flows(d, c)
        BY <1>1, <1>7, <2>1 DEF AllFlow
      <3> QED
        BY <1>1, <3>1, BroughtStays
    <2>2. CASE i # 1
      <3>1. PICK k \in DOMAIN Left(d)' : Left(d)'[k] = Left(d)[i]
        BY <1>4, <2>2
      <3> QED
        BY <1>7, <3>1
    <2> QED
      BY <2>1, <2>2
  <1> QED
    BY <1>1, <1>2, <1>6, <1>7, SettledStays

LEMMA WroteKeeps ==
  ASSUME SyncInv, NEW d \in specs, Wrote(d)
  PROVE  SyncInv'
  <1> DEFINE rounds == Tail(job[d].rounds)
  <1>1. /\ job[d].at = "flush" /\ At(d, "flush") /\ Working(d) /\ job[d].flushing = {} /\ ~At(d, "fetch")
        /\ job' = [job EXCEPT ![d] = IF rounds # <<>> THEN Begin(@, rounds)
                                     ELSE IF Head(@.calls).marks # <<>> THEN [@ EXCEPT !.at = "mark"]
                                     ELSE Calling(Tail(@.calls))]
        /\ UNCHANGED <<specs, source, stored, marks, buffer, run, faults, pledged, covered>>
    BY DEF Wrote, At, Working, disk, ghosts
  <1>2. /\ Types /\ Upstream /\ specs \in Specs /\ job[d] \in Threads /\ Running /\ ThreadInv(d)
        /\ run.mode # "none" /\ run.asked \in AllVersions
        /\ Left(d) = job[d].calls /\ job[d].calls # <<>> /\ job[d].calls \in Seq(CallRecords)
        /\ job[d].rounds \in Seq(RoundRecords) /\ job[d].rounds # <<>>
    BY <1>1, WorkingThread
  <1>3. /\ rounds \in Seq(RoundRecords) /\ DOMAIN rounds = 1 .. Len(job[d].rounds) - 1
        /\ DOMAIN job[d].rounds = 1 .. Len(job[d].rounds) /\ Len(job[d].rounds) \in Nat \ {0}
        /\ \A i \in 1 .. Len(job[d].rounds) - 1 : rounds[i] = job[d].rounds[i + 1]
        /\ rounds = <<>> <=> Len(job[d].rounds) = 1
    BY <1>2, HeadTail
  <1> HIDE DEF rounds
  <1>4. AllFlow
    BY <1>1 DEF AllFlow, Flows
  <1> DEFINE j == IF rounds # <<>> THEN Begin(job[d], rounds)
                  ELSE IF Task(d).marks # <<>> THEN [job[d] EXCEPT !.at = "mark"]
                  ELSE Calling(Tail(job[d].calls))
  <1>5. job' = [job EXCEPT ![d] = j]
    BY <1>1 DEF Task
  <1>6. j \in Threads
    <2>1. CASE rounds # <<>>
      BY <1>2, <1>3, <2>1, BeginIs
    <2>2. CASE rounds = <<>> /\ Task(d).marks # <<>>
      <3>1. [job[d] EXCEPT !.at = "mark"] = Thread("mark", job[d].calls, job[d].rounds, job[d].requests, job[d].got, job[d].flushing)
        BY <1>2, ThreadAt
      <3> QED
        BY <1>2, <2>2, <3>1, ThreadIs, ThreadMade
    <2>3. CASE rounds = <<>> /\ Task(d).marks = <<>>
      BY <1>2, <2>3, HeadTail, CallingIs
    <2> QED
      BY <2>1, <2>2, <2>3
  <1> HIDE DEF j
  <1>7. /\ job'[d] = j /\ \A e \in specs : e # d => job'[e] = job[e]
        /\ job' \in [specs -> Threads \cup {Idle}]
    BY <1>1, <1>2, <1>5, <1>6, JobExcept
  <1>8. Types'
    BY <1>1, <1>2, <1>7, TypesStay DEF Types
  <1>9. ThreadInv(d)' /\ (Settled(d) => Settled(d)')
    <2>1. CASE rounds # <<>>
      <3>1. job'[d] = Begin(job[d], rounds)
        BY <1>7, <2>1 DEF j
      <3>2. \A i \in DOMAIN rounds :
              /\ rounds[i].table = d \/ (rounds[i].table = Calendar /\ Traded(d))
              /\ rounds[i].table = d /\ KindOf[d] # "snapshot" => Task(d).first <= rounds[i].first /\ rounds[i].last <= Task(d).last
              /\ rounds[i].table = Calendar => \A k \in 1 .. i : rounds[k].table = Calendar
        <4> SUFFICES ASSUME NEW i \in DOMAIN rounds
                     PROVE  /\ rounds[i].table = d \/ (rounds[i].table = Calendar /\ Traded(d))
                            /\ rounds[i].table = d /\ KindOf[d] # "snapshot" => Task(d).first <= rounds[i].first /\ rounds[i].last <= Task(d).last
                            /\ rounds[i].table = Calendar => \A k \in 1 .. i : rounds[k].table = Calendar
          OBVIOUS
        <4>1. i + 1 \in DOMAIN job[d].rounds /\ \A k \in 1 .. i : k + 1 \in 1 .. i + 1 /\ rounds[k] = job[d].rounds[k + 1]
          BY <1>3
        <4>2. rounds[i] = job[d].rounds[i + 1]
          BY <1>3
        <4>3. LET round == job[d].rounds[i + 1] IN
              /\ round.table = d \/ (round.table = Calendar /\ Traded(d))
              /\ round.table = d /\ KindOf[d] # "snapshot" => Task(d).first <= round.first /\ round.last <= Task(d).last
              /\ round.table = Calendar => \A k \in 1 .. i + 1 : job[d].rounds[k].table = Calendar
          BY <1>1, <1>2, <4>1 DEF ThreadInv, RoundsOK
        <4> QED
          BY <4>1, <4>2, <4>3
      <3>3. ASSUME NEW t \in specs, NEW c \in Cells(t), NEW least, OnTheWay(d, t, c, least)
            PROVE  \E i \in DOMAIN rounds : InRound(rounds[i], t, c)
        <4>1. PICK i \in DOMAIN job[d].rounds : i > 1 /\ InRound(job[d].rounds[i], t, c)
          BY <1>1, <3>3 DEF OnTheWay
        <4>2. i - 1 \in DOMAIN rounds /\ rounds[i - 1] = job[d].rounds[i]
          BY <1>3, <4>1
        <4> QED
          BY <4>1, <4>2
      <3>4. \A c \in Cells(d) : Needs(Task(d), d, c) => Brought(d, c) \/ \E i \in DOMAIN rounds : InRound(rounds[i], d, c)
        BY <1>1, <1>2, <3>3 DEF ThreadInv, OwnOnTheWay
      <3>5. Traded(d) => \A c \in Cells(Calendar) : c[1] \in Task(d).first .. Task(d).last /\ run.asked[Calendar][c] # 0 =>
              stored[Calendar][c] # 0 \/ \E i \in DOMAIN rounds : InRound(rounds[i], Calendar, c)
        BY <1>1, <1>2, <3>3, DatasetFacts DEF ThreadInv, CalendarOnTheWay
      <3>6. CallsOK(d)
        BY <1>2 DEF ThreadInv
      <3>7. /\ CallsOK(d)' /\ RoundsOK(d)' /\ FetchOK(d)' /\ OwnOnTheWay(d)' /\ CalendarOnTheWay(d)' /\ Left(d)' = Left(d)
        BY <1>1, <1>2, <1>3, <2>1, <3>1, <3>2, <3>4, <3>5, <3>6, BeginKeeps
      <3>8. NothingTwice(d)'
        BY <1>1, <1>2, <3>7, NothingTwiceStays DEF ThreadInv
      <3>9. Settled(d) => Settled(d)'
        BY <1>1, <1>2, <1>4, <1>8, <3>7, SettledAlone
      <3> QED
        BY <3>7, <3>8, <3>9 DEF ThreadInv
    <2>2. CASE rounds = <<>> /\ Task(d).marks # <<>>
      <3>1. job'[d] = Thread("mark", job[d].calls, job[d].rounds, job[d].requests, job[d].got, job[d].flushing)
        BY <1>2, <1>7, <2>2, ThreadAt DEF j
      <3>2. /\ job'[d].at = "mark" /\ job'[d].calls = job[d].calls /\ job'[d].rounds = job[d].rounds
        BY <3>1 DEF Thread
      <3>3. /\ Left(d)' = Left(d) /\ Task(d)' = Task(d) /\ At(d, "mark")' /\ ~At(d, "call")' /\ ~At(d, "fetch")'
            /\ Working(d)'
        BY <1>2, <3>2 DEF Left, Task, At, Working
      <3>4. CallsOK(d)'
        BY <1>2, <3>3 DEF ThreadInv, CallsOK
      <3>5. RoundsOK(d)'
        BY <1>1, <1>2, <1>3, <2>2, <3>2, <3>3 DEF ThreadInv, RoundsOK
      <3>6. OwnOnTheWay(d)'
        <4>1. \A c \in Cells(d) : Needs(Task(d), d, c) => Brought(d, c)
          BY <1>1, <1>3, <2>2, AllBrought
        <4> QED
          BY <1>1, <3>3, <4>1 DEF OwnOnTheWay, Brought, Needs, Cells
      <3>7. CalendarOnTheWay(d)'
        <4>1. ASSUME Traded(d), NEW c \in Cells(Calendar), c[1] \in Task(d).first .. Task(d).last, run.asked[Calendar][c] # 0
              PROVE  stored[Calendar][c] # 0
          <5>1. stored[Calendar][c] # 0 \/ OnTheWay(d, Calendar, c, 1)
            BY <1>1, <1>2, <4>1 DEF ThreadInv, CalendarOnTheWay
          <5>2. ~ \E i \in DOMAIN job[d].rounds : i > 1
            BY <1>3, <2>2
          <5> QED
            BY <1>1, <5>1, <5>2 DEF OnTheWay
        <4> QED
          BY <1>1, <3>3, <4>1 DEF CalendarOnTheWay, Cells
      <3>8. NothingTwice(d)'
        BY <1>1, <1>2, <3>3, NothingTwiceStays DEF ThreadInv
      <3>9. Settled(d) => Settled(d)'
        BY <1>1, <1>2, <1>4, <1>8, <3>3, SettledAlone
      <3> QED
        BY <3>3, <3>4, <3>5, <3>6, <3>7, <3>8, <3>9 DEF ThreadInv, FetchOK
    <2>3. CASE rounds = <<>> /\ Task(d).marks = <<>>
      <3>1. job'[d] = Calling(Tail(job[d].calls))
        BY <1>7, <2>3 DEF j
      <3>2. ThreadInv(d)' /\ Left(d)' = Tail(Left(d))
        BY <1>1, <3>1, CallDone
      <3>3. \A c \in Cells(d) : Needs(Task(d), d, c) => Brought(d, c)
        BY <1>1, <1>3, <2>3, AllBrought
      <3>4. DaysOf(Task(d).marks) = {}
        BY <2>3 DEF DaysOf
      <3>5. Settled(d) => Settled(d)'
        BY <1>1, <1>2, <1>4, <1>8, <3>2, <3>3, <3>4, CallSettled
      <3> QED
        BY <3>2, <3>5
    <2> QED
      BY <2>1, <2>2, <2>3
  <1> QED
    BY <1>1, <1>2, <1>4, <1>7, <1>8, <1>9, WorkKeeps

-----------------------------------------------------------------------------
(* A range is marked. *)

\* Ranges that lie apart and stand for days of the calendar begin and end on them.
LEMMA RangesOfDays ==
  ASSUME NEW rs, Apart(rs), DaysOf(rs) \subseteq Days
  PROVE  rs \in Seq(Days \X Days)
  <1>1. rs \in Seq(Int \X Int) /\ \A i \in DOMAIN rs : rs[i][1] <= rs[i][2]
    BY DEF Apart
  <1>2. \A i \in DOMAIN rs : rs[i] \in Int \X Int
    BY <1>1
  <1>3. ASSUME NEW i \in DOMAIN rs PROVE rs[i] \in Days \X Days
    <2>1. rs[i][1] \in Int /\ rs[i][2] \in Int /\ rs[i] = <<rs[i][1], rs[i][2]>> /\ rs[i][1] <= rs[i][2]
      BY <1>1, <1>2, <1>3
    <2>2. rs[i][1] \in rs[i][1] .. rs[i][2] /\ rs[i][2] \in rs[i][1] .. rs[i][2]
      BY <2>1
    <2>3. rs[i][1] \in DaysOf(rs) /\ rs[i][2] \in DaysOf(rs)
      BY <1>3, <2>2 DEF DaysOf
    <2> QED
      BY <2>1, <2>3
  <1> QED
    BY <1>1, <1>3, SequenceInto

LEMMA MarkedIs ==
  ASSUME NEW m, Apart(m), NEW r \in Days \X Days, r[1] <= r[2], DaysOf(m) \subseteq Days
  PROVE  LET n == MergeDateRanges(Append(m, r))
         IN  Apart(n) /\ DaysOf(n) = DaysOf(m) \cup (r[1] .. r[2]) /\ n \in Seq(Days \X Days)
  <1> DEFINE a == Append(m, r)
             n == MergeDateRanges(a)
  <1>1. /\ m \in Seq(Int \X Int) /\ \A i \in DOMAIN m : m[i][1] <= m[i][2]
        /\ r \in Int \X Int /\ r[1] \in Days /\ r[2] \in Days
    BY DEF Apart, Days
  <1>2. /\ a \in Seq(Int \X Int) /\ DOMAIN a = 1 .. Len(m) + 1 /\ DOMAIN m = 1 .. Len(m) /\ Len(m) \in Nat
        /\ \A i \in 1 .. Len(m) : a[i] = m[i]
        /\ a[Len(m) + 1] = r
    BY <1>1, Appending
  <1> HIDE DEF a
  <1>3. \A i \in DOMAIN a : a[i][1] <= a[i][2]
    <2> SUFFICES ASSUME NEW i \in DOMAIN a PROVE a[i][1] <= a[i][2]
      OBVIOUS
    <2>1. i = Len(m) + 1 \/ (i \in DOMAIN m /\ a[i] = m[i])
      BY <1>2
    <2>2. CASE i = Len(m) + 1
      BY <1>2, <2>2
    <2>3. CASE i \in DOMAIN m /\ a[i] = m[i]
      BY <1>1, <2>3
    <2> QED
      BY <2>1, <2>2, <2>3
  <1>4. Apart(n) /\ DaysOf(n) = DaysOf(a)
    BY <1>2, <1>3, MergeIs
  <1>5. DaysOf(a) = DaysOf(m) \cup (r[1] .. r[2])
    <2>1. \A day : day \in DaysOf(a) <=> \E i \in DOMAIN a : day \in a[i][1] .. a[i][2]
      BY DEF DaysOf
    <2>2. \A day : day \in DaysOf(m) <=> \E i \in DOMAIN m : day \in m[i][1] .. m[i][2]
      BY DEF DaysOf
    <2>3. ASSUME NEW day \in DaysOf(a) PROVE day \in DaysOf(m) \cup (r[1] .. r[2])
      <3>1. PICK i \in DOMAIN a : day \in a[i][1] .. a[i][2]
        BY <2>1
      <3>2. i = Len(m) + 1 \/ i \in 1 .. Len(m)
        BY <1>2
      <3> QED
        BY <1>2, <2>2, <3>1, <3>2
    <2>4. ASSUME NEW day \in DaysOf(m) PROVE day \in DaysOf(a)
      <3>1. PICK i \in DOMAIN m : day \in m[i][1] .. m[i][2]
        BY <2>2
      <3>2. i \in DOMAIN a /\ a[i] = m[i]
        BY <1>2
      <3> QED
        BY <2>1, <3>1, <3>2
    <2>5. Len(m) + 1 \in DOMAIN a
      BY <1>2
    <2> QED
      BY <1>2, <2>1, <2>3, <2>4, <2>5
  <1>6. r[1] .. r[2] \subseteq Days
    BY <1>1, DatasetsAssumption DEF Days
  <1>7. n \in Seq(Days \X Days)
    BY <1>4, <1>5, <1>6, RangesOfDays
  <1> QED
    BY <1>4, <1>5, <1>7 DEF a

\* What a call still has to mark, without the first of its ranges.
LEMMA MarksLeft ==
  ASSUME NEW call \in CallRecords, call.marks # <<>>
  PROVE  /\ Head(call.marks) \in Days \X Days /\ Head(call.marks) = call.marks[1] /\ 1 \in DOMAIN call.marks
         /\ Tail(call.marks) \in Seq(Days \X Days)
         /\ DaysOf(call.marks) = (Head(call.marks)[1] .. Head(call.marks)[2]) \cup DaysOf(Tail(call.marks))
         /\ \A i \in DOMAIN Tail(call.marks) : i + 1 \in DOMAIN call.marks /\ Tail(call.marks)[i] = call.marks[i + 1]
         /\ \A x : call.marks = <<x>> => Tail(call.marks) = <<>> /\ Head(call.marks) = x
  <1> DEFINE m == call.marks
             n == Tail(m)
  <1>1. /\ m \in Seq(Days \X Days) /\ m # <<>>
    BY CallFields
  <1>2. /\ DOMAIN m = 1 .. Len(m) /\ Len(m) \in Nat \ {0} /\ Head(m) = m[1] /\ Head(m) \in Days \X Days
        /\ n \in Seq(Days \X Days) /\ DOMAIN n = 1 .. Len(m) - 1
        /\ \A i \in 1 .. Len(m) - 1 : n[i] = m[i + 1]
        /\ n = <<>> <=> Len(m) = 1
    <2> HIDE DEF m
    <2> QED
      BY <1>1, HeadTail
  <1> HIDE DEF m, n
  <1>3. DaysOf(m) = (Head(m)[1] .. Head(m)[2]) \cup DaysOf(n)
    <2>1. \A day : day \in DaysOf(m) <=> \E i \in DOMAIN m : day \in m[i][1] .. m[i][2]
      BY DEF DaysOf
    <2>2. \A day : day \in DaysOf(n) <=> \E i \in DOMAIN n : day \in n[i][1] .. n[i][2]
      BY DEF DaysOf
    <2>3. ASSUME NEW day \in DaysOf(m) PROVE day \in (Head(m)[1] .. Head(m)[2]) \cup DaysOf(n)
      <3>1. PICK i \in DOMAIN m : day \in m[i][1] .. m[i][2]
        BY <2>1
      <3>2. i = 1 \/ (i - 1 \in DOMAIN n /\ n[i - 1] = m[i])
        BY <1>2
      <3> QED
        BY <1>2, <2>2, <3>1, <3>2
    <2>4. ASSUME NEW day \in DaysOf(n) PROVE day \in DaysOf(m)
      <3>1. PICK i \in DOMAIN n : day \in n[i][1] .. n[i][2]
        BY <2>2
      <3>2. i + 1 \in DOMAIN m /\ n[i] = m[i + 1]
        BY <1>2
      <3> QED
        BY <2>1, <3>1, <3>2
    <2>5. 1 \in DOMAIN m
      BY <1>2
    <2> QED
      BY <1>2, <2>1, <2>3, <2>4, <2>5
  <1>4. \A i \in DOMAIN n : i + 1 \in DOMAIN m /\ n[i] = m[i + 1]
    BY <1>2
  <1>5. \A x : m = <<x>> => n = <<>> /\ Head(m) = x
    BY <1>2
  <1> QED
    BY <1>2, <1>3, <1>4, <1>5 DEF m, n

LEMMA MarkKeeps ==
  ASSUME SyncInv, NEW d \in specs, Mark(d)
  PROVE  SyncInv'
  <1> DEFINE call == Task(d)
             range == Head(call.marks)
             days == range[1] .. range[2]
             rest == Tail(call.marks)
             vouched == [c \in Cells(d) |->
                           IF c[1] \in days \/ KindOf[d] = "snapshot" THEN Later(pledged[d][c], run.asked[d][c]) ELSE pledged[d][c]]
             shorter == <<[call EXCEPT !.marks = rest]>> \o Tail(job[d].calls)
             j == IF rest = <<>> THEN Calling(Tail(job[d].calls)) ELSE [job[d] EXCEPT !.calls = shorter]
  <1>1. /\ job[d].at = "mark" /\ At(d, "mark") /\ Working(d) /\ ~At(d, "fetch") /\ ~At(d, "flush")
        /\ marks' = [marks EXCEPT ![d] = MergeDateRanges(Append(@, range))]
        /\ covered' = [covered EXCEPT ![d] = @ \cup days]
        /\ pledged' = [pledged EXCEPT ![d] = vouched]
        /\ job' = [job EXCEPT ![d] = j]
        /\ UNCHANGED <<specs, source, stored, buffer, run, faults>>
    <2>1. job[d].at = "mark" /\ At(d, "mark") /\ Working(d) /\ ~At(d, "fetch") /\ ~At(d, "flush")
      BY DEF Mark, At, Working
    <2>2. marks' = [marks EXCEPT ![d] = MergeDateRanges(Append(@, range))] /\ covered' = [covered EXCEPT ![d] = @ \cup days]
      BY DEF Mark, Task
    <2>3. pledged' = [pledged EXCEPT ![d] = vouched]
      BY DEF Mark, Task
    <2>4. job' = [job EXCEPT ![d] = j]
      BY DEF Mark, Task
    <2>5. UNCHANGED <<specs, source, stored, buffer, run, faults>>
      BY DEF Mark
    <2> QED
      BY <2>1, <2>2, <2>3, <2>4, <2>5
  <1>2. /\ Types /\ Upstream /\ specs \in Specs /\ job[d] \in Threads /\ Running /\ ThreadInv(d)
        /\ run.mode # "none" /\ run.asked \in AllVersions
        /\ Left(d) = job[d].calls /\ job[d].calls # <<>> /\ job[d].calls \in Seq(CallRecords)
        /\ Left(d)[1] = call /\ 1 \in DOMAIN Left(d) /\ call \in CallRecords
        /\ job[d].rounds \in Seq(RoundRecords) /\ job[d].rounds # <<>>
    BY <1>1, WorkingThread
  <1>3. /\ Len(job[d].rounds) = 1 /\ call.marks # <<>>
        /\ \A i \in DOMAIN call.marks : call.marks[i][1] <= call.marks[i][2]
        /\ KindOf[d] # "snapshot" => call.marks = <<<<call.first, call.last>>>>
    BY <1>1, <1>2 DEF ThreadInv, RoundsOK, CallsOK
  <1> HIDE DEF call
  <1>4. /\ range \in Days \X Days /\ range = call.marks[1] /\ 1 \in DOMAIN call.marks /\ rest \in Seq(Days \X Days)
        /\ DaysOf(call.marks) = days \cup DaysOf(rest)
        /\ \A i \in DOMAIN rest : i + 1 \in DOMAIN call.marks /\ rest[i] = call.marks[i + 1]
        /\ KindOf[d] # "snapshot" => rest = <<>> /\ range = <<call.first, call.last>>
    BY <1>2, <1>3, MarksLeft
  <1> HIDE DEF range, rest
  <1>5. range[1] <= range[2] /\ days \subseteq Days /\ range[1] \in Days /\ range[2] \in Days
    BY <1>3, <1>4, DatasetsAssumption DEF Days
  <1>6. KindOf[d] # "snapshot" => days = call.first .. call.last
    BY <1>4
  <1> HIDE DEF days
  <1>7. \A c \in Cells(d) : Needs(call, d, c) => Brought(d, c)
    BY <1>1, <1>3, AllBrought DEF call
  <1>8. \A c \in Cells(d) : c[1] \in days \/ KindOf[d] = "snapshot" => stored[d][c] >= run.asked[d][c]
                              /\ (buffer[d][c] # 0 => buffer[d][c] >= run.asked[d][c])
    BY <1>6, <1>7 DEF Needs, Brought
  \* The checkpoint.
  <1>9. Apart(marks[d]) /\ DaysOf(marks[d]) = covered[d] /\ covered[d] \subseteq Days /\ Checkpoints
    BY <1>2 DEF SyncInv, Checkpoints, Types
  <1>10. /\ Apart(MergeDateRanges(Append(marks[d], range)))
         /\ DaysOf(MergeDateRanges(Append(marks[d], range))) = covered[d] \cup days
         /\ MergeDateRanges(Append(marks[d], range)) \in Seq(Days \X Days)
    BY <1>4, <1>5, <1>9, MarkedIs DEF days
  <1>11. /\ marks' \in [specs -> Seq(Days \X Days)] /\ covered' \in [specs -> SUBSET Days]
         /\ Apart(marks'[d]) /\ DaysOf(marks'[d]) = covered'[d] /\ covered'[d] = covered[d] \cup days
         /\ \A e \in specs : e # d => marks'[e] = marks[e] /\ covered'[e] = covered[e]
    <2>1. PICK m \in Seq(Days \X Days) : m = MergeDateRanges(Append(marks[d], range))
      BY <1>10
    <2>2. marks' = [marks EXCEPT ![d] = m] /\ Apart(m) /\ DaysOf(m) = covered[d] \cup days
      BY <1>1, <1>10, <2>1
    <2>3. marks \in [specs -> Seq(Days \X Days)] /\ covered \in [specs -> SUBSET Days] /\ covered' = [covered EXCEPT ![d] = @ \cup days]
      BY <1>1, <1>2 DEF Types
    <2>4. marks' \in [specs -> Seq(Days \X Days)] /\ marks'[d] = m /\ \A e \in specs : e # d => marks'[e] = marks[e]
      BY <2>2, <2>3
    <2>5. /\ covered' \in [specs -> SUBSET Days] /\ covered'[d] = covered[d] \cup days
          /\ \A e \in specs : e # d => covered'[e] = covered[e]
      BY <1>5, <2>3
    <2> QED
      BY <2>2, <2>4, <2>5
  <1>12. Checkpoints'
    <2> SUFFICES ASSUME NEW e \in specs PROVE Apart(marks'[e]) /\ DaysOf(marks'[e]) = covered'[e]
      BY <1>1 DEF Checkpoints, Apart, DaysOf
    <2> QED
      BY <1>9, <1>11 DEF Checkpoints
  \* What is vouched for.
  <1>13. /\ vouched \in [Cells(d) -> 0 .. MaxVersion]
         /\ \A c \in Cells(d) : vouched[c] = IF c[1] \in days \/ KindOf[d] = "snapshot" THEN run.asked[d][c] ELSE pledged[d][c]
    <2>1. \A c \in Cells(d) : /\ pledged[d][c] \in 0 .. MaxVersion /\ run.asked[d][c] \in 0 .. MaxVersion
                              /\ pledged[d][c] <= run.asked[d][c]
      BY <1>2, Versions DEF Types, Upstream
    <2>2. \A c \in Cells(d) : Later(pledged[d][c], run.asked[d][c]) = run.asked[d][c]
      BY <2>1 DEF Later
    <2> QED
      BY <2>1, <2>2
  <1> HIDE DEF vouched
  <1>14. /\ pledged' \in AllVersions /\ pledged'[d] = vouched /\ \A e \in specs : e # d => pledged'[e] = pledged[e]
    <2>1. pledged \in AllVersions /\ vouched \in [Cells(d) -> 0 .. MaxVersion] /\ pledged' = [pledged EXCEPT ![d] = vouched]
      BY <1>1, <1>2, <1>13 DEF Types
    <2> QED
      BY <2>1, VersionsExcept
  <1>15. Upstream'
    <2>1. \A e \in specs : \A c \in Cells(e) : pledged'[e][c] <= run.asked[e][c] /\ pledged'[e][c] <= source[e][c]
      <3> SUFFICES ASSUME NEW e \in specs, NEW c \in Cells(e)
                   PROVE  pledged'[e][c] <= run.asked[e][c] /\ pledged'[e][c] <= source[e][c]
        OBVIOUS
      <3>1. /\ pledged[e][c] <= run.asked[e][c] /\ run.asked[e][c] <= source[e][c]
            /\ pledged[e][c] \in Nat /\ run.asked[e][c] \in Nat /\ source[e][c] \in Nat
        BY <1>2, Numbers DEF Upstream
      <3> QED
        BY <1>13, <1>14, <3>1
    <2>2. /\ \A e \in specs : \A c \in Cells(e) :
               Traded(e) /\ source[e][c] # 0 => c[1] \in OpenDays /\ \E x \in PartsOf[Calendar] : source[Calendar][<<c[1], x>>] # 0
          /\ \A e \in specs : \A c \in Cells(e) :
               /\ run.asked[e][c] <= source[e][c]
               /\ Traded(e) /\ run.asked[e][c] # 0 =>
                    c[1] \in OpenDays /\ \E x \in PartsOf[Calendar] : run.asked[Calendar][<<c[1], x>>] # 0
      BY <1>2 DEF Upstream
    <2> QED
      BY <1>1, <2>1, <2>2 DEF Upstream, Cells, Traded
  <1>16. Pledges'
    <2> SUFFICES ASSUME NEW e \in specs, NEW c \in Cells(e)
                 PROVE  stored[e][c] >= pledged'[e][c] /\ (buffer[e][c] # 0 => buffer[e][c] >= pledged'[e][c])
      BY <1>1 DEF Pledges, Cells
    <2>1. stored[e][c] >= pledged[e][c] /\ (buffer[e][c] # 0 => buffer[e][c] >= pledged[e][c])
      BY DEF SyncInv, Pledges
    <2> QED
      BY <1>8, <1>13, <1>14, <2>1
  \* The thread.
  <1>17. AllFlow
    BY <1>1 DEF AllFlow, Flows
  <1>18. rest # <<>> => /\ KindOf[d] = "snapshot" /\ shorter \in Seq(CallRecords) /\ shorter # <<>> /\ DOMAIN shorter = DOMAIN Left(d)
                        /\ shorter[1].first = call.first /\ shorter[1].last = call.last /\ shorter[1].marks = rest
                        /\ Head(shorter) = shorter[1]
                        /\ \A i \in DOMAIN Left(d) : i # 1 => shorter[i] = Left(d)[i]
    <2> DEFINE first == [call EXCEPT !.marks = rest]
               others == Tail(job[d].calls)
    <2>1. first \in CallRecords /\ first.first = call.first /\ first.last = call.last /\ first.marks = rest
      BY <1>2, <1>4 DEF CallRecords
    <2>2. /\ others \in Seq(CallRecords) /\ DOMAIN others = 1 .. Len(Left(d)) - 1 /\ Len(others) = Len(Left(d)) - 1
          /\ DOMAIN Left(d) = 1 .. Len(Left(d)) /\ Len(Left(d)) \in Nat \ {0}
          /\ \A i \in 1 .. Len(Left(d)) - 1 : others[i] = Left(d)[i + 1]
      BY <1>2, HeadTail
    <2> HIDE DEF first, others
    <2>3. /\ shorter = <<first>> \o others
      BY DEF first, others
    <2>4. /\ shorter \in Seq(CallRecords) /\ Len(shorter) = 1 + Len(others) /\ shorter[1] = first
          /\ \A i \in 1 .. Len(others) : shorter[1 + i] = others[i]
      <3> HIDE DEF shorter
      <3> QED
        BY <2>1, <2>2, <2>3
    <2> HIDE DEF shorter
    <2>5. shorter # <<>> /\ DOMAIN shorter = 1 .. Len(Left(d)) /\ Head(shorter) = shorter[1]
      BY <2>2, <2>4
    <2>6. \A i \in DOMAIN Left(d) : i # 1 => shorter[i] = Left(d)[i]
      <3> SUFFICES ASSUME NEW i \in DOMAIN Left(d), i # 1 PROVE shorter[i] = Left(d)[i]
        OBVIOUS
      <3>1. i - 1 \in 1 .. Len(others) /\ 1 + (i - 1) = i /\ (i - 1) + 1 = i
        BY <2>2
      <3> QED
        BY <2>2, <2>4, <3>1
    <2> QED
      BY <1>4, <2>1, <2>2, <2>4, <2>5, <2>6
  <1> HIDE DEF shorter
  <1>19. j \in Threads
    <2>1. CASE rest = <<>>
      BY <1>2, <2>1, HeadTail, CallingIs
    <2>2. CASE rest # <<>>
      <3>1. job[d] \in Threads /\ shorter \in Seq(CallRecords)
        BY <1>2, <1>18, <2>2
      <3>2. j = [job[d] EXCEPT !.calls = shorter]
        BY <2>2
      <3>3. j = Thread(job[d].at, shorter, job[d].rounds, job[d].requests, job[d].got, job[d].flushing)
        BY <3>1, <3>2, ThreadCalls, Zenon
      <3>4. /\ job[d].at \in {"call", "fetch", "flush", "mark", "done", "failed"} /\ job[d].rounds \in Seq(RoundRecords)
            /\ job[d].requests \in SUBSET SUBSET (Int \X AllParts) /\ job[d].got \in Fetched /\ job[d].flushing \in SUBSET Days
        BY <3>1, ThreadIs
      <3>5. Thread(job[d].at, shorter, job[d].rounds, job[d].requests, job[d].got, job[d].flushing) \in Threads
        BY <3>1, <3>4, ThreadMade
      <3> QED
        BY <3>3, <3>5, Zenon
    <2> QED
      BY <2>1, <2>2
  <1> HIDE DEF j
  <1>20. /\ job'[d] = j /\ \A e \in specs : e # d => job'[e] = job[e]
         /\ job' \in [specs -> Threads \cup {Idle}]
    BY <1>1, <1>2, <1>19, JobExcept
  <1>21. Types'
    BY <1>1, <1>2, <1>11, <1>14, <1>20, TypesStay DEF Types
  <1>22. ThreadInv(d)' /\ (Settled(d) => Settled(d)')
    <2>1. CASE rest = <<>>
      <3>1. job'[d] = Calling(Tail(job[d].calls))
        BY <1>20, <2>1 DEF j
      <3>2. ThreadInv(d)' /\ Left(d)' = Tail(Left(d))
        <4>1. KindOf[d] # "snapshot" => covered'[d] \subseteq covered[d] \cup (Task(d).first .. Task(d).last)
          BY <1>6, <1>11 DEF call
        <4> QED
          BY <1>1, <3>1, <4>1, CallDone
      <3>3. \A c \in Cells(d) : Needs(Task(d), d, c) => Brought(d, c)
        BY <1>7 DEF call
      <3>4. covered[d] \cup DaysOf(Task(d).marks) \subseteq covered'[d]
        BY <1>4, <1>11, <2>1 DEF call, DaysOf
      <3>5. Settled(d) => Settled(d)'
        BY <1>1, <1>2, <1>17, <1>21, <3>2, <3>3, <3>4, CallSettled
      <3> QED
        BY <3>2, <3>5
    <2>2. CASE rest # <<>>
      <3>1. job'[d] = Thread("mark", shorter, job[d].rounds, job[d].requests, job[d].got, job[d].flushing)
        <4>1. job'[d] = [job[d] EXCEPT !.calls = shorter]
          BY <1>20, <2>2 DEF j
        <4>2. job[d] \in Threads /\ job[d].at = "mark"
          BY <1>1, <1>2
        <4>3. job'[d] = Thread(job[d].at, shorter, job[d].rounds, job[d].requests, job[d].got, job[d].flushing)
          BY <4>1, <4>2, ThreadCalls, Zenon
        <4> QED
          BY <4>2, <4>3
      <3>2. job'[d].at = "mark" /\ job'[d].calls = shorter /\ job'[d].rounds = job[d].rounds
        BY <3>1 DEF Thread
      <3>3. /\ Left(d)' = shorter /\ At(d, "mark")' /\ ~At(d, "call")' /\ ~At(d, "fetch")' /\ Working(d)'
            /\ Task(d)' = shorter[1]
        BY <1>18, <2>2, <3>2 DEF Left, Task, At, Working
      <3>4. CallsOK(d)'
        <4> SUFFICES ASSUME NEW i \in DOMAIN shorter
                     PROVE  shorter[i].first <= shorter[i].last /\ \A k \in DOMAIN shorter[i].marks : shorter[i].marks[k][1] <= shorter[i].marks[k][2]
          BY <1>18, <2>2, <3>3 DEF CallsOK
        <4>1. CASE i = 1
          <5>1. call.first <= call.last
            BY <1>2 DEF ThreadInv, CallsOK
          <5> QED
            BY <1>3, <1>4, <1>18, <2>2, <4>1, <5>1
        <4>2. CASE i # 1
          BY <1>2, <1>18, <2>2, <4>2 DEF ThreadInv, CallsOK
        <4> QED
          BY <4>1, <4>2
      <3>5. RoundsOK(d)'
        <4>1. ~Traded(d) /\ KindOf[d] = "snapshot"
          BY <1>18, <2>2 DEF Traded
        <4> QED
          BY <1>1, <1>2, <1>3, <1>18, <2>2, <3>2, <3>3, <4>1 DEF ThreadInv, RoundsOK, Traded
      <3>6. OwnOnTheWay(d)'
        <4>1. \A c \in Cells(d) : Brought(d, c)
          BY <1>7, <1>18, <2>2 DEF Needs
        <4> QED
          BY <1>1, <4>1 DEF OwnOnTheWay, Brought, Cells
      <3>7. CalendarOnTheWay(d)' /\ NothingTwice(d)' /\ FetchOK(d)'
        BY <1>18, <2>2, <3>3 DEF CalendarOnTheWay, NothingTwice, FetchOK, Traded
      <3>8. Settled(d) => Settled(d)'
        <4> SUFFICES ASSUME Settled(d) PROVE Settled(d)'
          OBVIOUS
        <4>1. CalendarFirst /\ SameRequest /\ (Staged(d) => Staged(d)')
          BY <1>1, <1>2 DEF SyncInv, RunInv, Running, SameRequest, Staged
        <4>2. DaysLeft(d)' = UNION {DaysOf(shorter[i].marks) : i \in DOMAIN shorter}
          BY <3>3 DEF DaysLeft, DaysOf
        <4>3. covered[d] \cup DaysLeft(d) \subseteq covered'[d] \cup DaysLeft(d)'
          <5> SUFFICES ASSUME NEW i \in DOMAIN Left(d), NEW day \in DaysOf(Left(d)[i].marks)
                       PROVE  day \in covered'[d] \cup DaysLeft(d)'
            BY <1>11 DEF DaysLeft
          <5>1. CASE i = 1
            BY <1>2, <1>4, <1>11, <1>18, <2>2, <4>2, <5>1
          <5>2. CASE i # 1
            BY <1>18, <2>2, <4>2, <5>2
          <5> QED
            BY <5>1, <5>2
        <4>4. ASSUME NEW c \in Cells(d) PROVE Brought(d, c)'
          BY <1>1, <1>7, <1>18, <2>2 DEF Needs, Brought
        <4>5. job[d].at # "failed"
          BY <1>1
        <4>6. run'.mode # "none" /\ specs' = specs
          BY <1>1, <1>2
        <4> QED
          BY <1>2, <1>17, <1>21, <4>1, <4>3, <4>4, <4>5, <4>6, SettledStays
      <3> QED
        BY <3>4, <3>5, <3>6, <3>7, <3>8 DEF ThreadInv
    <2> QED
      BY <2>1, <2>2
  <1>23. \A e \in specs : ThreadInv(e)'
    <2> SUFFICES ASSUME NEW e \in specs, e # d PROVE ThreadInv(e)'
      BY <1>1, <1>22
    <2>1. ThreadInv(e) /\ job'[e] = job[e] /\ covered'[e] = covered[e]
      BY <1>11, <1>20 DEF SyncInv
    <2> QED
      BY <1>1, <1>2, <1>17, <1>21, <2>1, OtherThread
  <1>24. RunInv'
    <2>1. CalendarFirst /\ run.selected \subseteq specs /\ SameRequest /\ \A e \in run.selected : Settled(e)
      BY <1>1, <1>2, RunningIsRun, RunFields DEF SyncInv, RunInv, Running, SameRequest
    <2>2. CalendarFirst'
      BY <1>1, <1>2, <1>17, <1>21, <2>1, CalendarFirstStays
    <2>3. ASSUME NEW e \in run.selected, e # d PROVE Settled(e)'
      <3>1. e \in specs /\ Settled(e) /\ job'[e] = job[e] /\ covered'[e] = covered[e]
        BY <1>11, <1>20, <2>1, <2>3
      <3>2. Left(e)' = Left(e) /\ (Staged(e) => Staged(e)')
        BY <1>1, <3>1 DEF Left, Staged
      <3>3. DaysLeft(e)' = DaysLeft(e)
        BY <3>2 DEF DaysLeft, DaysOf
      <3> QED
        BY <1>1, <1>2, <1>17, <1>21, <2>1, <3>1, <3>2, <3>3, SettledStays
    <2>4. \A e \in run'.selected : Settled(e)'
      BY <1>1, <1>22, <2>1, <2>3
    <2>5. run'.status = "running"
      BY <1>1, <1>2 DEF Running
    <2> QED
      BY <2>2, <2>4, <2>5 DEF RunInv
  <1> QED
    BY <1>1, <1>12, <1>15, <1>16, <1>21, <1>23, <1>24 DEF SyncInv

-----------------------------------------------------------------------------
(* The calls of a dataset, as its stage begins. *)

\* A range, with what is marked after it.
LEMMA CallIs ==
  ASSUME NEW a \in Days, NEW b \in Days, NEW m \in Seq(Days \X Days), NEW call, call = Call(<<a, b>>, m)
  PROVE  call \in CallRecords /\ call.first = a /\ call.last = b /\ call.marks = m
  BY DEF Call, CallRecords

\* What a backfill is to ask for, as ranges: those that are missing, or their chunks.
Missing(d) == MissingDateRanges(run.first, run.last, IF run.force THEN <<>> ELSE marks[d])
Chunks(d) ==
  IF KindOf[d] = "audited" THEN Missing(d)
  ELSE FlattenSeq([i \in DOMAIN Missing(d) |-> SplitRange(Missing(d)[i][1], Missing(d)[i][2], ChunkDays[d])])

LEMMA MissingAre ==
  ASSUME Types, Running, Checkpoints, NEW d \in specs, NEW missing, missing = Missing(d)
  PROVE  /\ Apart(missing) /\ missing \in Seq(Days \X Days)
         /\ \A day : day \in DaysOf(missing) <=> day \in run.first .. run.last /\ (~run.force => day \notin covered[d])
         /\ DaysOf(missing) \subseteq Days
  <1> DEFINE kept == IF run.force THEN <<>> ELSE marks[d]
  <1>1. /\ run \in Runs /\ run.first \in Days /\ run.last \in Days /\ run.force \in BOOLEAN /\ run.first \in Int /\ run.last \in Int
    BY RunningIsRun, RunFields DEF Days
  <1>2. Apart(kept) /\ DaysOf(kept) = IF run.force THEN {} ELSE covered[d]
    <2>1. Apart(<<>>) /\ DaysOf(<<>>) = {}
      BY DEF Apart, DaysOf
    <2> QED
      BY <2>1 DEF Checkpoints
  <1>3. missing = MissingDateRanges(run.first, run.last, kept)
    BY DEF Missing
  <1> HIDE DEF kept
  <1>4. PICK a \in Int, b \in Int : a = run.first /\ b = run.last
    BY <1>1
  <1>5. /\ Apart(missing)
        /\ \A day \in Int : day \in DaysOf(missing) <=> a <= day /\ day <= b /\ day \notin DaysOf(kept)
    BY <1>2, <1>3, <1>4, MissingIs
  <1>6. \A day : day \in DaysOf(missing) => day \in Int
    BY <1>5, DaysAre DEF Apart
  <1>7. \A day : day \in DaysOf(missing) <=> day \in run.first .. run.last /\ (~run.force => day \notin covered[d])
    <2> SUFFICES ASSUME NEW day
                 PROVE  day \in DaysOf(missing) <=> day \in a .. b /\ (~run.force => day \notin covered[d])
      BY <1>4
    <2>1. day \in Int => (day \in DaysOf(kept) <=> ~run.force /\ day \in covered[d])
      BY <1>2
    <2> QED
      BY <1>5, <1>6, <2>1
  <1>8. DaysOf(missing) \subseteq Days
    <2>1. a .. b \subseteq Days
      BY <1>1, <1>4, DatasetsAssumption DEF Days
    <2> QED
      BY <1>4, <1>7, <2>1
  <1>9. missing \in Seq(Days \X Days)
    BY <1>5, <1>8, RangesOfDays
  <1> QED
    BY <1>5, <1>7, <1>8, <1>9

\* Ranges that stand for days of the calendar.
LEMMA ChunksOfDays ==
  ASSUME NEW missing, DaysOf(missing) \subseteq Days, NEW chunks \in Seq(Int \X Int),
         \A i \in DOMAIN chunks : chunks[i][1] <= chunks[i][2],
         \A day \in Int : (\E i \in DOMAIN chunks : In(day, chunks[i])) <=> day \in DaysOf(missing)
  PROVE  /\ chunks \in Seq(Days \X Days)
         /\ \A day \in Int : (\E i \in DOMAIN chunks : day \in chunks[i][1] .. chunks[i][2]) <=> day \in DaysOf(missing)
  <1>1. \A i \in DOMAIN chunks : chunks[i] \in Int \X Int
    OBVIOUS
  <1>2. \A i \in DOMAIN chunks : chunks[i] \in Days \X Days /\ chunks[i][1] \in Int /\ chunks[i][2] \in Int
    <2> SUFFICES ASSUME NEW i \in DOMAIN chunks
                 PROVE  chunks[i] \in Days \X Days /\ chunks[i][1] \in Int /\ chunks[i][2] \in Int
      OBVIOUS
    <2>1. chunks[i] = <<chunks[i][1], chunks[i][2]>> /\ chunks[i][1] \in Int /\ chunks[i][2] \in Int /\ chunks[i][1] <= chunks[i][2]
      BY <1>1
    <2>2. In(chunks[i][1], chunks[i]) /\ In(chunks[i][2], chunks[i])
      BY <2>1 DEF In
    <2>3. chunks[i][1] \in Days /\ chunks[i][2] \in Days
      BY <2>1, <2>2
    <2> QED
      BY <2>1, <2>3
  <1>3. chunks \in Seq(Days \X Days)
    BY <1>2, SequenceInto
  <1>4. \A day \in Int : \A i \in DOMAIN chunks : In(day, chunks[i]) <=> day \in chunks[i][1] .. chunks[i][2]
    BY <1>2 DEF In
  <1> QED
    BY <1>3, <1>4

LEMMA ChunksAre ==
  ASSUME Types, Running, Checkpoints, NEW d \in specs
  PROVE  /\ Chunks(d) \in Seq(Days \X Days)
         /\ \A i \in DOMAIN Chunks(d) : Chunks(d)[i][1] <= Chunks(d)[i][2]
         /\ \A i, j \in DOMAIN Chunks(d) : i < j => Chunks(d)[i][2] < Chunks(d)[j][1]
         /\ \A day \in Int : (\E i \in DOMAIN Chunks(d) : day \in Chunks(d)[i][1] .. Chunks(d)[i][2]) <=> day \in DaysOf(Missing(d))
  <1>1. PICK missing : missing = Missing(d)
    OBVIOUS
  <1>2. PICK chunks : chunks = Chunks(d)
    OBVIOUS
  <1>3. Apart(missing) /\ missing \in Seq(Days \X Days) /\ DaysOf(missing) \subseteq Days
    BY <1>1, MissingAre
  <1>4. /\ chunks \in Seq(Int \X Int)
        /\ \A i \in DOMAIN chunks : chunks[i][1] <= chunks[i][2]
        /\ \A i, j \in DOMAIN chunks : i < j => chunks[i][2] < chunks[j][1]
        /\ \A day \in Int : (\E i \in DOMAIN chunks : In(day, chunks[i])) <=> day \in DaysOf(missing)
    <2>1. CASE KindOf[d] = "audited"
      <3>1. chunks = missing
        BY <1>1, <1>2, <2>1 DEF Chunks
      <3>2. missing \in Seq(Int \X Int) /\ \A i \in DOMAIN missing : missing[i][1] <= missing[i][2]
        BY <1>3 DEF Apart
      <3>3. \A i \in DOMAIN missing : missing[i][1] \in Int /\ missing[i][2] \in Int
        BY <3>2
      <3>4. \A i, j \in DOMAIN missing : i < j => missing[i][2] < missing[j][1]
        <4>1. \A i, j \in DOMAIN missing : i < j => missing[i][2] + 1 < missing[j][1]
          BY <1>3 DEF Apart
        <4> QED
          BY <3>3, <4>1
      <3>5. \A day \in Int : (\E i \in DOMAIN missing : In(day, missing[i])) <=> day \in DaysOf(missing)
        BY <3>2, DaysAre
      <3> QED
        BY <3>1, <3>2, <3>4, <3>5
    <2>2. CASE KindOf[d] # "audited"
      <3>1. PICK n \in Nat \ {0} : n = ChunkDays[d]
        BY DatasetFacts DEF Types
      <3>2. chunks = FlattenSeq([i \in DOMAIN missing |-> SplitRange(missing[i][1], missing[i][2], n)])
        BY <1>1, <1>2, <2>2, <3>1 DEF Chunks
      <3> QED
        BY ONLY <1>3, <3>1, <3>2, SplitAll
    <2> QED
      BY <2>1, <2>2
  <1>5. /\ chunks \in Seq(Days \X Days)
        /\ \A day \in Int : (\E i \in DOMAIN chunks : day \in chunks[i][1] .. chunks[i][2]) <=> day \in DaysOf(missing)
    BY <1>3, <1>4, ChunksOfDays
  <1> QED
    BY <1>1, <1>2, <1>4, <1>5

\* The calls of a backfill, for all that is missing and, forced, for all that is asked.
LEMMA BackfillCalls ==
  ASSUME Types, Running, Checkpoints, run.mode = "all", NEW d \in specs, NEW calls, calls = Calls(d)
  PROVE  /\ calls \in Seq(CallRecords)
         /\ \A i \in DOMAIN calls :
              /\ calls[i].first <= calls[i].last
              /\ \A j \in DOMAIN calls[i].marks : calls[i].marks[j][1] <= calls[i].marks[j][2]
              /\ KindOf[d] # "snapshot" => calls[i].marks = <<<<calls[i].first, calls[i].last>>>>
         /\ ~run.force /\ KindOf[d] # "snapshot" =>
              /\ \A i, j \in DOMAIN calls : i < j => calls[i].last < calls[j].first
              /\ \A i \in DOMAIN calls : \A day \in calls[i].first .. calls[i].last : day \notin covered[d]
         /\ run.first .. run.last \subseteq covered[d] \cup UNION {DaysOf(calls[i].marks) : i \in DOMAIN calls}
         /\ run.force => \A c \in Cells(d) : KindOf[d] = "snapshot" \/ c[1] \in run.first .. run.last =>
                           \E i \in DOMAIN calls : Needs(calls[i], d, c)
  <1> DEFINE missing == Missing(d)
             chunks == Chunks(d)
  <1>1. calls = IF KindOf[d] = "snapshot"
                THEN IF missing = <<>> THEN <<>> ELSE <<Call(<<run.first, run.last>>, missing)>>
                ELSE [i \in DOMAIN chunks |-> Call(chunks[i], <<chunks[i]>>)]
    BY DEF Calls, Missing, Chunks
  <1>2. /\ Apart(missing) /\ missing \in Seq(Days \X Days)
        /\ \A day : day \in DaysOf(missing) <=> day \in run.first .. run.last /\ (~run.force => day \notin covered[d])
        /\ chunks \in Seq(Days \X Days)
        /\ \A i \in DOMAIN chunks : chunks[i][1] <= chunks[i][2]
        /\ \A i, j \in DOMAIN chunks : i < j => chunks[i][2] < chunks[j][1]
        /\ \A day \in Int : (\E i \in DOMAIN chunks : day \in chunks[i][1] .. chunks[i][2]) <=> day \in DaysOf(missing)
    BY ChunksAre, MissingAre
  <1>3. /\ run \in Runs /\ run.first \in Days /\ run.last \in Days /\ run.force \in BOOLEAN /\ run.first \in Int /\ run.last \in Int
        /\ run.first <= run.last
    BY RunningIsRun, RunFields DEF Days
  <1> HIDE DEF missing, chunks
  <1>4. CASE KindOf[d] # "snapshot"
    <2>1. calls = [i \in DOMAIN chunks |-> Call(chunks[i], <<chunks[i]>>)]
      BY <1>1, <1>4
    <2>2. DOMAIN chunks = 1 .. Len(chunks) /\ Len(chunks) \in Nat /\ DOMAIN calls = 1 .. Len(chunks)
      BY <1>2, <2>1
    <2>3. ASSUME NEW i \in DOMAIN chunks
          PROVE  /\ calls[i] \in CallRecords /\ calls[i].first = chunks[i][1] /\ calls[i].last = chunks[i][2]
                 /\ calls[i].marks = <<<<calls[i].first, calls[i].last>>>>
      <3>1. chunks[i] \in Days \X Days
        BY <1>2
      <3>2. PICK a \in Days, b \in Days : chunks[i] = <<a, b>>
        BY <3>1
      <3>3. calls[i] = Call(<<a, b>>, <<<<a, b>>>>) /\ <<<<a, b>>>> \in Seq(Days \X Days)
        BY <2>1, <3>2
      <3> QED
        BY <3>2, <3>3, CallIs
    <2>4. calls \in Seq(CallRecords)
      <3>1. calls \in [1 .. Len(chunks) -> CallRecords]
        BY <2>1, <2>2, <2>3
      <3> QED
        BY <2>2, <3>1, FunctionIsSequence
    <2>5. \A i \in DOMAIN calls :
            /\ calls[i].first <= calls[i].last
            /\ calls[i].marks = <<<<calls[i].first, calls[i].last>>>>
      BY <1>2, <2>2, <2>3
    <2>6. \A i \in DOMAIN calls : \A j \in DOMAIN calls[i].marks : calls[i].marks[j][1] <= calls[i].marks[j][2]
      BY <2>5
    <2>7. \A i, j \in DOMAIN calls : i < j => calls[i].last < calls[j].first
      BY <1>2, <2>2, <2>3
    <2>8. ASSUME ~run.force, NEW i \in DOMAIN calls, NEW day \in calls[i].first .. calls[i].last PROVE day \notin covered[d]
      <3>1. day \in chunks[i][1] .. chunks[i][2] /\ day \in Int /\ i \in DOMAIN chunks
        BY <2>2, <2>3, <2>8
      <3> QED
        BY <1>2, <2>8, <3>1
    <2>9. ASSUME NEW day \in run.first .. run.last, run.force \/ day \notin covered[d]
          PROVE  \E i \in DOMAIN calls : day \in calls[i].first .. calls[i].last /\ day \in DaysOf(calls[i].marks)
      <3>1. day \in Int /\ day \in DaysOf(missing)
        BY <1>2, <1>3, <2>9
      <3>2. PICK i \in DOMAIN chunks : day \in chunks[i][1] .. chunks[i][2]
        BY <1>2, <3>1
      <3>3. i \in DOMAIN calls /\ day \in calls[i].first .. calls[i].last
        BY <2>2, <2>3, <3>2
      <3>4. calls[i].marks = <<<<calls[i].first, calls[i].last>>>>
        BY <2>5, <3>3
      <3>5. day \in DaysOf(calls[i].marks)
        BY <3>3, <3>4 DEF DaysOf
      <3> QED
        BY <3>3, <3>5
    <2>10. run.first .. run.last \subseteq covered[d] \cup UNION {DaysOf(calls[i].marks) : i \in DOMAIN calls}
      BY <2>9
    <2>11. run.force => \A c \in Cells(d) : c[1] \in run.first .. run.last => \E i \in DOMAIN calls : Needs(calls[i], d, c)
      BY <2>9 DEF Needs
    <2> QED
      BY <1>4, <2>4, <2>5, <2>6, <2>7, <2>8, <2>10, <2>11
  <1>5. CASE KindOf[d] = "snapshot" /\ missing = <<>>
    <2>1. calls = <<>> /\ DOMAIN calls = {}
      BY <1>1, <1>5
    <2>2. DaysOf(missing) = {}
      BY <1>5 DEF DaysOf
    <2>3. ~run.force /\ run.first .. run.last \subseteq covered[d]
      <3>1. run.first \in run.first .. run.last
        BY <1>3
      <3> QED
        BY <1>2, <2>2, <3>1
    <2> QED
      BY <1>5, <2>1, <2>3
  <1>6. CASE KindOf[d] = "snapshot" /\ missing # <<>>
    <2>1. calls = <<Call(<<run.first, run.last>>, missing)>>
      BY <1>1, <1>6
    <2>2. PICK call : call = Call(<<run.first, run.last>>, missing)
      OBVIOUS
    <2>3. call \in CallRecords /\ call.first = run.first /\ call.last = run.last /\ call.marks = missing
      BY <1>2, <1>3, <2>2, CallIs
    <2>4. calls = <<call>> /\ calls \in Seq(CallRecords) /\ DOMAIN calls = {1} /\ calls[1] = call
      BY <2>1, <2>2, <2>3
    <2>5. \A i \in DOMAIN missing : missing[i][1] <= missing[i][2]
      BY <1>2 DEF Apart
    <2>6. run.first .. run.last \subseteq covered[d] \cup UNION {DaysOf(calls[i].marks) : i \in DOMAIN calls}
      BY <1>2, <2>3, <2>4
    <2>7. \A c \in Cells(d) : \E i \in DOMAIN calls : Needs(calls[i], d, c)
      BY <1>6, <2>4 DEF Needs
    <2> QED
      BY <1>3, <1>6, <2>3, <2>4, <2>5, <2>6, <2>7
  <1> QED
    BY <1>4, <1>5, <1>6

\* The open days of a window: the last few of them begin at the first whose later ones are few.
LEMMA LatestDays ==
  ASSUME NEW open \in SUBSET Days, open # {}, NEW back \in Nat \ {0}, LastDay \in Nat \ {0},
         NEW last, last = {day \in open : Cardinality({o \in open : o > day}) < back}
  PROVE  last # {} /\ Min(last) \in open /\ \A day \in last : Min(last) <= day
  <1> DEFINE Before(x) == LastDay - x
             S == {Before(x) : x \in open}
  <1>1. \A x \in open : x \in Int /\ Before(x) \in Nat
    BY DEF Days
  <1>2. S \in SUBSET Nat /\ S # {}
    BY <1>1
  <1>3. PICK n \in S : \A m \in S : n <= m
    BY <1>2, LeastNumber
  <1>4. PICK x \in open : n = Before(x)
    BY <1>3
  <1>5. ASSUME NEW o \in open PROVE ~(o > x)
    <2>1. Before(o) \in S /\ n <= Before(o)
      BY <1>3
    <2>2. o \in Int /\ x \in Int
      BY <1>1
    <2> QED
      BY <1>4, <2>1, <2>2
  <1>6. {o \in open : o > x} = {}
    BY <1>5
  <1>7. x \in last
    BY <1>4, <1>6, FS_EmptySet
  <1>8. last \in SUBSET Nat /\ last \subseteq open
    <2>1. Days \subseteq Nat
      BY DEF Days
    <2>2. last \subseteq open
      BY Zenon
    <2> QED
      BY <2>1, <2>2, Zenon
  <1> HIDE DEF S
  <1>9. PICK k \in last : \A m \in last : k <= m
    BY <1>7, <1>8, LeastNumber
  <1>10. Min(last) \in last /\ \A day \in last : Min(last) <= day
    BY <1>9 DEF Min
  <1> QED
    BY <1>7, <1>8, <1>10

\* The range that is refreshed has all of the window.
LEMMA RefreshRange ==
  ASSUME Types, Running, run.mode = "inc", NEW d \in specs
  PROVE  \/ IncRange(d) = <<>> /\ \A day \in Days : ~InWindow(d, day)
         \/ \E a \in Days, b \in Days :
              /\ a <= b /\ IncRange(d) = <<<<a, b>>>>
              /\ \A day \in Days : InWindow(d, day) => KindOf[d] = "snapshot" \/ day \in a .. b
  <1> DEFINE today == run.last
             back == IF run.monthly THEN IncDays[d].monthly ELSE IncDays[d].daily
             past == Later(1, today - CalendarPast)
             open == MarketOpenDates(past, today)
             last == {day \in open : Cardinality({o \in open : o > day}) < back}
             after == Earlier(LastDay, today + CalendarFuture)
             from == Later(1, today - back + 1)
  <1>1. /\ run \in Runs /\ today \in Days /\ today \in Int /\ today >= 1 /\ today <= LastDay /\ LastDay \in Nat \ {0}
        /\ specs \in Specs /\ d \in Datasets
    BY RunningIsRun, RunFields, DatasetFacts, DatasetsAssumption DEF Types, Days
  <1>2. back \in Nat \ {0} /\ CalendarPast \in Nat /\ CalendarFuture \in Nat
    BY <1>1, RunFields, CallsAssumption
  <1>3. past \in Days /\ past <= today /\ past \in Int
    BY <1>1, <1>2 DEF Later, Days
  <1>4. after \in Days /\ today <= after
    BY <1>1, <1>2 DEF Earlier, Days
  <1>5. from \in Days /\ from <= today
    BY <1>1, <1>2 DEF Later, Days
  <1>6. CASE KindOf[d] = "calendar"
    <2>1. IncRange(d) = <<<<past, after>>>>
      BY <1>1, <1>6, CallsAssumption DEF IncRange
    <2>2. \A day \in Days : InWindow(d, day) <=> day >= today - CalendarPast /\ day <= today + CalendarFuture
      BY <1>1, <1>6, CallsAssumption DEF InWindow
    <2>3. \A day \in Days : day >= today - CalendarPast /\ day <= today + CalendarFuture => day \in past .. after
      BY <1>1, <1>2 DEF Later, Earlier, Days
    <2>4. past <= after
      BY <1>3, <1>4, <1>1 DEF Days
    <2> QED
      BY <1>3, <1>4, <2>1, <2>2, <2>3, <2>4
  <1>7. CASE KindOf[d] = "traded"
    <2>1. open \subseteq Days /\ open \subseteq past .. today
      BY <1>1, <1>3, OpenDates, DatasetsAssumption
    <2>2. IncRange(d) = IF open = {} THEN <<>> ELSE <<<<Min(last), today>>>>
      BY <1>1, <1>7, CallsAssumption DEF IncRange
    <2>3. \A day \in Days : InWindow(d, day) <=> day \in open /\ Cardinality({o \in open : o > day}) < back
      BY <1>1, <1>7, CallsAssumption DEF InWindow
    <2>4. CASE open = {}
      BY <2>2, <2>3, <2>4
    <2>5. CASE open # {}
      <3>1. Min(last) \in open /\ \A day \in last : Min(last) <= day
        <4>1. LastDay \in Nat \ {0} /\ open \in SUBSET Days
          BY <1>1, <2>1
        <4>2. last = {day \in open : Cardinality({o \in open : o > day}) < back}
          OBVIOUS
        <4> HIDE DEF open, back, last
        <4> QED
          BY <1>2, <2>5, <4>1, <4>2, LatestDays
      <3>2. Min(last) \in Days /\ Min(last) <= today
        BY <1>1, <1>3, <2>1, <3>1
      <3>3. ASSUME NEW day \in Days, InWindow(d, day) PROVE day \in Min(last) .. today
        <4>1. day \in open /\ day \in last
          BY <2>3, <3>3
        <4>2. Min(last) <= day /\ day <= today /\ day \in Int /\ Min(last) \in Int
          BY <1>1, <1>3, <2>1, <3>1, <3>2, <4>1 DEF Days
        <4> HIDE DEF last, open, today
        <4> QED
          BY <1>1, <4>2
      <3>4. IncRange(d) = <<<<Min(last), today>>>>
        BY <2>2, <2>5
      <3> HIDE DEF last, today
      <3> QED
        BY <1>1, <3>2, <3>3, <3>4
    <2> QED
      BY <2>4, <2>5
  <1>8. CASE KindOf[d] \notin {"calendar", "traded"} /\ d \in Weekly /\ ~run.weekly
    <2>1. IncRange(d) = <<>>
      BY <1>8 DEF IncRange
    <2>2. \A day \in Days : ~InWindow(d, day)
      BY <1>8 DEF InWindow
    <2> QED
      BY <2>1, <2>2
  <1>9. CASE KindOf[d] \notin {"calendar", "traded"} /\ ~(d \in Weekly /\ ~run.weekly)
    <2>1. IncRange(d) = <<<<from, today>>>>
      BY <1>9 DEF IncRange
    <2>2. \A day \in Days : InWindow(d, day) <=> KindOf[d] = "snapshot" \/ (day > today - back /\ day <= today)
      BY <1>9 DEF InWindow
    <2>3. \A day \in Days : day > today - back /\ day <= today => day \in from .. today
      BY <1>1, <1>2 DEF Later, Days
    <2> HIDE DEF from, back, today
    <2> QED
      BY <1>1, <1>5, <2>1, <2>2, <2>3
  <1> QED
    BY <1>6, <1>7, <1>8, <1>9

LEMMA RefreshCalls ==
  ASSUME Types, Running, run.mode = "inc", NEW d \in specs, NEW calls, calls = Calls(d)
  PROVE  /\ calls \in Seq(CallRecords)
         /\ \A i \in DOMAIN calls : calls[i].first <= calls[i].last /\ calls[i].marks = <<>>
         /\ \A c \in Cells(d) : InWindow(d, c[1]) => \E i \in DOMAIN calls : Needs(calls[i], d, c)
  <1>1. PICK range : range = IncRange(d)
    OBVIOUS
  <1>2. calls = [i \in DOMAIN range |-> Call(range[i], <<>>)]
    BY <1>1 DEF Calls
  <1>3. CASE range = <<>> /\ \A day \in Days : ~InWindow(d, day)
    <2>1. calls = <<>> /\ DOMAIN calls = {}
      BY <1>2, <1>3
    <2> QED
      BY <1>3, <2>1, Cell
  <1>4. CASE \E a \in Days, b \in Days :
               /\ a <= b /\ range = <<<<a, b>>>>
               /\ \A day \in Days : InWindow(d, day) => KindOf[d] = "snapshot" \/ day \in a .. b
    <2>1. PICK a \in Days, b \in Days :
               /\ a <= b /\ range = <<<<a, b>>>>
               /\ \A day \in Days : InWindow(d, day) => KindOf[d] = "snapshot" \/ day \in a .. b
      BY <1>4
    <2>2. PICK call : call = Call(<<a, b>>, <<>>)
      OBVIOUS
    <2>3. call \in CallRecords /\ call.first = a /\ call.last = b /\ call.marks = <<>>
      <3>1. <<>> \in Seq(Days \X Days)
        OBVIOUS
      <3>2. PICK m \in Seq(Days \X Days) : m = <<>>
        BY <3>1
      <3>3. call = Call(<<a, b>>, m)
        BY <2>2, <3>2
      <3>4. call \in CallRecords /\ call.first = a /\ call.last = b /\ call.marks = m
        <4>1. a \in Days /\ b \in Days /\ m \in Seq(Days \X Days)
          BY <2>1, <3>2
        <4> QED
          BY ONLY <3>3, <4>1 DEF Call, CallRecords
      <3> QED
        BY <3>2, <3>4
    <2>4. DOMAIN calls = {1} /\ calls[1] = call
      BY <1>2, <2>1, <2>2
    <2>5. calls = <<call>>
      <3>1. calls = [i \in 1 .. 1 |-> call]
        BY <1>2, <2>1, <2>2
      <3> QED
        BY <3>1
    <2>6. calls \in Seq(CallRecords)
      BY <2>3, <2>5
    <2>7. \A c \in Cells(d) : InWindow(d, c[1]) => Needs(call, d, c)
      BY <2>1, <2>3, Cell DEF Needs
    <2> QED
      BY <2>1, <2>3, <2>4, <2>6, <2>7
  <1> QED
    BY <1>1, <1>3, <1>4, RefreshRange

\* A dataset's calls, whichever way it is synchronised.
LEMMA StageCalls ==
  ASSUME Types, Running, Checkpoints, NEW d \in specs, NEW calls, calls = Calls(d)
  PROVE  /\ calls \in Seq(CallRecords)
         /\ \A i \in DOMAIN calls :
              /\ calls[i].first <= calls[i].last
              /\ \A j \in DOMAIN calls[i].marks : calls[i].marks[j][1] <= calls[i].marks[j][2]
              /\ KindOf[d] # "snapshot" /\ calls[i].marks # <<>> => calls[i].marks = <<<<calls[i].first, calls[i].last>>>>
         /\ run.mode = "all" /\ ~run.force /\ KindOf[d] # "snapshot" =>
              /\ \A i, j \in DOMAIN calls : i < j => calls[i].last < calls[j].first
              /\ \A i \in DOMAIN calls : \A day \in calls[i].first .. calls[i].last : day \notin covered[d]
         /\ run.mode = "all" => run.first .. run.last \subseteq covered[d] \cup UNION {DaysOf(calls[i].marks) : i \in DOMAIN calls}
         /\ \A c \in Cells(d) : Wanted(d, c) => \E i \in DOMAIN calls : Needs(calls[i], d, c)
  <1>1. run.mode \in {"all", "inc"}
    BY RunningIsRun, RunFields
  <1>2. CASE run.mode = "all"
    <2>1. /\ calls \in Seq(CallRecords)
          /\ \A i \in DOMAIN calls :
               /\ calls[i].first <= calls[i].last
               /\ \A j \in DOMAIN calls[i].marks : calls[i].marks[j][1] <= calls[i].marks[j][2]
               /\ KindOf[d] # "snapshot" => calls[i].marks = <<<<calls[i].first, calls[i].last>>>>
          /\ ~run.force /\ KindOf[d] # "snapshot" =>
               /\ \A i, j \in DOMAIN calls : i < j => calls[i].last < calls[j].first
               /\ \A i \in DOMAIN calls : \A day \in calls[i].first .. calls[i].last : day \notin covered[d]
          /\ run.first .. run.last \subseteq covered[d] \cup UNION {DaysOf(calls[i].marks) : i \in DOMAIN calls}
          /\ run.force => \A c \in Cells(d) : KindOf[d] = "snapshot" \/ c[1] \in run.first .. run.last =>
                            \E i \in DOMAIN calls : Needs(calls[i], d, c)
      BY <1>2, BackfillCalls
    <2>2. \A c \in Cells(d) : Wanted(d, c) => run.force /\ (KindOf[d] = "snapshot" \/ c[1] \in run.first .. run.last)
      BY <1>2 DEF Wanted
    <2> QED
      BY <2>1, <2>2
  <1>3. CASE run.mode = "inc"
    <2>1. /\ calls \in Seq(CallRecords)
          /\ \A i \in DOMAIN calls : calls[i].first <= calls[i].last /\ calls[i].marks = <<>>
          /\ \A c \in Cells(d) : InWindow(d, c[1]) => \E i \in DOMAIN calls : Needs(calls[i], d, c)
      BY <1>3, RefreshCalls
    <2>2. \A c \in Cells(d) : Wanted(d, c) => InWindow(d, c[1])
      BY <1>3 DEF Wanted
    <2> QED
      BY <1>3, <2>1, <2>2
  <1> QED
    BY <1>1, <1>2, <1>3

\* A thread that has ended, or has not begun, promises nothing.
LEMMA ThreadEnds ==
  ASSUME NEW d, job'[d].at \in {"idle", "done", "failed"}
  PROVE  ThreadInv(d)' /\ Left(d)' = <<>>
  <1>1. Left(d)' = <<>> /\ DOMAIN Left(d)' = {}
    BY DEF Left
  <1>2. ~Working(d)' /\ ~At(d, "fetch")' /\ ~At(d, "call")'
    BY DEF Working, At
  <1> QED
    BY <1>1, <1>2 DEF ThreadInv, CallsOK, RoundsOK, FetchOK, OwnOnTheWay, CalendarOnTheWay, NothingTwice

\* The run goes on to its next stage, or ends: nothing of what it was asked changes.
LEMMA RunGoesOn ==
  ASSUME run \in Runs,
         NEW stages \in Seq(SUBSET specs), NEW status \in {"running", "ok", "failed"},
         \/ run' = [run EXCEPT !.stages = stages] /\ status = run.status
         \/ run' = [run EXCEPT !.status = status] /\ stages = run.stages
  PROVE  run' \in Runs /\ SameRequest /\ run'.stages = stages /\ run'.status = status
  <1>1. CASE run' = [run EXCEPT !.stages = stages] /\ status = run.status
    BY <1>1 DEF Runs, SameRequest
  <1>2. CASE run' = [run EXCEPT !.status = status] /\ stages = run.stages
    BY <1>2 DEF Runs, SameRequest
  <1> QED
    BY <1>1, <1>2

\* While nothing is committed, the window of sync_inc stays.
LEMMA SameWindow ==
  ASSUME SameRequest, UNCHANGED <<specs, stored>>, run.last \in Int, CalendarPast \in Int, NEW d, NEW day
  PROVE  InWindow(d, day)' <=> InWindow(d, day)
  <1> DEFINE open == MarketOpenDates(Later(1, run.last - CalendarPast), run.last)
             opened == open'
  <1>1. opened = open
    BY DEF MarketOpenDates, SameRequest
  <1> QED
    BY <1>1, CallsAssumption DEF InWindow, SameRequest

-----------------------------------------------------------------------------
(* The steps of a call, of upstream and of the process. *)

LEMMA NextStageKeeps ==
  ASSUME SyncInv, NextStage
  PROVE  SyncInv'
  <1>1. PICK calls : /\ calls = [d \in Head(run.stages) |-> Calls(d)]
                     /\ job' = [d \in specs |-> IF d \in Head(run.stages) THEN Calling(calls[d]) ELSE Idle]
    BY DEF NextStage
  <1>2. /\ Running /\ run.stages # <<>>
        /\ \A d \in specs : job[d].at \in {"idle", "done"}
        /\ run' = [run EXCEPT !.stages = Tail(@)]
        /\ UNCHANGED <<specs, source, stored, marks, buffer, faults, pledged, covered>>
    BY DEF NextStage, Running, disk, ghosts
  <1>3. /\ Types /\ Upstream /\ Pledges /\ Checkpoints /\ RunInv /\ run \in Runs /\ run.mode # "none"
        /\ run.first <= run.last /\ specs \in Specs
    BY <1>2, RunningIsRun DEF SyncInv, Types
  <1>4. /\ run.stages \in Seq(SUBSET specs) /\ run.selected \subseteq specs /\ run.last \in Int /\ CalendarPast \in Int
        /\ run.asked \in AllVersions /\ run.status = "running"
    BY <1>2, <1>3, RunFields, CallsAssumption DEF Days, Running
  <1> DEFINE now == Head(run.stages)
             later == Tail(run.stages)
  <1>5. /\ DOMAIN run.stages = 1 .. Len(run.stages) /\ Len(run.stages) \in Nat \ {0} /\ now = run.stages[1] /\ now \subseteq specs
        /\ later \in Seq(SUBSET specs) /\ DOMAIN later = 1 .. Len(run.stages) - 1
        /\ \A i \in 1 .. Len(run.stages) - 1 : later[i] = run.stages[i + 1]
    BY <1>2, <1>4, HeadTail
  <1>6. run' \in Runs /\ SameRequest /\ run'.stages = later /\ run'.status = "running"
    <2>1. run' = [run EXCEPT !.stages = later]
      BY <1>2
    <2> HIDE DEF later
    <2> QED
      BY <1>3, <1>4, <1>5, <2>1, RunGoesOn
  <1>7. run'.mode # "none" /\ run'.asked = run.asked /\ Running'
    BY <1>3, <1>6 DEF SameRequest, Running
  <1>8. \A d \in specs : Left(d) = <<>> /\ DOMAIN Left(d) = {} /\ job[d].at # "failed"
    BY <1>2 DEF Left
  <1>9. \A d \in specs : (Staged(d) <=> d \in now \/ Staged(d)')
    <2> SUFFICES ASSUME NEW d \in specs PROVE Staged(d) <=> d \in now \/ Staged(d)'
      OBVIOUS
    <2>1. Staged(d)' <=> \E i \in DOMAIN later : d \in later[i]
      BY <1>6 DEF Staged
    <2>2. (\E i \in DOMAIN run.stages : d \in run.stages[i]) <=> d \in now \/ \E i \in DOMAIN later : d \in later[i]
      <3> HIDE DEF now, later
      <3>1. ASSUME NEW i \in DOMAIN run.stages, d \in run.stages[i] PROVE d \in now \/ \E k \in DOMAIN later : d \in later[k]
        <4>1. CASE i = 1
          BY <1>5, <3>1, <4>1
        <4>2. CASE i # 1
          <5>1. i - 1 \in DOMAIN later /\ later[i - 1] = run.stages[i]
            BY <1>5, <4>2
          <5> QED
            BY <3>1, <5>1
        <4> QED
          BY <4>1, <4>2
      <3>2. ASSUME NEW i \in DOMAIN later, d \in later[i] PROVE \E k \in DOMAIN run.stages : d \in run.stages[k]
        <4>1. i + 1 \in DOMAIN run.stages /\ later[i] = run.stages[i + 1]
          BY <1>5
        <4> QED
          BY <3>2, <4>1
      <3>3. d \in now => \E k \in DOMAIN run.stages : d \in run.stages[k]
        BY <1>5
      <3> QED
        BY <3>1, <3>2, <3>3
    <2> QED
      BY <2>1, <2>2 DEF Staged
  <1>10. ASSUME NEW d \in now
         PROVE  /\ job'[d] = Calling(calls[d]) /\ calls[d] \in Seq(CallRecords)
                /\ Left(d)' = calls[d] /\ job'[d] \in Threads /\ job'[d].at \in {"call", "done"}
                /\ job'[d].calls = calls[d] /\ (job'[d].at = "done" <=> calls[d] = <<>>)
    <2>1. job'[d] = Calling(calls[d]) /\ calls[d] = Calls(d) /\ d \in specs
      BY <1>1, <1>5
    <2>2. calls[d] \in Seq(CallRecords)
      BY <1>2, <1>3, <2>1, StageCalls
    <2> QED
      BY <2>1, <2>2, CallingIs DEF Left
  <1>11. ASSUME NEW d \in specs, d \notin now PROVE job'[d] = Idle /\ job'[d].at = "idle"
    BY <1>1, <1>11 DEF Idle
  <1>12. AllFlow
    BY <1>2 DEF AllFlow, Flows
  <1>13. Types'
    <2>1. AllVersions' = AllVersions /\ Threads' = Threads /\ Runs' = Runs
      BY <1>2, SameThreads
    <2>2. job' \in [specs -> Threads \cup {Idle}]
      <3>1. \A d \in specs : job'[d] \in Threads \cup {Idle}
        BY <1>10, <1>11
      <3>2. job' = [d \in specs |-> job'[d]]
        BY <1>1
      <3> QED
        BY <3>1, <3>2
    <2>3. run' \in Runs /\ run'.first <= run'.last
      BY <1>3, <1>6 DEF SameRequest
    <2> QED
      BY <1>2, <1>3, <1>7, <2>1, <2>2, <2>3 DEF Types
  <1>14. Upstream'
    BY <1>2, <1>3, <1>7 DEF Upstream, Cells, Traded
  <1>15. Pledges'
    BY <1>2, <1>3 DEF Pledges, Cells
  <1>16. Checkpoints'
    BY <1>2, <1>3 DEF Checkpoints, Apart, DaysOf
  <1>17. ASSUME NEW d \in specs PROVE ThreadInv(d)'
    <2>1. CASE d \notin now
      BY <1>11, <2>1, ThreadEnds
    <2>2. CASE d \in now
      <3>1. /\ job'[d].at \in {"call", "done"} /\ job'[d].calls = calls[d] /\ Left(d)' = calls[d]
            /\ (job'[d].at = "done" <=> calls[d] = <<>>)
        BY <1>10, <2>2
      <3>2. /\ \A i \in DOMAIN calls[d] :
                 /\ calls[d][i].first <= calls[d][i].last
                 /\ \A j \in DOMAIN calls[d][i].marks : calls[d][i].marks[j][1] <= calls[d][i].marks[j][2]
                 /\ KindOf[d] # "snapshot" /\ calls[d][i].marks # <<>> => calls[d][i].marks = <<<<calls[d][i].first, calls[d][i].last>>>>
            /\ run.mode = "all" /\ ~run.force /\ KindOf[d] # "snapshot" =>
                 /\ \A i, j \in DOMAIN calls[d] : i < j => calls[d][i].last < calls[d][j].first
                 /\ \A i \in DOMAIN calls[d] : \A day \in calls[d][i].first .. calls[d][i].last : day \notin covered[d]
        BY <1>1, <1>2, <1>3, <2>2, StageCalls
      <3>3. CallsOK(d)'
        BY <3>1, <3>2 DEF CallsOK, At
      <3>4. NothingTwice(d)'
        BY <1>2, <1>6, <3>1, <3>2 DEF NothingTwice, SameRequest
      <3>5. ~Working(d)' /\ ~At(d, "fetch")'
        BY <3>1 DEF Working, At
      <3> QED
        BY <3>3, <3>4, <3>5 DEF ThreadInv, RoundsOK, FetchOK, OwnOnTheWay, CalendarOnTheWay
    <2> QED
      BY <2>1, <2>2
  <1>18. \A d \in specs : \A c \in Cells(d) : (Brought(d, c)' <=> Brought(d, c))
    BY <1>2, <1>7 DEF Brought
  <1>19. \A d \in specs : \A c \in Cells(d) : (Wanted(d, c)' <=> Wanted(d, c))
    <2> SUFFICES ASSUME NEW d \in specs, NEW c \in Cells(d) PROVE Wanted(d, c)' <=> Wanted(d, c)
      OBVIOUS
    <2>1. InWindow(d, c[1])' <=> InWindow(d, c[1])
      BY <1>2, <1>4, <1>6, SameWindow
    <2> QED
      BY <1>6, <2>1 DEF Wanted, SameRequest, Traded
  <1>20. CalendarFirst /\ \A d \in run.selected : Settled(d)
    BY <1>3, <1>4 DEF RunInv
  <1>21. CalendarFirst'
    <2> SUFFICES ASSUME run.mode = "inc"
                 PROVE  /\ run'.selected = specs
                        /\ later \in {<<{Calendar}, specs \ {Calendar}>>, <<specs \ {Calendar}>>, <<>>}
                        /\ later = <<>> => \A c \in Cells(Calendar) : Wanted(Calendar, c) => Brought(Calendar, c)
      <3>1. Calendar \in specs
        BY <1>3, DatasetFacts
      <3> QED
        BY <1>2, <1>6, <1>18, <1>19, <3>1 DEF CalendarFirst, SameRequest, Cells
    <2>1. run.selected = specs /\ run.stages \in {<<{Calendar}, specs \ {Calendar}>>, <<specs \ {Calendar}>>}
      BY <1>2, <1>20 DEF CalendarFirst
    <2>2. CASE run.stages = <<{Calendar}, specs \ {Calendar}>>
      <3>1. later = <<specs \ {Calendar}>>
        BY <2>2
      <3> HIDE DEF later
      <3> QED
        BY <1>6, <2>1, <3>1 DEF SameRequest
    <2>3. CASE run.stages = <<specs \ {Calendar}>>
      <3>1. later = <<>>
        BY <2>3
      <3>2. Calendar \in specs /\ ~Staged(Calendar) /\ Settled(Calendar)
        BY <1>3, <1>20, <2>1, <2>3, DatasetFacts DEF Staged
      <3>3. \A c \in Cells(Calendar) : Wanted(Calendar, c) => Brought(Calendar, c)
        BY <1>8, <3>2 DEF Settled
      <3> HIDE DEF later
      <3> QED
        BY <1>6, <2>1, <3>1, <3>3 DEF SameRequest
    <2> QED
      BY <2>1, <2>2, <2>3
  <1>22. ASSUME NEW d \in run.selected PROVE Settled(d)'
    <2>1. d \in specs /\ Settled(d)
      BY <1>4, <1>20
    <2>2. CASE d \in now
      <3>1. /\ run.mode = "all" => run.first .. run.last \subseteq covered[d] \cup UNION {DaysOf(calls[d][i].marks) : i \in DOMAIN calls[d]}
            /\ \A c \in Cells(d) : Wanted(d, c) => \E i \in DOMAIN calls[d] : Needs(calls[d][i], d, c)
        BY <1>1, <1>2, <1>3, <2>1, <2>2, StageCalls
      <3>2. Left(d)' = calls[d]
        BY <1>10, <2>2
      <3>3. DaysLeft(d)' = UNION {DaysOf(calls[d][i].marks) : i \in DOMAIN calls[d]}
        BY <3>2 DEF DaysLeft, DaysOf
      <3>4. run'.mode = "all" => run'.first .. run'.last \subseteq covered'[d] \cup DaysLeft(d)'
        BY <1>2, <1>6, <3>1, <3>3 DEF SameRequest
      <3>5. \A c \in Cells(d)' : (Wanted(d, c) => Brought(d, c) \/ \E i \in DOMAIN Left(d) : Needs(Left(d)[i], d, c))'
        BY <1>19, <2>1, <3>1, <3>2 DEF Needs, Cells
      <3> QED
        BY <3>4, <3>5 DEF Settled
    <2>3. CASE d \notin now
      <3>1. Left(d)' = <<>> /\ Left(d) = <<>>
        BY <1>8, <1>11, <2>1, <2>3, ThreadEnds
      <3>2. DaysLeft(d)' = DaysLeft(d)
        BY <3>1 DEF DaysLeft, DaysOf
      <3>3. Staged(d) => Staged(d)'
        BY <1>9, <2>1, <2>3
      <3> QED
        BY <1>2, <1>3, <1>6, <1>7, <1>8, <1>12, <1>13, <1>20, <2>1, <3>1, <3>2, <3>3, SettledStays
    <2> QED
      BY <2>2, <2>3
  <1>23. RunInv'
    BY <1>6, <1>21, <1>22 DEF RunInv, SameRequest
  <1> QED
    BY <1>2, <1>13, <1>14, <1>15, <1>16, <1>17, <1>23 DEF SyncInv

LEMMA EndKeeps ==
  ASSUME SyncInv, End
  PROVE  SyncInv'
  <1> DEFINE failed == \E d \in specs : job[d].at = "failed"
             status == IF failed THEN "failed" ELSE "ok"
  <1>1. /\ Running /\ \A d \in specs : job[d].at \in {"idle", "done", "failed"}
        /\ run.stages = <<>> \/ failed
        /\ run' = [run EXCEPT !.status = status]
        /\ job' = [d \in specs |-> Idle]
        /\ UNCHANGED <<specs, source, stored, marks, buffer, faults, pledged, covered>>
    BY DEF End, Running, disk, ghosts
  <1>2. /\ Types /\ Upstream /\ Pledges /\ Checkpoints /\ RunInv /\ run \in Runs /\ run.mode # "none"
        /\ run.first <= run.last /\ run.status = "running" /\ run.selected \subseteq specs /\ run.stages \in Seq(SUBSET specs)
    BY <1>1, RunningIsRun, RunFields DEF SyncInv, Running
  <1>3. run' \in Runs /\ SameRequest /\ run'.stages = run.stages /\ run'.status = status
    <2>1. status \in {"running", "ok", "failed"}
      OBVIOUS
    <2> HIDE DEF status
    <2>2. PICK s : s = run.stages
      OBVIOUS
    <2> QED
      BY <1>1, <1>2, <2>1, <2>2, RunGoesOn
  <1>4. run'.mode # "none" /\ run'.asked = run.asked
    BY <1>2, <1>3 DEF SameRequest
  <1>5. \A d \in specs : job'[d] = Idle /\ job'[d].at = "idle"
    BY <1>1 DEF Idle
  <1>6. \A d \in specs : Left(d) = <<>> /\ Left(d)' = <<>> /\ ThreadInv(d)'
    BY <1>1, <1>5, ThreadEnds DEF Left
  <1>7. AllFlow
    BY <1>1 DEF AllFlow, Flows
  <1>8. Types'
    <2>1. AllVersions' = AllVersions /\ Threads' = Threads /\ Runs' = Runs
      BY <1>1, SameThreads
    <2>2. job' \in [specs -> Threads \cup {Idle}]
      BY <1>1
    <2>3. run' \in Runs /\ run'.first <= run'.last
      BY <1>2, <1>3 DEF SameRequest
    <2> QED
      BY <1>1, <1>2, <1>5, <2>1, <2>2, <2>3 DEF Types
  <1>9. Upstream'
    <2>1. UNCHANGED <<specs, source, pledged>> /\ run.mode # "none"
      BY <1>1, <1>2
    <2> HIDE DEF status
    <2> QED
      BY ONLY <1>2, <1>4, <2>1 DEF Upstream
  <1>10. Pledges' /\ Checkpoints'
    BY <1>1, <1>2 DEF Pledges, Checkpoints, Cells, Apart, DaysOf
  <1>11. RunInv'
    <2>1. CASE failed
      BY <1>3, <2>1 DEF RunInv
    <2>2. CASE ~failed
      <3>1. run.stages = <<>> /\ CalendarFirst /\ \A d \in run.selected : Settled(d)
        BY <1>1, <1>2, <2>2 DEF RunInv
      <3>2. CalendarFirst'
        BY <1>1, <1>2, <1>3, <1>4, <1>7, <1>8, <3>1, CalendarFirstStays
      <3>3. ASSUME NEW d \in run.selected PROVE Settled(d)'
        <4>1. d \in specs /\ job[d].at # "failed" /\ Settled(d) /\ Left(d)' = Left(d) /\ Left(d)' = <<>>
          BY <1>2, <1>6, <2>2, <3>1
        <4>2. DaysLeft(d)' = DaysLeft(d)
          BY <4>1 DEF DaysLeft, DaysOf
        <4>3. Staged(d) => Staged(d)'
          BY <1>3 DEF Staged
        <4> QED
          BY <1>1, <1>2, <1>3, <1>4, <1>7, <1>8, <3>1, <4>1, <4>2, <4>3, SettledStays
      <3> QED
        BY <1>3, <3>1, <3>2, <3>3 DEF RunInv, SameRequest
    <2> QED
      BY <2>1, <2>2
  <1> QED
    BY <1>1, <1>6, <1>8, <1>9, <1>10, <1>11 DEF SyncInv

LEMMA FailKeeps ==
  ASSUME SyncInv, NEW d \in specs, Fail(d)
  PROVE  SyncInv'
  <1>1. /\ job[d].at \in {"fetch", "flush", "mark"} /\ faults < MaxFaults
        /\ job' = [job EXCEPT ![d] = [job[d] EXCEPT !.at = "failed"]]
        /\ faults' = faults + 1
        /\ UNCHANGED <<specs, source, stored, marks, buffer, run, pledged, covered>>
    BY DEF Fail, disk, ghosts
  <1>2. /\ Types /\ Running /\ job[d] \in Threads
    <2>1. Working(d)
      BY <1>1 DEF Working
    <2> QED
      BY <2>1, WorkingThread
  <1>3. PICK j : j = [job[d] EXCEPT !.at = "failed"]
    OBVIOUS
  <1>4. j = Thread("failed", job[d].calls, job[d].rounds, job[d].requests, job[d].got, job[d].flushing)
    BY <1>2, <1>3, ThreadAt, Zenon
  <1>5. j \in Threads /\ j.at = "failed"
    <2>1. /\ job[d].calls \in Seq(CallRecords) /\ job[d].rounds \in Seq(RoundRecords)
          /\ job[d].requests \in SUBSET SUBSET (Int \X AllParts) /\ job[d].got \in Fetched /\ job[d].flushing \in SUBSET Days
      BY <1>2, ThreadIs
    <2>2. Thread("failed", job[d].calls, job[d].rounds, job[d].requests, job[d].got, job[d].flushing) \in Threads
      BY <2>1, ThreadMade
    <2> QED
      BY <1>4, <2>2 DEF Thread
  <1>6. /\ job'[d] = j /\ \A e \in specs : e # d => job'[e] = job[e]
        /\ job' \in [specs -> Threads \cup {Idle}]
    <2>1. job' = [job EXCEPT ![d] = j]
      BY <1>1, <1>3
    <2> QED
      BY <1>1, <1>2, <1>5, <2>1, JobExcept
  <1>7. faults' \in 0 .. MaxFaults
    BY <1>1, <1>2, DatasetFacts DEF Types
  <1>8. Types'
    BY <1>1, <1>2, <1>6, <1>7, TypesStay DEF Types
  <1>9. AllFlow
    BY <1>1 DEF AllFlow, Flows
  <1>10. ThreadInv(d)'
    BY <1>5, <1>6, ThreadEnds
  <1>11. Settled(d)'
    BY <1>5, <1>6 DEF Settled
  <1> QED
    BY <1>1, <1>2, <1>6, <1>8, <1>9, <1>10, <1>11, WorkKeeps

\* Between calls the run's promise is kept by what it has stored.
LEMMA BetweenCalls ==
  ASSUME SyncInv, Types', ~Running, UNCHANGED <<specs, run, job, covered>>, AllFlow
  PROVE  (\A d \in specs : ThreadInv(d)') /\ RunInv'
  <1>1. \A d \in specs : job'[d] = Idle /\ Left(d) = <<>> /\ Left(d)' = <<>> /\ ThreadInv(d)' /\ job[d].at # "failed"
    <2>1. Idle.at = "idle"
      BY DEF Idle
    <2> QED
      BY <2>1, ThreadEnds DEF SyncInv, Types, Left
  <1>2. RunInv'
    <2>1. CASE run.mode = "none" \/ run.status = "failed"
      BY <2>1 DEF RunInv
    <2>2. CASE run.mode # "none" /\ run.status # "failed"
      <3>1. /\ Types /\ Upstream /\ CalendarFirst /\ SameRequest /\ run.selected \subseteq specs
            /\ \A d \in run.selected : Settled(d)
            /\ run.status = "ok" => run.stages = <<>>
        BY <2>2, RunningIsRun, RunFields DEF SyncInv, RunInv, SameRequest
      <3>2. CalendarFirst'
        BY <2>2, <3>1, CalendarFirstStays
      <3>3. ASSUME NEW d \in run.selected PROVE Settled(d)'
        <4>1. d \in specs /\ Settled(d) /\ Left(d)' = Left(d) /\ (Staged(d) => Staged(d)')
          BY <1>1, <3>1 DEF Staged
        <4>2. DaysLeft(d)' = DaysLeft(d) /\ Left(d)' = <<>> /\ job[d].at # "failed"
          BY <1>1, <4>1 DEF DaysLeft, DaysOf
        <4> QED
          BY <2>2, <3>1, <4>1, <4>2, SettledStays
      <3> QED
        BY <3>1, <3>2, <3>3 DEF RunInv
    <2> QED
      BY <2>1, <2>2
  <1> QED
    BY <1>1, <1>2

LEMMA CloseStoreKeeps ==
  ASSUME SyncInv, CloseStore
  PROVE  SyncInv'
  <1>1. /\ ~Running
        /\ stored' = [d \in specs |-> Over(buffer[d], stored[d])]
        /\ buffer' = Nothing
        /\ UNCHANGED <<specs, source, marks, run, job, faults, pledged, covered>>
    BY DEF CloseStore, Running, ghosts
  <1>2. Types /\ Upstream /\ Pledges /\ Checkpoints /\ specs \in Specs /\ stored \in AllVersions /\ buffer \in AllVersions
    BY DEF SyncInv, Types
  <1>3. \A d \in specs : /\ stored'[d] \in [Cells(d) -> 0 .. MaxVersion]
                         /\ \A c \in Cells(d) : stored'[d][c] = IF buffer[d][c] # 0 THEN buffer[d][c] ELSE stored[d][c]
    <2> SUFFICES ASSUME NEW d \in specs
                 PROVE  /\ stored'[d] \in [Cells(d) -> 0 .. MaxVersion]
                        /\ \A c \in Cells(d) : stored'[d][c] = IF buffer[d][c] # 0 THEN buffer[d][c] ELSE stored[d][c]
      OBVIOUS
    <2>1. buffer[d] \in [Cells(d) -> 0 .. MaxVersion] /\ stored[d] \in [Cells(d) -> 0 .. MaxVersion]
      BY <1>2, Versions
    <2>2. stored'[d] = Over(buffer[d], stored[d])
      BY <1>1
    <2> QED
      BY <2>1, <2>2, OverIs
  <1>4. stored' \in AllVersions
    <2>1. stored' = [d \in specs |-> stored'[d]]
      BY <1>1
    <2> QED
      BY <1>3, <2>1, VersionsMade
  <1>5. buffer' \in AllVersions /\ \A d \in specs : \A c \in Cells(d) : buffer'[d][c] = 0
    BY <1>1, <1>2, NothingIs
  <1>6. Types'
    <2>1. AllVersions' = AllVersions /\ Threads' = Threads /\ Runs' = Runs
      BY <1>1, SameThreads
    <2> QED
      BY <1>1, <1>2, <1>4, <1>5, <2>1 DEF Types, Running
  <1>7. AllFlow
    BY <1>3, <1>5 DEF AllFlow, Flows
  <1>8. (\A d \in specs : ThreadInv(d)') /\ RunInv'
    BY <1>1, <1>6, <1>7, BetweenCalls
  <1>9. Upstream'
    BY <1>1, <1>2 DEF Upstream, Cells, Traded
  <1>10. Pledges'
    BY <1>1, <1>2, <1>6, <1>7, PledgesStay
  <1>11. Checkpoints'
    BY <1>1, <1>2 DEF Checkpoints, Apart, DaysOf
  <1> QED
    BY <1>1, <1>6, <1>8, <1>9, <1>10, <1>11 DEF SyncInv

LEMMA CrashKeeps ==
  ASSUME SyncInv, Crash
  PROVE  SyncInv'
  <1>1. /\ faults < MaxFaults /\ faults' = faults + 1
        /\ buffer' = Nothing /\ run' = NoRun
        /\ job' = [d \in specs |-> Idle]
        /\ UNCHANGED <<specs, source, stored, marks, pledged, covered>>
    BY DEF Crash, disk, ghosts
  <1>2. Types /\ Upstream /\ Pledges /\ Checkpoints /\ specs \in Specs
    BY DEF SyncInv, Types
  <1>3. run'.mode = "none" /\ ~Running' /\ \A d \in specs : job'[d] = Idle /\ job'[d].at = "idle"
    BY <1>1 DEF NoRun, Running, Idle
  <1>4. buffer' \in AllVersions /\ \A d \in specs : \A c \in Cells(d) : buffer'[d][c] = 0
    BY <1>1, <1>2, NothingIs
  <1>5. Types'
    <2>1. AllVersions' = AllVersions /\ Threads' = Threads /\ Runs' = Runs
      BY <1>1, SameThreads
    <2>2. faults' \in 0 .. MaxFaults
      BY <1>1, <1>2, DatasetFacts DEF Types
    <2>3. job' \in [specs -> Threads \cup {Idle}]
      BY <1>1
    <2> QED
      BY <1>1, <1>2, <1>3, <1>4, <2>1, <2>2, <2>3 DEF Types
  <1>6. Upstream'
    BY <1>1, <1>2, <1>3 DEF Upstream, Cells, Traded
  <1>7. Pledges'
    BY <1>1, <1>2, <1>4 DEF Pledges, Cells
  <1>8. Checkpoints'
    BY <1>1, <1>2 DEF Checkpoints, Apart, DaysOf
  <1>9. RunInv'
    BY <1>3 DEF RunInv
  <1>10. \A d \in specs : ThreadInv(d)'
    BY <1>3, ThreadEnds
  <1> QED
    BY <1>1, <1>5, <1>6, <1>7, <1>8, <1>9, <1>10 DEF SyncInv

LEMMA PublishKeeps ==
  ASSUME SyncInv, Publish
  PROVE  SyncInv'
  <1>1. PICK dc \in PublishedLater :
          /\ dc[1] \in specs /\ source[dc[1]][dc[2]] < MaxVersion
          /\ Traded(dc[1]) => dc[2][1] \in OpenDays /\ \E e \in PartsOf[Calendar] : source[Calendar][<<dc[2][1], e>>] # 0
          /\ source' = [source EXCEPT ![dc[1]][dc[2]] = @ + 1]
          /\ UNCHANGED <<specs, stored, marks, buffer, run, job, faults, pledged, covered>>
    BY DEF Publish, disk, ghosts
  <1>a. PICK t \in specs : t = dc[1]
    BY <1>1
  <1>b. PICK x \in Cells(t) : x = dc[2]
    BY <1>a, DatasetsAssumption
  <1>2. t = dc[1] /\ x = dc[2]
    BY <1>a, <1>b
  <1>3. Types /\ Upstream /\ Pledges /\ Checkpoints /\ specs \in Specs /\ source \in AllVersions
    BY DEF SyncInv, Types
  <1>4. PICK f : f = [source[t] EXCEPT ![x] = @ + 1]
    OBVIOUS
  <1>5. f \in [Cells(t) -> 0 .. MaxVersion] /\ f[x] = source[t][x] + 1 /\ \A c \in Cells(t) : c # x => f[c] = source[t][c]
    <2>1. source[t] \in [Cells(t) -> 0 .. MaxVersion] /\ source[t][x] + 1 \in 0 .. MaxVersion
      <3>1. source[t] \in [Cells(t) -> 0 .. MaxVersion] /\ source[t][x] \in 0 .. MaxVersion
        BY <1>3, Versions
      <3>2. source[t][x] < MaxVersion /\ MaxVersion \in Nat
        BY <1>1, <1>2, <1>3, DatasetFacts
      <3> QED
        BY <3>1, <3>2
    <2> QED
      BY <1>4, <2>1
  <1>6. source' = [source EXCEPT ![t] = f]
    BY <1>1, <1>2, <1>4
  <1>7. source' \in AllVersions /\ source'[t] = f /\ \A e \in specs : e # t => source'[e] = source[e]
    <2>1. source = [e \in specs |-> source[e]]
      BY <1>3 DEF AllVersions
    <2>2. source' = [e \in specs |-> IF e = t THEN f ELSE source[e]]
      BY <1>6, <2>1
    <2>3. source'[t] = f /\ \A e \in specs : e # t => source'[e] = source[e]
      BY <2>2
    <2>4. source' = [e \in specs |-> source'[e]]
      BY <2>2
    <2>5. \A e \in specs : source'[e] \in [Cells(e) -> 0 .. MaxVersion]
      BY <1>3, <1>5, <2>3, Versions
    <2> QED
      BY <2>3, <2>4, <2>5, VersionsMade
  <1>8. \A e \in specs : \A c \in Cells(e) : /\ source[e][c] \in Nat /\ source'[e][c] \in Nat /\ source[e][c] <= source'[e][c]
                                             /\ source'[e][c] # source[e][c] => e = t /\ c = x
    <2> SUFFICES ASSUME NEW e \in specs, NEW c \in Cells(e)
                 PROVE  /\ source[e][c] \in Nat /\ source'[e][c] \in Nat /\ source[e][c] <= source'[e][c]
                        /\ source'[e][c] # source[e][c] => e = t /\ c = x
      OBVIOUS
    <2>1. source[e][c] \in Nat
      BY <1>3, Numbers
    <2> QED
      BY <1>5, <1>7, <2>1
  <1>9. Types'
    <2>1. AllVersions' = AllVersions /\ Threads' = Threads /\ Runs' = Runs
      BY <1>1, SameThreads
    <2> QED
      BY <1>1, <1>3, <1>7, <2>1 DEF Types, Running
  <1>10. Upstream'
    <2>1. \A e \in specs : \A c \in Cells(e) : pledged[e][c] <= source'[e][c]
      <3> SUFFICES ASSUME NEW e \in specs, NEW c \in Cells(e) PROVE pledged[e][c] <= source'[e][c]
        OBVIOUS
      <3>1. pledged[e][c] <= source[e][c] /\ pledged[e][c] \in Nat
        BY <1>3, Numbers DEF Upstream
      <3> QED
        BY <1>8, <3>1
    <2>2. ASSUME NEW e \in specs, NEW c \in Cells(e), Traded(e), source'[e][c] # 0
          PROVE  c[1] \in OpenDays /\ \E p \in PartsOf[Calendar] : source'[Calendar][<<c[1], p>>] # 0
      <3>1. c[1] \in OpenDays /\ \E p \in PartsOf[Calendar] : source[Calendar][<<c[1], p>>] # 0
        <4>1. CASE source[e][c] # 0
          BY <1>3, <2>2, <4>1 DEF Upstream
        <4>2. CASE source[e][c] = 0
          <5>1. e = t /\ c = x
            BY <1>8, <2>2, <4>2
          <5> QED
            BY <1>1, <1>2, <2>2, <5>1
        <4> QED
          BY <4>1, <4>2
      <3>2. PICK p \in PartsOf[Calendar] : source[Calendar][<<c[1], p>>] # 0
        BY <3>1
      <3>3. <<c[1], p>> \in Cells(Calendar) /\ Calendar \in specs
        BY <1>3, <3>2, Cell, DatasetFacts DEF Cells
      <3>4. source'[Calendar][<<c[1], p>>] # 0
        <4>1. PICK k : k = <<c[1], p>> /\ k \in Cells(Calendar) /\ source[Calendar][k] # 0
          BY <3>2, <3>3
        <4>2. source[Calendar][k] \in Nat /\ source'[Calendar][k] \in Nat /\ source[Calendar][k] <= source'[Calendar][k]
          BY <1>8, <3>3, <4>1
        <4>3. source'[Calendar][k] # 0
          BY <4>1, <4>2
        <4> QED
          BY <4>1, <4>3
      <3> QED
        BY <3>1, <3>4
    <2>3. ASSUME run.mode # "none", NEW e \in specs, NEW c \in Cells(e)
          PROVE  /\ pledged[e][c] <= run.asked[e][c] /\ run.asked[e][c] <= source'[e][c]
                 /\ Traded(e) /\ run.asked[e][c] # 0 =>
                      c[1] \in OpenDays /\ \E p \in PartsOf[Calendar] : run.asked[Calendar][<<c[1], p>>] # 0
      <3>1. /\ pledged[e][c] <= run.asked[e][c] /\ run.asked[e][c] <= source[e][c]
            /\ Traded(e) /\ run.asked[e][c] # 0 =>
                 c[1] \in OpenDays /\ \E p \in PartsOf[Calendar] : run.asked[Calendar][<<c[1], p>>] # 0
            /\ run.asked[e][c] \in Nat
        BY <1>3, <2>3, Numbers DEF Upstream
      <3> QED
        BY <1>8, <3>1
    <2> QED
      BY <1>1, <2>1, <2>2, <2>3 DEF Upstream, Cells, Traded
  <1>11. Pledges' /\ Checkpoints'
    BY <1>1, <1>3 DEF Pledges, Checkpoints, Cells, Apart, DaysOf
  <1>12. AllFlow
    BY <1>1 DEF AllFlow, Flows
  <1>13. (\A d \in specs : ThreadInv(d)') /\ RunInv'
    <2>1. CASE ~Running
      BY <1>1, <1>9, <1>12, <2>1, BetweenCalls
    <2>2. CASE Running
      <3>1. /\ run.mode # "none" /\ CalendarFirst /\ SameRequest /\ run.selected \subseteq specs /\ run.status = "running"
            /\ \A d \in run.selected : Settled(d)
        BY <1>1, <1>3, <2>2, RunningIsRun, RunFields DEF SyncInv, RunInv, SameRequest, Running
      <3>2. \A d \in specs : ThreadInv(d)'
        BY <1>1, <1>3, <1>9, <1>12, <2>2, OtherThread DEF SyncInv
      <3>3. CalendarFirst'
        BY <1>1, <1>3, <1>9, <1>12, <3>1, CalendarFirstStays
      <3>4. ASSUME NEW d \in run.selected PROVE Settled(d)'
        <4>1. d \in specs /\ Settled(d) /\ Left(d)' = Left(d) /\ (Staged(d) => Staged(d)') /\ job'[d] = job[d]
          BY <1>1, <3>1 DEF Staged, Left
        <4>2. DaysLeft(d)' = DaysLeft(d)
          BY <4>1 DEF DaysLeft, DaysOf
        <4> QED
          BY <1>1, <1>3, <1>9, <1>12, <3>1, <4>1, <4>2, SettledStays
      <3> QED
        BY <1>1, <3>1, <3>2, <3>3, <3>4 DEF RunInv
    <2> QED
      BY <2>1, <2>2
  <1> QED
    BY <1>1, <1>9, <1>10, <1>11, <1>13 DEF SyncInv

LEMMA PairIsSomething == ASSUME NEW a, NEW b PROVE <<a, b>> # <<>>
  OBVIOUS

\* What a call asks, as Request and SyncInc build it.
Asking(request, mode, force, first, last, stages, monthly, weekly) ==
  /\ mode \in {"all", "inc"} /\ force \in BOOLEAN /\ first \in Days /\ last \in Days /\ first <= last
  /\ stages \in Seq(SUBSET specs) /\ monthly \in BOOLEAN /\ weekly \in BOOLEAN
  /\ request = [mode |-> mode, status |-> "running", force |-> force, first |-> first, last |-> last, stages |-> stages,
                selected |-> UNION Range(stages), asked |-> source, monthly |-> monthly, weekly |-> weekly]
  /\ mode = "inc" => UNION Range(stages) = specs /\ stages = <<{Calendar}, specs \ {Calendar}>>

\* A call begins: its request is kept with what upstream had, and every dataset it selects is in a stage.
LEMMA StartKeeps ==
  ASSUME SyncInv, NEW request, Start(request),
         NEW mode, NEW force, NEW first, NEW last, NEW stages, NEW monthly, NEW weekly,
         Asking(request, mode, force, first, last, stages, monthly, weekly)
  PROVE  SyncInv'
  <1> USE DEF Asking
  <1> DEFINE selected == UNION Range(stages)
  <1>a. run' = request
    BY DEF Start
  <1>b. selected \in SUBSET specs /\ \A d \in selected : \E i \in DOMAIN stages : d \in stages[i]
    <2>1. \A d : d \in selected <=> \E i \in DOMAIN stages : d \in stages[i]
      BY DEF Range
    <2>2. \A i \in DOMAIN stages : stages[i] \subseteq specs
      OBVIOUS
    <2> QED
      BY <2>1, <2>2
  <1> HIDE DEF selected
  <1>1. /\ job' = [d \in specs |-> Idle]
        /\ UNCHANGED <<specs, source, stored, marks, buffer, faults, pledged, covered>>
    BY DEF Start, disk, ghosts
  <1>2. Types /\ Upstream /\ Pledges /\ Checkpoints /\ specs \in Specs /\ source \in AllVersions
    BY DEF SyncInv, Types
  <1>3. /\ run' \in Runs /\ run'.mode = mode /\ run'.status = "running" /\ run'.first = first /\ run'.last = last
        /\ run'.stages = stages /\ run'.selected = selected /\ run'.asked = source /\ run'.mode # "none"
    <2> DEFINE A == {"all", "inc"}
               B == {"running", "ok", "failed"}
               C == Seq(SUBSET specs)
               D == SUBSET specs
               E == AllVersions
               F == BOOLEAN
    <2>1. Runs = [mode : A, status : B, force : F, first : Days, last : Days,
                  stages : C, selected : D, asked : E, monthly : F, weekly : F]
      BY DEF Runs
    <2>2. mode \in A /\ "running" \in B /\ force \in F /\ stages \in C /\ selected \in D /\ source \in E /\ monthly \in F /\ weekly \in F
      BY <1>2, <1>b
    <2>3. mode # "none"
      OBVIOUS
    <2>4. run' = [mode |-> mode, status |-> "running", force |-> force, first |-> first, last |-> last, stages |-> stages,
                  selected |-> selected, asked |-> source, monthly |-> monthly, weekly |-> weekly]
      BY <1>a DEF selected
    <2> HIDE DEF A, B, C, D, E, F
    <2> QED
      BY <2>1, <2>2, <2>3, <2>4
  <1>4. Running' /\ \A d \in specs : job'[d] = Idle /\ job'[d].at = "idle"
    BY <1>1, <1>3 DEF Running, Idle
  <1>5. Types'
    <2>1. AllVersions' = AllVersions /\ Threads' = Threads /\ Runs' = Runs
      BY <1>1, SameThreads
    <2>2. job' \in [specs -> Threads \cup {Idle}]
      BY <1>1
    <2> QED
      BY <1>1, <1>2, <1>3, <1>4, <2>1, <2>2 DEF Types
  <1> HIDE DEF Asking
  <1>6. Upstream'
    <2>1. \A d \in specs : \A c \in Cells(d) :
            /\ pledged[d][c] <= source[d][c] /\ source[d][c] <= source[d][c]
            /\ Traded(d) /\ source[d][c] # 0 => c[1] \in OpenDays /\ \E e \in PartsOf[Calendar] : source[Calendar][<<c[1], e>>] # 0
      BY <1>2, Numbers DEF Upstream
    <2> QED
      BY <1>1, <1>3, <2>1 DEF Upstream, Cells, Traded
  <1>7. Pledges' /\ Checkpoints'
    BY <1>1, <1>2 DEF Pledges, Checkpoints, Cells, Apart, DaysOf
  <1>8. \A d \in specs : ThreadInv(d)'
    BY <1>4, ThreadEnds
  <1>9. RunInv'
    <2>1. CalendarFirst'
      <3>1. mode = "inc" => stages # <<>> /\ selected = specs /\ stages = <<{Calendar}, specs \ {Calendar}>>
        BY PairIsSomething DEF Asking, selected
      <3> QED
        BY <1>1, <1>3, <3>1 DEF CalendarFirst, selected
    <2>2. \A d \in selected : Settled(d)'
      BY <1>3, <1>b DEF Settled, Staged
    <2> QED
      BY <1>3, <2>1, <2>2 DEF RunInv
  <1> QED
    BY <1>1, <1>5, <1>6, <1>7, <1>8, <1>9 DEF SyncInv

\* The calendar, and then the rest.
LEMMA TwoStages ==
  ASSUME specs \in Specs
  PROVE  LET stages == <<{Calendar}, specs \ {Calendar}>>
         IN  stages \in Seq(SUBSET specs) /\ UNION Range(stages) = specs
  <1> DEFINE stages == <<{Calendar}, specs \ {Calendar}>>
  <1>1. Calendar \in specs
    BY DatasetFacts
  <1>2. stages \in Seq(SUBSET specs)
    BY <1>1
  <1>3. DOMAIN stages = {1, 2} /\ stages[1] = {Calendar} /\ stages[2] = specs \ {Calendar}
    OBVIOUS
  <1> HIDE DEF stages
  <1>4. \A d : d \in UNION Range(stages) <=> d = Calendar \/ d \in specs \ {Calendar}
    BY <1>3 DEF Range
  <1>5. UNION Range(stages) = specs
    BY <1>1, <1>4
  <1> QED
    BY <1>2, <1>5 DEF stages

LEMMA SyncAllKeeps ==
  ASSUME SyncInv, NEW range \in Backfills, NEW force \in BOOLEAN, SyncAll(range, force)
  PROVE  SyncInv'
  <1> DEFINE stages == <<{Calendar}, specs \ {Calendar}>>
  <1>1. PICK request : request = Request("all", force, range, stages) /\ Start(request)
    BY DEF SyncAll
  <1>2. stages \in Seq(SUBSET specs)
    BY TwoStages DEF SyncInv, Types
  <1>3. range[1] \in Days /\ range[2] \in Days /\ range[1] <= range[2]
    BY CallsAssumption
  <1> HIDE DEF stages
  <1>4. request = [mode |-> "all", status |-> "running", force |-> force, first |-> range[1], last |-> range[2], stages |-> stages,
                   selected |-> UNION Range(stages), asked |-> source, monthly |-> FALSE, weekly |-> FALSE]
    BY <1>1 DEF Request
  <1>5. "all" \in {"all", "inc"} /\ FALSE \in BOOLEAN /\ "all" # "inc"
    OBVIOUS
  <1>6. Asking(request, "all", force, range[1], range[2], stages, FALSE, FALSE)
    BY <1>2, <1>3, <1>4, <1>5, Zenon DEF Asking
  <1> QED
    BY <1>1, <1>6, StartKeeps

LEMMA SyncDatasetsKeeps ==
  ASSUME SyncInv, NEW selection \in Selections, NEW force \in BOOLEAN, SyncDatasets(selection, force)
  PROVE  SyncInv'
  <1> DEFINE range == selection.range
             datasets == selection.datasets
             stages == [i \in DOMAIN datasets |-> {datasets[i]}]
  <1>1. PICK request : request = Request("all", force, range, stages) /\ Start(request)
    BY DEF SyncDatasets
  <1>2. Range(datasets) \subseteq specs
    BY DEF SyncDatasets
  <1>3. range[1] \in Days /\ range[2] \in Days /\ range[1] <= range[2] /\ datasets \in Seq(Datasets)
    BY CallsAssumption
  <1>4. stages \in Seq(SUBSET specs)
    <2>1. DOMAIN datasets = 1 .. Len(datasets) /\ Len(datasets) \in Nat
      BY <1>3
    <2>2. \A i \in DOMAIN datasets : {datasets[i]} \in SUBSET specs
      BY <1>2 DEF Range
    <2>3. stages \in [1 .. Len(datasets) -> SUBSET specs]
      BY <2>1, <2>2
    <2> HIDE DEF stages
    <2> QED
      BY <2>1, <2>3, FunctionIsSequence
  <1> HIDE DEF stages, datasets
  <1>5. request = [mode |-> "all", status |-> "running", force |-> force, first |-> range[1], last |-> range[2], stages |-> stages,
                   selected |-> UNION Range(stages), asked |-> source, monthly |-> FALSE, weekly |-> FALSE]
    BY <1>1 DEF Request
  <1>6. "all" \in {"all", "inc"} /\ FALSE \in BOOLEAN /\ "all" # "inc"
    OBVIOUS
  <1>7. Asking(request, "all", force, range[1], range[2], stages, FALSE, FALSE)
    BY <1>3, <1>4, <1>5, <1>6, Zenon DEF Asking
  <1> QED
    BY <1>1, <1>7, StartKeeps

LEMMA SyncIncKeeps ==
  ASSUME SyncInv, SyncInc
  PROVE  SyncInv'
  <1> DEFINE stages == <<{Calendar}, specs \ {Calendar}>>
  <1>1. PICK call \in IncCalls :
          Start([Request("inc", TRUE, <<call.today, call.today>>, stages) EXCEPT !.monthly = call.monthly, !.weekly = call.weekly])
    BY DEF SyncInc
  <1>2. stages \in Seq(SUBSET specs) /\ UNION Range(stages) = specs
    BY TwoStages DEF SyncInv, Types
  <1>3. call.today \in Days /\ call.today <= call.today /\ call.monthly \in BOOLEAN /\ call.weekly \in BOOLEAN
    BY CallsAssumption DEF Days
  <1>4. stages = <<{Calendar}, specs \ {Calendar}>>
    OBVIOUS
  <1> HIDE DEF stages
  <1>5. PICK today, m, w : today = call.today /\ m = call.monthly /\ w = call.weekly
    OBVIOUS
  <1>6. PICK request : request = Request("inc", TRUE, <<today, today>>, stages)
    OBVIOUS
  <1>7. request = [mode |-> "inc", status |-> "running", force |-> TRUE, first |-> today, last |-> today, stages |-> stages,
                   selected |-> UNION Range(stages), asked |-> source, monthly |-> FALSE, weekly |-> FALSE]
    BY <1>6 DEF Request
  <1>8. PICK asking : asking = [request EXCEPT !.monthly = m, !.weekly = w]
    OBVIOUS
  <1>9. asking = [mode |-> "inc", status |-> "running", force |-> TRUE, first |-> today, last |-> today, stages |-> stages,
                  selected |-> UNION Range(stages), asked |-> source, monthly |-> m, weekly |-> w]
    BY <1>7, <1>8
  <1>10. Start(asking)
    BY <1>1, <1>5, <1>6, <1>8
  <1>11. today \in Days /\ today <= today /\ m \in BOOLEAN /\ w \in BOOLEAN
    BY <1>3, <1>5
  <1>12. Asking(asking, "inc", TRUE, today, today, stages, m, w)
    <2>1. "inc" \in {"all", "inc"} /\ TRUE \in BOOLEAN
      OBVIOUS
    <2> QED
      BY <1>2, <1>4, <1>9, <1>11, <2>1, Zenon DEF Asking
  <1> QED
    BY <1>10, <1>12, StartKeeps

LEMMA InitInv ==
  ASSUME Init
  PROVE  SyncInv
  <1>1. specs \in Specs /\ stored = Nothing /\ buffer = Nothing /\ pledged = Nothing /\ run = NoRun /\ faults = 0
    BY DEF Init
  <1>2. /\ Nothing \in AllVersions /\ \A d \in specs : \A c \in Cells(d) : Nothing[d][c] = 0
        /\ MaxVersion \in Nat \ {0} /\ MaxFaults \in Nat /\ specs \subseteq Datasets /\ Calendar \in specs
    BY <1>1, NothingIs, DatasetFacts
  <1>3. \A d \in specs : \A c \in Cells(d) : source[d][c] = IF <<d, c>> \in Published THEN 1 ELSE 0
    BY DEF Init
  <1>4. source \in AllVersions
    <2>1. source = [d \in specs |-> source[d]] /\ \A d \in specs : source[d] = [c \in Cells(d) |-> IF <<d, c>> \in Published THEN 1 ELSE 0]
      BY DEF Init
    <2>2. 0 \in 0 .. MaxVersion /\ 1 \in 0 .. MaxVersion
      BY <1>2
    <2>3. \A d \in specs : source[d] \in [Cells(d) -> 0 .. MaxVersion]
      BY <2>1, <2>2
    <2> QED
      BY <2>1, <2>3, VersionsMade
  <1>5. run.mode = "none" /\ run.status = "ok" /\ ~Running
    BY <1>1 DEF NoRun, Running
  <1>6. \A d \in specs : job[d] = Idle /\ marks[d] = <<>> /\ covered[d] = {}
    BY DEF Init
  <1>7. Types
    <2>1. marks \in [specs -> Seq(Days \X Days)]
      BY DEF Init
    <2>2. covered \in [specs -> SUBSET Days]
      BY DEF Init
    <2>3. job \in [specs -> Threads \cup {Idle}]
      BY DEF Init
    <2> QED
      BY <1>1, <1>2, <1>4, <1>6, <2>1, <2>2, <2>3 DEF Types
  <1>8. Upstream
    <2>1. ASSUME NEW d \in specs, NEW c \in Cells(d), Traded(d), source[d][c] # 0
          PROVE  c[1] \in OpenDays /\ \E e \in PartsOf[Calendar] : source[Calendar][<<c[1], e>>] # 0
      <3>1. <<d, c>> \in Published
        BY <1>3, <2>1
      <3>2. c[1] \in OpenDays /\ \E e \in PartsOf[Calendar] : <<Calendar, <<c[1], e>>>> \in Published
        <4>1. PICK dc \in Published : dc = <<d, c>> /\ dc[1] = d /\ dc[2] = c
          BY <3>1
        <4>2. dc[2][1] \in OpenDays /\ \E e \in PartsOf[Calendar] : <<Calendar, <<dc[2][1], e>>>> \in Published
          BY <2>1, <4>1, CalendarAssumption
        <4> QED
          BY <4>1, <4>2
      <3>3. PICK e \in PartsOf[Calendar] : <<Calendar, <<c[1], e>>>> \in Published
        BY <3>2
      <3>4. <<c[1], e>> \in Cells(Calendar)
        BY <3>3, Cell DEF Cells
      <3> QED
        BY <1>2, <1>3, <3>2, <3>3, <3>4
    <2>2. \A d \in specs : \A c \in Cells(d) : pledged[d][c] <= source[d][c]
      <3>1. \A d \in specs : \A c \in Cells(d) : pledged[d][c] = 0 /\ (source[d][c] = 1 \/ source[d][c] = 0)
        BY <1>1, <1>2, <1>3
      <3>2. \A d \in specs : \A c \in Cells(d) : pledged[d][c] <= source[d][c]
        <4> SUFFICES ASSUME NEW d \in specs, NEW c \in Cells(d) PROVE pledged[d][c] <= source[d][c]
          OBVIOUS
        <4>1. pledged[d][c] = 0 /\ (source[d][c] = 1 \/ source[d][c] = 0)
          BY <3>1
        <4> QED
          BY <4>1
      <3> QED
        BY <3>2
    <2> QED
      BY <1>5, <2>1, <2>2 DEF Upstream
  <1>9. Pledges
    <2>1. \A d \in specs : \A c \in Cells(d) : stored[d][c] = 0 /\ pledged[d][c] = 0 /\ buffer[d][c] = 0
      BY <1>1, <1>2
    <2> QED
      BY <2>1 DEF Pledges
  <1>10. Checkpoints
    <2>1. Apart(<<>>) /\ DaysOf(<<>>) = {}
      BY DEF Apart, DaysOf
    <2> QED
      BY <1>6, <2>1 DEF Checkpoints
  <1>11. \A d \in specs : ThreadInv(d)
    BY <1>6, IdleThread
  <1>12. RunInv
    BY <1>5 DEF RunInv
  <1> QED
    BY <1>7, <1>8, <1>9, <1>10, <1>11, <1>12 DEF SyncInv

LEMMA UnchangedKeeps ==
  ASSUME SyncInv, UNCHANGED vars
  PROVE  SyncInv'
  <1>1. UNCHANGED <<specs, source, stored, marks, buffer, run, job, faults, pledged, covered>>
    BY DEF vars
  <1>2. Types /\ Upstream /\ Pledges /\ Checkpoints /\ AllFlow /\ SameRequest
    BY <1>1 DEF SyncInv, AllFlow, Flows, SameRequest
  <1>3. Types'
    <2>1. AllVersions' = AllVersions /\ Threads' = Threads /\ Runs' = Runs
      BY <1>1, SameThreads
    <2> QED
      BY <1>1, <1>2, <2>1 DEF Types, Running
  <1>4. Upstream'
    BY <1>1, <1>2 DEF Upstream, Cells, Traded
  <1>5. Pledges' /\ Checkpoints'
    BY <1>1, <1>2 DEF Pledges, Checkpoints, Cells, Apart, DaysOf
  <1>6. CASE ~Running
    BY <1>1, <1>2, <1>3, <1>4, <1>5, <1>6, BetweenCalls DEF SyncInv
  <1>7. CASE Running
    <2>1. /\ run.mode # "none" /\ CalendarFirst /\ run.selected \subseteq specs /\ run.status = "running"
          /\ \A d \in run.selected : Settled(d)
      BY <1>2, <1>7, RunningIsRun, RunFields DEF SyncInv, RunInv, Running
    <2>2. \A d \in specs : ThreadInv(d)'
      BY <1>1, <1>2, <1>3, <1>7, OtherThread DEF SyncInv
    <2>3. CalendarFirst'
      BY <1>1, <1>2, <1>3, <2>1, CalendarFirstStays
    <2>4. ASSUME NEW d \in run.selected PROVE Settled(d)'
      <3>1. d \in specs /\ Settled(d) /\ Left(d)' = Left(d) /\ (Staged(d) => Staged(d)') /\ job'[d] = job[d]
        BY <1>1, <2>1 DEF Staged, Left
      <3>2. DaysLeft(d)' = DaysLeft(d)
        BY <3>1 DEF DaysLeft, DaysOf
      <3> QED
        BY <1>1, <1>2, <1>3, <2>1, <3>1, <3>2, SettledStays
    <2>5. RunInv'
      BY <1>1, <2>1, <2>3, <2>4 DEF RunInv
    <2> QED
      BY <1>1, <1>3, <1>4, <1>5, <2>2, <2>5 DEF SyncInv
  <1> QED
    BY <1>6, <1>7

\* Whatever the process, upstream or a fault does next.
LEMMA NextKeeps ==
  ASSUME SyncInv, [Next]_vars
  PROVE  SyncInv'
  <1>1. CASE Publish
    BY <1>1, PublishKeeps
  <1>2. CASE NextStage
    BY <1>2, NextStageKeeps
  <1>3. CASE End
    BY <1>3, EndKeeps
  <1>4. ASSUME NEW d \in specs, Work(d)
        PROVE  SyncInv'
    BY <1>4, EnterCallKeeps, FetchKeeps, AppendRowsKeeps, FlushPartitionKeeps, WroteKeeps, MarkKeeps DEF Work
  <1>5. CASE CloseStore
    BY <1>5, CloseStoreKeeps
  <1>6. CASE Crash
    BY <1>6, CrashKeeps
  <1>7. ASSUME NEW force \in BOOLEAN, NEW range \in Backfills, SyncAll(range, force)
        PROVE  SyncInv'
    BY <1>7, SyncAllKeeps
  <1>8. ASSUME NEW force \in BOOLEAN, NEW selection \in Selections, SyncDatasets(selection, force)
        PROVE  SyncInv'
    BY <1>8, SyncDatasetsKeeps
  <1>9. CASE SyncInc
    BY <1>9, SyncIncKeeps
  <1>10. ASSUME NEW d \in specs, Fail(d)
         PROVE  SyncInv'
    BY <1>10, FailKeeps
  <1>11. CASE UNCHANGED vars
    BY <1>11, UnchangedKeeps
  <1> QED
    BY <1>1, <1>2, <1>3, <1>4, <1>5, <1>6, <1>7, <1>8, <1>9, <1>10, <1>11 DEF Next, Proceed

\* The threads of a call, whatever upstream publishes, which steps fail and when the process
\* crashes: what they have fetched, buffered, committed and marked fits together.
THEOREM Invariance == Spec => []SyncInv
  <1>1. Init => SyncInv
    BY InitInv
  <1>2. SyncInv /\ [Next]_vars => SyncInv'
    BY NextKeeps
  <1> QED
    BY <1>1, <1>2, PTL DEF Spec

-----------------------------------------------------------------------------
(* What the invariant says of the checkpoints, the requests and the result *)
(* of a call.                                                              *)

\* sync.py, sync_all: the file of a dataset is written after its blocks.  What upstream had of a marked
\* day as the call began is committed, and no flush of another thread or of a later call puts less there.
THEOREM PledgesAreKept == Spec => []MarkedIsStored
  <1>1. SyncInv => MarkedIsStored
    BY DEF SyncInv, Pledges, MarkedIsStored
  <1> QED
    BY <1>1, Invariance, PTL

LEMMA TypesImplyTypeOK ==
  ASSUME Types
  PROVE  TypeOK
  <1>1. specs \in Specs /\ covered \in [specs -> SUBSET Days] /\ faults \in 0 .. MaxFaults
    BY DEF Types
  <1>2. \A d \in specs : \A versions \in {source, stored, buffer, pledged} : versions[d] \in [Cells(d) -> 0 .. MaxVersion]
    BY Versions DEF Types
  <1>3. run.status \in {"running", "ok", "failed"}
    <2>1. NoRun.status = "ok"
      BY DEF NoRun
    <2> QED
      BY <2>1, RunFields DEF Types
  <1>4. \A d \in specs : job[d].at \in {"idle", "call", "fetch", "flush", "mark", "done", "failed"}
    <2>1. Idle.at = "idle"
      BY DEF Idle
    <2> QED
      BY <2>1, ThreadFields DEF Types
  <1>5. run.status # "running" => \A d \in specs : job[d] = Idle
    BY DEF Types, Running
  <1> QED
    BY <1>1, <1>2, <1>3, <1>4, <1>5 DEF TypeOK

\* Ranges that are apart neither overlap nor touch.
LEMMA ApartIs ==
  ASSUME NEW rs, Apart(rs)
  PROVE  /\ \A i \in DOMAIN rs : rs[i][1] <= rs[i][2]
         /\ \A i \in 1 .. Len(rs) - 1 : rs[i][2] + 1 < rs[i + 1][1]
  <1>1. rs \in Seq(Int \X Int) /\ DOMAIN rs = 1 .. Len(rs) /\ Len(rs) \in Nat
    BY DEF Apart
  <1>2. \A i \in 1 .. Len(rs) - 1 : i \in DOMAIN rs /\ i + 1 \in DOMAIN rs /\ i < i + 1
    BY <1>1
  <1> QED
    BY <1>2 DEF Apart

\* sync.py, _mark_sync_all_completed and _missing_date_ranges: the file of a dataset has exactly the days
\* that were ever marked, and a call asks for exactly the days of its request that it lacks.
THEOREM CheckpointsAreExact == Spec => []RangesExact
  <1>1. SyncInv => RangesExact
    <2> SUFFICES ASSUME SyncInv
                 PROVE  RangesExact
      OBVIOUS
    <2>1. Types /\ Checkpoints /\ TypeOK
      BY TypesImplyTypeOK DEF SyncInv
    <2>2. ASSUME NEW d \in specs
          PROVE  /\ DaysOf(marks[d]) = covered[d]
                 /\ \A i \in DOMAIN marks[d] : marks[d][i][1] <= marks[d][i][2]
                 /\ \A i \in 1 .. Len(marks[d]) - 1 : marks[d][i][2] + 1 < marks[d][i + 1][1]
      <3>1. Apart(marks[d]) /\ DaysOf(marks[d]) = covered[d]
        BY <2>1 DEF Checkpoints
      <3> QED
        BY <3>1, ApartIs
    <2>3. ASSUME NEW d \in specs, NEW first \in Days, NEW last \in first .. LastDay
          PROVE  LET missing == MissingDateRanges(first, last, marks[d])
                 IN /\ DaysOf(missing) = (first .. last) \ covered[d]
                    /\ \A i \in 1 .. Len(missing) - 1 : missing[i][2] + 1 < missing[i + 1][1]
      <3> DEFINE missing == MissingDateRanges(first, last, marks[d])
      <3>1. Apart(marks[d]) /\ DaysOf(marks[d]) = covered[d]
        BY <2>1 DEF Checkpoints
      <3>2. first \in Int /\ last \in Int
        BY DEF Days
      <3>3. Apart(missing) /\ \A day \in Int : day \in DaysOf(missing) <=> first <= day /\ day <= last /\ day \notin covered[d]
        BY <3>1, <3>2, MissingIs
      <3> HIDE DEF missing
      <3>4. \A day \in DaysOf(missing) : day \in Int
        BY <3>3, DaysAre DEF Apart
      <3>5. DaysOf(missing) = (first .. last) \ covered[d]
        BY <3>2, <3>3, <3>4
      <3>6. \A i \in 1 .. Len(missing) - 1 : missing[i][2] + 1 < missing[i + 1][1]
        BY <3>3, ApartIs
      <3> QED
        BY <3>5, <3>6 DEF missing
    <2> QED
      BY <2>1, <2>2, <2>3 DEF RangesExact
  <1> QED
    BY <1>1, Invariance, PTL

\* sync.py, _sync_all_dataset: a sync_all that is run again requests no day of its dataset that is complete.
THEOREM NothingCompleteIsAsked == Spec => []AsksOnlyForMissing
  <1>1. SyncInv => AsksOnlyForMissing
    <2> SUFFICES ASSUME SyncInv, NEW d \in specs, At(d, "fetch"), job[d].requests # {}, Table(d) = d,
                        run.mode = "all", ~run.force, KindOf[d] # "snapshot", NEW c \in NextRequest(d)
                 PROVE  c[1] \notin covered[d]
      BY DEF AsksOnlyForMissing
    <2>1. Types /\ CallsOK(d) /\ RoundsOK(d) /\ FetchOK(d) /\ NothingTwice(d)
      BY DEF SyncInv, ThreadInv
    <2>2. job[d] # Idle /\ Working(d) /\ job[d].at = "fetch"
      BY DEF At, Working, Idle
    <2>3. Running /\ job[d] \in Threads
      BY <2>1, <2>2 DEF Types
    <2>4. job[d].calls \in Seq(CallRecords) /\ job[d].rounds \in Seq(RoundRecords)
      BY <2>3, ThreadFields
    <2>5. job[d].calls # <<>> /\ job[d].rounds # <<>> /\ 1 \in DOMAIN job[d].calls /\ 1 \in DOMAIN job[d].rounds
      BY <2>1, <2>2, <2>4 DEF RoundsOK
    <2>6. Head(job[d].calls) = job[d].calls[1] /\ Head(job[d].rounds) = job[d].rounds[1] /\ Left(d) = job[d].calls
      BY <2>2, <2>4, <2>5 DEF Left
    <2> DEFINE call == job[d].calls[1]
               round == job[d].rounds[1]
    <2>7. call.first \in Int /\ call.last \in Int /\ round.first \in Int /\ round.last \in Int
      <3>1. call \in CallRecords /\ round \in RoundRecords
        BY <2>4, <2>5
      <3>2. \A r \in CallRecords : r.first \in Int /\ r.last \in Int
        BY DEF CallRecords, Days
      <3>3. \A r \in RoundRecords : r.first \in Int /\ r.last \in Int
        BY DEF RoundRecords
      <3> QED
        BY <3>1, <3>2, <3>3
    <2>8. call.first <= round.first /\ round.last <= call.last
      BY <2>1, <2>2, <2>5, <2>6 DEF RoundsOK, Task, Table
    <2>9. NextRequest(d) \in job[d].requests
      BY DEF NextRequest
    <2>10. c[1] \in round.first .. round.last
      BY <2>1, <2>6, <2>9 DEF FetchOK
    <2>11. c[1] \in call.first .. call.last
      BY <2>7, <2>8, <2>10
    <2> QED
      BY <2>1, <2>3, <2>5, <2>6, <2>11 DEF NothingTwice
  <1> QED
    BY <1>1, Invariance, PTL

\* sync.py, sync_all, sync_datasets and sync_inc: a call that returns without an error has marked the days
\* that it was asked for, and with force, or in its window, stored all that upstream had as it began.
THEOREM SuccessIsEarned == Spec => []SuccessMeansFetched
  <1>1. SyncInv => SuccessMeansFetched
    <2> SUFFICES ASSUME SyncInv, run.mode # "none", run.status = "ok", NEW d \in run.selected
                 PROVE  /\ run.mode = "all" => run.first .. run.last \subseteq covered[d]
                        /\ \A c \in Cells(d) :
                             (\/ run.mode = "all" /\ run.force /\ (KindOf[d] = "snapshot" \/ c[1] \in run.first .. run.last)
                              \/ run.mode = "inc" /\ InWindow(d, c[1]))
                             => stored[d][c] >= run.asked[d][c]
      BY DEF SuccessMeansFetched
    <2>1. Types /\ RunInv /\ ~Running
      BY DEF SyncInv, Running
    <2>2. run \in Runs /\ d \in specs
      BY <2>1, RunningIsRun, RunFields
    <2>3. run.stages = <<>> /\ Settled(d) /\ job[d] = Idle
      BY <2>1, <2>2 DEF RunInv, Types
    <2>4. job[d].at = "idle" /\ Left(d) = <<>> /\ ~Staged(d)
      BY <2>3 DEF Idle, Left, Staged
    <2>5. DaysLeft(d) = {}
      BY <2>4 DEF DaysLeft
    <2>6. /\ run.mode = "all" => run.first .. run.last \subseteq covered[d]
          /\ \A c \in Cells(d) : Wanted(d, c) => stored[d][c] >= run.asked[d][c]
      BY <2>3, <2>4, <2>5 DEF Settled, Brought
    <2>7. \A c \in Cells(d) : run.asked[d][c] = 0 => stored[d][c] >= run.asked[d][c]
      BY <2>1, <2>2, Numbers
    <2> QED
      BY <2>6, <2>7 DEF Wanted
  <1> QED
    BY <1>1, Invariance, PTL
=============================================================================
