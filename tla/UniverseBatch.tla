---------------------------- MODULE UniverseBatch ----------------------------
(***************************************************************************)
(* run_universe_batch (data/universe_batch.py): the universe of every day  *)
(* of a range from the normalised tables, with a progress file per day so  *)
(* that a killed batch continues where it was. A batch is told the hash of *)
(* its dataset, which names the progress directory; what it reads is the   *)
(* manifests of the store at its start and the tables at each new period.  *)
(* One batch runs at a time; a check run has its own progress directory.   *)
(***************************************************************************)
EXTENDS ArchiveStore

CONSTANTS RankingInterval, RequiredIntervals, FirstDay, LastDay, Versions, MaxRuns

ASSUME RangeAssumption == {FirstDay, LastDay} \subseteq Int /\ Absent \notin Int

VARIABLES
  progress,   \* the snapshot named by the progress file of each version and day
  snapshots,  \* the snapshot files
  universes,  \* the results written
  run,        \* the batch that runs
  runs

universeVars == <<progress, snapshots, universes, run, runs>>

NotRunning == [version |-> Absent]
NoSnapshot == [day |-> Absent]
NoPeriod == Absent

UniverseInit ==
  /\ progress = [v \in Versions |-> [d \in FirstDay .. LastDay |-> NoSnapshot]]
  /\ snapshots = {} /\ universes = {} /\ run = NotRunning /\ runs = 0

----------------------------------------------------------------------------
(* Reading the store *)

IndexRaises == \E i \in Items : Cardinality(manifest[i]) > 1

\* _manifest_index: the one manifest of each item.
Index == [i \in {i \in Items : manifest[i] # {}} |-> CHOOSE m \in manifest[i] : TRUE]

Item(s, interval, period) == [symbol |-> s, interval |-> interval, period |-> period]

\* The manifest names its table by its place, not by its hash.
TableOf(i, index) == table[i][index[i].content]
Readable(i, index) == TableOf(i, index) # Absent /\ TableOf(i, index).whole

\* _period_ranking_frames and _period_evidence: a symbol without a manifest has
\* no rows, one whose table cannot be read is blocked.
PeriodInput(period, index) ==
  LET ranked == {s \in Symbols : Item(s, RankingInterval, period) \in DOMAIN index}
      read == {s \in ranked : Readable(Item(s, RankingInterval, period), index)}
  IN  [period |-> period,
       frames |-> [s \in read |-> TableOf(Item(s, RankingInterval, period), index).rows],
       blocks |-> ranked \ read,
       evidence |-> {s \in Symbols : \A interval \in RequiredIntervals :
                                       Item(s, interval, period) \in DOMAIN index}]

----------------------------------------------------------------------------
(* run_universe_batch *)

BeginRun(version, reuse) ==
  /\ run = NotRunning /\ runs < MaxRuns /\ ~IndexRaises
  /\ runs' = runs + 1
  /\ run' = [version |-> version, reuse |-> reuse, index |-> Index, day |-> FirstDay,
             input |-> [period |-> NoPeriod], built |-> NoSnapshot,
             days |-> [d \in {} |-> 0], failed |-> {}, pickedUp |-> {}]
  /\ UNCHANGED <<storeVars, progress, snapshots, universes>>

Building == run # NotRunning /\ run.built = NoSnapshot /\ run.day <= LastDay

HasProgress == progress[run.version][run.day] # NoSnapshot

Accept(snapshot) ==
  [run EXCEPT !.day = @ + 1, !.built = NoSnapshot,
              !.days = [d \in DOMAIN @ \cup {run.day} |-> IF d = run.day THEN snapshot ELSE @[d]]]

FailDay == [run EXCEPT !.day = @ + 1, !.built = NoSnapshot, !.failed = @ \cup {run.day}]

\* _reuse_snapshot, which needs the snapshot file.
ReuseDay ==
  /\ Building /\ run.reuse /\ HasProgress
  /\ run' = IF progress[run.version][run.day] \in snapshots
            THEN [Accept(progress[run.version][run.day]) EXCEPT !.pickedUp = @ \cup {run.day}]
            ELSE FailDay
  /\ UNCHANGED <<storeVars, progress, snapshots, universes, runs>>

\* A day is ranked on the day before it.
RankingPeriod(day) == PeriodOf(day - 1)

Input == LET period == RankingPeriod(run.day)
         IN  IF run.input.period = period THEN run.input ELSE PeriodInput(period, run.index)

\* write_universe_snapshot, whose file is named by the hash of what it holds.
WriteSnapshot(snapshot) == snapshots' = snapshots \cup {snapshot}

BuildDay ==
  /\ Building /\ ~(run.reuse /\ HasProgress)
  /\ LET snapshot == Snapshot(run.day - 1, Input)
     IN  /\ WriteSnapshot(snapshot)
         /\ run' = [run EXCEPT !.input = Input, !.built = snapshot]
  /\ UNCHANGED <<storeVars, progress, universes, runs>>

\* Faulty: the progress of an earlier run is overwritten.
ProgressStandsFaulty(old, new) == TRUE

\* _atomic_write keeps a file that is there and refuses other content.
ProgressStands(old, new) == old \in {NoSnapshot, new}

RecordProgress ==
  /\ run # NotRunning /\ run.built # NoSnapshot
  /\ IF ProgressStands(progress[run.version][run.day], run.built)
     THEN /\ progress' = [progress EXCEPT ![run.version][run.day] = run.built]
          /\ run' = Accept(run.built)
     ELSE run' = FailDay /\ UNCHANGED progress
  /\ UNCHANGED <<storeVars, snapshots, universes, runs>>

Result == [version |-> run.version, days |-> run.days, failed |-> run.failed]

FinishUniverse ==
  /\ run # NotRunning /\ run.day > LastDay
  /\ universes' = universes \cup {Result}
  /\ run' = NotRunning
  /\ UNCHANGED <<storeVars, progress, snapshots, runs>>

KillRun ==
  /\ run # NotRunning
  /\ run' = NotRunning
  /\ UNCHANGED <<storeVars, progress, snapshots, universes, runs>>

UniverseNext ==
  \/ \E version \in Versions, reuse \in BOOLEAN : BeginRun(version, reuse)
  \/ ReuseDay \/ BuildDay \/ RecordProgress \/ FinishUniverse \/ KillRun

\* The store changes meanwhile as it likes.
UniverseSpec == UniverseInit /\ [][UniverseNext]_universeVars

\* One stage after the other, as the commands of cli.py are given; nothing in the
\* code enforces it. No archive is downloaded while another worker normalises, and
\* once a universe batch has begun no table or manifest is written. Tables may be
\* harmed all the time.
DownloadedFirst ==
  \A v, w \in Workers : job[v].kind = "download" => job[w].kind # "normalize"

NormalisedFirst == runs # 0 => UNCHANGED manifest /\ (harms' = harms => UNCHANGED table)

PipelineNext ==
  \/ UniverseNext
  \/ StoreNext /\ UNCHANGED universeVars /\ DownloadedFirst' /\ NormalisedFirst

PipelineSpec == StoreInit /\ UniverseInit /\ [][PipelineNext]_<<storeVars, universeVars>>

----------------------------------------------------------------------------
(* Properties *)

\* The rows that an item's manifest names.
RowsIn(i, index) == index[i].rows

\* The members of every snapshot ever written, computed again from the manifests:
\* a symbol counts when its registry standing and all its intervals allow and
\* its rows cover the ranking day one by one (only a table that was harmed
\* meanwhile may also be missing); the fixed symbols that count are members,
\* the others fill up by volume and name, and nobody is left out for a smaller.
Covers(i, index, day) ==
  /\ i \in DOMAIN index
  /\ \A open \in Window(day) :
       Cardinality({row \in RowsIn(i, index) : row.open = open}) = 1

Counts(s, day, index) ==
  /\ Standing[s] = "ELIGIBLE"
  /\ \A interval \in RequiredIntervals : Item(s, interval, PeriodOf(day)) \in DOMAIN index
  /\ Covers(Item(s, RankingInterval, PeriodOf(day)), index, day)

DayVolume(s, day, index) ==
  LET rows == RowsIn(Item(s, RankingInterval, PeriodOf(day)), index)
  IN  SumFunction([open \in Window(day) |-> (CHOOSE row \in rows : row.open = open).volume])

Beats(s, other, day, index) ==
  \/ DayVolume(s, day, index) > DayVolume(other, day, index)
  \/ DayVolume(s, day, index) = DayVolume(other, day, index) /\ s < other

RanksItsDay(snapshot, index, harmed) ==
  LET day == snapshot.day
      members == {snapshot.members[n].symbol : n \in DOMAIN snapshot.members}
      counted == Symbols \ DOMAIN snapshot.blocked
      countedFixed == FixedSymbols \cap counted
  IN  /\ \A s \in Symbols : \/ s \in counted <=> Counts(s, day, index)
                            \/ harmed /\ Counts(s, day, index)
      /\ Cardinality(members) = LET all == Cardinality(counted)
                                IN  IF all < TargetCount THEN all ELSE TargetCount
      /\ countedFixed \subseteq members /\ members \subseteq counted
      /\ \A s \in members \ FixedSymbols, other \in counted \ members : Beats(s, other, day, index)
      /\ \A n \in DOMAIN snapshot.members :
           LET member == snapshot.members[n]
           IN  /\ member.volume = DayVolume(member.symbol, day, index)
               /\ \A later \in n + 1 .. Len(snapshot.members) :
                    Beats(member.symbol, snapshot.members[later].symbol, day, index)
               /\ member.forced <=> Cardinality({s \in counted : Beats(s, member.symbol, day, index)})
                                      >= TargetCount

SnapshotsRankTheirDay == \A snapshot \in snapshots : RanksItsDay(snapshot, Index, harms > 0)

\* What one version says of a day it says for ever: its complete results agree
\* with each other and with the progress files, although tables may be harmed
\* and runs killed between them.
ResultsAgree ==
  \A result \in universes :
    \A day \in DOMAIN result.days :
      /\ progress[result.version][day] = result.days[day]
      /\ result.days[day] \in snapshots
=============================================================================
