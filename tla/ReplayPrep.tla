----------------------------- MODULE ReplayPrep -----------------------------
(***************************************************************************)
(* From the responses of the exchange to replays that may start:           *)
(* finalize_binance_transport (data/binance_usdm_transport.py) with        *)
(* research/replay_market_data.py writes schedules and artifacts one file  *)
(* at a time, scripts/p9_funding_mark_supplement.py adds mark prices the   *)
(* exchange left empty, and prepare_dev_replay (research/replay_prep.py)   *)
(* decides, from whatever lies in the directories it is given, which       *)
(* requests are ready.                                                     *)
(*                                                                         *)
(* A run downloads one plan once; its responses carry its own observation  *)
(* time, so that files of two runs never have one hash: a schedule is its  *)
(* window and run, an artifact its request, role and run. What the         *)
(* exchange answers a run is a view [minutes, settlements] of each symbol: *)
(* the minutes it has candles of, and "MARKED", "UNMARKED" or "SPECIAL"    *)
(* for the times it has settlements of. The history is closed when it is   *)
(* downloaded. Paths, symbols and times of rows are as the query says.     *)
(***************************************************************************)
EXTENDS MarketDataPlan, Functions

CONSTANTS
  RequestSets,   \* accepted requests of a report, in the report's order
  Views,         \* what the exchange may answer a run
  Runs,          \* executions of the transport
  Stores,        \* directories they write to
  Helpers,       \* processes of the funding mark supplement
  MaxFaults      \* bound on kills of a finalization and runs damaged later

\* Without requests there is no plan; no two of a report are the same.
ASSUME PrepAssumption ==
  \A q \in RequestSets :
    /\ q # << >> /\ q \in Seq([id : Int, symbol : Int, confirmation : Nat, bars : Nat \ {0}])
    /\ \A i, j \in DOMAIN q : q[i].id = q[j].id => i = j
    /\ \A v \in Views, i \in DOMAIN q :
         LET settlements == v.settlements[q[i].symbol]
         IN  /\ v.minutes[q[i].symbol] \subseteq Nat /\ DOMAIN settlements \subseteq Nat
             /\ \A t \in DOMAIN settlements : settlements[t] \in {"MARKED", "UNMARKED", "SPECIAL"}

VARIABLES
  accepted,      \* the accepted requests
  view,          \* the answers each run gets
  setting,       \* store and max_attempts of each run; the latter is part of the plan
  stage,         \* "PLANNED", "FAILED", "COMPLETE", "RETURNED" or "RAISED"
  at,            \* the next output of each finalization
  schedules,     \* [symbol, start, end, run] in each store
  artifacts,     \* [request, role, run] in each store
  supplements,   \* [request, run, time, kind, by] of the funding mark supplement
  helper,        \* what each supplement process is about to write
  restarts, harmed  \* finalizations killed, and runs whose bodies were changed

prepVars == <<accepted, view, setting, stage, at, schedules, artifacts, supplements,
              helper, restarts, harmed>>

Nobody == [kind |-> "NONE"]

WindowOrder(v, w) == v.symbol < w.symbol \/ (v.symbol = w.symbol /\ v.start <= w.start)

\* What a finalization writes, in its order: the schedule of each merged window,
\* then the candles and the funding of each request.
OutputsOf(requests, windows) ==
  InOrder(windows, WindowOrder)
    \o [n \in 1 .. 2 * Len(requests) |->
          [request |-> requests[(n + 1) \div 2], role |-> IF n % 2 = 1 THEN "CANDLE" ELSE "FUNDING"]]

\* The plans, computed once for each sequence of requests.
PlanFor(q) ==
  LET rs == ToSet(q)
  IN  [accepted |-> q, raises |-> PlanRaises(rs), windows |-> Windows(rs),
       tasks |-> Tasks(rs), outputs |-> OutputsOf(q, Windows(rs))]
Plans == {PlanFor(q) : q \in RequestSets}
Plan == CHOOSE p \in Plans : p.accepted = accepted
Requests == ToSet(accepted)

----------------------------------------------------------------------------
(* What the exchange answers: the oldest rows of the interval, up to the limit *)

TimesIn(run, task) ==
  {t \in DOMAIN view[run].settlements[task.symbol] : task.start <= t /\ t < task.end}

Oldest(times, n) == {t \in times : Cardinality({u \in times : u < t}) < n}

FundingRows(run, task) == Oldest(TimesIn(run, task), task.limit)
CandleRows(run, task) == {t \in view[run].minutes[task.symbol] : task.start <= t /\ t < task.end}

\* "Funding response may be truncated at limit"
Truncated(run, task) ==
  task.role \in {"FUNDING", "GUARD_BEFORE"} /\ Cardinality(FundingRows(run, task)) >= task.limit

\* The run of the transport, in one step: BinanceTransport models its own.
Download(run) ==
  /\ stage[run] = "PLANNED" /\ ~Plan.raises
  /\ stage' = [stage EXCEPT ![run] =
       IF \E task \in Plan.tasks : Truncated(run, task) THEN "FAILED" ELSE "COMPLETE"]
  /\ UNCHANGED <<accepted, view, setting, at, schedules, artifacts, supplements, helper, restarts, harmed>>

----------------------------------------------------------------------------
(* finalize_binance_transport *)

Within(task, role, symbol, start, end) ==
  task.role = role /\ task.symbol = symbol /\ start <= task.start /\ task.end <= end

FundingTasksOf(w) == {t \in Plan.tasks : Within(t, "FUNDING", w.symbol, w.start, w.end)}
GuardsOf(w, role) == {t \in Plan.tasks : t.role = role /\ t.symbol = w.symbol
                        /\ t.requests = w.requests
                        /\ IF role = "GUARD_BEFORE" THEN t.end = w.start ELSE t.start = w.end}

TimesOf(run, tasks) == UNION {FundingRows(run, t) : t \in tasks}
Scheduled(run, w) == TimesOf(run, FundingTasksOf(w))

ScheduleRaises(run, w) ==
  \/ \E role \in {"GUARD_BEFORE", "GUARD_AFTER"} : Cardinality(GuardsOf(w, role)) # 1
  \/ TimesOf(run, GuardsOf(w, "GUARD_BEFORE")) = {}
  \/ Cardinality(TimesOf(run, GuardsOf(w, "GUARD_AFTER"))) # 1

Pages(r, role) ==
  {t \in Plan.tasks : r \in t.requests /\ Within(t, role, r.symbol, Start(r), End(r))}

\* _query_rows: the queries must exactly partition the request's window.
Partition(r, pages) ==
  /\ \E p \in pages : p.start = Start(r)
  /\ \A p \in pages : p.end = End(r) \/ \E q \in pages : q.start = p.end

Covering(r) ==
  CHOOSE w \in Plan.windows : w.symbol = r.symbol /\ w.start <= Start(r) /\ End(r) <= w.end

Skipped(run, o) ==
  o.role = "FUNDING" /\ Required(o.request, Scheduled(run, Covering(o.request))) = {}

KindAt(run, r, t) == view[run].settlements[r.symbol][t]

Funded(run, r) == TimesOf(run, Pages(r, "FUNDING"))

ArtifactRaises(run, o) ==
  \/ ~Partition(o.request, Pages(o.request, o.role))
  \/ IF o.role = "CANDLE"
     THEN \E p \in Pages(o.request, "CANDLE") : CandleRows(run, p) # p.start .. p.end - 1
     ELSE \/ Funded(run, o.request) = {}
          \/ \E t \in Funded(run, o.request) : KindAt(run, o.request, t) = "SPECIAL"

StoreOf(run) == setting[run].store

PublishSchedule(run) ==
  /\ stage[run] = "COMPLETE" /\ run \notin harmed /\ at[run] <= Cardinality(Plan.windows)
  /\ LET w == Plan.outputs[at[run]]
     IN  IF ScheduleRaises(run, w)
         THEN /\ stage' = [stage EXCEPT ![run] = "RAISED"] /\ UNCHANGED <<at, schedules>>
         ELSE /\ schedules' = [schedules EXCEPT ![StoreOf(run)] = @ \cup
                   {[symbol |-> w.symbol, start |-> w.start, end |-> w.end, run |-> run]}]
              /\ at' = [at EXCEPT ![run] = @ + 1] /\ UNCHANGED stage
  /\ UNCHANGED <<accepted, view, setting, artifacts, supplements, helper, restarts, harmed>>

PublishArtifact(run) ==
  /\ stage[run] = "COMPLETE" /\ run \notin harmed
  /\ at[run] > Cardinality(Plan.windows) /\ at[run] <= Len(Plan.outputs)
  /\ LET o == Plan.outputs[at[run]]
     IN  IF ~Skipped(run, o) /\ ArtifactRaises(run, o)
         THEN /\ stage' = [stage EXCEPT ![run] = "RAISED"] /\ UNCHANGED <<at, artifacts>>
         ELSE /\ artifacts' = [artifacts EXCEPT ![StoreOf(run)] = @ \cup
                   {[request |-> o.request, role |-> o.role, run |-> run] : x \in
                      IF Skipped(run, o) THEN {} ELSE {o}}]
              /\ at' = [at EXCEPT ![run] = @ + 1] /\ UNCHANGED stage
  /\ UNCHANGED <<accepted, view, setting, schedules, supplements, helper, restarts, harmed>>

FinalizeReturns(run) ==
  /\ stage[run] = "COMPLETE" /\ at[run] > Len(Plan.outputs)
  /\ stage' = [stage EXCEPT ![run] = "RETURNED"]
  /\ UNCHANGED <<accepted, view, setting, at, schedules, artifacts, supplements, helper, restarts, harmed>>

\* Killed and started again: what was published is published again, unchanged.
KillFinalize(run) ==
  /\ restarts + Cardinality(harmed) < MaxFaults /\ stage[run] = "COMPLETE" /\ at[run] > 1
  /\ at' = [at EXCEPT ![run] = 1] /\ restarts' = restarts + 1
  /\ UNCHANGED <<accepted, view, setting, stage, schedules, artifacts, supplements, helper, harmed>>

\* The raw bodies of a run are changed: each load of them is refused.
Harm(run) ==
  /\ restarts + Cardinality(harmed) < MaxFaults /\ stage[run] \in {"COMPLETE", "RETURNED"}
  /\ harmed' = harmed \cup {run}
  /\ UNCHANGED <<accepted, view, setting, stage, at, schedules, artifacts, supplements, helper, restarts>>

----------------------------------------------------------------------------
(* The funding mark supplement *)

\* Events of a funding artifact; those approved are needed and have no mark price.
Targets ==
  {[request |-> a.request, run |-> a.run, time |-> t] :
     a \in {b \in UNION Range(artifacts) : b.role = "FUNDING" /\ b.run \notin harmed},
     t \in UNION {Funded(run, r) : run \in Runs, r \in Requests}}

Open(target) ==
  target.time \in Required(target.request, Funded(target.run, target.request))
    /\ KindAt(target.run, target.request, target.time) = "UNMARKED"

Cached(target) ==
  {s \in supplements : s.request = target.request /\ s.run = target.run /\ s.time = target.time}

\* The events it is written for are all there only after a finalization, and
\* _cached_target finds none of this one; the exchange has the price by now, or
\* the minute's first mark price stands in for it.
Fetch(h, target) ==
  /\ helper[h] = Nobody /\ stage[target.run] = "RETURNED" /\ Open(target) /\ Cached(target) = {}
  /\ \E kind \in {"NATIVE", "APPROXIMATE"} :
       helper' = [helper EXCEPT ![h] = [request |-> target.request, run |-> target.run,
                                        time |-> target.time, kind |-> kind, by |-> h]]
  /\ UNCHANGED <<accepted, view, setting, stage, at, schedules, artifacts, supplements, restarts, harmed>>

WriteSupplement(h) ==
  /\ helper[h] # Nobody
  /\ supplements' = supplements \cup {helper[h]}
  /\ helper' = [helper EXCEPT ![h] = Nobody]
  /\ UNCHANGED <<accepted, view, setting, stage, at, schedules, artifacts, restarts, harmed>>

----------------------------------------------------------------------------
(* prepare_dev_replay, given market data m, schedules f and the plan of a run *)

SameWindow(s, w) == s.symbol = w.symbol /\ s.start = w.start /\ s.end = w.end

\* _validate_authenticated_bindings; a message blocks every request.
BindingBroken(f, run) ==
  \/ \E s, t \in schedules[f] : s # t /\ SameWindow(s, t)
  \/ \E w \in Plan.windows : ~\E s \in schedules[f] : SameWindow(s, w)
  \/ \E s \in schedules[f] : setting[s.run].attempts # setting[run].attempts

SchedulesFor(f, r) ==
  {s \in schedules[f] : s.symbol = r.symbol /\ s.start <= Start(r) /\ End(r) <= s.end}
ArtifactsFor(m, r, role) == {a \in artifacts[m] : a.request = r /\ a.role = role}

Only(set) == CHOOSE x \in set : TRUE

CandleIssues(m, r) ==
  LET found == ArtifactsFor(m, r, "CANDLE")
  IN  IF found = {} THEN {"CANDLE_ARTIFACT_MISSING"}
      ELSE IF Cardinality(found) > 1 THEN {"CANDLE_ARTIFACT_AMBIGUOUS"}
      ELSE {i \in {"CANDLE_HASH_OR_PROVENANCE"} : Only(found).run \in harmed}

\* The settlements the schedule asks for, inside what a position may be held over.
Asked(f, r) ==
  LET s == Only(SchedulesFor(f, r)) IN Required(r, Scheduled(s.run, s))

Unmarked(run, r, times) == {t \in times : KindAt(run, r, t) = "UNMARKED"}
SupplementsFor(r, run, t) == Cached([request |-> r, run |-> run, time |-> t])

Unsupplemented(r, run, times) ==
  {t \in Unmarked(run, r, times) : Cardinality(SupplementsFor(r, run, t)) # 1}

FundingIssues(m, f, r) ==
  LET asked == Asked(f, r)
      found == ArtifactsFor(m, r, "FUNDING")
      run == Only(found).run
      observed == Required(r, Funded(run, r))
  IN  IF asked = {} THEN {}
      ELSE IF found = {} THEN {"FUNDING_ARTIFACT_MISSING"}
      ELSE IF Cardinality(found) > 1 THEN {"FUNDING_ARTIFACT_AMBIGUOUS"}
      ELSE IF run \in harmed THEN {"FUNDING_HASH_OR_PROVENANCE"}
      ELSE IF asked \ observed # {} THEN {"FUNDING_RECORDS_MISSING"}
      ELSE IF observed \ asked # {} THEN {"FUNDING_DUPLICATE_DISORDER_OR_BOUNDARY"}
      ELSE {i \in {"FUNDING_MARK_PRICE_MISSING"} : Unsupplemented(r, run, asked) # {}}

ScheduleIssues(f, r) ==
  LET n == Cardinality(SchedulesFor(f, r))
  IN  {i \in {"FUNDING_SCHEDULE_MISSING"} : n = 0} \cup {i \in {"FUNDING_SCHEDULE_AMBIGUOUS"} : n > 1}

Issues(m, f, run, r) ==
  {i \in {"INPUT_BINDING_MISMATCH"} : BindingBroken(f, run)}
    \cup ScheduleIssues(f, r) \cup CandleIssues(m, r)
    \cup (IF ScheduleIssues(f, r) = {} THEN FundingIssues(m, f, r) ELSE {})

\* A ReplayReadyInput: the files it is bound to. Its hash is the hash of these.
ReadyInput(m, f, r) ==
  LET asked == Asked(f, r)
      funding == IF asked = {} THEN {} ELSE ArtifactsFor(m, r, "FUNDING")
      used == UNION {UNION {SupplementsFor(r, a.run, t) : t \in Unmarked(a.run, r, asked)} : a \in funding}
  IN  [request |-> r, candle |-> Only(ArtifactsFor(m, r, "CANDLE")), funding |-> funding,
       schedule |-> Only(SchedulesFor(f, r)), required |-> asked, supplements |-> used,
       warned |-> \E s \in used : s.kind = "APPROXIMATE"]

Ready(m, f, run) ==
  {ReadyInput(m, f, r) : r \in {q \in Requests : Issues(m, f, run, q) = {}}}
CanStart(m, f, run) == \A r \in Requests : Issues(m, f, run, r) = {}

----------------------------------------------------------------------------

PrepInit ==
  /\ accepted \in RequestSets /\ view \in [Runs -> Views]
  /\ setting \in [Runs -> [store : Stores, attempts : 3 .. 4]]
  /\ \A a, b \in Runs : a # b => setting[a] # setting[b]
  /\ stage = [run \in Runs |-> "PLANNED"] /\ at = [run \in Runs |-> 1]
  /\ schedules = [s \in Stores |-> {}] /\ artifacts = [s \in Stores |-> {}]
  /\ supplements = {} /\ helper = [h \in Helpers |-> Nobody]
  /\ restarts = 0 /\ harmed = {}

PrepNext ==
  \/ \E run \in Runs :
       \/ Download(run) \/ PublishSchedule(run) \/ PublishArtifact(run)
       \/ FinalizeReturns(run) \/ KillFinalize(run) \/ Harm(run)
  \/ \E h \in Helpers : WriteSupplement(h) \/ \E target \in Targets : Fetch(h, target)

PrepSpec == PrepInit /\ [][PrepNext]_prepVars

----------------------------------------------------------------------------
(* Properties *)

\* The times a position of the request may be opened, and the last one it may be
\* closed (TIME_EXIT of backtest/replay.py).
Entries(r) == Start(r) .. Expires(r) - 1
LastExit(entry) == Bucket(entry) + BarMinutes * HoldingBars

Known(input, t) ==
  \E a \in input.funding :
    /\ t \in Funded(a.run, input.request)
    /\ KindAt(a.run, input.request, t) = "MARKED"
         \/ \E s \in input.supplements : s.run = a.run /\ s.time = t

\* What a replay of the input reads: the candles from the first entry to the last
\* exit, and rate and mark price of every settlement in between that its schedule
\* was observed to have. An approximated mark price is never used without warning.
Replayable(input) ==
  LET r == input.request
  IN  \A entry \in Entries(r) :
        /\ entry .. LastExit(entry) \subseteq view[input.candle.run].minutes[r.symbol]
        /\ \A t \in DOMAIN view[input.schedule.run].settlements[r.symbol] :
             entry < t /\ t < LastExit(entry) => Known(input, t)
        /\ input.warned <=> \E s \in input.supplements : s.kind = "APPROXIMATE"

\* The answers of the run leave nothing out that a request needs.
Answered(run) ==
  /\ \A r \in Requests : Start(r) .. End(r) - 1 \subseteq view[run].minutes[r.symbol]
  /\ \A r \in Requests : \A t \in DOMAIN view[run].settlements[r.symbol] :
       Start(r) <= t /\ t < End(r) => KindAt(run, r, t) # "SPECIAL"
  /\ \A w \in Plan.windows :
       LET times == DOMAIN view[run].settlements[w.symbol]
       IN  /\ \E t \in times : w.start - GuardMinutes <= t /\ t < w.start
           /\ \E t \in times : w.end <= t /\ t < w.end + GuardMinutes

AloneIn(run) == \A a \in Runs : a # run => StoreOf(a) # StoreOf(run)

AllMarked(run) ==
  \A r \in Requests : \A t \in Required(r, DOMAIN view[run].settlements[r.symbol]) :
    KindAt(run, r, t) = "UNMARKED" =>
      Cardinality({s \in supplements : s.request = r /\ s.run = run /\ s.time = t}) = 1

\* Whatever directories, finished or not, of one run or of several, the preflight
\* is given: what it calls ready has every candle and settlement that any trade of
\* the request can touch. Conversely the plan fetches enough: a run whose answers
\* leave nothing out is finalized, across restarts, and all its requests may start
\* once each missing mark price has one supplement.
ReadyMeansReplayable ==
  /\ ~Plan.raises
  /\ \A m \in {s \in Stores : artifacts[s] # {}}, f \in {s \in Stores : schedules[s] # {}} :
       \A run \in Runs : \A input \in Ready(m, f, run) : Replayable(input)
  /\ \A run \in Runs :
       /\ stage[run] = "RAISED" => ~Answered(run)
       /\ stage[run] = "RETURNED" /\ AloneIn(run) /\ run \notin harmed /\ AllMarked(run) =>
            CanStart(StoreOf(run), StoreOf(run), run)
=============================================================================
