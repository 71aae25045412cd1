----------------------------- MODULE SourceScan -----------------------------
(***************************************************************************)
(* build_dev_source_scan_report of research/dev_source_scan.py: processes  *)
(* that scan the slots of every symbol and share a directory of per-symbol *)
(* checkpoints.                                                            *)
(*                                                                         *)
(* What a slot decides is the subject of SlotScan; here it is a member of  *)
(* Kinds, fixed by the parameter candidate and the version of the source   *)
(* files.  Hashes are the identity of what they are taken of.  A run is    *)
(* BOUND when Stage A gives it an execution binding, else UNBOUND.         *)
(***************************************************************************)
EXTENDS Integers, Sequences, FiniteSets, Functions, SequencesExt

CONSTANTS
    Procs,        \* processes on one project directory
    Candidates,   \* parameter candidates
    SymbolOrder,  \* the symbols of the plan, in the order they are scanned
    Slots,        \* the slots of each symbol
    Versions,     \* versions of the source files
    Markets,      \* what is decided: [Candidates -> [Versions -> [symbol -> Seq(Kinds)]]]
    Step,         \* minutes between slots
    WindowLength, \* minutes of market data an accepted plan asks for
    MaxRuns,      \* bound on runs
    MaxHarms,     \* bound on unreadable sources, source changes and kills together
    None

Symbols == Range(SymbolOrder)
ConfirmedKinds == {"ENTRY_STOP", "TAKE_PROFIT", "BOUNDARY", "ACCEPTED"}
Evaluated == ConfirmedKinds \cup {"NO_TRIGGER"}
Eligible == Evaluated \cup {"TRIGGER_NOT_READY"}
Kinds == Eligible \cup {"INELIGIBLE", "NOT_READY", "RAISES"}
Modes == {"BOUND", "UNBOUND"}

ASSUME ScanAssumption ==
    /\ {Slots, Step, WindowLength, MaxRuns, MaxHarms} \subseteq Nat
    /\ Versions \subseteq Nat /\ 0 \in Versions
    /\ SymbolOrder \in Seq(Symbols)
    /\ \A i, j \in DOMAIN SymbolOrder : SymbolOrder[i] = SymbolOrder[j] => i = j
    /\ Markets \subseteq [Candidates -> [Versions -> [Symbols -> [1..Slots -> Kinds]]]]

VARIABLES
    market,       \* what the slots decide
    source,       \* the version of the source files now
    checkpoints,  \* per binding and symbol: the payload on disk, or None
    run,          \* per process: its memory
    reports,      \* every report returned, with its binding
    runs, harms

scanVars == << market, source, checkpoints, run, reports, runs, harms >>

-----------------------------------------------------------------------------
(* The funnel. *)
CountedBy ==
    [setup_not_ready         |-> {"NOT_READY"},
     setup_evaluated         |-> Eligible \cup {"INELIGIBLE"},
     setup_eligible          |-> Eligible,
     trigger_not_ready       |-> {"TRIGGER_NOT_READY"},
     trigger_evaluated       |-> Evaluated,
     trigger_confirmed       |-> ConfirmedKinds,
     entry_stop_rejected     |-> {"ENTRY_STOP"},
     take_profit_rejected    |-> {"TAKE_PROFIT"},
     request_boundary_rejected |-> {"BOUNDARY"},
     accepted                |-> {"ACCEPTED"},
     source_error            |-> {}]
Counters == DOMAIN CountedBy
NoCounts == [c \in Counters |-> 0]
CountSlot(counts, kind) ==
    [c \in Counters |-> counts[c] + IF kind \in CountedBy[c] THEN 1 ELSE 0]

\* DevScanFunnel.validate_counts
ValidFunnel(slots, f) ==
    /\ slots = f.setup_evaluated + f.setup_not_ready + f.source_error
    /\ f.trigger_evaluated + f.trigger_not_ready = f.setup_eligible
    /\ f.trigger_confirmed <= f.trigger_evaluated
    /\ f.trigger_confirmed = f.entry_stop_rejected + f.take_profit_rejected
                             + f.request_boundary_rejected + f.accepted

-----------------------------------------------------------------------------
(* Records, payloads and reports. *)
Records == [symbol : Symbols, slot : 1..Slots, status : Kinds, source : Versions]
Errors == {"UNREADABLE", "SLOT"}
Payloads ==
    [slots : {Slots}, counts : [Counters -> Nat], confirmed : Seq(Records),
     accepted : Seq(Records), anomaly : Errors \cup {None}]

\* None is none of the values it stands in for.
ASSUME NoneAssumption == None \notin Errors \cup Payloads

Record(s, slot, kind, version) == [symbol |-> s, slot |-> slot, status |-> kind, source |-> version]
IsAccepted(record) == record.status = "ACCEPTED"

EmptyLocal == [counts |-> NoCounts, confirmed |-> << >>, accepted |-> << >>]

\* Faulty: what was counted before the failure is saved with it.
PayloadFaulty(local, error) ==
    [slots     |-> Slots,
     counts    |-> IF error = None THEN local.counts
                   ELSE [local.counts EXCEPT !.source_error = Slots],
     confirmed |-> IF error = None THEN local.confirmed ELSE << >>,
     accepted  |-> IF error = None THEN local.accepted ELSE << >>,
     anomaly   |-> error]

\* The checkpoint of a symbol: a failure leaves nothing of what was scanned.
Payload(local, error) ==
    [slots     |-> Slots,
     counts    |-> IF error = None THEN local.counts
                   ELSE [NoCounts EXCEPT !.source_error = Slots],
     confirmed |-> IF error = None THEN local.confirmed ELSE << >>,
     accepted  |-> IF error = None THEN local.accepted ELSE << >>,
     anomaly   |-> error]

Accepted(confirmed) == SelectSeq(confirmed, IsAccepted)

\* validate_execution_checkpoint
ValidCheckpoint(payload, symbol, version) ==
    LET f == payload.counts
        Of(status) == Len(SelectSeq(payload.confirmed, LAMBDA r : r.status = status))
    IN  /\ payload.anomaly = None /\ f.source_error = 0 /\ ValidFunnel(payload.slots, f)
        /\ Len(payload.confirmed) = f.trigger_confirmed /\ IsInjective(payload.confirmed)
        /\ Of("ENTRY_STOP") = f.entry_stop_rejected
        /\ Of("TAKE_PROFIT") = f.take_profit_rejected
        /\ Of("BOUNDARY") = f.request_boundary_rejected
        /\ Of("ACCEPTED") = f.accepted /\ payload.accepted = Accepted(payload.confirmed)
        /\ \A r \in Range(payload.confirmed) : r.symbol = symbol /\ r.source = version

\* _merged_windows, for one symbol: the windows that overlap or touch are one.
WindowOf(record) == [from |-> record.slot * Step, upto |-> record.slot * Step + WindowLength]
Merge(windows, w) ==
    IF windows # << >> /\ w.from <= Last(windows).upto
    THEN [windows EXCEPT ![Len(windows)].upto = IF @ > w.upto THEN @ ELSE w.upto]
    ELSE Append(windows, w)
MergedWindows(records) ==
    FoldLeft(LAMBDA windows, r : Merge(windows, WindowOf(r)), << >>, records)
Minutes(windows) == SumFunction([i \in DOMAIN windows |-> windows[i].upto - windows[i].from])

\* DevSourceScanReport: totals of what was merged, symbol by symbol.
Total(merged, c) == SumFunction([s \in Symbols |-> merged[s].counts[c]])
Report(merged) ==
    [funnel   |-> [c \in Counters |-> Total(merged, c)],
     scanned  |-> {s \in Symbols : merged[s].anomaly = None},
     anomalies |-> {<<s, merged[s].anomaly>> : s \in {x \in Symbols : merged[x].anomaly # None}},
     accepted |-> [s \in Symbols |-> merged[s].accepted],
     minutes  |-> SumFunction([s \in Symbols |-> Minutes(MergedWindows(merged[s].accepted))]),
     status   |-> IF \E s \in Symbols : merged[s].anomaly # None THEN "PARTIAL" ELSE "COMPLETE"]

-----------------------------------------------------------------------------
(* Processes. *)
Idle == [pc |-> "IDLE", mode |-> None, candidate |-> None, version |-> None, position |-> 0,
         slot |-> 0, read |-> None, local |-> EmptyLocal, error |-> None,
         merged |-> [s \in Symbols |-> None], sink |-> << >>]
Binding(p) == << run[p].mode, run[p].candidate, run[p].version >>
Symbol(p) == SymbolOrder[run[p].position]
OnDisk(p) == checkpoints[Binding(p)][Symbol(p)]
Bound(p) == run[p].mode = "BOUND"
SameSources(p) == source = run[p].version
Set(p, r) == run' = [run EXCEPT ![p] = r]

\* Context and inventory are read once; they name the checkpoint directory.
Start(p, mode, candidate) ==
    /\ run[p].pc = "IDLE"
    /\ runs < MaxRuns /\ runs' = runs + 1
    /\ Set(p, [Idle EXCEPT !.pc = "OPEN", !.mode = mode, !.candidate = candidate,
                           !.version = source, !.position = 1])
    /\ UNCHANGED << market, source, checkpoints, reports, harms >>

\* Faulty: the records of a restored symbol are not handed on.
DeliverFaulty(p, payload) == run[p].sink

\* symbol_result_sink and confirmed_trigger_sink get the records of a
\* checkpoint that is restored.
Deliver(p, payload) == run[p].sink \o payload.confirmed

\* The symbol is done: its payload is in the totals.
NextSymbol(p, payload, sink) ==
    Set(p, [run[p] EXCEPT !.merged[Symbol(p)] = payload, !.sink = sink, !.pc = "OPEN",
                          !.position = @ + 1, !.slot = 0, !.local = EmptyLocal, !.error = None])

Opening(p) == run[p].pc = "OPEN" /\ run[p].position <= Len(SymbolOrder)

\* A checkpoint stands for the symbol; a bound run also reads its sources again.
Restore(p) ==
    /\ Opening(p) /\ OnDisk(p) # None
    /\ OnDisk(p).slots = Slots
    /\ Bound(p) => SameSources(p) /\ ValidCheckpoint(OnDisk(p), Symbol(p), run[p].version)
    /\ NextSymbol(p, OnDisk(p), Deliver(p, OnDisk(p)))
    /\ UNCHANGED << market, source, checkpoints, reports, runs, harms >>

Raise(p) == Set(p, [run[p] EXCEPT !.pc = "RAISED"])

\* What may go wrong around the runs, at any moment.
Harm == harms < MaxHarms /\ harms' = harms + 1

\* A checkpoint that cannot be read, or is damaged, ends the run; a bound one is
\* also ended by sources that changed.
RestoreFails(p) ==
    /\ Opening(p) /\ OnDisk(p) # None
    /\ \/ Bound(p) /\ ~SameSources(p) /\ UNCHANGED harms
       \/ Harm
    /\ Raise(p)
    /\ UNCHANGED << market, source, checkpoints, reports, runs >>

\* A bound run compares the sources it finds with its binding; an unbound one
\* takes what is there.
Load(p) ==
    /\ Opening(p) /\ OnDisk(p) = None
    /\ Bound(p) => SameSources(p)
    /\ Set(p, [run[p] EXCEPT !.pc = "SCAN", !.read = source])
    /\ UNCHANGED << market, source, checkpoints, reports, runs, harms >>

\* The error of a symbol stops a bound run; an unbound run saves it.
Fail(p, error) ==
    IF Bound(p) THEN Raise(p)
    ELSE Set(p, [run[p] EXCEPT !.pc = "SAVE", !.error = error])

LoadFails(p) ==
    /\ Opening(p) /\ OnDisk(p) = None
    /\ \/ Bound(p) /\ ~SameSources(p) /\ UNCHANGED harms
       \/ Harm
    /\ Fail(p, "UNREADABLE")
    /\ UNCHANGED << market, source, checkpoints, reports, runs >>

KindAt(p) == market[run[p].candidate][run[p].read][Symbol(p)][run[p].slot + 1]

\* A slot is counted; its confirmed trigger is recorded, and an unbound run
\* hands it to the sink at once.
Slot(p) ==
    /\ run[p].pc = "SCAN" /\ run[p].slot < Slots
    /\ KindAt(p) # "RAISES"
    /\ LET record == Record(Symbol(p), run[p].slot + 1, KindAt(p), run[p].read)
           new == IF KindAt(p) \in ConfirmedKinds THEN << record >> ELSE << >>
           plan == IF KindAt(p) = "ACCEPTED" THEN << record >> ELSE << >>
       IN  Set(p, [run[p] EXCEPT
               !.slot = @ + 1,
               !.local = [counts    |-> CountSlot(@.counts, KindAt(p)),
                          confirmed |-> @.confirmed \o new, accepted |-> @.accepted \o plan],
               !.sink = IF Bound(p) THEN @ ELSE @ \o new])
    /\ UNCHANGED << market, source, checkpoints, reports, runs, harms >>

SlotRaises(p) ==
    /\ run[p].pc = "SCAN" /\ run[p].slot < Slots
    /\ KindAt(p) = "RAISES"
    /\ Fail(p, "SLOT")
    /\ UNCHANGED << market, source, checkpoints, reports, runs, harms >>

\* Faulty: the file is replaced.
MayPublishFaulty(old, new) == TRUE

\* _write_symbol_checkpoint: a file that is there must be the same, also when
\* it appears between the look and the link of _publish_immutable.
MayPublish(old, new) == old = None \/ old = new

\* The payload of the symbol is checked, handed on and written.
Save(p) ==
    /\ run[p].pc = "SAVE" \/ (run[p].pc = "SCAN" /\ run[p].slot = Slots)
    /\ LET payload == Payload(run[p].local, run[p].error)
           sink == IF Bound(p) THEN run[p].sink \o payload.confirmed ELSE run[p].sink
       IN  IF /\ Bound(p) => ValidCheckpoint(payload, Symbol(p), run[p].version)
              /\ MayPublish(OnDisk(p), payload)
           THEN /\ checkpoints' = [checkpoints EXCEPT ![Binding(p)][Symbol(p)] = payload]
                /\ NextSymbol(p, payload, sink)
           ELSE Raise(p) /\ UNCHANGED checkpoints
    /\ UNCHANGED << market, source, reports, runs, harms >>

\* The report validates its funnel against the slots of the plan.
Finish(p) ==
    /\ run[p].pc = "OPEN" /\ run[p].position > Len(SymbolOrder)
    /\ LET report == Report(run[p].merged)
       IN  IF ValidFunnel(Slots * Len(SymbolOrder), report.funnel)
           THEN /\ Set(p, [run[p] EXCEPT !.pc = "DONE"])
                /\ reports' = reports \cup {[binding |-> Binding(p), report |-> report]}
           ELSE Set(p, [run[p] EXCEPT !.pc = "REFUSED"]) /\ UNCHANGED reports
    /\ UNCHANGED << market, source, checkpoints, runs, harms >>

Kill(p) ==
    /\ run[p].pc # "IDLE"
    /\ Harm
    /\ Set(p, Idle)
    /\ UNCHANGED << market, source, checkpoints, reports, runs >>

\* The source files are replaced under the runs.
ChangeSources ==
    /\ source + 1 \in Versions /\ source' = source + 1
    /\ Harm
    /\ UNCHANGED << market, checkpoints, run, reports, runs >>

ScanStep(p) ==
    \/ Restore(p) \/ RestoreFails(p) \/ Load(p) \/ LoadFails(p)
    \/ Slot(p) \/ SlotRaises(p) \/ Save(p) \/ Finish(p)

ScanInit ==
    /\ market \in Markets
    /\ source = 0
    /\ checkpoints = [b \in Modes \X Candidates \X Versions |-> [s \in Symbols |-> None]]
    /\ run = [p \in Procs |-> Idle]
    /\ reports = {}
    /\ runs = 0 /\ harms = 0

-----------------------------------------------------------------------------
(* What the scan promises. *)

\* However many runs share the checkpoints of one binding, and whatever is
\* killed, fails or changes under them, they return one report.
ReportsAgree == \A a, b \in reports : a.binding = b.binding => a.report = b.report

\* Every slot of the plan is counted once: under what it decided when its symbol
\* was scanned, else as a source error; and a report is never refused for it.
SlotsOf(c, candidate, version, s) ==
    Cardinality({i \in 1..Slots : market[candidate][version][s][i] \in CountedBy[c]})
ReportCountsThePlanOnce ==
    /\ \A r \in reports : \E read \in [Symbols -> Versions] :
          \A c \in Counters :
             r.report.funnel[c] =
                IF c = "source_error" THEN Slots * Cardinality(Symbols \ r.report.scanned)
                ELSE SumFunction([s \in r.report.scanned |-> SlotsOf(c, r.binding[2], read[s], s)])
    /\ \A r \in reports :
          /\ r.binding[1] = "BOUND" => r.report.status = "COMPLETE"
          /\ r.report.minutes = SumFunction([s \in Symbols |->
                Cardinality(UNION {WindowOf(a).from .. (WindowOf(a).upto - 1) :
                                   a \in Range(r.report.accepted[s])})])
    /\ \A p \in Procs : run[p].pc # "REFUSED"

\* When every symbol was scanned, the sink got each confirmed trigger exactly
\* once, wherever its symbol was scanned, by whichever run.
SinkIsComplete ==
    \A p \in Procs :
        run[p].pc = "DONE" /\ Report(run[p].merged).status = "COMPLETE" =>
            /\ IsInjective(run[p].sink)
            /\ Range(run[p].sink) = UNION {Range(run[p].merged[s].confirmed) : s \in Symbols}
=============================================================================
