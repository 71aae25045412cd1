--------------------------- MODULE ScanConsumers ---------------------------
(***************************************************************************)
(* The two programs that drive the scan and judge what it returns.         *)
(*                                                                         *)
(* execute_stage_a of research/rescan_stage_a.py runs it bound, for the    *)
(* baseline first and then for candidates, and publishes an artifact that  *)
(* opens or blocks the next phase.  The ledger scripts                     *)
(* (p9_confirmed_trigger_ledger.py, p9_finalize_confirmed_trigger_ledger)  *)
(* run it unbound for the baseline, publish the ledger of the confirmed    *)
(* triggers and then its reconciliation with the trusted scan.             *)
(***************************************************************************)
EXTENDS SourceScan

CONSTANTS Baseline,     \* the baseline candidate
          TrustedBases  \* what the frozen report and ledger hold: [symbol -> Seq(Kinds)]

ASSUME ConsumerAssumption ==
    /\ Baseline \in Candidates
    /\ TrustedBases \subseteq [Symbols -> [1..Slots -> Kinds \ {"RAISES"}]]

VARIABLES
    trusted,     \* the frozen baseline
    gate,        \* per process: the baseline artifact it was given, or None
    artifacts,   \* Stage A artifacts
    reconciled   \* per ledger written: no reconciliation, a torn one, or its verdict

vars == << scanVars, trusted, gate, artifacts, reconciled >>
consumerVars == << trusted, gate, artifacts, reconciled >>

-----------------------------------------------------------------------------
(* The frozen baseline. *)
FrozenPayload(s, kinds) ==
    LET all == [i \in 1..Slots |-> Record(s, i, kinds[i], 0)]
    IN  Payload([counts    |-> FoldLeft(CountSlot, NoCounts, kinds),
                 confirmed |-> SelectSeq(all, LAMBDA r : r.status \in ConfirmedKinds),
                 accepted  |-> Accepted(all)], None)
TrustedPayload(s) == FrozenPayload(s, trusted[s])
TrustedMerged == [s \in Symbols |-> TrustedPayload(s)]
TrustedRecords == UNION {Range(TrustedPayload(s).confirmed) : s \in Symbols}
BaselineCount(c) == Total(TrustedMerged, c)

\* evaluate_scale_thresholds: observed counts within inclusive bands of the
\* baseline's; a conversion of nothing is out of every band.
Within(observed, base, times) == base <= times * observed /\ observed <= times * base
ScalePasses(f) ==
    /\ Within(f.setup_eligible, BaselineCount("setup_eligible"), 2)
    /\ Within(f.trigger_confirmed, BaselineCount("trigger_confirmed"), 3)
    /\ Within(f.accepted, BaselineCount("accepted"), 5)
    /\ f.trigger_confirmed > 0
    /\ Within(f.accepted * BaselineCount("trigger_confirmed"),
              BaselineCount("accepted") * f.trigger_confirmed, 5)

\* The per-symbol counts, the report (which names its inventory) and the records
\* are those of the frozen baseline.
BaselineEquivalent(p) ==
    /\ run[p].version = 0
    /\ \A s \in Symbols : run[p].merged[s].counts = TrustedPayload(s).counts
    /\ Report(run[p].merged) = Report(TrustedMerged)
    /\ Range(run[p].sink) = TrustedRecords

-----------------------------------------------------------------------------
(* Stage A. *)
IsBaseline(p) == run[p].candidate = Baseline

Artifact(p, status, equivalence) ==
    [binding |-> Binding(p), status |-> status, equivalence |-> equivalence,
     open |-> status = "COMPLETE",
     funnel |-> IF run[p].pc = "DONE" THEN Report(run[p].merged).funnel ELSE None]

\* Faulty: only the state of the gate is looked at.
CompatibleGateFaulty(p) == gate[p] # None /\ gate[p].open /\ gate[p].binding[2] = Baseline

\* _require_compatible_baseline_gate: an open baseline artifact of the same
\* sources and code.
CompatibleGate(p) ==
    /\ gate[p] # None
    /\ gate[p].binding[2] = Baseline
    /\ gate[p].status = "COMPLETE" /\ gate[p].equivalence /\ gate[p].open
    /\ gate[p].binding[3] = run[p].version

Publish(p, artifact) ==
    /\ artifacts' = artifacts \cup {artifact}
    /\ Set(p, Idle)
    /\ gate' = [gate EXCEPT ![p] = None]
    /\ UNCHANGED << market, source, checkpoints, reports, runs, harms,
                    trusted, reconciled >>

\* The artifact given on the command line is any that was published.
BeginStageA(p, candidate) ==
    /\ Start(p, "BOUND", candidate)
    /\ \E g \in artifacts \cup {None} : gate' = [gate EXCEPT ![p] = g]
    /\ UNCHANGED << trusted, artifacts, reconciled >>

NeedsGate(p) == Bound(p) /\ ~IsBaseline(p)
MayScan(p) == NeedsGate(p) => CompatibleGate(p)

\* No scan without the gate.
RefuseCandidate(p) ==
    /\ run[p].pc = "OPEN" /\ ~MayScan(p)
    /\ Publish(p, Artifact(p, "FAILED", FALSE))

Accepts(p) ==
    /\ run[p].pc = "DONE"
    /\ Report(run[p].merged).status = "COMPLETE"
    /\ IF IsBaseline(p) THEN BaselineEquivalent(p)
                        ELSE ScalePasses(Report(run[p].merged).funnel)

\* Whatever went wrong gives a FAILED artifact and a blocked gate.
Judge(p) ==
    /\ Bound(p) /\ run[p].pc \in {"DONE", "RAISED", "REFUSED"}
    /\ Publish(p, IF Accepts(p) THEN Artifact(p, "COMPLETE", TRUE)
                  ELSE Artifact(p, "FAILED", ~IsBaseline(p)))

-----------------------------------------------------------------------------
(* The ledger. *)
BeginLedger(p) == Start(p, "UNBOUND", Baseline) /\ UNCHANGED consumerVars

\* Faulty: the inventory of the sources is left out.
LedgerFaulty(p) ==
    [scanned |-> Report(run[p].merged).scanned, records |-> Range(run[p].sink), version |-> 0]

\* The file is named by the hash of what it says.
Ledger(p) ==
    [scanned |-> Report(run[p].merged).scanned,
     records |-> Range(run[p].sink), version |-> run[p].version]

\* The ledger is written before anything is compared; its own validation wants
\* every record once.
WriteLedger(p) ==
    /\ ~Bound(p) /\ run[p].pc = "DONE"
    /\ IF IsInjective(run[p].sink)
       THEN /\ Set(p, [run[p] EXCEPT !.pc = "LEDGER"])
            /\ reconciled' = [l \in DOMAIN reconciled \cup {Ledger(p)} |->
                                IF l \in DOMAIN reconciled THEN reconciled[l] ELSE None]
       ELSE Raise(p) /\ UNCHANGED reconciled
    /\ UNCHANGED << market, source, checkpoints, reports, runs, harms,
                    trusted, gate, artifacts >>

ConfirmedCount(records, s) == Cardinality({r \in records : r.symbol = s})
StatusCount(records, status) == Cardinality({r \in records : r.status = status})

\* The verdict: how many records the ledger has, of each symbol and of each status,
\* and the report (which names its inventory) of the run that made it. The numbers
\* the script holds are those of the frozen baseline.
Verdict(ledger, report) ==
    LET base == Report(TrustedMerged)
    IN  IF /\ Cardinality(ledger.records) = base.funnel.trigger_confirmed
           /\ [s \in ledger.scanned |-> ConfirmedCount(ledger.records, s)]
              = [s \in Symbols |-> TrustedPayload(s).counts.trigger_confirmed]
           /\ \A status \in ConfirmedKinds :
                StatusCount(ledger.records, status) = StatusCount(TrustedRecords, status)
           /\ \A c \in {"entry_stop_rejected", "take_profit_rejected", "accepted",
                        "request_boundary_rejected"} : report.funnel[c] = base.funnel[c]
           /\ report = base /\ ledger.version = 0
        THEN "PASS" ELSE "FAIL_CLOSED"

ReconciliationOf(ledger, report) == [status |-> Verdict(ledger, report), report |-> report]
Reconciliation(p) == ReconciliationOf(Ledger(p), Report(run[p].merged))

File(p) == reconciled[Ledger(p)]
SetFile(p, content) == reconciled' = [reconciled EXCEPT ![Ledger(p)] = content]
Torn == [status |-> "TORN"]
LedgerStep(p, pc) == run[p].pc = pc
                     /\ UNCHANGED << market, source, checkpoints, reports, runs, harms,
                                      trusted, gate, artifacts >>

\* A reconciliation that is there must be the same: _write_reconciliation never
\* replaces one. It looks ...
CompareReconciliation(p) ==
    /\ LedgerStep(p, "LEDGER") /\ UNCHANGED reconciled
    /\ CASE File(p) = None -> Set(p, [run[p] EXCEPT !.pc = "CREATING"])
         [] File(p) = Reconciliation(p) -> Set(p, [run[p] EXCEPT !.pc = "RETURNED"])
         [] OTHER -> Raise(p)

\* ... and then writes in place, without a staging file and over one that another
\* process made meanwhile: a kill leaves a part of it, which no later run accepts.
OpenReconciliation(p) ==
    /\ LedgerStep(p, "CREATING")
    /\ SetFile(p, Torn)
    /\ Set(p, [run[p] EXCEPT !.pc = "WRITING"])

CloseReconciliation(p) ==
    /\ LedgerStep(p, "WRITING")
    /\ SetFile(p, Reconciliation(p))
    /\ Set(p, [run[p] EXCEPT !.pc = "RETURNED"])

Exit(p) ==
    /\ ~Bound(p) /\ run[p].pc \in {"RETURNED", "RAISED", "REFUSED"}
    /\ Set(p, Idle)
    /\ UNCHANGED << market, source, checkpoints, reports, runs, harms, consumerVars >>

-----------------------------------------------------------------------------
Init ==
    /\ ScanInit
    /\ trusted \in TrustedBases
    /\ gate = [p \in Procs |-> None]
    /\ artifacts = {}
    /\ reconciled = << >>

KillProcess(p) == Kill(p) /\ UNCHANGED << trusted, artifacts, reconciled >>
                          /\ gate' = [gate EXCEPT ![p] = None]

Process(p) ==
    \/ MayScan(p) /\ ScanStep(p) /\ UNCHANGED consumerVars
    \/ RefuseCandidate(p) \/ Judge(p)
    \/ WriteLedger(p) \/ OpenReconciliation(p) \/ CloseReconciliation(p)
    \/ CompareReconciliation(p) \/ Exit(p)

Next ==
    \/ \E p \in Procs : Process(p) \/ KillProcess(p) \/ BeginLedger(p)
    \/ \E p \in Procs, candidate \in Candidates : BeginStageA(p, candidate)
    \/ ChangeSources /\ UNCHANGED consumerVars

Spec == Init /\ [][Next]_vars

-----------------------------------------------------------------------------
(* What the consumers promise. *)

\* An open gate was earned: the baseline of the same sources was scanned, whole,
\* to the frozen result, and a candidate's own scan counts every slot of the
\* plan, whichever runs its checkpoints came from.
GateOpensOnTheBaseline ==
    \A a \in artifacts : a.open =>
        /\ \E b \in artifacts : /\ b.open /\ b.binding = << "BOUND", Baseline, a.binding[3] >>
                                /\ b.funnel = Report(TrustedMerged).funnel
        /\ \A c \in Counters :
              a.funnel[c] = SumFunction([s \in Symbols |->
                                SlotsOf(c, a.binding[2], a.binding[3], s)])

\* Every run that makes one ledger makes one reconciliation of it, whichever runs its
\* checkpoints came from: a later run is refused only over a file that a kill left
\* torn, never over one that says something else of the same ledger.
ReconciliationsAgree ==
    \A p \in Procs : run[p].pc \in {"LEDGER", "CREATING", "WRITING"} =>
        File(p) \in {None, Torn, Reconciliation(p)}
=============================================================================
