---------------------------- MODULE FundingLedger ----------------------------
(***************************************************************************)
(* What is computed from the result of a replay, once it has returned: the *)
(* ledger of fills (replay_with_costs of backtest/costs.py), the funding   *)
(* of the settlements a trade was held over (apply_funding of              *)
(* backtest/analytics.py) and whether the canonical summary can be written *)
(* (build_canonical_summary of backtest/summary.py).                       *)
(*                                                                         *)
(* Rates are fractions of RateUnit, so simulated prices are counted in     *)
(* 1/RateUnit and fees and profits in 1/RateUnit^2 of a price; fractions   *)
(* are halves. An observation of a settlement is mark price times rate, in *)
(* 1/RateUnit; one without rate or mark price counts as an absent one.     *)
(***************************************************************************)
EXTENDS EventReplay, EventLog

CONSTANTS Datasets      \* the funding data sets a trade may be valued with

NoDataset == [start |-> 0, end |-> 0, expected |-> {}, observed |-> << >>]

\* Expected settlements lie inside the coverage, observations are of expected ones.
Dataset(d) ==
  /\ d.start \in Nat /\ d.end \in Nat /\ d.start < d.end
  /\ d.expected \subseteq d.start .. d.end - 1
  /\ DOMAIN d.observed \subseteq d.expected
  /\ \A t \in DOMAIN d.observed : d.observed[t] \in Int

ASSUME DatasetAssumption == \A d \in Datasets : Dataset(d)

----------------------------------------------------------------------------
(* The ledger of fills *)

FillTypes == {"ENTRY_FILL", "TP1_FILL", "STOP_FILL", "TP2_FILL", "TIME_EXIT"}

\* The fills, as places of the log.
Fills == {i \in Log : events[i].type \in FillTypes}
Exits == {i \in Fills : events[i].type # "ENTRY_FILL"}

Buys(fill) == (fill.type = "ENTRY_FILL") = Long

SimulatedPrice(fill) ==
  fill.price * (IF Buys(fill) THEN RateUnit + SlippageRate ELSE RateUnit - SlippageRate)
Fee(fill) == SimulatedPrice(fill) * fill.fraction * FeeRate
SlippageCost(fill) == Distance(SimulatedPrice(fill), fill.price * RateUnit) * fill.fraction
Cashflow(fill, price) == IF Buys(fill) THEN -(price * fill.fraction) ELSE price * fill.fraction

SumOver(f(_), places) == SumFunction([i \in places |-> f(events[i])])

TotalFee == SumOver(Fee, Fills)
TotalSlippage == SumOver(SlippageCost, Fills)
GrossPnl == SumOver(LAMBDA fill : Cashflow(fill, fill.price), Fills)
SimulatedPnl == SumOver(LAMBDA fill : Cashflow(fill, SimulatedPrice(fill)), Fills)
NetBeforeFunding == SimulatedPnl * RateUnit - TotalFee

TradeClosed == stage = "RETURNED" /\ signal = "TRIGGERED" /\ position = "FLAT"

\* ReplayInputError: the fills of a closed trade do not balance to one.
LedgerRaises ==
  TradeClosed /\ (\/ Cardinality(Fills) < 2 \/ events[Min(Fills)].type # "ENTRY_FILL"
                  \/ events[Min(Fills)].fraction # Full
                  \/ SumOver(LAMBDA fill : fill.fraction, Exits) # Full)

----------------------------------------------------------------------------
(* Funding *)

EntryTime == entry.time
ExitTime == events[Max(Fills)].time

\* Faulty: a fill at the settlement itself has already left the position.
OpenFractionAtFaulty(t) ==
  Full - SumOver(LAMBDA fill : fill.fraction,
                 {i \in Exits : \A j \in 1 .. i : events[j].time <= t})

\* The log is read up to the first event that is not before the settlement.
OpenFractionAt(t) ==
  Full - SumOver(LAMBDA fill : fill.fraction,
                 {i \in Exits : \A j \in 1 .. i : events[j].time < t})

Covered(d) == d # NoDataset /\ d.start <= EntryTime /\ d.end > ExitTime
Settlements(d) == {t \in d.expected : EntryTime < t /\ t < ExitTime}
Missing(d) == Settlements(d) \ DOMAIN d.observed

FundingAt(d, t) == (IF Long THEN -1 ELSE 1) * d.observed[t] * OpenFractionAt(t)
Funding(d) == SumFunction([t \in Settlements(d) \ Missing(d) |-> FundingAt(d, t)])

\* The scenario ZERO has no costs, and no funding.
NoCosts == FeeRate = 0 /\ SlippageRate = 0

Adjusted(eligible, missing, flow, net) ==
  [eligible |-> eligible, dataMissing |-> missing, cashFlow |-> flow, net |-> net]

ApplyFunding(d) ==
  IF ~TradeClosed THEN Adjusted(FALSE, FALSE, 0, 0)
  ELSE IF NoCosts THEN Adjusted(TRUE, FALSE, 0, NetBeforeFunding)
  ELSE IF ~Covered(d) THEN Adjusted(FALSE, TRUE, 0, 0)
  ELSE IF Missing(d) # {} THEN Adjusted(FALSE, TRUE, Funding(d), 0)
  ELSE Adjusted(TRUE, FALSE, Funding(d), NetBeforeFunding + Funding(d) * RateUnit)

\* ValueError: an event of the log, or an application of funding, is listed twice.
SummaryRaises ==
  Cardinality({EventId(events[i]) : i \in Log}) # Len(events)

----------------------------------------------------------------------------
(* Properties *)

\* The position another reader of the log, reduce_event_log, has open just before
\* time t, and the reader's order: funding is charged before what happens at t.
HeldUntil(t) ==
  FoldLeft(LAMBDA s, e : IF e.time < t THEN Apply(s, e) ELSE s, Fresh, events).openFraction

\* What each exit has to carry: the funding of its own quantity for every
\* settlement between the entry and itself, none for one at the final exit.
CarriedBy(exit, d) ==
  SumFunction([t \in Settlements(d) |->
                 IF t <= exit.time THEN (IF Long THEN -1 ELSE 1) * d.observed[t] * exit.fraction
                 ELSE 0])

\* A closed trade pays funding for what it held, at every settlement strictly
\* between its entry and its exit: the quantity is the one the reducer of the log
\* has open, the total is what its exits carry leg by leg, and the net result
\* is published exactly when every such settlement is known. The slippage cost is
\* the difference of the two profits (docs/p7-event-replay-contract.md:105), and
\* neither the ledger nor the summary refuses what a replay returned.
FundingChargesThePosition ==
  stage = "RETURNED" =>
    /\ ~SummaryRaises
    /\ TradeClosed =>
         /\ ~LedgerRaises
         /\ TotalSlippage = GrossPnl * RateUnit - SimulatedPnl
         /\ \A d \in Datasets \cup {NoDataset} :
              LET r == ApplyFunding(d)
              IN  /\ \A t \in Settlements(d) :
                       OpenFractionAt(t) = HeldUntil(t) /\ OpenFractionAt(t) \in Half .. Full
                  /\ r.eligible <=> NoCosts \/ (Covered(d) /\ Missing(d) = {})
                  /\ r.eligible /\ ~NoCosts =>
                       /\ r.cashFlow = SumOver(LAMBDA exit : CarriedBy(exit, d), Exits)
                       /\ r.net = (GrossPnl * RateUnit - TotalSlippage + r.cashFlow) * RateUnit
                                    - TotalFee
=============================================================================
