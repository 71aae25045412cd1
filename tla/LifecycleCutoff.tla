--------------------------- MODULE LifecycleCutoff ---------------------------
(***************************************************************************)
(* A symbol that was settled and listed again: the audit of its archives   *)
(* of the month (research/lifecycle_boundaries.py), the cutoff planned for *)
(* each interval (research/lifecycle_remediation.py) and what the executor *)
(* keeps of an archive (research/lifecycle_derivative.py). A world says    *)
(* what the exchange did: the old contract trades under the symbol until   *)
(* `halted' and under the settled name from `settling' until `settled',    *)
(* the new one trades from `listed', nothing trades during the outage. The *)
(* registry gives `registered' as the start of the new contract.           *)
(***************************************************************************)
EXTENDS Integers, FiniteSets, FiniteSetsExt

CONSTANTS
  Step,      \* length of each interval, in the unit of time
  MonthEnd,  \* the month is [0, MonthEnd)
  Worlds,
  NoTime     \* the registry has no verified start in this month

ASSUME CutoffAssumption == MonthEnd \in Nat /\ Step \in [{"15m", "1h", "4h", "1d"} -> Nat \ {0}]

Intraday == {"15m", "1h", "4h"}
Intervals == Intraday \cup {"1d"}
Names == {"PRIMARY", "SETTLED"}

Floor(t, i) == t - (t % Step[i])

\* Faulty: the bucket in which the new contract starts is kept.
CeilFaulty(t, i) == Floor(t, i)

Ceil(t, i) == IF t = Floor(t, i) THEN t ELSE Floor(t, i) + Step[i]

Traded(w, name) ==
  LET open == (0 .. MonthEnd - 1) \ w.outage
  IN  IF name = "SETTLED" THEN {<<"OLD", m>> : m \in open \cap (w.settling .. w.settled - 1)}
      ELSE {<<"OLD", m>> : m \in open \cap (0 .. w.halted - 1)}
           \cup {<<"NEW", m>> : m \in open \cap (w.listed .. MonthEnd - 1)}

\* Until it is halted the old contract is never silent for a whole quarter.
ASSUME WorldAssumption ==
  \A w \in Worlds :
    /\ w.registered \in Nat \cup {NoTime} /\ {w.halted, w.listed} \subseteq Int
    /\ \A t \in 0 .. w.halted - Step["15m"] :
         t = Floor(t, "15m") => \E m \in t .. t + Step["15m"] - 1 : m \notin w.outage

\* A row per bucket in which something was traded, told apart by its trades.
RowsOf(w, name, i) ==
  LET traded == Traded(w, name)
  IN  [b \in {Floor(x[2], i) : x \in traded} |-> {x \in traded : Floor(x[2], i) = b}]

Archives == [w \in Worlds |-> [n \in Names |-> [i \in Intervals |-> RowsOf(w, n, i)]]]

\* Opens of the rows after a gap, and of the row before one.
GapsIn(rows, i) == {b \in DOMAIN rows : b # Min(DOMAIN rows) /\ b - Step[i] \notin DOMAIN rows}
OldRows(rows, after) == {b \in DOMAIN rows : b < after}

----------------------------------------------------------------------------
(* The audit *)

\* Buckets of both archives; a row of both must differ.
Shared(w, i) == DOMAIN Archives[w]["PRIMARY"][i] \cap DOMAIN Archives[w]["SETTLED"][i]
Distinct(w, i) ==
  \A b \in Shared(w, i) : Archives[w]["PRIMARY"][i][b] # Archives[w]["SETTLED"][i][b]

IntradayConfirmed(w, i) ==
  LET primary == Archives[w]["PRIMARY"][i]
      settled == Archives[w]["SETTLED"][i]
      start == Floor(w.registered, i)
  IN  /\ Cardinality(GapsIn(primary, i)) = 1 /\ settled # << >> /\ GapsIn(settled, i) = {}
      /\ Shared(w, i) \subseteq {start} /\ Distinct(w, i)
      /\ \A after \in GapsIn(primary, i) :
           LET before == Max(OldRows(primary, after))
           IN  /\ after = start
               /\ before < Min(DOMAIN settled) /\ Max(DOMAIN settled) <= after

DailyConfirmed(w) ==
  LET primary == Archives[w]["PRIMARY"]["1d"]
      settled == Archives[w]["SETTLED"]["1d"]
      start == Floor(w.registered, "1d")
  IN  /\ GapsIn(primary, "1d") = {} /\ \E b \in DOMAIN primary : b >= start
      /\ DOMAIN settled = {start} /\ Shared(w, "1d") = {start} /\ Distinct(w, "1d")

\* The normalisation fails on a gap: the audit expects one in all of these.
FailureTriplet(w) == \A i \in Intraday : GapsIn(Archives[w]["PRIMARY"][i], i) # {}

Confirmed(w) ==
  /\ FailureTriplet(w) /\ w.registered # NoTime
  /\ \A i \in Intraday : IntradayConfirmed(w, i)
  /\ DailyConfirmed(w)

----------------------------------------------------------------------------
(* The plan *)

\* Rows of the old contract: before the gap, and of the daily archive before the
\* day of the new contract.
OldCount(w, i) ==
  LET primary == Archives[w]["PRIMARY"][i]
      from == IF i = "1d" THEN Floor(w.registered, i) ELSE CHOOSE b \in GapsIn(primary, i) : TRUE
  IN  Cardinality(OldRows(primary, from))

ActionFor(w, i) ==
  LET partial == IF Ceil(w.registered, i) = Floor(w.registered, i) THEN 0 ELSE 1
      rows == Cardinality(DOMAIN Archives[w]["PRIMARY"][i])
  IN  [from |-> Ceil(w.registered, i), excluded |-> OldCount(w, i) + partial,
       retained |-> rows - OldCount(w, i) - partial]

RemediationPlan(w) == [i \in Intervals |-> ActionFor(w, i)]

----------------------------------------------------------------------------
(* The derivative *)

Retained(action, rows) == {b \in DOMAIN rows : b >= action.from}

\* The executor raises when a count or the first row is not the planned one, and
\* the normalisation when the retained rows have a gap.
DerivativeRaises(action, rows, i) ==
  LET kept == Retained(action, rows)
  IN  \/ Cardinality(kept) # action.retained
      \/ Cardinality(DOMAIN rows \ kept) # action.excluded
      \/ kept # {} /\ Min(kept) # action.from
      \/ \E b \in kept : b # Min(kept) /\ b - Step[i] \notin kept
=============================================================================
