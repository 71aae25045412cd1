-------------------------- MODULE HistoricalReplay --------------------------
(***************************************************************************)
(* replay_historical_cases of backtest/historical.py: the gate of one      *)
(* day's Universe and registry in front of the scheduler of ReplayScheduler *)
(* which replays the signals the gate lets through.                        *)
(***************************************************************************)
EXTENDS ReplayScheduler, RuleGate

CONSTANTS
  Universes,    \* snapshots a day may have
  Registries,   \* contract registries
  Ticks         \* tick sizes each signal may have been priced with

\* Times are counted; a symbol has finitely many rules; a signal names its tick.
ASSUME HistoricalAssumption ==
  /\ \A u \in Universes : u.from \in Nat /\ u.to \in Nat
  /\ \A registry \in Registries :
       /\ IsFiniteSet(registry) /\ NoRule \notin registry
       /\ \A r \in registry : r.from \in Nat /\ (r.to # NoEnd => r.to \in Nat)
                             /\ r.grade \in Grades
  /\ \A sizes \in Ticks : \A c \in Signals : sizes[c] # NoTick

VARIABLES universe, registry, tick

context == <<universe, registry, tick>>

Reasons(c) ==
  GateReasons(universe, registry, case[c].symbol, case[c].confirmation, tick[c], FALSE)

Admitted == {c \in Signals : Reasons(c) = {}}
BlockedByGate == [status |-> "BLOCKED", entry |-> NotEntered, exit |-> NotEntered,
                  blocker |-> NoBlocker]

HistoricalInit ==
  /\ case \in [Signals -> [symbol : Symbols, confirmation : Times]]
  /\ universe \in Universes /\ registry \in Registries /\ tick \in Ticks
  /\ raised = \E c \in Signals : GateRaises(registry, case[c].symbol, case[c].confirmation)
  /\ todo = Admitted
  /\ active = [s \in Symbols |-> None]
  /\ result = [c \in Signals |-> IF c \in Admitted THEN NoTrade ELSE BlockedByGate]

HistoricalNext == Next /\ UNCHANGED context

HistoricalSpec == HistoricalInit /\ [][HistoricalNext]_<<vars, context>>

----------------------------------------------------------------------------
(* Properties *)

\* No rule of the symbol starts or ends between the morning and the confirmation.
Steady(c) ==
  \A r \in registry : r.symbol = case[c].symbol =>
    \A t \in universe.from + 1 .. case[c].confirmation : r.from # t /\ r.to # t

OfTheDay(c) ==
  universe.from <= case[c].confirmation /\ case[c].confirmation < universe.to
    /\ case[c].symbol \in universe.members

\* The report written in the morning forecasts the day: a member whose rules stay
\* what they were is replayed exactly when the report of verified rules had it
\* eligible and the signal was priced with that rule's tick; a rule that only DEV
\* accepts never gets a trade here; and no signal of the day is lost: it is
\* blocked, skipped or replayed, a blocked one taking no place of another.
GateForecasts ==
  LET verified == GateReport(universe, registry, FALSE)
      dev == GateReport(universe, registry, TRUE)
  IN  ~raised => \A c \in Signals :
        /\ OfTheDay(c) /\ Steady(c) =>
             /\ result[c].status # "BLOCKED" <=>
                  case[c].symbol \in EligibleIn(verified)
                    /\ \E r \in registry : r.symbol = case[c].symbol /\ r.tick = tick[c]
                                           /\ r.from <= case[c].confirmation
                                           /\ ~Ends(r, case[c].confirmation)
             /\ case[c].symbol \in WarnedIn(dev) => ~Traded(c)
        /\ ~OfTheDay(c) => result[c].status = "BLOCKED"
        /\ result[c].status = "BLOCKED" => c \notin todo /\ \A d \in Signals : result[d].blocker # c
=============================================================================
