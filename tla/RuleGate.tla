------------------------------ MODULE RuleGate ------------------------------
(***************************************************************************)
(* The contract-rule gate of backtest/historical.py over the registry and  *)
(* the daily snapshot of domain/universe.py. A registry is a set of rules  *)
(* [symbol, from, to, grade, tick], each in force from "from" until just   *)
(* before "to"; a snapshot [from, to, members] is a day's Universe.        *)
(***************************************************************************)
EXTENDS Integers, FiniteSets

CONSTANTS
  NoEnd,     \* effective_to None
  NoRule,    \* no rule is in force
  NoTick     \* the caller does not say which tick it used

Grades == {"VERIFIED", "APPROXIMATE", "UNUSABLE"}
LockedGrade(rule) == rule.grade = "VERIFIED"
DevGrade(rule) == LockedGrade(rule) \/ rule.grade = "APPROXIMATE"

Ends(rule, t) == rule.to # NoEnd /\ rule.to <= t

\* Intervals of one symbol never overlap.
ValidRegistry(registry) ==
  /\ \A r \in registry : ~Ends(r, r.from)
  /\ \A r, s \in registry :
       r # s /\ r.symbol = s.symbol => Ends(r, s.from) \/ Ends(s, r.from)

\* Faulty: a rule still applies at the moment it ends.
ActiveRulesFaulty(registry, symbol, at) ==
  {r \in registry : r.symbol = symbol /\ r.from <= at /\ ~Ends(r, at - 1)}

ActiveRules(registry, symbol, at) ==
  {r \in registry : r.symbol = symbol /\ r.from <= at /\ ~Ends(r, at)}

\* HistoricalReplayError: several rules are in force.
GateRaises(registry, symbol, at) == Cardinality(ActiveRules(registry, symbol, at)) > 1

ActiveRule(registry, symbol, at) ==
  LET rules == ActiveRules(registry, symbol, at)
  IN  IF rules = {} THEN NoRule ELSE CHOOSE r \in rules : TRUE

UsableRule(rule, approximate) == LockedGrade(rule) \/ (approximate /\ DevGrade(rule))

RuleReasons(rule, tick, approximate) ==
  IF rule = NoRule THEN {"CONTRACT_RULE_MISSING"}
  ELSE IF ~UsableRule(rule, approximate) THEN {"CONTRACT_RULE_UNVERIFIED"}
  ELSE IF tick # NoTick /\ tick # rule.tick THEN {"TICK_SIZE_MISMATCH"} ELSE {}

GateReasons(universe, registry, symbol, at, tick, approximate) ==
  {r \in {"SNAPSHOT_INACTIVE"} : ~(universe.from <= at /\ at < universe.to)}
    \cup {r \in {"NOT_UNIVERSE_MEMBER"} : symbol \notin universe.members}
    \cup RuleReasons(ActiveRule(registry, symbol, at), tick, approximate)

MemberReasons(universe, registry, symbol, approximate) ==
  GateReasons(universe, registry, symbol, universe.from, NoTick, approximate)

\* evaluate_universe_rule_gate: the verdict on each member when the snapshot starts.
GateEntry(universe, registry, symbol, approximate) ==
  LET reasons == MemberReasons(universe, registry, symbol, approximate)
      rule == ActiveRule(registry, symbol, universe.from)
  IN  [reasons |-> reasons, warned |-> reasons = {} /\ ~LockedGrade(rule)]

GateReport(universe, registry, approximate) ==
  [s \in universe.members |-> GateEntry(universe, registry, s, approximate)]

EligibleIn(report) == {s \in DOMAIN report : report[s].reasons = {}}
BlockedIn(report) == DOMAIN report \ EligibleIn(report)
WarnedIn(report) == {s \in DOMAIN report : report[s].warned}
ReasonsIn(report, reason) == {s \in DOMAIN report : reason \in report[s].reasons}
=============================================================================
