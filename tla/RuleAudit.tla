------------------------------ MODULE RuleAudit ------------------------------
(***************************************************************************)
(* The frozen split of the research days (research/splits.py), the audit   *)
(* that walks every day's Universe through the rule gate, and the report   *)
(* of the rules DEV still lacks (research/rule_gaps.py), which walks the   *)
(* DEV days once more, one day per step. Day d's snapshot starts at        *)
(* 2d + 1, so that rules can change between two days or at a start.        *)
(***************************************************************************)
EXTENDS RuleGate, Sequences, SequencesExt, Functions

CONSTANTS
  Symbols,
  DayCount,       \* days of the research interval
  Registries,
  Memberships     \* members of each day: functions from the days

ASSUME AuditAssumption ==
  /\ DayCount \in Nat /\ IsFiniteSet(Symbols)
  /\ \A rules \in Registries :
       /\ ValidRegistry(rules) /\ NoRule \notin rules
       /\ \A r \in rules : r.from \in Int /\ r.to \in Int \cup {NoEnd}
  /\ \A m \in Memberships : \A d \in DOMAIN m : m[d] \subseteq Symbols

Days == 0 .. DayCount - 1
Roles == <<"DEV", "VALIDATION", "LOCKED_TEST">>

VARIABLES
  registry, members,   \* the inputs; members of each day that has a snapshot
  frozen,              \* the snapshot sequence whose hash the split froze
  phase,               \* "AUDIT", "GAPS", "DONE" or "RAISED"
  day,                 \* next day of the walk
  counts,              \* of each role: days and members seen, eligible, warned, reasons
  gaps                 \* of each symbol: its gap windows so far

auditVars == <<registry, members, frozen, phase, day, counts, gaps>>

\* build_research_split: half of the days, then a quarter and a quarter.
SplitRaises == DayCount % 4 # 0 \/ DayCount = 0
SegmentStart(role) ==
  CASE role = "DEV" -> 0 [] role = "VALIDATION" -> DayCount \div 2
    [] role = "LOCKED_TEST" -> DayCount \div 2 + DayCount \div 4
SegmentDays(role) == IF role = "DEV" THEN DayCount \div 2 ELSE DayCount \div 4
InSegment(role, d) == SegmentStart(role) <= d /\ d < SegmentStart(role) + SegmentDays(role)
RoleFor(d) == CHOOSE role \in Range(Roles) : InSegment(role, d)

Snapshot(d) == [from |-> 2 * d + 1, to |-> 2 * d + 3, members |-> members[d]]
DayReport(d, role) == GateReport(Snapshot(d), registry, role = "DEV")

Reasons == {"CONTRACT_RULE_MISSING", "CONTRACT_RULE_UNVERIFIED"}
NothingSeen ==
  [days |-> 0, members |-> 0, eligible |-> 0, blocked |-> 0, warned |-> 0,
   reasons |-> [r \in Reasons |-> 0]]

\* The snapshots must cover the interval and be those the split was frozen for.
Admissible == DOMAIN members = Days /\ members = frozen

Refuse ==
  /\ phase = "AUDIT" /\ day = 0 /\ (SplitRaises \/ ~Admissible)
  /\ phase' = "RAISED"
  /\ UNCHANGED <<registry, members, frozen, day, counts, gaps>>

Tally(seen, report) ==
  [days |-> seen.days + 1,
   members |-> seen.members + Cardinality(DOMAIN report),
   eligible |-> seen.eligible + Cardinality(EligibleIn(report)),
   blocked |-> seen.blocked + Cardinality(BlockedIn(report)),
   warned |-> seen.warned + Cardinality(WarnedIn(report)),
   reasons |-> [r \in Reasons |-> seen.reasons[r] + Cardinality(ReasonsIn(report, r))]]

AuditDay ==
  /\ phase = "AUDIT" /\ day < DayCount /\ ~SplitRaises /\ Admissible
  /\ LET role == RoleFor(day)
     IN  counts' = [counts EXCEPT ![role] = Tally(@, DayReport(day, role))]
  /\ day' = day + 1
  /\ UNCHANGED <<registry, members, frozen, phase, gaps>>

Blockers(role) ==
  {b \in {"UNIVERSE_DAY_COVERAGE_INCOMPLETE"} : counts[role].days # SegmentDays(role)}
    \cup {b \in {"NO_VERIFIED_HISTORICAL_CONTRACT_RULE_MEMBER_DAYS"} : counts[role].eligible = 0}

Readiness(role) == IF Blockers(role) = {} THEN "READY" ELSE "BLOCKED"
Overall == IF \A role \in Range(Roles) : Readiness(role) = "READY" THEN "READY" ELSE "BLOCKED"

BeginGaps ==
  /\ phase = "AUDIT" /\ day = DayCount /\ ~SplitRaises
  /\ phase' = "GAPS" /\ day' = SegmentStart("DEV")
  /\ UNCHANGED <<registry, members, frozen, counts, gaps>>

Window(start, d, reasons) == [start |-> start, end |-> d + 1, reasons |-> reasons]

\* Faulty: a window is extended over the days in between.
ExtendsFaulty(prior, d, reasons) == prior # << >> /\ Last(prior).reasons = reasons

Extends(prior, d, reasons) ==
  prior # << >> /\ Last(prior).end = d /\ Last(prior).reasons = reasons

WithDay(prior, d, reasons) ==
  IF Extends(prior, d, reasons)
  THEN Append(Front(prior), Window(Last(prior).start, d, reasons))
  ELSE Append(prior, Window(d, d, reasons))

GapDay ==
  /\ phase = "GAPS" /\ InSegment("DEV", day)
  /\ LET report == DayReport(day, "DEV")
     IN  gaps' = [s \in Symbols |-> IF s \in BlockedIn(report)
                                    THEN WithDay(gaps[s], day, report[s].reasons)
                                    ELSE gaps[s]]
  /\ day' = day + 1
  /\ UNCHANGED <<registry, members, frozen, phase, counts>>

\* RuleGapTarget and DevRuleGapReport: what their validators add up.
BlockedDays(s) == SumFunction([i \in DOMAIN gaps[s] |-> gaps[s][i].end - gaps[s][i].start])
GapTargets == {s \in Symbols : gaps[s] # << >>}
GapsReconcile ==
  /\ SumFunctionOnSet([s \in Symbols |-> BlockedDays(s)], GapTargets) = counts["DEV"].blocked
  /\ \A s \in GapTargets : \A i \in 1 .. Len(gaps[s]) - 1 :
       LET w == gaps[s][i]
           next == gaps[s][i + 1]
       IN  w.end <= next.start /\ ~(w.end = next.start /\ w.reasons = next.reasons)

Finish ==
  /\ phase = "GAPS" /\ ~InSegment("DEV", day)
  /\ phase' = IF GapsReconcile THEN "DONE" ELSE "RAISED"
  /\ UNCHANGED <<registry, members, frozen, day, counts, gaps>>

\* A snapshot sequence may have been rebuilt since: without one symbol.
Earliest == CHOOSE s \in Symbols : \A t \in Symbols : s <= t

AuditInit ==
  /\ registry \in Registries /\ members \in Memberships
  /\ frozen \in {members, [d \in DOMAIN members |-> members[d] \ {Earliest}]}
  /\ phase = "AUDIT" /\ day = 0
  /\ counts = [role \in Range(Roles) |-> NothingSeen]
  /\ gaps = [s \in Symbols |-> << >>]

AuditNext == Refuse \/ AuditDay \/ BeginGaps \/ GapDay \/ Finish

AuditSpec == AuditInit /\ [][AuditNext]_auditVars

----------------------------------------------------------------------------
(* Properties *)

\* The symbol is a member of DEV day d and has no rule there that DEV accepts.
Lacks(s, d) ==
  /\ InSegment("DEV", d) /\ s \in members[d]
  /\ ~\E r \in registry : r.symbol = s /\ r.from <= 2 * d + 1 /\ ~Ends(r, 2 * d + 1) /\ DevGrade(r)

WhyLacking(s, d) ==
  IF \E r \in registry : r.symbol = s /\ r.from <= 2 * d + 1 /\ ~Ends(r, 2 * d + 1)
  THEN "CONTRACT_RULE_UNVERIFIED" ELSE "CONTRACT_RULE_MISSING"

SameGap(s, d, e) == Lacks(s, d) /\ Lacks(s, e) /\ WhyLacking(s, d) = WhyLacking(s, e)

\* The gap report explains the audit it names: the windows of a symbol are exactly
\* the longest runs of consecutive DEV days it was blocked for one reason, each
\* blocked member-day of the audit lies in one of them, and the reports never
\* disagree ("rule gap window counts do not reconcile" is not raised). Rules of
\* medium confidence count in DEV only.
GapsExplainTheAudit ==
  /\ phase = "RAISED" => ~Admissible \/ SplitRaises
  /\ phase = "DONE" =>
       /\ \A s \in Symbols : \A d \in Days :
            Lacks(s, d) <=> \E i \in DOMAIN gaps[s] :
              LET w == gaps[s][i]
              IN  /\ w.start <= d /\ d < w.end /\ w.reasons = {WhyLacking(s, d)}
                  /\ \A e \in w.start .. w.end - 1 : SameGap(s, d, e)
                  /\ \A e \in {w.start - 1, w.end} : ~SameGap(s, d, e)
       /\ \A role \in Range(Roles) :
            /\ counts[role].days = SegmentDays(role)
            /\ counts[role].members = counts[role].eligible + counts[role].blocked
            /\ counts[role].warned > 0 => role = "DEV"
       /\ Overall = "READY" =>
            \A role \in {"VALIDATION", "LOCKED_TEST"} : \E d \in Days, r \in registry :
              InSegment(role, d) /\ r.symbol \in members[d] /\ LockedGrade(r)
=============================================================================
