---------------------------- MODULE KlineArchives ----------------------------
(***************************************************************************)
(* What one monthly archive of klines says (normalize_klines of            *)
(* data/klines.py) and how the archives of one day choose the universe     *)
(* (build_daily_universe of data/universe.py).                             *)
(*                                                                         *)
(* Times count candles of the ranking interval: a day has DayCandles of    *)
(* them and a month PeriodDays days. A row of an archive is the open of    *)
(* its candle, its quote volume and whether its values are those of a      *)
(* closed candle. Symbols are numbers in the order of their names.         *)
(***************************************************************************)
EXTENDS Integers, SequencesExt

CONSTANTS
  Symbols,
  FixedOrder,        \* FIXED_SYMBOLS, a tuple
  TargetCount,       \* TARGET_MEMBER_COUNT
  DayCandles,        \* RANKING_CANDLE_COUNT
  PeriodDays,
  Standing           \* what registry and exclusion ledger say of each symbol

Standings == {"ELIGIBLE", "SYMBOL_INELIGIBLE", "CONTRACT_UNVERIFIED", "EXCLUDED"}

FixedSymbols == ToSet(FixedOrder)

ASSUME UniverseAssumption ==
  /\ Symbols \subseteq Nat /\ IsFiniteSet(Symbols) /\ FixedOrder \in Seq(Symbols)
  /\ TargetCount \in Nat /\ Cardinality(FixedSymbols) < TargetCount
  /\ DayCandles \in Nat \ {0} /\ PeriodDays \in Nat \ {0}
  /\ Standing \in [Symbols -> Standings]

Row(open, volume) == [open |-> open, volume |-> volume, sound |-> TRUE]

PeriodStart(period) == period * PeriodDays * DayCandles
PeriodOf(day) == day \div PeriodDays

----------------------------------------------------------------------------
(* normalize_klines *)

Opens(rows) == {row.open : row \in rows}

\* Two different rows of one candle.
Conflicting(rows) == Cardinality(rows) # Cardinality(Opens(rows))

Gapped(rows) == \E open \in Opens(rows) : /\ \E later \in Opens(rows) : open < later
                                           /\ open + 1 \notin Opens(rows)

\* The rows of an archive with identical duplicates removed, or the error that
\* refuses the archive. A month may start late and end early.
Normalize(archive, period) ==
  LET rows == ToSet(archive)
  IN  IF rows = {} THEN "ArchiveLayoutError"
      ELSE IF Conflicting(rows) THEN "DuplicateCandleConflictError"
      ELSE IF Gapped(rows) THEN "CandleGapError"
      ELSE IF \/ \E row \in rows : ~row.sound
              \/ ~(Opens(rows) \subseteq PeriodStart(period) .. PeriodStart(period + 1) - 1)
           THEN "CandleValidationError"
      ELSE "NORMALIZED"

Normalizes(archive, period) == Normalize(archive, period) = "NORMALIZED"

----------------------------------------------------------------------------
(* build_daily_universe *)

Window(day) == day * DayCandles .. (day + 1) * DayCandles - 1
InWindow(rows, day) == {row \in rows : row.open \in Window(day)}

\* What a symbol's rows of the ranking day give: their volume, or why not.
WindowReason(rows, day) ==
  IF \E row \in InWindow(rows, day) : ~row.sound THEN "CANDLE_INVALID"
  ELSE IF Conflicting(InWindow(rows, day)) THEN "DUPLICATE_CONFLICT"
  ELSE IF Opens(InWindow(rows, day)) # Window(day) THEN "CANDLE_GAP"
  ELSE "COUNTED"

WindowVolume(rows, day) == SumFunction([row \in InWindow(rows, day) |-> row.volume])

\* The inputs of a day: "frames" are the rows read, "blocks" the symbols whose
\* rows could not be read, "evidence" the symbols with every interval normalised.
Reason(s, day, input) ==
  IF s \in input.blocks THEN "DATA_INCOMPLETE"
  ELSE IF Standing[s] # "ELIGIBLE" THEN Standing[s]
  ELSE IF s \notin input.evidence THEN "DATA_INCOMPLETE"
  ELSE IF s \notin DOMAIN input.frames \/ InWindow(input.frames[s], day) = {} THEN "DATA_INCOMPLETE"
  ELSE WindowReason(input.frames[s], day)

Eligible(day, input) == {s \in Symbols : Reason(s, day, input) = "COUNTED"}

\* By falling volume, then by name: each symbol behind all that are ahead of it.
Ahead(volume, a, b) == volume[a] > volume[b] \/ (volume[a] = volume[b] /\ a < b)
Ranked(set, volume) ==
  [n \in 1 .. Cardinality(set) |->
     CHOOSE s \in set : Cardinality({t \in set : Ahead(volume, t, s)}) = n - 1]

Member(s, volume, forced) == [symbol |-> s, volume |-> volume[s], forced |-> forced]

\* Faulty: the last selected symbol makes room, a fixed one as well.
MakeRoomFaulty(selected) == Front(selected)

\* The last symbol that is not fixed makes room.
MakeRoom(selected) ==
  IF Len(selected) < TargetCount THEN selected
  ELSE RemoveAt(selected, Max({i \in DOMAIN selected : selected[i] \notin FixedSymbols}))

\* FIXED_SYMBOLS, in the order of the tuple, each forced in when it is eligible.
ForceIn(chosen, s, eligible) ==
  IF s \notin eligible \/ s \in ToSet(chosen) THEN chosen ELSE Append(MakeRoom(chosen), s)
WithFixed(selected, eligible) ==
  FoldLeft(LAMBDA chosen, s : ForceIn(chosen, s, eligible), selected, FixedOrder)

Snapshot(day, input) ==
  LET eligible == Eligible(day, input)
      volume == [s \in eligible |-> WindowVolume(input.frames[s], day)]
      ranked == Ranked(eligible, volume)
      selected == SubSeq(ranked, 1, IF Len(ranked) < TargetCount THEN Len(ranked) ELSE TargetCount)
      members == ToSet(WithFixed(selected, eligible))
  IN  [day |-> day,
       members |-> [i \in 1 .. Cardinality(members) |->
                      LET s == Ranked(members, volume)[i]
                      IN  Member(s, volume, s \notin ToSet(selected))],
       blocked |-> [s \in Symbols \ eligible |-> Reason(s, day, input)]]
=============================================================================
