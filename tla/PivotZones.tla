----------------------------- MODULE PivotZones -----------------------------
(***************************************************************************)
(* Confirmed pivots and the zones they merge into (strategy/pivots.py),    *)
(* and the zone state the source scan keeps from slot to slot              *)
(* (_IncrementalZoneState of research/dev_source_scan.py).                 *)
(*                                                                         *)
(* A pivot is known only when PivotRight candles after it have closed.  A  *)
(* zone is a run of pivots of one kind, each within 0.20 ATR of the one    *)
(* before it; its members identify it, as their hash does in the code.     *)
(***************************************************************************)
EXTENDS Indicators, FiniteSets

CONSTANTS PivotLeft, PivotRight

ASSUME PivotAssumption == {PivotLeft, PivotRight} \subseteq Nat \ {0}

PivotKinds == {"HIGH", "LOW"}

-----------------------------------------------------------------------------
(* The close time of row i of a stream with candles of `step' units. *)
CloseOf(c, i, step) == c[i].t + step

LowPivot(c, k) ==
    /\ \A j \in (k - PivotLeft)..(k - 1)  : c[k].low < c[j].low
    /\ \A j \in (k + 1)..(k + PivotRight) : c[k].low <= c[j].low

HighPivot(c, k) ==
    /\ \A j \in (k - PivotLeft)..(k - 1)  : c[k].high > c[j].high
    /\ \A j \in (k + 1)..(k + PivotRight) : c[k].high >= c[j].high

\* Faulty: a pivot counts as confirmed when its own candle closes.
PivotEventFaulty(c, frame, k, kind, step) ==
    [kind      |-> kind,
     time      |-> c[k].t,
     confirmed |-> CloseOf(c, k, step),
     price     |-> IF kind = "LOW" THEN c[k].low ELSE c[k].high,
     atr       |-> frame[k + PivotRight].atr]

PivotEvent(c, frame, k, kind, step) ==
    [kind      |-> kind,
     time      |-> c[k].t,
     confirmed |-> CloseOf(c, k + PivotRight, step),
     price     |-> IF kind = "LOW" THEN c[k].low ELSE c[k].high,
     atr       |-> frame[k + PivotRight].atr]

PivotsAt(c, frame, k, step) ==
    IF frame[k + PivotRight].atr = NaN THEN << >>
    ELSE (IF HighPivot(c, k) THEN << PivotEvent(c, frame, k, "HIGH", step) >> ELSE << >>)
      \o (IF LowPivot(c, k)  THEN << PivotEvent(c, frame, k, "LOW", step) >>  ELSE << >>)

\* detect_confirmed_pivots: in order of confirmation, HIGH before LOW.
ConfirmedPivots(c, frame, step) ==
    IF Len(c) < PivotLeft + PivotRight + 1 THEN << >>
    ELSE FlattenSeq([n \in 1..(Len(c) - PivotLeft - PivotRight) |->
                        PivotsAt(c, frame, n + PivotLeft, step)])

-----------------------------------------------------------------------------
(* |price - previous| < 0.20 * ATR of the later pivot *)
JoinsZone(previous, pivot) == 5 * Abs(pivot.price - previous.price) < pivot.atr

Zone(members) ==
    LET prices == {members[i].price : i \in DOMAIN members}
    IN  [kind      |-> members[1].kind,
         lower     |-> CHOOSE p \in prices : \A q \in prices : p <= q,
         upper     |-> CHOOSE p \in prices : \A q \in prices : p >= q,
         confirmed |-> Last(members).confirmed,
         last      |-> Last(members).time,
         members   |-> members]

\* A pivot joins the last run of its kind or opens the next one.
ExtendRuns(runs, pivot) ==
    IF runs # << >> /\ JoinsZone(Last(Last(runs)), pivot)
    THEN Append(Front(runs), Append(Last(runs), pivot))
    ELSE Append(runs, << pivot >>)

\* The runs of adjacent pivots of one kind, one run a zone.
Runs(pivots, kind) ==
    FoldLeft(LAMBDA runs, p : IF p.kind = kind THEN ExtendRuns(runs, p) ELSE runs,
             << >>, pivots)

MergeZones(pivots) ==
    UNION {{Zone(run) : run \in Range(Runs(pivots, kind))} : kind \in PivotKinds}

-----------------------------------------------------------------------------
(* _IncrementalZoneState: the pivots taken so far, the zones that can no
   longer grow, and the open run of each kind. *)
NoZones == [next |-> 0, completed |-> {}, current |-> [kind \in PivotKinds |-> << >>]]

\* Faulty: the open run is not reset when its zone is completed.
TakePivotFaulty(z, pivot) ==
    LET members == z.current[pivot.kind]
        closes == members # << >> /\ ~JoinsZone(Last(members), pivot)
    IN  [next      |-> z.next + 1,
         completed |-> IF closes THEN z.completed \cup {Zone(members)} ELSE z.completed,
         current   |-> [z.current EXCEPT ![pivot.kind] = Append(members, pivot)]]

TakePivot(z, pivot) ==
    LET members == z.current[pivot.kind]
        closes == members # << >> /\ ~JoinsZone(Last(members), pivot)
    IN  [next      |-> z.next + 1,
         completed |-> IF closes THEN z.completed \cup {Zone(members)} ELSE z.completed,
         current   |-> [z.current EXCEPT ![pivot.kind] =
                            IF closes THEN << pivot >> ELSE Append(members, pivot)]]

CanAdvance(z, count) == count >= z.next

AdvanceZones(z, pivots, count) ==
    FoldLeft(TakePivot, z, SubSeq(pivots, z.next + 1, count))

ZonesOf(z, since) ==
    LET open == {Zone(z.current[kind]) : kind \in {k \in PivotKinds : z.current[k] # << >>}}
    IN  {zone \in z.completed \cup open : zone.last >= since}

\* _available_structure: how many pivots a slot may see.
VisiblePivots(pivots, at) == Cardinality({i \in DOMAIN pivots : pivots[i].confirmed <= at})

\* Of those, the pivots of the candles that opened since then.
PivotsSince(pivots, count, since) ==
    SubSeq(pivots, 1 + Cardinality({i \in DOMAIN pivots : pivots[i].time < since}), count)
=============================================================================
