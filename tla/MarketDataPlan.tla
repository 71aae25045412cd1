--------------------------- MODULE MarketDataPlan ---------------------------
(***************************************************************************)
(* Which market data the accepted requests need and by which queries it is *)
(* fetched: research/replay_inputs.py (the window of a request),           *)
(* research/market_data_requirements.py (the merged windows) and the plan  *)
(* of data/binance_usdm_transport.py. Times are minutes, intervals include *)
(* their start and exclude their end, and a request is a record            *)
(* [id, symbol, confirmation, bars] for an entry that may wait "bars" bars.*)
(***************************************************************************)
EXTENDS Integers, FiniteSets, Sequences, SequencesExt

CONSTANTS
  BarMinutes,     \* 15
  HoldingBars,    \* max_holding_bars of the parameters
  PageMinutes,    \* 1500: most candles of one query
  FundingLimit,   \* 1000: a response that long may be truncated
  GuardMinutes    \* 30 days: how far to look for a neighbouring settlement

ASSUME PlanAssumption ==
  /\ BarMinutes \in Nat \ {0} /\ HoldingBars \in Nat \ {0}
  /\ PageMinutes \in Nat \ {0} /\ FundingLimit \in Nat \ {0} /\ GuardMinutes \in Nat \ {0}

Larger(a, b) == IF a < b THEN b ELSE a
Smaller(a, b) == IF a < b THEN a ELSE b
Bucket(t) == t - (t % BarMinutes)

----------------------------------------------------------------------------
(* The window of a request: replay_data_bounds *)

Start(r) == r.confirmation
Expires(r) == r.confirmation + BarMinutes * r.bars

End(r) == Bucket(Expires(r) - 1) + BarMinutes * HoldingBars + 1

\* Settlements that a position of the request can be held over.
Required(r, times) == {t \in times : Start(r) < t /\ t < End(r) - 1}

----------------------------------------------------------------------------
(* The merged windows: build_market_data_requirement_plan *)

Earlier(a, b) ==
  Start(a) < Start(b) \/ (Start(a) = Start(b) /\ (End(a) < End(b) \/ (End(a) = End(b) /\ a.id <= b.id)))

\* The members of a set in an order that is total on it: SetToSortSeq, by the place
\* of each member.
InOrder(set, Before(_, _)) ==
  [n \in 1 .. Cardinality(set) |->
     CHOOSE x \in set : Cardinality({y \in set : y # x /\ Before(y, x)}) = n - 1]

Reaches(window, r) == Start(r) <= window.end

Merge(windows, r) ==
  IF windows # << >> /\ Reaches(Last(windows), r)
  THEN LET prior == Last(windows)
       IN  Append(Front(windows), [prior EXCEPT !.end = Larger(@, End(r)),
                                                !.requests = @ \cup {r}])
  ELSE Append(windows, [start |-> Start(r), end |-> End(r), requests |-> {r}])

OfSymbol(requests, symbol) == {r \in requests : r.symbol = symbol}
SymbolsOf(requests) == {r.symbol : r \in requests}

WindowsOf(requests, symbol) ==
  FoldLeft(Merge, << >>, InOrder(OfSymbol(requests, symbol), Earlier))

\* "symbol windows must already be merged"
Merged(windows) == \A i \in 1 .. Len(windows) - 1 : windows[i].end < windows[i + 1].start

Windows(requests) ==
  UNION {{[symbol |-> s, start |-> w.start, end |-> w.end, requests |-> w.requests] :
            w \in ToSet(WindowsOf(requests, s))} : s \in SymbolsOf(requests)}

----------------------------------------------------------------------------
(* The queries: build_binance_transport_plan *)

\* Faulty: queries are cut by the page size alone.
BoundariesFaulty(requests, w) == {w.start, w.end}

Boundaries(requests, w) ==
  {w.start, w.end} \cup
    UNION {{Larger(Start(r), w.start), Smaller(End(r), w.end)} :
             r \in {q \in OfSymbol(requests, w.symbol) : Start(q) < w.end /\ End(q) > w.start}}

NextBoundary(boundaries, t) ==
  CHOOSE b \in boundaries : t < b /\ \A c \in boundaries : t < c => b <= c

\* From one boundary to the next in pages, each for the requests it overlaps.
Segments(requests, w) ==
  LET boundaries == Boundaries(requests, w)
      PageStarts(left) ==
        {t \in left .. NextBoundary(boundaries, left) - 1 : (t - left) % PageMinutes = 0}
      Page(left, t) == [start |-> t, end |-> Smaller(t + PageMinutes, NextBoundary(boundaries, left))]
      Pages == UNION {{Page(left, t) : t \in PageStarts(left)} : left \in boundaries \ {w.end}}
  IN  {[symbol |-> w.symbol, start |-> p.start, end |-> p.end,
        requests |-> {r \in OfSymbol(requests, w.symbol) : Start(r) < p.end /\ End(r) > p.start}] :
         p \in Pages}

Task(role, s, limit) ==
  [role |-> role, symbol |-> s.symbol, start |-> s.start, end |-> s.end,
   limit |-> limit, requests |-> s.requests]

CandleTask(s) == Task("CANDLE", s, s.end - s.start)
FundingTask(s) == Task("FUNDING", s, FundingLimit)
GuardBefore(w) ==
  Task("GUARD_BEFORE", [w EXCEPT !.start = Larger(0, w.start - GuardMinutes), !.end = w.start],
       FundingLimit)
GuardAfter(w) ==
  Task("GUARD_AFTER", [w EXCEPT !.start = w.end, !.end = w.end + GuardMinutes], 1)

Tasks(requests) ==
  UNION {{GuardBefore(w), GuardAfter(w)}
           \cup UNION {{CandleTask(s), FundingTask(s)} : s \in Segments(requests, w)} :
             w \in Windows(requests)}

\* "transport task ranges overlap"
Overlap(tasks) ==
  \E t, u \in tasks :
    /\ t # u /\ t.role = u.role /\ t.role \in {"CANDLE", "FUNDING"} /\ t.symbol = u.symbol
    /\ t.start < u.end /\ u.start < t.end

PlanRaises(requests) ==
  \/ requests = {}
  \/ \E s \in SymbolsOf(requests) : ~Merged(WindowsOf(requests, s))
  \/ \E w \in Windows(requests) : \E s \in Segments(requests, w) : s.requests = {}
  \/ Overlap(Tasks(requests))
=============================================================================
