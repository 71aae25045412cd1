----------------------- MODULE ReplayScheduler_proofs -----------------------
(***************************************************************************)
(* Proofs about ReplayScheduler and HistoricalReplay, for any number of    *)
(* signals, symbols and contract rules and any confirmations, entries and  *)
(* exits.                                                                  *)
(***************************************************************************)
EXTENDS HistoricalReplay, FiniteSetTheorems, TLAPS

LEMMA OutcomeType ==
  ASSUME NEW o \in Outcomes
  PROVE  /\ o.status = "EXECUTED" /\ o.entry \in Times /\ o.exit \in Times \cup {StillOpen}
         /\ o.blocker = NoBlocker
         /\ o \in Results
BY DEF Outcomes, Results

LEMMA SentinelsAreNoTimes ==
  /\ StillOpen \notin Times /\ NotEntered \notin Times /\ NotEntered # StillOpen
  /\ NoBlocker \notin Signals
BY SchedulerAssumption DEF StillOpen, NotEntered, NoBlocker

LEMMA NoTradeIsNoOutcome ==
  /\ NoTrade \notin Outcomes
  /\ \A b \in Signals : SkippedFor(b) \notin Outcomes
BY SentinelsAreNoTimes DEF NoTrade, SkippedFor, Outcomes

(* Type correctness *)

\* TypeOK with the results a signal may have as a parameter: the gate adds its own.
Typed(R) ==
  /\ case \in [Signals -> [symbol : Symbols, confirmation : Times]]
  /\ todo \subseteq Signals
  /\ active \in [Symbols -> {None} \cup
                   [signal : Signals, exit : Times \cup {StillOpen}]]
  /\ result \in [Signals -> R]
  /\ raised \in BOOLEAN

LEMMA InitType == Init => TypeOK
BY DEF Init, TypeOK, Results

LEMMA BlockedByTrade ==
  ASSUME NEW R, Typed(R), NEW c \in Signals, Blocked(c)
  PROVE  /\ active[case[c].symbol] \in [signal : Signals, exit : Times \cup {StillOpen}]
         /\ case[c].symbol \in Symbols
BY DEF Typed, Blocked

LEMMA NextTyped ==
  ASSUME NEW CONSTANT R, Results \subseteq R, Typed(R), [Next]_vars
  PROVE  Typed(R)'
<1>1. CASE UNCHANGED vars
  BY <1>1 DEF vars, Typed
<1>2. ASSUME NEW c \in Signals, Skip(c)
      PROVE  Typed(R)'
  <2>1. active[case[c].symbol].signal \in Signals
    BY <1>2, BlockedByTrade DEF Skip
  <2>2. SkippedFor(active[case[c].symbol].signal) \in R
    BY <2>1 DEF Results
  <2> QED BY <1>2, <2>2 DEF Skip, Report, Typed
<1>3. ASSUME NEW c \in Signals, ReplayWithoutTrade(c)
      PROVE  Typed(R)'
  <2>1. NoTrade \in R
    BY DEF Results
  <2> QED BY <1>3, <2>1 DEF ReplayWithoutTrade, Report, Typed
<1>4. ASSUME NEW c \in Signals, NEW o \in Outcomes, ReplayTrade(c, o)
      PROVE  Typed(R)'
  <2>1. case[c].symbol \in Symbols /\ o \in R
    BY OutcomeType DEF Typed
  <2> QED BY <1>4, <2>1, OutcomeType DEF ReplayTrade, Report, Typed
<1>5. ASSUME NEW c \in Signals, ReplayRaises(c)
      PROVE  Typed(R)'
  BY <1>5 DEF ReplayRaises, Typed
<1> QED BY <1>1, <1>2, <1>3, <1>4, <1>5 DEF Next

LEMMA NextType == TypeOK /\ [Next]_vars => TypeOK'
<1>1. TypeOK <=> Typed(Results)
  BY DEF TypeOK, Typed
<1>2. TypeOK' <=> Typed(Results)'
  BY DEF TypeOK, Typed
<1> QED BY <1>1, <1>2, NextTyped

\* Every variable keeps the type of the code's field (replay_cases of runner.py).
THEOREM TypeCorrect == Spec => []TypeOK
BY InitType, NextType, PTL DEF Spec

----------------------------------------------------------------------------
(* No two trades of a symbol open at once *)

\* Signals are replayed in the order of their confirmations.
TradedFirst ==
  \A d \in Signals, c \in todo : Traded(d) => case[d].confirmation <= case[c].confirmation

\* A trade is entered after its confirmation and not exited before its entry.
TradeTimes ==
  \A c \in Signals : Traded(c) =>
    /\ case[c].confirmation <= result[c].entry
    /\ result[c].exit = StillOpen \/ result[c].entry <= result[c].exit

\* active[s] is the last trade of symbol s: every other one had ended when it
\* was confirmed.
LastTrade(s) ==
  LET a == active[s].signal
  IN  /\ Traded(a) /\ case[a].symbol = s /\ result[a].exit = active[s].exit
      /\ \A d \in Signals : Traded(d) /\ case[d].symbol = s /\ d # a =>
           EndsBy(d, case[a].confirmation)

ActiveIsLast ==
  \A s \in Symbols :
    IF active[s] = None THEN \A c \in Signals : Traded(c) => case[c].symbol # s
                        ELSE active[s].signal \in Signals /\ LastTrade(s)

\* Of two trades of a symbol one had ended when the other was entered.
OneAfterAnother ==
  \A c, d \in Signals :
    Traded(c) /\ Traded(d) /\ c # d /\ case[c].symbol = case[d].symbol =>
      EndsBy(d, result[c].entry) \/ EndsBy(c, result[d].entry)

\* The results of replay_cases, and those of the gate in front of it.
WellTyped == Typed(Results \cup {BlockedByGate})

IInv == WellTyped /\ TradedFirst /\ TradeTimes /\ ActiveIsLast /\ OneAfterAnother
             /\ BlockerIsUnfinished

LEMMA NextWellTyped == WellTyped /\ [Next]_vars => WellTyped'
BY NextTyped DEF WellTyped

\* The verdict of the gate is neither a trade nor a skipped signal.
LEMMA GateMakesNoTrade ==
  BlockedByGate \notin Outcomes /\ BlockedByGate.status = "BLOCKED"
    /\ BlockedByGate.blocker = NoBlocker
BY DEF BlockedByGate, Outcomes

LEMMA NothingTradedYet ==
  ASSUME WellTyped, active = [s \in Symbols |-> None],
         \A c \in Signals : result[c] \in {NoTrade, BlockedByGate}
  PROVE  IInv
<1>1. \A c \in Signals : ~Traded(c) /\ result[c].status # "SKIPPED_ACTIVE_TRADE"
  BY NoTradeIsNoOutcome, GateMakesNoTrade DEF Traded, NoTrade
<1> QED
  BY <1>1
     DEF IInv, TradedFirst, TradeTimes, ActiveIsLast, OneAfterAnother, BlockerIsUnfinished, Done

LEMMA InitInvariant == Init => IInv
<1> SUFFICES ASSUME Init PROVE IInv
  OBVIOUS
<1>1. WellTyped
  BY InitType DEF WellTyped, Typed, TypeOK
<1> QED BY <1>1, NothingTradedYet DEF Init

LEMMA TimesAreNatural ==
  ASSUME WellTyped
  PROVE  /\ \A c \in Signals : case[c].confirmation \in Nat /\ case[c].symbol \in Symbols
         /\ \A c \in Signals : Traded(c) =>
              /\ result[c].entry \in Nat /\ result[c].exit \in Nat \cup {StillOpen}
BY OutcomeType, SchedulerAssumption DEF WellTyped, Typed, Traded

\* What handling one signal does to the set of signals handled.
LEMMA Handled ==
  ASSUME WellTyped, NEW c \in Signals, NEW r, IsNext(c), Report(c, r), case' = case
  PROVE  /\ Done' = Done \cup {c} /\ c \notin Done
         /\ \A d \in Signals : d # c => result'[d] = result[d]
         /\ result'[c] = r
<1>1. c \in todo /\ todo' = todo \ {c} /\ result' = [result EXCEPT ![c] = r]
  BY DEF IsNext, Report
<1> QED BY <1>1 DEF Done, WellTyped, Typed

LEMMA HandledInOrder ==
  ASSUME WellTyped, NEW c \in Signals, NEW r, IsNext(c), Report(c, r), case' = case, TradedFirst
  PROVE  TradedFirst'
<1>1. c \in todo /\ todo' = todo \ {c} /\ \A d \in todo \ {c} : Before(c, d)
  BY DEF IsNext, Report
<1>2. todo \subseteq Signals
  BY DEF WellTyped, Typed
<1>3. \A d \in todo' : case[c].confirmation <= case[d].confirmation
  BY <1>1, <1>2, TimesAreNatural DEF Before
<1>4. \A d \in Signals : Traded(d)' => d = c \/ Traded(d)
  BY Handled DEF Traded
<1> QED BY <1>1, <1>3, <1>4 DEF TradedFirst

\* A signal that made no trade leaves the trades as they were.
LEMMA NoNewTrade ==
  ASSUME WellTyped, NEW c \in Signals, NEW r, IsNext(c), Report(c, r), case' = case,
         active' = active, r \notin Outcomes, TradeTimes, ActiveIsLast, OneAfterAnother
  PROVE  /\ TradeTimes' /\ ActiveIsLast' /\ OneAfterAnother'
         /\ \A d \in Signals : Traded(d)' <=> Traded(d)
<1>1. \A d \in Signals : Traded(d)' <=> Traded(d)
  BY Handled DEF Traded
<1>2. \A d \in Signals : Traded(d) => result'[d] = result[d] /\ d # c
  BY Handled DEF Traded
<1>3. TradeTimes'
  BY <1>1, <1>2 DEF TradeTimes
<1>4. \A d \in Signals : Traded(d) => \A t : EndsBy(d, t)' <=> EndsBy(d, t)
  BY <1>2 DEF EndsBy
<1>5. ActiveIsLast'
  BY <1>1, <1>2, <1>4 DEF ActiveIsLast, LastTrade, None, EndsBy
<1>6. OneAfterAnother'
  BY <1>1, <1>2 DEF OneAfterAnother, EndsBy
<1> QED BY <1>1, <1>3, <1>5, <1>6

\* The trade that c names as its blocker, as BlockerIsUnfinished wants it.
NamesUnfinished(c) ==
  LET b == result[c].blocker
  IN  Traded(b) /\ case[b].symbol = case[c].symbol
      /\ case[b].confirmation <= case[c].confirmation /\ ~EndsBy(b, case[c].confirmation)

LEMMA BlockersNamed ==
  BlockerIsUnfinished <=>
    \A c \in Done : result[c].status = "SKIPPED_ACTIVE_TRADE" => NamesUnfinished(c)
BY DEF BlockerIsUnfinished, NamesUnfinished

\* A skipped signal stays skipped for the same trade.
LEMMA StillNamed ==
  ASSUME WellTyped, NEW c \in Signals, NEW r, IsNext(c), Report(c, r), case' = case,
         NEW d \in Done, NamesUnfinished(d)
  PROVE  NamesUnfinished(d)'
<1> DEFINE b == result[d].blocker
<1>1. d # c /\ d \in Signals /\ result'[d] = result[d]
  BY Handled DEF Done
<1>2. /\ Traded(b) /\ case[b].symbol = case[d].symbol
      /\ case[b].confirmation <= case[d].confirmation /\ ~EndsBy(b, case[d].confirmation)
  BY DEF NamesUnfinished
<1>3. b \in Done /\ b \in Signals /\ b # c /\ result'[b] = result[b] /\ b \in Done'
  BY <1>2, Handled DEF Traded, Done
<1> QED BY <1>1, <1>2, <1>3 DEF EndsBy, Traded, NamesUnfinished

LEMMA SkipKeeps ==
  ASSUME IInv, NEW c \in Signals, Skip(c)
  PROVE  IInv'
<1> DEFINE a == active[case[c].symbol].signal
           r == SkippedFor(a)
<1>1. WellTyped /\ TradedFirst /\ TradeTimes /\ ActiveIsLast /\ OneAfterAnother /\ BlockerIsUnfinished
  BY DEF IInv
<1>2. IsNext(c) /\ Blocked(c) /\ Report(c, r) /\ case' = case /\ active' = active
  BY DEF Skip
<1>3. WellTyped'
  BY <1>1, NextWellTyped DEF Next
<1>4. active[case[c].symbol] # None /\ case[c].symbol \in Symbols /\ a \in Signals
  BY <1>1, <1>2, BlockedByTrade DEF Blocked, WellTyped
<1>5. Traded(a) /\ case[a].symbol = case[c].symbol /\ result[a].exit = active[case[c].symbol].exit
  BY <1>1, <1>4 DEF ActiveIsLast, LastTrade
<1>6. r \notin Outcomes /\ r.status = "SKIPPED_ACTIVE_TRADE" /\ r.blocker = a
  BY <1>4, NoTradeIsNoOutcome DEF SkippedFor
<1> HIDE DEF r
<1>7. TradedFirst'
  BY <1>1, <1>2, HandledInOrder
<1>8. /\ TradeTimes' /\ ActiveIsLast' /\ OneAfterAnother'
      /\ \A d \in Signals : Traded(d)' <=> Traded(d)
  BY <1>1, <1>2, <1>6, NoNewTrade
<1>9. BlockerIsUnfinished'
  <2>1. case[a].confirmation <= case[c].confirmation
    BY <1>1, <1>2, <1>4, <1>5 DEF TradedFirst, Traded, Done, IsNext
  <2>2. ~EndsBy(a, case[c].confirmation)
    BY <1>1, <1>2, <1>4, <1>5, TimesAreNatural, SentinelsAreNoTimes DEF Blocked, EndsBy, StillOpen
  <2>3. a # c /\ result'[a] = result[a]
    BY <1>1, <1>2, <1>4, <1>5, Handled DEF Traded
  <2>4. Traded(a)' /\ c \in Done'
    BY <1>1, <1>2, <1>4, <1>5, <1>8, Handled
  <2>5. NamesUnfinished(c)'
    <3>1. result'[c] = r
      BY <1>1, <1>2, Handled
    <3> QED BY <1>2, <1>5, <1>6, <2>1, <2>2, <2>3, <2>4, <3>1 DEF EndsBy, NamesUnfinished
  <2>6. ASSUME NEW d \in Done', d # c, result'[d].status = "SKIPPED_ACTIVE_TRADE"
        PROVE  NamesUnfinished(d)'
    <3>1. d \in Done /\ d \in Signals
      BY <1>1, <1>2, <2>6, Handled DEF Done
    <3>2. result'[d] = result[d]
      BY <1>1, <1>2, <2>6, <3>1, Handled
    <3> QED BY <1>1, <1>2, <2>6, <3>1, <3>2, BlockersNamed, StillNamed
  <2> QED BY <2>5, <2>6 DEF BlockerIsUnfinished, NamesUnfinished
<1> QED BY <1>3, <1>7, <1>8, <1>9 DEF IInv

\* A signal that is not skipped has no blocker to name.
LEMMA ExecutedNamesNoBlocker ==
  ASSUME WellTyped, NEW c \in Signals, NEW r, IsNext(c), Report(c, r), case' = case,
         r.status = "EXECUTED", BlockerIsUnfinished
  PROVE  BlockerIsUnfinished'
<1>1. result'[c].status = "EXECUTED"
  BY Handled
<1>2. ASSUME NEW d \in Done', result'[d].status = "SKIPPED_ACTIVE_TRADE"
      PROVE  NamesUnfinished(d)'
  <2>1. d # c /\ d \in Done /\ d \in Signals
    BY <1>1, <1>2, Handled DEF Done
  <2>2. result'[d] = result[d]
    BY <2>1, Handled
  <2> QED BY <1>2, <2>1, <2>2, BlockersNamed, StillNamed
<1> QED BY <1>2 DEF BlockerIsUnfinished, NamesUnfinished

LEMMA NoTradeKeeps ==
  ASSUME IInv, NEW c \in Signals, ReplayWithoutTrade(c)
  PROVE  IInv'
<1>1. WellTyped /\ TradedFirst /\ TradeTimes /\ ActiveIsLast /\ OneAfterAnother /\ BlockerIsUnfinished
  BY DEF IInv
<1>2. IsNext(c) /\ Report(c, NoTrade) /\ case' = case /\ active' = active
  BY DEF ReplayWithoutTrade
<1>3. WellTyped'
  BY <1>1, NextWellTyped DEF Next
<1>4. NoTrade.status = "EXECUTED"
  BY DEF NoTrade
<1>5. TradedFirst'
  BY <1>1, <1>2, HandledInOrder
<1>6. TradeTimes' /\ ActiveIsLast' /\ OneAfterAnother'
  BY <1>1, <1>2, NoTradeIsNoOutcome, NoNewTrade
<1>7. BlockerIsUnfinished'
  BY <1>1, <1>2, <1>4, ExecutedNamesNoBlocker
<1> QED BY <1>3, <1>5, <1>6, <1>7 DEF IInv

\* The new trade begins when every earlier one of its symbol has ended.
LEMMA EarlierTradesEnded ==
  ASSUME IInv, NEW c \in Signals, IsNext(c), ~Blocked(c),
         NEW d \in Signals, Traded(d), case[d].symbol = case[c].symbol
  PROVE  EndsBy(d, case[c].confirmation)
<1> DEFINE s == case[c].symbol
           a == active[s].signal
<1>1. WellTyped /\ TradedFirst /\ ActiveIsLast
  BY DEF IInv
<1>2. s \in Symbols
  BY <1>1, TimesAreNatural
<1>3. active[s] # None /\ a \in Signals /\ LastTrade(s)
  BY <1>1, <1>2 DEF ActiveIsLast
<1>4. EndsBy(a, case[c].confirmation)
  <2>1. active[s].exit # StillOpen /\ ~(case[c].confirmation < active[s].exit)
    BY <1>3 DEF Blocked
  <2>2. Traded(a) /\ result[a].exit = active[s].exit
    BY <1>3 DEF LastTrade
  <2> QED BY <1>1, <1>3, <2>1, <2>2, TimesAreNatural DEF EndsBy
<1>5. CASE d # a
  <2>1. EndsBy(d, case[a].confirmation)
    BY <1>3, <1>5 DEF LastTrade
  <2>2. case[a].confirmation <= case[c].confirmation
    BY <1>1, <1>3 DEF LastTrade, TradedFirst, Traded, IsNext
  <2> QED BY <1>1, <1>3, <2>1, <2>2, TimesAreNatural DEF EndsBy
<1> QED BY <1>4, <1>5

LEMMA TradeKeeps ==
  ASSUME IInv, NEW c \in Signals, NEW o \in Outcomes, ReplayTrade(c, o)
  PROVE  IInv'
<1> DEFINE s == case[c].symbol
<1>1. WellTyped /\ TradedFirst /\ TradeTimes /\ ActiveIsLast /\ OneAfterAnother /\ BlockerIsUnfinished
  BY DEF IInv
<1>2. /\ IsNext(c) /\ ~Blocked(c) /\ Report(c, o) /\ case' = case
      /\ active' = [active EXCEPT ![s] = [signal |-> c, exit |-> o.exit]]
      /\ case[c].confirmation <= o.entry /\ (o.exit = StillOpen \/ o.entry <= o.exit)
  BY DEF ReplayTrade
<1>3. WellTyped'
  BY <1>1, NextWellTyped DEF Next
<1>4. TradedFirst'
  BY <1>1, <1>2, HandledInOrder
<1>5. BlockerIsUnfinished'
  BY <1>1, <1>2, OutcomeType, ExecutedNamesNoBlocker
<1>6. /\ \A d \in Signals : Traded(d)' <=> (Traded(d) \/ d = c)
      /\ ~Traded(c) /\ result'[c] = o
      /\ \A d \in Signals : Traded(d) => result'[d] = result[d]
  BY <1>1, <1>2, Handled DEF Traded
<1>7. TradeTimes'
  BY <1>1, <1>2, <1>6 DEF TradeTimes
<1>8. \A d \in Signals : Traded(d) => \A t : EndsBy(d, t)' <=> EndsBy(d, t')
  BY <1>6 DEF EndsBy
<1>9. \A d \in Signals : Traded(d) /\ case[d].symbol = s => EndsBy(d, case[c].confirmation)
  BY <1>2, EarlierTradesEnded
<1>10. ActiveIsLast'
  <2> SUFFICES ASSUME NEW q \in Symbols
      PROVE  (IF active[q] = None THEN \A d \in Signals : Traded(d) => case[d].symbol # q
              ELSE active[q].signal \in Signals /\ LastTrade(q))'
    BY DEF ActiveIsLast
  <2>1. CASE q = s
    <3>1. active'[q] = [signal |-> c, exit |-> o.exit] /\ active'[q] # None
      BY <1>1, <1>2, <2>1, SentinelsAreNoTimes DEF WellTyped, Typed, None
    <3>2. LastTrade(q)'
      BY <1>2, <1>6, <1>9, <2>1, <3>1 DEF LastTrade, EndsBy
    <3>3. (active[q].signal \in Signals)' /\ (active[q] # None)'
      BY <3>1 DEF None
    <3> QED BY <3>2, <3>3
  <2>2. CASE q # s
    <3>1. active'[q] = active[q]
      BY <1>1, <1>2, <2>2 DEF WellTyped, Typed
    <3> QED BY <1>1, <1>2, <1>6, <2>2, <3>1 DEF ActiveIsLast, LastTrade, EndsBy, None
  <2> QED BY <2>1, <2>2
<1>11. OneAfterAnother'
  <2>1. \A d \in Signals : Traded(d) /\ case[d].symbol = s => EndsBy(d, o.entry)
    <3>1. o.entry \in Nat /\ case[c].confirmation \in Nat /\ case[c].confirmation <= o.entry
      BY <1>1, <1>2, OutcomeType, SchedulerAssumption, TimesAreNatural
    <3>2. ASSUME NEW d \in Signals, Traded(d), EndsBy(d, case[c].confirmation)
          PROVE  EndsBy(d, o.entry)
      <4>1. result[d].exit \in Nat /\ result[d].exit <= case[c].confirmation
        BY <1>1, <3>2, TimesAreNatural DEF EndsBy
      <4> QED BY <3>1, <3>2, <4>1 DEF EndsBy
    <3> QED BY <1>9, <3>2
  <2> QED BY <1>1, <1>2, <1>6, <2>1 DEF OneAfterAnother, EndsBy
<1> QED BY <1>3, <1>4, <1>5, <1>7, <1>10, <1>11 DEF IInv

LEMMA RaiseKeeps ==
  ASSUME IInv, UNCHANGED <<case, todo, active, result>>, WellTyped'
  PROVE  IInv'
BY DEF IInv, TradedFirst, Done, TradeTimes, Traded, ActiveIsLast, LastTrade, None, EndsBy,
       OneAfterAnother, BlockerIsUnfinished

LEMMA NextInvariant == IInv /\ [Next]_vars => IInv'
<1> SUFFICES ASSUME IInv, [Next]_vars PROVE IInv'
  OBVIOUS
<1>1. WellTyped'
  BY NextWellTyped DEF IInv
<1>2. CASE UNCHANGED vars
  BY <1>1, <1>2, RaiseKeeps DEF vars
<1>3. ASSUME NEW c \in Signals, Skip(c) PROVE IInv'
  BY <1>3, SkipKeeps
<1>4. ASSUME NEW c \in Signals, ReplayWithoutTrade(c) PROVE IInv'
  BY <1>4, NoTradeKeeps
<1>5. ASSUME NEW c \in Signals, ReplayRaises(c) PROVE IInv'
  BY <1>1, <1>5, RaiseKeeps DEF ReplayRaises
<1>6. ASSUME NEW c \in Signals, NEW o \in Outcomes, ReplayTrade(c, o) PROVE IInv'
  BY <1>6, TradeKeeps
<1> QED BY <1>2, <1>3, <1>4, <1>5, <1>6 DEF Next

LEMMA NeverTwoOpen == IInv => OneActiveTrade
<1> SUFFICES ASSUME IInv, NEW c \in Signals, NEW d \in Signals, NEW t \in Times,
                    c # d, case[c].symbol = case[d].symbol, OpenAt(c, t), OpenAt(d, t)
             PROVE  FALSE
  BY DEF OneActiveTrade
<1>1. WellTyped /\ Traded(c) /\ Traded(d)
  BY DEF IInv, OpenAt
<1>2. EndsBy(d, result[c].entry) \/ EndsBy(c, result[d].entry)
  BY <1>1 DEF IInv, OneAfterAnother
<1>3. t \in Nat
  BY SchedulerAssumption
<1> QED BY <1>1, <1>2, <1>3, TimesAreNatural, SentinelsAreNoTimes DEF OpenAt, EndsBy

\* However many signals compete, a symbol never has two trades open at once
\* (the active dictionary of replay_cases in runner.py is enough to see to it).
THEOREM NeverTwoTrades == Spec => []OneActiveTrade
BY InitInvariant, NextInvariant, NeverTwoOpen, PTL DEF Spec

\* The blocker a skipped signal reports is a trade of its symbol, confirmed no
\* later and not ended at its confirmation (runner.py, SKIPPED_ACTIVE_TRADE).
THEOREM SkippedForUnfinished == Spec => []BlockerIsUnfinished
<1>1. IInv => BlockerIsUnfinished
  BY DEF IInv
<1> QED BY <1>1, InitInvariant, NextInvariant, PTL DEF Spec

----------------------------------------------------------------------------
(* Behind the gate of one day *)

LEMMA HistoricalInitInvariant == HistoricalInit => IInv
<1> SUFFICES ASSUME HistoricalInit PROVE IInv
  OBVIOUS
<1>1. \A c \in Signals : result[c] \in {NoTrade, BlockedByGate}
  BY DEF HistoricalInit
<1>2. Admitted \subseteq Signals
  BY DEF Admitted
<1>3. \A c \in Signals : result[c] \in Results \cup {BlockedByGate}
  BY <1>1 DEF Results
<1>4. WellTyped
  BY <1>2, <1>3 DEF HistoricalInit, WellTyped, Typed
<1> QED BY <1>1, <1>4, NothingTradedYet DEF HistoricalInit

LEMMA HistoricalStep == IInv /\ [HistoricalNext]_<<vars, context>> => IInv'
BY NextInvariant DEF HistoricalNext, vars

\* A day's gate in front of the scheduler changes nothing of that: of the signals
\* it lets through no two of a symbol are traded at once (replay_historical_cases).
THEOREM NeverTwoTradesOfADay == HistoricalSpec => []OneActiveTrade
BY HistoricalInitInvariant, HistoricalStep, NeverTwoOpen, PTL DEF HistoricalSpec

----------------------------------------------------------------------------
(* The morning's report and the day *)

\* The gate lets a signal through or marks it, and an unhandled one has no result.
GateApplied ==
  /\ universe \in Universes /\ registry \in Registries /\ tick \in Ticks
  /\ ~raised => \A c \in Signals : ~GateRaises(registry, case[c].symbol, case[c].confirmation)
  /\ todo \subseteq Admitted
  /\ \A c \in Signals : result[c].status = "BLOCKED" <=> c \notin Admitted
  /\ \A c \in todo : result[c] = NoTrade

LEMMA StatusOfResults ==
  /\ NoTrade.status # "BLOCKED" /\ \A o \in Outcomes : o.status # "BLOCKED"
  /\ \A b \in Signals : SkippedFor(b).status # "BLOCKED"
BY OutcomeType DEF NoTrade, SkippedFor

LEMMA HistoricalInitApplied == HistoricalInit => GateApplied
<1> SUFFICES ASSUME HistoricalInit PROVE GateApplied
  OBVIOUS
<1>1. Admitted \subseteq Signals
  BY DEF Admitted
<1>2. \A c \in Signals : result[c].status = "BLOCKED" <=> c \notin Admitted
  BY StatusOfResults, GateMakesNoTrade DEF HistoricalInit
<1> QED BY <1>1, <1>2 DEF HistoricalInit, GateApplied

\* Handling a signal reports neither BLOCKED nor anything of another signal.
LEMMA StepApplied ==
  ASSUME WellTyped, GateApplied, NEW c \in Signals, NEW r, IsNext(c), Report(c, r),
         r.status # "BLOCKED", case' = case, raised' = raised, UNCHANGED context
  PROVE  GateApplied'
<1>1. c \in todo /\ todo' = todo \ {c} /\ result' = [result EXCEPT ![c] = r]
  BY DEF IsNext, Report
<1>2. Admitted' = Admitted
  BY DEF Admitted, Reasons, context
<1>3. c \in Admitted
  BY <1>1 DEF GateApplied
<1>4. \A d \in Signals : result'[d] = IF d = c THEN r ELSE result[d]
  BY <1>1 DEF WellTyped, Typed
<1>5. todo \subseteq Signals
  BY DEF WellTyped, Typed
<1>6. \A d \in Signals : result'[d].status = "BLOCKED" <=> d \notin Admitted'
  BY <1>2, <1>3, <1>4 DEF GateApplied
<1>7. \A d \in todo' : result'[d] = NoTrade
  BY <1>1, <1>4, <1>5 DEF GateApplied
<1>8. todo' \subseteq Admitted'
  BY <1>1, <1>2 DEF GateApplied
<1> QED BY <1>6, <1>7, <1>8 DEF GateApplied, context

LEMMA NextApplied ==
  ASSUME WellTyped, GateApplied, [HistoricalNext]_<<vars, context>>
  PROVE  GateApplied'
<1>1. CASE UNCHANGED <<vars, context>>
  BY <1>1 DEF vars, context, GateApplied, Admitted, Reasons
<1>2. ASSUME NEW c \in Signals, Skip(c), UNCHANGED context PROVE GateApplied'
  <2>1. active[case[c].symbol].signal \in Signals
    BY <1>2, BlockedByTrade DEF Skip, WellTyped
  <2> QED BY <1>2, <2>1, StatusOfResults, StepApplied DEF Skip
<1>3. ASSUME NEW c \in Signals, ReplayWithoutTrade(c), UNCHANGED context PROVE GateApplied'
  BY <1>3, StatusOfResults, StepApplied DEF ReplayWithoutTrade
<1>4. ASSUME NEW c \in Signals, NEW o \in Outcomes, ReplayTrade(c, o), UNCHANGED context
      PROVE  GateApplied'
  BY <1>4, StatusOfResults, StepApplied DEF ReplayTrade
<1>5. ASSUME NEW c \in Signals, ReplayRaises(c), UNCHANGED context PROVE GateApplied'
  BY <1>5 DEF ReplayRaises, context, GateApplied, Admitted, Reasons
<1> QED BY <1>1, <1>2, <1>3, <1>4, <1>5 DEF HistoricalNext, Next

\* Where several rules in force would raise, ActiveRule is the one there is.
LEMMA TheActiveRule ==
  ASSUME NEW rules, IsFiniteSet(rules), NoRule \notin rules, NEW s, NEW at,
         ~GateRaises(rules, s, at)
  PROVE  /\ ActiveRule(rules, s, at) # NoRule => ActiveRule(rules, s, at) \in ActiveRules(rules, s, at)
         /\ \A r \in ActiveRules(rules, s, at) : r = ActiveRule(rules, s, at) /\ r # NoRule
<1> DEFINE live == ActiveRules(rules, s, at)
<1>1. live \subseteq rules /\ IsFiniteSet(live)
  BY FS_Subset DEF ActiveRules
<1>2. Cardinality(live) \in Nat /\ ~(Cardinality(live) > 1)
  BY <1>1, FS_CardinalityType DEF GateRaises
<1>3. ASSUME NEW r \in live, NEW q \in live PROVE r = q
  <2>1. Cardinality(live) = 1
    BY <1>1, <1>2, <1>3, FS_EmptySet
  <2>2. PICK x : live = {x}
    BY <1>1, <2>1, FS_Singleton
  <2> QED BY <1>3, <2>2
<1>4. live # {} => ActiveRule(rules, s, at) \in live
  BY DEF ActiveRule
<1>5. live = {} => ActiveRule(rules, s, at) = NoRule
  BY DEF ActiveRule
<1>6. \A r \in live : r # NoRule
  BY <1>1
<1> HIDE DEF live
<1>7. \A r \in live : r = ActiveRule(rules, s, at)
  BY <1>3, <1>4
<1> QED BY <1>4, <1>5, <1>6, <1>7 DEF live

\* The rules a steady symbol has in the morning are those at its confirmation.
LEMMA SteadyRules ==
  ASSUME WellTyped, GateApplied, NEW c \in Signals, Steady(c), OfTheDay(c)
  PROVE  ActiveRules(registry, case[c].symbol, universe.from)
           = ActiveRules(registry, case[c].symbol, case[c].confirmation)
<1> DEFINE from == universe.from
           at == case[c].confirmation
<1>1. from \in Nat /\ at \in Nat /\ from <= at
  BY HistoricalAssumption, TimesAreNatural DEF GateApplied, OfTheDay
<1>2. ASSUME NEW r \in registry, r.symbol = case[c].symbol
      PROVE  (r.from <= from /\ ~Ends(r, from)) <=> (r.from <= at /\ ~Ends(r, at))
  <2>1. r.from \in Nat /\ (r.to # NoEnd => r.to \in Nat)
    BY HistoricalAssumption DEF GateApplied
  <2>2. \A t \in from + 1 .. at : r.from # t /\ r.to # t
    BY <1>2 DEF Steady
  <2>3. r.from <= from <=> r.from <= at
    BY <1>1, <2>1, <2>2
  <2>4. Ends(r, from) <=> Ends(r, at)
    BY <1>1, <2>1, <2>2 DEF Ends
  <2> QED BY <2>3, <2>4
<1> QED BY <1>2 DEF ActiveRules

LEMMA RuleIsAccepted ==
  ASSUME NEW rule, NEW size, NEW approximate \in BOOLEAN
  PROVE  RuleReasons(rule, size, approximate) = {} <=>
           /\ rule # NoRule /\ UsableRule(rule, approximate)
           /\ size = NoTick \/ size = rule.tick
BY DEF RuleReasons

LEMMA DayIsForecast ==
  ASSUME WellTyped, GateApplied, ~raised, NEW c \in Signals, Steady(c), OfTheDay(c)
  PROVE  /\ c \in Admitted <=>
              /\ case[c].symbol \in EligibleIn(GateReport(universe, registry, FALSE))
              /\ \E r \in registry : r.symbol = case[c].symbol /\ r.tick = tick[c]
                                      /\ r.from <= case[c].confirmation
                                      /\ ~Ends(r, case[c].confirmation)
         /\ case[c].symbol \in WarnedIn(GateReport(universe, registry, TRUE)) => c \notin Admitted
<1> DEFINE s == case[c].symbol
           at == case[c].confirmation
           from == universe.from
           rule == ActiveRule(registry, s, at)
<1>1. from \in Nat /\ at \in Nat /\ from <= at /\ at < universe.to /\ universe.to \in Nat
      /\ s \in universe.members
  BY HistoricalAssumption, TimesAreNatural DEF GateApplied, OfTheDay
<1>2. ActiveRule(registry, s, from) = rule
  <2>1. ActiveRules(registry, s, from) = ActiveRules(registry, s, at)
    BY SteadyRules
  <2> DEFINE Chosen(rules) == IF rules = {} THEN NoRule ELSE CHOOSE r \in rules : TRUE
  <2>2. /\ ActiveRule(registry, s, from) = Chosen(ActiveRules(registry, s, from))
        /\ rule = Chosen(ActiveRules(registry, s, at))
    BY DEF ActiveRule
  <2> HIDE DEF Chosen, rule
  <2> QED BY <2>1, <2>2
<1>3. /\ rule # NoRule => rule \in ActiveRules(registry, s, at)
      /\ \A r \in ActiveRules(registry, s, at) : r = rule /\ r # NoRule
  BY TheActiveRule, HistoricalAssumption DEF GateApplied
<1>4. tick[c] # NoTick
  BY HistoricalAssumption DEF GateApplied
<1>5. c \in Admitted <=> RuleReasons(rule, tick[c], FALSE) = {}
  BY <1>1 DEF Admitted, Reasons, GateReasons
<1>6. \A b \in BOOLEAN : MemberReasons(universe, registry, s, b) = {}
                          <=> RuleReasons(rule, NoTick, b) = {}
  BY <1>1, <1>2 DEF MemberReasons, GateReasons
<1>7. s \in EligibleIn(GateReport(universe, registry, FALSE))
        <=> MemberReasons(universe, registry, s, FALSE) = {}
  BY <1>1 DEF EligibleIn, GateReport, GateEntry
<1>8. s \in WarnedIn(GateReport(universe, registry, TRUE))
        => MemberReasons(universe, registry, s, TRUE) = {} /\ ~LockedGrade(rule)
  BY <1>1, <1>2 DEF WarnedIn, GateReport, GateEntry
<1>9. (\E r \in registry : r.symbol = s /\ r.tick = tick[c] /\ r.from <= at /\ ~Ends(r, at))
        <=> rule # NoRule /\ rule.tick = tick[c]
  BY <1>3 DEF ActiveRules
<1> HIDE DEF rule
<1>10. c \in Admitted <=> rule # NoRule /\ UsableRule(rule, FALSE) /\ tick[c] = rule.tick
  <2>1. RuleReasons(rule, tick[c], FALSE) = {} <=>
          rule # NoRule /\ UsableRule(rule, FALSE) /\ (tick[c] = NoTick \/ tick[c] = rule.tick)
    BY RuleIsAccepted, Zenon
  <2> QED BY <1>4, <1>5, <2>1
<1>11. s \in EligibleIn(GateReport(universe, registry, FALSE))
         <=> rule # NoRule /\ UsableRule(rule, FALSE)
  BY <1>6, <1>7, RuleIsAccepted
<1>12. s \in WarnedIn(GateReport(universe, registry, TRUE)) => ~UsableRule(rule, FALSE)
  BY <1>8 DEF UsableRule
<1> QED BY <1>9, <1>10, <1>11, <1>12

LEMMA ReportForecasts == IInv /\ GateApplied => GateForecasts
<1> SUFFICES ASSUME IInv, GateApplied, ~raised, NEW c \in Signals
             PROVE  /\ OfTheDay(c) /\ Steady(c) =>
                         /\ result[c].status # "BLOCKED" <=>
                              case[c].symbol \in EligibleIn(GateReport(universe, registry, FALSE))
                                /\ \E r \in registry : r.symbol = case[c].symbol /\ r.tick = tick[c]
                                           /\ r.from <= case[c].confirmation
                                           /\ ~Ends(r, case[c].confirmation)
                         /\ case[c].symbol \in WarnedIn(GateReport(universe, registry, TRUE))
                              => ~Traded(c)
                    /\ ~OfTheDay(c) => result[c].status = "BLOCKED"
                    /\ result[c].status = "BLOCKED" =>
                         c \notin todo /\ \A d \in Signals : result[d].blocker # c
  BY DEF GateForecasts
<1>1. WellTyped /\ BlockerIsUnfinished
  BY DEF IInv
<1>2. result[c].status = "BLOCKED" <=> c \notin Admitted
  BY DEF GateApplied
<1>3. Traded(c) => result[c].status # "BLOCKED"
  BY StatusOfResults DEF Traded
<1>4. ~OfTheDay(c) => c \notin Admitted
  BY DEF OfTheDay, Admitted, Reasons, GateReasons
<1>5. ASSUME NEW d \in Signals, result[d].blocker = c PROVE Traded(c)
  <2>1. result[d] \in Results \cup {BlockedByGate}
    BY <1>1 DEF WellTyped, Typed
  <2>2. result[d] \notin Outcomes /\ result[d] # NoTrade /\ result[d] # BlockedByGate
    BY <1>5, OutcomeType, SentinelsAreNoTimes, GateMakesNoTrade DEF NoTrade
  <2>3. PICK b \in Signals : result[d] = SkippedFor(b)
    BY <2>1, <2>2 DEF Results
  <2>4. result[d].status = "SKIPPED_ACTIVE_TRADE" /\ d \in Done
    BY <2>2, <2>3 DEF SkippedFor, GateApplied, Done
  <2> QED BY <1>1, <1>5, <2>4, BlockersNamed DEF NamesUnfinished
<1>6. c \in todo => c \in Admitted
  BY DEF GateApplied
<1> QED BY <1>1, <1>2, <1>3, <1>4, <1>5, <1>6, DayIsForecast

\* The gate report of the morning forecasts, for every registry without overlapping
\* rules and every day, which signals replay_historical_cases replays and which it
\* blocks; none is lost and a blocked one takes no place of another.
THEOREM MorningForecastsTheDay == HistoricalSpec => []GateForecasts
<1>1. HistoricalInit => IInv /\ GateApplied
  BY HistoricalInitInvariant, HistoricalInitApplied
<1>2. IInv /\ GateApplied /\ [HistoricalNext]_<<vars, context>> => (IInv /\ GateApplied)'
  BY HistoricalStep, NextApplied DEF IInv
<1> QED BY <1>1, <1>2, ReportForecasts, PTL DEF HistoricalSpec
=============================================================================
