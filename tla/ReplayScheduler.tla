--------------------------- MODULE ReplayScheduler ---------------------------
(***************************************************************************)
(* replay_cases of backtest/runner.py: many signals, each replayed on its  *)
(* own, one step per signal in (confirmation, symbol, signal id) order. A  *)
(* signal confirmed while the last trade of its symbol has not ended is    *)
(* skipped. Signals and symbols are numbers in the order of their names.   *)
(* What a replay returns is any outcome EventReplay allows: no trade, or a *)
(* trade entered no earlier than the confirmation that may never be exited.*)
(***************************************************************************)
EXTENDS Integers, FiniteSets

CONSTANTS Signals, Symbols, Times

ASSUME SchedulerAssumption ==
  /\ Signals \subseteq Nat /\ Symbols \subseteq Nat /\ Times \subseteq Nat

StillOpen == -1           \* exit_time None: the data ended first
NotEntered == -2          \* no ENTRY_FILL
NoBlocker == -1

Outcomes == [status : {"EXECUTED"}, entry : Times, exit : Times \cup {StillOpen},
             blocker : {NoBlocker}]
NoTrade == [status |-> "EXECUTED", entry |-> NotEntered, exit |-> NotEntered,
            blocker |-> NoBlocker]
SkippedFor(b) == [status |-> "SKIPPED_ACTIVE_TRADE", entry |-> NotEntered,
                  exit |-> NotEntered, blocker |-> b]

VARIABLES
  case,      \* symbol and confirmation_close of every signal
  todo,      \* signals not handled yet
  active,    \* signal and exit of the last trade of each symbol
  result,    \* of every signal handled so far
  raised     \* a replay raised: replay_cases returns nothing

vars == <<case, todo, active, result, raised>>

None == [signal |-> NoBlocker, exit |-> NotEntered]

Before(a, b) ==
  \/ case[a].confirmation < case[b].confirmation
  \/ case[a].confirmation = case[b].confirmation /\ case[a].symbol < case[b].symbol
  \/ case[a].confirmation = case[b].confirmation /\ case[a].symbol = case[b].symbol /\ a < b

IsNext(c) == ~raised /\ c \in todo /\ \A d \in todo \ {c} : Before(c, d)

\* Faulty: a trade that never ended does not block.
BlockedFaulty(c) ==
  LET last == active[case[c].symbol] IN last # None /\ case[c].confirmation < last.exit

Blocked(c) ==
  LET last == active[case[c].symbol]
  IN  last # None /\ (last.exit = StillOpen \/ case[c].confirmation < last.exit)

Report(c, r) == result' = [result EXCEPT ![c] = r] /\ todo' = todo \ {c}

Skip(c) ==
  /\ IsNext(c) /\ Blocked(c)
  /\ Report(c, SkippedFor(active[case[c].symbol].signal))
  /\ UNCHANGED <<case, active, raised>>

ReplayWithoutTrade(c) ==
  /\ IsNext(c) /\ ~Blocked(c)
  /\ Report(c, NoTrade)
  /\ UNCHANGED <<case, active, raised>>

ReplayTrade(c, o) ==
  /\ IsNext(c) /\ ~Blocked(c)
  /\ case[c].confirmation <= o.entry /\ (o.exit = StillOpen \/ o.entry <= o.exit)
  /\ Report(c, o)
  /\ active' = [active EXCEPT ![case[c].symbol] = [signal |-> c, exit |-> o.exit]]
  /\ UNCHANGED <<case, raised>>

ReplayRaises(c) ==
  /\ IsNext(c) /\ ~Blocked(c)
  /\ raised' = TRUE
  /\ UNCHANGED <<case, todo, active, result>>

Init ==
  /\ case \in [Signals -> [symbol : Symbols, confirmation : Times]]
  /\ todo = Signals
  /\ active = [s \in Symbols |-> None]
  /\ result = [c \in Signals |-> NoTrade]
  /\ raised = FALSE

Next ==
  \E c \in Signals :
     \/ Skip(c) \/ ReplayWithoutTrade(c) \/ ReplayRaises(c)
     \/ \E o \in Outcomes : ReplayTrade(c, o)

Spec == Init /\ [][Next]_vars

----------------------------------------------------------------------------
Results == Outcomes \cup {NoTrade} \cup {SkippedFor(b) : b \in Signals}

\* Every variable stays in the range the code's fields have.
TypeOK ==
  /\ case \in [Signals -> [symbol : Symbols, confirmation : Times]]
  /\ todo \subseteq Signals
  /\ active \in [Symbols -> {None} \cup
                   [signal : Signals, exit : Times \cup {StillOpen}]]
  /\ result \in [Signals -> Results]
  /\ raised \in BOOLEAN

Done == Signals \ todo
Traded(c) == c \in Done /\ result[c] \in Outcomes
EndsBy(c, t) == result[c].exit # StillOpen /\ result[c].exit <= t
OpenAt(c, t) == Traded(c) /\ result[c].entry <= t /\ ~EndsBy(c, t)

\* A symbol never has two trades open at the same moment ("no more than one
\* active trade per symbol", runner.py), an unfinished one counting forever.
OneActiveTrade ==
  \A c, d \in Signals : \A t \in Times :
     c # d /\ case[c].symbol = case[d].symbol => ~(OpenAt(c, t) /\ OpenAt(d, t))

\* A skipped signal names the trade of its symbol that was to end after it.
BlockerIsUnfinished ==
  \A c \in Done : result[c].status = "SKIPPED_ACTIVE_TRADE" =>
    LET b == result[c].blocker
    IN  Traded(b) /\ case[b].symbol = case[c].symbol
        /\ case[b].confirmation <= case[c].confirmation /\ ~EndsBy(b, case[c].confirmation)

\* "The symbol already has an active Paper Trade" (docs/decision-tables-v0.1.md:165):
\* a signal is skipped only for a trade that had been entered at its confirmation.
SkippedOnlyWhileActive ==
  \A c \in Done : result[c].status = "SKIPPED_ACTIVE_TRADE" =>
    OpenAt(result[c].blocker, case[c].confirmation)
=============================================================================
