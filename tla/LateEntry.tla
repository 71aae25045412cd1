----------------------------- MODULE LateEntry -----------------------------
(***************************************************************************)
(* apply_late_entry_event of backtest/replay.py: entries that are reported *)
(* after a signal ended without a trade are appended to its result as      *)
(* LATE_EVENT_IGNORED, in whatever order the reports arrive.               *)
(***************************************************************************)
EXTENDS EventReplay, EventLog

CONSTANTS LateTimes,     \* exchange times of the reported entries
          MaxLate        \* bound on the number of late events in a log

ASSUME LateAssumption == LateTimes \subseteq Nat /\ MaxLate \in Nat

LateEvent(time, source) ==
  Event("LATE_EVENT_IGNORED", time, source, time, "LATE_ENTRY_AFTER_TERMINAL", EntryPrice, 0)

AlreadyLogged(e) == \E i \in Log : EventId(events[i]) = EventId(e)

\* The result is returned unchanged for an event it already has.
ApplyLateEntry(time, source) ==
  /\ stage = "RETURNED" /\ signal \in PreTradeTerminal
  /\ time >= events[1].time
  /\ ~AlreadyLogged(LateEvent(time, source))
  /\ Len(events) <= MaxLate
  /\ events' = Append(events, LateEvent(time, source))
  /\ UNCHANGED <<now, dataEnd, candle, stage, signal, entry, position, openFraction, breakeven,
                 activation, breakevenActive, exitReason, fallback, aggregateUsed>>

LateNext == Next \/ \E time \in LateTimes, source \in Sources : ApplyLateEntry(time, source)

\* Late entries never revive a signal: as long as they arrive in exchange-time
\* order, the log still reduces to the terminal state it had, and no entry of it
\* is a repeated report.
LateKeepsTerminal ==
  stage = "RETURNED" /\ LogOrdered /\ Len(events) > 0 /\ signal \in PreTradeTerminal =>
    LET s == Reduce(Fresh, events)
    IN  /\ ~s.raised /\ s.lifecycle = signal /\ s.terminalReason = events[1].reason
        /\ Cardinality(s.applied) = Len(events)

\* "Events in ascending exchange_time" (docs/p7-event-replay-contract.md:24), which
\* reduce_event_log enforces: the log of every result is ordered.
LateLogOrdered == LogOrdered
=============================================================================
