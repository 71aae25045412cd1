------------------------------ MODULE EventLog ------------------------------
(***************************************************************************)
(* reduce_event_log of backtest/event_log.py: the signal and position      *)
(* state rebuilt from the append-only log, resumable from a checkpoint.    *)
(* "raised" stands for the ReplayInputError that leaves no result; the     *)
(* count of ignored duplicates, which nothing reads, is left out, and the  *)
(* applied ids are kept as a set.                                          *)
(***************************************************************************)
EXTENDS ReplayEvents, SequencesExt

Fresh == [lifecycle |-> "ARMED", position |-> "NONE", openFraction |-> 0,
          breakevenActive |-> FALSE, terminalReason |-> "NONE", closedSeen |-> FALSE,
          applied |-> {}, lastTime |-> NoTime, raised |-> FALSE]

PreTradeTerminal == {"INVALIDATED", "MISSED", "EXPIRED"}

Seen(s, e) == EventId(e) \in s.applied
OutOfOrder(s, e) == s.lastTime # NoTime /\ e.time < s.lastTime

Legal(s, e) ==
  \/ e.type = "ENTRY_FILL" /\ s.lifecycle = "ARMED" /\ e.fraction = Full
  \/ e.type \in PreTradeTerminal /\ s.lifecycle = "ARMED"
  \/ e.type = "TP1_FILL" /\ s.lifecycle = "TRIGGERED" /\ s.position = "FULL" /\ e.fraction = Half
  \/ e.type = "BREAKEVEN_ACTIVATED" /\ s.lifecycle = "TRIGGERED" /\ s.position = "HALF"
  \/ IsTerminal(e) /\ s.lifecycle = "TRIGGERED" /\ s.position # "NONE"
                   /\ e.fraction = s.openFraction
  \/ e.type = "CLOSED" /\ s.lifecycle = "CLOSED" /\ ~s.closedSeen
  \/ e.type = "LATE_EVENT_IGNORED" /\ s.lifecycle \in PreTradeTerminal
  \/ e.type \in {"FUNDING", "FUNDING_DATA_MISSING"}

Effect(s, e) ==
  CASE e.type = "ENTRY_FILL" ->
         [s EXCEPT !.lifecycle = "TRIGGERED", !.position = "FULL", !.openFraction = Full]
    [] e.type \in PreTradeTerminal ->
         [s EXCEPT !.lifecycle = e.type, !.terminalReason = e.reason]
    [] e.type = "TP1_FILL" -> [s EXCEPT !.position = "HALF", !.openFraction = Half]
    [] e.type = "BREAKEVEN_ACTIVATED" -> [s EXCEPT !.breakevenActive = TRUE]
    [] IsTerminal(e) ->
         [s EXCEPT !.lifecycle = "CLOSED", !.position = "FLAT", !.openFraction = 0,
                   !.terminalReason = e.reason]
    [] e.type = "CLOSED" -> [s EXCEPT !.closedSeen = TRUE]
    [] OTHER -> s

\* Faulty: a duplicate is not recognised.
ApplyFaulty(s, e) ==
  IF s.raised THEN s
  ELSE IF OutOfOrder(s, e) \/ ~Legal(s, e) THEN [s EXCEPT !.raised = TRUE]
  ELSE [Effect(s, e) EXCEPT !.applied = @ \cup {EventId(e)}, !.lastTime = e.time]

Apply(s, e) ==
  IF s.raised \/ Seen(s, e) THEN s
  ELSE IF OutOfOrder(s, e) \/ ~Legal(s, e) THEN [s EXCEPT !.raised = TRUE]
  ELSE [Effect(s, e) EXCEPT !.applied = @ \cup {EventId(e)}, !.lastTime = e.time]

Reduce(checkpoint, batch) == FoldLeft(Apply, checkpoint, batch)
=============================================================================
