-------------------------- MODULE SignalLifecycle --------------------------
(***************************************************************************)
(* What the replay promises about one signal, whatever the market data     *)
(* does: the ARMED and TRIGGERED life cycle tables (sections 11 and 12 of  *)
(* docs/decision-tables-v0.1.md) with the position in halves.              *)
(***************************************************************************)
EXTENDS Integers

VARIABLES
  state,       \* signal state, "CLOSED" once the position is flat
  size,        \* halves of the position that are open
  protected,   \* the breakeven stop is in force
  closedBy     \* how the trade ended, "NONE" before

vars == <<state, size, protected, closedBy>>

Init == state = "ARMED" /\ size = 0 /\ protected = FALSE /\ closedBy = "NONE"

EndWithoutTrade ==
  /\ state = "ARMED"
  /\ state' \in {"INVALIDATED", "MISSED", "EXPIRED"}
  /\ UNCHANGED <<size, protected, closedBy>>

Enter ==
  /\ state = "ARMED"
  /\ state' = "TRIGGERED" /\ size' = 2
  /\ UNCHANGED <<protected, closedBy>>

TakeHalf ==
  /\ state = "TRIGGERED" /\ size = 2
  /\ size' = 1
  /\ UNCHANGED <<state, protected, closedBy>>

Protect ==
  /\ state = "TRIGGERED" /\ size = 1 /\ ~protected
  /\ protected' = TRUE
  /\ UNCHANGED <<state, size, closedBy>>

CloseAs(reason) ==
  /\ state = "TRIGGERED"
  /\ state' = "CLOSED" /\ size' = 0 /\ closedBy' = reason
  /\ UNCHANGED protected

\* A full position ends at the stop, at both targets within one minute, or at
\* the holding limit; the stop may follow TP1 within the minute.
CloseFull == size = 2 /\ \E r \in {"SL", "TP2", "TIME_EXIT"} : CloseAs(r)

\* A half position survives its minute only under the breakeven stop.
CloseHalf ==
  /\ size = 1 /\ protected
  /\ \E r \in {"BREAKEVEN_AFTER_TP1", "TP2", "TIME_EXIT"} : CloseAs(r)

Next == EndWithoutTrade \/ Enter \/ TakeHalf \/ Protect \/ CloseFull \/ CloseHalf

Spec == Init /\ [][Next]_vars
=============================================================================
