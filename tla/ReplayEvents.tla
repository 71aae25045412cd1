---------------------------- MODULE ReplayEvents ----------------------------
(* The events of the replay log, shared by the replay and by its reducer.      *)
(* Quantity fractions are counted in halves of the position.                   *)
EXTENDS Integers, Sequences

Full == 2
Half == 1
NoTime == -1

Event(type, time, source, ref, reason, price, fraction) ==
  [type |-> type, time |-> time, source |-> source, ref |-> ref,
   reason |-> reason, price |-> price, fraction |-> fraction]

\* What the sha256 of the canonical string identifies within one signal.
EventId(e) == <<e.type, e.time, e.source, e.ref>>

IsTerminal(e) == e.type \in {"STOP_FILL", "TP2_FILL", "TIME_EXIT"}
=============================================================================
