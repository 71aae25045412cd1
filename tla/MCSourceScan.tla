--------------------------- MODULE MCSourceScan ---------------------------
(* Two symbols of two slots, a baseline and one candidate. *)
EXTENDS ScanConsumers

MCOrder == << "A", "B" >>
Both(a, b) == [A |-> a, B |-> b]
Constant(x) == [v \in Versions |-> x]

Frozen == Both(<< "ACCEPTED", "ACCEPTED" >>, << "NOT_READY", "NO_TRIGGER" >>)
Other == Both(<< "ACCEPTED", "TAKE_PROFIT" >>, << "BOUNDARY", "NO_TRIGGER" >>)
Empty == Both(<< "INELIGIBLE", "TRIGGER_NOT_READY" >>, << "NOT_READY", "NO_TRIGGER" >>)
Broken == Both(<< "ENTRY_STOP", "RAISES" >>, << "INELIGIBLE", "NO_TRIGGER" >>)
From0To1(x, y) == [v \in Versions |-> IF v = 0 THEN x ELSE y]

MCMarkets ==
    {[BASE |-> From0To1(Frozen, Other), WIDE |-> Constant(Other)],
     [BASE |-> From0To1(Frozen, Broken), WIDE |-> Constant(Empty)]}
Processes == Permutations(Procs)
MCTrusted == {Frozen}
=============================================================================
