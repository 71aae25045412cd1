------------------------- MODULE MCHistoricalReplay -------------------------
(* A snapshot that starts at 1, registries whose rules change before, at and *)
(* after that moment, and signals priced with one tick or with two.          *)
EXTENDS HistoricalReplay

Rule(symbol, from, to, grade, size) ==
  [symbol |-> symbol, from |-> from, to |-> to, grade |-> grade, tick |-> size]

DayUniverses == {[from |-> 1, to |-> 3, members |-> {1, 2}]}

DayRegistries ==
  {{Rule(1, 0, NoEnd, "VERIFIED", 1), Rule(2, 0, NoEnd, "APPROXIMATE", 1)},
   {Rule(1, 0, 1, "VERIFIED", 1), Rule(1, 1, NoEnd, "VERIFIED", 2), Rule(2, 0, 2, "VERIFIED", 1)},
   {Rule(1, 0, 1, "VERIFIED", 1), Rule(2, 0, 2, "APPROXIMATE", 1), Rule(2, 2, NoEnd, "VERIFIED", 1)}}

ASSUME \A r \in DayRegistries : ValidRegistry(r)

DayTicks == {[c \in Signals |-> 1], [c \in Signals |-> IF c = 3 THEN 2 ELSE 1]}
=============================================================================
