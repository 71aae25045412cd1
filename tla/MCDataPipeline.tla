--------------------------- MODULE MCDataPipeline ---------------------------
(***************************************************************************)
(* The store and the universe batch on small instances. In the part        *)
(* "store" two workers download and normalise one archive; in the part     *)
(* "universe" the store is full and the universe of three days that cross  *)
(* a month is built from it.                                               *)
(***************************************************************************)
EXTENDS UniverseBatch

VARIABLE part

MCFixedOrder == <<3, 4>>
IntervalsOf == {"15m", "1h"}
AllItems == [symbol : Symbols \ {5}, interval : IntervalsOf, period : 0 .. 1]
StoreItems == {Item(3, "15m", 0)}

\* Two days of two candles make a month. A broken archive has a gap in the
\* first month and two rows of one candle in the second; the second content says one
\* row twice.
Start(i) == PeriodStart(i.period)
Full(i, volumes) == [n \in 1 .. 4 |-> Row(Start(i) + n - 1, volumes[n])]
MCRowsOf ==
  [i \in AllItems |-> [c \in Contents |->
     CASE c \in {"first", "corrupt"} -> Full(i, IF i.period = 0 THEN <<2, 2, i.symbol, 2>> ELSE <<4 - i.symbol, 1, 1, 2>>)
       [] c = "second" -> LET full == Full(i, IF i.symbol = 4 THEN <<1, 1, 5, 5>> ELSE <<5, 5, 1, 1>>)
                          IN  Append(full, full[3])
       [] c = "broken" -> IF i.period = 0 THEN <<Row(Start(i), 9), Row(Start(i) + 3, 9)>>
                   ELSE <<Row(Start(i), 1), Row(Start(i), 2)>>]]
MCSizeOf == [c \in Contents |-> IF c = "first" THEN 1 ELSE 2]
MCStanding == [s \in Symbols |-> IF s = 5 THEN "EXCLUDED" ELSE "ELIGIBLE"]

\* A full store: every archive normalised from its first content, but one symbol
\* may have the second and one item may be missing.
FullStore ==
  /\ \E odd \in {4, 5}, missing \in {{}, {Item(2, "1h", 0)}, {Item(3, "15m", 1)}} :
       /\ official = [i \in Items |-> IF i.symbol = odd THEN "second" ELSE "first"]
       /\ table = [i \in Items |-> [c \in Contents |->
                     IF c = official[i] /\ i \notin missing
                     THEN [writer |-> 1, whole |-> TRUE, rows |-> Rows(i, c)] ELSE Absent]]
       /\ manifest = [i \in Items |-> IF i \in missing THEN {}
                        ELSE {Record(official[i], Rows(i, official[i]), table[i][official[i]])}]
  /\ past = [i \in Items |-> {official[i]}]
  /\ plan = [i \in PlannedItems |-> Planned(official[i])]
  /\ raw = official
  /\ receipt = [i \in Items |-> [c \in Contents |-> IF c = official[i] THEN SizeOf[c] ELSE Absent]]
  /\ job = [w \in Workers |-> Idle]
  /\ datasets = {} /\ batches = 0 /\ harms = 0

EmptyStore == StoreInit

Init ==
  /\ part \in {"store", "universe"}
  /\ UniverseInit
  /\ IF part = "store" THEN EmptyStore ELSE FullStore

Next ==
  /\ UNCHANGED part
  /\ \/ part = "store" /\ StoreNext /\ UNCHANGED universeVars
     \/ part = "universe" /\ UniverseNext
     \/ /\ part = "universe" /\ UNCHANGED universeVars
        /\ \E s \in {1, 4}, content \in Contents : HarmTable(Item(s, "15m", 0), content)

Spec == Init /\ [][Next]_<<storeVars, universeVars, part>>
=============================================================================
