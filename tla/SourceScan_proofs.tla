-------------------------- MODULE SourceScan_proofs --------------------------
(***************************************************************************)
(* The scan and its consumers, for any candidates, symbols, markets and    *)
(* number of processes, and any number of runs, kills and replaced sources.*)
(***************************************************************************)
EXTENDS ScanConsumers, SequenceTheorems, FoldTheorems

(* Types *)

Bindings == Modes \X Candidates \X Versions
Locals == [counts : [Counters -> Nat], confirmed : Seq(Records), accepted : Seq(Records)]
Scanning == {"OPEN", "SCAN", "SAVE", "DONE"}
Stopped == {"IDLE", "RAISED", "LEDGER", "CREATING", "WRITING", "RETURNED"}
RunType ==
  [pc : Scanning \cup Stopped \cup {"REFUSED"}, mode : Modes \cup {None},
   candidate : Candidates \cup {None}, version : Versions \cup {None},
   position : Nat, slot : Nat, read : Versions \cup {None}, local : Locals,
   error : Errors \cup {None}, merged : [Symbols -> Payloads \cup {None}], sink : Seq(Records)]

TypeOK ==
  /\ market \in Markets /\ source \in Versions
  /\ checkpoints \in [Bindings -> [Symbols -> Payloads \cup {None}]]
  /\ run \in [Procs -> RunType]

LEMMA EmptyIsTyped == EmptyLocal \in Locals /\ Idle \in RunType
<1>1. NoCounts \in [Counters -> Nat]
  BY DEF NoCounts
<1>2. << >> \in Seq(Records)
  OBVIOUS
<1>3. EmptyLocal \in Locals
  BY <1>1, <1>2 DEF EmptyLocal, Locals
<1>4. [s \in Symbols |-> None] \in [Symbols -> Payloads \cup {None}]
  OBVIOUS
<1>5. Idle \in RunType
  BY <1>2, <1>3, <1>4 DEF Idle, RunType, Stopped
<1> QED BY <1>3, <1>5

\* What a process knows of its run while it scans, reads and saves.
Working(r) ==
  r.pc \in Scanning =>
    /\ r.mode \in Modes /\ r.candidate \in Candidates /\ r.version \in Versions
    /\ r.position \in 1..Len(SymbolOrder) + 1
    /\ r.pc \in {"SCAN", "SAVE"} => r.position \in 1..Len(SymbolOrder)
    /\ r.pc = "DONE" => r.position = Len(SymbolOrder) + 1
    /\ r.pc = "OPEN" => r.slot = 0 /\ r.local = EmptyLocal /\ r.error = None
    /\ r.pc = "SCAN" => r.slot \in 0..Slots /\ r.read \in Versions /\ r.error = None
                        /\ (r.mode = "BOUND" => r.read = r.version)
    /\ r.pc = "SAVE" => r.error \in Errors /\ r.mode = "UNBOUND"

Typed == TypeOK /\ \A p \in Procs : Working(run[p])

\* The order of the symbols has each of them once.
LEMMA OrderOfSymbols ==
  /\ Len(SymbolOrder) \in Nat /\ SymbolOrder \in Seq(Symbols)
  /\ \A i \in 1..Len(SymbolOrder) : SymbolOrder[i] \in Symbols
  /\ \A i, j \in 1..Len(SymbolOrder) : SymbolOrder[i] = SymbolOrder[j] => i = j
  /\ \A s \in Symbols : \E i \in 1..Len(SymbolOrder) : SymbolOrder[i] = s
<1>1. SymbolOrder \in Seq(Symbols) /\ DOMAIN SymbolOrder = 1..Len(SymbolOrder)
  BY ScanAssumption
<1>2. \A s \in Symbols : \E i \in 1..Len(SymbolOrder) : SymbolOrder[i] = s
  BY <1>1 DEF Symbols, Range
<1>3. \A i, j \in 1..Len(SymbolOrder) : SymbolOrder[i] = SymbolOrder[j] => i = j
  BY <1>1, ScanAssumption
<1>4. Len(SymbolOrder) \in Nat /\ \A i \in 1..Len(SymbolOrder) : SymbolOrder[i] \in Symbols
  BY <1>1, LenProperties
<1> QED BY <1>1, <1>2, <1>3, <1>4

LEMMA SymbolsAreFinite == IsFiniteSet(Symbols) /\ Cardinality(Symbols) = Len(SymbolOrder)
<1>1. SymbolOrder \in [1..Len(SymbolOrder) -> Symbols] /\ Len(SymbolOrder) \in Nat
  BY OrderOfSymbols, LenProperties
<1>2. SymbolOrder \in Bijection(1..Len(SymbolOrder), Symbols)
  BY <1>1, OrderOfSymbols DEF Bijection, Injection, Surjection, IsInjective
<1>3. ExistsBijection(1..Len(SymbolOrder), Symbols)
  BY <1>2 DEF ExistsBijection
<1>4. IsFiniteSet(1..Len(SymbolOrder)) /\ Cardinality(1..Len(SymbolOrder)) = Len(SymbolOrder)
  BY <1>1, FirstNumbers
<1> QED BY <1>3, <1>4, FS_Bijection

\* What a step on the symbol of r makes of r when its payload is merged.
LEMMA TypeOfNext ==
  ASSUME Typed, NEW p \in Procs, NEW payload \in Payloads, NEW sink \in Seq(Records),
         NextSymbol(p, payload, sink), run[p].pc \in Scanning,
         run[p].position \in 1..Len(SymbolOrder)
  PROVE  /\ run' = [run EXCEPT ![p] = run'[p]] /\ run'[p] \in RunType /\ Working(run'[p])
         /\ run'[p].pc = "OPEN" /\ run'[p].mode = run[p].mode
         /\ run'[p].candidate = run[p].candidate /\ run'[p].version = run[p].version
         /\ run'[p].position = run[p].position + 1 /\ run'[p].sink = sink
         /\ run'[p].local = EmptyLocal
         /\ run'[p].merged = [run[p].merged EXCEPT ![Symbol(p)] = payload]
<1> DEFINE r == run[p]
           new == [r EXCEPT !.merged[Symbol(p)] = payload, !.sink = sink, !.pc = "OPEN",
                            !.position = @ + 1, !.slot = 0, !.local = EmptyLocal, !.error = None]
<1>1. r \in RunType /\ run' = [run EXCEPT ![p] = new]
  BY DEF Typed, TypeOK, NextSymbol, Set
<1>2. run'[p] = new /\ run' = [run EXCEPT ![p] = run'[p]]
  BY <1>1 DEF Typed, TypeOK
<1>3. /\ new.pc = "OPEN" /\ new.mode = r.mode /\ new.candidate = r.candidate
      /\ new.version = r.version /\ new.position = r.position + 1 /\ new.sink = sink
      /\ new.local = EmptyLocal /\ new.slot = 0 /\ new.error = None
      /\ new.merged = [r.merged EXCEPT ![Symbol(p)] = payload]
  BY <1>1 DEF RunType
<1>4. [r.merged EXCEPT ![Symbol(p)] = payload] \in [Symbols -> Payloads \cup {None}]
  BY <1>1 DEF RunType
<1>5. new \in RunType
  <2>1. /\ r.position + 1 \in Nat /\ 0 \in Nat /\ EmptyLocal \in Locals
        /\ "OPEN" \in Scanning \cup Stopped \cup {"REFUSED"} /\ None \in Errors \cup {None}
    BY <1>1, EmptyIsTyped DEF RunType, Scanning
  <2>2. new = [r EXCEPT !.merged = [r.merged EXCEPT ![Symbol(p)] = payload], !.sink = sink,
                        !.pc = "OPEN", !.position = r.position + 1, !.slot = 0,
                        !.local = EmptyLocal, !.error = None]
    BY <1>1 DEF RunType
  <2> HIDE DEF new, r
  <2> QED BY <2>1, <2>2, <1>1, <1>4 DEF RunType
<1>6. Working(new)
  <2>1. Working(r)
    BY DEF Typed
  <2> HIDE DEF new, r
  <2>2. new.position \in 1..Len(SymbolOrder) + 1
    <3>1. Len(SymbolOrder) \in Nat
      BY OrderOfSymbols
    <3> QED BY <1>3, <3>1 DEF r
  <2> QED BY <1>3, <2>1, <2>2 DEF Working, r
<1> HIDE DEF new
<1> QED BY <1>2, <1>3, <1>5, <1>6

-----------------------------------------------------------------------------
(* What the disk, the runs and the reports hold *)

\* The decisions on the first n slots of a symbol, by the sources of v.
Slotted(records, s, v, n) ==
  /\ \A i \in DOMAIN records : records[i].symbol = s /\ records[i].source = v
                               /\ records[i].slot \in 1..n
  /\ \A i, j \in DOMAIN records : i < j => records[i].slot < records[j].slot
CountUpTo(c, candidate, v, s, n) ==
  Cardinality({i \in 1..n : market[candidate][v][s][i] \in CountedBy[c]})
Scanned(candidate, v, s, n, x) ==
  /\ \A i \in 1..n : market[candidate][v][s][i] # "RAISES"
  /\ \A c \in Counters : x.counts[c] = CountUpTo(c, candidate, v, s, n)
  /\ Slotted(x.confirmed, s, v, n) /\ Slotted(x.accepted, s, v, n)

\* A checkpoint is a whole scan of its symbol, or the failure of an unbound run.
Whole(b, s, x) ==
  /\ x.anomaly = None
  /\ \E v \in Versions : (b[1] = "BOUND" => v = b[3]) /\ Scanned(b[2], v, s, Slots, x)
Failed(b, x) ==
  /\ b[1] = "UNBOUND" /\ x.anomaly \in Errors
  /\ x.counts = [NoCounts EXCEPT !.source_error = Slots]
  /\ x.confirmed = << >> /\ x.accepted = << >>
Sound(b, s, x) == x # None => Whole(b, s, x) \/ Failed(b, x)
DiskOk == \A b \in Bindings : \A s \in Symbols : Sound(b, s, checkpoints[b][s])

BindingOf(r) == << r.mode, r.candidate, r.version >>
Done(r) == {SymbolOrder[i] : i \in 1..(r.position - 1)}

\* What is merged is what the disk holds.
Merged(r) == \A s \in Done(r) : checkpoints[BindingOf(r)][s] # None
                                /\ r.merged[s] = checkpoints[BindingOf(r)][s]
Partly(r) ==
  r.pc = "SCAN" => Scanned(r.candidate, r.read, SymbolOrder[r.position], r.slot, r.local)

\* The sink has what was merged, and what an unbound run has found since.
Live(r) == IF r.pc = "SCAN" /\ r.mode = "UNBOUND" THEN Range(r.local.confirmed) ELSE {}
SinkOk(r) ==
  r.pc # "SAVE" /\ (\A s \in Done(r) : r.merged[s].anomaly = None) =>
     /\ IsInjective(r.sink)
     /\ Range(r.sink) = Live(r) \cup UNION {Range(r.merged[s].confirmed) : s \in Done(r)}
RunOk(r) == r.pc \in Scanning => Merged(r) /\ Partly(r) /\ SinkOk(r)

ReportsOk ==
  \A a \in reports : /\ a.binding \in Bindings
                     /\ \A s \in Symbols : checkpoints[a.binding][s] # None
                     /\ a.report = Report(checkpoints[a.binding])

Refuses(r) == r.pc = "REFUSED"
ScanInv ==
  /\ Typed /\ DiskOk
  /\ \A p \in Procs : RunOk(run[p]) /\ ~Refuses(run[p])
  /\ ReportsOk

\* What is on the disk stays as it is.
Grows ==
  /\ market' = market
  /\ \A b \in Bindings : \A s \in Symbols :
        checkpoints[b][s] # None => checkpoints'[b][s] = checkpoints[b][s]

\* A step of one process.
Moves(p, new) == run' = [run EXCEPT ![p] = new] /\ new \in RunType /\ Working(new)

LEMMA TypesHold ==
  ASSUME Typed, NEW p \in Procs, NEW new, Moves(p, new), UNCHANGED market, source' \in Versions,
         checkpoints' \in [Bindings -> [Symbols -> Payloads \cup {None}]]
  PROVE  Typed' /\ run'[p] = new /\ \A q \in Procs \ {p} : run'[q] = run[q]
<1>1. run' \in [Procs -> RunType] /\ run'[p] = new /\ \A q \in Procs \ {p} : run'[q] = run[q]
  BY DEF Moves, Typed, TypeOK
<1>2. \A q \in Procs : Working(run'[q])
  BY <1>1 DEF Moves, Typed
<1>3. (\A q \in Procs : Working(run[q]))'
  BY <1>2 DEF Working
<1> QED BY <1>1, <1>3 DEF Typed, TypeOK

\* The other runs do not notice.
LEMMA OthersHold ==
  ASSUME Typed, Grows, NEW q \in Procs, RunOk(run[q]), run'[q] = run[q]
  PROVE  RunOk(run[q])'
<1> DEFINE r == run[q]
<1>1. SUFFICES ASSUME r.pc \in Scanning PROVE (Merged(r) /\ Partly(r) /\ SinkOk(r))'
  BY DEF RunOk
<1>2. Merged(r) /\ Partly(r) /\ SinkOk(r)
  BY <1>1 DEF RunOk
<1>3. BindingOf(r) \in Bindings /\ Done(r) \subseteq Symbols
  <2>1. r.mode \in Modes /\ r.candidate \in Candidates /\ r.version \in Versions
        /\ r.position \in 1..Len(SymbolOrder) + 1
    BY <1>1 DEF Typed, Working
  <2> HIDE DEF r
  <2>2. BindingOf(r) \in Bindings
    BY <2>1 DEF BindingOf, Bindings
  <2> QED BY <2>1, <2>2, OrderOfSymbols DEF Done
<1>4. r' = r
  OBVIOUS
<1> HIDE DEF r
<1>5. Merged(r)'
  BY <1>2, <1>3, <1>4 DEF Merged, Grows, BindingOf, Done
<1>6. Partly(r)'
  BY <1>2, <1>4 DEF Partly, Grows, Scanned, CountUpTo
<1>7. SinkOk(r)'
  BY <1>2, <1>4 DEF SinkOk, Live, Done
<1> QED BY <1>5, <1>6, <1>7

LEMMA DiskHolds ==
  ASSUME Typed, Grows, DiskOk,
         \A b \in Bindings : \A s \in Symbols : checkpoints'[b][s] # checkpoints[b][s]
                                                => Sound(b, s, checkpoints'[b][s])
  PROVE  DiskOk'
<1>1. \A b \in Bindings : \A s \in Symbols : Sound(b, s, checkpoints'[b][s])
  BY DEF DiskOk
<1>2. ASSUME NEW b \in Bindings, NEW s \in Symbols PROVE Sound(b, s, checkpoints[b][s])'
  BY <1>1 DEF Sound, Whole, Failed, Scanned, CountUpTo, Grows
<1> QED BY <1>2 DEF DiskOk

LEMMA ReportsHold ==
  ASSUME Typed, Typed', Grows, ReportsOk
  PROVE  \A a \in reports : /\ a.binding \in Bindings
                            /\ \A s \in Symbols : checkpoints'[a.binding][s] # None
                            /\ a.report = Report(checkpoints'[a.binding])
<1> SUFFICES ASSUME NEW a \in reports
             PROVE  /\ a.binding \in Bindings
                    /\ \A s \in Symbols : checkpoints'[a.binding][s] # None
                    /\ a.report = Report(checkpoints'[a.binding])
  OBVIOUS
<1>1. a.binding \in Bindings /\ \A s \in Symbols : checkpoints[a.binding][s] # None
  BY DEF ReportsOk
<1>2. \A s \in Symbols : checkpoints'[a.binding][s] = checkpoints[a.binding][s]
  BY <1>1 DEF Grows
<1>3. checkpoints'[a.binding] = checkpoints[a.binding]
  BY <1>1, <1>2 DEF Typed, TypeOK
<1> QED BY <1>1, <1>2, <1>3 DEF ReportsOk

\* A step of p that adds no report keeps the invariant when the run of p and
\* what it writes are sound.
LEMMA StepHolds ==
  ASSUME ScanInv, Grows, NEW p \in Procs, NEW new, Moves(p, new), source' \in Versions,
         checkpoints' \in [Bindings -> [Symbols -> Payloads \cup {None}]],
         \A b \in Bindings : \A s \in Symbols : checkpoints'[b][s] # checkpoints[b][s]
                                                => Sound(b, s, checkpoints'[b][s]),
         UNCHANGED reports, RunOk(run[p])', ~Refuses(new)
  PROVE  ScanInv'
<1>1. Typed' /\ run'[p] = new /\ \A q \in Procs \ {p} : run'[q] = run[q]
  BY TypesHold DEF ScanInv, Grows
<1>2. DiskOk'
  BY DiskHolds DEF ScanInv
<1>3. ASSUME NEW q \in Procs PROVE (RunOk(run[q]) /\ ~Refuses(run[q]))'
  <2>1. CASE q = p
    BY <1>1, <2>1 DEF Refuses
  <2>2. CASE q # p
    <3>1. run'[q] = run[q] /\ RunOk(run[q]) /\ ~Refuses(run[q])
      BY <1>1, <2>2 DEF ScanInv
    <3> QED BY <3>1, OthersHold DEF ScanInv, Refuses
  <2> QED BY <2>1, <2>2
<1>4. ReportsOk'
  BY <1>1, ReportsHold DEF ScanInv, ReportsOk
<1> QED BY <1>1, <1>2, <1>3, <1>4 DEF ScanInv

\* A run that stops.
LEMMA QuitHolds ==
  ASSUME ScanInv, NEW p \in Procs, NEW new \in RunType, run' = [run EXCEPT ![p] = new],
         new.pc \in Stopped, UNCHANGED << market, checkpoints, reports >>, source' \in Versions
  PROVE  ScanInv'
<1>1. Grows
  BY DEF Grows
<1>2. new.pc \notin Scanning /\ ~Refuses(new)
  BY DEF Scanning, Stopped, Refuses
<1>3. Moves(p, new)
  BY <1>2 DEF Moves, Working
<1>4. run'[p] = new
  BY DEF ScanInv, Typed, TypeOK
<1>5. RunOk(run[p])'
  BY <1>2, <1>4 DEF RunOk
<1>6. checkpoints' \in [Bindings -> [Symbols -> Payloads \cup {None}]]
  BY DEF ScanInv, Typed, TypeOK
<1> QED BY <1>1, <1>2, <1>3, <1>5, <1>6, StepHolds

-----------------------------------------------------------------------------
(* The steps of a scan *)

\* What a scanning process is known to hold.
LEMMA RunFacts ==
  ASSUME Typed, NEW p \in Procs, run[p].pc \in Scanning
  PROVE  /\ run[p] \in RunType /\ Working(run[p])
         /\ run[p].mode \in Modes /\ run[p].candidate \in Candidates
         /\ run[p].version \in Versions /\ run[p].position \in 1..Len(SymbolOrder) + 1
         /\ run[p].merged \in [Symbols -> Payloads \cup {None}] /\ run[p].sink \in Seq(Records)
         /\ run[p].local \in Locals /\ run[p].slot \in Nat
         /\ Binding(p) \in Bindings /\ Binding(p) = BindingOf(run[p])
         /\ Done(run[p]) \subseteq Symbols /\ IsFiniteSet(Done(run[p]))
<1>1. run[p] \in RunType /\ Working(run[p])
  BY DEF Typed, TypeOK
<1>2. /\ run[p].mode \in Modes /\ run[p].candidate \in Candidates
      /\ run[p].version \in Versions /\ run[p].position \in 1..Len(SymbolOrder) + 1
  BY <1>1 DEF Working
<1>3. /\ run[p].merged \in [Symbols -> Payloads \cup {None}] /\ run[p].sink \in Seq(Records)
      /\ run[p].local \in Locals /\ run[p].slot \in Nat
  BY <1>1 DEF RunType
<1>4. Binding(p) \in Bindings /\ Binding(p) = BindingOf(run[p])
  BY <1>2 DEF Binding, BindingOf, Bindings
<1>5. Done(run[p]) \subseteq Symbols
  <2>1. run[p].position \in Int /\ run[p].position - 1 <= Len(SymbolOrder)
    BY <1>2, OrderOfSymbols
  <2> QED BY <2>1, OrderOfSymbols DEF Done
<1>6. IsFiniteSet(Done(run[p]))
  BY <1>5, SymbolsAreFinite, FS_Subset
<1> QED BY <1>1, <1>2, <1>3, <1>4, <1>5, <1>6

\* Sources are read, nothing is counted yet.
LEMMA LoadHolds ==
  ASSUME ScanInv, NEW p \in Procs, Load(p)
  PROVE  ScanInv'
<1> DEFINE r == run[p]
           new == [r EXCEPT !.pc = "SCAN", !.read = source]
<1>1. /\ r.pc = "OPEN" /\ r.position <= Len(SymbolOrder) /\ run' = [run EXCEPT ![p] = new]
      /\ UNCHANGED << market, source, checkpoints, reports >>
      /\ (r.mode = "BOUND" => source = r.version)
  BY DEF Load, Opening, Set, Bound, SameSources
<1>2. r.pc \in Scanning
  BY <1>1 DEF Scanning
<1>3. /\ r \in RunType /\ Working(r) /\ source \in Versions /\ RunOk(r)
      /\ source \in Versions \cup {None} /\ "SCAN" \in Scanning \cup Stopped \cup {"REFUSED"}
  BY DEF ScanInv, Typed, TypeOK, Scanning
<1>4. run'[p] = new
  BY <1>1 DEF ScanInv, Typed, TypeOK
<1>5. /\ new.pc = "SCAN" /\ new.mode = r.mode /\ new.candidate = r.candidate
      /\ new.version = r.version /\ new.position = r.position /\ new.sink = r.sink
      /\ new.local = r.local /\ new.slot = r.slot /\ new.error = r.error
      /\ new.merged = r.merged /\ new.read = source
  BY <1>3 DEF RunType
<1> HIDE DEF r
<1>6. new \in RunType
  BY <1>3 DEF RunType
<1> HIDE DEF new
<1>7. r.position \in 1..Len(SymbolOrder) /\ r.slot = 0 /\ r.local = EmptyLocal /\ r.error = None
  BY <1>1, <1>2, <1>3, OrderOfSymbols DEF Working
<1>8. Working(new)
  BY <1>1, <1>2, <1>3, <1>5, <1>7, ScanAssumption DEF Working
<1>9. Merged(r) /\ SinkOk(r)
  BY <1>2, <1>3 DEF RunOk
<1>10. Merged(new) /\ Done(new) = Done(r)
  BY <1>5, <1>9 DEF Merged, Done, BindingOf
<1>11. Scanned(new.candidate, new.read, SymbolOrder[new.position], new.slot, new.local)
  <2>1. 1..0 = {} /\ Cardinality({}) = 0 /\ EmptyLocal.confirmed = << >>
        /\ EmptyLocal.accepted = << >> /\ EmptyLocal.counts = [c \in Counters |-> 0]
    BY FS_EmptySet DEF EmptyLocal, NoCounts
  <2>2. \A c, candidate, v, s : CountUpTo(c, candidate, v, s, 0) = 0
    <3> SUFFICES ASSUME NEW c, NEW candidate, NEW v, NEW s
                 PROVE  CountUpTo(c, candidate, v, s, 0) = 0
      OBVIOUS
    <3>1. {i \in 1..0 : market[candidate][v][s][i] \in CountedBy[c]} = {}
      BY <2>1
    <3> QED BY <3>1, <2>1 DEF CountUpTo
  <2>3. Slotted(<< >>, SymbolOrder[new.position], new.read, 0)
    BY DEF Slotted
  <2> QED BY <1>5, <1>7, <2>1, <2>2, <2>3 DEF Scanned
<1>12. SinkOk(new)
  <2>1. Live(r) = {} /\ Live(new) = {}
    BY <1>1, <1>5, <1>7 DEF Live, EmptyLocal, Range
  <2> QED BY <1>1, <1>5, <1>9, <1>10, <2>1 DEF SinkOk
<1>13. RunOk(new)
  BY <1>10, <1>11, <1>12 DEF RunOk, Partly
<1>14. RunOk(run[p])'
  BY <1>13, <1>4, <1>1 DEF RunOk, Merged, Partly, Scanned, CountUpTo, SinkOk
<1>15. Grows /\ ~Refuses(new) /\ Moves(p, new)
       /\ checkpoints' \in [Bindings -> [Symbols -> Payloads \cup {None}]]
  BY <1>1, <1>5, <1>6, <1>8 DEF Grows, Refuses, Moves, ScanInv, Typed, TypeOK
<1>16. checkpoints' = checkpoints /\ reports' = reports /\ source' \in Versions
  BY <1>1, <1>3
<1> QED BY <1>14, <1>15, <1>16, StepHolds

\* The error of a symbol.
LEMMA FailHolds ==
  ASSUME ScanInv, NEW p \in Procs, NEW error \in Errors, Fail(p, error),
         run[p].pc \in {"OPEN", "SCAN"}, run[p].position <= Len(SymbolOrder),
         UNCHANGED << market, source, checkpoints, reports >>
  PROVE  ScanInv'
<1> DEFINE r == run[p]
           new == [r EXCEPT !.pc = "SAVE", !.error = error]
<1>1. r.pc \in Scanning /\ source' \in Versions
  BY DEF Scanning, ScanInv, Typed, TypeOK
<1>2. r \in RunType /\ Working(r) /\ RunOk(r) /\ r.mode \in Modes
      /\ r.position \in 1..Len(SymbolOrder) + 1
  BY <1>1, RunFacts DEF ScanInv
<1>3. CASE Bound(p)
  <2> DEFINE raised == [r EXCEPT !.pc = "RAISED"]
  <2>1. run' = [run EXCEPT ![p] = raised]
    BY <1>3 DEF Fail, Raise, Set
  <2>2. "RAISED" \in Stopped
    BY DEF Stopped
  <2>3. raised \in RunType /\ raised.pc = "RAISED"
    BY <1>2, <2>2 DEF RunType
  <2> HIDE DEF raised
  <2> QED BY <2>1, <2>2, <2>3, <1>1, QuitHolds
<1>4. CASE ~Bound(p)
  <2>1. run' = [run EXCEPT ![p] = new] /\ r.mode = "UNBOUND"
    BY <1>4, <1>2 DEF Fail, Set, Bound, Modes
  <2>2. run'[p] = new /\ "SAVE" \in Scanning /\ error \in Errors \cup {None}
    BY <2>1 DEF ScanInv, Typed, TypeOK, Scanning
  <2>3. /\ new.pc = "SAVE" /\ new.mode = r.mode /\ new.candidate = r.candidate
        /\ new.version = r.version /\ new.position = r.position /\ new.error = error
        /\ new.merged = r.merged
    BY <1>2 DEF RunType
  <2> HIDE DEF r
  <2>4. new \in RunType
    BY <1>2, <2>2 DEF RunType
  <2> HIDE DEF new
  <2>5. r.position \in 1..Len(SymbolOrder)
    BY <1>2, OrderOfSymbols DEF r
  <2>6. Working(new)
    BY <1>1, <1>2, <2>1, <2>3, <2>5 DEF Working, r
  <2>7. Merged(r)
    BY <1>1, <1>2 DEF RunOk
  <2>8. RunOk(new)
    BY <2>3, <2>7 DEF RunOk, Merged, Partly, SinkOk, Done, BindingOf
  <2>9. RunOk(run[p])'
    BY <2>8, <2>2 DEF RunOk, Merged, Partly, Scanned, CountUpTo, SinkOk
  <2>10. Grows /\ ~Refuses(new) /\ Moves(p, new)
         /\ checkpoints' \in [Bindings -> [Symbols -> Payloads \cup {None}]]
    BY <2>1, <2>3, <2>4, <2>6 DEF Grows, Refuses, Moves, ScanInv, Typed, TypeOK, r
  <2>11. checkpoints' = checkpoints /\ reports' = reports
    OBVIOUS
  <2> QED BY <2>9, <2>10, <2>11, <1>1, StepHolds
<1> QED BY <1>3, <1>4

\* Sequences that share no member.
LEMMA InjectiveConcat ==
  ASSUME NEW S, NEW a \in Seq(S), NEW b \in Seq(S), IsInjective(a), IsInjective(b),
         Range(a) \cap Range(b) = {}
  PROVE  a \o b \in Seq(S) /\ IsInjective(a \o b) /\ Range(a \o b) = Range(a) \cup Range(b)
<1> DEFINE c == a \o b
<1>1. /\ c \in Seq(S) /\ Len(c) = Len(a) + Len(b) /\ Len(a) \in Nat /\ Len(b) \in Nat
      /\ \A i \in 1..Len(a) : c[i] = a[i]
      /\ \A i \in 1..Len(b) : c[i + Len(a)] = b[i]
  <2>1. /\ c \in Seq(S) /\ Len(c) = Len(a) + Len(b) /\ Len(a) \in Nat /\ Len(b) \in Nat
        /\ \A i \in 1..Len(a) + Len(b) : c[i] = IF i <= Len(a) THEN a[i] ELSE b[i - Len(a)]
    BY ConcatProperties, LenProperties
  <2> HIDE DEF c
  <2>2. ASSUME NEW i \in 1..Len(b) PROVE c[i + Len(a)] = b[i]
    <3>1. i + Len(a) \in 1..Len(a) + Len(b) /\ ~(i + Len(a) <= Len(a)) /\ i + Len(a) - Len(a) = i
      BY <2>1
    <3> QED BY <3>1, <2>1
  <2> QED BY <2>1, <2>2
<1>2. DOMAIN a = 1..Len(a) /\ DOMAIN b = 1..Len(b) /\ DOMAIN c = 1..Len(a) + Len(b)
  BY <1>1, LenProperties
<1> HIDE DEF c
<1>3. \A i \in DOMAIN c : i \in DOMAIN a \/ \E j \in DOMAIN b : i = j + Len(a)
  <2> SUFFICES ASSUME NEW i \in DOMAIN c, i \notin DOMAIN a
               PROVE  \E j \in DOMAIN b : i = j + Len(a)
    OBVIOUS
  <2>1. i - Len(a) \in 1..Len(b) /\ i = i - Len(a) + Len(a)
    BY <1>1, <1>2
  <2> QED BY <2>1, <1>2
<1>4. \A i \in DOMAIN a : i \in DOMAIN c /\ c[i] = a[i]
  BY <1>1, <1>2
<1>5. \A j \in DOMAIN b : j + Len(a) \in DOMAIN c /\ c[j + Len(a)] = b[j]
  BY <1>1, <1>2
<1>6. Range(c) = Range(a) \cup Range(b)
  BY <1>3, <1>4, <1>5 DEF Range
<1>7. IsInjective(c)
  <2> SUFFICES ASSUME NEW i \in DOMAIN c, NEW j \in DOMAIN c, c[i] = c[j] PROVE i = j
    BY DEF IsInjective
  <2>1. CASE i \in DOMAIN a /\ j \in DOMAIN a
    BY <2>1, <1>4 DEF IsInjective
  <2>2. CASE i \in DOMAIN a /\ j \notin DOMAIN a
    <3>1. PICK y \in DOMAIN b : j = y + Len(a)
      BY <2>2, <1>3
    <3>2. a[i] = b[y]
      BY <2>2, <3>1, <1>4, <1>5
    <3> QED BY <2>2, <3>1, <3>2 DEF Range
  <2>3. CASE i \notin DOMAIN a /\ j \in DOMAIN a
    <3>1. PICK x \in DOMAIN b : i = x + Len(a)
      BY <2>3, <1>3
    <3>2. a[j] = b[x]
      BY <2>3, <3>1, <1>4, <1>5
    <3> QED BY <2>3, <3>1, <3>2 DEF Range
  <2>4. CASE i \notin DOMAIN a /\ j \notin DOMAIN a
    <3>1. PICK x \in DOMAIN b, y \in DOMAIN b : i = x + Len(a) /\ j = y + Len(a)
      BY <2>4, <1>3
    <3>2. b[x] = b[y]
      BY <3>1, <1>5
    <3> QED BY <3>1, <3>2 DEF IsInjective
  <2> QED BY <2>1, <2>2, <2>3, <2>4
<1> QED BY <1>1, <1>6, <1>7 DEF c

\* One more slot.
LEMMA CountGrows ==
  ASSUME NEW n \in Nat, NEW T \in SUBSET (1..n), NEW U \in SUBSET (1..(n + 1)),
         \A i \in 1..n : i \in T <=> i \in U
  PROVE  /\ Cardinality(T) \in Nat
         /\ Cardinality(U) = Cardinality(T) + IF n + 1 \in U THEN 1 ELSE 0
<1>1. IsFiniteSet(T) /\ Cardinality(T) \in Nat
  BY FirstNumbers, FS_Subset, FS_CardinalityType
<1>2. n + 1 \notin T /\ \A i \in 1..(n + 1) : i \in 1..n \/ i = n + 1
  OBVIOUS
<1>3. CASE n + 1 \in U
  <2>1. U = T \cup {n + 1}
    BY <1>2, <1>3
  <2> QED BY <1>1, <1>2, <1>3, <2>1, FS_AddElement
<1>4. CASE n + 1 \notin U
  <2>1. U = T
    BY <1>2, <1>4
  <2> QED BY <1>1, <1>4, <2>1
<1> QED BY <1>3, <1>4

LEMMA SlotsIncrease ==
  ASSUME NEW records \in Seq(Records), NEW s, NEW v, NEW n \in Nat, Slotted(records, s, v, n)
  PROVE  IsInjective(records)
<1>1. DOMAIN records = 1..Len(records) /\ Len(records) \in Nat
  BY LenProperties
<1>2. ASSUME NEW i \in DOMAIN records, NEW j \in DOMAIN records, records[i] = records[j], i # j
      PROVE  FALSE
  <2>1. records[i].slot \in Int /\ records[j].slot \in Int
    BY DEF Slotted
  <2>2. i < j \/ j < i
    BY <1>1, <1>2
  <2> QED BY <1>2, <2>1, <2>2 DEF Slotted
<1> QED BY <1>2 DEF IsInjective

LEMMA RecordsGrow ==
  ASSUME NEW records \in Seq(Records), NEW s, NEW v, NEW n \in Nat, Slotted(records, s, v, n),
         NEW x \in Records, x.symbol = s, x.source = v, x.slot = n + 1
  PROVE  /\ Slotted(records \o << x >>, s, v, n + 1) /\ Slotted(records \o << >>, s, v, n + 1)
         /\ records \o << x >> \in Seq(Records) /\ records \o << >> = records
         /\ Range(records \o << x >>) = Range(records) \cup {x}
         /\ x \notin Range(records)
<1>1. /\ DOMAIN records = 1..Len(records) /\ Len(records) \in Nat
      /\ records \o << >> = records /\ << x >> \in Seq(Records)
  BY LenProperties, ConcatEmptySeq
<1>2. /\ IsInjective(records) /\ IsInjective(<< x >>) /\ Range(<< x >>) = {x}
  BY SlotsIncrease DEF IsInjective, Range
<1>3. x \notin Range(records)
  <2>1. \A i \in DOMAIN records : records[i].slot \in 1..n
    BY DEF Slotted
  <2>2. \A i \in DOMAIN records : records[i].slot # n + 1
    BY <2>1
  <2> QED BY <2>2 DEF Range
<1>4. /\ records \o << x >> \in Seq(Records)
      /\ Range(records \o << x >>) = Range(records) \cup {x}
  <2>1. Range(records) \cap Range(<< x >>) = {}
    BY <1>2, <1>3
  <2>2. Range(records \o << x >>) = Range(records) \cup Range(<< x >>)
    <3> DEFINE one == << x >>
    <3>1. one \in Seq(Records) /\ IsInjective(one) /\ Range(records) \cap Range(one) = {}
      BY <1>1, <1>2, <2>1
    <3> HIDE DEF one
    <3>2. Range(records \o one) = Range(records) \cup Range(one)
      BY <1>2, <3>1, InjectiveConcat
    <3> QED BY <3>2 DEF one
  <2>3. records \o << x >> \in Seq(Records)
    BY <1>1, ConcatProperties
  <2> QED BY <2>2, <2>3, <1>2
<1>5. Slotted(records, s, v, n + 1)
  <2>1. 1..n \subseteq 1..(n + 1)
    OBVIOUS
  <2> QED BY <2>1 DEF Slotted
<1>6. Slotted(records \o << x >>, s, v, n + 1)
  <2> DEFINE longer == records \o << x >>
  <2>1. /\ DOMAIN longer = 1..(Len(records) + 1) /\ longer[Len(records) + 1] = x
        /\ \A i \in 1..Len(records) : longer[i] = records[i]
    <3>1. Len(longer) = Len(records) + 1
      BY <1>1, ConcatProperties
    <3>2. DOMAIN longer = 1..Len(longer)
      BY <1>4, LenProperties
    <3>3. \A i \in 1..(Len(records) + 1) :
             longer[i] = IF i <= Len(records) THEN records[i] ELSE << x >>[i - Len(records)]
      BY <1>1, ConcatProperties
    <3> HIDE DEF longer
    <3>4. longer[Len(records) + 1] = << x >>[1]
      BY <3>3, <1>1
    <3> QED BY <3>1, <3>2, <3>3, <3>4, <1>1
  <2> HIDE DEF longer
  <2>2. \A i \in 1..Len(records) : longer[i].slot \in 1..n
    BY <2>1, <1>1 DEF Slotted
  <2>3. ASSUME NEW i \in DOMAIN longer, NEW j \in DOMAIN longer, i < j
        PROVE  longer[i].slot < longer[j].slot
    <3>1. i \in 1..Len(records)
      BY <2>1, <2>3, <1>1
    <3>2. CASE j = Len(records) + 1
      BY <3>1, <3>2, <2>1, <2>2
    <3>3. CASE j \in 1..Len(records)
      BY <3>1, <3>3, <2>1, <2>3, <1>1 DEF Slotted
    <3> QED BY <3>2, <3>3, <2>1, <1>1
  <2>4. ASSUME NEW i \in DOMAIN longer
        PROVE  longer[i].symbol = s /\ longer[i].source = v /\ longer[i].slot \in 1..(n + 1)
    <3>1. CASE i = Len(records) + 1
      BY <3>1, <2>1
    <3>2. CASE i \in 1..Len(records)
      BY <3>2, <2>1, <1>1, <1>5 DEF Slotted
    <3> QED BY <3>1, <3>2, <2>1, <1>1
  <2>5. Slotted(longer, s, v, n + 1)
    BY <2>3, <2>4 DEF Slotted
  <2> QED BY <2>5 DEF longer
<1> QED BY <1>1, <1>3, <1>4, <1>5, <1>6

\* The markets decide every slot of every symbol.
LEMMA MarketType ==
  ASSUME Typed, NEW c \in Candidates, NEW v \in Versions, NEW s \in Symbols, NEW i \in 1..Slots
  PROVE  market[c][v][s][i] \in Kinds
<1>1. market \in [Candidates -> [Versions -> [Symbols -> [1..Slots -> Kinds]]]]
  BY ScanAssumption DEF Typed, TypeOK
<1>2. market[c] \in [Versions -> [Symbols -> [1..Slots -> Kinds]]]
  BY <1>1
<1>3. market[c][v] \in [Symbols -> [1..Slots -> Kinds]]
  BY <1>2
<1>4. market[c][v][s] \in [1..Slots -> Kinds]
  BY <1>3
<1> QED BY <1>4

LEMMA RecordsOfDisk ==
  ASSUME ScanInv, NEW b \in Bindings, NEW s \in Symbols, checkpoints[b][s] # None,
         checkpoints[b][s].anomaly = None
  PROVE  /\ Whole(b, s, checkpoints[b][s]) /\ checkpoints[b][s] \in Payloads
         /\ IsInjective(checkpoints[b][s].confirmed)
         /\ \A x \in Range(checkpoints[b][s].confirmed) : x.symbol = s
<1> DEFINE y == checkpoints[b][s]
<1>1. y \in Payloads /\ Sound(b, s, y)
  BY DEF ScanInv, Typed, TypeOK, DiskOk
<1>2. Whole(b, s, y)
  BY <1>1, NoneAssumption DEF Sound, Failed
<1>3. PICK v \in Versions : Slotted(y.confirmed, s, v, Slots)
  BY <1>2 DEF Whole, Scanned
<1>4. y.confirmed \in Seq(Records) /\ Slots \in Nat
  BY <1>1, ScanAssumption DEF Payloads
<1>5. IsInjective(y.confirmed)
  BY <1>3, <1>4, SlotsIncrease
<1>6. \A x \in Range(y.confirmed) : x.symbol = s
  BY <1>3 DEF Range, Slotted
<1> QED BY <1>1, <1>2, <1>5, <1>6

\* What was merged without an error is of the symbols that are done.
LEMMA SymbolsOfSink ==
  ASSUME ScanInv, NEW p \in Procs, run[p].pc \in Scanning,
         \A s \in Done(run[p]) : run[p].merged[s].anomaly = None
  PROVE  \A x \in UNION {Range(run[p].merged[s].confirmed) : s \in Done(run[p])} :
            x.symbol \in Done(run[p])
<1>1. Merged(run[p]) /\ BindingOf(run[p]) \in Bindings /\ Done(run[p]) \subseteq Symbols
  BY RunFacts DEF ScanInv, RunOk
<1>2. ASSUME NEW s \in Done(run[p]), NEW x \in Range(run[p].merged[s].confirmed)
      PROVE  x.symbol = s
  <2>1. /\ run[p].merged[s] = checkpoints[BindingOf(run[p])][s] /\ run[p].merged[s] # None
        /\ run[p].merged[s].anomaly = None /\ s \in Symbols
    BY <1>1 DEF Merged
  <2> QED BY <1>1, <1>2, <2>1, RecordsOfDisk
<1> QED BY <1>2

\* The symbol of a run that has not reached the end is not done.
LEMMA SymbolIsNew ==
  ASSUME Typed, NEW p \in Procs, run[p].pc \in Scanning, run[p].position \in 1..Len(SymbolOrder)
  PROVE  Symbol(p) \in Symbols /\ Symbol(p) \notin Done(run[p])
<1>1. Symbol(p) \in Symbols
  BY OrderOfSymbols DEF Symbol
<1>2. ASSUME NEW i \in 1..(run[p].position - 1), SymbolOrder[i] = Symbol(p) PROVE FALSE
  <2>1. i \in 1..Len(SymbolOrder) /\ i # run[p].position
    <3>1. Len(SymbolOrder) \in Nat
      BY OrderOfSymbols
    <3> QED BY <3>1
  <2> QED BY <1>2, <2>1, OrderOfSymbols DEF Symbol
<1> QED BY <1>1, <1>2 DEF Done

\* A slot is counted and recorded.
LEMMA SlotHolds ==
  ASSUME ScanInv, NEW p \in Procs, Slot(p)
  PROVE  ScanInv'
<1> DEFINE r == run[p]
           kind == KindAt(p)
           record == Record(Symbol(p), r.slot + 1, kind, r.read)
           found == IF kind \in ConfirmedKinds THEN << record >> ELSE << >>
           plan == IF kind = "ACCEPTED" THEN << record >> ELSE << >>
           local == [counts |-> CountSlot(r.local.counts, kind),
                     confirmed |-> r.local.confirmed \o found, accepted |-> r.local.accepted \o plan]
           sink == IF Bound(p) THEN r.sink ELSE r.sink \o found
           new == [r EXCEPT !.slot = r.slot + 1, !.local = local, !.sink = sink]
<1>1. /\ r.pc = "SCAN" /\ r.slot < Slots /\ kind # "RAISES" /\ run' = [run EXCEPT ![p] = new]
      /\ UNCHANGED << market, source, checkpoints, reports >>
  BY DEF Slot, Set
<1>2. r.pc \in Scanning /\ source' \in Versions
  BY <1>1 DEF Scanning, ScanInv, Typed, TypeOK
<1>3. /\ r \in RunType /\ Working(r) /\ RunOk(r) /\ r.candidate \in Candidates
      /\ r.local \in Locals /\ r.sink \in Seq(Records) /\ r.slot \in Nat
      /\ Done(r) \subseteq Symbols /\ r.mode \in Modes
  BY <1>2, RunFacts DEF ScanInv
<1>4. /\ r.position \in 1..Len(SymbolOrder) /\ r.slot + 1 \in 1..Slots /\ r.read \in Versions
      /\ r.slot \in 0..Slots
  <2>1. /\ r.position \in 1..Len(SymbolOrder) /\ r.read \in Versions /\ r.slot \in 0..Slots
    BY <1>1, <1>2, <1>3 DEF Working
  <2>2. Slots \in Nat
    BY ScanAssumption
  <2> HIDE DEF r
  <2> QED BY <2>1, <2>2, <1>1
<1>5. Symbol(p) \in Symbols /\ Symbol(p) \notin Done(r) /\ Symbol(p) = SymbolOrder[r.position]
  BY <1>2, <1>4, SymbolIsNew DEF ScanInv, Symbol
<1>6. kind = market[r.candidate][r.read][Symbol(p)][r.slot + 1] /\ kind \in Kinds
  BY <1>3, <1>4, <1>5, MarketType DEF KindAt, ScanInv
<1>7. /\ record \in Records /\ record.symbol = Symbol(p) /\ record.source = r.read
      /\ record.slot = r.slot + 1
  BY <1>4, <1>5, <1>6 DEF Record, Records
<1>8. Merged(r) /\ Partly(r) /\ SinkOk(r)
  BY <1>2, <1>3 DEF RunOk
<1>9. Scanned(r.candidate, r.read, Symbol(p), r.slot, r.local)
  BY <1>1, <1>5, <1>8 DEF Partly
<1>10. /\ r.local.counts \in [Counters -> Nat]
       /\ r.local.confirmed \in Seq(Records) /\ r.local.accepted \in Seq(Records)
  BY <1>3 DEF Locals
<1> HIDE DEF kind, record, r
<1>11. /\ local.counts = CountSlot(r.local.counts, kind) /\ local.confirmed = r.local.confirmed \o found
       /\ local.accepted = r.local.accepted \o plan
  OBVIOUS
<1>12. /\ local.confirmed \in Seq(Records) /\ local.accepted \in Seq(Records)
       /\ Slotted(local.confirmed, Symbol(p), r.read, r.slot + 1)
       /\ Slotted(local.accepted, Symbol(p), r.read, r.slot + 1)
  <2>1. Slotted(r.local.confirmed, Symbol(p), r.read, r.slot)
        /\ Slotted(r.local.accepted, Symbol(p), r.read, r.slot)
    BY <1>9 DEF Scanned
  <2>2. /\ Slotted(r.local.confirmed \o << record >>, Symbol(p), r.read, r.slot + 1)
        /\ Slotted(r.local.confirmed \o << >>, Symbol(p), r.read, r.slot + 1)
        /\ r.local.confirmed \o << record >> \in Seq(Records)
        /\ r.local.confirmed \o << >> = r.local.confirmed
    BY <1>3, <1>7, <1>10, <2>1, RecordsGrow
  <2>3. /\ Slotted(r.local.accepted \o << record >>, Symbol(p), r.read, r.slot + 1)
        /\ Slotted(r.local.accepted \o << >>, Symbol(p), r.read, r.slot + 1)
        /\ r.local.accepted \o << record >> \in Seq(Records)
        /\ r.local.accepted \o << >> = r.local.accepted
    BY <1>3, <1>7, <1>10, <2>1, RecordsGrow
  <2> QED BY <1>10, <1>11, <2>2, <2>3
<1>13. local.counts \in [Counters -> Nat]
       /\ \A c \in Counters : local.counts[c] = r.local.counts[c] + IF kind \in CountedBy[c] THEN 1 ELSE 0
  BY <1>10, <1>11 DEF CountSlot
<1>14. local \in Locals
  BY <1>12, <1>13 DEF Locals
<1> HIDE DEF local
<1>15. Scanned(r.candidate, r.read, Symbol(p), r.slot + 1, local)
  <2>1. \A i \in 1..(r.slot + 1) : market[r.candidate][r.read][Symbol(p)][i] # "RAISES"
    <3> SUFFICES ASSUME NEW i \in 1..(r.slot + 1)
                 PROVE  market[r.candidate][r.read][Symbol(p)][i] # "RAISES"
      OBVIOUS
    <3>1. i \in 1..r.slot \/ i = r.slot + 1
      BY <1>3
    <3> QED BY <3>1, <1>1, <1>6, <1>9 DEF Scanned
  <2>2. ASSUME NEW c \in Counters
        PROVE  local.counts[c] = CountUpTo(c, r.candidate, r.read, Symbol(p), r.slot + 1)
    <3> DEFINE f == market[r.candidate][r.read][Symbol(p)]
               S == CountedBy[c]
    <3>1. r.local.counts[c] = Cardinality({i \in 1..r.slot : f[i] \in S})
      BY <1>9 DEF Scanned, CountUpTo
    <3>2. local.counts[c] = r.local.counts[c] + IF f[r.slot + 1] \in S THEN 1 ELSE 0
      BY <1>6, <1>13
    <3> HIDE DEF f, S
    <3>3. Cardinality({i \in 1..(r.slot + 1) : f[i] \in S})
          = Cardinality({i \in 1..r.slot : f[i] \in S}) + IF f[r.slot + 1] \in S THEN 1 ELSE 0
      <4> DEFINE n == r.slot
                 T == {i \in 1..n : f[i] \in S}
                 U == {i \in 1..(n + 1) : f[i] \in S}
      <4>1. n \in Nat /\ T \in SUBSET (1..n) /\ U \in SUBSET (1..(n + 1))
            /\ (\A i \in 1..n : i \in T <=> i \in U) /\ (n + 1 \in U <=> f[n + 1] \in S)
        BY <1>3
      <4> HIDE DEF n, T, U
      <4>2. Cardinality(U) = Cardinality(T) + IF n + 1 \in U THEN 1 ELSE 0
        BY <4>1, CountGrows
      <4> QED BY <4>1, <4>2 DEF n, T, U
    <3>4. local.counts[c] = Cardinality({i \in 1..(r.slot + 1) : f[i] \in S})
      BY <3>1, <3>2, <3>3
    <3> QED BY <3>4 DEF f, S, CountUpTo
  <2> QED BY <2>1, <2>2, <1>12 DEF Scanned
<1>16. sink \in Seq(Records)
  <2>1. << record >> \in Seq(Records) /\ << >> \in Seq(Records)
    BY <1>7
  <2> QED BY <1>3, <2>1, ConcatProperties
<1>17. run'[p] = new
  BY <1>1, <1>2 DEF ScanInv, Typed, TypeOK
<1>18. /\ new.pc = "SCAN" /\ new.mode = r.mode /\ new.candidate = r.candidate
       /\ new.version = r.version /\ new.position = r.position /\ new.sink = sink
       /\ new.local = local /\ new.slot = r.slot + 1 /\ new.error = r.error
       /\ new.merged = r.merged /\ new.read = r.read
  BY <1>1, <1>3 DEF RunType
<1> HIDE DEF sink
<1>19. new \in RunType
  <2>1. r.slot + 1 \in Nat
    BY <1>3
  <2> QED BY <1>3, <1>14, <1>16, <2>1 DEF RunType
<1> HIDE DEF new
<1>20. Working(new)
  <2>1. r.slot + 1 \in 0..Slots
    BY <1>4
  <2> QED BY <1>1, <1>2, <1>3, <1>18, <2>1 DEF Working
<1>21. Done(new) = Done(r) /\ Merged(new)
  BY <1>8, <1>18 DEF Merged, Done, BindingOf
<1>22. Partly(new)
  BY <1>5, <1>15, <1>18 DEF Partly
<1>23. SinkOk(new)
  <2> DEFINE U == UNION {Range(r.merged[s].confirmed) : s \in Done(r)}
  <2>1. SUFFICES ASSUME \A s \in Done(r) : r.merged[s].anomaly = None
                 PROVE  IsInjective(sink) /\ Range(sink) = Live(new) \cup U
    BY <1>18, <1>21 DEF SinkOk
  <2>2. IsInjective(r.sink) /\ Range(r.sink) = Live(r) \cup U
    BY <1>1, <1>8, <2>1 DEF SinkOk
  <2> HIDE DEF U
  <2>3. CASE Bound(p)
    <3>1. sink = r.sink /\ Live(r) = {} /\ Live(new) = {}
      BY <2>3, <1>18 DEF sink, Live, Bound, r
    <3> QED BY <2>2, <3>1
  <2>4. CASE ~Bound(p)
    <3>1. /\ sink = r.sink \o found /\ Live(r) = Range(r.local.confirmed)
          /\ Live(new) = Range(r.local.confirmed \o found)
      BY <2>4, <1>1, <1>3, <1>11, <1>18 DEF sink, Live, Bound, Modes, r
    <3>2. CASE found = << >>
      BY <2>2, <3>1, <3>2, <1>3, <1>10, ConcatEmptySeq
    <3>3. CASE found = << record >>
      <4>1. record \notin U
        <5>1. \A x \in U : x.symbol \in Done(r)
          BY <1>2, <2>1, SymbolsOfSink DEF r, U
        <5> QED BY <5>1, <1>5, <1>7
      <4>2. record \notin Range(r.local.confirmed)
            /\ Range(r.local.confirmed \o << record >>) = Range(r.local.confirmed) \cup {record}
        <5>1. Slotted(r.local.confirmed, Symbol(p), r.read, r.slot)
          BY <1>9 DEF Scanned
        <5> DEFINE records == r.local.confirmed
                   n == r.slot
        <5>2. /\ records \in Seq(Records) /\ n \in Nat /\ record.slot = n + 1
              /\ Slotted(records, Symbol(p), r.read, n)
          BY <1>3, <1>7, <1>10, <5>1
        <5> HIDE DEF records, n
        <5>3. record \notin Range(records)
          <6>1. \A i \in DOMAIN records : records[i].slot \in 1..n
            BY <5>2 DEF Slotted
          <6>2. \A i \in DOMAIN records : records[i].slot # n + 1
            BY <5>2, <6>1
          <6> QED BY <5>2, <6>2 DEF Range
        <5>4. Range(records \o << record >>) = Range(records) \cup {record}
          BY <1>7, <5>2, RecordsGrow
        <5> QED BY <5>3, <5>4 DEF records
      <4> DEFINE one == << record >>
      <4>3. one \in Seq(Records) /\ IsInjective(one) /\ Range(one) = {record}
        BY <1>7 DEF IsInjective, Range
      <4> HIDE DEF one
      <4>4. Range(r.sink) \cap Range(one) = {}
        BY <2>2, <3>1, <4>1, <4>2, <4>3
      <4>5. IsInjective(r.sink \o one) /\ Range(r.sink \o one) = Range(r.sink) \cup Range(one)
        BY <1>3, <2>2, <4>3, <4>4, InjectiveConcat
      <4>6. sink = r.sink \o one
        BY <3>1, <3>3 DEF one
      <4>7. Live(new) = Range(r.local.confirmed) \cup {record}
        BY <3>1, <3>3, <4>2
      <4> QED BY <2>2, <3>1, <4>3, <4>5, <4>6, <4>7
    <3> QED BY <3>2, <3>3
  <2> QED BY <2>3, <2>4
<1>24. RunOk(run[p])'
  <2>1. RunOk(new)
    BY <1>21, <1>22, <1>23 DEF RunOk
  <2> QED BY <2>1, <1>17, <1>1 DEF RunOk, Merged, Partly, Scanned, CountUpTo, SinkOk
<1>25. Grows /\ ~Refuses(new) /\ Moves(p, new)
       /\ checkpoints' \in [Bindings -> [Symbols -> Payloads \cup {None}]]
  BY <1>1, <1>18, <1>19, <1>20 DEF Grows, Refuses, Moves, ScanInv, Typed, TypeOK
<1>26. checkpoints' = checkpoints /\ reports' = reports
  BY <1>1
<1> QED BY <1>2, <1>24, <1>25, <1>26, StepHolds

\* What is known of a whole scan of a symbol.
LEMMA WholeRecords ==
  ASSUME NEW b, NEW s, NEW y \in Payloads, Whole(b, s, y)
  PROVE  IsInjective(y.confirmed) /\ \A x \in Range(y.confirmed) : x.symbol = s
<1>1. PICK v \in Versions : Slotted(y.confirmed, s, v, Slots)
  BY DEF Whole, Scanned
<1>2. y.confirmed \in Seq(Records) /\ Slots \in Nat
  BY ScanAssumption DEF Payloads
<1>3. IsInjective(y.confirmed)
  BY <1>1, <1>2, SlotsIncrease
<1>4. \A x \in Range(y.confirmed) : x.symbol = s
  BY <1>1 DEF Range, Slotted
<1> QED BY <1>3, <1>4

\* A symbol is merged from its checkpoint, and its records are handed on.
LEMMA MergeHolds ==
  ASSUME ScanInv, NEW p \in Procs, run[p].pc \in Scanning,
         run[p].position \in 1..Len(SymbolOrder),
         NEW payload \in Payloads, NEW sink \in Seq(Records), NextSymbol(p, payload, sink),
         Grows, source' \in Versions, UNCHANGED reports,
         checkpoints' \in [Bindings -> [Symbols -> Payloads \cup {None}]],
         Sound(Binding(p), Symbol(p), payload),
         checkpoints'[Binding(p)][Symbol(p)] = payload,
         \A b \in Bindings : \A s \in Symbols : checkpoints'[b][s] # checkpoints[b][s]
            => b = Binding(p) /\ s = Symbol(p),
         payload.anomaly = None =>
            /\ run[p].pc # "SAVE"
            /\ \/ Live(run[p]) = {} /\ sink = run[p].sink \o payload.confirmed
               \/ Live(run[p]) = Range(payload.confirmed) /\ sink = run[p].sink
  PROVE  ScanInv'
<1> DEFINE r == run[p]
           s == Symbol(p)
           b == Binding(p)
           new == run'[p]
<1>1. /\ run' = [run EXCEPT ![p] = new] /\ new \in RunType /\ Working(new)
      /\ new.pc = "OPEN" /\ new.mode = r.mode /\ new.candidate = r.candidate
      /\ new.version = r.version /\ new.position = r.position + 1 /\ new.sink = sink
      /\ new.local = EmptyLocal /\ new.merged = [r.merged EXCEPT ![s] = payload]
  BY TypeOfNext DEF ScanInv
<1>2. /\ r.merged \in [Symbols -> Payloads \cup {None}] /\ r.sink \in Seq(Records)
      /\ b \in Bindings /\ b = BindingOf(r) /\ Done(r) \subseteq Symbols /\ RunOk(r)
  BY RunFacts DEF ScanInv
<1>3. s \in Symbols /\ s \notin Done(r)
  BY SymbolIsNew DEF ScanInv
<1>4. Done(new) = Done(r) \cup {s}
  <2>1. 1..(new.position - 1) = 1..(r.position - 1) \cup {r.position}
    <3>1. Len(SymbolOrder) \in Nat /\ r.position \in 1..Len(SymbolOrder)
      BY OrderOfSymbols
    <3>2. new.position = r.position + 1
      BY <1>1
    <3> HIDE DEF new, r
    <3> QED BY <3>1, <3>2
  <2> HIDE DEF new
  <2> QED BY <2>1 DEF Done, Symbol
<1>5. BindingOf(new) = b
  BY <1>1, <1>2 DEF BindingOf
<1>6. new.merged[s] = payload /\ \A t \in Done(r) : new.merged[t] = r.merged[t]
  BY <1>1, <1>2, <1>3
<1>7. Merged(r) /\ SinkOk(r)
  BY <1>2 DEF RunOk
<1>8. payload # None
  BY NoneAssumption
<1>9. \A t \in Done(new) : checkpoints'[b][t] # None /\ new.merged[t] = checkpoints'[b][t]
  <2>1. \A t \in Done(r) : checkpoints'[b][t] # None /\ new.merged[t] = checkpoints'[b][t]
    BY <1>2, <1>6, <1>7 DEF Merged, Grows
  <2> QED BY <2>1, <1>4, <1>6, <1>8
<1> HIDE DEF new
<1>10. SinkOk(new)
  <2> DEFINE U == UNION {Range(r.merged[t].confirmed) : t \in Done(r)}
             V == UNION {Range(new.merged[t].confirmed) : t \in Done(new)}
  <2>1. SUFFICES ASSUME \A t \in Done(new) : new.merged[t].anomaly = None
                 PROVE  IsInjective(sink) /\ Range(sink) = Live(new) \cup V
    BY <1>1 DEF SinkOk
  <2>2. payload.anomaly = None /\ \A t \in Done(r) : r.merged[t].anomaly = None
    BY <2>1, <1>4, <1>6
  <2>3. IsInjective(r.sink) /\ Range(r.sink) = Live(r) \cup U
    BY <1>7, <2>2 DEF SinkOk
  <2>4. V = U \cup Range(payload.confirmed)
    BY <1>4, <1>6
  <2>5. Live(new) = {}
    BY <1>1 DEF Live
  <2>6. \A x \in U : x.symbol \in Done(r)
    BY <2>2, SymbolsOfSink
  <2>7. IsInjective(payload.confirmed) /\ payload.confirmed \in Seq(Records)
        /\ \A x \in Range(payload.confirmed) : x.symbol = s
    <3>1. Whole(b, s, payload)
      BY <2>2, <1>8, NoneAssumption DEF Sound, Failed
    <3> QED BY <3>1, WholeRecords DEF Payloads
  <2> HIDE DEF U, V, s, b, r
  <2>8. CASE Live(r) = {} /\ sink = r.sink \o payload.confirmed
    <3>1. Range(r.sink) \cap Range(payload.confirmed) = {}
      BY <2>3, <2>6, <2>7, <2>8, <1>3
    <3>2. IsInjective(sink) /\ Range(sink) = Range(r.sink) \cup Range(payload.confirmed)
      BY <1>2, <2>3, <2>7, <2>8, <3>1, InjectiveConcat
    <3> QED BY <2>3, <2>4, <2>5, <2>8, <3>2
  <2>9. CASE Live(r) = Range(payload.confirmed) /\ sink = r.sink
    BY <2>3, <2>4, <2>5, <2>9
  <2> QED BY <2>2, <2>8, <2>9 DEF r
<1>11. RunOk(run[p])'
  <2>1. Merged(run[p])'
    BY <1>5, <1>9 DEF Merged, new, Done, BindingOf
  <2>2. Partly(run[p])'
    BY <1>1 DEF Partly, new
  <2>3. SinkOk(run[p])'
    BY <1>10 DEF SinkOk, new, Live, Done
  <2> QED BY <2>1, <2>2, <2>3 DEF RunOk
<1>12. Moves(p, new) /\ ~Refuses(new)
  BY <1>1 DEF Moves, Refuses
<1>13. \A c \in Bindings : \A t \in Symbols : checkpoints'[c][t] # checkpoints[c][t]
          => Sound(c, t, checkpoints'[c][t])
  OBVIOUS
<1> QED BY <1>11, <1>12, <1>13, StepHolds

\* A checkpoint stands for the symbol.
LEMMA RestoreHolds ==
  ASSUME ScanInv, NEW p \in Procs, Restore(p)
  PROVE  ScanInv'
<1> DEFINE r == run[p]
           payload == OnDisk(p)
<1>1. /\ r.pc = "OPEN" /\ r.position <= Len(SymbolOrder) /\ payload # None
      /\ NextSymbol(p, payload, r.sink \o payload.confirmed)
      /\ UNCHANGED << market, source, checkpoints, reports >>
  BY DEF Restore, Opening, Deliver
<1>2. r.pc \in Scanning
  BY <1>1 DEF Scanning
<1>3. r.position \in 1..Len(SymbolOrder) + 1 /\ r.sink \in Seq(Records) /\ Binding(p) \in Bindings
  BY <1>2, RunFacts DEF ScanInv
<1>4. r.position \in 1..Len(SymbolOrder)
  BY <1>1, <1>3, OrderOfSymbols
<1>5. Symbol(p) \in Symbols
  BY <1>2, <1>4, SymbolIsNew DEF ScanInv
<1>6. payload \in Payloads /\ Sound(Binding(p), Symbol(p), payload)
      /\ payload = checkpoints[Binding(p)][Symbol(p)]
  BY <1>1, <1>3, <1>5 DEF OnDisk, ScanInv, Typed, TypeOK, DiskOk
<1>7. payload.confirmed \in Seq(Records) /\ r.sink \o payload.confirmed \in Seq(Records)
  BY <1>3, <1>6, ConcatProperties DEF Payloads
<1>8. Live(r) = {}
  BY <1>1 DEF Live
<1>9. Grows /\ source' \in Versions /\ checkpoints' = checkpoints
      /\ checkpoints' \in [Bindings -> [Symbols -> Payloads \cup {None}]]
  BY <1>1 DEF Grows, ScanInv, Typed, TypeOK
<1> HIDE DEF payload
<1> QED BY <1>1, <1>2, <1>4, <1>6, <1>7, <1>8, <1>9, MergeHolds

\* What is saved is a whole scan or a failure.
LEMMA PayloadIsSound ==
  ASSUME ScanInv, NEW p \in Procs,
         run[p].pc = "SAVE" \/ (run[p].pc = "SCAN" /\ run[p].slot = Slots)
  PROVE  /\ Payload(run[p].local, run[p].error) \in Payloads
         /\ Sound(Binding(p), Symbol(p), Payload(run[p].local, run[p].error))
         /\ Payload(run[p].local, run[p].error).anomaly = None =>
               /\ run[p].pc = "SCAN"
               /\ Payload(run[p].local, run[p].error).confirmed = run[p].local.confirmed
<1> DEFINE r == run[p]
           y == Payload(r.local, r.error)
           b == Binding(p)
<1>1. r.pc \in Scanning
  BY DEF Scanning
<1>2. /\ Working(r) /\ r.local \in Locals /\ RunOk(r) /\ b = BindingOf(r) /\ b \in Bindings
      /\ r.mode \in Modes
  BY <1>1, RunFacts DEF ScanInv
<1>3. CASE r.pc = "SCAN"
  <2>1. r.error = None /\ r.slot = Slots /\ r.read \in Versions
        /\ (r.mode = "BOUND" => r.read = r.version)
    BY <1>1, <1>2, <1>3 DEF Working
  <2>2. y = [slots |-> Slots, counts |-> r.local.counts, confirmed |-> r.local.confirmed,
             accepted |-> r.local.accepted, anomaly |-> None]
    BY <2>1 DEF Payload
  <2>3. y \in Payloads
    BY <1>2, <2>2 DEF Payloads, Locals
  <2>4. Scanned(r.candidate, r.read, Symbol(p), Slots, r.local)
    BY <1>1, <1>2, <1>3, <2>1 DEF RunOk, Partly, Symbol
  <2>5. Scanned(b[2], r.read, Symbol(p), Slots, y)
    BY <1>2, <2>2, <2>4 DEF Scanned, BindingOf
  <2>6. Whole(b, Symbol(p), y)
    BY <1>2, <2>1, <2>2, <2>5 DEF Whole, BindingOf
  <2> QED BY <1>3, <2>2, <2>3, <2>6 DEF Sound
<1>4. CASE r.pc = "SAVE"
  <2>1. r.error \in Errors /\ r.mode = "UNBOUND" /\ r.error # None
    BY <1>1, <1>2, <1>4, NoneAssumption DEF Working
  <2>2. y = [slots |-> Slots, counts |-> [NoCounts EXCEPT !.source_error = Slots],
             confirmed |-> << >>, accepted |-> << >>, anomaly |-> r.error]
    BY <2>1 DEF Payload
  <2>3. [NoCounts EXCEPT !.source_error = Slots] \in [Counters -> Nat]
    BY ScanAssumption DEF NoCounts
  <2>4. y \in Payloads
    BY <2>1, <2>2, <2>3 DEF Payloads
  <2>5. b[1] = "UNBOUND"
    BY <1>2, <2>1 DEF BindingOf
  <2>6. Failed(b, y)
    BY <2>1, <2>2, <2>5 DEF Failed
  <2> QED BY <2>1, <2>2, <2>4, <2>6 DEF Sound
<1> QED BY <1>3, <1>4

\* A checkpoint is written where there was none, or stays.
LEMMA SaveHolds ==
  ASSUME ScanInv, NEW p \in Procs, Save(p)
  PROVE  ScanInv'
<1> DEFINE r == run[p]
           y == Payload(r.local, r.error)
           sink == IF Bound(p) THEN r.sink \o y.confirmed ELSE r.sink
           b == Binding(p)
           s == Symbol(p)
<1>1. /\ r.pc = "SAVE" \/ (r.pc = "SCAN" /\ r.slot = Slots)
      /\ UNCHANGED << market, source, reports >>
  BY DEF Save
<1>2. r.pc \in Scanning /\ source' \in Versions
  BY <1>1 DEF Scanning, ScanInv, Typed, TypeOK
<1>3. /\ Working(r) /\ r \in RunType /\ r.sink \in Seq(Records) /\ b \in Bindings /\ r.mode \in Modes
  BY <1>2, RunFacts DEF ScanInv
<1>4. r.position \in 1..Len(SymbolOrder)
  BY <1>1, <1>2, <1>3 DEF Working
<1>5. s \in Symbols
  BY <1>2, <1>4, SymbolIsNew DEF ScanInv
<1>6. /\ y \in Payloads /\ Sound(b, s, y)
      /\ y.anomaly = None => r.pc = "SCAN" /\ y.confirmed = r.local.confirmed
  BY <1>1, PayloadIsSound
<1>7. CASE /\ Bound(p) => ValidCheckpoint(y, s, r.version)
           /\ MayPublish(OnDisk(p), y)
  <2>1. checkpoints' = [checkpoints EXCEPT ![b][s] = y] /\ NextSymbol(p, y, sink)
    BY <1>7 DEF Save
  <2>2. checkpoints \in [Bindings -> [Symbols -> Payloads \cup {None}]]
    BY DEF ScanInv, Typed, TypeOK
  <2>3. checkpoints[b][s] = None \/ checkpoints[b][s] = y
    BY <1>7 DEF MayPublish, OnDisk
  <2>4. sink \in Seq(Records)
    BY <1>3, <1>6, ConcatProperties DEF Payloads
  <2>5. y.anomaly = None =>
            /\ r.pc # "SAVE"
            /\ \/ Live(r) = {} /\ sink = r.sink \o y.confirmed
               \/ Live(r) = Range(y.confirmed) /\ sink = r.sink
    BY <1>3, <1>6 DEF Live, Bound, Modes
  <2> HIDE DEF y, sink, b, s
  <2>6. checkpoints' \in [Bindings -> [Symbols -> Payloads \cup {None}]]
    <3>1. [checkpoints[b] EXCEPT ![s] = y] \in [Symbols -> Payloads \cup {None}]
      BY <1>3, <1>6, <2>2
    <3>2. checkpoints' = [checkpoints EXCEPT ![b] = [checkpoints[b] EXCEPT ![s] = y]]
      BY <2>1, <2>2, <1>3
    <3> QED BY <3>1, <3>2, <2>2
  <2>7. /\ checkpoints'[b][s] = y
        /\ \A c \in Bindings : \A t \in Symbols : checkpoints'[c][t] # checkpoints[c][t] => c = b /\ t = s
    BY <1>3, <1>5, <2>1, <2>2
  <2>8. Grows
    BY <1>1, <2>3, <2>7 DEF Grows
  <2>9. s = Symbol(p) /\ b = Binding(p)
    BY DEF s, b
  <2> QED BY <1>1, <1>2, <1>4, <1>6, <2>1, <2>4, <2>5, <2>6, <2>7, <2>8, <2>9, MergeHolds
<1>8. CASE ~ (/\ Bound(p) => ValidCheckpoint(y, s, r.version)
              /\ MayPublish(OnDisk(p), y))
  <2> DEFINE raised == [r EXCEPT !.pc = "RAISED"]
  <2>1. run' = [run EXCEPT ![p] = raised] /\ checkpoints' = checkpoints
    BY <1>8 DEF Save, Raise, Set
  <2>2. "RAISED" \in Stopped
    BY DEF Stopped
  <2>3. raised \in RunType /\ raised.pc = "RAISED"
    BY <1>3, <2>2 DEF RunType
  <2> HIDE DEF raised
  <2> QED BY <1>1, <1>2, <2>1, <2>2, <2>3, QuitHolds
<1> QED BY <1>7, <1>8

-----------------------------------------------------------------------------
(* The funnel *)

LEMMA DisjointSets ==
  ASSUME NEW S, NEW T, IsFiniteSet(S), IsFiniteSet(T), S \cap T = {}
  PROVE  IsFiniteSet(S \cup T) /\ Cardinality(S \cup T) = Cardinality(S) + Cardinality(T)
         /\ Cardinality(S) \in Nat /\ Cardinality(T) \in Nat
<1>1. IsFiniteSet(S \cup T)
      /\ Cardinality(S \cup T) = Cardinality(S) + Cardinality(T) - Cardinality(S \cap T)
  BY FS_Union
<1>2. Cardinality(S) \in Nat /\ Cardinality(T) \in Nat
  BY FS_CardinalityType
<1>3. Cardinality(S \cap T) = 0
  BY FS_EmptySet
<1> QED BY <1>1, <1>2, <1>3

\* Of one symbol, every slot is counted once, and a trigger is one of those evaluated.
Balanced(k) ==
  /\ k["setup_evaluated"] + k["setup_not_ready"] + k["source_error"] = Slots
  /\ k["trigger_evaluated"] + k["trigger_not_ready"] = k["setup_eligible"]
  /\ k["trigger_confirmed"] <= k["trigger_evaluated"]
  /\ k["entry_stop_rejected"] + k["take_profit_rejected"]
     + k["request_boundary_rejected"] + k["accepted"] = k["trigger_confirmed"]

LEMMA CountersAre ==
  /\ {"setup_evaluated", "setup_not_ready", "source_error", "trigger_evaluated",
      "trigger_not_ready", "setup_eligible", "trigger_confirmed", "entry_stop_rejected",
      "take_profit_rejected", "request_boundary_rejected", "accepted"} = Counters
BY DEF Counters, CountedBy

\* The counts of any decisions, none of which is an exception, are balanced.
LEMMA CountsBalance ==
  ASSUME NEW f, \A i \in 1..Slots : f[i] \in Kinds \ {"RAISES"},
         NEW k, \A c \in Counters : k[c] = Cardinality({i \in 1..Slots : f[i] \in CountedBy[c]})
  PROVE  Balanced(k)
<1> DEFINE Of(S) == {i \in 1..Slots : f[i] \in S}
<1>1. Slots \in Nat /\ IsFiniteSet(1..Slots) /\ Cardinality(1..Slots) = Slots
  BY ScanAssumption, FirstNumbers
<1>2. \A S : IsFiniteSet(Of(S))
  BY <1>1, FS_Subset
<1>3. /\ k["setup_evaluated"] = Cardinality(Of(Eligible \cup {"INELIGIBLE"}))
      /\ k["setup_not_ready"] = Cardinality(Of({"NOT_READY"}))
      /\ k["source_error"] = Cardinality(Of({}))
      /\ k["trigger_evaluated"] = Cardinality(Of(Evaluated))
      /\ k["trigger_not_ready"] = Cardinality(Of({"TRIGGER_NOT_READY"}))
      /\ k["setup_eligible"] = Cardinality(Of(Eligible))
      /\ k["trigger_confirmed"] = Cardinality(Of(ConfirmedKinds))
      /\ k["entry_stop_rejected"] = Cardinality(Of({"ENTRY_STOP"}))
      /\ k["take_profit_rejected"] = Cardinality(Of({"TAKE_PROFIT"}))
      /\ k["request_boundary_rejected"] = Cardinality(Of({"BOUNDARY"}))
      /\ k["accepted"] = Cardinality(Of({"ACCEPTED"}))
  <2>1. /\ CountedBy["setup_evaluated"] = Eligible \cup {"INELIGIBLE"}
        /\ CountedBy["setup_not_ready"] = {"NOT_READY"} /\ CountedBy["source_error"] = {}
        /\ CountedBy["trigger_evaluated"] = Evaluated
        /\ CountedBy["trigger_not_ready"] = {"TRIGGER_NOT_READY"}
        /\ CountedBy["setup_eligible"] = Eligible
        /\ CountedBy["trigger_confirmed"] = ConfirmedKinds
        /\ CountedBy["entry_stop_rejected"] = {"ENTRY_STOP"}
        /\ CountedBy["take_profit_rejected"] = {"TAKE_PROFIT"}
        /\ CountedBy["request_boundary_rejected"] = {"BOUNDARY"}
        /\ CountedBy["accepted"] = {"ACCEPTED"}
    BY DEF CountedBy
  <2>2. \A c \in Counters : k[c] = Cardinality(Of(CountedBy[c]))
    OBVIOUS
  <2> HIDE DEF Of
  <2> QED BY <2>1, <2>2, CountersAre
<1>4. \A S, T : S \cap T = {} =>
         /\ Cardinality(Of(S \cup T)) = Cardinality(Of(S)) + Cardinality(Of(T))
         /\ Cardinality(Of(S)) \in Nat /\ Cardinality(Of(T)) \in Nat
  <2> SUFFICES ASSUME NEW S, NEW T, S \cap T = {}
               PROVE  /\ Cardinality(Of(S \cup T)) = Cardinality(Of(S)) + Cardinality(Of(T))
                      /\ Cardinality(Of(S)) \in Nat /\ Cardinality(Of(T)) \in Nat
    OBVIOUS
  <2>1. Of(S \cup T) = Of(S) \cup Of(T) /\ Of(S) \cap Of(T) = {}
    OBVIOUS
  <2>2. IsFiniteSet(Of(S)) /\ IsFiniteSet(Of(T))
    BY <1>2
  <2> HIDE DEF Of
  <2> QED BY <2>1, <2>2, DisjointSets
<1>5. k["setup_evaluated"] + k["setup_not_ready"] + k["source_error"] = Slots
  <2>1. Of((Eligible \cup {"INELIGIBLE"}) \cup {"NOT_READY"}) = 1..Slots
    BY DEF Kinds
  <2>2. Of({}) = {} /\ Cardinality({}) = 0
    BY FS_EmptySet
  <2>3. (Eligible \cup {"INELIGIBLE"}) \cap {"NOT_READY"} = {}
    BY DEF Eligible, Evaluated, ConfirmedKinds
  <2> HIDE DEF Of
  <2> QED BY <1>1, <1>3, <1>4, <2>1, <2>2, <2>3
<1>6. k["trigger_evaluated"] + k["trigger_not_ready"] = k["setup_eligible"]
  <2>1. Evaluated \cap {"TRIGGER_NOT_READY"} = {}
    BY DEF Evaluated, ConfirmedKinds
  <2> HIDE DEF Of
  <2>2. Cardinality(Of(Evaluated \cup {"TRIGGER_NOT_READY"}))
        = Cardinality(Of(Evaluated)) + Cardinality(Of({"TRIGGER_NOT_READY"}))
    BY <2>1, <1>4
  <2> QED BY <1>3, <2>2 DEF Eligible
<1>7. k["trigger_confirmed"] <= k["trigger_evaluated"]
  <2>1. ConfirmedKinds \cap {"NO_TRIGGER"} = {}
    BY DEF ConfirmedKinds
  <2> HIDE DEF Of
  <2>2. /\ Cardinality(Of(ConfirmedKinds \cup {"NO_TRIGGER"}))
           = Cardinality(Of(ConfirmedKinds)) + Cardinality(Of({"NO_TRIGGER"}))
        /\ Cardinality(Of(ConfirmedKinds)) \in Nat /\ Cardinality(Of({"NO_TRIGGER"})) \in Nat
    BY <2>1, <1>4
  <2> QED BY <1>3, <2>2 DEF Evaluated
<1>8. k["entry_stop_rejected"] + k["take_profit_rejected"]
      + k["request_boundary_rejected"] + k["accepted"] = k["trigger_confirmed"]
  <2> DEFINE two == {"ENTRY_STOP"} \cup {"TAKE_PROFIT"}
             three == two \cup {"BOUNDARY"}
  <2>1. /\ {"ENTRY_STOP"} \cap {"TAKE_PROFIT"} = {} /\ two \cap {"BOUNDARY"} = {}
        /\ three \cap {"ACCEPTED"} = {} /\ ConfirmedKinds = three \cup {"ACCEPTED"}
    BY DEF ConfirmedKinds
  <2> HIDE DEF Of
  <2>2. /\ Cardinality(Of(two)) = Cardinality(Of({"ENTRY_STOP"})) + Cardinality(Of({"TAKE_PROFIT"}))
        /\ Cardinality(Of({"ENTRY_STOP"})) \in Nat /\ Cardinality(Of({"TAKE_PROFIT"})) \in Nat
    BY <2>1, <1>4
  <2> HIDE DEF two
  <2>3. /\ Cardinality(Of(three)) = Cardinality(Of(two)) + Cardinality(Of({"BOUNDARY"}))
        /\ Cardinality(Of(two)) \in Nat /\ Cardinality(Of({"BOUNDARY"})) \in Nat
    BY <2>1, <1>4
  <2> HIDE DEF three
  <2>4. /\ Cardinality(Of(ConfirmedKinds)) = Cardinality(Of(three)) + Cardinality(Of({"ACCEPTED"}))
        /\ Cardinality(Of(three)) \in Nat /\ Cardinality(Of({"ACCEPTED"})) \in Nat
    BY <2>1, <1>4
  <2> QED BY <1>3, <2>2, <2>3, <2>4
<1> QED BY <1>5, <1>6, <1>7, <1>8 DEF Balanced

\* The counts of a sound checkpoint are balanced.
LEMMA SoundBalances ==
  ASSUME Typed, NEW b \in Bindings, NEW s \in Symbols, NEW y \in Payloads, Sound(b, s, y)
  PROVE  Balanced(y.counts)
<1>1. CASE Whole(b, s, y)
  <2>1. PICK v \in Versions : Scanned(b[2], v, s, Slots, y)
    BY <1>1 DEF Whole
  <2> DEFINE f == market[b[2]][v][s]
  <2>2. b[2] \in Candidates
    BY DEF Bindings
  <2>3. \A i \in 1..Slots : f[i] \in Kinds \ {"RAISES"}
    BY <2>1, <2>2, MarketType DEF Scanned
  <2>4. \A c \in Counters : y.counts[c] = Cardinality({i \in 1..Slots : f[i] \in CountedBy[c]})
    BY <2>1 DEF Scanned, CountUpTo
  <2> HIDE DEF f
  <2> QED BY <2>3, <2>4, CountsBalance
<1>2. CASE Failed(b, y)
  <2>1. \A c \in Counters : y.counts[c] = IF c = "source_error" THEN Slots ELSE 0
    BY <1>2 DEF Failed, NoCounts
  <2>2. Slots \in Nat
    BY ScanAssumption
  <2> QED BY <2>1, <2>2, CountersAre DEF Balanced
<1>3. y # None
  BY NoneAssumption
<1> QED BY <1>1, <1>2, <1>3 DEF Sound

\* A total over the symbols.
LEMMA TotalIs ==
  ASSUME NEW merged \in [Symbols -> Payloads], NEW c \in Counters
  PROVE  /\ Total(merged, c) = SumFunctionOnSet([s \in Symbols |-> merged[s].counts[c]], Symbols)
         /\ \A s \in Symbols : merged[s].counts[c] \in Nat
<1>1. \A s \in Symbols : merged[s].counts[c] \in Nat
  BY DEF Payloads
<1>2. DOMAIN [s \in Symbols |-> merged[s].counts[c]] = Symbols
  OBVIOUS
<1> QED BY <1>1, <1>2 DEF Total, SumFunction


LEMMA SumsOfSymbols ==
  ASSUME NEW f \in [Symbols -> Nat], NEW g \in [Symbols -> Nat]
  PROVE  /\ SumFunctionOnSet([s \in Symbols |-> f[s] + g[s]], Symbols)
            = SumFunctionOnSet(f, Symbols) + SumFunctionOnSet(g, Symbols)
         /\ SumFunctionOnSet(f, Symbols) \in Nat /\ SumFunctionOnSet(g, Symbols) \in Nat
<1> DEFINE h == [s \in Symbols |-> f[s] + g[s]]
<1>1. \A s \in Symbols : f[s] \in Int /\ g[s] \in Int /\ h[s] = f[s] + g[s]
  OBVIOUS
<1> HIDE DEF h
<1>2. SumFunctionOnSet(h, Symbols) = SumFunctionOnSet(f, Symbols) + SumFunctionOnSet(g, Symbols)
  BY <1>1, SymbolsAreFinite, SumOfSums
<1>3. SumFunctionOnSet(f, Symbols) \in Nat /\ SumFunctionOnSet(g, Symbols) \in Nat
  BY SymbolsAreFinite, SumOfNaturals
<1> QED BY <1>2, <1>3 DEF h

\* A report of sound checkpoints is never refused.
LEMMA FunnelIsValid ==
  ASSUME NEW merged \in [Symbols -> Payloads], \A s \in Symbols : Balanced(merged[s].counts)
  PROVE  ValidFunnel(Slots * Len(SymbolOrder), Report(merged).funnel)
<1> DEFINE F(c) == [s \in Symbols |-> merged[s].counts[c]]
           Sum(f) == SumFunctionOnSet(f, Symbols)
           Plus(f, g) == [s \in Symbols |-> f[s] + g[s]]
<1>1. \A c \in Counters : /\ F(c) \in [Symbols -> Nat] /\ Sum(F(c)) \in Nat
                          /\ Report(merged).funnel[c] = Sum(F(c))
  <2>1. \A c \in Counters : Total(merged, c) = Sum(F(c)) /\ F(c) \in [Symbols -> Nat]
    BY TotalIs
  <2>2. \A c \in Counters : Report(merged).funnel[c] = Total(merged, c)
    BY DEF Report
  <2> HIDE DEF F
  <2>3. \A c \in Counters : Sum(F(c)) \in Nat
    BY <2>1, SumsOfSymbols
  <2> QED BY <2>1, <2>2, <2>3
<1>2. \A f, g \in [Symbols -> Nat] : /\ Plus(f, g) \in [Symbols -> Nat]
                                     /\ Sum(Plus(f, g)) = Sum(f) + Sum(g)
                                     /\ Sum(f) \in Nat /\ Sum(g) \in Nat
  BY SumsOfSymbols
<1>3. \A c \in Counters : \A s \in Symbols : F(c)[s] = merged[s].counts[c]
  OBVIOUS
<1>4. /\ Slots \in Nat /\ Cardinality(Symbols) = Len(SymbolOrder) /\ IsFiniteSet(Symbols)
      /\ Len(SymbolOrder) \in Nat
  BY ScanAssumption, SymbolsAreFinite, OrderOfSymbols
<1>5. Sum(F("setup_evaluated")) + Sum(F("setup_not_ready")) + Sum(F("source_error"))
      = Slots * Len(SymbolOrder)
  <2> DEFINE f == Plus(Plus(F("setup_evaluated"), F("setup_not_ready")), F("source_error"))
  <2>1. \A s \in Symbols : f[s] = Slots
    BY <1>3, CountersAre DEF Balanced
  <2> HIDE DEF F, Plus
  <2>2. /\ Plus(F("setup_evaluated"), F("setup_not_ready")) \in [Symbols -> Nat]
        /\ Sum(Plus(F("setup_evaluated"), F("setup_not_ready")))
           = Sum(F("setup_evaluated")) + Sum(F("setup_not_ready"))
    BY <1>1, <1>2, CountersAre
  <2>3. Sum(f) = Sum(F("setup_evaluated")) + Sum(F("setup_not_ready")) + Sum(F("source_error"))
    BY <1>1, <1>2, <2>2, CountersAre
  <2> HIDE DEF f
  <2>4. Sum(f) = Slots * Cardinality(Symbols)
    BY <1>4, <2>1, SumOfEquals
  <2> QED BY <1>4, <2>3, <2>4
<1>6. Sum(F("trigger_evaluated")) + Sum(F("trigger_not_ready")) = Sum(F("setup_eligible"))
  <2>1. Plus(F("trigger_evaluated"), F("trigger_not_ready")) = F("setup_eligible")
    BY <1>3, CountersAre DEF Balanced
  <2> HIDE DEF F, Plus
  <2> QED BY <1>1, <1>2, <2>1, CountersAre
<1>7. Sum(F("trigger_confirmed")) <= Sum(F("trigger_evaluated"))
  <2> DEFINE rest == [s \in Symbols |-> merged[s].counts["trigger_evaluated"]
                                        - merged[s].counts["trigger_confirmed"]]
  <2>1. \A s \in Symbols : /\ merged[s].counts["trigger_evaluated"] \in Nat
                           /\ merged[s].counts["trigger_confirmed"] \in Nat
    BY CountersAre DEF Payloads
  <2>2. \A s \in Symbols : merged[s].counts["trigger_confirmed"] <= merged[s].counts["trigger_evaluated"]
    BY DEF Balanced
  <2>3. rest \in [Symbols -> Nat]
    BY <2>1, <2>2
  <2>4. Plus(F("trigger_confirmed"), rest) = F("trigger_evaluated")
    BY <2>1, <1>3, CountersAre
  <2> HIDE DEF F, Plus, rest
  <2> QED BY <1>1, <1>2, <2>3, <2>4, CountersAre
<1>8. Sum(F("entry_stop_rejected")) + Sum(F("take_profit_rejected"))
      + Sum(F("request_boundary_rejected")) + Sum(F("accepted")) = Sum(F("trigger_confirmed"))
  <2> DEFINE two == Plus(F("entry_stop_rejected"), F("take_profit_rejected"))
             three == Plus(two, F("request_boundary_rejected"))
  <2>1. Plus(three, F("accepted")) = F("trigger_confirmed")
    BY <1>3, CountersAre DEF Balanced
  <2> HIDE DEF F, Plus
  <2>2. two \in [Symbols -> Nat]
        /\ Sum(two) = Sum(F("entry_stop_rejected")) + Sum(F("take_profit_rejected"))
    BY <1>1, <1>2, CountersAre
  <2> HIDE DEF two
  <2>3. three \in [Symbols -> Nat] /\ Sum(three) = Sum(two) + Sum(F("request_boundary_rejected"))
    BY <1>1, <1>2, <2>2, CountersAre
  <2> HIDE DEF three
  <2>4. Sum(Plus(three, F("accepted"))) = Sum(three) + Sum(F("accepted"))
    BY <1>1, <1>2, <2>3, CountersAre
  <2> QED BY <2>1, <2>2, <2>3, <2>4
<1>9. ValidFunnel(Slots * Len(SymbolOrder), Report(merged).funnel)
      <=> /\ Slots * Len(SymbolOrder) = Sum(F("setup_evaluated")) + Sum(F("setup_not_ready"))
                                        + Sum(F("source_error"))
          /\ Sum(F("trigger_evaluated")) + Sum(F("trigger_not_ready")) = Sum(F("setup_eligible"))
          /\ Sum(F("trigger_confirmed")) <= Sum(F("trigger_evaluated"))
          /\ Sum(F("trigger_confirmed"))
             = Sum(F("entry_stop_rejected")) + Sum(F("take_profit_rejected"))
               + Sum(F("request_boundary_rejected")) + Sum(F("accepted"))
  <2> HIDE DEF F, Sum
  <2> QED BY <1>1, CountersAre DEF ValidFunnel
<1> HIDE DEF F, Sum
<1> QED BY <1>1, <1>5, <1>6, <1>7, <1>8, <1>9

-----------------------------------------------------------------------------
(* The report *)

\* A run that is through has merged every symbol, from the disk.
LEMMA MergedIsOnDisk ==
  ASSUME ScanInv, NEW p \in Procs, run[p].pc \in Scanning,
         run[p].position = Len(SymbolOrder) + 1
  PROVE  /\ Binding(p) \in Bindings /\ run[p].merged = checkpoints[Binding(p)]
         /\ run[p].merged \in [Symbols -> Payloads] /\ Done(run[p]) = Symbols
         /\ \A s \in Symbols : checkpoints[Binding(p)][s] # None
                               /\ Sound(Binding(p), s, run[p].merged[s])
<1> DEFINE r == run[p]
           b == Binding(p)
<1>1. /\ r.merged \in [Symbols -> Payloads \cup {None}] /\ Merged(r)
      /\ b \in Bindings /\ b = BindingOf(r) /\ Done(r) \subseteq Symbols
  BY RunFacts DEF ScanInv, RunOk
<1>2. Done(r) = Symbols
  <2>1. Len(SymbolOrder) \in Nat /\ r.position - 1 = Len(SymbolOrder)
    BY OrderOfSymbols
  <2> QED BY <2>1, OrderOfSymbols DEF Done
<1>3. \A s \in Symbols : checkpoints[b][s] # None /\ r.merged[s] = checkpoints[b][s]
  BY <1>1, <1>2 DEF Merged
<1>4. checkpoints[b] \in [Symbols -> Payloads \cup {None}]
  BY <1>1 DEF ScanInv, Typed, TypeOK
<1>5. r.merged = checkpoints[b]
  BY <1>1, <1>3, <1>4
<1>6. r.merged \in [Symbols -> Payloads]
  BY <1>1, <1>3
<1>7. \A s \in Symbols : Sound(b, s, r.merged[s])
  BY <1>1, <1>3 DEF ScanInv, DiskOk
<1> QED BY <1>1, <1>2, <1>3, <1>5, <1>6, <1>7

LEMMA FinishHolds ==
  ASSUME ScanInv, NEW p \in Procs, Finish(p)
  PROVE  /\ ScanInv' /\ run' = [run EXCEPT ![p] = [run[p] EXCEPT !.pc = "DONE"]]
         /\ reports' = reports \cup {[binding |-> Binding(p), report |-> Report(run[p].merged)]}
<1> DEFINE r == run[p]
           new == [r EXCEPT !.pc = "DONE"]
<1>1. /\ r.pc = "OPEN" /\ r.position > Len(SymbolOrder)
      /\ UNCHANGED << market, source, checkpoints >>
  BY DEF Finish
<1>2. r.pc \in Scanning /\ source' \in Versions
  BY <1>1 DEF Scanning, ScanInv, Typed, TypeOK
<1>3. /\ Working(r) /\ r \in RunType /\ RunOk(r) /\ r.position \in 1..Len(SymbolOrder) + 1
  BY <1>2, RunFacts DEF ScanInv
<1>4. r.position = Len(SymbolOrder) + 1
  BY <1>1, <1>3, OrderOfSymbols
<1>5. /\ Binding(p) \in Bindings /\ r.merged = checkpoints[Binding(p)]
      /\ r.merged \in [Symbols -> Payloads]
      /\ \A s \in Symbols : checkpoints[Binding(p)][s] # None /\ Sound(Binding(p), s, r.merged[s])
  BY <1>2, <1>4, MergedIsOnDisk
<1>6. \A s \in Symbols : Balanced(r.merged[s].counts)
  BY <1>5, SoundBalances DEF ScanInv
<1>7. ValidFunnel(Slots * Len(SymbolOrder), Report(r.merged).funnel)
  BY <1>5, <1>6, FunnelIsValid
<1>8. run' = [run EXCEPT ![p] = new]
      /\ reports' = reports \cup {[binding |-> Binding(p), report |-> Report(r.merged)]}
  BY <1>7 DEF Finish, Set
<1>9. "DONE" \in Scanning
  BY DEF Scanning
<1>10. /\ new \in RunType /\ new.pc = "DONE" /\ new.mode = r.mode /\ new.candidate = r.candidate
       /\ new.version = r.version /\ new.position = r.position /\ new.merged = r.merged
       /\ new.sink = r.sink
  BY <1>3, <1>9 DEF RunType
<1> HIDE DEF new
<1>11. Working(new)
  BY <1>2, <1>3, <1>4, <1>10 DEF Working
<1>12. Moves(p, new) /\ ~Refuses(new)
  BY <1>8, <1>10, <1>11 DEF Moves, Refuses
<1>13. checkpoints' \in [Bindings -> [Symbols -> Payloads \cup {None}]]
  BY <1>1 DEF ScanInv, Typed, TypeOK
<1>14. Grows /\ checkpoints' = checkpoints
  BY <1>1 DEF Grows
<1>15. Typed' /\ run'[p] = new /\ \A q \in Procs \ {p} : run'[q] = run[q]
  BY <1>1, <1>2, <1>12, <1>13, TypesHold DEF ScanInv
<1>16. DiskOk'
  BY <1>14, DiskHolds DEF ScanInv
<1>17. ASSUME NEW q \in Procs PROVE (RunOk(run[q]) /\ ~Refuses(run[q]))'
  <2>1. CASE q = p
    <3>1. Merged(r) /\ SinkOk(r)
      BY <1>2, <1>3 DEF RunOk
    <3>2. Merged(new) /\ Partly(new) /\ Done(new) = Done(r)
      BY <3>1, <1>10 DEF Merged, Partly, Done, BindingOf
    <3>3. Live(new) = {} /\ Live(r) = {}
      BY <1>1, <1>10 DEF Live
    <3>4. SinkOk(new)
      BY <1>1, <1>10, <3>1, <3>2, <3>3 DEF SinkOk
    <3>5. RunOk(new)
      BY <3>2, <3>4 DEF RunOk
    <3>6. RunOk(run[p])'
      BY <3>5, <1>1, <1>15 DEF RunOk, Merged, Partly, Scanned, CountUpTo, SinkOk
    <3> QED BY <2>1, <3>6, <1>12, <1>15 DEF Refuses
  <2>2. CASE q # p
    <3>1. run'[q] = run[q] /\ RunOk(run[q]) /\ ~Refuses(run[q])
      BY <1>15, <2>2 DEF ScanInv
    <3> QED BY <3>1, <1>14, OthersHold DEF ScanInv, Refuses
  <2> QED BY <2>1, <2>2
<1>18. ReportsOk'
  <2> SUFFICES ASSUME NEW a \in reports'
               PROVE  /\ a.binding \in Bindings
                      /\ \A s \in Symbols : checkpoints'[a.binding][s] # None
                      /\ a.report = Report(checkpoints'[a.binding])
    BY DEF ReportsOk
  <2>1. CASE a \in reports
    BY <2>1, <1>14, <1>15, ReportsHold DEF ScanInv
  <2>2. CASE a = [binding |-> Binding(p), report |-> Report(r.merged)]
    BY <2>2, <1>1, <1>5
  <2> QED BY <2>1, <2>2, <1>8
<1>19. ScanInv'
  BY <1>15, <1>16, <1>17, <1>18 DEF ScanInv
<1> QED BY <1>8, <1>19 DEF new

-----------------------------------------------------------------------------
(* The scan under its consumers *)

LEMMA ScanStepHolds ==
  ASSUME ScanInv, NEW p \in Procs, ScanStep(p)
  PROVE  ScanInv'
<1>1. CASE Restore(p)
  BY <1>1, RestoreHolds
<1>2. CASE RestoreFails(p)
  <2> DEFINE raised == [run[p] EXCEPT !.pc = "RAISED"]
  <2>1. /\ run' = [run EXCEPT ![p] = raised] /\ UNCHANGED << market, checkpoints, reports >>
        /\ source' = source
    BY <1>2 DEF RestoreFails, Raise, Set
  <2>2. "RAISED" \in Stopped /\ run[p] \in RunType /\ source \in Versions
    BY DEF Stopped, ScanInv, Typed, TypeOK
  <2>3. raised \in RunType /\ raised.pc = "RAISED"
    BY <2>2 DEF RunType
  <2> HIDE DEF raised
  <2> QED BY <2>1, <2>2, <2>3, QuitHolds
<1>3. CASE Load(p)
  BY <1>3, LoadHolds
<1>4. CASE LoadFails(p)
  <2>1. "UNREADABLE" \in Errors
    BY DEF Errors
  <2> QED BY <1>4, <2>1, FailHolds DEF LoadFails, Opening
<1>5. CASE Slot(p)
  BY <1>5, SlotHolds
<1>6. CASE SlotRaises(p)
  <2>1. "SLOT" \in Errors /\ run[p].pc = "SCAN"
    BY <1>6 DEF Errors, SlotRaises
  <2>2. run[p].pc \in Scanning /\ Working(run[p])
    BY <2>1 DEF Scanning, ScanInv, Typed
  <2>3. run[p].position \in 1..Len(SymbolOrder)
    BY <2>1, <2>2 DEF Working
  <2>4. run[p].position <= Len(SymbolOrder)
    BY <2>3, OrderOfSymbols
  <2> QED BY <1>6, <2>1, <2>4, FailHolds DEF SlotRaises
<1>7. CASE Save(p)
  BY <1>7, SaveHolds
<1>8. CASE Finish(p)
  BY <1>8, FinishHolds
<1> QED BY <1>1, <1>2, <1>3, <1>4, <1>5, <1>6, <1>7, <1>8 DEF ScanStep

\* A run begins with nothing merged.
LEMMA StartHolds ==
  ASSUME ScanInv, NEW p \in Procs, NEW mode \in Modes, NEW candidate \in Candidates,
         Start(p, mode, candidate)
  PROVE  ScanInv'
<1> DEFINE new == [Idle EXCEPT !.pc = "OPEN", !.mode = mode, !.candidate = candidate,
                               !.version = source, !.position = 1]
<1>1. run' = [run EXCEPT ![p] = new] /\ UNCHANGED << market, source, checkpoints, reports >>
  BY DEF Start, Set
<1>2. source \in Versions /\ source' \in Versions /\ run'[p] = new
  BY <1>1 DEF ScanInv, Typed, TypeOK
<1>3. /\ Idle.slot = 0 /\ Idle.local = EmptyLocal /\ Idle.error = None /\ Idle.sink = << >>
      /\ Idle.merged = [s \in Symbols |-> None] /\ Idle \in RunType
  BY EmptyIsTyped DEF Idle
<1>4. /\ new.pc = "OPEN" /\ new.mode = mode /\ new.candidate = candidate /\ new.version = source
      /\ new.position = 1 /\ new.slot = 0 /\ new.local = EmptyLocal /\ new.error = None
      /\ new.sink = << >>
  BY DEF Idle
<1>5. new \in RunType
  <2>1. /\ "OPEN" \in Scanning \cup Stopped \cup {"REFUSED"} /\ 1 \in Nat
        /\ mode \in Modes \cup {None} /\ candidate \in Candidates \cup {None}
        /\ source \in Versions \cup {None}
    BY <1>2 DEF Scanning
  <2>2. ASSUME NEW r \in RunType
        PROVE  [r EXCEPT !.pc = "OPEN", !.mode = mode, !.candidate = candidate,
                         !.version = source, !.position = 1] \in RunType
    BY <2>1 DEF RunType
  <2> QED BY <1>3, <2>2
<1> HIDE DEF new
<1>6. Working(new)
  <2>1. Len(SymbolOrder) \in Nat
    BY OrderOfSymbols
  <2>2. 1 \in 1..Len(SymbolOrder) + 1
    BY <2>1
  <2> QED BY <1>2, <1>4, <2>2 DEF Working
<1>7. Done(new) = {} /\ Live(new) = {}
  BY <1>4 DEF Done, Live
<1>8. RunOk(new)
  <2>1. IsInjective(<< >>) /\ Range(<< >>) = {}
    BY DEF IsInjective, Range
  <2> QED BY <1>4, <1>7, <2>1 DEF RunOk, Merged, Partly, SinkOk
<1>9. RunOk(run[p])'
  BY <1>8, <1>1, <1>2 DEF RunOk, Merged, Partly, Scanned, CountUpTo, SinkOk
<1>10. Grows /\ ~Refuses(new) /\ Moves(p, new)
       /\ checkpoints' \in [Bindings -> [Symbols -> Payloads \cup {None}]]
  BY <1>1, <1>4, <1>5, <1>6 DEF Grows, Refuses, Moves, ScanInv, Typed, TypeOK
<1>11. checkpoints' = checkpoints /\ reports' = reports
  BY <1>1
<1> QED BY <1>2, <1>9, <1>10, <1>11, StepHolds

\* A step that only ends a run or changes its pc after the scan.
Quits(p) ==
  /\ UNCHANGED << market, source, checkpoints, reports >>
  /\ \/ run' = [run EXCEPT ![p] = Idle]
     \/ \E pc \in Stopped : run' = [run EXCEPT ![p] = [run[p] EXCEPT !.pc = pc]]

LEMMA QuitsHolds ==
  ASSUME ScanInv, NEW p \in Procs, Quits(p)
  PROVE  ScanInv'
<1>1. source' \in Versions /\ UNCHANGED << market, checkpoints, reports >> /\ run[p] \in RunType
  BY DEF Quits, ScanInv, Typed, TypeOK
<1>2. CASE run' = [run EXCEPT ![p] = Idle]
  <2>1. Idle \in RunType /\ Idle.pc \in Stopped
    BY EmptyIsTyped DEF Idle, Stopped
  <2> QED BY <1>1, <1>2, <2>1, QuitHolds
<1>3. ASSUME NEW pc \in Stopped, run' = [run EXCEPT ![p] = [run[p] EXCEPT !.pc = pc]]
      PROVE  ScanInv'
  <2> DEFINE new == [run[p] EXCEPT !.pc = pc]
  <2>1. new \in RunType /\ new.pc = pc
    BY <1>1 DEF RunType
  <2> HIDE DEF new
  <2>2. run' = [run EXCEPT ![p] = new]
    BY <1>3 DEF new
  <2> QED BY <1>1, <1>3, <2>1, <2>2, QuitHolds
<1> QED BY <1>2, <1>3 DEF Quits

\* What a process does besides scanning.
LEMMA ConsumersQuit ==
  ASSUME NEW p \in Procs,
         \/ RefuseCandidate(p) \/ Judge(p) \/ WriteLedger(p) \/ OpenReconciliation(p)
         \/ CloseReconciliation(p) \/ CompareReconciliation(p) \/ Exit(p) \/ KillProcess(p)
  PROVE  Quits(p)
BY DEF Quits, Stopped, RefuseCandidate, Judge, Publish, WriteLedger, OpenReconciliation,
       CloseReconciliation, CompareReconciliation, Exit, KillProcess, Kill, Set, Raise,
       LedgerStep, SetFile

\* What touches neither the disk nor the runs.
LEMMA QuietHolds ==
  ASSUME ScanInv, source' \in Versions, UNCHANGED << market, checkpoints, run, reports >>
  PROVE  ScanInv'
<1>1. Grows /\ checkpoints' = checkpoints
  BY DEF Grows
<1>2. Typed'
  <2>1. TypeOK'
    BY DEF ScanInv, Typed, TypeOK
  <2>2. \A q \in Procs : Working(run'[q])
    BY DEF ScanInv, Typed
  <2>3. (\A q \in Procs : Working(run[q]))'
    BY <2>2 DEF Working
  <2> QED BY <2>1, <2>3 DEF Typed
<1>3. DiskOk'
  BY <1>1, DiskHolds DEF ScanInv
<1>4. ASSUME NEW q \in Procs PROVE (RunOk(run[q]) /\ ~Refuses(run[q]))'
  <2>1. run'[q] = run[q] /\ RunOk(run[q]) /\ ~Refuses(run[q])
    BY DEF ScanInv
  <2> QED BY <2>1, <1>1, OthersHold DEF ScanInv, Refuses
<1>5. ReportsOk'
  BY <1>1, <1>2, ReportsHold DEF ScanInv, ReportsOk
<1> QED BY <1>2, <1>3, <1>4, <1>5 DEF ScanInv

\* Every step of the scan and of its consumers.
LEMMA ScanInvNext == ScanInv /\ [Next]_vars => ScanInv'
<1> SUFFICES ASSUME ScanInv, [Next]_vars PROVE ScanInv'
  OBVIOUS
<1>1. ASSUME NEW p \in Procs, ScanStep(p) PROVE ScanInv'
  BY <1>1, ScanStepHolds
<1>2. ASSUME NEW p \in Procs, Quits(p) PROVE ScanInv'
  BY <1>2, QuitsHolds
<1>3. ASSUME NEW p \in Procs, BeginLedger(p) PROVE ScanInv'
  <2>1. "UNBOUND" \in Modes /\ Baseline \in Candidates
    BY ConsumerAssumption DEF Modes
  <2> QED BY <1>3, <2>1, StartHolds DEF BeginLedger
<1>4. ASSUME NEW p \in Procs, NEW candidate \in Candidates, BeginStageA(p, candidate) PROVE ScanInv'
  <2>1. "BOUND" \in Modes
    BY DEF Modes
  <2> QED BY <1>4, <2>1, StartHolds DEF BeginStageA
<1>5. CASE ChangeSources
  <2>1. /\ source' \in Versions /\ UNCHANGED << market, checkpoints, run, reports >>
    BY <1>5 DEF ChangeSources
  <2> QED BY <2>1, QuietHolds
<1>6. CASE UNCHANGED vars
  <2>1. /\ source' \in Versions /\ UNCHANGED << market, checkpoints, run, reports >>
    BY <1>6 DEF vars, scanVars, ScanInv, Typed, TypeOK
  <2> QED BY <2>1, QuietHolds
<1> QED BY <1>1, <1>2, <1>3, <1>4, <1>5, <1>6, ConsumersQuit DEF Next, Process

LEMMA ScanInvInit == Init => ScanInv
<1> SUFFICES ASSUME Init PROVE ScanInv
  OBVIOUS
<1>1. /\ market \in Markets /\ source = 0 /\ reports = {} /\ run = [p \in Procs |-> Idle]
      /\ checkpoints = [b \in Bindings |-> [s \in Symbols |-> None]]
  BY DEF Init, ScanInit, Bindings
<1>2. Idle \in RunType /\ Idle.pc = "IDLE"
  BY EmptyIsTyped DEF Idle
<1>3. TypeOK
  BY <1>1, <1>2, ScanAssumption DEF TypeOK
<1>4. \A p \in Procs : Working(run[p]) /\ RunOk(run[p]) /\ ~Refuses(run[p])
  BY <1>1, <1>2 DEF Working, RunOk, Refuses, Scanning
<1>5. DiskOk
  BY <1>1 DEF DiskOk, Sound
<1> QED BY <1>1, <1>3, <1>4, <1>5 DEF ScanInv, Typed, ReportsOk

\* Whatever is killed, fails or changes, what is on the disk and in the memory
\* of every run is what the slots decide.
THEOREM ScanIsSound == Spec => []ScanInv
BY ScanInvInit, ScanInvNext, PTL DEF Spec

\* One report per binding.
THEOREM ReportsAlwaysAgree == Spec => []ReportsAgree
<1>1. ScanInv => ReportsAgree
  BY DEF ScanInv, ReportsOk, ReportsAgree
<1> QED BY <1>1, ScanIsSound, PTL

\* The sink of a whole scan has every confirmed trigger once.
THEOREM SinkIsAlwaysComplete == Spec => []SinkIsComplete
<1>1. ScanInv => SinkIsComplete
  <2> SUFFICES ASSUME ScanInv, NEW p \in Procs, run[p].pc = "DONE",
                      Report(run[p].merged).status = "COMPLETE"
               PROVE  /\ IsInjective(run[p].sink)
                      /\ Range(run[p].sink) = UNION {Range(run[p].merged[s].confirmed) : s \in Symbols}
    BY DEF SinkIsComplete
  <2>1. run[p].pc \in Scanning /\ Working(run[p])
    BY DEF Scanning, ScanInv, Typed
  <2>2. run[p].position = Len(SymbolOrder) + 1
    BY <2>1 DEF Working
  <2>3. Done(run[p]) = Symbols /\ SinkOk(run[p])
    BY <2>1, <2>2, MergedIsOnDisk DEF ScanInv, RunOk
  <2>4. \A s \in Symbols : run[p].merged[s].anomaly = None
    BY DEF Report
  <2> QED BY <2>3, <2>4 DEF SinkOk, Live
<1> QED BY <1>1, ScanIsSound, PTL

-----------------------------------------------------------------------------
(* The gate *)

\* The counts of a bound run that is through are those of the sources it names.
LEMMA BoundCounts ==
  ASSUME ScanInv, NEW p \in Procs, run[p].pc = "DONE", Bound(p), NEW c \in Counters
  PROVE  Report(run[p].merged).funnel[c]
         = SumFunction([s \in Symbols |-> SlotsOf(c, run[p].candidate, run[p].version, s)])
<1> DEFINE merged == run[p].merged
           f == [s \in Symbols |-> merged[s].counts[c]]
           g == [s \in Symbols |-> SlotsOf(c, run[p].candidate, run[p].version, s)]
<1>1. run[p].pc \in Scanning /\ Working(run[p])
  BY DEF Scanning, ScanInv, Typed
<1>2. run[p].position = Len(SymbolOrder) + 1
  BY <1>1 DEF Working
<1>3. /\ merged \in [Symbols -> Payloads]
      /\ \A s \in Symbols : Sound(Binding(p), s, merged[s])
  BY <1>1, <1>2, MergedIsOnDisk
<1>4. ASSUME NEW s \in Symbols
      PROVE  merged[s].counts[c] = SlotsOf(c, run[p].candidate, run[p].version, s)
  <2>1. merged[s] # None /\ Binding(p)[1] = "BOUND" /\ Binding(p)[2] = run[p].candidate
        /\ Binding(p)[3] = run[p].version
    BY <1>3, NoneAssumption DEF Binding, Bound
  <2>2. Whole(Binding(p), s, merged[s])
    BY <1>3, <2>1 DEF Sound, Failed
  <2>3. Scanned(run[p].candidate, run[p].version, s, Slots, merged[s])
    BY <2>1, <2>2 DEF Whole
  <2> QED BY <2>3 DEF Scanned, CountUpTo, SlotsOf
<1>5. f = g
  BY <1>4
<1>6. Report(merged).funnel[c] = SumFunction(f)
  BY DEF Report, Total
<1> QED BY <1>5, <1>6

\* Open artifacts, and the gate of a candidate that is through.
GateInv ==
  /\ gate \in [Procs -> artifacts \cup {None}]
  /\ \A p \in Procs : run[p].pc = "DONE" /\ NeedsGate(p) => CompatibleGate(p)
  /\ GateOpensOnTheBaseline

\* A scan keeps its binding, and is through only by Finish.
LEMMA OnlyFinishEnds ==
  ASSUME ScanInv, NEW p \in Procs, ScanStep(p)
  PROVE  /\ \A q \in Procs \ {p} : run'[q] = run[q]
         /\ run'[p].mode = run[p].mode /\ run'[p].candidate = run[p].candidate
         /\ run'[p].version = run[p].version
         /\ run'[p].pc \in {"OPEN", "SCAN", "SAVE", "RAISED", "DONE"}
         /\ run'[p].pc = "DONE" => Finish(p)
<1>1. run \in [Procs -> RunType] /\ run[p] \in RunType
  BY DEF ScanInv, Typed, TypeOK
<1> DEFINE Kept(pcs) ==
             /\ \A q \in Procs \ {p} : run'[q] = run[q]
             /\ run'[p].mode = run[p].mode /\ run'[p].candidate = run[p].candidate
             /\ run'[p].version = run[p].version
             /\ run'[p].pc \in pcs
<1>2. ASSUME NEW payload, NEW sink, NextSymbol(p, payload, sink) PROVE Kept({"OPEN"})
  BY <1>1, <1>2 DEF NextSymbol, Set, RunType
<1>3. ASSUME Raise(p) PROVE Kept({"RAISED"})
  BY <1>1, <1>3 DEF Raise, Set, RunType
<1>4. ASSUME NEW error, Fail(p, error) PROVE Kept({"RAISED", "SAVE"})
  <2>1. CASE Bound(p)
    BY <1>3, <1>4, <2>1 DEF Fail
  <2>2. CASE ~Bound(p)
    <3>1. run' = [run EXCEPT ![p] = [run[p] EXCEPT !.pc = "SAVE", !.error = error]]
      BY <1>4, <2>2 DEF Fail, Set
    <3> QED BY <1>1, <3>1 DEF RunType
  <2> QED BY <2>1, <2>2
<1> DEFINE Going == {"OPEN", "SCAN", "SAVE", "RAISED"}
<1>5. CASE Restore(p)
  BY <1>2, <1>5 DEF Restore
<1>6. CASE RestoreFails(p)
  BY <1>3, <1>6 DEF RestoreFails
<1>7. CASE Load(p)
  <2>1. run' = [run EXCEPT ![p] = [run[p] EXCEPT !.pc = "SCAN", !.read = source]]
    BY <1>7 DEF Load, Set
  <2> QED BY <1>1, <2>1 DEF RunType
<1>8. CASE LoadFails(p)
  BY <1>4, <1>8 DEF LoadFails
<1>9. CASE Slot(p)
  <2>1. PICK n, local, sink :
           run' = [run EXCEPT ![p] = [run[p] EXCEPT !.slot = n, !.local = local, !.sink = sink]]
    BY <1>9 DEF Slot, Set
  <2>2. run[p].pc = "SCAN"
    BY <1>9 DEF Slot
  <2> QED BY <1>1, <2>1, <2>2 DEF RunType
<1>10. CASE SlotRaises(p)
  BY <1>4, <1>10 DEF SlotRaises
<1>11. CASE Save(p)
  BY <1>2, <1>3, <1>11 DEF Save
<1>12. CASE Finish(p)
  <2>1. run' = [run EXCEPT ![p] = [run[p] EXCEPT !.pc = "DONE"]]
    BY <1>12, FinishHolds
  <2> QED BY <1>1, <1>12, <2>1 DEF RunType
<1> QED BY <1>5, <1>6, <1>7, <1>8, <1>9, <1>10, <1>11, <1>12 DEF ScanStep

\* What an open artifact claims stays true.
LEMMA OpenArtifactsStay ==
  ASSUME UNCHANGED << market, trusted >>, GateOpensOnTheBaseline
  PROVE  /\ artifacts' = artifacts => GateOpensOnTheBaseline'
         /\ Report(TrustedMerged)' = Report(TrustedMerged)
         /\ \A c, candidate, v, s : SlotsOf(c, candidate, v, s)' = SlotsOf(c, candidate, v, s)
<1>1. \A s : TrustedPayload(s)' = TrustedPayload(s)
  BY DEF TrustedPayload
<1>2. Report(TrustedMerged)' = Report(TrustedMerged)
  <2>1. TrustedMerged' = TrustedMerged
    BY <1>1 DEF TrustedMerged
  <2> QED BY <2>1
<1>3. \A c, candidate, v, s : SlotsOf(c, candidate, v, s)' = SlotsOf(c, candidate, v, s)
  BY DEF SlotsOf
<1>4. ASSUME artifacts' = artifacts PROVE GateOpensOnTheBaseline'
  BY <1>2, <1>3, <1>4 DEF GateOpensOnTheBaseline
<1> QED BY <1>2, <1>3, <1>4

\* Steps that publish nothing.
LEMMA GateStays ==
  ASSUME ScanInv, GateInv, UNCHANGED << market, trusted, artifacts >>,
         gate' \in [Procs -> artifacts \cup {None}],
         \A p \in Procs : run'[p].pc = "DONE" =>
            /\ run'[p].mode = run[p].mode /\ run'[p].candidate = run[p].candidate
            /\ run'[p].version = run[p].version /\ gate'[p] = gate[p]
            /\ run[p].pc = "DONE" \/ MayScan(p)
  PROVE  GateInv'
<1>1. gate' \in [Procs -> artifacts' \cup {None}]
  OBVIOUS
<1>2. ASSUME NEW p \in Procs, run'[p].pc = "DONE", NeedsGate(p)' PROVE CompatibleGate(p)'
  <2>1. NeedsGate(p)
    BY <1>2 DEF NeedsGate, Bound, IsBaseline
  <2>2. CompatibleGate(p)
    BY <1>2, <2>1 DEF GateInv, MayScan
  <2> QED BY <1>2, <2>2 DEF CompatibleGate
<1>3. GateOpensOnTheBaseline'
  BY OpenArtifactsStay DEF GateInv
<1> QED BY <1>1, <1>2, <1>3 DEF GateInv

\* An artifact is published: an open one is the baseline itself, or has passed
\* the gate of the baseline.
LEMMA JudgeHolds ==
  ASSUME ScanInv, GateInv, NEW p \in Procs, Judge(p)
  PROVE  GateInv'
<1> DEFINE a == IF Accepts(p) THEN Artifact(p, "COMPLETE", TRUE)
                ELSE Artifact(p, "FAILED", ~IsBaseline(p))
<1>1. /\ artifacts' = artifacts \cup {a} /\ run' = [run EXCEPT ![p] = Idle]
      /\ gate' = [gate EXCEPT ![p] = None] /\ UNCHANGED << market, trusted >> /\ Bound(p)
  BY DEF Judge, Publish, Set
<1>2. gate' \in [Procs -> artifacts' \cup {None}]
  BY <1>1 DEF GateInv
<1>3. ASSUME NEW q \in Procs, run'[q].pc = "DONE", NeedsGate(q)' PROVE CompatibleGate(q)'
  <2>1. q # p /\ run'[q] = run[q] /\ gate'[q] = gate[q]
    BY <1>1, <1>3 DEF ScanInv, Typed, TypeOK, Idle, GateInv
  <2>2. NeedsGate(q)
    BY <1>3, <2>1 DEF NeedsGate, Bound, IsBaseline
  <2>3. CompatibleGate(q)
    BY <1>3, <2>1, <2>2 DEF GateInv
  <2> QED BY <2>1, <2>3 DEF CompatibleGate
<1>4. GateOpensOnTheBaseline'
  <2>1. /\ Report(TrustedMerged)' = Report(TrustedMerged)
        /\ \A c, candidate, v, s : SlotsOf(c, candidate, v, s)' = SlotsOf(c, candidate, v, s)
    BY <1>1, OpenArtifactsStay DEF GateInv
  <2> DEFINE Earned(x, set) ==
               /\ \E b \in set : /\ b.open /\ b.binding = << "BOUND", Baseline, x.binding[3] >>
                                 /\ b.funnel = Report(TrustedMerged).funnel
               /\ \A c \in Counters :
                     x.funnel[c] = SumFunction([s \in Symbols |-> SlotsOf(c, x.binding[2], x.binding[3], s)])
  <2>2. \A x \in artifacts : x.open => Earned(x, artifacts)
    BY DEF GateInv, GateOpensOnTheBaseline
  <2>3. ASSUME a.open PROVE Earned(a, artifacts')
    <3>1. Accepts(p)
      BY <2>3 DEF Artifact
    <3>2. /\ run[p].pc = "DONE" /\ a = Artifact(p, "COMPLETE", TRUE)
          /\ IF IsBaseline(p) THEN BaselineEquivalent(p)
                              ELSE ScalePasses(Report(run[p].merged).funnel)
      BY <3>1 DEF Accepts
    <3>3. /\ a.binding = << "BOUND", run[p].candidate, run[p].version >> /\ a.open
          /\ a.funnel = Report(run[p].merged).funnel
      BY <1>1, <3>2 DEF Artifact, Binding, Bound
    <3> HIDE DEF a
    <3>6. a.binding[1] = "BOUND" /\ a.binding[2] = run[p].candidate /\ a.binding[3] = run[p].version
      BY <3>3
    <3>4. \A c \in Counters :
             a.funnel[c] = SumFunction([s \in Symbols |-> SlotsOf(c, a.binding[2], a.binding[3], s)])
      <4> SUFFICES ASSUME NEW c \in Counters
                   PROVE  a.funnel[c] = SumFunction([s \in Symbols |->
                                           SlotsOf(c, a.binding[2], a.binding[3], s)])
        OBVIOUS
      <4>1. a.funnel[c] = SumFunction([s \in Symbols |->
                                          SlotsOf(c, run[p].candidate, run[p].version, s)])
        BY <1>1, <3>2, <3>3, BoundCounts
      <4> QED BY <4>1, <3>6
    <3>5. \E b \in artifacts' : /\ b.open /\ b.binding = << "BOUND", Baseline, a.binding[3] >>
                                /\ b.funnel = Report(TrustedMerged).funnel
      <4>1. CASE IsBaseline(p)
        <5>1. a.binding = << "BOUND", Baseline, a.binding[3] >>
          BY <4>1, <3>3, <3>6 DEF IsBaseline
        <5>2. a.funnel = Report(TrustedMerged).funnel
          BY <4>1, <3>2, <3>3 DEF BaselineEquivalent
        <5> QED BY <5>1, <5>2, <3>3, <1>1
      <4>2. CASE ~IsBaseline(p)
        <5>1. CompatibleGate(p)
          BY <4>2, <1>1, <3>2 DEF GateInv, NeedsGate
        <5>2. gate[p] \in artifacts /\ gate[p].open /\ gate[p].binding[3] = run[p].version
          BY <5>1 DEF GateInv, CompatibleGate
        <5>3. PICK b \in artifacts : /\ b.open /\ b.binding = << "BOUND", Baseline, run[p].version >>
                                     /\ b.funnel = Report(TrustedMerged).funnel
          BY <5>2, <2>2
        <5>4. a.binding[3] = run[p].version
          BY <3>6
        <5> QED BY <5>3, <5>4, <1>1
      <4> QED BY <4>1, <4>2
    <3> QED BY <3>4, <3>5
  <2>4. \A x \in artifacts' : x.open => Earned(x, artifacts')
    <3> SUFFICES ASSUME NEW x \in artifacts', x.open PROVE Earned(x, artifacts')
      OBVIOUS
    <3>1. CASE x \in artifacts
      <4>1. Earned(x, artifacts) /\ artifacts \subseteq artifacts'
        BY <2>2, <3>1, <1>1
      <4> QED BY <4>1
    <3>2. CASE x = a
      BY <2>3, <3>2
    <3> HIDE DEF a
    <3> QED BY <3>1, <3>2, <1>1
  <2> HIDE DEF a
  <2> QED BY <2>1, <2>4 DEF GateOpensOnTheBaseline
<1> QED BY <1>2, <1>3, <1>4 DEF GateInv

LEMMA RefuseHolds ==
  ASSUME ScanInv, GateInv, NEW p \in Procs, RefuseCandidate(p)
  PROVE  GateInv'
<1> DEFINE a == Artifact(p, "FAILED", FALSE)
<1>1. /\ artifacts' = artifacts \cup {a} /\ run' = [run EXCEPT ![p] = Idle]
      /\ gate' = [gate EXCEPT ![p] = None] /\ UNCHANGED << market, trusted >>
  BY DEF RefuseCandidate, Publish, Set
<1>2. ~a.open
  BY DEF Artifact
<1>3. gate' \in [Procs -> artifacts' \cup {None}]
  BY <1>1 DEF GateInv
<1>4. ASSUME NEW q \in Procs, run'[q].pc = "DONE", NeedsGate(q)' PROVE CompatibleGate(q)'
  <2>1. q # p /\ run'[q] = run[q] /\ gate'[q] = gate[q]
    BY <1>1, <1>4 DEF ScanInv, Typed, TypeOK, Idle, GateInv
  <2>2. NeedsGate(q)
    BY <1>4, <2>1 DEF NeedsGate, Bound, IsBaseline
  <2>3. CompatibleGate(q)
    BY <1>4, <2>1, <2>2 DEF GateInv
  <2> QED BY <2>1, <2>3 DEF CompatibleGate
<1>5. GateOpensOnTheBaseline'
  <2>1. /\ Report(TrustedMerged)' = Report(TrustedMerged)
        /\ \A c, candidate, v, s : SlotsOf(c, candidate, v, s)' = SlotsOf(c, candidate, v, s)
    BY <1>1, OpenArtifactsStay DEF GateInv
  <2> HIDE DEF a
  <2>2. \A x \in artifacts' : x.open => x \in artifacts
    BY <1>1, <1>2
  <2>3. artifacts \subseteq artifacts'
    BY <1>1
  <2> DEFINE Earned(x, set) ==
               /\ \E b \in set : /\ b.open /\ b.binding = << "BOUND", Baseline, x.binding[3] >>
                                 /\ b.funnel = Report(TrustedMerged).funnel
               /\ \A c \in Counters :
                     x.funnel[c] = SumFunction([s \in Symbols |-> SlotsOf(c, x.binding[2], x.binding[3], s)])
  <2>4. \A x \in artifacts : x.open => Earned(x, artifacts)
    BY DEF GateInv, GateOpensOnTheBaseline
  <2>5. \A x \in artifacts' : x.open => Earned(x, artifacts')
    BY <2>2, <2>3, <2>4
  <2> QED BY <2>1, <2>5 DEF GateOpensOnTheBaseline
<1> QED BY <1>3, <1>4, <1>5 DEF GateInv

\* Every step keeps the gate.
LEMMA GateInvNext == ScanInv /\ GateInv /\ [Next]_vars => GateInv'
<1> SUFFICES ASSUME ScanInv, GateInv, [Next]_vars PROVE GateInv'
  OBVIOUS
<1>0. run \in [Procs -> RunType] /\ gate \in [Procs -> artifacts \cup {None}]
  BY DEF ScanInv, Typed, TypeOK, GateInv
<1>1. ASSUME NEW p \in Procs, MayScan(p) /\ ScanStep(p) /\ UNCHANGED consumerVars PROVE GateInv'
  <2>1. UNCHANGED << trusted, artifacts, gate >>
    BY <1>1 DEF consumerVars
  <2>2. market' = market
    BY <1>1 DEF ScanStep, Restore, RestoreFails, Load, LoadFails, Slot, SlotRaises, Save, Finish
  <2>3. \A q \in Procs \ {p} : run'[q] = run[q]
    BY <1>1, OnlyFinishEnds
  <2>4. run'[p].pc = "DONE" =>
               run'[p].mode = run[p].mode /\ run'[p].candidate = run[p].candidate
               /\ run'[p].version = run[p].version
    BY <1>1, OnlyFinishEnds
  <2>5. \A q \in Procs : run'[q].pc = "DONE" =>
            /\ run'[q].mode = run[q].mode /\ run'[q].candidate = run[q].candidate
            /\ run'[q].version = run[q].version /\ gate'[q] = gate[q]
            /\ run[q].pc = "DONE" \/ MayScan(q)
    BY <1>1, <2>1, <2>3, <2>4
  <2> QED BY <1>0, <2>1, <2>2, <2>5, GateStays
<1>2. ASSUME NEW p \in Procs, WriteLedger(p) \/ OpenReconciliation(p)
                              \/ CloseReconciliation(p) \/ CompareReconciliation(p) \/ Exit(p)
                              \/ KillProcess(p)
      PROVE  GateInv'
  <2>1. UNCHANGED << market, trusted, artifacts >>
        /\ (gate' = gate \/ gate' = [gate EXCEPT ![p] = None])
    BY <1>2 DEF WriteLedger, OpenReconciliation, CloseReconciliation, CompareReconciliation,
                Exit, KillProcess, Kill, consumerVars, LedgerStep, SetFile
  <2>2. gate' \in [Procs -> artifacts \cup {None}] /\ \A q \in Procs \ {p} : gate'[q] = gate[q]
    BY <1>0, <2>1
  <2>3. (\A q \in Procs \ {p} : run'[q] = run[q]) /\ run'[p].pc # "DONE"
    <3>1. Quits(p)
      BY <1>2, ConsumersQuit
    <3>2. CASE run' = [run EXCEPT ![p] = Idle]
      BY <1>0, <3>2 DEF Idle
    <3>3. ASSUME NEW pc \in Stopped, run' = [run EXCEPT ![p] = [run[p] EXCEPT !.pc = pc]]
          PROVE  (\A q \in Procs \ {p} : run'[q] = run[q]) /\ run'[p].pc # "DONE"
      <4>1. [run[p] EXCEPT !.pc = pc].pc = pc
        BY <1>0 DEF RunType
      <4>2. pc # "DONE"
        BY DEF Stopped
      <4> QED BY <1>0, <3>3, <4>1, <4>2
    <3> QED BY <3>1, <3>2, <3>3 DEF Quits
  <2>4. \A q \in Procs : run'[q].pc = "DONE" =>
            /\ run'[q].mode = run[q].mode /\ run'[q].candidate = run[q].candidate
            /\ run'[q].version = run[q].version /\ gate'[q] = gate[q]
            /\ run[q].pc = "DONE" \/ MayScan(q)
    BY <2>2, <2>3
  <2> QED BY <2>1, <2>2, <2>4, GateStays
<1>3. ASSUME NEW p \in Procs, NEW mode, NEW candidate, Start(p, mode, candidate),
             UNCHANGED << trusted, artifacts >>, gate' \in [Procs -> artifacts \cup {None}],
             \A q \in Procs \ {p} : gate'[q] = gate[q]
      PROVE  GateInv'
  <2>1. (\A q \in Procs \ {p} : run'[q] = run[q]) /\ run'[p].pc = "OPEN" /\ market' = market
    BY <1>0, <1>3 DEF Start, Set, Idle
  <2>2. \A q \in Procs : run'[q].pc = "DONE" =>
            /\ run'[q].mode = run[q].mode /\ run'[q].candidate = run[q].candidate
            /\ run'[q].version = run[q].version /\ gate'[q] = gate[q]
            /\ run[q].pc = "DONE" \/ MayScan(q)
    BY <1>3, <2>1
  <2> QED BY <1>3, <2>1, <2>2, GateStays
<1>4. ASSUME NEW p \in Procs, BeginLedger(p) PROVE GateInv'
  BY <1>0, <1>3, <1>4 DEF BeginLedger, consumerVars
<1>5. ASSUME NEW p \in Procs, NEW candidate \in Candidates, BeginStageA(p, candidate) PROVE GateInv'
  <2>1. PICK g \in artifacts \cup {None} : gate' = [gate EXCEPT ![p] = g]
    BY <1>5 DEF BeginStageA
  <2>2. gate' \in [Procs -> artifacts \cup {None}] /\ \A q \in Procs \ {p} : gate'[q] = gate[q]
    BY <1>0, <2>1
  <2> QED BY <1>3, <1>5, <2>2 DEF BeginStageA
<1>6. ASSUME UNCHANGED << market, trusted, artifacts, run, gate >> PROVE GateInv'
  <2>1. \A q \in Procs : run'[q].pc = "DONE" =>
            /\ run'[q].mode = run[q].mode /\ run'[q].candidate = run[q].candidate
            /\ run'[q].version = run[q].version /\ gate'[q] = gate[q]
            /\ run[q].pc = "DONE" \/ MayScan(q)
    BY <1>6
  <2> QED BY <1>0, <1>6, <2>1, GateStays
<1>7. CASE ChangeSources /\ UNCHANGED consumerVars
  BY <1>6, <1>7 DEF ChangeSources, consumerVars
<1>8. CASE UNCHANGED vars
  BY <1>6, <1>8 DEF vars, scanVars
<1>9. ASSUME NEW p \in Procs, Process(p) PROVE GateInv'
  BY <1>1, <1>2, <1>9, JudgeHolds, RefuseHolds DEF Process
<1>10. ASSUME NEW p \in Procs, KillProcess(p) PROVE GateInv'
  BY <1>2, <1>10
<1> QED BY <1>4, <1>5, <1>7, <1>8, <1>9, <1>10 DEF Next

\* An open gate was earned by the baseline of the same sources, and a candidate
\* counts every slot of its own plan.
THEOREM GateAlwaysOpensOnTheBaseline == Spec => []GateOpensOnTheBaseline
<1>1. Init => GateInv
  <2> SUFFICES ASSUME Init PROVE GateInv
    OBVIOUS
  <2>1. artifacts = {} /\ gate = [p \in Procs |-> None] /\ run = [p \in Procs |-> Idle]
    BY DEF Init, ScanInit
  <2>2. \A p \in Procs : run[p].pc # "DONE"
    BY <2>1 DEF Idle
  <2> QED BY <2>1, <2>2 DEF GateInv, GateOpensOnTheBaseline
<1>2. GateInv => GateOpensOnTheBaseline
  BY DEF GateInv
<1> QED BY <1>1, <1>2, GateInvNext, ScanIsSound, PTL DEF Spec

-----------------------------------------------------------------------------
(* What a report counts *)

\* The sources a symbol was read at, when it was scanned.
ReadOf(b, s, y) == CHOOSE v \in Versions : Scanned(b[2], v, s, Slots, y)

\* A symbol counts what its slots decided, or is a source error throughout.
LEMMA CountsOfSymbol ==
  ASSUME Typed, NEW b \in Bindings, NEW s \in Symbols, NEW y \in Payloads, Sound(b, s, y),
         NEW c \in Counters
  PROVE  /\ y.counts[c] \in Nat
         /\ y.anomaly = None =>
               /\ ReadOf(b, s, y) \in Versions
               /\ y.counts[c] = SlotsOf(c, b[2], ReadOf(b, s, y), s)
               /\ c = "source_error" => y.counts[c] = 0
         /\ y.anomaly # None => y.counts[c] = IF c = "source_error" THEN Slots ELSE 0
<1>1. y.counts[c] \in Nat /\ y # None
  BY NoneAssumption DEF Payloads
<1>2. ASSUME y.anomaly = None
      PROVE  /\ ReadOf(b, s, y) \in Versions
             /\ y.counts[c] = SlotsOf(c, b[2], ReadOf(b, s, y), s)
             /\ c = "source_error" => y.counts[c] = 0
  <2>1. \E v \in Versions : Scanned(b[2], v, s, Slots, y)
    BY <1>1, <1>2, NoneAssumption DEF Sound, Whole, Failed
  <2>2. ReadOf(b, s, y) \in Versions /\ Scanned(b[2], ReadOf(b, s, y), s, Slots, y)
    BY <2>1 DEF ReadOf
  <2>3. y.counts[c] = SlotsOf(c, b[2], ReadOf(b, s, y), s)
    BY <2>2 DEF Scanned, CountUpTo, SlotsOf
  <2>4. ASSUME c = "source_error" PROVE y.counts[c] = 0
    <3> DEFINE D == {i \in 1..Slots : market[b[2]][ReadOf(b, s, y)][s][i] \in CountedBy[c]}
    <3>1. CountedBy[c] = {}
      BY <2>4 DEF CountedBy
    <3>2. D = {}
      BY <3>1
    <3>3. y.counts[c] = Cardinality(D)
      BY <2>3 DEF SlotsOf
    <3> QED BY <3>2, <3>3, FS_EmptySet
  <2> QED BY <2>2, <2>3, <2>4
<1>3. ASSUME y.anomaly # None
      PROVE  y.counts[c] = IF c = "source_error" THEN Slots ELSE 0
  <2>1. y.counts = [NoCounts EXCEPT !.source_error = Slots]
    BY <1>1, <1>3 DEF Sound, Whole, Failed
  <2>2. "source_error" \in Counters
    BY CountersAre
  <2> QED BY <2>1, <2>2 DEF NoCounts
<1> QED BY <1>1, <1>2, <1>3

\* The funnel of a report over such symbols.
LEMMA FunnelCounts ==
  ASSUME Typed, NEW b \in Bindings, NEW merged \in [Symbols -> Payloads],
         \A s \in Symbols : Sound(b, s, merged[s])
  PROVE  \E read \in [Symbols -> Versions] : \A c \in Counters :
            Report(merged).funnel[c] =
               IF c = "source_error" THEN Slots * Cardinality(Symbols \ Report(merged).scanned)
               ELSE SumFunction([s \in Report(merged).scanned |-> SlotsOf(c, b[2], read[s], s)])
<1> DEFINE scanned == {s \in Symbols : merged[s].anomaly = None}
           read == [s \in Symbols |-> IF s \in scanned THEN ReadOf(b, s, merged[s]) ELSE 0]
<1>1. \A s \in Symbols : merged[s] \in Payloads
  OBVIOUS
<1>2. read \in [Symbols -> Versions]
  <2>1. 0 \in Versions /\ \A s \in scanned : ReadOf(b, s, merged[s]) \in Versions
    <3>1. "accepted" \in Counters
      BY CountersAre
    <3> QED BY <1>1, <3>1, CountsOfSymbol, ScanAssumption
  <2> HIDE DEF scanned
  <2> QED BY <2>1
<1>3. Report(merged).scanned = scanned
  BY DEF Report
<1>4. ASSUME NEW c \in Counters
      PROVE  Report(merged).funnel[c] =
               IF c = "source_error" THEN Slots * Cardinality(Symbols \ scanned)
               ELSE SumFunction([s \in scanned |-> SlotsOf(c, b[2], read[s], s)])
  <2> DEFINE f == [s \in Symbols |-> merged[s].counts[c]]
             g == [s \in scanned |-> SlotsOf(c, b[2], read[s], s)]
  <2>1. Report(merged).funnel[c] = SumFunctionOnSet(f, Symbols)
    BY TotalIs DEF Report
  <2>2. /\ \A s \in Symbols : f[s] \in Nat
        /\ \A s \in scanned : f[s] = g[s] /\ (c = "source_error" => f[s] = 0)
        /\ \A s \in Symbols \ scanned : f[s] = IF c = "source_error" THEN Slots ELSE 0
    <3>1. \A s \in Symbols : f[s] = merged[s].counts[c]
      OBVIOUS
    <3>2. \A s \in scanned : g[s] = SlotsOf(c, b[2], ReadOf(b, s, merged[s]), s) /\ s \in Symbols
      OBVIOUS
    <3>3. \A s \in Symbols : s \in scanned <=> merged[s].anomaly = None
      OBVIOUS
    <3> HIDE DEF f, g, scanned, read
    <3> QED BY <1>1, <3>1, <3>2, <3>3, CountsOfSymbol
  <2>3. IsFiniteSet(Symbols) /\ scanned \in SUBSET Symbols /\ Symbols \ scanned \in SUBSET Symbols
        /\ Symbols \ (Symbols \ scanned) = scanned
    BY SymbolsAreFinite
  <2>4. SumFunction(g) = SumFunctionOnSet(g, scanned)
    BY DEF SumFunction, SumFunctionOnSet, FoldFunction, FoldFunctionOnSet
  <2>5. Slots \in Int /\ IsFiniteSet(scanned) /\ IsFiniteSet(Symbols \ scanned)
    BY <2>3, ScanAssumption, FS_Subset
  <2> HIDE DEF f, g, scanned
  <2>6. CASE c = "source_error"
    <3>1. SumFunctionOnSet(f, Symbols) = SumFunctionOnSet(f, Symbols \ scanned)
      BY <2>2, <2>3, <2>6, SumOfPart
    <3>2. SumFunctionOnSet(f, Symbols \ scanned) = Slots * Cardinality(Symbols \ scanned)
      BY <2>2, <2>5, <2>6, SumOfEquals
    <3> QED BY <2>1, <2>6, <3>1, <3>2
  <2>7. CASE c # "source_error"
    <3>1. SumFunctionOnSet(f, Symbols) = SumFunctionOnSet(f, scanned)
      BY <2>2, <2>3, <2>7, SumOfPart
    <3>2. SumFunctionOnSet(f, scanned) = SumFunctionOnSet(g, scanned)
      BY <2>2, <2>5, SumsAgree
    <3> QED BY <2>1, <2>4, <2>7, <3>1, <3>2 DEF g
  <2> QED BY <2>6, <2>7
<1> HIDE DEF scanned, read
<1> QED BY <1>2, <1>3, <1>4

-----------------------------------------------------------------------------
(* The minutes of a report *)

Windows == Seq([from : Int, upto : Int])

\* The windows after the records of s have been merged, first to last.
Merges(records, it) ==
  it = [s \in SUBSET DOMAIN records |->
          IF s = {} THEN << >>
          ELSE Merge(it[s \ {Max(s)}], WindowOf(records[Max(s)]))]

LEMMA MergedIsFold ==
  ASSUME NEW records, NEW it, Merges(records, it)
  PROVE  \E jt : Merges(records, jt) /\ MergedWindows(records) = jt[DOMAIN records]
BY DEF MergedWindows, FoldLeft, MapThenFoldSet, Merges

LEMMA MergeIsTyped ==
  ASSUME NEW windows \in Windows, NEW record \in Records
  PROVE  /\ WindowOf(record) \in [from : Int, upto : Int]
         /\ Merge(windows, WindowOf(record)) \in Windows
<1>1. record.slot \in Int /\ Step \in Int /\ WindowLength \in Int
  BY ScanAssumption DEF Records
<1>2. record.slot * Step \in Int
  BY <1>1
<1>3. WindowOf(record) \in [from : Int, upto : Int]
  BY <1>1, <1>2 DEF WindowOf
<1> DEFINE w == WindowOf(record)
<1> HIDE DEF w
<1>4. w \in [from : Int, upto : Int]
  BY <1>3 DEF w
<1>5. Append(windows, w) \in Windows
  BY <1>4 DEF Windows
<1>6. ASSUME windows # << >>
      PROVE  [windows EXCEPT ![Len(windows)].upto = IF @ > w.upto THEN @ ELSE w.upto] \in Windows
  <2> DEFINE n == Len(windows)
             x == [windows[n] EXCEPT !.upto = IF @ > w.upto THEN @ ELSE w.upto]
  <2>1. n \in 1..Len(windows)
    BY <1>6, EmptySeq, LenProperties DEF Windows
  <2>2. windows[n] \in [from : Int, upto : Int]
    BY <2>1, ElementOfSeq DEF Windows
  <2>3. x \in [from : Int, upto : Int]
    <3> HIDE DEF n
    <3> QED BY <1>4, <2>2
  <2>4. [windows EXCEPT ![n] = x] \in Windows
    <3> HIDE DEF n, x
    <3> QED BY <2>1, <2>3, ExceptSeq DEF Windows
  <2> QED BY <2>4
<1> QED BY <1>3, <1>5, <1>6 DEF Merge, w

\* The windows after each record.
LEMMA MergedSteps ==
  ASSUME NEW records \in Seq(Records)
  PROVE  \E g : /\ g[0] = << >>
                /\ \A i \in 1..Len(records) : g[i] = Merge(g[i - 1], WindowOf(records[i]))
                /\ MergedWindows(records) = g[Len(records)]
<1> DEFINE n == Len(records)
           H == [i \in 1..n |-> [v \in Windows |-> Merge(v, WindowOf(records[i]))]]
<1>1. n \in Nat /\ DOMAIN records = 1..n /\ \A i \in 1..n : records[i] \in Records
  BY LenProperties, ElementOfSeq
<1>2. << >> \in Windows
  BY DEF Windows
<1>3. \A i \in 1..n, v \in Windows : H[i][v] = Merge(v, WindowOf(records[i])) /\ H[i][v] \in Windows
  <2>1. \A i \in 1..n, v \in Windows : Merge(v, WindowOf(records[i])) \in Windows
    BY <1>1, MergeIsTyped
  <2> HIDE DEF n
  <2> QED BY <2>1
<1> HIDE DEF H, n
<1>4. PICK it : it \in [SUBSET (1..n) -> Windows] /\ IsFold(1..n, << >>, H, it)
  BY <1>1, <1>2, <1>3, FoldSteps
<1>5. Merges(records, it)
  <2>1. \A s \in SUBSET (1..n) : s # {} =>
           H[Max(s)][it[s \ {Max(s)}]] = Merge(it[s \ {Max(s)}], WindowOf(records[Max(s)]))
    <3>1. \A s \in SUBSET (1..n) : s # {} => Max(s) \in 1..n /\ s \ {Max(s)} \in SUBSET (1..n)
      BY <1>1, FirstMembers
    <3> QED BY <1>3, <1>4, <3>1
  <2>2. it = [s \in SUBSET (1..n) |-> IF s = {} THEN << >>
                                      ELSE Merge(it[s \ {Max(s)}], WindowOf(records[Max(s)]))]
    BY <1>4, <2>1 DEF IsFold
  <2> QED BY <1>1, <2>2 DEF Merges
<1>6. PICK jt : Merges(records, jt) /\ MergedWindows(records) = jt[DOMAIN records]
  BY <1>5, MergedIsFold
<1> DEFINE g == [i \in 0..n |-> jt[1..i]]
<1>7. g[0] = << >>
  <2>1. jt[{}] = << >>
    BY <1>1, <1>6, FirstMembers DEF Merges
  <2> QED BY <1>1, <2>1, FirstMembers
<1>8. ASSUME NEW i \in 1..n PROVE g[i] = Merge(g[i - 1], WindowOf(records[i]))
  <2>1. 1..i \in SUBSET (1..n) /\ 1..i # {} /\ Max(1..i) = i /\ (1..i) \ {i} = 1..(i - 1)
    BY <1>1, FirstMembers
  <2>2. jt[1..i] = Merge(jt[(1..i) \ {Max(1..i)}], WindowOf(records[Max(1..i)]))
    BY <1>1, <1>6, <2>1 DEF Merges
  <2>3. i \in 0..n /\ i - 1 \in 0..n
    BY <1>1
  <2>4. g[i] = jt[1..i] /\ g[i - 1] = jt[1..(i - 1)]
    BY <2>3
  <2> QED BY <2>1, <2>2, <2>4
<1>9. MergedWindows(records) = g[n]
  BY <1>1, <1>6
<1> HIDE DEF g
<1> QED BY <1>7, <1>8, <1>9 DEF n

\* The minutes of windows are a sum over their positions.
LEMMA MinutesAre ==
  ASSUME NEW windows \in Windows
  PROVE  /\ Minutes(windows) = SumFunctionOnSet([i \in 1..Len(windows) |->
                                  windows[i].upto - windows[i].from], 1..Len(windows))
         /\ \A i \in 1..Len(windows) : windows[i] \in [from : Int, upto : Int]
         /\ IsFiniteSet(1..Len(windows)) /\ Len(windows) \in Nat
<1>1. DOMAIN windows = 1..Len(windows) /\ Len(windows) \in Nat
  BY LenProperties DEF Windows
<1>2. \A i \in 1..Len(windows) : windows[i] \in [from : Int, upto : Int]
  BY <1>1, ElementOfSeq DEF Windows
<1>3. IsFiniteSet(1..Len(windows))
  BY <1>1, FirstNumbers
<1> DEFINE f == [i \in DOMAIN windows |-> windows[i].upto - windows[i].from]
<1>4. DOMAIN f = 1..Len(windows)
  BY <1>1
<1>5. Minutes(windows) = SumFunctionOnSet(f, DOMAIN f)
  BY DEF Minutes, SumFunction
<1>6. f = [i \in 1..Len(windows) |-> windows[i].upto - windows[i].from]
  BY <1>1
<1> QED BY <1>1, <1>2, <1>3, <1>4, <1>5, <1>6

\* A window more, and a last window that ends elsewhere.
LEMMA MinutesGrow ==
  ASSUME NEW windows \in Windows, NEW w \in [from : Int, upto : Int]
  PROVE  /\ Minutes(Append(windows, w)) = Minutes(windows) + (w.upto - w.from)
         /\ Minutes(windows) \in Int
         /\ Append(windows, w) \in Windows /\ Last(Append(windows, w)) = w
         /\ Append(windows, w) # << >>
<1> DEFINE n == Len(windows)
           longer == Append(windows, w)
           f == [i \in 1..n |-> windows[i].upto - windows[i].from]
           g == [i \in 1..(n + 1) |-> longer[i].upto - longer[i].from]
<1>1. /\ longer \in Windows /\ Len(longer) = n + 1 /\ longer[n + 1] = w
      /\ \A i \in 1..n : longer[i] = windows[i]
  BY AppendProperties DEF Windows
<1>2. /\ Minutes(windows) = SumFunctionOnSet(f, 1..n) /\ n \in Nat /\ IsFiniteSet(1..n)
      /\ \A i \in 1..n : windows[i] \in [from : Int, upto : Int]
  BY MinutesAre
<1>3. Minutes(longer) = SumFunctionOnSet(g, 1..(n + 1))
  <2> HIDE DEF longer
  <2> QED BY <1>1, MinutesAre
<1>4. /\ \A i \in 1..n : f[i] \in Int /\ g[i] = f[i] /\ g[i] \in Int
      /\ g[n + 1] = w.upto - w.from /\ g[n + 1] \in Int
  <2> HIDE DEF longer, n
  <2> QED BY <1>1, <1>2
<1>5. (1..n) \cup {n + 1} = 1..(n + 1) /\ n + 1 \notin 1..n
  <2> HIDE DEF n
  <2> QED BY <1>2
<1>6. Last(longer) = w /\ longer # << >>
  <2>1. longer # << >>
    OBVIOUS
  <2> HIDE DEF longer, n
  <2> QED BY <1>1, <2>1 DEF Last
<1> HIDE DEF f, g, longer
<1>7. SumFunctionOnSet(g, 1..(n + 1)) = g[n + 1] + SumFunctionOnSet(g, 1..n)
  <2> HIDE DEF n
  <2> QED BY <1>2, <1>4, <1>5, SumAdds
<1>8. SumFunctionOnSet(g, 1..n) = SumFunctionOnSet(f, 1..n) /\ SumFunctionOnSet(f, 1..n) \in Int
  <2> HIDE DEF n
  <2>1. SumFunctionOnSet(g, 1..n) = SumFunctionOnSet(f, 1..n)
    BY <1>2, <1>4, SumsAgree
  <2>2. SumFunctionOnSet(f, 1..n) \in Int
    BY <1>2, <1>4, SumIsInteger
  <2> QED BY <2>1, <2>2
<1>9. Minutes(longer) = Minutes(windows) + (w.upto - w.from) /\ Minutes(windows) \in Int
  <2> HIDE DEF n
  <2> QED BY <1>2, <1>3, <1>4, <1>7, <1>8
<1> QED BY <1>1, <1>6, <1>9 DEF longer

LEMMA MinutesStretch ==
  ASSUME NEW windows \in Windows, windows # << >>, NEW u \in Int,
         NEW other, other = [windows EXCEPT ![Len(windows)].upto = u]
  PROVE  /\ Minutes(other) = Minutes(windows) + (u - Last(windows).upto)
         /\ Minutes(windows) \in Int /\ other \in Windows /\ other # << >>
         /\ Last(windows) \in [from : Int, upto : Int]
         /\ Last(other) = [from |-> Last(windows).from, upto |-> u]
<1> DEFINE n == Len(windows)
           x == [windows[n] EXCEPT !.upto = u]
           f == [i \in 1..n |-> windows[i].upto - windows[i].from]
           g == [i \in 1..n |-> other[i].upto - other[i].from]
<1>1. n \in 1..n /\ n \in Nat
  BY EmptySeq, LenProperties DEF Windows
<1>2. /\ Minutes(windows) = SumFunctionOnSet(f, 1..n) /\ IsFiniteSet(1..n)
      /\ \A i \in 1..n : windows[i] \in [from : Int, upto : Int]
  BY MinutesAre
<1>3. other = [windows EXCEPT ![n] = x]
  OBVIOUS
<1>4. x \in [from : Int, upto : Int] /\ x = [from |-> windows[n].from, upto |-> u]
  <2> HIDE DEF n
  <2> QED BY <1>1, <1>2
<1> HIDE DEF x
<1>5. /\ other \in Windows /\ Len(other) = n /\ other[n] = x
      /\ \A i \in (1..n) \ {n} : other[i] = windows[i]
  BY <1>1, <1>3, <1>4, ExceptSeq DEF Windows
<1> HIDE DEF n
<1>6. Minutes(other) = SumFunctionOnSet(g, 1..n)
  BY <1>5, MinutesAre
<1>7. /\ \A i \in 1..n : f[i] \in Int /\ g[i] \in Int
      /\ \A i \in (1..n) \ {n} : f[i] = g[i]
      /\ g[n] - f[n] = u - windows[n].upto
  <2>1. \A i \in 1..n : windows[i].upto \in Int /\ windows[i].from \in Int
    BY <1>2
  <2>2. other[n].upto = u /\ other[n].from = windows[n].from
    BY <1>4, <1>5
  <2>3. \A i \in 1..n : other[i].upto \in Int /\ other[i].from \in Int
    <3> SUFFICES ASSUME NEW i \in 1..n PROVE other[i].upto \in Int /\ other[i].from \in Int
      OBVIOUS
    <3>1. CASE i = n
      BY <1>1, <2>1, <2>2, <3>1
    <3>2. CASE i # n
      BY <1>5, <2>1, <3>2
    <3> QED BY <3>1, <3>2
  <2> QED BY <1>1, <1>5, <2>1, <2>2, <2>3
<1> HIDE DEF f, g
<1>8. SumFunctionOnSet(g, 1..n) = SumFunctionOnSet(f, 1..n) + g[n] - f[n]
  <2> DEFINE S == 1..n
  <2>1. /\ n \in S /\ IsFiniteSet(S) /\ \A i \in S : f[i] \in Int /\ g[i] \in Int
        /\ \A i \in S \ {n} : f[i] = g[i]
    BY <1>1, <1>2, <1>7
  <2> HIDE DEF S
  <2>2. SumFunctionOnSet(g, S) = SumFunctionOnSet(f, S) + g[n] - f[n]
    BY <2>1, SumChanges
  <2> QED BY <2>2 DEF S
<1>9. SumFunctionOnSet(f, 1..n) \in Int
  BY <1>2, <1>7, SumIsInteger
<1>10. Minutes(other) = Minutes(windows) + (u - windows[n].upto) /\ Minutes(windows) \in Int
  <2>1. windows[n].upto \in Int /\ f[n] \in Int /\ g[n] \in Int
    BY <1>1, <1>2, <1>7
  <2> QED BY <1>2, <1>6, <1>7, <1>8, <1>9, <2>1
<1>11. Last(windows) = windows[n] /\ Last(other) = x /\ other # << >>
  <2>1. Last(windows) = windows[n] /\ Last(other) = x
    BY <1>5 DEF Last, n
  <2>2. other # << >>
    BY <1>1, <1>5, EmptySeq DEF Windows
  <2> QED BY <2>1, <2>2
<1> QED BY <1>1, <1>2, <1>4, <1>5, <1>10, <1>11

\* What the windows w1, .., w cover when w is the last of them.
Covers(windows, w, covered) ==
  /\ windows \in Windows /\ windows # << >>
  /\ Last(windows).upto = w.upto /\ Last(windows).from <= w.from
  /\ covered \in SUBSET Int /\ IsFiniteSet(covered)
  /\ \A m \in Int : Last(windows).from <= m /\ m < Last(windows).upto => m \in covered
  /\ \A m \in covered : m < w.upto
  /\ Minutes(windows) = Cardinality(covered)

\* The minutes from a up to b.
LEMMA MinutesBetween ==
  ASSUME NEW a \in Int, NEW b \in Int, a <= b
  PROVE  IsFiniteSet(a..(b - 1)) /\ Cardinality(a..(b - 1)) = b - a /\ a..(b - 1) \in SUBSET Int
<1>1. b - 1 \in Int
  OBVIOUS
<1>2. IsFiniteSet(a..(b - 1)) /\ Cardinality(a..(b - 1)) = IF a > b - 1 THEN 0 ELSE b - 1 - a + 1
  BY <1>1, FS_Interval
<1> QED BY <1>2

\* A window is merged: later than all before it, and of no less reach.
LEMMA MergeCovers ==
  ASSUME NEW windows, NEW v \in [from : Int, upto : Int], NEW w \in [from : Int, upto : Int],
         NEW covered, Covers(windows, v, covered),
         v.from <= w.from, v.upto <= w.upto, w.from <= w.upto
  PROVE  Covers(Merge(windows, w), w, covered \cup (w.from)..(w.upto - 1))
<1> DEFINE l == Last(windows)
           new == covered \cup (w.from)..(w.upto - 1)
<1>1. /\ w.from \in Int /\ w.upto \in Int /\ v.from \in Int /\ v.upto \in Int
  OBVIOUS
<1>2. IsFiniteSet((w.from)..(w.upto - 1)) /\ Cardinality((w.from)..(w.upto - 1)) = w.upto - w.from
  BY <1>1, MinutesBetween
<1>3. new \in SUBSET Int /\ IsFiniteSet(new)
  <2>1. covered \in SUBSET Int /\ IsFiniteSet(covered)
    BY DEF Covers
  <2>2. (w.from)..(w.upto - 1) \in SUBSET Int
    BY <1>1
  <2> DEFINE D == (w.from)..(w.upto - 1)
  <2>3. IsFiniteSet(D) /\ D \in SUBSET Int /\ new = covered \cup D
    BY <1>2, <2>2
  <2> HIDE DEF D, new
  <2>4. IsFiniteSet(covered \cup D)
    BY <2>1, <2>3, FS_Union
  <2> QED BY <2>1, <2>3, <2>4
<1>4. \A m \in new : m < w.upto
  BY <1>1 DEF Covers
<1>5. l \in [from : Int, upto : Int]
  <2>1. Len(windows) \in 1..Len(windows)
    BY EmptySeq, LenProperties DEF Covers, Windows
  <2> QED BY <2>1, MinutesAre DEF Last, Covers
<1>6. CASE w.from <= l.upto
  <2> DEFINE other == [windows EXCEPT ![Len(windows)].upto = w.upto]
  <2>1. Merge(windows, w) = other
    <3>1. [windows EXCEPT ![Len(windows)].upto = IF @ > w.upto THEN @ ELSE w.upto] = other
      <4>1. Len(windows) \in DOMAIN windows /\ windows[Len(windows)] = l
        BY EmptySeq, LenProperties DEF Covers, Windows, Last
      <4>2. (IF l.upto > w.upto THEN l.upto ELSE w.upto) = w.upto
        BY <1>1 DEF Covers
      <4> QED BY <4>1, <4>2
    <3> QED BY <1>6, <3>1 DEF Merge, Covers
  <2>2. /\ Minutes(other) = Minutes(windows) + (w.upto - l.upto) /\ Minutes(windows) \in Int
        /\ other \in Windows /\ other # << >> /\ Last(other) = [from |-> l.from, upto |-> w.upto]
    BY <1>1, MinutesStretch DEF Covers
  <2> HIDE DEF other
  <2>3. l.upto \in Int /\ l.from \in Int /\ l.upto <= w.upto /\ l.from <= w.from
    BY <1>1, <1>5 DEF Covers
  <2>4. new = covered \cup (l.upto)..(w.upto - 1)
    BY <1>1, <1>6, <2>3 DEF Covers
  <2>5. covered \cap (l.upto)..(w.upto - 1) = {}
    BY <2>3 DEF Covers
  <2>6. IsFiniteSet((l.upto)..(w.upto - 1)) /\ Cardinality((l.upto)..(w.upto - 1)) = w.upto - l.upto
    BY <1>1, <2>3, MinutesBetween
  <2>7. Cardinality(new) = Cardinality(covered) + (w.upto - l.upto)
    BY <2>4, <2>5, <2>6, DisjointSets DEF Covers
  <2>8. Minutes(other) = Cardinality(new)
    BY <2>2, <2>7 DEF Covers
  <2>9. \A m \in Int : l.from <= m /\ m < w.upto => m \in new
    BY <1>1, <2>3, <2>4 DEF Covers
  <2> HIDE DEF new, l
  <2>10. /\ Last(other).upto = w.upto /\ Last(other).from = l.from
    BY <2>2
  <2>11. Covers(other, w, new)
    BY <1>3, <1>4, <2>2, <2>3, <2>8, <2>9, <2>10 DEF Covers
  <2> QED BY <2>1, <2>11 DEF new
<1>7. CASE l.upto < w.from
  <2> DEFINE other == Append(windows, w)
  <2>1. Merge(windows, w) = other
    BY <1>1, <1>5, <1>7 DEF Merge, Covers
  <2>2. /\ Minutes(other) = Minutes(windows) + (w.upto - w.from) /\ Minutes(windows) \in Int
        /\ other \in Windows /\ other # << >> /\ Last(other) = w
    BY MinutesGrow DEF Covers
  <2> HIDE DEF other
  <2>3. covered \cap (w.from)..(w.upto - 1) = {}
    BY <1>1, <1>5, <1>7 DEF Covers
  <2>4. Cardinality(new) = Cardinality(covered) + (w.upto - w.from)
    BY <1>2, <2>3, DisjointSets DEF Covers
  <2>5. Minutes(other) = Cardinality(new)
    BY <2>2, <2>4 DEF Covers
  <2>6. \A m \in Int : w.from <= m /\ m < w.upto => m \in new
    BY <1>1
  <2> HIDE DEF new, l
  <2>7. Covers(other, w, new)
    BY <1>1, <1>3, <1>4, <2>2, <2>5, <2>6 DEF Covers
  <2> QED BY <2>1, <2>7 DEF new
<1>8. w.from <= l.upto \/ l.upto < w.from
  BY <1>1, <1>5
<1> QED BY <1>6, <1>7, <1>8

\* The minutes that the first n records ask for.
Asked(records, n) ==
  UNION {WindowOf(records[i]).from .. (WindowOf(records[i]).upto - 1) : i \in 1..n}

\* The windows of records in the order of their slots are as long as what they cover.
LEMMA MinutesAreDistinct ==
  ASSUME NEW records \in Seq(Records),
         \A i, j \in 1..Len(records) : i < j => records[i].slot < records[j].slot
  PROVE  Minutes(MergedWindows(records)) = Cardinality(Asked(records, Len(records)))
<1> DEFINE n == Len(records)
           w(i) == WindowOf(records[i])
<1>1. n \in Nat /\ \A i \in 1..n : records[i] \in Records
  BY LenProperties, ElementOfSeq
<1>2. \A i \in 1..n : w(i) \in [from : Int, upto : Int] /\ w(i).from <= w(i).upto
  <2> SUFFICES ASSUME NEW i \in 1..n PROVE w(i) \in [from : Int, upto : Int] /\ w(i).from <= w(i).upto
    OBVIOUS
  <2>1. records[i] \in Records /\ << >> \in Windows
    BY <1>1 DEF Windows
  <2>2. w(i) \in [from : Int, upto : Int]
    BY <2>1, MergeIsTyped
  <2>3. w(i).upto = w(i).from + WindowLength
    BY DEF WindowOf
  <2>4. WindowLength \in Nat /\ w(i).from \in Int
    BY <2>2, ScanAssumption
  <2> QED BY <2>2, <2>3, <2>4
<1>3. ASSUME NEW i \in 1..n, NEW j \in 1..n, i < j PROVE w(i).from <= w(j).from /\ w(i).upto <= w(j).upto
  <2>1. records[i].slot \in Nat /\ records[j].slot \in Nat /\ Step \in Nat /\ WindowLength \in Nat
    BY <1>1, ScanAssumption DEF Records
  <2>2. records[i].slot <= records[j].slot
    BY <1>3, <2>1
  <2>3. \A a, b, c \in Nat : a <= b => a * c <= b * c
    OBVIOUS
  <2>4. records[i].slot * Step <= records[j].slot * Step
    BY <2>1, <2>2, <2>3
  <2> DEFINE a == records[i].slot * Step
             b == records[j].slot * Step
  <2>5. a \in Nat /\ b \in Nat /\ a <= b
    BY <2>1, <2>4
  <2>6. /\ w(i).from = a /\ w(i).upto = a + WindowLength
        /\ w(j).from = b /\ w(j).upto = b + WindowLength
    BY DEF WindowOf
  <2> HIDE DEF n, a, b, w
  <2> QED BY <2>1, <2>5, <2>6
<1>4. PICK g : /\ g[0] = << >>
               /\ \A i \in 1..n : g[i] = Merge(g[i - 1], w(i))
               /\ MergedWindows(records) = g[n]
  BY MergedSteps
<1> HIDE DEF n, w
<1> DEFINE Q == {i \in Nat : i + 1 \in 1..n => Covers(g[i + 1], w(i + 1), Asked(records, i + 1))}
<1>5. \A i \in Nat : Asked(records, i + 1)
                     = Asked(records, i) \cup (w(i + 1).from)..(w(i + 1).upto - 1)
  <2> SUFFICES ASSUME NEW i \in Nat
               PROVE  Asked(records, i + 1)
                      = Asked(records, i) \cup (w(i + 1).from)..(w(i + 1).upto - 1)
    OBVIOUS
  <2>1. 1..(i + 1) = (1..i) \cup {i + 1}
    OBVIOUS
  <2> QED BY <2>1 DEF Asked, w
<1>6. Asked(records, 0) = {}
  BY DEF Asked
<1>7. 0 \in Q
  <2> SUFFICES ASSUME 1 \in 1..n PROVE Covers(g[1], w(1), Asked(records, 1))
    OBVIOUS
  <2> DEFINE x == w(1)
  <2>1. x \in [from : Int, upto : Int] /\ x.from <= x.upto
    BY <1>2
  <2>2. g[1] = Append(<< >>, x)
    <3>1. 1 \in 1..n /\ 1 - 1 = 0
      OBVIOUS
    <3>2. g[1] = Merge(g[0], w(1))
      BY <1>4, <3>1
    <3> QED BY <1>4, <3>2 DEF Merge
  <2>3. Asked(records, 1) = (x.from)..(x.upto - 1)
    <3>1. 0 \in Nat /\ 0 + 1 = 1
      OBVIOUS
    <3>2. Asked(records, 1) = Asked(records, 0) \cup (w(1).from)..(w(1).upto - 1)
      BY <1>5, <3>1
    <3> QED BY <1>6, <3>2
  <2> HIDE DEF x
  <2>4. << >> \in Windows /\ Minutes(<< >>) = 0
    <3>1. << >> \in Windows /\ Len(<< >>) = 0 /\ 1..0 = {}
      BY DEF Windows
    <3> QED BY <3>1, MinutesAre, SumOfNothing
  <2>5. /\ Minutes(g[1]) = x.upto - x.from /\ g[1] \in Windows /\ Last(g[1]) = x /\ g[1] # << >>
    <3>1. Minutes(g[1]) = 0 + (x.upto - x.from)
      BY <2>1, <2>2, <2>4, MinutesGrow
    <3>2. g[1] \in Windows /\ Last(g[1]) = x /\ g[1] # << >>
      BY <2>1, <2>2, <2>4, MinutesGrow
    <3> QED BY <2>1, <3>1, <3>2
  <2>6. x.from \in Int /\ x.upto \in Int
    BY <2>1
  <2>7. /\ IsFiniteSet((x.from)..(x.upto - 1)) /\ (x.from)..(x.upto - 1) \in SUBSET Int
        /\ Cardinality((x.from)..(x.upto - 1)) = x.upto - x.from
    BY <2>1, <2>6, MinutesBetween
  <2>8. Covers(g[1], x, (x.from)..(x.upto - 1))
    BY <2>5, <2>6, <2>7 DEF Covers
  <2> QED BY <2>3, <2>8 DEF x
<1>8. ASSUME NEW i \in Q PROVE i + 1 \in Q
  <2> SUFFICES ASSUME i + 2 \in 1..n PROVE Covers(g[i + 2], w(i + 2), Asked(records, i + 2))
    BY <1>1
  <2>1. i \in Nat /\ i + 1 \in 1..n /\ i + 1 < i + 2
    BY <1>1
  <2>2. Covers(g[i + 1], w(i + 1), Asked(records, i + 1))
    BY <1>8, <2>1
  <2>3. /\ w(i + 1).from <= w(i + 2).from /\ w(i + 1).upto <= w(i + 2).upto
        /\ w(i + 1) \in [from : Int, upto : Int] /\ w(i + 2) \in [from : Int, upto : Int]
        /\ w(i + 2).from <= w(i + 2).upto
    BY <1>2, <1>3, <2>1
  <2>4. Covers(Merge(g[i + 1], w(i + 2)), w(i + 2),
               Asked(records, i + 1) \cup (w(i + 2).from)..(w(i + 2).upto - 1))
    BY <2>2, <2>3, MergeCovers
  <2>5. g[i + 2] = Merge(g[i + 1], w(i + 2))
    <3>1. (i + 2) - 1 = i + 1
      BY <2>1
    <3> QED BY <1>4, <3>1
  <2>6. Asked(records, i + 2) = Asked(records, i + 1) \cup (w(i + 2).from)..(w(i + 2).upto - 1)
    <3>1. i + 1 \in Nat /\ (i + 1) + 1 = i + 2
      BY <2>1
    <3> QED BY <1>5, <3>1
  <2> QED BY <2>4, <2>5, <2>6
<1>9. Q = Nat
  <2>1. Q \in SUBSET Nat
    OBVIOUS
  <2> HIDE DEF Q
  <2> QED BY <1>7, <1>8, <2>1, AllNumbers
<1>10. CASE n = 0
  <2>1. Minutes(<< >>) = 0
    <3>1. << >> \in Windows /\ Len(<< >>) = 0 /\ 1..0 = {}
      BY DEF Windows
    <3> QED BY <3>1, MinutesAre, SumOfNothing
  <2> QED BY <1>4, <1>6, <1>10, <2>1, FS_EmptySet DEF n
<1>11. CASE n # 0
  <2>1. n - 1 \in Nat /\ (n - 1) + 1 = n /\ n \in 1..n
    BY <1>1, <1>11
  <2>2. n - 1 \in Q
    BY <1>9, <2>1
  <2>3. Covers(g[n], w(n), Asked(records, n))
    BY <2>1, <2>2
  <2> QED BY <1>4, <2>3 DEF Covers, n
<1> QED BY <1>10, <1>11

\* The accepted records of a symbol on the disk, in the order of their slots.
LEMMA AcceptedInOrder ==
  ASSUME NEW b, NEW s, NEW y \in Payloads, Sound(b, s, y)
  PROVE  /\ y.accepted \in Seq(Records)
         /\ \A i, j \in 1..Len(y.accepted) : i < j => y.accepted[i].slot < y.accepted[j].slot
<1>1. y.accepted \in Seq(Records) /\ y # None
  BY NoneAssumption DEF Payloads
<1>2. CASE Whole(b, s, y)
  <2>1. DOMAIN y.accepted = 1..Len(y.accepted)
    BY <1>1, LenProperties
  <2>2. PICK v \in Versions : Slotted(y.accepted, s, v, Slots)
    BY <1>2 DEF Whole, Scanned
  <2> QED BY <1>1, <2>1, <2>2 DEF Slotted
<1>3. CASE Failed(b, y)
  <2>1. y.accepted = << >>
    BY <1>3 DEF Failed
  <2>2. Len(y.accepted) = 0
    BY <2>1
  <2> QED BY <1>1, <2>2
<1> QED BY <1>1, <1>2, <1>3 DEF Sound

\* The minutes of a report are those of the windows of its accepted records.
LEMMA MinutesOfReport ==
  ASSUME NEW b, NEW merged \in [Symbols -> Payloads], \A s \in Symbols : Sound(b, s, merged[s])
  PROVE  Report(merged).minutes = SumFunction([s \in Symbols |->
            Cardinality(UNION {WindowOf(a).from .. (WindowOf(a).upto - 1) :
                               a \in Range(Report(merged).accepted[s])})])
<1>1. ASSUME NEW s \in Symbols
      PROVE  Minutes(MergedWindows(merged[s].accepted))
             = Cardinality(UNION {WindowOf(a).from .. (WindowOf(a).upto - 1) :
                                  a \in Range(Report(merged).accepted[s])})
  <2> DEFINE records == merged[s].accepted
  <2>1. Report(merged).accepted[s] = records
    BY DEF Report
  <2>2. /\ records \in Seq(Records)
        /\ \A i, j \in 1..Len(records) : i < j => records[i].slot < records[j].slot
    <3>1. merged[s] \in Payloads /\ Sound(b, s, merged[s])
      OBVIOUS
    <3> QED BY <3>1, AcceptedInOrder
  <2> HIDE DEF records
  <2>3. Minutes(MergedWindows(records)) = Cardinality(Asked(records, Len(records)))
    BY <2>2, MinutesAreDistinct
  <2>4. Range(records) = {records[i] : i \in 1..Len(records)}
    BY <2>2, LenProperties DEF Range
  <2>5. Asked(records, Len(records))
        = UNION {WindowOf(a).from .. (WindowOf(a).upto - 1) : a \in Range(records)}
    BY <2>4 DEF Asked
  <2> QED BY <2>1, <2>3, <2>5 DEF records
<1> DEFINE f == [s \in Symbols |-> Minutes(MergedWindows(merged[s].accepted))]
           g == [s \in Symbols |->
                   Cardinality(UNION {WindowOf(a).from .. (WindowOf(a).upto - 1) :
                                      a \in Range(Report(merged).accepted[s])})]
<1>2. f = g
  BY <1>1
<1>3. Report(merged).minutes = SumFunction(f)
  BY DEF Report
<1> HIDE DEF f
<1>4. Report(merged).minutes = SumFunction(g)
  BY <1>2, <1>3
<1> QED BY <1>4

\* Every slot of the plan is counted once in every report, the minutes asked for
\* are counted once, a bound run has scanned every symbol, and no report is refused.
THEOREM ReportsCountThePlanOnce == Spec => []ReportCountsThePlanOnce
<1>1. ASSUME ScanInv PROVE ReportCountsThePlanOnce
  <2>1. ASSUME NEW r \in reports
        PROVE  /\ r.binding \in Bindings
               /\ checkpoints[r.binding] \in [Symbols -> Payloads]
               /\ \A s \in Symbols : Sound(r.binding, s, checkpoints[r.binding][s])
               /\ r.report = Report(checkpoints[r.binding])
    <3>1. /\ r.binding \in Bindings /\ r.report = Report(checkpoints[r.binding])
          /\ \A s \in Symbols : checkpoints[r.binding][s] # None
      BY <1>1 DEF ScanInv, ReportsOk
    <3>2. checkpoints[r.binding] \in [Symbols -> Payloads \cup {None}]
      BY <1>1, <3>1 DEF ScanInv, Typed, TypeOK
    <3>3. \A s \in Symbols : Sound(r.binding, s, checkpoints[r.binding][s])
      BY <1>1, <3>1 DEF ScanInv, DiskOk
    <3> QED BY <3>1, <3>2, <3>3
  <2>2. ASSUME NEW r \in reports
        PROVE  \E read \in [Symbols -> Versions] : \A c \in Counters :
                  r.report.funnel[c] =
                    IF c = "source_error" THEN Slots * Cardinality(Symbols \ r.report.scanned)
                    ELSE SumFunction([s \in r.report.scanned |-> SlotsOf(c, r.binding[2], read[s], s)])
    <3> DEFINE b == r.binding
               merged == checkpoints[b]
    <3>1. /\ b \in Bindings /\ merged \in [Symbols -> Payloads] /\ r.report = Report(merged)
          /\ \A s \in Symbols : Sound(b, s, merged[s])
      BY <2>1
    <3> HIDE DEF b, merged
    <3>2. \E read \in [Symbols -> Versions] : \A c \in Counters :
            Report(merged).funnel[c] =
               IF c = "source_error" THEN Slots * Cardinality(Symbols \ Report(merged).scanned)
               ELSE SumFunction([s \in Report(merged).scanned |-> SlotsOf(c, b[2], read[s], s)])
      BY <1>1, <3>1, FunnelCounts DEF ScanInv
    <3> QED BY <3>1, <3>2, Zenon DEF b
  <2>3. ASSUME NEW r \in reports, r.binding[1] = "BOUND" PROVE r.report.status = "COMPLETE"
    <3>1. \A s \in Symbols : checkpoints[r.binding][s] \in Payloads
                             /\ Sound(r.binding, s, checkpoints[r.binding][s])
      BY <2>1
    <3>2. \A s \in Symbols : checkpoints[r.binding][s].anomaly = None
      BY <2>3, <3>1, NoneAssumption DEF Sound, Whole, Failed
    <3> DEFINE merged == checkpoints[r.binding]
    <3>3. ~ \E s \in Symbols : merged[s].anomaly # None
      BY <3>2
    <3>4. r.report = Report(merged)
      BY <2>1
    <3> HIDE DEF merged
    <3>5. Report(merged).status = IF \E s \in Symbols : merged[s].anomaly # None
                                  THEN "PARTIAL" ELSE "COMPLETE"
      BY DEF Report
    <3> QED BY <3>3, <3>4, <3>5
  <2>4. ASSUME NEW r \in reports
        PROVE  r.report.minutes = SumFunction([s \in Symbols |->
                Cardinality(UNION {WindowOf(a).from .. (WindowOf(a).upto - 1) :
                                   a \in Range(r.report.accepted[s])})])
    <3> DEFINE b == r.binding
               merged == checkpoints[b]
    <3>1. /\ merged \in [Symbols -> Payloads] /\ r.report = Report(merged)
          /\ \A s \in Symbols : Sound(b, s, merged[s])
      BY <2>1
    <3> HIDE DEF b, merged
    <3>2. Report(merged).minutes = SumFunction([s \in Symbols |->
            Cardinality(UNION {WindowOf(a).from .. (WindowOf(a).upto - 1) :
                               a \in Range(Report(merged).accepted[s])})])
      BY <3>1, MinutesOfReport
    <3> QED BY <3>1, <3>2, Zenon
  <2>5. \A p \in Procs : run[p].pc # "REFUSED"
    BY <1>1 DEF ScanInv, Refuses
  <2> QED BY <2>2, <2>3, <2>4, <2>5 DEF ReportCountsThePlanOnce
<1> QED BY <1>1, ScanIsSound, PTL

-----------------------------------------------------------------------------
(* The reconciliations of the ledgers. *)

Ledgered == {"LEDGER", "CREATING", "WRITING"}
LedgerOf(r) ==
  [scanned |-> Report(r.merged).scanned, records |-> Range(r.sink), version |-> r.version]

\* What is behind a run that is through, or at its ledger: its report was returned.
Behind(r, returned, ledgers) ==
  /\ r.pc # "IDLE" /\ r.mode = "UNBOUND" => r.candidate = Baseline
  /\ r.pc \in Ledgered \cup {"DONE"} =>
        [binding |-> BindingOf(r), report |-> Report(r.merged)] \in returned
  /\ r.pc \in Ledgered => r.mode = "UNBOUND" /\ LedgerOf(r) \in ledgers

\* What a reconciliation says is the verdict on a report of the ledger's own binding.
Reconciles(ledger, file, returned) ==
  \/ file \in {None, Torn}
  \/ \E a \in returned : /\ a.binding = << "UNBOUND", Baseline, ledger.version >>
                         /\ file = ReconciliationOf(ledger, a.report)

LedgerInv ==
  /\ \A p \in Procs : Behind(run[p], reports, DOMAIN reconciled)
  /\ \A l \in DOMAIN reconciled : Reconciles(l, reconciled[l], reports)

LEMMA BehindGrows ==
  ASSUME NEW r, NEW R, NEW S, NEW D, NEW E, R \subseteq S, D \subseteq E, Behind(r, R, D)
  PROVE  Behind(r, S, E)
BY DEF Behind

\* The numbers of the frozen baseline do not change, so no verdict does.
LEMMA ReconcilesStays ==
  ASSUME UNCHANGED trusted, reports \subseteq reports', NEW l, NEW file,
         Reconciles(l, file, reports)
  PROVE  (Reconciles(l, file, reports))'
<1>1. \A s : TrustedPayload(s)' = TrustedPayload(s)
  BY DEF TrustedPayload
<1>2. TrustedMerged' = TrustedMerged /\ TrustedRecords' = TrustedRecords
  BY <1>1 DEF TrustedMerged, TrustedRecords
<1>3. \A x : ReconciliationOf(l, x)' = ReconciliationOf(l, x)
  BY <1>1, <1>2 DEF ReconciliationOf, Verdict
<1> QED BY <1>3 DEF Reconciles

\* A step of one process that writes no reconciliation but, at most, an empty or
\* a torn one.
LEMMA LedgerStays ==
  ASSUME ScanInv, LedgerInv, UNCHANGED trusted, reports \subseteq reports', NEW p \in Procs,
         \A q \in Procs \ {p} : run'[q] = run[q],
         (Behind(run[p], reports, DOMAIN reconciled))',
         DOMAIN reconciled \subseteq DOMAIN reconciled',
         \A l \in DOMAIN reconciled' :
            \/ reconciled'[l] \in {None, Torn}
            \/ l \in DOMAIN reconciled /\ reconciled'[l] = reconciled[l]
  PROVE  LedgerInv'
<1>1. ASSUME NEW q \in Procs PROVE (Behind(run[q], reports, DOMAIN reconciled))'
  <2>1. CASE q = p
    BY <2>1
  <2>2. CASE q # p
    <3>1. Behind(run[q], reports, DOMAIN reconciled) /\ run'[q] = run[q]
      BY <2>2 DEF LedgerInv
    <3>2. Behind(run[q], reports', DOMAIN reconciled')
      BY <3>1, BehindGrows
    <3> QED BY <3>1, <3>2 DEF Behind, BindingOf, LedgerOf
  <2> QED BY <2>1, <2>2
<1>2. ASSUME NEW l \in DOMAIN reconciled' PROVE (Reconciles(l, reconciled[l], reports))'
  <2>1. CASE reconciled'[l] \in {None, Torn}
    BY <2>1 DEF Reconciles, Torn
  <2>2. CASE l \in DOMAIN reconciled /\ reconciled'[l] = reconciled[l]
    <3>1. PICK file : file = reconciled[l]
      OBVIOUS
    <3>2. Reconciles(l, file, reports) /\ reconciled'[l] = file
      BY <2>2, <3>1 DEF LedgerInv
    <3>3. (Reconciles(l, file, reports))'
      BY <3>2, ReconcilesStays
    <3> QED BY <3>2, <3>3 DEF Reconciles
  <2> QED BY <1>2, <2>1, <2>2
<1> QED BY <1>1, <1>2 DEF LedgerInv

\* A run that goes on at its ledger has the same ledger.
LEMMA LedgerGoesOn ==
  ASSUME ScanInv, LedgerInv, NEW p \in Procs, NEW pc \in Ledgered \cup {"RETURNED", "RAISED"},
         run[p].pc \in Ledgered, run' = [run EXCEPT ![p] = [run[p] EXCEPT !.pc = pc]],
         reports' = reports, DOMAIN reconciled \subseteq DOMAIN reconciled'
  PROVE  /\ \A q \in Procs \ {p} : run'[q] = run[q]
         /\ (Behind(run[p], reports, DOMAIN reconciled))'
         /\ Ledger(p) \in DOMAIN reconciled
<1>1. run \in [Procs -> RunType] /\ run[p] \in RunType
  BY DEF ScanInv, Typed, TypeOK
<1>2. PICK new : new = [run[p] EXCEPT !.pc = pc]
  OBVIOUS
<1>3. /\ new.pc = pc /\ new.mode = run[p].mode /\ new.candidate = run[p].candidate
      /\ new.version = run[p].version /\ new.merged = run[p].merged /\ new.sink = run[p].sink
  BY <1>1, <1>2 DEF RunType
<1>4. run'[p] = new /\ \A q \in Procs \ {p} : run'[q] = run[q]
  BY <1>1, <1>2
<1>5. Behind(run[p], reports, DOMAIN reconciled) /\ run[p].pc # "IDLE"
  BY DEF LedgerInv, Ledgered
<1>6. BindingOf(new) = BindingOf(run[p]) /\ LedgerOf(new) = LedgerOf(run[p])
  BY <1>3 DEF BindingOf, LedgerOf
<1>7. Behind(new, reports', DOMAIN reconciled')
  BY <1>3, <1>5, <1>6 DEF Behind
<1>8. (Behind(run[p], reports, DOMAIN reconciled))'
  BY <1>4, <1>7 DEF Behind, BindingOf, LedgerOf
<1>9. Ledger(p) \in DOMAIN reconciled
  BY <1>5 DEF Behind, LedgerOf, Ledger
<1> QED BY <1>4, <1>8, <1>9

LEMMA LedgerInvNext == ScanInv /\ LedgerInv /\ [Next]_vars => LedgerInv'
<1> SUFFICES ASSUME ScanInv, LedgerInv, [Next]_vars PROVE LedgerInv'
  OBVIOUS
<1>0. run \in [Procs -> RunType]
  BY DEF ScanInv, Typed, TypeOK
<1>1. ASSUME NEW p \in Procs, ScanStep(p), UNCHANGED consumerVars PROVE LedgerInv'
  <2>1. /\ \A q \in Procs \ {p} : run'[q] = run[q]
        /\ run'[p].mode = run[p].mode /\ run'[p].candidate = run[p].candidate
        /\ run'[p].version = run[p].version
        /\ run'[p].pc \in {"OPEN", "SCAN", "SAVE", "RAISED", "DONE"}
        /\ run'[p].pc = "DONE" => Finish(p)
    BY <1>1, OnlyFinishEnds
  <2>2. reports \subseteq reports'
    BY <1>1 DEF ScanStep, Restore, RestoreFails, Load, LoadFails, Slot, SlotRaises, Save, Finish
  <2>3. run[p].pc # "IDLE"
    BY <1>1 DEF ScanStep, Restore, RestoreFails, Load, LoadFails, Slot, SlotRaises, Save, Finish,
                Opening
  <2>4. run'[p].mode = "UNBOUND" => run'[p].candidate = Baseline
    BY <2>1, <2>3 DEF LedgerInv, Behind
  <2>5. ASSUME run'[p].pc = "DONE"
        PROVE  [binding |-> BindingOf(run'[p]), report |-> Report(run'[p].merged)] \in reports'
    <3>1. Finish(p)
      BY <2>1, <2>5
    <3>2. /\ run' = [run EXCEPT ![p] = [run[p] EXCEPT !.pc = "DONE"]]
          /\ reports' = reports \cup {[binding |-> Binding(p), report |-> Report(run[p].merged)]}
      BY <3>1, FinishHolds
    <3>3. run'[p].merged = run[p].merged
      BY <1>0, <3>2 DEF RunType
    <3>4. BindingOf(run'[p]) = Binding(p)
      BY <2>1 DEF BindingOf, Binding
    <3> QED BY <3>2, <3>3, <3>4
  <2>6. (Behind(run[p], reports, DOMAIN reconciled))'
    BY <2>1, <2>4, <2>5 DEF Behind, Ledgered, BindingOf
  <2> QED BY <1>1, <2>1, <2>2, <2>6, LedgerStays DEF consumerVars
<1>2. ASSUME NEW p \in Procs, RefuseCandidate(p) \/ Judge(p) \/ Exit(p) \/ KillProcess(p)
      PROVE  LedgerInv'
  <2>1. run' = [run EXCEPT ![p] = Idle] /\ UNCHANGED << trusted, reports, reconciled >>
    BY <1>2 DEF RefuseCandidate, Judge, Publish, Exit, KillProcess, Kill, Set, consumerVars
  <2>2. run'[p].pc = "IDLE" /\ \A q \in Procs \ {p} : run'[q] = run[q]
    BY <1>0, <2>1 DEF Idle
  <2>3. (Behind(run[p], reports, DOMAIN reconciled))'
    BY <2>2 DEF Behind, Ledgered
  <2> QED BY <2>1, <2>2, <2>3, LedgerStays
<1>3. ASSUME NEW p \in Procs, NEW mode, NEW candidate, Start(p, mode, candidate),
             mode = "UNBOUND" => candidate = Baseline, UNCHANGED << trusted, reconciled >>
      PROVE  LedgerInv'
  <2>1. PICK new : new = [Idle EXCEPT !.pc = "OPEN", !.mode = mode, !.candidate = candidate,
                                      !.version = source, !.position = 1]
    OBVIOUS
  <2>2. new.pc = "OPEN" /\ new.mode = mode /\ new.candidate = candidate
    BY <2>1 DEF Idle
  <2>3. run' = [run EXCEPT ![p] = new] /\ reports' = reports
    BY <1>3, <2>1 DEF Start, Set
  <2>4. run'[p] = new /\ \A q \in Procs \ {p} : run'[q] = run[q]
    BY <1>0, <2>3
  <2>5. (Behind(run[p], reports, DOMAIN reconciled))'
    BY <1>3, <2>2, <2>4 DEF Behind, Ledgered
  <2> QED BY <1>3, <2>3, <2>4, <2>5, LedgerStays
<1>4. ASSUME NEW p \in Procs, WriteLedger(p) PROVE LedgerInv'
  <2>1. PICK pc \in {"LEDGER", "RAISED"} :
           /\ run' = [run EXCEPT ![p] = [run[p] EXCEPT !.pc = pc]]
           /\ pc = "LEDGER" =>
                 reconciled' = [l \in DOMAIN reconciled \cup {Ledger(p)} |->
                                  IF l \in DOMAIN reconciled THEN reconciled[l] ELSE None]
           /\ pc = "RAISED" => reconciled' = reconciled
    BY <1>4 DEF WriteLedger, Raise, Set
  <2>2. /\ run[p].pc = "DONE" /\ ~Bound(p) /\ UNCHANGED << trusted, reports >>
    BY <1>4 DEF WriteLedger
  <2>3. PICK new : new = [run[p] EXCEPT !.pc = pc]
    OBVIOUS
  <2>4. /\ new.pc = pc /\ new.mode = run[p].mode /\ new.candidate = run[p].candidate
        /\ new.version = run[p].version /\ new.merged = run[p].merged /\ new.sink = run[p].sink
    BY <1>0, <2>3 DEF RunType
  <2>5. run'[p] = new /\ \A q \in Procs \ {p} : run'[q] = run[q]
    BY <1>0, <2>1, <2>3
  <2>6. run[p].mode = "UNBOUND"
    <3>1. Working(run[p]) /\ run[p].pc \in Scanning
      BY <2>2 DEF ScanInv, Typed, Scanning
    <3> QED BY <2>2, <3>1 DEF Bound, Working, Modes
  <2>7. Ledger(p) = LedgerOf(new) /\ BindingOf(new) = BindingOf(run[p])
    BY <2>4 DEF Ledger, LedgerOf, BindingOf
  <2>8. /\ DOMAIN reconciled \subseteq DOMAIN reconciled'
        /\ pc = "LEDGER" => Ledger(p) \in DOMAIN reconciled'
        /\ \A l \in DOMAIN reconciled' :
              \/ reconciled'[l] \in {None, Torn}
              \/ l \in DOMAIN reconciled /\ reconciled'[l] = reconciled[l]
    <3>1. CASE pc = "LEDGER"
      BY <2>1, <3>1
    <3>2. CASE pc = "RAISED"
      BY <2>1, <3>2
    <3> QED BY <2>1, <3>1, <3>2
  <2>9. Behind(new, reports', DOMAIN reconciled')
    <3>1. Behind(run[p], reports, DOMAIN reconciled)
      BY DEF LedgerInv
    <3>2. CASE pc = "LEDGER"
      BY <2>2, <2>4, <2>6, <2>7, <2>8, <3>1, <3>2 DEF Behind, Ledgered
    <3>3. CASE pc = "RAISED"
      BY <2>2, <2>4, <3>1, <3>3 DEF Behind, Ledgered
    <3> QED BY <2>1, <3>2, <3>3
  <2>10. (Behind(run[p], reports, DOMAIN reconciled))'
    BY <2>5, <2>9 DEF Behind, BindingOf, LedgerOf
  <2> QED BY <2>2, <2>5, <2>8, <2>10, LedgerStays
<1>5. ASSUME NEW p \in Procs, CompareReconciliation(p) \/ OpenReconciliation(p) PROVE LedgerInv'
  <2>1. PICK pc \in Ledgered \cup {"RETURNED", "RAISED"} :
           run' = [run EXCEPT ![p] = [run[p] EXCEPT !.pc = pc]]
    BY <1>5 DEF CompareReconciliation, OpenReconciliation, Raise, Set, Ledgered
  <2>2. /\ run[p].pc \in Ledgered /\ UNCHANGED << trusted, reports >>
        /\ reconciled' = reconciled \/ reconciled' = [reconciled EXCEPT ![Ledger(p)] = Torn]
    BY <1>5 DEF CompareReconciliation, OpenReconciliation, LedgerStep, SetFile, Ledgered
  <2>3. /\ DOMAIN reconciled \subseteq DOMAIN reconciled'
        /\ \A l \in DOMAIN reconciled' :
              \/ reconciled'[l] \in {None, Torn}
              \/ l \in DOMAIN reconciled /\ reconciled'[l] = reconciled[l]
    BY <2>2
  <2>4. /\ \A q \in Procs \ {p} : run'[q] = run[q]
        /\ (Behind(run[p], reports, DOMAIN reconciled))'
    BY <2>1, <2>2, <2>3, LedgerGoesOn
  <2> QED BY <2>2, <2>3, <2>4, LedgerStays
<1>6. ASSUME NEW p \in Procs, CloseReconciliation(p) PROVE LedgerInv'
  <2>1. /\ run' = [run EXCEPT ![p] = [run[p] EXCEPT !.pc = "RETURNED"]]
        /\ run[p].pc = "WRITING" /\ UNCHANGED << trusted, reports >>
        /\ reconciled' = [reconciled EXCEPT ![Ledger(p)] = Reconciliation(p)]
    BY <1>6 DEF CloseReconciliation, LedgerStep, SetFile, Set
  <2>2. DOMAIN reconciled' = DOMAIN reconciled
    BY <2>1
  <2>3. /\ \A q \in Procs \ {p} : run'[q] = run[q]
        /\ (Behind(run[p], reports, DOMAIN reconciled))'
        /\ Ledger(p) \in DOMAIN reconciled
    BY <2>1, <2>2, LedgerGoesOn DEF Ledgered
  <2>4. ASSUME NEW q \in Procs PROVE (Behind(run[q], reports, DOMAIN reconciled))'
    <3>1. Behind(run[q], reports, DOMAIN reconciled)
      BY DEF LedgerInv
    <3> QED BY <2>1, <2>2, <2>3, <3>1 DEF Behind, BindingOf, LedgerOf
  <2>5. ASSUME NEW l \in DOMAIN reconciled' PROVE (Reconciles(l, reconciled[l], reports))'
    <3>1. PICK file : file = reconciled'[l]
      OBVIOUS
    <3>2. CASE l = Ledger(p)
      <4>1. Behind(run[p], reports, DOMAIN reconciled)
        BY DEF LedgerInv
      <4>2. PICK a \in reports : /\ a.binding = << "UNBOUND", Baseline, run[p].version >>
                                 /\ a.report = Report(run[p].merged)
        BY <2>1, <4>1 DEF Behind, Ledgered, BindingOf
      <4>3. Ledger(p).version = run[p].version
        BY DEF Ledger
      <4>4. file = ReconciliationOf(l, a.report)
        BY <2>1, <2>3, <3>1, <3>2, <4>2 DEF Reconciliation
      <4>5. Reconciles(l, file, reports)
        BY <3>2, <4>2, <4>3, <4>4 DEF Reconciles
      <4> QED BY <2>1, <3>1, <4>5, ReconcilesStays DEF Reconciles
    <3>3. CASE l # Ledger(p)
      <4>1. Reconciles(l, file, reports)
        BY <2>1, <2>2, <3>1, <3>3 DEF LedgerInv
      <4> QED BY <2>1, <3>1, <4>1, ReconcilesStays DEF Reconciles
    <3> QED BY <3>2, <3>3
  <2> QED BY <2>4, <2>5 DEF LedgerInv
<1>7. ASSUME UNCHANGED << run, reports, trusted, reconciled >> PROVE LedgerInv'
  <2>1. ASSUME NEW q \in Procs PROVE (Behind(run[q], reports, DOMAIN reconciled))'
    BY <1>7 DEF LedgerInv, Behind, BindingOf, LedgerOf
  <2>2. ASSUME NEW l \in DOMAIN reconciled' PROVE (Reconciles(l, reconciled[l], reports))'
    <3>1. PICK file : file = reconciled[l]
      OBVIOUS
    <3>2. Reconciles(l, file, reports)
      BY <1>7, <3>1 DEF LedgerInv
    <3> QED BY <1>7, <3>1, <3>2, ReconcilesStays DEF Reconciles
  <2> QED BY <2>1, <2>2 DEF LedgerInv
<1>8. CASE UNCHANGED vars
  BY <1>7, <1>8 DEF vars, scanVars
<1>9. CASE ChangeSources /\ UNCHANGED consumerVars
  BY <1>7, <1>9 DEF ChangeSources, consumerVars
<1>10. ASSUME NEW p \in Procs, BeginLedger(p) PROVE LedgerInv'
  BY <1>3, <1>10 DEF BeginLedger, consumerVars
<1>11. ASSUME NEW p \in Procs, NEW candidate \in Candidates, BeginStageA(p, candidate)
       PROVE  LedgerInv'
  BY <1>3, <1>11 DEF BeginStageA
<1> QED BY <1>1, <1>2, <1>4, <1>5, <1>6, <1>8, <1>9, <1>10, <1>11 DEF Next, Process

\* The ledger scripts: every run that makes one ledger makes one reconciliation of
\* it, so a later run is refused only over a file that a kill left torn.
THEOREM ReconciliationsAlwaysAgree == Spec => []ReconciliationsAgree
<1>1. Init => LedgerInv
  BY DEF Init, ScanInit, LedgerInv, Behind, Ledgered, Idle
<1>2. ScanInv /\ LedgerInv => ReconciliationsAgree
  <2> SUFFICES ASSUME ScanInv, LedgerInv, NEW p \in Procs, run[p].pc \in Ledgered
               PROVE  File(p) \in {None, Torn, Reconciliation(p)}
    BY DEF ReconciliationsAgree, Ledgered
  <2>1. Behind(run[p], reports, DOMAIN reconciled)
    BY DEF LedgerInv
  <2>2. PICK a \in reports : /\ a.binding = << "UNBOUND", Baseline, run[p].version >>
                             /\ a.report = Report(run[p].merged)
    BY <2>1 DEF Behind, Ledgered, BindingOf
  <2>3. Ledger(p) \in DOMAIN reconciled /\ Ledger(p).version = run[p].version
    BY <2>1 DEF Behind, LedgerOf, Ledger
  <2>4. Reconciles(Ledger(p), File(p), reports)
    BY <2>3 DEF LedgerInv, File
  <2>5. CASE File(p) \in {None, Torn}
    BY <2>5
  <2>6. ASSUME NEW b \in reports, b.binding = << "UNBOUND", Baseline, Ledger(p).version >>,
               File(p) = ReconciliationOf(Ledger(p), b.report)
        PROVE  File(p) = Reconciliation(p)
    <3>1. a.report = b.report
      BY <2>2, <2>3, <2>6 DEF ScanInv, ReportsOk
    <3> QED BY <2>2, <2>6, <3>1 DEF Reconciliation
  <2> QED BY <2>4, <2>5, <2>6 DEF Reconciles
<1> QED BY <1>1, <1>2, LedgerInvNext, ScanIsSound, PTL DEF Spec

=============================================================================
