------------------------- MODULE ResearchChain_proofs -------------------------
(***************************************************************************)
(* Proofs about the steps of a DEV study before and after its replays, for *)
(* any worlds, executors, publishers, readers, manifests, registries of    *)
(* rules and reports of requests, and any number of kills, stops and files *)
(* damaged from outside. The last part follows the requests of a report    *)
(* from the plan of their downloads to the preflight of their replays.     *)
(***************************************************************************)
EXTENDS LifecycleExecution, RunPublication, ReplayCheckpoint, RuleAudit, ReplayPrep,
        SequenceTheorems, FoldTheorems

-----------------------------------------------------------------------------
(* LifecycleExecution *)

ExecutionSteps == {"IDLE", "CHECK", "READ", "STAGE", "PUBLISH", "LEAVING", "RAISING",
          "REMOVING", "REMOVING_RAISED", "RECEIPT"}
ArchiveStates == {"PLANNED", "CHANGED"}
Derivatives == Outputs(Builds) \cup Outputs({"ANY"})

ExecutionTypeOK ==
  /\ world \in Worlds /\ build \in [Executors -> Builds]
  /\ sources \in [Intervals -> ArchiveStates]
  /\ step \in [Executors -> ExecutionSteps] /\ turn \in [Executors -> 1 .. 4]
  /\ frame \in [Executors -> ArchiveStates]
  /\ staging \in BOOLEAN /\ crashes \in Nat
  /\ derivatives \in [Intervals -> Derivatives \cup {Unpublished}]

\* Nothing is done before there is a plan.
Quiet ==
  remediation = Unplanned =>
    executions = {} /\ \A p \in Executors : step[p] = "IDLE" /\ turn[p] = 1

\* What is about to be published was read from the audited archives.
Audited == \A p \in Executors : step[p] \in {"STAGE", "PUBLISH"} => frame[p] = "PLANNED"

Ended(p) == step[p] \in {"LEAVING", "REMOVING", "RECEIPT"}
Behind(p, k) == k < turn[p] \/ Ended(p)

\* Every action an executor has behind it is on disk, as it would publish it again.
OnDisk ==
  \A p \in Executors, k \in 1 .. 4 :
    Behind(p, k) => derivatives[Turns[k]] = OutputOf(p, Turns[k], "PLANNED")

\* A receipt exists only when nothing can be published any more.
Settled ==
  /\ executions \subseteq {derivatives} /\ overlay \subseteq executions
  /\ executions # {} => \A i \in Intervals : derivatives[i] # Unpublished

FromPlan == \A i \in Intervals : derivatives[i] # Unpublished => derivatives[i].source = "PLANNED"

\* The staging directory belongs to somebody, and so does what lies in it.
Busy(p) == step[p] \notin {"IDLE", "RECEIPT"}
Owned ==
  /\ \A q \in staged : (q \in Executors /\ step[q] = "PUBLISH") \/ (q = Leftover /\ crashes > 0)
  /\ staging => crashes > 0 \/ \E p \in Executors : Busy(p)

ExecutionInv == ExecutionTypeOK /\ Quiet /\ Audited /\ OnDisk /\ Settled /\ FromPlan /\ Owned

-----------------------------------------------------------------------------
(* Outputs *)

LEMMA TurnsAreIntervals ==
  /\ Len(Turns) = 4
  /\ \A k \in 1 .. 4 : Turns[k] \in Intervals
  /\ \A j, k \in 1 .. 4 : Turns[j] = Turns[k] => j = k
  /\ \A i \in Intervals : \E k \in 1 .. 4 : Turns[k] = i
<1>1. Len(Turns) = 4 /\ Turns[1] = "15m" /\ Turns[2] = "1d" /\ Turns[3] = "1h" /\ Turns[4] = "4h"
  BY DEF Turns
<1>2. \A k \in 1 .. 4 : k = 1 \/ k = 2 \/ k = 3 \/ k = 4
  OBVIOUS
<1>3. Intervals = {"15m", "1h", "4h", "1d"}
  BY DEF Intervals, Intraday
<1>4. \A k \in 1 .. 4 : Turns[k] \in Intervals
  BY <1>1, <1>2, <1>3
<1>5. \A j, k \in 1 .. 4 : Turns[j] = Turns[k] => j = k
  <2> SUFFICES ASSUME NEW j \in 1 .. 4, NEW k \in 1 .. 4, Turns[j] = Turns[k] PROVE j = k
    OBVIOUS
  <2> QED BY <1>1, <1>2
<1>6. \A i \in Intervals : \E k \in 1 .. 4 : Turns[k] = i
  <2>1. 1 \in 1 .. 4 /\ 2 \in 1 .. 4 /\ 3 \in 1 .. 4 /\ 4 \in 1 .. 4
    OBVIOUS
  <2> QED BY <1>1, <1>3, <2>1
<1> QED BY <1>1, <1>4, <1>5, <1>6

\* The opens of an archive's rows are numbers.
LEMMA RowsAreAtNumbers ==
  ASSUME NEW w \in Worlds, NEW i \in Intervals
  PROVE  DOMAIN Archives[w]["PRIMARY"][i] \subseteq Int
<1> DEFINE traded == Traded(w, "PRIMARY")
<1>1. Archives[w]["PRIMARY"][i] = RowsOf(w, "PRIMARY", i)
  BY DEF Archives, Names
<1>2. DOMAIN RowsOf(w, "PRIMARY", i) = {Floor(x[2], i) : x \in traded}
  BY DEF RowsOf
<1>3. \A x \in traded : x[2] \in 0 .. MonthEnd - 1
  BY DEF Traded
<1>4. Step[i] \in Nat \ {0}
  BY CutoffAssumption DEF Intervals, Intraday
<1>5. \A x \in traded : Floor(x[2], i) \in Int
  BY <1>3, <1>4, CutoffAssumption DEF Floor
<1> QED BY <1>1, <1>2, <1>5

LEMMA OutputsAreDerivatives ==
  ASSUME ExecutionTypeOK, NEW p \in Executors, NEW i \in Intervals, NEW source \in ArchiveStates
  PROVE  /\ OutputOf(p, i, source) \in Derivatives
         /\ OutputOf(p, i, source) # Unpublished
         /\ OutputOf(p, i, source).source = source
<1> DEFINE kept == Retained(remediation[i], Primary(i))
<1>1. kept \subseteq Int
  BY RowsAreAtNumbers DEF Retained, Primary, ExecutionTypeOK
<1>2. build[p] \in Builds
  BY DEF ExecutionTypeOK
<1>3. OutputOf(p, i, source) = [source |-> source, kept |-> kept,
                                build |-> IF kept = {} THEN "ANY" ELSE build[p]]
  BY DEF OutputOf
<1> HIDE DEF kept
<1>4. OutputOf(p, i, source) \in Derivatives
  <2>1. CASE kept = {}
    BY <1>1, <1>3, <2>1 DEF Derivatives, Outputs, ArchiveStates
  <2>2. CASE kept # {}
    BY <1>1, <1>2, <1>3, <2>2 DEF Derivatives, Outputs, ArchiveStates
  <2> QED BY <2>1, <2>2
<1>5. Unpublished \notin Derivatives
  BY ExecutionAssumption DEF Derivatives
<1> QED BY <1>3, <1>4, <1>5

\* A step that leaves plan, builds and archives alone leaves the outputs alone.
LEMMA OutputsAreFixed ==
  ASSUME UNCHANGED given, NEW p, NEW i, NEW source
  PROVE  OutputOf(p, i, source)' = OutputOf(p, i, source)
BY DEF given, OutputOf, Retained, Primary

-----------------------------------------------------------------------------
(* The invariant is kept *)

LEMMA ExecutionInitHolds == LifecycleInit => ExecutionInv
<1> SUFFICES ASSUME LifecycleInit PROVE ExecutionInv
  OBVIOUS
<1>1. ExecutionTypeOK
  <2>1. world \in Worlds /\ build \in [Executors -> Builds] /\ staging \in BOOLEAN /\ crashes \in Nat
    BY DEF LifecycleInit
  <2>2. sources \in [Intervals -> ArchiveStates] /\ frame \in [Executors -> ArchiveStates]
    BY DEF LifecycleInit, ArchiveStates
  <2>3. step \in [Executors -> ExecutionSteps] /\ turn \in [Executors -> 1 .. 4]
    BY DEF LifecycleInit, ExecutionSteps
  <2>4. derivatives \in [Intervals -> Derivatives \cup {Unpublished}]
    BY DEF LifecycleInit
  <2> QED BY <2>1, <2>2, <2>3, <2>4 DEF ExecutionTypeOK
<1>2. Quiet /\ Audited /\ Settled /\ FromPlan /\ Owned
  BY DEF LifecycleInit, Quiet, Audited, Settled, FromPlan, Owned
<1>3. OnDisk
  BY DEF LifecycleInit, OnDisk, Behind, Ended
<1> QED BY <1>1, <1>2, <1>3 DEF ExecutionInv

\* When an executor moves without publishing, what it has behind it stays so, as
\* long as it does not pretend to have ended.
LEMMA MoveKeepsDisk ==
  ASSUME ExecutionInv, UNCHANGED <<given, published>>, NEW p \in Executors, NEW s \in ExecutionSteps,
         Goto(p, s),
         \/ UNCHANGED turn /\ (s \in {"LEAVING", "REMOVING", "RECEIPT"} => Ended(p))
         \/ turn' = [turn EXCEPT ![p] = 1] /\ s = "CHECK"
  PROVE  OnDisk' /\ Settled' /\ FromPlan'
<1>1. ASSUME NEW q \in Executors, NEW k \in 1 .. 4, Behind(q, k)' PROVE Behind(q, k)
  <2>1. q # p => step'[q] = step[q] /\ turn'[q] = turn[q]
    BY DEF ExecutionInv, ExecutionTypeOK, Goto
  <2>2. step'[p] = s
    BY DEF ExecutionInv, ExecutionTypeOK, Goto
  <2>3. turn'[p] = turn[p] \/ (turn'[p] = 1 /\ s = "CHECK")
    BY DEF ExecutionInv, ExecutionTypeOK
  <2>4. CASE q # p
    BY <1>1, <2>1, <2>4 DEF Behind, Ended
  <2>5. CASE q = p
    <3>1. k < turn'[p] => k < turn[p]
      BY <2>3 DEF ExecutionInv, ExecutionTypeOK
    <3>2. s \in {"LEAVING", "REMOVING", "RECEIPT"} => Ended(p)
      OBVIOUS
    <3>3. k < turn'[p] \/ step'[p] \in {"LEAVING", "REMOVING", "RECEIPT"}
      BY <1>1, <2>5 DEF Behind, Ended
    <3> QED BY <2>2, <2>5, <3>1, <3>2, <3>3 DEF Behind
  <2> QED BY <2>4, <2>5
<1>2. OnDisk'
  <2> SUFFICES ASSUME NEW q \in Executors, NEW k \in 1 .. 4, Behind(q, k)'
               PROVE  derivatives'[Turns[k]] = OutputOf(q, Turns[k], "PLANNED")'
    BY DEF OnDisk, Turns
  <2>1. derivatives'[Turns[k]] = OutputOf(q, Turns[k], "PLANNED")
    BY <1>1 DEF ExecutionInv, OnDisk, published
  <2> QED BY <2>1, OutputsAreFixed
<1>3. Settled' /\ FromPlan'
  BY DEF ExecutionInv, Settled, FromPlan, published
<1> QED BY <1>2, <1>3

LEMMA PlanKeeps == ASSUME ExecutionInv, PlanRemediation PROVE ExecutionInv'
<1> USE DEF PlanRemediation, running, scratch, published, events
<1>1. ExecutionTypeOK'
  BY DEF ExecutionInv, ExecutionTypeOK
<1>2. Quiet' /\ Audited' /\ Settled' /\ FromPlan' /\ Owned'
  BY DEF ExecutionInv, Quiet, Audited, Settled, FromPlan, Owned, Busy
<1>3. OnDisk'
  BY DEF ExecutionInv, Quiet, OnDisk, Behind, Ended
<1> QED BY <1>1, <1>2, <1>3 DEF ExecutionInv

LEMMA AuthorizeKeeps == ASSUME ExecutionInv, NEW p \in Executors, Authorize(p) PROVE ExecutionInv'
<1> USE DEF Authorize, given, published, events
<1>1. ExecutionTypeOK'
  BY DEF ExecutionInv, ExecutionTypeOK, Goto, ExecutionSteps
<1>2. Quiet' /\ Audited'
  BY DEF ExecutionInv, ExecutionTypeOK, Quiet, Audited, Goto
<1>3. OnDisk' /\ Settled' /\ FromPlan'
  BY MoveKeepsDisk DEF ExecutionSteps
<1>4. Owned'
  BY DEF ExecutionInv, ExecutionTypeOK, Owned, Busy, Goto
<1> QED BY <1>1, <1>2, <1>3, <1>4 DEF ExecutionInv

LEMMA CheckKeeps == ASSUME ExecutionInv, NEW p \in Executors, CheckArchive(p) PROVE ExecutionInv'
<1> DEFINE s == IF sources[Interval(p)] = "PLANNED" THEN "READ" ELSE "RAISING"
<1>0. s \in {"READ", "RAISING"} /\ Goto(p, s)
  BY DEF CheckArchive
<1> HIDE DEF s
<1> USE DEF CheckArchive, given, scratch, published, events
<1>1. ExecutionTypeOK'
  BY <1>0 DEF ExecutionInv, ExecutionTypeOK, Goto, ExecutionSteps
<1>2. Quiet' /\ Audited'
  BY <1>0 DEF ExecutionInv, ExecutionTypeOK, Quiet, Audited, Goto
<1>3. OnDisk' /\ Settled' /\ FromPlan'
  BY <1>0, MoveKeepsDisk DEF ExecutionSteps
<1>4. Owned'
  BY <1>0 DEF ExecutionInv, ExecutionTypeOK, Owned, Busy, Goto
<1> QED BY <1>1, <1>2, <1>3, <1>4 DEF ExecutionInv

LEMMA ReadRowsKeeps == ASSUME ExecutionInv, NEW p \in Executors, ReadRows(p) PROVE ExecutionInv'
<1>0. PICK s \in {"RAISING", "PUBLISH", "STAGE"} :
        Goto(p, s) /\ (s # "RAISING" => RowsMatch(sources[Interval(p)]))
  BY DEF ReadRows
<1>5. Interval(p) \in Intervals
  BY TurnsAreIntervals DEF ExecutionInv, ExecutionTypeOK, Interval
<1>6. frame' = [frame EXCEPT ![p] = sources[Interval(p)]] /\ step[p] = "READ"
  BY DEF ReadRows
<1>7. UNCHANGED <<given, sources, turn, scratch, published, events>>
  BY DEF ReadRows
<1> USE DEF given, scratch, published, events
<1>1. ExecutionTypeOK'
  BY <1>0, <1>5, <1>6, <1>7 DEF ExecutionInv, ExecutionTypeOK, Goto, ExecutionSteps
<1>2. Quiet'
  BY <1>0, <1>6, <1>7 DEF ExecutionInv, ExecutionTypeOK, Quiet, Goto
<1>8. Audited'
  BY <1>0, <1>6 DEF ExecutionInv, ExecutionTypeOK, Audited, Goto, RowsMatch
<1>3. OnDisk' /\ Settled' /\ FromPlan'
  BY <1>0, <1>7, MoveKeepsDisk DEF ExecutionSteps
<1>4. Owned'
  BY <1>0, <1>6, <1>7 DEF ExecutionInv, ExecutionTypeOK, Owned, Busy, Goto
<1> QED BY <1>1, <1>2, <1>3, <1>4, <1>8 DEF ExecutionInv

LEMMA StageKeeps == ASSUME ExecutionInv, NEW p \in Executors, StageOutput(p) PROVE ExecutionInv'
<1> DEFINE s == IF staging THEN "PUBLISH" ELSE "RAISING"
<1>0. s \in {"PUBLISH", "RAISING"} /\ Goto(p, s) /\ (s = "PUBLISH" => staging)
  BY DEF StageOutput
<1>5. step[p] = "STAGE" /\ UNCHANGED <<given, sources, turn, frame, staging, published, events>>
  BY DEF StageOutput
<1>6. \A q \in staged' : q \in staged \/ (q = p /\ s = "PUBLISH")
  BY DEF StageOutput
<1> HIDE DEF s
<1> USE DEF given, published, events
<1>1. ExecutionTypeOK'
  BY <1>0, <1>5 DEF ExecutionInv, ExecutionTypeOK, Goto, ExecutionSteps
<1>2. Quiet' /\ Audited'
  BY <1>0, <1>5 DEF ExecutionInv, ExecutionTypeOK, Quiet, Audited, Goto
<1>3. OnDisk' /\ Settled' /\ FromPlan'
  BY <1>0, <1>5, MoveKeepsDisk DEF ExecutionSteps
<1>4. Owned'
  <2>1. \A q \in Executors : step'[q] = IF q = p THEN s ELSE step[q]
    BY <1>0 DEF ExecutionInv, ExecutionTypeOK, Goto
  <2>2. \A q \in staged' : (q \in Executors /\ step'[q] = "PUBLISH") \/ (q = Leftover /\ crashes' > 0)
    BY <1>0, <1>5, <1>6, <2>1 DEF ExecutionInv, Owned
  <2>3. staging' => crashes' > 0 \/ \E q \in Executors : Busy(q)'
    BY <1>0, <1>5, <2>1 DEF ExecutionInv, Owned, Busy
  <2> QED BY <2>2, <2>3 DEF Owned
<1> QED BY <1>1, <1>2, <1>3, <1>4 DEF ExecutionInv

LEMMA LookKeeps == ASSUME ExecutionInv, NEW p \in Executors, LookIntoStaging(p) PROVE ExecutionInv'
<1>0. PICK s \in {"REMOVING", "REMOVING_RAISED", "RECEIPT", "IDLE"} :
        /\ Goto(p, s)
        /\ s \in {"REMOVING", "RECEIPT"} => Ended(p)
        /\ s \in {"RECEIPT", "IDLE"} => ~staging \/ staged # {}
  BY DEF LookIntoStaging, Ended
<1>5. /\ step[p] \in {"LEAVING", "RAISING"}
      /\ UNCHANGED <<given, sources, turn, frame, scratch, published, events>>
  BY DEF LookIntoStaging
<1> USE DEF given, scratch, published, events
<1>1. ExecutionTypeOK'
  BY <1>0, <1>5 DEF ExecutionInv, ExecutionTypeOK, Goto, ExecutionSteps
<1>2. Quiet' /\ Audited'
  BY <1>0, <1>5 DEF ExecutionInv, ExecutionTypeOK, Quiet, Audited, Goto
<1>3. OnDisk' /\ Settled' /\ FromPlan'
  BY <1>0, <1>5, MoveKeepsDisk DEF ExecutionSteps
<1>4. Owned'
  BY <1>0, <1>5 DEF ExecutionInv, ExecutionTypeOK, Owned, Busy, Goto
<1> QED BY <1>1, <1>2, <1>3, <1>4 DEF ExecutionInv

LEMMA RemoveKeeps == ASSUME ExecutionInv, NEW p \in Executors, RemoveStaging(p) PROVE ExecutionInv'
<1> DEFINE succeeds == staging /\ staged = {}
<1>0. PICK s \in {"RECEIPT", "IDLE"} : Goto(p, s) /\ (s = "RECEIPT" => Ended(p))
  BY DEF RemoveStaging, Ended
<1>5. /\ step[p] \in {"REMOVING", "REMOVING_RAISED"}
      /\ staging' = IF succeeds THEN FALSE ELSE staging
      /\ UNCHANGED <<given, sources, turn, frame, staged, published, events>>
  BY DEF RemoveStaging
<1> USE DEF given, published, events
<1>1. ExecutionTypeOK'
  BY <1>0, <1>5 DEF ExecutionInv, ExecutionTypeOK, Goto, ExecutionSteps
<1>2. Quiet' /\ Audited'
  BY <1>0, <1>5 DEF ExecutionInv, ExecutionTypeOK, Quiet, Audited, Goto
<1>3. OnDisk' /\ Settled' /\ FromPlan'
  BY <1>0, <1>5, MoveKeepsDisk DEF ExecutionSteps
<1>4. Owned'
  BY <1>0, <1>5 DEF ExecutionInv, ExecutionTypeOK, Owned, Busy, Goto
<1> QED BY <1>1, <1>2, <1>3, <1>4 DEF ExecutionInv

\* A file is published: the first of an action, from the audited rows, or the same again.
LEMMA PublishOutputKeeps == ASSUME ExecutionInv, NEW p \in Executors, PublishOutput(p) PROVE ExecutionInv'
<1> DEFINE i == Interval(p)
           output == OutputOf(p, i, "PLANNED")
           agrees == Agrees(i, output)
           last == turn[p] = 4
           s == IF ~agrees THEN "RAISING" ELSE IF last THEN "LEAVING" ELSE "CHECK"
<1>1. step[p] = "PUBLISH" /\ frame[p] = "PLANNED"
  BY DEF PublishOutput, ExecutionInv, Audited
<1>2. turn[p] \in 1 .. 4 /\ i \in Intervals /\ i = Turns[turn[p]] /\ Len(Turns) = 4
  BY TurnsAreIntervals DEF ExecutionInv, ExecutionTypeOK, Interval
<1>3. /\ derivatives' = IF agrees THEN [derivatives EXCEPT ![i] = output] ELSE derivatives
      /\ staged' = staged \ {p}
      /\ Goto(p, s)
      /\ turn' = IF agrees /\ ~last THEN [turn EXCEPT ![p] = @ + 1] ELSE turn
      /\ UNCHANGED <<given, sources, frame, staging, executions, overlay, events>>
  BY <1>1, <1>2 DEF PublishOutput
<1>4. agrees <=> derivatives[i] \in {Unpublished, output}
  BY DEF Agrees
<1>5. output \in Derivatives /\ output # Unpublished /\ output.source = "PLANNED"
  BY <1>2, OutputsAreDerivatives DEF ExecutionInv, ArchiveStates
<1>6. \A q \in Executors : \A j : OutputOf(q, j, "PLANNED")' = OutputOf(q, j, "PLANNED")
  BY <1>3, OutputsAreFixed
<1>7. output = OutputOf(p, Turns[turn[p]], "PLANNED")
  BY <1>2
<1>8. s \in {"RAISING", "LEAVING", "CHECK"} /\ (s = "LEAVING" => agrees /\ last)
  OBVIOUS
<1> HIDE DEF i, output, agrees, last, s
<1> USE DEF given, events
<1>9. \A j \in Intervals : derivatives'[j] = IF j = i /\ agrees THEN output ELSE derivatives[j]
  BY <1>2, <1>3 DEF ExecutionInv, ExecutionTypeOK
<1>10. \A q \in Executors : step'[q] = IF q = p THEN s ELSE step[q]
  BY <1>3 DEF ExecutionInv, ExecutionTypeOK, Goto
<1>11. \A q \in Executors : turn'[q] = IF q = p /\ agrees /\ ~last THEN turn[p] + 1 ELSE turn[q]
  BY <1>3 DEF ExecutionInv, ExecutionTypeOK
<1>12. \A j \in Intervals : derivatives[j] # Unpublished => derivatives'[j] = derivatives[j]
  BY <1>4, <1>9
<1>13. ExecutionTypeOK'
  <2>1. step' \in [Executors -> ExecutionSteps]
    BY <1>3, <1>8 DEF ExecutionInv, ExecutionTypeOK, Goto, ExecutionSteps
  <2>2. turn' \in [Executors -> 1 .. 4]
    BY <1>2, <1>3 DEF ExecutionInv, ExecutionTypeOK, last
  <2>3. derivatives' \in [Intervals -> Derivatives \cup {Unpublished}]
    BY <1>3, <1>5 DEF ExecutionInv, ExecutionTypeOK
  <2> QED BY <1>3, <2>1, <2>2, <2>3 DEF ExecutionInv, ExecutionTypeOK
<1>14. Quiet' /\ Audited'
  BY <1>1, <1>3, <1>8, <1>10 DEF ExecutionInv, Quiet, Audited
<1>15. FromPlan'
  BY <1>5, <1>9 DEF ExecutionInv, FromPlan
<1>16. Settled'
  <2>1. CASE executions = {}
    BY <1>3, <2>1 DEF ExecutionInv, Settled
  <2>2. CASE executions # {}
    <3>1. \A j \in Intervals : derivatives'[j] = derivatives[j]
      BY <1>12, <2>2 DEF ExecutionInv, Settled
    <3>2. derivatives' = derivatives
      BY <1>13, <3>1 DEF ExecutionInv, ExecutionTypeOK
    <3> QED BY <1>3, <3>2 DEF ExecutionInv, Settled
  <2> QED BY <2>1, <2>2
<1>17. OnDisk'
  <2> SUFFICES ASSUME NEW q \in Executors, NEW k \in 1 .. 4, Behind(q, k)'
               PROVE  derivatives'[Turns[k]] = OutputOf(q, Turns[k], "PLANNED")'
    BY DEF OnDisk, Turns
  <2>1. SUFFICES derivatives'[Turns[k]] = OutputOf(q, Turns[k], "PLANNED")
    BY <1>6
  <2>2. Turns[k] \in Intervals
    BY TurnsAreIntervals
  <2>3. CASE Behind(q, k)
    <3>1. derivatives[Turns[k]] = OutputOf(q, Turns[k], "PLANNED")
      BY <2>3 DEF ExecutionInv, OnDisk
    <3>2. derivatives[Turns[k]] # Unpublished
      BY <2>2, <3>1, OutputsAreDerivatives DEF ExecutionInv, ArchiveStates
    <3> QED BY <1>12, <2>2, <3>1, <3>2
  <2>4. CASE ~Behind(q, k)
    <3>1. k < turn'[q] \/ step'[q] \in {"LEAVING", "REMOVING", "RECEIPT"}
      BY DEF Behind, Ended
    <3>2. ~(k < turn[q]) /\ ~(step[q] \in {"LEAVING", "REMOVING", "RECEIPT"})
      BY <2>4 DEF Behind, Ended
    <3>3. q = p
      BY <1>10, <1>11, <3>1, <3>2
    <3>4. agrees
      BY <1>8, <1>10, <1>11, <3>1, <3>2, <3>3
    <3>5. k = turn[p]
      <4>1. CASE last
        BY <1>2, <3>2, <3>3, <4>1 DEF last
      <4>2. CASE ~last
        BY <1>2, <1>8, <1>10, <1>11, <3>1, <3>2, <3>3, <3>4, <4>2
      <4> QED BY <4>1, <4>2
    <3> QED BY <1>2, <1>7, <1>9, <3>3, <3>4, <3>5
  <2> QED BY <2>3, <2>4
<1>18. Owned'
  <2>1. \A q \in staged' : (q \in Executors /\ step'[q] = "PUBLISH") \/ (q = Leftover /\ crashes' > 0)
    BY <1>3, <1>10 DEF ExecutionInv, Owned
  <2>2. Busy(p)'
    BY <1>8, <1>10 DEF Busy
  <2> QED BY <2>1, <2>2 DEF Owned
<1> QED BY <1>13, <1>14, <1>15, <1>16, <1>17, <1>18 DEF ExecutionInv

\* The receipt lists what is published: every action is behind its executor.
LEMMA ReceiptKeeps == ASSUME ExecutionInv, NEW p \in Executors, PublishReceipt(p) PROVE ExecutionInv'
<1> DEFINE receipt == [i \in Intervals |-> OutputOf(p, i, "PLANNED")]
<1>1. /\ step[p] = "RECEIPT" /\ executions' = executions \cup {receipt} /\ Goto(p, "IDLE")
      /\ UNCHANGED <<given, sources, turn, frame, scratch, derivatives, overlay, events>>
  BY DEF PublishReceipt
<1>2. ASSUME NEW i \in Intervals
      PROVE  derivatives[i] = OutputOf(p, i, "PLANNED") /\ derivatives[i] # Unpublished
  <2>1. PICK k \in 1 .. 4 : Turns[k] = i
    BY TurnsAreIntervals
  <2>2. Behind(p, k)
    BY <1>1 DEF Behind, Ended
  <2>3. derivatives[i] = OutputOf(p, i, "PLANNED")
    BY <2>1, <2>2 DEF ExecutionInv, OnDisk
  <2> QED BY <2>3, OutputsAreDerivatives DEF ExecutionInv, ArchiveStates
<1>3. receipt = derivatives
  BY <1>2 DEF ExecutionInv, ExecutionTypeOK
<1> HIDE DEF receipt
<1> USE DEF given, scratch, events
<1>4. \A q \in Executors : step'[q] = IF q = p THEN "IDLE" ELSE step[q]
  BY <1>1 DEF ExecutionInv, ExecutionTypeOK, Goto
<1>5. ExecutionTypeOK'
  BY <1>1 DEF ExecutionInv, ExecutionTypeOK, Goto, ExecutionSteps
<1>6. remediation # Unplanned
  BY <1>1 DEF ExecutionInv, Quiet
<1>7. Quiet' /\ Audited'
  BY <1>1, <1>4, <1>6 DEF ExecutionInv, Quiet, Audited
<1>8. Settled' /\ FromPlan'
  BY <1>1, <1>2, <1>3 DEF ExecutionInv, Settled, FromPlan
<1>9. OnDisk'
  <2> SUFFICES ASSUME NEW q \in Executors, NEW k \in 1 .. 4, Behind(q, k)'
               PROVE  derivatives'[Turns[k]] = OutputOf(q, Turns[k], "PLANNED")'
    BY DEF OnDisk, Turns
  <2>1. Behind(q, k)
    BY <1>1, <1>4 DEF Behind, Ended
  <2>2. OutputOf(q, Turns[k], "PLANNED")' = OutputOf(q, Turns[k], "PLANNED")
    BY <1>1, OutputsAreFixed
  <2> QED BY <1>1, <2>1, <2>2 DEF ExecutionInv, OnDisk
<1>10. Owned'
  BY <1>1, <1>4 DEF ExecutionInv, Owned, Busy
<1> QED BY <1>5, <1>7, <1>8, <1>9, <1>10 DEF ExecutionInv

LEMMA CrashKeeps == ASSUME ExecutionInv, NEW p \in Executors, Crash(p) PROVE ExecutionInv'
<1>1. /\ crashes' = crashes + 1 /\ Goto(p, "IDLE")
      /\ UNCHANGED <<given, sources, turn, frame, staging, published, swaps>>
      /\ \A q \in staged' : q = Leftover \/ (q \in staged /\ q # p)
  BY DEF Crash
<1> USE DEF given, published
<1>2. \A q \in Executors : step'[q] = IF q = p THEN "IDLE" ELSE step[q]
  BY <1>1 DEF ExecutionInv, ExecutionTypeOK, Goto
<1>3. ExecutionTypeOK'
  BY <1>1 DEF ExecutionInv, ExecutionTypeOK, Goto, ExecutionSteps
<1>4. Quiet' /\ Audited'
  BY <1>1, <1>2 DEF ExecutionInv, Quiet, Audited
<1>5. OnDisk' /\ Settled' /\ FromPlan'
  BY <1>1, MoveKeepsDisk DEF ExecutionSteps
<1>6. Owned'
  BY <1>1, <1>2 DEF ExecutionInv, ExecutionTypeOK, Owned, Busy
<1> QED BY <1>3, <1>4, <1>5, <1>6 DEF ExecutionInv

\* What neither moves an executor nor publishes a derivative.
LEMMA OthersKeep == ASSUME ExecutionInv, PublishOverlay \/ SwapArchive \/ UNCHANGED lifecycleVars PROVE ExecutionInv'
<1>1. UNCHANGED <<given, running, scratch, derivatives, executions, crashes>>
  BY DEF PublishOverlay, SwapArchive, lifecycleVars, published, events
<1>2. sources' \in [Intervals -> ArchiveStates]
  BY DEF ExecutionInv, ExecutionTypeOK, PublishOverlay, SwapArchive, lifecycleVars, ArchiveStates
<1>3. overlay' = overlay \/ \E receipt \in executions : overlay' = overlay \cup {receipt}
  BY DEF PublishOverlay, SwapArchive, lifecycleVars, published
<1> USE DEF given, running, scratch
<1>4. ExecutionTypeOK'
  BY <1>1, <1>2 DEF ExecutionInv, ExecutionTypeOK
<1>5. Quiet' /\ Audited' /\ FromPlan' /\ Owned'
  BY <1>1 DEF ExecutionInv, Quiet, Audited, FromPlan, Owned, Busy
<1>6. Settled'
  BY <1>1, <1>3 DEF ExecutionInv, Settled
<1>7. OnDisk'
  <2> SUFFICES ASSUME NEW q \in Executors, NEW k \in 1 .. 4, Behind(q, k)'
               PROVE  derivatives'[Turns[k]] = OutputOf(q, Turns[k], "PLANNED")'
    BY DEF OnDisk, Turns
  <2>1. Behind(q, k)
    BY <1>1 DEF Behind, Ended
  <2>2. OutputOf(q, Turns[k], "PLANNED")' = OutputOf(q, Turns[k], "PLANNED")
    BY <1>1, OutputsAreFixed
  <2> QED BY <1>1, <2>1, <2>2 DEF ExecutionInv, OnDisk
<1> QED BY <1>4, <1>5, <1>6, <1>7 DEF ExecutionInv

LEMMA ExecutionStepKeeps == ExecutionInv /\ [LifecycleNext]_lifecycleVars => ExecutionInv'
<1> SUFFICES ASSUME ExecutionInv, [LifecycleNext]_lifecycleVars PROVE ExecutionInv'
  OBVIOUS
<1>1. CASE PlanRemediation
  BY <1>1, PlanKeeps
<1>2. CASE PublishOverlay \/ SwapArchive \/ UNCHANGED lifecycleVars
  BY <1>2, OthersKeep
<1>3. ASSUME NEW p \in Executors,
             \/ Authorize(p) \/ CheckArchive(p) \/ ReadRows(p) \/ StageOutput(p)
             \/ PublishOutput(p) \/ LookIntoStaging(p) \/ RemoveStaging(p)
             \/ PublishReceipt(p) \/ Crash(p)
      PROVE  ExecutionInv'
  BY <1>3, AuthorizeKeeps, CheckKeeps, ReadRowsKeeps, StageKeeps, PublishOutputKeeps, LookKeeps,
     RemoveKeeps, ReceiptKeeps, CrashKeeps
<1> QED BY <1>1, <1>2, <1>3 DEF LifecycleNext, ExecutionNext

\* A published derivative comes from the audited rows, there is one receipt at most and
\* it lists what is published, a lineage refers to it, and nobody leaves the staging
\* directory behind but by being killed: the remediation scripts, for any number of
\* executors, kills and replaced archives.
THEOREM OverlayStaysBacked == LifecycleSpec => []OverlayIsBacked
<1>1. ExecutionInv => OverlayIsBacked
  BY DEF ExecutionInv, FromPlan, Settled, Owned, Busy, OverlayIsBacked
<1> QED BY <1>1, ExecutionInitHolds, ExecutionStepKeeps, PTL DEF LifecycleSpec

-----------------------------------------------------------------------------
(* RunPublication *)

Processes == Publishers \cup Readers
Files == {"result", "manifest"}
FileStates == {"ABSENT", "VALID", "DAMAGED"}
Writing == {"SeekManifest", "SeekResult", "CompareResult", "CompareManifest",
            "LinkResult", "LinkManifest", "RETURNED"}
Places == Writing \cup {"IDLE", "RAISED", "ReadManifest", "ReadResult"}

PublicationTypeOK ==
  /\ file \in [Files -> FileStates]
  /\ pc \in [Processes -> Places]
  /\ harm \in Nat
  /\ since \in [Processes -> Nat] /\ \A p \in Processes : since[p] <= harm
  /\ found \subseteq Readers

\* What a process relies on that has not been disturbed since it began.
Reliable ==
  \A p \in Processes : since[p] = harm =>
    /\ pc[p] \in {"LinkManifest", "RETURNED"} => file["result"] = "VALID"
    /\ pc[p] \in {"ReadResult", "RETURNED"} => file["manifest"] = "VALID"

\* What holds as long as nothing has been damaged or deleted.
Unharmed ==
  harm = 0 =>
    /\ \A f \in Files : file[f] # "DAMAGED"
    /\ file["manifest"] # "ABSENT" => file["result"] = "VALID"
    /\ \A p \in Publishers : pc[p] # "RAISED"
    /\ \A p \in Publishers : pc[p] = "SeekResult" => file["manifest"] # "ABSENT"
    /\ \A p \in found : pc[p] \in {"ReadResult", "RETURNED"}

PublicationInv == PublicationTypeOK /\ Reliable /\ Unharmed

-----------------------------------------------------------------------------
(* The order of the steps *)

LEMMA StepsFollow ==
  /\ After("CompareResult") = "CompareManifest"
  /\ After("CompareManifest") = "LinkResult"
  /\ After("LinkResult") = "LinkManifest"
  /\ After("LinkManifest") = "RETURNED"
<1>1. /\ Len(WriteSteps) = 7
      /\ WriteSteps[1] = "SeekManifest" /\ WriteSteps[2] = "SeekResult"
      /\ WriteSteps[3] = "CompareResult" /\ WriteSteps[4] = "CompareManifest"
      /\ WriteSteps[5] = "LinkResult" /\ WriteSteps[6] = "LinkManifest" /\ WriteSteps[7] = "RETURNED"
  BY DEF WriteSteps
<1>2. ASSUME NEW k \in 1 .. 6
      PROVE  After(WriteSteps[k]) = WriteSteps[k + 1]
  <2> DEFINE i == CHOOSE j \in 1 .. Len(WriteSteps) - 1 : WriteSteps[j] = WriteSteps[k]
  <2>1. i \in 1 .. 6 /\ WriteSteps[i] = WriteSteps[k]
    BY <1>1
  <2> HIDE DEF i
  <2>2. i = k
    BY <1>1, <2>1
  <2>3. After(WriteSteps[k]) = WriteSteps[1 + i]
    BY DEF After, i
  <2> QED BY <2>2, <2>3
<1>3. 3 \in 1 .. 6 /\ 4 \in 1 .. 6 /\ 5 \in 1 .. 6 /\ 6 \in 1 .. 6
  OBVIOUS
<1>4. After(WriteSteps[3]) = WriteSteps[3 + 1] /\ After(WriteSteps[4]) = WriteSteps[4 + 1]
        /\ After(WriteSteps[5]) = WriteSteps[5 + 1] /\ After(WriteSteps[6]) = WriteSteps[6 + 1]
  BY <1>2, <1>3
<1> QED BY <1>1, <1>4

-----------------------------------------------------------------------------
(* The invariant is kept *)

LEMMA PublicationInitHolds == PublicationInit => PublicationInv
<1> SUFFICES ASSUME PublicationInit PROVE PublicationInv
  OBVIOUS
<1>1. PublicationTypeOK
  BY DEF PublicationInit, PublicationTypeOK, Processes, Files, FileStates, Places
<1>2. Reliable /\ Unharmed
  BY DEF PublicationInit, Reliable, Unharmed, Processes, Files
<1> QED BY <1>1, <1>2 DEF PublicationInv

\* A process moves on, and the files stay or one that was absent becomes valid.
LEMMA MoveKeeps ==
  ASSUME PublicationInv, NEW p \in Processes, NEW s \in Places, Proceed(p, s), UNCHANGED harm,
         file' \in [Files -> FileStates],
         \A f \in Files : file'[f] = file[f] \/ (file[f] = "ABSENT" /\ file'[f] = "VALID"),
         since' \in [Processes -> Nat],
         \A q \in Processes : since'[q] = since[q] \/ (q = p /\ since'[q] = harm),
         since'[p] = harm =>
           /\ s \in {"LinkManifest", "RETURNED"} => file'["result"] = "VALID"
           /\ s \in {"ReadResult", "RETURNED"} => file'["manifest"] = "VALID",
         harm = 0 =>
           /\ file'["manifest"] # "ABSENT" => file'["result"] = "VALID"
           /\ p \in Publishers => s # "RAISED" /\ (s = "SeekResult" => file'["manifest"] # "ABSENT"),
         found' \subseteq Readers,
         harm = 0 => \A q \in found' : IF q = p THEN s \in {"ReadResult", "RETURNED"} ELSE q \in found
  PROVE  PublicationInv'
<1>1. \A q \in Processes : pc'[q] = IF q = p THEN s ELSE pc[q]
  BY DEF PublicationInv, PublicationTypeOK, Proceed
<1>2. PublicationTypeOK'
  <2>1. pc' \in [Processes -> Places]
    BY DEF PublicationInv, PublicationTypeOK, Proceed
  <2>2. \A q \in Processes : since'[q] <= harm'
    BY DEF PublicationInv, PublicationTypeOK
  <2> QED BY <2>1, <2>2 DEF PublicationInv, PublicationTypeOK
<1>3. Reliable'
  <2> SUFFICES ASSUME NEW q \in Processes, since'[q] = harm'
               PROVE  /\ pc'[q] \in {"LinkManifest", "RETURNED"} => file'["result"] = "VALID"
                      /\ pc'[q] \in {"ReadResult", "RETURNED"} => file'["manifest"] = "VALID"
    BY DEF Reliable
  <2>1. CASE q = p
    BY <1>1, <2>1
  <2>2. CASE q # p
    BY <1>1, <2>2 DEF PublicationInv, Reliable, Files
  <2> QED BY <2>1, <2>2
<1>4. Unharmed'
  <2> SUFFICES ASSUME harm = 0
               PROVE  /\ \A f \in Files : file'[f] # "DAMAGED"
                      /\ file'["manifest"] # "ABSENT" => file'["result"] = "VALID"
                      /\ \A q \in Publishers : pc'[q] # "RAISED"
                      /\ \A q \in Publishers : pc'[q] = "SeekResult" => file'["manifest"] # "ABSENT"
                      /\ \A q \in found' : pc'[q] \in {"ReadResult", "RETURNED"}
    BY DEF Unharmed
  <2>1. \A f \in Files : file'[f] # "DAMAGED"
    BY DEF PublicationInv, Unharmed
  <2>2. \A q \in Publishers : pc'[q] # "RAISED"
    BY <1>1 DEF PublicationInv, Unharmed, Processes
  <2>3. \A q \in Publishers : pc'[q] = "SeekResult" => file'["manifest"] # "ABSENT"
    BY <1>1 DEF PublicationInv, Unharmed, Processes, Files
  <2>4. \A q \in found' : pc'[q] \in {"ReadResult", "RETURNED"}
    BY <1>1 DEF PublicationInv, Unharmed, Processes
  <2> QED BY <2>1, <2>2, <2>3, <2>4
<1> QED BY <1>2, <1>3, <1>4 DEF PublicationInv

LEMMA BeginKeeps == ASSUME PublicationInv, NEW p \in Publishers, Begin(p) PROVE PublicationInv'
<1>1. WriteSteps[1] = "SeekManifest"
  BY DEF WriteSteps
<1>2. p \in Processes /\ p \notin found /\ "SeekManifest" \in Places
  BY PublicationAssumption DEF PublicationInv, PublicationTypeOK, Processes, Places, Writing
<1>3. Proceed(p, "SeekManifest") /\ UNCHANGED <<file, harm, found>> /\ since' = [since EXCEPT ![p] = harm]
  BY <1>1 DEF Begin
<1>4. file' \in [Files -> FileStates] /\ since' \in [Processes -> Nat] /\ found' \subseteq Readers
  BY <1>3 DEF PublicationInv, PublicationTypeOK
<1>5. \A q \in Processes : since'[q] = since[q] \/ (q = p /\ since'[q] = harm)
  BY <1>3 DEF PublicationInv, PublicationTypeOK
<1>6. harm = 0 => (file'["manifest"] # "ABSENT" => file'["result"] = "VALID")
  BY <1>3 DEF PublicationInv, Unharmed
<1> QED BY <1>2, <1>3, <1>4, <1>5, <1>6, MoveKeeps

\* A follow of a publisher that is not killed.
LEMMA WriteKeeps == ASSUME PublicationInv, NEW p \in Publishers, WriteStep(p) PROVE PublicationInv'
<1>1. p \in Processes /\ p \notin found
  BY PublicationAssumption DEF PublicationInv, PublicationTypeOK, Processes
<1>2. Writing \subseteq Places /\ "RAISED" \in Places /\ "result" \in Files /\ "manifest" \in Files
  BY DEF Places, Files
<1>3. UNCHANGED <<harm, since, found>>
  BY DEF WriteStep, SeekManifest, SeekResult, Compare, PublishImmutable
<1>4. since' \in [Processes -> Nat] /\ found' \subseteq Readers
  BY <1>3 DEF PublicationInv, PublicationTypeOK
<1>5. harm = 0 => \A f \in Files : file[f] # "DAMAGED"
  BY DEF PublicationInv, Unharmed
<1>6. CASE SeekManifest(p)
  <2> DEFINE s == IF file["manifest"] = "ABSENT" THEN "CompareResult" ELSE "SeekResult"
  <2>1. Proceed(p, s) /\ UNCHANGED file /\ s \in {"CompareResult", "SeekResult"}
    BY <1>6 DEF SeekManifest
  <2>2. s = "SeekResult" => file["manifest"] # "ABSENT"
    OBVIOUS
  <2> HIDE DEF s
  <2> QED BY <1>1, <1>2, <1>3, <1>4, <2>1, <2>2, MoveKeeps DEF PublicationInv, PublicationTypeOK, Unharmed, Writing
<1>7. CASE SeekResult(p)
  <2> DEFINE s == IF file["result"] = "ABSENT" THEN "RAISED" ELSE "CompareResult"
  <2>1. Proceed(p, s) /\ UNCHANGED file /\ s \in {"CompareResult", "RAISED"}
    BY <1>7 DEF SeekResult
  <2>2. harm = 0 => s # "RAISED"
    BY <1>7 DEF SeekResult, PublicationInv, Unharmed
  <2> HIDE DEF s
  <2> QED BY <1>1, <1>2, <1>3, <1>4, <2>1, <2>2, MoveKeeps DEF PublicationInv, PublicationTypeOK, Unharmed, Writing
<1>8. ASSUME NEW f \in Files, NEW follow,
             \/ follow = "CompareResult" /\ After(follow) = "CompareManifest"
             \/ follow = "CompareManifest" /\ After(follow) = "LinkResult",
             Compare(p, f, follow)
      PROVE  PublicationInv'
  <2> DEFINE s == IF file[f] = "DAMAGED" THEN "RAISED" ELSE After(follow)
  <2>1. Proceed(p, s) /\ UNCHANGED file /\ s \in {"CompareManifest", "LinkResult", "RAISED"}
    BY <1>8 DEF Compare
  <2>2. harm = 0 => s # "RAISED"
    BY <1>5, <1>8
  <2> HIDE DEF s
  <2> QED BY <1>1, <1>2, <1>3, <1>4, <2>1, <2>2, MoveKeeps DEF PublicationInv, PublicationTypeOK, Unharmed, Writing
<1>9. ASSUME NEW f \in Files, NEW follow, NEW next \in {"LinkManifest", "RETURNED"},
             \/ follow = "LinkResult" /\ f = "result" /\ next = "LinkManifest"
             \/ follow = "LinkManifest" /\ f = "manifest" /\ next = "RETURNED",
             After(follow) = next, PublishImmutable(p, f, follow)
      PROVE  PublicationInv'
  <2> DEFINE s == IF file[f] = "DAMAGED" THEN "RAISED" ELSE next
  <2>1. pc[p] = follow /\ Proceed(p, s) /\ s \in {"LinkManifest", "RETURNED", "RAISED"}
          /\ file' = [file EXCEPT ![f] = IF @ = "ABSENT" THEN "VALID" ELSE @]
    BY <1>9 DEF PublishImmutable
  <2>2. \A g \in Files : file'[g] = IF g = f /\ file[f] = "ABSENT" THEN "VALID" ELSE file[g]
    BY <2>1 DEF PublicationInv, PublicationTypeOK
  <2>3. harm = 0 => s # "RAISED"
    BY <1>5
  <2>4. s # "RAISED" => s = next /\ file'[f] = "VALID"
    BY <2>2 DEF PublicationInv, PublicationTypeOK, FileStates
  <2> HIDE DEF s
  <2>5. file' \in [Files -> FileStates]
    BY <2>1 DEF PublicationInv, PublicationTypeOK, FileStates
  <2>6. since'[p] = harm /\ f = "manifest" => file'["result"] = "VALID"
    BY <1>1, <1>2, <1>3, <1>9, <2>1, <2>2 DEF PublicationInv, Reliable
  <2>7. since'[p] = harm =>
          /\ s \in {"LinkManifest", "RETURNED"} => file'["result"] = "VALID"
          /\ s \in {"ReadResult", "RETURNED"} => file'["manifest"] = "VALID"
    BY <1>9, <2>1, <2>4, <2>6
  <2>8. harm = 0 => (file'["manifest"] # "ABSENT" => file'["result"] = "VALID")
    <3>1. harm = 0 => since'[p] = harm
      BY <1>1, <1>3 DEF PublicationInv, PublicationTypeOK
    <3>2. CASE f = "result"
      BY <1>2, <2>3, <2>4, <3>2
    <3>3. CASE f = "manifest"
      BY <2>6, <3>1, <3>3
    <3> QED BY <3>2, <3>3 DEF Files
  <2> QED BY <1>1, <1>2, <1>3, <1>4, <2>1, <2>2, <2>3, <2>5, <2>7, <2>8, MoveKeeps DEF Writing
<1> QED BY <1>2, <1>6, <1>7, <1>8, <1>9, StepsFollow DEF WriteStep

LEMMA KillKeeps == ASSUME PublicationInv, NEW p \in Publishers, Kill(p) PROVE PublicationInv'
<1>1. p \in Processes /\ p \notin found /\ "IDLE" \in Places
  BY PublicationAssumption DEF PublicationInv, PublicationTypeOK, Processes, Places
<1>2. Proceed(p, "IDLE") /\ UNCHANGED <<file, harm, since, found>>
  BY DEF Kill
<1> QED BY <1>1, <1>2, MoveKeeps DEF PublicationInv, PublicationTypeOK, Unharmed

LEMMA ReaderKeeps ==
  ASSUME PublicationInv, NEW p \in Readers, BeginRead(p) \/ ReadManifest(p) \/ ReadResult(p)
  PROVE  PublicationInv'
<1>1. p \in Processes /\ p \notin Publishers
  BY PublicationAssumption DEF Processes
<1>2. {"ReadManifest", "ReadResult", "RETURNED", "RAISED"} \subseteq Places
  BY DEF Places, Writing
<1>3. UNCHANGED <<file, harm>> /\ file' \in [Files -> FileStates]
  BY DEF PublicationInv, PublicationTypeOK, BeginRead, ReadManifest, ReadResult
<1>4. harm = 0 => (file'["manifest"] # "ABSENT" => file'["result"] = "VALID")
  BY <1>3 DEF PublicationInv, Unharmed
<1>5. CASE BeginRead(p)
  <2>1. Proceed(p, "ReadManifest") /\ since' = [since EXCEPT ![p] = harm] /\ found' = found \ {p}
    BY <1>5 DEF BeginRead
  <2>2. since' \in [Processes -> Nat] /\ found' \subseteq Readers
        /\ \A q \in Processes : since'[q] = since[q] \/ (q = p /\ since'[q] = harm)
    BY <2>1 DEF PublicationInv, PublicationTypeOK
  <2> QED BY <1>1, <1>2, <1>3, <1>4, <2>1, <2>2, MoveKeeps
<1>6. CASE ReadManifest(p)
  <2> DEFINE s == IF file["manifest"] = "VALID" THEN "ReadResult" ELSE "RAISED"
  <2>1. Proceed(p, s) /\ UNCHANGED since
        /\ found' = IF file["manifest"] = "ABSENT" THEN found ELSE found \cup {p}
    BY <1>6 DEF ReadManifest
  <2>2. since' \in [Processes -> Nat] /\ found' \subseteq Readers
    BY <2>1 DEF PublicationInv, PublicationTypeOK
  <2>3. s \in {"ReadResult", "RAISED"} /\ (s = "ReadResult" => file'["manifest"] = "VALID")
    BY <1>3
  <2>4. harm = 0 => \A q \in found' : IF q = p THEN s \in {"ReadResult", "RETURNED"} ELSE q \in found
    <3>1. ASSUME harm = 0, p \in found' PROVE s = "ReadResult"
      <4>1. pc[p] = "ReadManifest"
        BY <1>6 DEF ReadManifest
      <4>2. p \notin found
        BY <3>1, <4>1 DEF PublicationInv, Unharmed
      <4>3. file["manifest"] = "VALID"
        BY <2>1, <3>1, <4>2 DEF PublicationInv, PublicationTypeOK, Unharmed, Files, FileStates
      <4> QED BY <4>3
    <3>2. \A q \in found' : q = p \/ q \in found
      BY <2>1
    <3> QED BY <3>1, <3>2
  <2> HIDE DEF s
  <2> QED BY <1>1, <1>2, <1>3, <1>4, <2>1, <2>2, <2>3, <2>4, MoveKeeps
<1>7. CASE ReadResult(p)
  <2> DEFINE s == IF file["result"] = "VALID" THEN "RETURNED" ELSE "RAISED"
  <2>1. pc[p] = "ReadResult" /\ Proceed(p, s) /\ UNCHANGED <<since, found>>
    BY <1>7 DEF ReadResult
  <2>2. since' \in [Processes -> Nat] /\ found' \subseteq Readers
    BY <2>1 DEF PublicationInv, PublicationTypeOK
  <2>3. s \in {"RETURNED", "RAISED"} /\ (s = "RETURNED" => file'["result"] = "VALID")
    BY <1>3
  <2>4. since'[p] = harm => file["manifest"] = "VALID"
    BY <1>1, <2>1 DEF PublicationInv, Reliable
  <2>5. harm = 0 => s = "RETURNED"
    <3>1. harm = 0 => since'[p] = harm
      BY <1>1, <2>1 DEF PublicationInv, PublicationTypeOK
    <3>2. harm = 0 => file["result"] = "VALID"
      BY <2>4, <3>1 DEF PublicationInv, Unharmed
    <3> QED BY <3>2
  <2> HIDE DEF s
  <2> QED BY <1>1, <1>2, <1>3, <1>4, <2>1, <2>2, <2>3, <2>4, <2>5, MoveKeeps
<1> QED BY <1>5, <1>6, <1>7

\* What was relied on before a file was harmed is relied on no more.
LEMMA HarmKeeps ==
  ASSUME PublicationInv, NEW f \in DOMAIN file, NEW what \in {"ABSENT", "DAMAGED"}, HarmFile(f, what)
  PROVE  PublicationInv'
<1>1. harm' = harm + 1 /\ file' = [file EXCEPT ![f] = what] /\ UNCHANGED <<pc, since, found>>
  BY DEF HarmFile
<1>2. PublicationTypeOK'
  <2>1. file' \in [Files -> FileStates]
    BY <1>1 DEF PublicationInv, PublicationTypeOK, FileStates
  <2>2. harm' \in Nat /\ \A p \in Processes : since'[p] <= harm' /\ since'[p] # harm'
    BY <1>1 DEF PublicationInv, PublicationTypeOK
  <2> QED BY <1>1, <2>1, <2>2 DEF PublicationInv, PublicationTypeOK
<1>3. \A p \in Processes : since'[p] # harm'
  BY <1>1 DEF PublicationInv, PublicationTypeOK
<1>4. harm' # 0
  BY <1>1 DEF PublicationInv, PublicationTypeOK
<1> QED BY <1>2, <1>3, <1>4 DEF PublicationInv, Reliable, Unharmed

LEMMA PublicationStepKeeps == PublicationInv /\ [PublicationNext]_pubVars => PublicationInv'
<1> SUFFICES ASSUME PublicationInv, [PublicationNext]_pubVars PROVE PublicationInv'
  OBVIOUS
<1>1. CASE UNCHANGED pubVars
  BY <1>1 DEF pubVars, PublicationInv, PublicationTypeOK, Reliable, Unharmed
<1>2. ASSUME NEW p \in Publishers, Begin(p) \/ WriteStep(p) \/ Kill(p) PROVE PublicationInv'
  BY <1>2, BeginKeeps, WriteKeeps, KillKeeps
<1>3. ASSUME NEW p \in Readers, BeginRead(p) \/ ReadManifest(p) \/ ReadResult(p) PROVE PublicationInv'
  BY <1>3, ReaderKeeps
<1>4. ASSUME NEW f \in DOMAIN file, NEW what \in {"ABSENT", "DAMAGED"}, HarmFile(f, what) PROVE PublicationInv'
  BY <1>4, HarmKeeps
<1> QED BY <1>1, <1>2, <1>3, <1>4 DEF PublicationNext

\* A manifest is never without its result and nobody is refused while no file is
\* harmed, and whoever returns has both files intact: write_dev_run and read_dev_run
\* with any number of processes and kills.
THEOREM ManifestIsLast == PublicationSpec => []ManifestComesLast
<1>1. PublicationInv => ManifestComesLast
  <2> SUFFICES ASSUME PublicationInv PROVE ManifestComesLast
    OBVIOUS
  <2>1. harm = 0 =>
          /\ file["manifest"] # "ABSENT" => file["result"] = "VALID"
          /\ \A p \in Publishers : pc[p] # "RAISED"
          /\ \A p \in found : pc[p] # "RAISED"
    BY DEF PublicationInv, Unharmed
  <2>2. DOMAIN file = {"result", "manifest"}
    BY DEF PublicationInv, PublicationTypeOK, Files
  <2>3. ASSUME NEW p \in Processes, pc[p] = "RETURNED", since[p] = harm
        PROVE  file["result"] = "VALID" /\ file["manifest"] = "VALID"
    BY <2>3 DEF PublicationInv, Reliable
  <2>4. \A p \in Publishers \cup Readers :
          pc[p] = "RETURNED" /\ since[p] = harm => \A f \in DOMAIN file : file[f] = "VALID"
    BY <2>2, <2>3 DEF Processes
  <2> QED BY <2>1, <2>4 DEF ManifestComesLast
<1> QED BY <1>1, PublicationInitHolds, PublicationStepKeeps, PTL DEF PublicationSpec

-----------------------------------------------------------------------------
(* ReplayCheckpoint *)

CheckpointTypeOK ==
  /\ manifest \in Manifests
  /\ checkpoint \in Checkpoints \cup {NoCheckpoint}

\* The plan and its reports say what the checkpoint has of the current manifest,
\* which is that of the checkpoint as soon as something is reported.
Followed ==
  resume # NoPlan =>
    /\ resume.completed \subseteq DOMAIN manifest
    /\ resume.pending = DOMAIN manifest \ resume.completed
    /\ resume.invalidated \subseteq resume.pending
    /\ done \subseteq resume.pending
    /\ Completed(checkpoint, manifest) = resume.completed \cup done

\* The checkpoint speaks of the current manifest and its inputs only.
SpeaksOf(c, m) ==
  /\ c # NoCheckpoint /\ c.manifest = m
  /\ DOMAIN c.entries \subseteq DOMAIN m
  /\ \A r \in DOMAIN c.entries : c.entries[r].input = m[r]

Reported == resume # NoPlan /\ done # {} => SpeaksOf(checkpoint, manifest)

CheckpointInv == CheckpointTypeOK /\ Followed /\ Reported

(* Entries *)

LEMMA EntriesType ==
  ASSUME NEW c \in Checkpoints
  PROVE  /\ c # NoCheckpoint /\ EntriesOf(c) = c.entries /\ c.manifest \in Manifests
         /\ DOMAIN c.entries \subseteq ManifestRequests
         /\ \A r \in DOMAIN c.entries :
              c.entries[r] \in [input : ManifestInputs, state : {"COMPLETE", "FAILED"}]
<1>1. c # NoCheckpoint
  BY CheckpointAssumption
<1>2. c.manifest \in Manifests
  BY DEF Checkpoints
<1>3. PICK R \in SUBSET ManifestRequests :
        c.entries \in [R -> [input : ManifestInputs, state : {"COMPLETE", "FAILED"}]]
  BY DEF Checkpoints
<1>4. DOMAIN c.entries = R
  BY <1>3
<1> QED BY <1>1, <1>2, <1>3, <1>4 DEF EntriesOf

LEMMA NoEntries == EntriesOf(NoCheckpoint) = << >> /\ DOMAIN EntriesOf(NoCheckpoint) = {}
BY DEF EntriesOf

\* What is complete is kept by the next report.
LEMMA CompletedIsKept ==
  ASSUME NEW c, NEW m
  PROVE  /\ Completed(c, m) \subseteq Kept(c, m)
         /\ Kept(c, m) \subseteq DOMAIN m
         /\ \A r \in Kept(c, m) : r \in Completed(c, m) <=>
              EntriesOf(c)[r] = [input |-> m[r], state |-> "COMPLETE"]
BY DEF Completed, Kept

LEMMA UpdatedType ==
  ASSUME NEW m \in Manifests, NEW c \in Checkpoints \cup {NoCheckpoint}, NEW r \in DOMAIN m,
         NEW state \in {"COMPLETE", "FAILED"}
  PROVE  Updated(c, m, r, state) \in Checkpoints
<1> DEFINE R == Kept(c, m) \cup {r}
           E == [q \in R |-> IF q = r THEN [input |-> m[r], state |-> state] ELSE EntriesOf(c)[q]]
<1>1. R \in SUBSET ManifestRequests
  BY CompletedIsKept DEF ManifestRequests
<1>2. m[r] \in ManifestInputs
  BY DEF ManifestInputs
<1>3. \A q \in Kept(c, m) :
        EntriesOf(c)[q] \in [input : ManifestInputs, state : {"COMPLETE", "FAILED"}]
  BY EntriesType, NoEntries DEF Kept
<1>4. E \in [R -> [input : ManifestInputs, state : {"COMPLETE", "FAILED"}]]
  BY <1>2, <1>3
<1>5. Updated(c, m, r, state) = [manifest |-> m, entries |-> E]
  BY DEF Updated
<1> HIDE DEF R, E
<1> QED BY <1>1, <1>4, <1>5 DEF Checkpoints

\* A report adds its request to what is complete, or nothing.
LEMMA ReportAdds ==
  ASSUME NEW m \in Manifests, NEW c \in Checkpoints \cup {NoCheckpoint}, NEW r \in DOMAIN m,
         r \notin Completed(c, m), NEW state \in {"COMPLETE", "FAILED"}
  PROVE  LET new == Updated(c, m, r, state)
         IN  /\ SpeaksOf(new, m)
             /\ Completed(new, m) = Completed(c, m) \cup {q \in {r} : state = "COMPLETE"}
<1> DEFINE new == Updated(c, m, r, state)
<1>1. new # NoCheckpoint /\ EntriesOf(new) = new.entries
  BY UpdatedType, EntriesType
<1>2. /\ new.manifest = m /\ DOMAIN new.entries = Kept(c, m) \cup {r}
      /\ new.entries[r] = [input |-> m[r], state |-> state]
      /\ \A q \in Kept(c, m) \ {r} : new.entries[q] = EntriesOf(c)[q]
  BY DEF Updated
<1> HIDE DEF new
<1>3. \A q \in Kept(c, m) : EntriesOf(c)[q].input = m[q]
  BY DEF Kept
<1>4. DOMAIN new.entries \subseteq DOMAIN m /\ r \in DOMAIN new.entries
  BY <1>2, CompletedIsKept
<1>5. \A q \in DOMAIN new.entries : new.entries[q].input = m[q]
  BY <1>2, <1>3
<1>6. SpeaksOf(new, m)
  BY <1>1, <1>2, <1>4, <1>5 DEF SpeaksOf
<1>7. ~Fresh(new, m)
  BY <1>1, <1>2 DEF Fresh
<1>8. Completed(new, m) = {q \in DOMAIN new.entries :
                             new.entries[q] = [input |-> m[q], state |-> "COMPLETE"]}
  BY <1>1, <1>4, <1>7 DEF Completed
<1>9. new.entries[r] = [input |-> m[r], state |-> "COMPLETE"] <=> state = "COMPLETE"
  BY <1>2
<1>10. Completed(new, m) = Completed(c, m) \cup {q \in {r} : state = "COMPLETE"}
  BY <1>2, <1>8, <1>9, CompletedIsKept
<1> QED BY <1>6, <1>10 DEF new

(* The invariant *)

LEMMA CheckpointInitHolds == CheckpointInit => CheckpointInv
BY DEF CheckpointInit, CheckpointInv, CheckpointTypeOK, Followed, Reported

LEMMA PreflightKeeps == CheckpointInv /\ Preflight => CheckpointInv'
<1> SUFFICES ASSUME CheckpointInv, Preflight PROVE CheckpointInv'
  OBVIOUS
<1>1. CheckpointTypeOK' /\ done' = {} /\ manifest' = manifest /\ checkpoint' = checkpoint
      /\ resume' = ResumePlan(checkpoint, manifest)
  BY DEF CheckpointInv, CheckpointTypeOK, Preflight
<1>2. Completed(checkpoint, manifest) \subseteq DOMAIN manifest
  BY DEF Completed
<1>3. Invalidated(checkpoint, manifest)
        \subseteq DOMAIN manifest \ Completed(checkpoint, manifest)
  BY DEF Invalidated, Completed
<1> QED BY <1>1, <1>2, <1>3 DEF CheckpointInv, Followed, Reported, ResumePlan

LEMMA ReportKeeps ==
  ASSUME CheckpointInv, NEW r \in DOMAIN manifest, NEW state \in {"COMPLETE", "FAILED"}, Report(r, state)
  PROVE  CheckpointInv'
<1> DEFINE added == {q \in {r} : state = "COMPLETE"}
<1>1. /\ CheckpointTypeOK /\ Followed /\ resume # NoPlan /\ r \in resume.pending \ done
      /\ checkpoint' = Updated(checkpoint, manifest, r, state)
      /\ manifest' = manifest /\ resume' = resume /\ done' = done \cup added
  BY DEF CheckpointInv, Report
<1>2. r \notin Completed(checkpoint, manifest)
  BY <1>1 DEF Followed
<1>3. /\ SpeaksOf(checkpoint', manifest)
      /\ Completed(checkpoint', manifest) = Completed(checkpoint, manifest) \cup added
      /\ checkpoint' \in Checkpoints
  BY <1>1, <1>2, ReportAdds, UpdatedType DEF CheckpointTypeOK
<1>4. CheckpointTypeOK'
  BY <1>1, <1>3 DEF CheckpointTypeOK
<1>5. Reported'
  BY <1>1, <1>3 DEF Reported, SpeaksOf
<1>6. Followed'
  BY <1>1, <1>3 DEF Followed
<1> QED BY <1>4, <1>5, <1>6 DEF CheckpointInv

LEMMA CheckpointStepKeeps == CheckpointInv /\ [CheckpointNext]_checkpointVars => CheckpointInv'
<1> SUFFICES ASSUME CheckpointInv, [CheckpointNext]_checkpointVars PROVE CheckpointInv'
  OBVIOUS
<1>1. CASE UNCHANGED checkpointVars
  BY <1>1 DEF checkpointVars, CheckpointInv, CheckpointTypeOK, Followed, Reported
<1>2. CASE Preflight
  BY <1>2, PreflightKeeps
<1>3. CASE Stop
  BY <1>3 DEF Stop, CheckpointInv, CheckpointTypeOK, Followed, Reported
<1>4. CASE PrepareAgain
  BY <1>4 DEF PrepareAgain, CheckpointInv, CheckpointTypeOK, Followed, Reported
<1>5. ASSUME NEW r \in DOMAIN manifest, NEW state \in {"COMPLETE", "FAILED"}, Report(r, state)
      PROVE  CheckpointInv'
  BY <1>5, ReportKeeps
<1> QED BY <1>1, <1>2, <1>3, <1>4, <1>5 DEF CheckpointNext

(* The property *)

\* As many complete entries as requests are all of them.
LEMMA StatusCounts ==
  ASSUME NEW m \in Manifests, NEW c \in Checkpoints, SpeaksOf(c, m)
  PROVE  Status(c) = "COMPLETE" <=> Completed(c, m) = DOMAIN m
<1>1. c.manifest = m /\ ~Fresh(c, m) /\ EntriesOf(c) = c.entries
  BY EntriesType DEF SpeaksOf, Fresh
<1>2. InState(c, "COMPLETE") = Completed(c, m)
  <2>1. \A r \in DOMAIN c.entries : c.entries[r].state = "COMPLETE" <=>
          c.entries[r] = [input |-> m[r], state |-> "COMPLETE"]
    BY EntriesType DEF SpeaksOf
  <2> QED BY <1>1, <2>1 DEF InState, Completed, SpeaksOf
<1>3. Completed(c, m) \in SUBSET DOMAIN m /\ IsFiniteSet(DOMAIN m)
  BY CheckpointAssumption DEF Completed
<1>4. Cardinality(Completed(c, m)) = Cardinality(DOMAIN m) <=> Completed(c, m) = DOMAIN m
  BY <1>3, FS_Subset
<1> QED BY <1>1, <1>2, <1>4 DEF Status

LEMMA PlanIsKept == CheckpointInv => FollowingThePlanCompletes
<1> SUFFICES ASSUME CheckpointInv, resume # NoPlan
             PROVE  /\ \A r \in resume.completed \cup done :
                         r \in DOMAIN EntriesOf(checkpoint) /\
                         EntriesOf(checkpoint)[r] = [input |-> manifest[r], state |-> "COMPLETE"]
                    /\ resume.invalidated \subseteq resume.pending
                    /\ done # {} =>
                         /\ checkpoint.manifest = manifest
                         /\ Status(checkpoint) = "COMPLETE" <=> done = resume.pending
                         /\ ResumePlan(checkpoint, manifest).pending = resume.pending \ done
                         /\ ResumePlan(checkpoint, manifest).invalidated = {}
  BY DEF FollowingThePlanCompletes
<1>1. CheckpointTypeOK /\ Followed /\ Reported
  BY DEF CheckpointInv
<1>2. \A r \in resume.completed \cup done :
        r \in DOMAIN EntriesOf(checkpoint) /\
        EntriesOf(checkpoint)[r] = [input |-> manifest[r], state |-> "COMPLETE"]
  BY <1>1 DEF Followed, Completed
<1>3. resume.invalidated \subseteq resume.pending
  BY <1>1 DEF Followed
<1>4. ASSUME done # {}
      PROVE  /\ checkpoint.manifest = manifest
             /\ Status(checkpoint) = "COMPLETE" <=> done = resume.pending
             /\ ResumePlan(checkpoint, manifest).pending = resume.pending \ done
             /\ ResumePlan(checkpoint, manifest).invalidated = {}
  <2>1. SpeaksOf(checkpoint, manifest) /\ checkpoint \in Checkpoints /\ manifest \in Manifests
    BY <1>1, <1>4 DEF Reported, SpeaksOf, CheckpointTypeOK
  <2>2. Status(checkpoint) = "COMPLETE" <=> done = resume.pending
    BY <1>1, <2>1, StatusCounts DEF Followed
  <2>3. ResumePlan(checkpoint, manifest).pending = resume.pending \ done
    BY <1>1 DEF Followed, ResumePlan
  <2>4. Invalidated(checkpoint, manifest) = {}
    BY <2>1, EntriesType DEF Invalidated, Fresh, SpeaksOf
  <2> QED BY <2>1, <2>2, <2>3, <2>4 DEF SpeaksOf, ResumePlan
<1> QED BY <1>2, <1>3, <1>4

\* A replay resumed by build_resume_plan reuses only results of the current inputs and
\* is complete exactly when its last pending request is, wherever it was stopped.
THEOREM PlanCompletes == CheckpointSpec => []FollowingThePlanCompletes
BY CheckpointInitHolds, CheckpointStepKeeps, PlanIsKept, PTL DEF CheckpointSpec

-----------------------------------------------------------------------------
(* RuleAudit *)

\* What a role's tally says of the days before n.
Tallies ==
  [days : Nat, members : Nat, eligible : Nat, blocked : Nat, warned : Nat, reasons : [Reasons -> Nat]]
DaysOf(role, n) == {d \in 0 .. n - 1 : InSegment(role, d)}
BlockedOn == [d \in Int |-> Cardinality(BlockedIn(DayReport(d, "DEV")))]
RuleSeen(role) == \E d \in Days, r \in registry :
                    InSegment(role, d) /\ r.symbol \in members[d] /\ LockedGrade(r)
Tallied(role, tally, n) ==
  /\ tally \in Tallies
  /\ tally.days = Cardinality(DaysOf(role, n))
  /\ tally.members = tally.eligible + tally.blocked
  /\ tally.warned > 0 => role = "DEV"
  /\ role # "DEV" /\ tally.eligible > 0 => RuleSeen(role)
  /\ role = "DEV" => tally.blocked = SumFunctionOnSet(BlockedOn, DaysOf("DEV", n))
Counted(n) ==
  /\ DOMAIN counts = Range(Roles)
  /\ \A role \in Range(Roles) : Tallied(role, counts[role], n)

\* The windows g of a symbol cover exactly the days before n it lacks a rule on.
WindowType == [start : Int, end : Int, reasons : SUBSET Reasons]
Explained(s, w) ==
  \A d \in w.start .. w.end - 1 : Lacks(s, d) /\ w.reasons = {WhyLacking(s, d)}
Apart(v, w) == v.end <= w.start /\ ~(v.end = w.start /\ v.reasons = w.reasons)
Covered(g, d) == \E i \in 1 .. Len(g) : g[i].start <= d /\ d < g[i].end
Traced(s, g, n) ==
  /\ g \in Seq(WindowType)
  /\ \A i \in 1 .. Len(g) :
       0 <= g[i].start /\ g[i].start < g[i].end /\ g[i].end <= n /\ Explained(s, g[i])
  /\ \A i, j \in 1 .. Len(g) : i < j => Apart(g[i], g[j])
  /\ \A d \in 0 .. n - 1 : Lacks(s, d) => Covered(g, d)

LengthsOf(g) == [i \in 1 .. Len(g) |-> g[i].end - g[i].start]
LengthOf(g) == SumFunctionOnSet(LengthsOf(g), 1 .. Len(g))
GapLengths == [s \in Symbols |-> LengthOf(gaps[s])]

Walked ==
  /\ day \in Nat /\ day <= SegmentDays("DEV")
  /\ Counted(DayCount)
  /\ DOMAIN gaps = Symbols /\ \A s \in Symbols : Traced(s, gaps[s], day)
  /\ SumFunctionOnSet(GapLengths, Symbols) = SumFunctionOnSet(BlockedOn, DaysOf("DEV", day))

AuditInv ==
  /\ registry \in Registries /\ members \in Memberships
  /\ phase \in {"AUDIT", "GAPS", "DONE", "RAISED"}
  /\ phase = "RAISED" => ~Admissible \/ SplitRaises
  /\ phase \in {"GAPS", "DONE"} => ~SplitRaises /\ Admissible /\ Walked
  /\ phase = "DONE" => day = SegmentDays("DEV")
  /\ phase = "AUDIT" => /\ day \in 0 .. DayCount /\ Counted(day)
                        /\ day # 0 => ~SplitRaises /\ Admissible
                        /\ gaps = [s \in Symbols |-> << >>]

\* The split: half of the days, a quarter and a quarter.
LEMMA SplitOfDays ==
  ASSUME ~SplitRaises
  PROVE  \E q \in Nat : /\ q > 0 /\ DayCount = 4 * q
           /\ \A d \in Int : /\ InSegment("DEV", d) <=> 0 <= d /\ d < 2 * q
                             /\ InSegment("VALIDATION", d) <=> 2 * q <= d /\ d < 3 * q
                             /\ InSegment("LOCKED_TEST", d) <=> 3 * q <= d /\ d < 4 * q
           /\ SegmentDays("DEV") = 2 * q /\ SegmentDays("VALIDATION") = q
           /\ SegmentDays("LOCKED_TEST") = q
           /\ SegmentStart("DEV") = 0 /\ SegmentStart("VALIDATION") = 2 * q
           /\ SegmentStart("LOCKED_TEST") = 3 * q
<1> DEFINE q == DayCount \div 4
<1>1. DayCount \in Nat /\ DayCount # 0 /\ DayCount % 4 = 0
  BY AuditAssumption DEF SplitRaises
<1>2. q \in Nat /\ DayCount = 4 * q /\ q > 0 /\ DayCount \div 2 = 2 * q
  BY <1>1
<1> HIDE DEF q
<1>3. /\ SegmentDays("DEV") = 2 * q /\ SegmentDays("VALIDATION") = q
      /\ SegmentDays("LOCKED_TEST") = q
  BY <1>2 DEF SegmentDays, q
<1>4. /\ SegmentStart("DEV") = 0 /\ SegmentStart("VALIDATION") = 2 * q
      /\ SegmentStart("LOCKED_TEST") = 3 * q
  <2>1. DayCount \div 2 + DayCount \div 4 = 3 * q
    BY <1>2 DEF q
  <2> QED BY <1>2, <2>1 DEF SegmentStart
<1>5. ASSUME NEW d \in Int
      PROVE  /\ InSegment("DEV", d) <=> 0 <= d /\ d < 2 * q
             /\ InSegment("VALIDATION", d) <=> 2 * q <= d /\ d < 3 * q
             /\ InSegment("LOCKED_TEST", d) <=> 3 * q <= d /\ d < 4 * q
  BY <1>2, <1>3, <1>4 DEF InSegment
<1> QED BY <1>2, <1>3, <1>4, <1>5

LEMMA RolesAre == Range(Roles) = {"DEV", "VALIDATION", "LOCKED_TEST"}
<1>1. DOMAIN Roles = {1, 2, 3} /\ Roles[1] = "DEV" /\ Roles[2] = "VALIDATION" /\ Roles[3] = "LOCKED_TEST"
  BY DEF Roles
<1> QED BY <1>1 DEF Range

\* Every day has one role.
LEMMA RoleOfDay ==
  ASSUME ~SplitRaises, NEW d \in Days
  PROVE  /\ RoleFor(d) \in Range(Roles) /\ InSegment(RoleFor(d), d)
         /\ \A role \in Range(Roles) : InSegment(role, d) => role = RoleFor(d)
<1>1. PICK q \in Nat : /\ q > 0 /\ DayCount = 4 * q
           /\ \A e \in Int : /\ InSegment("DEV", e) <=> 0 <= e /\ e < 2 * q
                             /\ InSegment("VALIDATION", e) <=> 2 * q <= e /\ e < 3 * q
                             /\ InSegment("LOCKED_TEST", e) <=> 3 * q <= e /\ e < 4 * q
  BY SplitOfDays
<1>2. d \in Int /\ 0 <= d /\ d < 4 * q
  BY <1>1 DEF Days
<1>3. \E role \in Range(Roles) : InSegment(role, d)
  BY <1>1, <1>2, RolesAre
<1>4. RoleFor(d) \in Range(Roles) /\ InSegment(RoleFor(d), d)
  BY <1>3 DEF RoleFor
<1>5. \A a, b \in Range(Roles) : InSegment(a, d) /\ InSegment(b, d) => a = b
  BY <1>1, <1>2, RolesAre
<1> QED BY <1>4, <1>5

\* What the gate says of a member.
LEMMA GateSays ==
  ASSUME registry \in Registries, NEW d \in Int, NEW role \in Range(Roles), NEW s \in members[d]
  PROVE  /\ s \in DOMAIN DayReport(d, role) /\ DOMAIN DayReport(d, role) = members[d]
         /\ role = "DEV" /\ InSegment("DEV", d) =>
              /\ Lacks(s, d) <=> DayReport(d, role)[s].reasons # {}
              /\ Lacks(s, d) => DayReport(d, role)[s].reasons = {WhyLacking(s, d)}
         /\ role # "DEV" =>
              /\ ~DayReport(d, role)[s].warned
              /\ DayReport(d, role)[s].reasons = {} =>
                   \E r \in registry : r.symbol = s /\ LockedGrade(r)
<1> DEFINE instant == 2 * d + 1
           rules == ActiveRules(registry, s, instant)
           rule == ActiveRule(registry, s, instant)
           reasons == RuleReasons(rule, NoTick, role = "DEV")
<1>1. DOMAIN DayReport(d, role) = members[d]
  BY DEF DayReport, GateReport, Snapshot
<1>2. MemberReasons(Snapshot(d), registry, s, role = "DEV") = reasons
  <2>1. Snapshot(d).from = instant /\ Snapshot(d).to = instant + 2 /\ Snapshot(d).members = members[d]
    BY DEF Snapshot
  <2>2. instant \in Int /\ Snapshot(d).from <= instant /\ instant < Snapshot(d).to /\ s \in Snapshot(d).members
    BY <2>1
  <2> HIDE DEF instant
  <2> QED BY <2>1, <2>2 DEF MemberReasons, GateReasons
<1>3. /\ DayReport(d, role)[s].reasons = reasons
      /\ DayReport(d, role)[s].warned = (reasons = {} /\ ~LockedGrade(rule))
  <2>1. DayReport(d, role)[s] = GateEntry(Snapshot(d), registry, s, role = "DEV")
    BY DEF DayReport, GateReport, Snapshot
  <2>2. Snapshot(d).from = instant
    BY DEF Snapshot
  <2> HIDE DEF instant, reasons
  <2>3. GateEntry(Snapshot(d), registry, s, role = "DEV")
          = [reasons |-> reasons, warned |-> reasons = {} /\ ~LockedGrade(rule)]
    BY <1>2, <2>2 DEF GateEntry
  <2> HIDE DEF rule
  <2> QED BY <2>1, <2>3
<1>4. \A r \in rules : r \in registry /\ r.symbol = s /\ r.from <= instant /\ ~Ends(r, instant)
  BY DEF ActiveRules
<1>5. \A r, t \in rules : r = t
  <2> SUFFICES ASSUME NEW r \in rules, NEW t \in rules, r # t PROVE FALSE
    OBVIOUS
  <2>1. Ends(r, t.from) \/ Ends(t, r.from)
    BY <1>4, AuditAssumption DEF ValidRegistry
  <2>2. /\ r.from \in Int /\ r.to \in Int \cup {NoEnd} /\ t.from \in Int /\ t.to \in Int \cup {NoEnd}
    BY <1>4, AuditAssumption
  <2>3. r.from <= instant /\ ~Ends(r, instant) /\ t.from <= instant /\ ~Ends(t, instant) /\ instant \in Int
    BY <1>4
  <2> HIDE DEF instant, rules
  <2> QED BY <2>1, <2>2, <2>3 DEF Ends
<1>6. /\ rules = {} => rule = NoRule
      /\ rules # {} => rule \in rules /\ rules = {rule} /\ rule \in registry /\ rule # NoRule
  <2>1. rules # {} => rule \in rules
    BY DEF ActiveRule
  <2>2. rules = {} => rule = NoRule
    BY DEF ActiveRule
  <2> HIDE DEF rule
  <2> QED BY <1>4, <1>5, <2>1, <2>2, AuditAssumption
<1>7. /\ (\E r \in registry : r.symbol = s /\ r.from <= instant /\ ~Ends(r, instant)) <=> rules # {}
      /\ (\E r \in registry : r.symbol = s /\ r.from <= instant /\ ~Ends(r, instant) /\ DevGrade(r))
           <=> \E r \in rules : DevGrade(r)
  BY DEF ActiveRules
<1> HIDE DEF rules, rule
<1>8. ASSUME role = "DEV", InSegment("DEV", d)
      PROVE  /\ Lacks(s, d) <=> reasons # {}
             /\ Lacks(s, d) => reasons = {WhyLacking(s, d)}
  <2>1. Lacks(s, d) <=> ~\E r \in rules : DevGrade(r)
    BY <1>7, <1>8 DEF Lacks
  <2>2. WhyLacking(s, d) = IF rules # {} THEN "CONTRACT_RULE_UNVERIFIED" ELSE "CONTRACT_RULE_MISSING"
    BY <1>7 DEF WhyLacking
  <2>3. UsableRule(rule, TRUE) <=> DevGrade(rule)
    BY DEF UsableRule, DevGrade
  <2>4. reasons = IF rule = NoRule THEN {"CONTRACT_RULE_MISSING"}
                  ELSE IF ~DevGrade(rule) THEN {"CONTRACT_RULE_UNVERIFIED"} ELSE {}
    BY <1>8, <2>3 DEF RuleReasons
  <2> HIDE DEF reasons
  <2> QED BY <1>6, <2>1, <2>2, <2>4
<1>9. ASSUME role # "DEV"
      PROVE  /\ ~(reasons = {} /\ ~LockedGrade(rule))
             /\ reasons = {} => \E r \in registry : r.symbol = s /\ LockedGrade(r)
  <2>1. reasons = {} => rule # NoRule /\ LockedGrade(rule)
    BY <1>9 DEF RuleReasons, UsableRule
  <2> HIDE DEF reasons
  <2> QED BY <1>4, <1>6, <2>1
<1> HIDE DEF reasons
<1> QED BY <1>1, <1>3, <1>8, <1>9

\* The report of a day splits its members; outside DEV nobody is warned.
LEMMA ReportSplits ==
  ASSUME registry \in Registries, NEW d \in Int, NEW role \in Range(Roles),
         IsFiniteSet(members[d])
  PROVE  LET report == DayReport(d, role)
         IN  /\ DOMAIN report = members[d] /\ IsFiniteSet(BlockedIn(report))
             /\ Cardinality(DOMAIN report) \in Nat /\ Cardinality(EligibleIn(report)) \in Nat
             /\ Cardinality(BlockedIn(report)) \in Nat /\ Cardinality(WarnedIn(report)) \in Nat
             /\ \A r \in Reasons : Cardinality(ReasonsIn(report, r)) \in Nat
             /\ Cardinality(DOMAIN report) = Cardinality(EligibleIn(report)) + Cardinality(BlockedIn(report))
             /\ role # "DEV" => Cardinality(WarnedIn(report)) = 0
             /\ role # "DEV" /\ Cardinality(EligibleIn(report)) > 0 =>
                  \E r \in registry : r.symbol \in members[d] /\ LockedGrade(r)
<1> DEFINE report == DayReport(d, role)
           eligible == EligibleIn(report)
           blocked == BlockedIn(report)
           warned == WarnedIn(report)
<1>1. DOMAIN report = members[d]
  BY DEF DayReport, GateReport, Snapshot
<1>2. /\ eligible \in SUBSET members[d] /\ blocked = members[d] \ eligible
      /\ warned \in SUBSET members[d]
      /\ \A r \in Reasons : ReasonsIn(report, r) \in SUBSET members[d]
  BY <1>1 DEF EligibleIn, BlockedIn, WarnedIn, ReasonsIn
<1>3. \A S \in SUBSET members[d] : IsFiniteSet(S) /\ Cardinality(S) \in Nat
  BY FS_Subset, FS_CardinalityType
<1>4. IsFiniteSet(blocked) /\ blocked \in SUBSET members[d]
  BY <1>2, <1>3
<1>5. Cardinality(members[d]) = Cardinality(eligible) + Cardinality(blocked)
  <2>1. members[d] \ eligible = blocked /\ members[d] \cap eligible = eligible
    BY <1>2
  <2>2. Cardinality(blocked) = Cardinality(members[d]) - Cardinality(members[d] \cap eligible)
    BY <1>2, <1>3, <2>1, FS_Difference
  <2>3. Cardinality(members[d]) \in Nat /\ Cardinality(eligible) \in Nat /\ Cardinality(blocked) \in Nat
    BY <1>2, <1>3, <1>4
  <2>4. Cardinality(members[d] \cap eligible) = Cardinality(eligible)
    BY <2>1
  <2> HIDE DEF blocked, eligible
  <2>5. Cardinality(blocked) = Cardinality(members[d]) - Cardinality(eligible)
    BY <2>2, <2>4
  <2> QED BY <2>3, <2>5
<1>6. role # "DEV" => Cardinality(warned) = 0
  <2>1. role # "DEV" => \A s \in members[d] : ~report[s].warned
    BY GateSays
  <2>2. role # "DEV" => warned = {}
    BY <1>1, <2>1 DEF WarnedIn
  <2> QED BY <2>2, FS_EmptySet
<1>7. ASSUME role # "DEV", Cardinality(eligible) > 0
      PROVE  \E r \in registry : r.symbol \in members[d] /\ LockedGrade(r)
  <2>1. eligible # {}
    <3> SUFFICES ASSUME eligible = {} PROVE FALSE
      OBVIOUS
    <3>1. Cardinality(eligible) = 0
      BY FS_EmptySet
    <3> HIDE DEF eligible
    <3> QED BY <1>7, <3>1
  <2>2. PICK s \in eligible : TRUE
    BY <2>1
  <2>3. s \in members[d] /\ report[s].reasons = {}
    BY <1>2, <2>2 DEF EligibleIn
  <2>4. PICK r \in registry : r.symbol = s /\ LockedGrade(r)
    BY <1>7, <2>3, GateSays
  <2> QED BY <2>3, <2>4
<1> HIDE DEF eligible, blocked, warned
<1>8. \A r \in Reasons : Cardinality(ReasonsIn(report, r)) \in Nat
  BY <1>2, <1>3
<1>9. Cardinality(members[d]) \in Nat /\ Cardinality(eligible) \in Nat /\ Cardinality(blocked) \in Nat /\ Cardinality(warned) \in Nat
  BY <1>2, <1>3, <1>4
<1> QED BY <1>1, <1>4, <1>5, <1>6, <1>7, <1>8, <1>9 DEF eligible, blocked, warned

\* The days before n + 1 are those before n and n.
LEMMA DaysGrow ==
  ASSUME NEW n \in Nat, NEW role
  PROVE  /\ IsFiniteSet(DaysOf(role, n)) /\ DaysOf(role, n) \in SUBSET Int
         /\ n \notin DaysOf(role, n)
         /\ InSegment(role, n) => DaysOf(role, n + 1) = DaysOf(role, n) \cup {n}
         /\ ~InSegment(role, n) => DaysOf(role, n + 1) = DaysOf(role, n)
<1>1. IsFiniteSet(0 .. n - 1)
  BY FS_Interval
<1>2. DaysOf(role, n) \in SUBSET (0 .. n - 1)
  BY DEF DaysOf
<1>3. IsFiniteSet(DaysOf(role, n))
  BY <1>1, <1>2, FS_Subset
<1>4. 0 .. n + 1 - 1 = (0 .. n - 1) \cup {n} /\ n \notin 0 .. n - 1
  OBVIOUS
<1> QED BY <1>2, <1>3, <1>4 DEF DaysOf

LEMMA DayIsBlocked ==
  ASSUME registry \in Registries, NEW d \in Int, IsFiniteSet(members[d])
  PROVE  BlockedOn[d] = Cardinality(BlockedIn(DayReport(d, "DEV"))) /\ BlockedOn[d] \in Int
<1>1. Cardinality(BlockedIn(DayReport(d, "DEV"))) \in Nat
  BY ReportSplits, RolesAre
<1> QED BY <1>1 DEF BlockedOn

\* A day is added to the tally of its role, and to no other.
LEMMA DayIsTallied ==
  ASSUME registry \in Registries, ~SplitRaises, NEW n \in Days, \A d \in Days : IsFiniteSet(members[d]),
         NEW role \in Range(Roles), NEW tally, Tallied(role, tally, n)
  PROVE  Tallied(role, IF role = RoleFor(n) THEN Tally(tally, DayReport(n, role)) ELSE tally, n + 1)
<1>1. n \in Nat /\ n \in Int /\ n < DayCount /\ IsFiniteSet(members[n]) /\ DayCount \in Nat
  BY AuditAssumption DEF Days
<1>2. /\ IsFiniteSet(DaysOf(role, n)) /\ n \notin DaysOf(role, n)
      /\ InSegment(role, n) => DaysOf(role, n + 1) = DaysOf(role, n) \cup {n}
      /\ ~InSegment(role, n) => DaysOf(role, n + 1) = DaysOf(role, n)
  BY <1>1, DaysGrow
<1>3. CASE role # RoleFor(n)
  <2>1. ~InSegment(role, n)
    BY <1>3, RoleOfDay
  <2> QED BY <1>2, <1>3, <2>1 DEF Tallied
<1>4. CASE role = RoleFor(n)
  <2> DEFINE report == DayReport(n, role)
             next == Tally(tally, report)
  <2>1. InSegment(role, n)
    BY <1>4, RoleOfDay
  <2>2. /\ Cardinality(DOMAIN report) \in Nat /\ Cardinality(EligibleIn(report)) \in Nat
        /\ Cardinality(BlockedIn(report)) \in Nat /\ Cardinality(WarnedIn(report)) \in Nat
        /\ \A r \in Reasons : Cardinality(ReasonsIn(report, r)) \in Nat
        /\ Cardinality(DOMAIN report) = Cardinality(EligibleIn(report)) + Cardinality(BlockedIn(report))
        /\ role # "DEV" => Cardinality(WarnedIn(report)) = 0
        /\ role # "DEV" /\ Cardinality(EligibleIn(report)) > 0 =>
             \E r \in registry : r.symbol \in members[n] /\ LockedGrade(r)
    BY <1>1, ReportSplits
  <2>3. role = "DEV" => BlockedOn[n] = Cardinality(BlockedIn(report))
    BY <1>1, DayIsBlocked
  <2> HIDE DEF report
  <2>4. /\ tally \in Tallies /\ tally.days \in Nat /\ tally.members \in Nat /\ tally.eligible \in Nat
        /\ tally.blocked \in Nat /\ tally.warned \in Nat /\ \A r \in Reasons : tally.reasons[r] \in Nat
    BY DEF Tallied, Tallies
  <2>5. /\ next.days = tally.days + 1
        /\ next.members = tally.members + Cardinality(DOMAIN report)
        /\ next.eligible = tally.eligible + Cardinality(EligibleIn(report))
        /\ next.blocked = tally.blocked + Cardinality(BlockedIn(report))
        /\ next.warned = tally.warned + Cardinality(WarnedIn(report))
    BY DEF Tally
  <2>6. next \in Tallies
    <3>1. [r \in Reasons |-> tally.reasons[r] + Cardinality(ReasonsIn(report, r))] \in [Reasons -> Nat]
      BY <2>2, <2>4
    <3> QED BY <2>2, <2>4, <3>1 DEF Tally, Tallies
  <2> HIDE DEF next
  <2>7. next.days = Cardinality(DaysOf(role, n + 1))
    <3>1. Cardinality(DaysOf(role, n) \cup {n}) = Cardinality(DaysOf(role, n)) + 1
      BY <1>2, FS_AddElement
    <3> QED BY <1>2, <2>1, <2>5, <3>1 DEF Tallied
  <2>8. next.members = next.eligible + next.blocked
    <3>1. tally.members = tally.eligible + tally.blocked
      BY DEF Tallied
    <3> QED BY <2>2, <2>4, <2>5, <3>1
  <2>9. next.warned > 0 => role = "DEV"
    <3>1. tally.warned > 0 => role = "DEV"
      BY DEF Tallied
    <3> QED BY <2>2, <2>4, <2>5, <3>1
  <2>10. ASSUME role # "DEV", next.eligible > 0
         PROVE  RuleSeen(role)
    <3>1. tally.eligible > 0 \/ Cardinality(EligibleIn(report)) > 0
      BY <2>2, <2>4, <2>5, <2>10
    <3>2. CASE tally.eligible > 0
      BY <2>10, <3>2 DEF Tallied
    <3>3. CASE Cardinality(EligibleIn(report)) > 0
      BY <2>1, <2>2, <2>10, <3>3 DEF RuleSeen
    <3> QED BY <3>1, <3>2, <3>3
  <2>11. ASSUME role = "DEV"
         PROVE  next.blocked = SumFunctionOnSet(BlockedOn, DaysOf("DEV", n + 1))
    <3>1. tally.blocked = SumFunctionOnSet(BlockedOn, DaysOf("DEV", n))
      BY <2>11 DEF Tallied
    <3>2. \A d \in DaysOf("DEV", n) : BlockedOn[d] \in Int
      <4>1. \A d \in DaysOf("DEV", n) : d \in Int /\ d \in Days
        BY <1>1 DEF DaysOf, Days
      <4> QED BY <4>1, DayIsBlocked
    <3>3. BlockedOn[n] \in Int
      BY <1>1, DayIsBlocked
    <3>4. SumFunctionOnSet(BlockedOn, DaysOf("DEV", n) \cup {n})
            = BlockedOn[n] + SumFunctionOnSet(BlockedOn, DaysOf("DEV", n))
      BY <1>2, <2>11, <3>2, <3>3, SumAdds
    <3>5. SumFunctionOnSet(BlockedOn, DaysOf("DEV", n + 1)) = BlockedOn[n] + tally.blocked
      BY <1>2, <2>1, <2>11, <3>1, <3>4
    <3>6. BlockedOn[n] = Cardinality(BlockedIn(report))
      BY <2>3, <2>11
    <3> QED BY <2>2, <2>4, <2>5, <3>5, <3>6
  <2> QED BY <1>4, <2>6, <2>7, <2>8, <2>9, <2>10, <2>11 DEF Tallied, next, report
<1> QED BY <1>3, <1>4

\* A day either lengthens the last window or opens a new one.
Follows(next, g, m, w) ==
  /\ next \in Seq(WindowType) /\ Len(next) = m /\ next[m] = w
  /\ \A i \in 1 .. m - 1 : next[i] = g[i]
Lengthens(g, n, r, m, w) ==
  m = Len(g) /\ g[m].end = n /\ g[m].reasons = r /\ w.start = g[m].start
OpensOne(g, n, r, m, w) ==
  /\ m = Len(g) + 1 /\ w.start = n
  /\ m > 1 => ~(g[m - 1].end = n /\ g[m - 1].reasons = r)

LEMMA WithDayShape ==
  ASSUME NEW g \in Seq(WindowType), NEW n \in Int, NEW r \in SUBSET Reasons,
         NEW next, next = WithDay(g, n, r)
  PROVE  \E m \in Nat \ {0} : \E w \in WindowType :
           /\ Follows(next, g, m, w) /\ w.end = n + 1 /\ w.reasons = r
           /\ Lengthens(g, n, r, m, w) \/ OpensOne(g, n, r, m, w)
<1>1. Len(g) \in Nat /\ \A i \in 1 .. Len(g) : g[i] \in WindowType
  BY LenProperties, ElementOfSeq
<1>2. g # << >> <=> Len(g) > 0
  BY <1>1, EmptySeq
<1>3. CASE Extends(g, n, r)
  <2> DEFINE m == Len(g)
             w == Window(Last(g).start, n, r)
  <2>1. m \in Nat \ {0} /\ m \in 1 .. Len(g) /\ Last(g) = g[m] /\ g[m].end = n /\ g[m].reasons = r
    BY <1>1, <1>2, <1>3 DEF Extends, Last
  <2>2. g[m] \in WindowType /\ g[m].start \in Int
    <3>1. g[m] \in WindowType
      BY <1>1, <2>1
    <3> HIDE DEF m
    <3> QED BY <3>1 DEF WindowType
  <2>3. w \in WindowType /\ w.start = g[m].start /\ w.end = n + 1 /\ w.reasons = r
    <3> HIDE DEF m
    <3> QED BY <2>1, <2>2 DEF Window, WindowType
  <2>4. next = Append(SubSeq(g, 1, m - 1), w)
    BY <1>3 DEF WithDay, Front
  <2>5. /\ SubSeq(g, 1, m - 1) \in Seq(WindowType) /\ Len(SubSeq(g, 1, m - 1)) = m - 1
        /\ \A i \in 1 .. m - 1 : SubSeq(g, 1, m - 1)[i] = g[i]
    <3>1. 1 \in 1 .. Len(g) + 1 /\ m - 1 \in 0 .. Len(g) /\ m - 1 - 1 + 1 = m - 1
      BY <1>1, <2>1
    <3>2. \A i \in 1 .. m - 1 : 1 + i - 1 = i
      OBVIOUS
    <3> HIDE DEF m
    <3> QED BY <1>1, <2>1, <3>1, <3>2, SubSeqProperties
  <2> DEFINE front == SubSeq(g, 1, m - 1)
  <2> HIDE DEF w, front, m
  <2>6. /\ next \in Seq(WindowType) /\ Len(next) = Len(front) + 1 /\ next[Len(front) + 1] = w
        /\ \A i \in 1 .. Len(front) : next[i] = front[i]
    BY <2>3, <2>4, <2>5, AppendProperties DEF front
  <2>7. Len(front) = m - 1 /\ m - 1 + 1 = m
    BY <2>1, <2>5 DEF front
  <2>8. \A i \in 1 .. m - 1 : next[i] = g[i]
    BY <2>5, <2>6, <2>7 DEF front
  <2>9. next \in Seq(WindowType) /\ Len(next) = m /\ next[m] = w /\ m = Len(g)
    BY <2>6, <2>7 DEF m
  <2>10. Follows(next, g, m, w)
    BY <2>8, <2>9 DEF Follows
  <2>11. Lengthens(g, n, r, m, w)
    BY <2>1, <2>3, <2>9 DEF Lengthens
  <2> QED BY <2>1, <2>3, <2>10, <2>11
<1>4. CASE ~Extends(g, n, r)
  <2> DEFINE m == Len(g) + 1
             w == Window(n, n, r)
  <2>1. w \in WindowType /\ w.start = n /\ w.end = n + 1 /\ w.reasons = r
    BY DEF Window, WindowType
  <2>2. next = Append(g, w)
    BY <1>4 DEF WithDay
  <2> HIDE DEF w
  <2>3. /\ next \in Seq(WindowType) /\ Len(next) = m /\ next[m] = w
        /\ \A i \in 1 .. Len(g) : next[i] = g[i]
    BY <2>1, <2>2, AppendProperties
  <2>4. m \in Nat \ {0} /\ m - 1 = Len(g)
    BY <1>1
  <2>5. m > 1 => ~(g[m - 1].end = n /\ g[m - 1].reasons = r)
    BY <1>1, <1>2, <1>4, <2>4 DEF Extends, Last
  <2>6. m = Len(g) + 1
    OBVIOUS
  <2>7. \A i \in 1 .. m - 1 : next[i] = g[i]
    BY <2>3, <2>4
  <2> HIDE DEF m
  <2>8. Follows(next, g, m, w)
    BY <2>3, <2>7 DEF Follows
  <2>9. OpensOne(g, n, r, m, w)
    BY <2>1, <2>5, <2>6 DEF OpensOne
  <2> QED BY <2>1, <2>4, <2>8, <2>9
<1> QED BY <1>3, <1>4

\* A sum over the numbers up to m, by its last term.
LEMMA SumByLast ==
  ASSUME NEW m \in Nat \ {0}, NEW f, NEW h,
         \A i \in 1 .. m - 1 : f[i] \in Int /\ h[i] = f[i], h[m] \in Int
  PROVE  /\ SumFunctionOnSet(h, 1 .. m) = h[m] + SumFunctionOnSet(f, 1 .. m - 1)
         /\ SumFunctionOnSet(f, 1 .. m - 1) \in Int
<1> DEFINE S == 1 .. m
           T == 1 .. m - 1
<1>1. S = T \cup {m} /\ m \notin T
  OBVIOUS
<1>2. IsFiniteSet(T)
  BY FS_Interval
<1>3. \A i \in T : f[i] \in Int /\ h[i] = f[i] /\ h[i] \in Int
  OBVIOUS
<1> HIDE DEF S, T
<1>4. SumFunctionOnSet(h, T \cup {m}) = h[m] + SumFunctionOnSet(h, T)
  BY <1>1, <1>2, <1>3, SumAdds
<1>5. SumFunctionOnSet(h, T) = SumFunctionOnSet(f, T)
  BY <1>2, <1>3, SumsAgree
<1>6. SumFunctionOnSet(f, T) \in Int
  BY <1>2, <1>3, SumIsInteger
<1>7. SumFunctionOnSet(h, S) = h[m] + SumFunctionOnSet(f, T)
  BY <1>1, <1>4, <1>5
<1> QED BY <1>6, <1>7 DEF S, T

\* Each day that lacks a rule is one day more in the windows, and the windows stay exact.
LEMMA WithDayTraces ==
  ASSUME NEW s, NEW n \in Nat, NEW g, Traced(s, g, n), Lacks(s, n),
         NEW r, r = {WhyLacking(s, n)}, NEW next, next = WithDay(g, n, r)
  PROVE  /\ Traced(s, next, n + 1)
         /\ LengthOf(g) \in Int /\ LengthOf(next) = LengthOf(g) + 1
<1>1. r \in SUBSET Reasons
  BY DEF WhyLacking, Reasons
<1>2. /\ g \in Seq(WindowType) /\ Len(g) \in Nat
      /\ \A i \in 1 .. Len(g) : g[i] \in WindowType
      /\ \A i \in 1 .. Len(g) : 0 <= g[i].start /\ g[i].start < g[i].end /\ g[i].end <= n /\ Explained(s, g[i])
      /\ \A i, j \in 1 .. Len(g) : i < j => Apart(g[i], g[j])
      /\ \A d \in 0 .. n - 1 : Lacks(s, d) => Covered(g, d)
  BY LenProperties, ElementOfSeq DEF Traced
<1>3. \A i \in 1 .. Len(g) : g[i].start \in Int /\ g[i].end \in Int
  BY <1>2 DEF WindowType
<1>4. PICK m \in Nat \ {0}, w \in WindowType :
        /\ Follows(next, g, m, w) /\ w.end = n + 1 /\ w.reasons = r
        /\ Lengthens(g, n, r, m, w) \/ OpensOne(g, n, r, m, w)
  BY <1>1, <1>2, WithDayShape
<1>5. Len(next) = m /\ next[m] = w /\ w.end = n + 1 /\ w.reasons = r /\ next \in Seq(WindowType)
  BY <1>4 DEF Follows
<1>52. \A i \in 1 .. m - 1 : next[i] = g[i]
  BY <1>4 DEF Follows
<1>51. \/ m = Len(g) /\ g[m].end = n /\ g[m].reasons = r /\ w.start = g[m].start
       \/ /\ m = Len(g) + 1 /\ w.start = n
          /\ m > 1 => ~(g[m - 1].end = n /\ g[m - 1].reasons = r)
  BY <1>4 DEF Lengthens, OpensOne
<1>6. /\ m - 1 <= Len(g) /\ m >= 1 /\ \A i \in 1 .. m - 1 : i \in 1 .. Len(g)
      /\ \A i \in 1 .. m : i \in 1 .. m - 1 \/ i = m
  BY <1>2, <1>5, <1>51
<1>7. w.start \in Int /\ 0 <= w.start /\ w.start < n + 1
  BY <1>2, <1>3, <1>5, <1>51, <1>6
<1>8. Explained(s, w)
  <2> SUFFICES ASSUME NEW d \in w.start .. n PROVE Lacks(s, d) /\ r = {WhyLacking(s, d)}
    <3>1. w.end - 1 = n
      BY <1>5
    <3> QED BY <1>5, <3>1 DEF Explained
  <2>1. CASE d = n
    BY <2>1
  <2>2. CASE d # n
    <3>1. m = Len(g) /\ g[m].end = n /\ g[m].reasons = r /\ w.start = g[m].start
      BY <1>5, <1>51, <1>7, <2>2
    <3>2. d \in g[m].start .. g[m].end - 1 /\ m \in 1 .. Len(g)
      BY <1>6, <1>7, <2>2, <3>1
    <3> QED BY <1>2, <3>1, <3>2 DEF Explained
  <2> QED BY <2>1, <2>2
<1>9. ASSUME NEW i \in 1 .. m
      PROVE  0 <= next[i].start /\ next[i].start < next[i].end /\ next[i].end <= n + 1 /\ Explained(s, next[i])
  <2>1. CASE i = m
    BY <1>5, <1>7, <1>8, <2>1
  <2>2. CASE i # m
    <3>1. i \in 1 .. m - 1 /\ i \in 1 .. Len(g)
      BY <1>6, <2>2
    <3>2. 0 <= g[i].start /\ g[i].start < g[i].end /\ g[i].end <= n + 1 /\ Explained(s, g[i])
      BY <1>2, <1>3, <3>1
    <3> QED BY <1>52, <3>1, <3>2
  <2> QED BY <2>1, <2>2
<1>10. ASSUME NEW i \in 1 .. m, NEW j \in 1 .. m, i < j
       PROVE  Apart(next[i], next[j])
  <2>1. i \in 1 .. m - 1 /\ i \in 1 .. Len(g) /\ next[i] = g[i]
    <3>1. i \in 1 .. m - 1
      BY <1>10
    <3> QED BY <1>52, <1>6, <3>1
  <2>2. CASE j # m
    <3>1. j \in 1 .. m - 1 /\ j \in 1 .. Len(g) /\ next[j] = g[j]
      BY <1>52, <1>6, <2>2
    <3> QED BY <1>2, <1>10, <2>1, <3>1
  <2>3. CASE j = m /\ m = Len(g)
    <3>1. w.start = g[m].start /\ w.reasons = g[m].reasons /\ m \in 1 .. Len(g)
      <4>1. m # Len(g) + 1
        BY <1>2, <2>3
      <4>2. w.start = g[m].start /\ g[m].reasons = r
        BY <1>51, <4>1
      <4> QED BY <1>5, <2>3, <4>2
    <3>2. Apart(g[i], g[m])
      BY <1>2, <1>10, <2>1, <2>3, <3>1
    <3>3. next[j] = w
      BY <1>5, <2>3
    <3> QED BY <2>1, <3>1, <3>2, <3>3 DEF Apart
  <2>4. CASE j = m /\ m = Len(g) + 1
    <3>1. w.start = n /\ next[j] = w /\ g[i].end <= n /\ g[i].end \in Int
      BY <1>2, <1>3, <1>5, <1>51, <2>1, <2>4
    <3>2. ~(g[i].end = n /\ g[i].reasons = r)
      <4>1. CASE i = m - 1
        BY <1>5, <1>51, <1>6, <2>1, <2>4, <4>1
      <4>2. CASE i # m - 1
        <5>1. i < m - 1 /\ m - 1 \in 1 .. Len(g)
          BY <2>1, <2>4, <4>2
        <5>2. Apart(g[i], g[m - 1]) /\ g[m - 1].start < g[m - 1].end /\ g[m - 1].end <= n
          BY <1>2, <2>1, <5>1
        <5>3. g[i].end < n
          BY <1>3, <2>1, <5>1, <5>2 DEF Apart
        <5> QED BY <3>1, <5>3
      <4> QED BY <4>1, <4>2
    <3> QED BY <1>5, <2>1, <3>1, <3>2 DEF Apart
  <2>5. m = Len(g) \/ m = Len(g) + 1
    BY <1>51
  <2> QED BY <2>2, <2>3, <2>4, <2>5
<1>11. ASSUME NEW d \in 0 .. n, Lacks(s, d)
       PROVE  Covered(next, d)
  <2>1. CASE d = n
    <3>1. m \in 1 .. Len(next) /\ next[m].start <= d /\ d < next[m].end
      BY <1>5, <1>51, <1>6, <1>7, <2>1
    <3> QED BY <3>1 DEF Covered
  <2>2. CASE d # n
    <3>1. d \in 0 .. n - 1
      BY <2>2
    <3>2. PICK i \in 1 .. Len(g) : g[i].start <= d /\ d < g[i].end
      BY <1>2, <1>11, <3>1 DEF Covered
    <3>3. CASE i \in 1 .. m - 1
      <4>1. i \in 1 .. Len(next) /\ next[i] = g[i]
        <5>1. i \in 1 .. m
          BY <3>3
        <5> QED BY <1>5, <1>52, <3>3, <5>1
      <4> QED BY <3>2, <4>1 DEF Covered
    <3>4. CASE i \notin 1 .. m - 1
      <4>1. i = m /\ m = Len(g)
        BY <1>2, <1>5, <1>51, <1>6, <3>2, <3>4
      <4>2. w.start <= d /\ d < w.end
        <5>1. m # Len(g) + 1 /\ d < n + 1
          BY <1>2, <4>1
        <5>2. w.start = g[m].start
          BY <1>51, <5>1
        <5> QED BY <1>5, <3>2, <4>1, <5>1, <5>2
      <4>3. m \in 1 .. Len(next) /\ next[m] = w
        BY <1>5, <1>51, <1>6
      <4> QED BY <4>2, <4>3 DEF Covered
    <3> QED BY <3>3, <3>4
  <2> QED BY <2>1, <2>2
<1>12. Traced(s, next, n + 1)
  <2> DEFINE k == n + 1
  <2>1. k - 1 = n
    OBVIOUS
  <2>2. \A i \in 1 .. m : 0 <= next[i].start /\ next[i].start < next[i].end /\ next[i].end <= k /\ Explained(s, next[i])
    BY <1>9
  <2>3. \A i, j \in 1 .. m : i < j => Apart(next[i], next[j])
    BY <1>10
  <2>4. \A d \in 0 .. k - 1 : Lacks(s, d) => Covered(next, d)
    BY <1>11, <2>1
  <2> HIDE DEF k
  <2>5. Traced(s, next, k)
    BY <1>5, <2>2, <2>3, <2>4 DEF Traced
  <2> QED BY <2>5 DEF k
<1>13. LengthOf(g) \in Int /\ LengthOf(next) = LengthOf(g) + 1
  <2> DEFINE f == LengthsOf(g)
             h == LengthsOf(next)
  <2>1. \A i \in 1 .. Len(g) : f[i] = g[i].end - g[i].start
    BY DEF LengthsOf
  <2>2. \A i \in 1 .. m : h[i] = next[i].end - next[i].start
    BY <1>5 DEF LengthsOf
  <2>3. LengthOf(g) = SumFunctionOnSet(f, 1 .. Len(g)) /\ LengthOf(next) = SumFunctionOnSet(h, 1 .. m)
    BY <1>5 DEF LengthOf
  <2> HIDE DEF f, h
  <2>4. \A i \in 1 .. Len(g) : f[i] \in Int
    BY <1>3, <2>1
  <2>5. h[m] = n + 1 - w.start /\ h[m] \in Int
    <3>1. m \in 1 .. m /\ next[m] = w /\ w.end = n + 1
      BY <1>5, <1>51, <1>6
    <3>2. h[m] = w.end - w.start
      BY <2>2, <3>1
    <3> QED BY <1>7, <3>1, <3>2
  <2>6. \A i \in 1 .. m - 1 : f[i] \in Int /\ h[i] = f[i]
    <3> SUFFICES ASSUME NEW i \in 1 .. m - 1 PROVE f[i] \in Int /\ h[i] = f[i]
      OBVIOUS
    <3>1. i \in 1 .. Len(g) /\ i \in 1 .. m /\ next[i] = g[i]
      <4>1. i \in 1 .. m
        OBVIOUS
      <4> QED BY <1>52, <1>6, <4>1
    <3> QED BY <2>1, <2>2, <2>4, <3>1
  <2> DEFINE before == SumFunctionOnSet(f, 1 .. m - 1)
  <2>7. SumFunctionOnSet(h, 1 .. m) = h[m] + before /\ before \in Int
    BY <2>5, <2>6, SumByLast
  <2>8. CASE m = Len(g)
    <3>1. m \in 1 .. Len(g) /\ g[m].end = n /\ w.start = g[m].start
      <4>1. m # Len(g) + 1
        BY <1>2, <2>8
      <4>2. w.start = g[m].start /\ g[m].end = n
        BY <1>51, <4>1
      <4> QED BY <2>8, <4>2
    <3>2. f[m] = n - w.start /\ f[m] \in Int
      BY <2>1, <2>4, <3>1
    <3>3. SumFunctionOnSet(f, 1 .. m) = f[m] + before
      BY <2>6, <3>2, SumByLast
    <3>4. LengthOf(g) = f[m] + before
      BY <2>3, <2>8, <3>3
    <3> HIDE DEF before
    <3> QED BY <1>7, <2>3, <2>5, <2>7, <3>2, <3>4
  <2>9. CASE m = Len(g) + 1
    <3>1. w.start = n /\ m - 1 = Len(g)
      BY <1>2, <1>5, <1>51, <2>9
    <3>2. LengthOf(g) = before
      BY <2>3, <3>1
    <3>3. h[m] = 1
      BY <2>5, <3>1
    <3> HIDE DEF before
    <3> QED BY <2>3, <2>7, <3>2, <3>3
  <2> QED BY <1>5, <1>51, <2>8, <2>9
<1> QED BY <1>12, <1>13

\* A day with a rule changes nothing.
LEMMA OtherDayTraces ==
  ASSUME NEW s, NEW n \in Nat, NEW g, Traced(s, g, n), ~Lacks(s, n)
  PROVE  Traced(s, g, n + 1)
<1>1. \A i \in 1 .. Len(g) : g[i].end \in Int
  <2>1. \A i \in 1 .. Len(g) : g[i] \in WindowType
    BY ElementOfSeq DEF Traced
  <2> QED BY <2>1 DEF WindowType
<1>2. \A d \in 0 .. n + 1 - 1 : d = n \/ d \in 0 .. n - 1
  OBVIOUS
<1>3. \A i \in 1 .. Len(g) : g[i].end <= n => g[i].end <= n + 1
  BY <1>1
<1>4. \A d \in 0 .. n + 1 - 1 : Lacks(s, d) => d \in 0 .. n - 1
  BY <1>2
<1>5. \A d \in 0 .. n + 1 - 1 : Lacks(s, d) => Covered(g, d)
  BY <1>4 DEF Traced
<1>6. \A i \in 1 .. Len(g) : /\ 0 <= g[i].start /\ g[i].start < g[i].end
                             /\ g[i].end <= n + 1 /\ Explained(s, g[i])
  BY <1>3 DEF Traced
<1> HIDE DEF Lacks, Covered, Explained
<1> QED BY <1>5, <1>6 DEF Traced

\* In DEV the blocked members are those that lack a rule, for the reason they lack it.
LEMMA BlockedLack ==
  ASSUME registry \in Registries, NEW d \in Int, InSegment("DEV", d)
  PROVE  /\ BlockedIn(DayReport(d, "DEV")) = {s \in members[d] : Lacks(s, d)}
         /\ \A s \in BlockedIn(DayReport(d, "DEV")) :
              DayReport(d, "DEV")[s].reasons = {WhyLacking(s, d)}
<1> DEFINE report == DayReport(d, "DEV")
<1>1. "DEV" \in Range(Roles)
  BY RolesAre
<1>2. \A s \in members[d] : /\ Lacks(s, d) <=> report[s].reasons # {}
                            /\ Lacks(s, d) => report[s].reasons = {WhyLacking(s, d)}
  BY <1>1, GateSays
<1>3. DOMAIN report = members[d]
  BY DEF DayReport, GateReport, Snapshot
<1> HIDE DEF report
<1>4. BlockedIn(report) = {s \in members[d] : Lacks(s, d)}
  BY <1>2, <1>3 DEF BlockedIn, EligibleIn
<1>5. \A s \in BlockedIn(report) : report[s].reasons = {WhyLacking(s, d)}
  BY <1>2, <1>4
<1> QED BY <1>4, <1>5 DEF report

\* What is said of the days and the windows speaks of the inputs only.
LEMMA InputsOnly ==
  ASSUME UNCHANGED <<registry, members>>
  PROVE  /\ \A s, d : Lacks(s, d)' = Lacks(s, d) /\ WhyLacking(s, d)' = WhyLacking(s, d)
         /\ \A s, g, n : Traced(s, g, n) => Traced(s, g, n)'
         /\ \A role, tally, n : Tallied(role, tally, n) => Tallied(role, tally, n)'
         /\ BlockedOn' = BlockedOn
<1>1. \A s, d : Lacks(s, d)' = Lacks(s, d) /\ WhyLacking(s, d)' = WhyLacking(s, d)
  BY DEF Lacks, WhyLacking
<1>2. BlockedOn' = BlockedOn
  <2>1. \A d : DayReport(d, "DEV")' = DayReport(d, "DEV")
    BY DEF DayReport, Snapshot
  <2> QED BY <2>1 DEF BlockedOn
<1>3. \A role : RuleSeen(role)' = RuleSeen(role)
  BY DEF RuleSeen
<1>4. \A role, tally, n : Tallied(role, tally, n) => Tallied(role, tally, n)'
  BY <1>2, <1>3 DEF Tallied
<1>5. \A s, w : Explained(s, w)' = Explained(s, w)
  BY <1>1 DEF Explained
<1>6. \A s, g, n : Traced(s, g, n) => Traced(s, g, n)'
  BY <1>1, <1>5 DEF Traced
<1> QED BY <1>1, <1>2, <1>4, <1>6

LEMMA MembersAreFinite ==
  ASSUME members \in Memberships, Admissible
  PROVE  \A d \in Days : members[d] \subseteq Symbols /\ IsFiniteSet(members[d])
<1>1. \A d \in Days : members[d] \subseteq Symbols
  BY AuditAssumption DEF Admissible
<1> QED BY <1>1, AuditAssumption, FS_Subset

LEMMA AuditInitHolds == AuditInit => AuditInv
<1> SUFFICES ASSUME AuditInit PROVE AuditInv
  OBVIOUS
<1>1. \A role : DaysOf(role, 0) = {}
  BY DEF DaysOf
<1>2. Cardinality({}) = 0 /\ SumFunctionOnSet(BlockedOn, {}) = 0
  BY FS_EmptySet, SumOfNothing
<1>3. NothingSeen \in Tallies
  BY DEF NothingSeen, Tallies
<1>4. \A role \in Range(Roles) : Tallied(role, NothingSeen, 0)
  BY <1>1, <1>2, <1>3 DEF Tallied, NothingSeen
<1>5. Counted(0)
  BY <1>4 DEF Counted, AuditInit
<1> QED BY <1>5, AuditAssumption DEF AuditInv, AuditInit

LEMMA RefuseKeeps == ASSUME AuditInv, Refuse PROVE AuditInv'
<1>1. ~Admissible \/ SplitRaises
  BY DEF Refuse
<1>2. (~Admissible)' = ~Admissible
  BY DEF Refuse, Admissible
<1> QED BY <1>1, <1>2 DEF AuditInv, Refuse

LEMMA AuditDayKeeps == ASSUME AuditInv, AuditDay PROVE AuditInv'
<1>1. /\ day \in 0 .. DayCount /\ day < DayCount /\ Counted(day) /\ ~SplitRaises /\ Admissible
      /\ registry \in Registries /\ members \in Memberships /\ DayCount \in Nat
      /\ gaps = [s \in Symbols |-> << >>]
  BY AuditAssumption DEF AuditInv, AuditDay
<1>2. day \in Days /\ day + 1 \in 0 .. DayCount
  BY <1>1 DEF Days
<1>3. UNCHANGED <<registry, members>> /\ Admissible'
  BY <1>1 DEF AuditDay, Admissible
<1> DEFINE next(role) == IF role = RoleFor(day) THEN Tally(counts[role], DayReport(day, role)) ELSE counts[role]
<1>4. \A role \in Range(Roles) : Tallied(role, next(role), day + 1)
  BY <1>1, <1>2, MembersAreFinite, DayIsTallied DEF Counted
<1>5. RoleFor(day) \in Range(Roles)
  BY <1>1, <1>2, RoleOfDay
<1>6. counts' = [counts EXCEPT ![RoleFor(day)] = Tally(counts[RoleFor(day)], DayReport(day, RoleFor(day)))]
  BY DEF AuditDay
<1>7. DOMAIN counts' = Range(Roles) /\ \A role \in Range(Roles) : counts'[role] = next(role)
  BY <1>1, <1>5, <1>6 DEF Counted
<1>8. \A role \in Range(Roles) : Tallied(role, counts'[role], day + 1)
  <2> HIDE DEF next
  <2> QED BY <1>4, <1>7
<1>9. Counted(day)'
  <2> SUFFICES ASSUME NEW role \in Range(Roles) PROVE Tallied(role, counts[role], day)'
    BY <1>7 DEF Counted
  <2>1. PICK t, n : t = counts'[role] /\ n = day'
    OBVIOUS
  <2>2. Tallied(role, t, n)
    BY <1>8, <2>1 DEF AuditDay
  <2>3. Tallied(role, t, n)'
    BY <1>3, <2>2, InputsOnly
  <2> QED BY <2>1, <2>3
<1> QED BY <1>1, <1>2, <1>3, <1>9 DEF AuditInv, AuditDay

\* The length of the windows is an integer, and none without windows.
LEMMA LengthIsInteger ==
  ASSUME NEW s, NEW n \in Nat, NEW g, Traced(s, g, n)
  PROVE  LengthOf(g) \in Int /\ (g = << >> => LengthOf(g) = 0)
<1>1. Len(g) \in Nat /\ \A i \in 1 .. Len(g) : g[i] \in WindowType
  BY LenProperties, ElementOfSeq DEF Traced
<1>2. \A i \in 1 .. Len(g) : LengthsOf(g)[i] \in Int
  BY <1>1 DEF LengthsOf, WindowType
<1>3. LengthOf(g) \in Int
  <2> DEFINE S == 1 .. Len(g)
             f == LengthsOf(g)
  <2>1. IsFiniteSet(S) /\ \A i \in S : f[i] \in Int
    BY <1>1, <1>2, FS_Interval
  <2> HIDE DEF S, f
  <2>2. SumFunctionOnSet(f, S) \in Int
    BY <2>1, SumIsInteger
  <2> QED BY <2>2 DEF LengthOf, S, f
<1>4. ASSUME g = << >> PROVE LengthOf(g) = 0
  <2>1. Len(g) = 0 /\ 1 .. 0 = {}
    BY <1>4, EmptySeq
  <2> QED BY <2>1, SumOfNothing DEF LengthOf
<1> QED BY <1>3, <1>4

LEMMA BeginGapsKeeps == ASSUME AuditInv, BeginGaps PROVE AuditInv'
<1>1. /\ phase = "AUDIT" /\ day = DayCount /\ ~SplitRaises /\ Counted(DayCount)
      /\ gaps = [s \in Symbols |-> << >>]
  BY DEF AuditInv, BeginGaps
<1>2. DayCount # 0 /\ Admissible
  BY <1>1 DEF AuditInv, SplitRaises
<1>3. day' = 0 /\ gaps' = gaps /\ counts' = counts /\ UNCHANGED <<registry, members>> /\ Admissible'
  <2>1. SegmentStart("DEV") = 0
    BY DEF SegmentStart
  <2> QED BY <1>2, <2>1 DEF BeginGaps, Admissible
<1>4. Counted(DayCount)'
  BY <1>1, <1>3, InputsOnly DEF Counted
<1>5. 0 <= SegmentDays("DEV")
  BY <1>1, SplitOfDays
<1>6. \A s \in Symbols : Traced(s, << >>, 0)
  <2>1. << >> \in Seq(WindowType) /\ Len(<< >>) = 0
    BY EmptySeq
  <2> QED BY <2>1 DEF Traced
<1>7. \A s \in Symbols : Traced(s, gaps[s], day)'
  BY <1>1, <1>3, <1>6, InputsOnly
<1>8. SumFunctionOnSet(GapLengths', Symbols) = 0
  <2>1. \A s \in Symbols : GapLengths'[s] = 0
    <3> SUFFICES ASSUME NEW s \in Symbols PROVE GapLengths'[s] = 0
      OBVIOUS
    <3>1. GapLengths'[s] = LengthOf(<< >>)
      BY <1>1, <1>3 DEF GapLengths
    <3>2. Len(<< >>) = 0 /\ 1 .. 0 = {}
      BY EmptySeq
    <3>3. LengthOf(<< >>) = 0
      BY <3>2, SumOfNothing DEF LengthOf
    <3> QED BY <3>1, <3>3
  <2>2. SumFunctionOnSet(GapLengths', Symbols) = 0 * Cardinality(Symbols)
    BY <2>1, AuditAssumption, SumOfEquals
  <2>3. Cardinality(Symbols) \in Nat
    BY AuditAssumption, FS_CardinalityType
  <2> QED BY <2>2, <2>3
<1>9. SumFunctionOnSet(BlockedOn', DaysOf("DEV", day')) = 0
  <2>1. DaysOf("DEV", 0) = {}
    BY DEF DaysOf
  <2> QED BY <1>3, <2>1, SumOfNothing
<1>10. Walked'
  BY <1>1, <1>3, <1>4, <1>5, <1>7, <1>8, <1>9 DEF Walked
<1> QED BY <1>1, <1>3, <1>10 DEF AuditInv, BeginGaps

LEMMA GapDayKeeps == ASSUME AuditInv, GapDay PROVE AuditInv'
<1> DEFINE report == DayReport(day, "DEV")
           blocked == BlockedIn(report)
<1>1. /\ phase = "GAPS" /\ InSegment("DEV", day) /\ Walked /\ ~SplitRaises /\ Admissible
      /\ registry \in Registries /\ members \in Memberships
  BY DEF AuditInv, GapDay
<1>2. /\ day \in Nat /\ DOMAIN gaps = Symbols /\ \A s \in Symbols : Traced(s, gaps[s], day)
      /\ SumFunctionOnSet(GapLengths, Symbols) = SumFunctionOnSet(BlockedOn, DaysOf("DEV", day))
      /\ Counted(DayCount)
  BY <1>1 DEF Walked
<1>3. /\ day' = day + 1 /\ UNCHANGED <<registry, members, phase, counts>> /\ Admissible'
      /\ gaps' = [s \in Symbols |-> IF s \in blocked THEN WithDay(gaps[s], day, report[s].reasons)
                                    ELSE gaps[s]]
  BY <1>1 DEF GapDay, Admissible
<1>4. day + 1 <= SegmentDays("DEV") /\ day \in Days /\ day \in Int
  BY <1>1, <1>2, SplitOfDays DEF Days
<1>5. /\ blocked = {s \in members[day] : Lacks(s, day)} /\ members[day] \subseteq Symbols
      /\ IsFiniteSet(members[day])
      /\ \A s \in blocked : report[s].reasons = {WhyLacking(s, day)}
  BY <1>1, <1>4, BlockedLack, MembersAreFinite
<1>6. \A s : Lacks(s, day) => s \in members[day]
  BY DEF Lacks
<1> HIDE DEF report, blocked
<1>7. ASSUME NEW s \in Symbols
      PROVE  /\ Traced(s, gaps'[s], day + 1)
             /\ GapLengths[s] \in Int
             /\ GapLengths'[s] = GapLengths[s] + (IF s \in blocked THEN 1 ELSE 0)
  <2>0. GapLengths[s] = LengthOf(gaps[s]) /\ GapLengths'[s] = LengthOf(gaps'[s])
    BY DEF GapLengths
  <2>1. PICK g, n, next : g = gaps[s] /\ n = day /\ next = gaps'[s]
    OBVIOUS
  <2>2. Traced(s, g, n) /\ n \in Nat
    BY <1>2, <2>1
  <2>3. CASE s \in blocked
    <3>1. Lacks(s, n) /\ next = WithDay(g, n, {WhyLacking(s, n)})
      BY <1>3, <1>5, <2>1, <2>3
    <3>2. Traced(s, next, n + 1) /\ LengthOf(g) \in Int /\ LengthOf(next) = LengthOf(g) + 1
      BY <2>2, <3>1, WithDayTraces
    <3> QED BY <2>0, <2>1, <2>3, <3>2
  <2>4. CASE s \notin blocked
    <3>1. ~Lacks(s, n) /\ next = g
      BY <1>3, <1>5, <1>6, <2>1, <2>4
    <3>2. Traced(s, g, n + 1)
      BY <2>2, <3>1, OtherDayTraces
    <3>3. LengthOf(g) \in Int
      BY <2>2, LengthIsInteger
    <3> QED BY <2>0, <2>1, <2>4, <3>1, <3>2, <3>3
  <2> QED BY <2>3, <2>4
<1>8. SumFunctionOnSet(GapLengths', Symbols) = SumFunctionOnSet(BlockedOn, DaysOf("DEV", day + 1))
  <2> DEFINE f == GapLengths
             h == GapLengths'
             one == [s \in Symbols |-> IF s \in blocked THEN 1 ELSE 0]
  <2>1. /\ IsFiniteSet(Symbols) /\ blocked \in SUBSET Symbols
        /\ \A s \in Symbols : f[s] \in Int /\ one[s] \in Int /\ h[s] = f[s] + one[s]
    BY <1>5, <1>7, AuditAssumption
  <2>2. \A s \in blocked : one[s] = 1 /\ one[s] \in Int
    BY <2>1
  <2>3. \A s \in Symbols \ blocked : one[s] = 0
    OBVIOUS
  <2> HIDE DEF f, h, one
  <2>4. SumFunctionOnSet(h, Symbols) = SumFunctionOnSet(f, Symbols) + SumFunctionOnSet(one, Symbols)
    BY <2>1, SumOfSums
  <2>5. SumFunctionOnSet(one, Symbols) = SumFunctionOnSet(one, blocked)
    BY <2>1, <2>2, <2>3, SumOfPart
  <2>6. IsFiniteSet(blocked) /\ Cardinality(blocked) \in Nat
    BY <2>1, FS_Subset, FS_CardinalityType
  <2>7. SumFunctionOnSet(one, blocked) = 1 * Cardinality(blocked)
    BY <2>2, <2>6, SumOfEquals
  <2>8. BlockedOn[day] = Cardinality(blocked)
    BY <1>1, <1>4, <1>5, DayIsBlocked DEF blocked, report
  <2>9. /\ DaysOf("DEV", day + 1) = DaysOf("DEV", day) \cup {day} /\ IsFiniteSet(DaysOf("DEV", day))
        /\ day \notin DaysOf("DEV", day)
    BY <1>1, <1>2, DaysGrow
  <2>10. \A d \in DaysOf("DEV", day) : BlockedOn[d] \in Int
    <3>1. \A d \in DaysOf("DEV", day) : d \in Days /\ d \in Int
      <4>1. day < DayCount /\ DayCount \in Nat
        BY <1>4, AuditAssumption DEF Days
      <4>2. \A d \in 0 .. day - 1 : d \in 0 .. DayCount - 1 /\ d \in Int
        BY <1>4, <4>1
      <4> QED BY <4>2 DEF DaysOf, Days
    <3> QED BY <1>1, <3>1, MembersAreFinite, DayIsBlocked
  <2>11. SumFunctionOnSet(BlockedOn, DaysOf("DEV", day + 1))
           = BlockedOn[day] + SumFunctionOnSet(BlockedOn, DaysOf("DEV", day))
    BY <2>6, <2>8, <2>9, <2>10, SumAdds
  <2>12. SumFunctionOnSet(f, Symbols) = SumFunctionOnSet(BlockedOn, DaysOf("DEV", day))
    BY <1>2 DEF f
  <2>13. SumFunctionOnSet(f, Symbols) \in Int
    BY <2>1, SumIsInteger
  <2>14. SumFunctionOnSet(h, Symbols) = SumFunctionOnSet(f, Symbols) + Cardinality(blocked)
    BY <2>4, <2>5, <2>6, <2>7
  <2>15. SumFunctionOnSet(h, Symbols) = SumFunctionOnSet(BlockedOn, DaysOf("DEV", day + 1))
    BY <2>6, <2>8, <2>11, <2>12, <2>13, <2>14
  <2> QED BY <2>15 DEF h
<1>9. Counted(DayCount)'
  BY <1>2, <1>3, InputsOnly DEF Counted
<1>10. \A s \in Symbols : Traced(s, gaps[s], day)'
  <2> SUFFICES ASSUME NEW s \in Symbols PROVE Traced(s, gaps[s], day)'
    OBVIOUS
  <2>1. PICK g, n : g = gaps'[s] /\ n = day'
    OBVIOUS
  <2>2. Traced(s, g, n)
    BY <1>3, <1>7, <2>1
  <2>3. Traced(s, g, n)'
    BY <1>3, <2>2, InputsOnly
  <2> QED BY <2>1, <2>3
<1>11. SumFunctionOnSet(GapLengths', Symbols) = SumFunctionOnSet(BlockedOn', DaysOf("DEV", day'))
  BY <1>3, <1>8, InputsOnly
<1>12. Walked'
  <2>1. day' \in Nat /\ day' <= SegmentDays("DEV") /\ DOMAIN gaps' = Symbols
    BY <1>2, <1>3, <1>4
  <2> QED BY <1>9, <1>10, <1>11, <2>1 DEF Walked
<1> QED BY <1>1, <1>3, <1>12 DEF AuditInv

LEMMA WalkedStays ==
  ASSUME Walked, UNCHANGED <<registry, members, day, counts, gaps>>
  PROVE  Walked'
<1>1. Counted(DayCount)'
  BY InputsOnly DEF Walked, Counted
<1>2. \A s \in Symbols : Traced(s, gaps[s], day)'
  <2> SUFFICES ASSUME NEW s \in Symbols PROVE Traced(s, gaps[s], day)'
    OBVIOUS
  <2>1. PICK g, n : g = gaps'[s] /\ n = day'
    OBVIOUS
  <2>2. Traced(s, g, n)
    BY <2>1 DEF Walked
  <2>3. Traced(s, g, n)'
    BY <2>2, InputsOnly
  <2> QED BY <2>1, <2>3
<1>3. GapLengths' = GapLengths /\ BlockedOn' = BlockedOn
  BY InputsOnly DEF GapLengths
<1> QED BY <1>1, <1>2, <1>3 DEF Walked

\* What GapsExplainTheAudit asks of a window of a day.
Explains(s, d, w) ==
  /\ w.start <= d /\ d < w.end /\ w.reasons = {WhyLacking(s, d)}
  /\ \A e \in w.start .. w.end - 1 : SameGap(s, d, e)
  /\ \A e \in {w.start - 1, w.end} : ~SameGap(s, d, e)

\* The walk over, its windows add up to the blocked member-days of the audit.
LEMMA WalkReconciles ==
  ASSUME AuditInv, phase \in {"GAPS", "DONE"}, day = SegmentDays("DEV")
  PROVE  GapsReconcile
<1>1. /\ ~SplitRaises /\ DOMAIN gaps = Symbols /\ \A s \in Symbols : Traced(s, gaps[s], day)
      /\ SumFunctionOnSet(GapLengths, Symbols) = SumFunctionOnSet(BlockedOn, DaysOf("DEV", day))
      /\ Counted(DayCount) /\ day \in Nat
  BY DEF AuditInv, Walked
<1>2. DaysOf("DEV", day) = DaysOf("DEV", DayCount)
  <2>1. PICK q \in Nat : /\ q > 0 /\ DayCount = 4 * q /\ SegmentDays("DEV") = 2 * q
                         /\ \A d \in Int : InSegment("DEV", d) <=> 0 <= d /\ d < 2 * q
    BY <1>1, SplitOfDays
  <2>2. \A d : d \in DaysOf("DEV", day) <=> d \in Int /\ 0 <= d /\ d < 2 * q
    BY <2>1 DEF DaysOf
  <2>3. \A d : d \in DaysOf("DEV", DayCount) <=> d \in Int /\ 0 <= d /\ d < 2 * q
    BY <2>1 DEF DaysOf
  <2> QED BY <2>2, <2>3
<1>3. counts["DEV"].blocked = SumFunctionOnSet(BlockedOn, DaysOf("DEV", DayCount))
  BY <1>1, RolesAre DEF Counted, Tallied
<1> DEFINE f == [s \in Symbols |-> BlockedDays(s)]
<1>4. \A s \in Symbols : f[s] = LengthOf(gaps[s]) /\ GapLengths[s] = LengthOf(gaps[s])
  <2> SUFFICES ASSUME NEW s \in Symbols PROVE f[s] = LengthOf(gaps[s]) /\ GapLengths[s] = LengthOf(gaps[s])
    OBVIOUS
  <2>1. gaps[s] \in Seq(WindowType)
    BY <1>1 DEF Traced
  <2>2. DOMAIN gaps[s] = 1 .. Len(gaps[s])
    BY <2>1, LenProperties
  <2>3. BlockedDays(s) = LengthOf(gaps[s])
    BY <2>2 DEF BlockedDays, LengthOf, LengthsOf, SumFunction
  <2> QED BY <2>3 DEF GapLengths
<1>5. \A s \in Symbols : f[s] \in Int /\ (gaps[s] = << >> => f[s] = 0)
  <2> HIDE DEF f
  <2> QED BY <1>1, <1>4, LengthIsInteger
<1>6. IsFiniteSet(Symbols) /\ GapTargets \in SUBSET Symbols
  BY AuditAssumption DEF GapTargets
<1>7. \A s \in Symbols \ GapTargets : f[s] = 0
  <2> HIDE DEF f
  <2> QED BY <1>5 DEF GapTargets
<1>8. SumFunctionOnSet(f, GapTargets) = counts["DEV"].blocked
  <2> HIDE DEF f
  <2>1. SumFunctionOnSet(f, Symbols) = SumFunctionOnSet(f, GapTargets)
    <3>1. \A s \in GapTargets : f[s] \in Int
      BY <1>5, <1>6
    <3> QED BY <1>6, <1>7, <3>1, SumOfPart
  <2>2. SumFunctionOnSet(f, Symbols) = SumFunctionOnSet(GapLengths, Symbols)
    BY <1>4, <1>6, SumsAgree
  <2> QED BY <1>1, <1>2, <1>3, <2>1, <2>2
<1>9. ASSUME NEW s \in GapTargets, NEW i \in 1 .. Len(gaps[s]) - 1
      PROVE  Apart(gaps[s][i], gaps[s][i + 1])
  <2>1. Traced(s, gaps[s], day)
    BY <1>1, <1>6
  <2>2. Len(gaps[s]) \in Nat
    BY <2>1, LenProperties DEF Traced
  <2>3. i \in 1 .. Len(gaps[s]) /\ i + 1 \in 1 .. Len(gaps[s]) /\ i < i + 1
    BY <2>2
  <2> QED BY <2>1, <2>3 DEF Traced
<1> HIDE DEF f
<1> QED BY <1>8, <1>9 DEF GapsReconcile, Apart, f

LEMMA FinishKeeps == ASSUME AuditInv, Finish PROVE AuditInv'
<1>1. /\ phase = "GAPS" /\ ~InSegment("DEV", day) /\ Walked /\ ~SplitRaises /\ Admissible
  BY DEF AuditInv, Finish
<1>2. day = SegmentDays("DEV")
  <2>1. day \in Nat /\ day <= SegmentDays("DEV")
    BY <1>1 DEF Walked
  <2>2. SegmentStart("DEV") = 0 /\ SegmentDays("DEV") \in Int
    BY <1>1, SplitOfDays
  <2> QED BY <1>1, <2>1, <2>2 DEF InSegment
<1>3. GapsReconcile
  BY <1>1, <1>2, WalkReconciles
<1>4. /\ phase' = "DONE" /\ day' = day /\ counts' = counts /\ gaps' = gaps
      /\ UNCHANGED <<registry, members>> /\ Admissible'
  BY <1>1, <1>3 DEF Finish, Admissible
<1>5. Walked'
  BY <1>1, <1>4, WalkedStays
<1> QED BY <1>1, <1>2, <1>4, <1>5 DEF AuditInv

LEMMA AuditStepKeeps == AuditInv /\ [AuditNext]_auditVars => AuditInv'
<1> SUFFICES ASSUME AuditInv, [AuditNext]_auditVars PROVE AuditInv'
  OBVIOUS
<1>1. CASE Refuse
  BY <1>1, RefuseKeeps
<1>2. CASE AuditDay
  BY <1>2, AuditDayKeeps
<1>3. CASE BeginGaps
  BY <1>3, BeginGapsKeeps
<1>4. CASE GapDay
  BY <1>4, GapDayKeeps
<1>5. CASE Finish
  BY <1>5, FinishKeeps
<1>6. CASE UNCHANGED auditVars
  <2>1. /\ phase' = phase /\ day' = day /\ counts' = counts /\ gaps' = gaps
        /\ registry' = registry /\ members' = members /\ Admissible' = Admissible
    BY <1>6 DEF auditVars, Admissible
  <2>2. Walked => Walked'
    BY <2>1, WalkedStays
  <2>3. Counted(day) => Counted(day)'
    BY <2>1, InputsOnly DEF Counted
  <2> QED BY <2>1, <2>2, <2>3 DEF AuditInv
<1> QED BY <1>1, <1>2, <1>3, <1>4, <1>5, <1>6 DEF AuditNext

\* A window is as long as it can be.
LEMMA WindowsAreLongest ==
  ASSUME NEW s, NEW n \in Nat, NEW g, Traced(s, g, n), NEW i \in 1 .. Len(g), NEW e \in Int,
         Lacks(s, e), e \in 0 .. n - 1, {WhyLacking(s, e)} = g[i].reasons
  PROVE  e # g[i].start - 1 /\ e # g[i].end
<1>1. /\ \A j \in 1 .. Len(g) : g[j] \in WindowType
      /\ \A j \in 1 .. Len(g) : g[j].start < g[j].end /\ Explained(s, g[j])
      /\ \A j, k \in 1 .. Len(g) : j < k => Apart(g[j], g[k])
      /\ Covered(g, e)
  BY ElementOfSeq DEF Traced
<1>2. PICK j \in 1 .. Len(g) : g[j].start <= e /\ e < g[j].end
  BY <1>1 DEF Covered
<1>3. g[i] \in WindowType /\ g[j] \in WindowType
  BY <1>1
<1>4. g[i].start \in Int /\ g[i].end \in Int /\ g[j].start \in Int /\ g[j].end \in Int
  BY <1>3 DEF WindowType
<1>5. g[j].reasons = g[i].reasons
  <2>1. e \in g[j].start .. g[j].end - 1
    BY <1>2, <1>4
  <2> QED BY <1>1, <2>1 DEF Explained
<1>6. g[i].start < g[i].end
  BY <1>1
<1>7. CASE i = j
  BY <1>2, <1>4, <1>7
<1>8. CASE i < j
  <2>1. Apart(g[i], g[j])
    BY <1>1, <1>8
  <2> QED BY <1>2, <1>4, <1>5, <1>6, <2>1 DEF Apart
<1>9. CASE j < i
  <2>1. Apart(g[j], g[i])
    BY <1>1, <1>9
  <2> QED BY <1>2, <1>4, <1>5, <1>6, <2>1 DEF Apart
<1> QED BY <1>7, <1>8, <1>9

LEMMA AuditExplained == AuditInv => GapsExplainTheAudit
<1> SUFFICES ASSUME AuditInv PROVE GapsExplainTheAudit
  OBVIOUS
<1>1. phase = "RAISED" => ~Admissible \/ SplitRaises
  BY DEF AuditInv
<1> SUFFICES ASSUME phase = "DONE"
             PROVE  /\ \A s \in Symbols, d \in Days :
                         Lacks(s, d) <=> \E i \in DOMAIN gaps[s] : Explains(s, d, gaps[s][i])
                    /\ \A role \in Range(Roles) :
                         /\ counts[role].days = SegmentDays(role)
                         /\ counts[role].members = counts[role].eligible + counts[role].blocked
                         /\ counts[role].warned > 0 => role = "DEV"
                    /\ Overall = "READY" =>
                         \A role \in {"VALIDATION", "LOCKED_TEST"} : RuleSeen(role)
  BY <1>1 DEF GapsExplainTheAudit, Explains, RuleSeen
<1>2. /\ ~SplitRaises /\ Counted(DayCount) /\ \A s \in Symbols : Traced(s, gaps[s], day)
      /\ day = SegmentDays("DEV") /\ day \in Nat
  BY DEF AuditInv, Walked
<1>3. PICK q \in Nat : /\ q > 0 /\ DayCount = 4 * q
           /\ \A d \in Int : /\ InSegment("DEV", d) <=> 0 <= d /\ d < 2 * q
                             /\ InSegment("VALIDATION", d) <=> 2 * q <= d /\ d < 3 * q
                             /\ InSegment("LOCKED_TEST", d) <=> 3 * q <= d /\ d < 4 * q
           /\ SegmentDays("DEV") = 2 * q /\ SegmentDays("VALIDATION") = q
           /\ SegmentDays("LOCKED_TEST") = q
  BY <1>2, SplitOfDays
<1>4. \A s : \A d \in Int : Lacks(s, d) => d \in 0 .. day - 1
  BY <1>2, <1>3 DEF Lacks
<1>5. ASSUME NEW s \in Symbols, NEW d \in Days
      PROVE  Lacks(s, d) <=> \E i \in DOMAIN gaps[s] : Explains(s, d, gaps[s][i])
  <2> DEFINE g == gaps[s]
  <2>1. Traced(s, g, day) /\ d \in Int
    BY <1>2 DEF Days
  <2>2. DOMAIN g = 1 .. Len(g) /\ \A i \in 1 .. Len(g) : g[i] \in WindowType
    BY <2>1, LenProperties, ElementOfSeq DEF Traced
  <2> HIDE DEF g
  <2>3. ASSUME NEW i \in 1 .. Len(g), g[i].start <= d, d < g[i].end
        PROVE  Lacks(s, d) /\ Explains(s, d, g[i])
    <3>1. g[i].start \in Int /\ g[i].end \in Int
      BY <2>2 DEF WindowType
    <3>2. Explained(s, g[i])
      BY <2>1 DEF Traced
    <3>3. Lacks(s, d) /\ g[i].reasons = {WhyLacking(s, d)}
      BY <2>1, <2>3, <3>1, <3>2 DEF Explained
    <3>4. \A e \in g[i].start .. g[i].end - 1 : SameGap(s, d, e)
      BY <3>2, <3>3 DEF Explained, SameGap
    <3>5. ASSUME NEW e \in {g[i].start - 1, g[i].end}
          PROVE  ~SameGap(s, d, e)
      <4> SUFFICES ASSUME SameGap(s, d, e) PROVE FALSE
        OBVIOUS
      <4>1. e \in Int /\ Lacks(s, e) /\ {WhyLacking(s, e)} = g[i].reasons
        BY <3>1, <3>3 DEF SameGap
      <4>2. e \in 0 .. day - 1
        BY <1>4, <4>1
      <4>3. PICK n \in Nat : n = day
        BY <1>2
      <4>4. e # g[i].start - 1 /\ e # g[i].end
        BY <2>1, <4>1, <4>2, <4>3, WindowsAreLongest
      <4> QED BY <4>4
    <3> QED BY <2>3, <3>3, <3>4, <3>5 DEF Explains
  <2>4. Lacks(s, d) => Covered(g, d)
    BY <1>4, <2>1 DEF Traced
  <2>5. \A i \in 1 .. Len(g) : Explains(s, d, g[i]) => g[i].start <= d /\ d < g[i].end
    BY DEF Explains
  <2> QED BY <2>2, <2>3, <2>4, <2>5 DEF Covered, g
<1>6. ASSUME NEW role \in Range(Roles)
      PROVE  /\ counts[role].days = SegmentDays(role)
             /\ counts[role].members = counts[role].eligible + counts[role].blocked
             /\ counts[role].warned > 0 => role = "DEV"
             /\ role # "DEV" /\ counts[role].eligible > 0 => RuleSeen(role)
             /\ counts[role].eligible \in Nat
  <2>1. Tallied(role, counts[role], DayCount)
    BY <1>2 DEF Counted
  <2>2. counts[role].days = Cardinality(DaysOf(role, DayCount))
    BY <2>1 DEF Tallied
  <2>3. \E a, b \in Nat : /\ DaysOf(role, DayCount) = a .. b - 1 /\ a <= b /\ SegmentDays(role) = b - a
    <3>1. CASE role = "DEV"
      <4>1. DaysOf(role, DayCount) = 0 .. 2 * q - 1
        BY <1>3, <3>1 DEF DaysOf
      <4> QED BY <1>3, <3>1, <4>1
    <3>2. CASE role = "VALIDATION"
      <4>1. DaysOf(role, DayCount) = 2 * q .. 3 * q - 1
        BY <1>3, <3>2 DEF DaysOf
      <4> QED BY <1>3, <3>2, <4>1
    <3>3. CASE role = "LOCKED_TEST"
      <4>1. DaysOf(role, DayCount) = 3 * q .. 4 * q - 1
        BY <1>3, <3>3 DEF DaysOf
      <4> QED BY <1>3, <3>3, <4>1
    <3> QED BY <3>1, <3>2, <3>3, RolesAre
  <2>4. Cardinality(DaysOf(role, DayCount)) = SegmentDays(role)
    <3>1. PICK a, b \in Nat : DaysOf(role, DayCount) = a .. b - 1 /\ a <= b /\ SegmentDays(role) = b - a
      BY <2>3
    <3>2. Cardinality(a .. b - 1) = IF a > b - 1 THEN 0 ELSE b - 1 - a + 1
      BY FS_Interval
    <3>3. Cardinality(a .. b - 1) = b - a
      BY <3>1, <3>2
    <3> QED BY <3>1, <3>3
  <2> QED BY <2>1, <2>2, <2>4 DEF Tallied, Tallies
<1>7. ASSUME Overall = "READY", NEW role \in {"VALIDATION", "LOCKED_TEST"}
      PROVE  RuleSeen(role)
  <2>1. role \in Range(Roles) /\ role # "DEV"
    BY RolesAre
  <2>2. Readiness(role) = "READY"
    BY <1>7, <2>1 DEF Overall
  <2>3. counts[role].eligible # 0
    BY <2>2 DEF Readiness, Blockers
  <2> QED BY <1>6, <2>1, <2>3
<1> QED BY <1>5, <1>6, <1>7

\* The gap report explains the audit it names, for any registries, memberships and
\* length of the research interval: see GapsExplainTheAudit.
THEOREM GapsAlwaysExplain == AuditSpec => []GapsExplainTheAudit
<1>1. AuditSpec => []AuditInv
  BY AuditInitHolds, AuditStepKeeps, PTL DEF AuditSpec
<1> QED BY <1>1, AuditExplained, PTL

-----------------------------------------------------------------------------
(* LifecycleCutoff: what the plan retains *)

LEMMA StepsArePositive == \A i \in Intervals : Step[i] \in Nat \ {0}
BY CutoffAssumption DEF Intervals, Intraday

LEMMA QuotientBounds ==
  ASSUME NEW t \in Nat, NEW s \in Nat \ {0}
  PROVE  t \div s \in Nat /\ t - (t % s) = (t \div s) * s /\ t % s \in 0 .. s - 1
OBVIOUS

LEMMA MultiplesDivide ==
  ASSUME NEW k \in Nat, NEW s \in Nat \ {0}
  PROVE  (k * s) % s = 0 /\ k * s \in Nat
OBVIOUS

\* Buckets are multiples of the interval; the next is a whole interval away.
LEMMA BucketsAre ==
  ASSUME NEW i \in Intervals, NEW t \in Nat
  PROVE  /\ Floor(t, i) \in Nat /\ Floor(t, i) <= t /\ t < Floor(t, i) + Step[i]
         /\ Ceil(t, i) \in Nat /\ t <= Ceil(t, i)
         /\ Ceil(t, i) = IF t = Floor(t, i) THEN t ELSE Floor(t, i) + Step[i]
         /\ \A u \in Nat : Floor(t, i) < Floor(u, i) => Floor(t, i) + Step[i] <= Floor(u, i)
         /\ Floor(Floor(t, i), i) = Floor(t, i)
<1> DEFINE s == Step[i]
<1>1. s \in Nat \ {0}
  BY StepsArePositive
<1> HIDE DEF s
<1>2. Floor(t, i) = (t \div s) * s /\ Floor(t, i) = t - (t % s) /\ t % s \in 0 .. s - 1
  BY <1>1, QuotientBounds DEF Floor, s
<1>3. /\ Floor(t, i) \in Nat /\ Floor(t, i) <= t /\ t < Floor(t, i) + s
  <2>1. (t \div s) * s \in Nat
    BY <1>1, QuotientBounds
  <2> QED BY <1>1, <1>2, <2>1
<1>4. ASSUME NEW u \in Nat, Floor(t, i) < Floor(u, i)
      PROVE  Floor(t, i) + s <= Floor(u, i)
  <2> DEFINE a == t \div s
             b == u \div s
  <2>1. a \in Nat /\ b \in Nat /\ Floor(t, i) = a * s /\ Floor(u, i) = b * s
    BY <1>1, QuotientBounds DEF Floor, s
  <2> HIDE DEF a, b
  <2>2. a < b
    <3> SUFFICES ASSUME b <= a PROVE FALSE
      BY <2>1
    <3>1. b * s <= a * s
      BY <1>1, <2>1
    <3>2. a * s \in Nat /\ b * s \in Nat
      BY <1>1, <2>1
    <3> QED BY <1>4, <2>1, <3>1, <3>2
  <2>3. (a + 1) * s <= b * s
    BY <1>1, <2>1, <2>2
  <2>4. (a + 1) * s = a * s + s
    BY <1>1, <2>1
  <2> QED BY <2>1, <2>3, <2>4
<1>5. Floor(Floor(t, i), i) = Floor(t, i)
  <2> DEFINE a == t \div s
  <2>1. a \in Nat /\ Floor(t, i) = a * s
    BY <1>1, <1>2, QuotientBounds
  <2> HIDE DEF a
  <2>2. (a * s) % s = 0 /\ a * s \in Nat
    BY <1>1, <2>1, MultiplesDivide
  <2>3. Floor(a * s, i) = a * s - ((a * s) % s)
    BY DEF Floor, s
  <2> QED BY <2>1, <2>2, <2>3
<1>6. Ceil(t, i) = IF t = Floor(t, i) THEN t ELSE Floor(t, i) + s
  BY DEF Ceil, s
<1>7. Ceil(t, i) \in Nat /\ t <= Ceil(t, i)
  BY <1>1, <1>3, <1>6
<1> QED BY <1>3, <1>4, <1>5, <1>6, <1>7 DEF s

LEMMA BucketBefore ==
  ASSUME NEW i \in Intervals, NEW t \in Nat, Floor(t, i) = t, Step[i] <= t
  PROVE  t - Step[i] \in Nat /\ Floor(t - Step[i], i) = t - Step[i]
<1> DEFINE s == Step[i]
           k == t \div s
<1>1. s \in Nat \ {0}
  BY StepsArePositive
<1> HIDE DEF s
<1>2. k \in Nat /\ t = k * s
  BY <1>1, QuotientBounds DEF Floor, s
<1> HIDE DEF k
<1>3. k > 0
  <2>1. k = 0 => k * s = 0
    BY <1>1
  <2> QED BY <1>1, <1>2, <2>1 DEF s
<1>4. k - 1 \in Nat /\ t - s = (k - 1) * s
  BY <1>1, <1>2, <1>3
<1> DEFINE u == (k - 1) * s
<1>5. u % s = 0 /\ u \in Nat
  BY <1>1, <1>4, MultiplesDivide
<1> HIDE DEF u
<1>6. Floor(u, i) = u
  BY <1>5 DEF Floor, s
<1>7. t - s = u
  BY <1>4 DEF u
<1> QED BY <1>5, <1>6, <1>7 DEF s

LEMMA SameBucket ==
  ASSUME NEW i \in Intervals, NEW t \in Nat, Floor(t, i) = t,
         NEW m \in Nat, t <= m, m < t + Step[i]
  PROVE  Floor(m, i) = t
<1>1. Step[i] \in Nat \ {0}
  BY StepsArePositive
<1>2. /\ Floor(m, i) \in Nat /\ Floor(m, i) <= m /\ m < Floor(m, i) + Step[i]
      /\ Floor(m, i) < Floor(t, i) => Floor(m, i) + Step[i] <= Floor(t, i)
      /\ Floor(t, i) < Floor(m, i) => Floor(t, i) + Step[i] <= Floor(m, i)
  BY BucketsAre
<1> QED BY <1>1, <1>2

\* The rows of the archive of the symbol.
LEMMA PrimaryRows ==
  ASSUME world \in Worlds, NEW i \in Intervals
  PROVE  /\ DOMAIN Primary(i) \in SUBSET (0 .. MonthEnd - 1)
         /\ \A b \in DOMAIN Primary(i) : Floor(b, i) = b
         /\ \A b \in DOMAIN Primary(i) : \A x \in Primary(i)[b] :
              /\ x \in Traded(world, "PRIMARY") /\ x[2] \in Nat /\ Floor(x[2], i) = b
              /\ x[1] = "OLD" => x[2] < world.halted
         /\ \A m \in 0 .. MonthEnd - 1 : m \notin world.outage /\ m < world.halted =>
              Floor(m, i) \in DOMAIN Primary(i)
<1> DEFINE traded == Traded(world, "PRIMARY")
<1>1. Primary(i) = [b \in {Floor(x[2], i) : x \in traded} |-> {x \in traded : Floor(x[2], i) = b}]
  BY DEF Primary, Archives, RowsOf, Names
<1>2. /\ \A x \in traded : /\ x[2] \in 0 .. MonthEnd - 1
                           /\ x[1] = "OLD" => x[2] < world.halted
      /\ \A m \in 0 .. MonthEnd - 1 : m \notin world.outage /\ m < world.halted => <<"OLD", m>> \in traded
  BY WorldAssumption, CutoffAssumption DEF Traded
<1> HIDE DEF traded
<1>3. \A m \in 0 .. MonthEnd - 1 : Floor(m, i) \in 0 .. MonthEnd - 1 /\ Floor(Floor(m, i), i) = Floor(m, i)
  <2> SUFFICES ASSUME NEW m \in 0 .. MonthEnd - 1
               PROVE  Floor(m, i) \in 0 .. MonthEnd - 1 /\ Floor(Floor(m, i), i) = Floor(m, i)
    OBVIOUS
  <2>1. m \in Nat /\ MonthEnd \in Nat
    BY CutoffAssumption
  <2> QED BY <2>1, BucketsAre
<1>4. \A b \in DOMAIN Primary(i) : b \in 0 .. MonthEnd - 1 /\ Floor(b, i) = b
  BY <1>1, <1>2, <1>3
<1>5. \A b \in DOMAIN Primary(i) : \A x \in Primary(i)[b] : x \in traded /\ Floor(x[2], i) = b
  BY <1>1
<1>6. ASSUME NEW m \in 0 .. MonthEnd - 1, m \notin world.outage, m < world.halted
      PROVE  Floor(m, i) \in DOMAIN Primary(i)
  <2>1. <<"OLD", m>> \in traded /\ <<"OLD", m>>[2] = m
    BY <1>2, <1>6
  <2> QED BY <1>1, <2>1
<1>7. \A b \in DOMAIN Primary(i) : \A x \in Primary(i)[b] :
         x \in traded /\ x[2] \in Nat /\ Floor(x[2], i) = b /\ (x[1] = "OLD" => x[2] < world.halted)
  BY <1>2, <1>5
<1> QED BY <1>4, <1>6, <1>7 DEF traded

\* A set of buckets has a first one.
LEMMA FirstBucket ==
  ASSUME NEW S \in SUBSET Nat, S # {}
  PROVE  Min(S) \in S /\ \A b \in S : Min(S) <= b
<1>1. \E b \in S : \A c \in S : b <= c
  BY SmallestExists
<1> QED BY <1>1 DEF Min

LEMMA GapsOf ==
  ASSUME NEW rows, NEW i
  PROVE  GapsIn(rows, i) = {b \in DOMAIN rows : b # Min(DOMAIN rows) /\ b - Step[i] \notin DOMAIN rows}
BY DEF GapsIn

\* Of an intraday interval the only gap ends where the registered start lies.
LEMMA IntradayGap ==
  ASSUME world \in Worlds, Confirmed(world), NEW i \in Intraday
  PROVE  GapsIn(Primary(i), i) = {Floor(world.registered, i)}
<1>1. IntradayConfirmed(world, i)
  BY DEF Confirmed
<1>2. Primary(i) = Archives[world]["PRIMARY"][i]
  BY DEF Primary
<1>3. Cardinality(GapsIn(Primary(i), i)) = 1
  BY <1>1, <1>2 DEF IntradayConfirmed
<1>4. \A after \in GapsIn(Primary(i), i) : after = Floor(world.registered, i)
  BY <1>1, <1>2 DEF IntradayConfirmed
<1>5. GapsIn(Primary(i), i) # {}
  BY <1>3, FS_EmptySet
<1> QED BY <1>4, <1>5

\* The registered start is in a bucket of the archive; whatever lies between the rows
\* planned as old and the first row kept is that bucket.
LEMMA PlannedRows ==
  ASSUME world \in Worlds, Confirmed(world), NEW i \in Intervals
  PROVE  LET start == Floor(world.registered, i)
         IN  /\ world.registered \in Nat /\ start \in DOMAIN Primary(i)
             /\ OldCount(world, i) = Cardinality({b \in DOMAIN Primary(i) : b < start})
             /\ \A b \in DOMAIN Primary(i) : b > start => b - Step[i] \in DOMAIN Primary(i)
<1> DEFINE start == Floor(world.registered, i)
           rows == Primary(i)
<1>1. world.registered \in Nat
  BY WorldAssumption DEF Confirmed
<1>2. start \in Nat
  BY <1>1, BucketsAre
<1>3. DOMAIN rows \in SUBSET Nat
  BY PrimaryRows
<1>4. rows = Archives[world]["PRIMARY"][i]
  BY DEF Primary
<1>5. start \in DOMAIN rows
  <2>1. CASE i = "1d"
    BY <1>4, <2>1 DEF Confirmed, DailyConfirmed, Shared
  <2>2. CASE i \in Intraday
    <3>1. start \in GapsIn(rows, i)
      BY <2>2, IntradayGap
    <3> QED BY <3>1 DEF GapsIn
  <2> QED BY <2>1, <2>2 DEF Intervals
<1>6. OldCount(world, i) = Cardinality(OldRows(rows, start))
  <2>1. CASE i = "1d"
    BY <1>4, <2>1 DEF OldCount
  <2>2. CASE i \in Intraday
    <3>1. i # "1d"
      BY <2>2 DEF Intraday
    <3>2. (CHOOSE b \in GapsIn(rows, i) : TRUE) = start
      <4>1. GapsIn(rows, i) = {start}
        BY <2>2, IntradayGap
      <4> QED BY <4>1
    <3> QED BY <1>4, <3>1, <3>2 DEF OldCount
  <2> QED BY <2>1, <2>2 DEF Intervals
<1>7. ASSUME NEW b \in DOMAIN rows, b > start
      PROVE  b - Step[i] \in DOMAIN rows
  <2>1. b # Min(DOMAIN rows)
    <3>1. Min(DOMAIN rows) <= start /\ Min(DOMAIN rows) \in DOMAIN rows
      BY <1>3, <1>5, FirstBucket
    <3> QED BY <1>2, <1>3, <1>7, <3>1
  <2>2. b \notin GapsIn(rows, i)
    <3>1. CASE i = "1d"
      BY <1>4, <3>1 DEF Confirmed, DailyConfirmed
    <3>2. CASE i \in Intraday
      <4>1. GapsIn(rows, i) = {start} /\ b # start
        BY <1>2, <1>3, <1>7, <3>2, IntradayGap
      <4> QED BY <4>1
    <3> QED BY <3>1, <3>2 DEF Intervals
  <2> QED BY <2>1, <2>2 DEF GapsIn
<1> QED BY <1>1, <1>5, <1>6, <1>7 DEF OldRows

\* The planned action can be carried out, and loses no full bucket.
LEMMA PlanIsExecutable ==
  ASSUME world \in Worlds, Confirmed(world), NEW i \in Intervals
  PROVE  /\ ~DerivativeRaises(ActionFor(world, i), Primary(i), i)
         /\ \A b \in DOMAIN Primary(i) : b >= world.registered => b \in Retained(ActionFor(world, i), Primary(i))
<1> DEFINE start == Floor(world.registered, i)
           rows == DOMAIN Primary(i)
           from == Ceil(world.registered, i)
           old == {b \in rows : b < start}
           action == ActionFor(world, i)
           kept == Retained(action, Primary(i))
           partial == IF from = start THEN 0 ELSE 1
           s == Step[i]
<1>1. /\ world.registered \in Nat /\ start \in rows /\ OldCount(world, i) = Cardinality(old)
      /\ \A b \in rows : b > start => b - s \in rows
  BY PlannedRows
<1>2. rows \in SUBSET (0 .. MonthEnd - 1) /\ \A b \in rows : Floor(b, i) = b
  BY PrimaryRows
<1>3. /\ action.from = from /\ action.excluded = Cardinality(old) + partial
      /\ action.retained = Cardinality(rows) - Cardinality(old) - partial
  BY <1>1 DEF ActionFor, Primary
<1>4. kept = {b \in rows : b >= from}
  BY <1>3 DEF Retained
<1>5. /\ start \in Nat /\ s \in Nat \ {0} /\ from \in Nat
      /\ start <= world.registered /\ world.registered <= from
      /\ from = start \/ from = start + s
      /\ from = start <=> world.registered = start
  <2>1. s \in Nat \ {0}
    BY StepsArePositive
  <2> QED BY <1>1, <2>1, BucketsAre
<1>6. \A b \in rows : b \in Nat /\ (b > start => b >= start + s)
  <2>1. \A b \in rows : b \in Nat /\ Floor(b, i) = b
    BY <1>2, CutoffAssumption
  <2>2. \A b \in rows : b > start => Floor(start, i) < Floor(b, i) /\ Floor(start, i) = start
    BY <1>1, <2>1
  <2> QED BY <1>5, <2>1, <2>2, BucketsAre
<1> HIDE DEF start, rows, from, action, s
<1>7. IsFiniteSet(rows) /\ Cardinality(rows) \in Nat
  <2>1. IsFiniteSet(0 .. MonthEnd - 1)
    BY CutoffAssumption, FS_Interval
  <2> QED BY <1>2, <2>1, FS_Subset, FS_CardinalityType
<1>8. rows \ kept = IF from = start THEN old ELSE old \cup {start}
  <2>1. CASE from = start
    BY <1>4, <1>5, <1>6, <2>1
  <2>2. CASE from # start
    <3>1. from = start + s /\ start < from
      BY <1>5, <2>2
    <3>2. \A b \in rows : b < from <=> b < start \/ b = start
      BY <1>1, <1>5, <1>6, <3>1
    <3>3. \A b : b \in rows \ kept <=> b \in rows /\ b < from
      BY <1>4, <1>5, <1>6
    <3>4. \A b : b \in old \cup {start} <=> b \in rows /\ (b < start \/ b = start)
      BY <1>1
    <3> QED BY <2>2, <3>2, <3>3, <3>4
  <2> QED BY <2>1, <2>2
<1>9. IsFiniteSet(old) /\ Cardinality(old) \in Nat /\ start \notin old
  <2>1. old \in SUBSET rows /\ start \notin old
    BY <1>5
  <2> HIDE DEF old
  <2> QED BY <1>7, <2>1, FS_Subset, FS_CardinalityType
<1>10. Cardinality(rows \ kept) = Cardinality(old) + partial
  <2>1. Cardinality(old \cup {start}) = Cardinality(old) + 1
    BY <1>9, FS_AddElement
  <2> QED BY <1>8, <1>9, <2>1
<1>11. Cardinality(kept) = Cardinality(rows) - Cardinality(old) - partial
  <2>1. kept \in SUBSET rows /\ IsFiniteSet(kept) /\ Cardinality(kept) \in Nat
    <3>1. kept \in SUBSET rows
      BY <1>4
    <3> HIDE DEF kept
    <3> QED BY <1>7, <3>1, FS_Subset, FS_CardinalityType
  <2>2. rows \cap kept = kept
    BY <2>1
  <2>3. Cardinality(rows \ kept) = Cardinality(rows) - Cardinality(rows \cap kept)
    BY <1>7, FS_Difference
  <2> HIDE DEF kept, old, partial
  <2>4. Cardinality(rows \ kept) = Cardinality(rows) - Cardinality(kept)
    BY <2>2, <2>3
  <2>5. partial \in Nat
    BY DEF partial
  <2> QED BY <1>7, <1>9, <1>10, <2>1, <2>4, <2>5
<1>12. ASSUME NEW b \in kept, b # from
       PROVE  b - s \in kept
  <2>1. b \in rows /\ b > from /\ b \in Nat /\ b > start
    BY <1>4, <1>5, <1>6, <1>12
  <2>2. b - s \in rows
    BY <1>1, <2>1
  <2>3. b - s >= from
    <3>1. CASE from = start
      BY <1>5, <1>6, <2>1, <3>1
    <3>2. CASE from = start + s
      <4>1. b - s \in Nat /\ b - s > start
        BY <1>5, <1>6, <2>1, <2>2, <3>2
      <4>2. b - s >= start + s
        BY <1>6, <2>2, <4>1
      <4> QED BY <3>2, <4>2
    <3> QED BY <1>5, <3>1, <3>2
  <2> QED BY <1>4, <2>2, <2>3
<1>13. kept # {} => Min(kept) = from
  <2> SUFFICES ASSUME kept # {} PROVE Min(kept) = from
    OBVIOUS
  <2>1. kept \in SUBSET Nat
    BY <1>4, <1>6
  <2>2. Min(kept) \in kept /\ \A b \in kept : Min(kept) <= b
    BY <2>1, FirstBucket
  <2>3. ASSUME Min(kept) # from PROVE FALSE
    <3>1. PICK b \in kept : b = Min(kept)
      BY <2>2
    <3>2. b - s \in kept
      BY <1>12, <2>3, <3>1
    <3>3. b <= b - s /\ b \in Nat
      BY <2>1, <2>2, <3>1, <3>2
    <3> QED BY <1>5, <3>3
  <2> QED BY <2>3
<1>14. \A b \in kept : b # Min(kept) => b - s \in kept
  BY <1>12, <1>13
<1>15. ~DerivativeRaises(action, Primary(i), i)
  <2>1. Cardinality(kept) = action.retained
    BY <1>3, <1>11
  <2>2. Cardinality(rows \ kept) = action.excluded
    BY <1>3, <1>10
  <2>3. kept # {} => Min(kept) = action.from
    BY <1>3, <1>13
  <2> HIDE DEF kept
  <2> QED BY <1>14, <2>1, <2>2, <2>3 DEF DerivativeRaises, kept, rows, s
<1>16. ASSUME NEW b \in rows, b >= world.registered
       PROVE  b \in kept
  <2>1. CASE from = start
    BY <1>1, <1>4, <1>5, <1>6, <1>16, <2>1
  <2>2. CASE from # start
    <3>1. b > start
      BY <1>1, <1>5, <1>6, <1>16, <2>2
    <3>2. b >= start + s /\ from = start + s
      BY <1>5, <1>6, <2>2, <3>1
    <3> QED BY <1>4, <3>2
  <2> QED BY <2>1, <2>2
<1> QED BY <1>15, <1>16 DEF action, rows

\* No row that is kept holds a trade of the old contract: it traded in every quarter
\* before it was halted, and there is a quarter without any before the first row kept.
LEMMA OldIsDropped ==
  ASSUME world \in Worlds, Confirmed(world), NEW i \in Intervals,
         NEW b \in Retained(ActionFor(world, i), Primary(i)), NEW x \in Primary(i)[b]
  PROVE  x[1] = "NEW"
<1> DEFINE q == "15m"
           after == Floor(world.registered, q)
           rows == DOMAIN Primary(q)
           s == Step[q]
           before == after - s
<1>1. world.registered \in Nat /\ q \in Intraday /\ q \in Intervals
  BY WorldAssumption DEF Confirmed, Intraday, Intervals
<1>2. GapsIn(Primary(q), q) = {after}
  BY <1>1, IntradayGap
<1>3. /\ after \in rows /\ after # Min(rows) /\ before \notin rows
  <2>1. after \in GapsIn(Primary(q), q)
    BY <1>2
  <2> QED BY <2>1 DEF GapsIn
<1>4. rows \in SUBSET (0 .. MonthEnd - 1) /\ \A c \in rows : Floor(c, q) = c
  BY <1>1, PrimaryRows
<1>5. s \in Nat \ {0} /\ after \in Nat /\ after <= world.registered /\ MonthEnd \in Nat
  BY <1>1, StepsArePositive, BucketsAre, CutoffAssumption
<1>6. before \in Nat /\ Floor(before, q) = before
  <2>1. PICK c \in rows : c = Min(rows)
    BY <1>3, <1>4, FirstBucket
  <2>2. c < after /\ c \in Nat
    BY <1>3, <1>4, <1>5, <2>1, FirstBucket
  <2>3. c + s <= after
    <3>1. Floor(c, q) = c /\ Floor(after, q) = after
      BY <1>3, <1>4
    <3> QED BY <1>1, <1>5, <2>2, <3>1, BucketsAre
  <2>4. before \in Nat /\ before + s = after
    BY <1>5, <2>2, <2>3
  <2>5. Floor(before, q) = before
    <3>1. Floor(after, q) = after /\ Step[q] <= after
      BY <1>3, <1>4, <1>5, <2>4
    <3> QED BY <1>1, <1>5, <3>1, BucketBefore
  <2> QED BY <2>4, <2>5
<1>7. /\ x \in Traded(world, "PRIMARY") /\ x[2] \in Nat /\ Floor(x[2], i) = b
      /\ x[1] = "OLD" => x[2] < world.halted
  BY PrimaryRows DEF Retained
<1>8. after <= x[2]
  <2>1. world.registered <= Ceil(world.registered, i) /\ Ceil(world.registered, i) \in Nat
    BY <1>1, BucketsAre
  <2>2. b >= Ceil(world.registered, i)
    BY DEF Retained, ActionFor
  <2>3. b \in Nat /\ b <= x[2]
    BY <1>7, BucketsAre
  <2> QED BY <1>1, <1>5, <1>7, <2>1, <2>2, <2>3
<1>9. ASSUME x[1] = "OLD" PROVE FALSE
  <2>1. x[2] < world.halted /\ world.halted \in Int
    BY <1>7, <1>9, WorldAssumption
  <2>2. before \in 0 .. world.halted - s
    BY <1>5, <1>6, <1>7, <1>8, <2>1
  <2>3. PICK m \in before .. before + s - 1 : m \notin world.outage
    BY <1>6, <2>2, WorldAssumption
  <2>4. m \in 0 .. MonthEnd - 1 /\ m < world.halted /\ m \in Nat
    BY <1>3, <1>4, <1>5, <1>6, <1>7, <1>8, <2>1, <2>3
  <2>5. Floor(m, q) \in rows
    BY <1>1, <2>3, <2>4, PrimaryRows
  <2>6. Floor(m, q) = before
    BY <1>1, <1>5, <1>6, <2>3, <2>4, SameBucket
  <2> QED BY <1>3, <2>5, <2>6
<1>10. x[1] \in {"OLD", "NEW"}
  BY <1>7 DEF Traded
<1> QED BY <1>9, <1>10

\* The plan is that of the world whose evidence was confirmed.
Planned ==
  /\ world \in Worlds
  /\ remediation # Unplanned => Confirmed(world) /\ remediation = RemediationPlan(world)

LEMMA PlannedHolds == LifecycleInit => Planned
BY DEF LifecycleInit, Planned

LEMMA PlannedKeeps == Planned /\ [LifecycleNext]_lifecycleVars => Planned'
<1> SUFFICES ASSUME Planned, [LifecycleNext]_lifecycleVars PROVE Planned'
  OBVIOUS
<1>1. CASE PlanRemediation
  <2>1. world' = world /\ remediation' = RemediationPlan(world) /\ Confirmed(world)
    BY <1>1 DEF PlanRemediation
  <2> QED BY <2>1 DEF Planned
<1>2. CASE ExecutionNext
  <2>1. UNCHANGED given
    BY <1>2 DEF ExecutionNext, PublishOverlay, SwapArchive, Authorize, CheckArchive, ReadRows,
       StageOutput, PublishOutput, LookIntoStaging, RemoveStaging, PublishReceipt, Crash
  <2>2. world' = world /\ remediation' = remediation
    BY <2>1 DEF given
  <2> QED BY <2>2 DEF Planned
<1>3. CASE UNCHANGED lifecycleVars
  BY <1>3 DEF Planned, lifecycleVars, given
<1> QED BY <1>1, <1>2, <1>3 DEF LifecycleNext

LEMMA PlannedRetains == Planned => OneContractIsRetained
<1> SUFFICES ASSUME Planned, remediation # Unplanned, NEW i \in Intervals
             PROVE  LET kept == Retained(remediation[i], Primary(i))
                    IN  /\ ~DerivativeRaises(remediation[i], Primary(i), i)
                        /\ \A b \in kept : \A trade \in Primary(i)[b] : trade[1] = "NEW"
                        /\ \A b \in DOMAIN Primary(i) : b >= world.registered => b \in kept
  BY DEF OneContractIsRetained
<1>1. world \in Worlds /\ Confirmed(world) /\ remediation[i] = ActionFor(world, i)
  BY DEF Planned, RemediationPlan
<1>2. /\ ~DerivativeRaises(remediation[i], Primary(i), i)
      /\ \A b \in DOMAIN Primary(i) : b >= world.registered => b \in Retained(remediation[i], Primary(i))
  BY <1>1, PlanIsExecutable
<1>3. ASSUME NEW b \in Retained(remediation[i], Primary(i)), NEW x \in Primary(i)[b]
      PROVE  x[1] = "NEW"
  BY <1>1, OldIsDropped
<1> QED BY <1>2, <1>3

\* The planned remediation can be carried out and keeps one contract, in every world in
\* which the old contract traded in each quarter until it was halted: see
\* OneContractIsRetained.
THEOREM OneContractStays == LifecycleSpec => []OneContractIsRetained
<1>1. LifecycleSpec => []Planned
  BY PlannedHolds, PlannedKeeps, PTL DEF LifecycleSpec
<1> QED BY <1>1, PlannedRetains, PTL

-----------------------------------------------------------------------------
(* MarketDataPlan: the window of a request *)

\* A request of a report, as PrepAssumption has it.
RequestRecords == [id : Int, symbol : Int, confirmation : Nat, bars : Nat \ {0}]

LEMMA BarsAre ==
  ASSUME NEW t \in Nat, NEW u \in Nat, t <= u
  PROVE  /\ Bucket(t) \in Nat /\ Bucket(t) <= t /\ t < Bucket(t) + BarMinutes
         /\ Bucket(t) <= Bucket(u)
<1> DEFINE s == BarMinutes
           a == t \div s
           b == u \div s
<1>1. s \in Nat \ {0}
  BY PlanAssumption
<1>2. /\ a \in Nat /\ Bucket(t) = a * s /\ Bucket(t) = t - (t % s) /\ t % s \in 0 .. s - 1
      /\ b \in Nat /\ Bucket(u) = b * s /\ Bucket(u) = u - (u % s) /\ u % s \in 0 .. s - 1
  <2> HIDE DEF s
  <2>1. Bucket(t) = t - (t % s) /\ Bucket(u) = u - (u % s)
    BY DEF Bucket, s
  <2> QED BY <1>1, <2>1, QuotientBounds
<1> HIDE DEF a, b, s
<1>3. a * s \in Nat /\ b * s \in Nat
  BY <1>1, <1>2
<1>4. Bucket(t) <= t /\ t < Bucket(t) + s /\ Bucket(u) <= u /\ u < Bucket(u) + s
  BY <1>1, <1>2, <1>3
<1>5. a <= b
  <2> SUFFICES ASSUME b + 1 <= a PROVE FALSE
    BY <1>2
  <2>1. (b + 1) * s <= a * s
    BY <1>1, <1>2
  <2>2. (b + 1) * s = b * s + s
    BY <1>1, <1>2
  <2> QED BY <1>1, <1>2, <1>3, <1>4, <2>1, <2>2
<1>6. a * s <= b * s
  BY <1>1, <1>2, <1>5
<1> QED BY <1>2, <1>3, <1>4, <1>6 DEF s

LEMMA RequestTimes ==
  ASSUME NEW r \in RequestRecords
  PROVE  /\ Start(r) \in Nat /\ End(r) \in Nat /\ Start(r) < End(r) - 1
         /\ \A entry \in Entries(r) : /\ entry \in Nat /\ Start(r) <= entry
                                      /\ LastExit(entry) \in Nat /\ LastExit(entry) <= End(r) - 1
<1>1. /\ Start(r) \in Nat /\ r.bars \in Nat \ {0} /\ BarMinutes \in Nat \ {0} /\ HoldingBars \in Nat \ {0}
      /\ Start(r) = r.confirmation
  BY PlanAssumption DEF RequestRecords, Start
<1>2. PICK wait \in Nat, held \in Nat :
        /\ wait = BarMinutes * r.bars /\ wait >= 1
        /\ held = BarMinutes * HoldingBars /\ held >= BarMinutes
  <2>1. BarMinutes * r.bars \in Nat /\ BarMinutes * r.bars >= 1
    BY <1>1
  <2>2. BarMinutes * HoldingBars \in Nat /\ BarMinutes * HoldingBars >= BarMinutes
    BY <1>1
  <2> QED BY <2>1, <2>2
<1>3. Expires(r) = Start(r) + wait /\ Expires(r) - 1 \in Nat /\ Start(r) <= Expires(r) - 1
  BY <1>1, <1>2 DEF Expires
<1>4. End(r) = Bucket(Expires(r) - 1) + held + 1
  BY <1>2 DEF End
<1>5. Bucket(Expires(r) - 1) \in Nat /\ Expires(r) - 1 < Bucket(Expires(r) - 1) + BarMinutes
  BY <1>3, BarsAre
<1>6. End(r) \in Nat /\ Start(r) < End(r) - 1
  BY <1>1, <1>2, <1>3, <1>4, <1>5
<1>7. ASSUME NEW entry \in Entries(r)
      PROVE  /\ entry \in Nat /\ Start(r) <= entry
             /\ LastExit(entry) \in Nat /\ LastExit(entry) <= End(r) - 1
  <2>1. entry \in Nat /\ Start(r) <= entry /\ entry <= Expires(r) - 1
    BY <1>1, <1>2, <1>3 DEF Entries
  <2>2. Bucket(entry) \in Nat /\ Bucket(entry) <= Bucket(Expires(r) - 1)
    BY <1>3, <2>1, BarsAre
  <2>3. LastExit(entry) = Bucket(entry) + held
    BY <1>2 DEF LastExit
  <2> QED BY <1>2, <1>4, <1>5, <2>1, <2>2, <2>3
<1> QED BY <1>1, <1>6, <1>7

-----------------------------------------------------------------------------
(* MarketDataPlan: the merged windows *)

\* The requests of a report.
Requested(rs) ==
  /\ rs \subseteq RequestRecords /\ IsFiniteSet(rs) /\ rs # {}
  /\ \A a, b \in rs : a.id = b.id => a = b

\* The requests of a symbol are listed once each, by when they start.
LEMMA RequestsInOrder ==
  ASSUME NEW rs, Requested(rs), NEW s
  PROVE  LET S == OfSymbol(rs, s)
             q == InOrder(S, Earlier)
             n == Cardinality(S)
         IN  /\ n \in Nat /\ DOMAIN q = 1..n /\ q \in Seq(S) /\ Len(q) = n
             /\ \A k \in 1..n : q[k] \in S
             /\ \A x \in S : \E k \in 1..n : q[k] = x
             /\ \A i, j \in 1..n : i < j => Start(q[i]) <= Start(q[j])
<1> DEFINE S == OfSymbol(rs, s)
           q == InOrder(S, Earlier)
           n == Cardinality(S)
           B == {p \in S \X S : p[1] # p[2] /\ Earlier(p[1], p[2])}
           Pick(k) == CHOOSE x \in S : Cardinality({y \in S : y # x /\ Earlier(y, x)}) = k - 1
<1>1. S \subseteq rs /\ IsFiniteSet(S) /\ n \in Nat
  <2>1. S \in SUBSET rs
    BY DEF OfSymbol
  <2> HIDE DEF S
  <2> QED BY <2>1, FS_Subset, FS_CardinalityType DEF Requested
<1>2. \A x \in S : x \in RequestRecords /\ Start(x) \in Int /\ End(x) \in Int /\ x.id \in Int
  BY <1>1, RequestTimes DEF Requested, RequestRecords
<1>3. q = [k \in 1..n |-> Pick(k)]
  BY DEF InOrder
<1> HIDE DEF S, q, n
<1>4. StrictlyOrders(S, B)
  <2>1. \A a, b \in S : <<a, b>> \in B <=> a # b /\ Earlier(a, b)
    OBVIOUS
  <2> HIDE DEF B
  <2>2. \A a, b \in S : a # b => a.id # b.id
    BY <1>1 DEF Requested
  <2>3. ASSUME NEW a \in S, NEW b \in S, a # b PROVE Earlier(a, b) \/ Earlier(b, a)
    BY <1>2, <2>2, <2>3 DEF Earlier
  <2>4. ASSUME NEW a \in S, NEW b \in S, NEW c \in S, a # b, Earlier(a, b), b # c, Earlier(b, c)
        PROVE  a # c /\ Earlier(a, c)
    <3>1. Earlier(a, c)
      BY <1>2, <2>4 DEF Earlier
    <3>2. a # c
      <4> SUFFICES ASSUME a = c PROVE FALSE
        OBVIOUS
      <4>1. a.id # b.id /\ Earlier(a, b) /\ Earlier(b, a)
        BY <2>2, <2>4
      <4> QED BY <1>2, <4>1 DEF Earlier
    <3> QED BY <3>1, <3>2
  <2> QED BY <2>1, <2>3, <2>4 DEF StrictlyOrders
<1>5. \A k \in 1..n : q[k] = CHOOSE x \in S : RankIn(S, B, x) = k - 1
  <2>1. \A x \in S : RankIn(S, B, x) = Cardinality({y \in S : y # x /\ Earlier(y, x)})
    <3>1. ASSUME NEW x \in S PROVE {y \in S : <<y, x>> \in B} = {y \in S : y # x /\ Earlier(y, x)}
      OBVIOUS
    <3> HIDE DEF B
    <3> QED BY <3>1 DEF RankIn
  <2>2. \A k : {x \in S : Cardinality({y \in S : y # x /\ Earlier(y, x)}) = k - 1} = {x \in S : RankIn(S, B, x) = k - 1}
    <3> HIDE DEF B
    <3> QED BY <2>1
  <2>3. \A k : Pick(k) = CHOOSE x \in S : RankIn(S, B, x) = k - 1
    <3> HIDE DEF B
    <3> QED BY <2>1
  <2> HIDE DEF B, Pick
  <2> QED BY <1>3, <2>3
<1>6. /\ \A k \in 1..n : q[k] \in S
      /\ \A x \in S : \E k \in 1..n : q[k] = x
      /\ \A i, j \in 1..n : i < j => <<q[i], q[j]>> \in B
  <2> HIDE DEF B, Pick
  <2> QED BY <1>1, <1>4, <1>5, RanksList DEF n
<1>7. q \in Seq(S) /\ Len(q) = n /\ DOMAIN q = 1..n
  <2>1. q \in [1..n -> S] /\ DOMAIN q = 1..n
    <3> HIDE DEF Pick, B
    <3> QED BY <1>3, <1>6
  <2> QED BY <1>1, <2>1, SeqDef, LenProperties
<1>8. ASSUME NEW i \in 1..n, NEW j \in 1..n, i < j PROVE Start(q[i]) <= Start(q[j])
  <2>1. q[i] \in S /\ q[j] \in S /\ Earlier(q[i], q[j])
    BY <1>6, <1>8
  <2> QED BY <1>2, <2>1 DEF Earlier
<1> QED BY <1>1, <1>6, <1>7, <1>8 DEF S, q, n

\* Windows as they are merged, and what holds once the requests R are.
WindowRecords(rs) == [start : Nat, end : Nat, requests : SUBSET rs]

MergedOf(W, R) ==
  /\ \A i \in 1 .. Len(W) : W[i].start < W[i].end
  /\ \A i, j \in 1 .. Len(W) : i < j => W[i].end < W[j].start
  /\ \A i \in 1 .. Len(W) : \E r \in R : W[i].start = Start(r)
  /\ \A r \in R : \E i \in 1 .. Len(W) : W[i].start <= Start(r) /\ End(r) <= W[i].end
  /\ \A i \in 1 .. Len(W), t \in Nat :
       W[i].start <= t /\ t < W[i].end => \E r \in R : Start(r) <= t /\ t < End(r)

\* A request extends the last window or is a new one.
LEMMA MergeIs ==
  ASSUME NEW rs, rs \subseteq RequestRecords, NEW W \in Seq(WindowRecords(rs)), NEW r \in rs
  PROVE  /\ Merge(W, r) \in Seq(WindowRecords(rs))
         /\ LET n == Len(W)
                M == Merge(W, r)
            IN  \/ /\ n \in Nat \ {0} /\ Start(r) <= W[n].end
                   /\ Len(M) = n /\ \A i \in 1 .. n - 1 : M[i] = W[i]
                   /\ M[n].start = W[n].start /\ M[n].end = Larger(W[n].end, End(r))
                \/ /\ n = 0 \/ (n \in Nat \ {0} /\ W[n].end < Start(r))
                   /\ Len(M) = n + 1 /\ \A i \in 1 .. n : M[i] = W[i]
                   /\ M[n + 1].start = Start(r) /\ M[n + 1].end = End(r)
<1> DEFINE V == WindowRecords(rs)
           n == Len(W)
           M == Merge(W, r)
<1>1. n \in Nat /\ (W # << >> <=> n # 0) /\ \A i \in 1..n : W[i] \in V
  BY EmptySeq, LenProperties, ElementOfSeq
<1>2. Start(r) \in Nat /\ End(r) \in Nat
  BY RequestTimes
<1>3. CASE W # << >> /\ Reaches(Last(W), r)
  <2> DEFINE w == W[n]
             x == [w EXCEPT !.end = Larger(@, End(r)), !.requests = @ \cup {r}]
  <2>1. n \in Nat \ {0} /\ w \in V /\ M = Append(Front(W), x) /\ Start(r) <= w.end
    BY <1>1, <1>3 DEF Merge, Last, Reaches
  <2>2. x \in V /\ x.start = w.start /\ x.end = Larger(w.end, End(r))
    <3> HIDE DEF n, M
    <3> QED BY <1>2, <2>1 DEF WindowRecords, Larger
  <2>3. Front(W) \in Seq(V) /\ Len(Front(W)) = n - 1 /\ \A i \in 1 .. n - 1 : Front(W)[i] = W[i]
    <3>1. \A i \in 1 .. n - 1 : W[i] \in V
      BY <1>1
    <3>2. 1 \in Int /\ n - 1 \in Int
      BY <1>1
    <3>3. /\ SubSeq(W, 1, n - 1) \in Seq(V)
          /\ Len(SubSeq(W, 1, n - 1)) = IF 1 <= n - 1 THEN n - 1 - 1 + 1 ELSE 0
          /\ \A i \in 1 .. n - 1 - 1 + 1 : SubSeq(W, 1, n - 1)[i] = W[1 + i - 1]
      <4> DEFINE k == n - 1
      <4> HIDE DEF k, V
      <4>1. \A i \in 1..k : W[i] \in V
        BY <3>1 DEF k
      <4>2. k \in Int
        BY <3>2 DEF k
      <4> QED BY <3>2, <4>1, <4>2, SubSeqProperties DEF k
    <3>4. Front(W) = SubSeq(W, 1, n - 1)
      BY DEF Front
    <3> HIDE DEF V, n
    <3>5. \A i \in 1 .. n - 1 : Front(W)[i] = W[i]
      <4> SUFFICES ASSUME NEW i \in 1 .. n - 1 PROVE Front(W)[i] = W[i]
        OBVIOUS
      <4>1. i \in 1 .. n - 1 - 1 + 1 /\ 1 + i - 1 = i
        BY <1>1
      <4> QED BY <3>3, <3>4, <4>1
    <3>6. Len(Front(W)) = n - 1
      BY <2>1, <3>3, <3>4
    <3> QED BY <3>3, <3>4, <3>5, <3>6
  <2> DEFINE F == Front(W)
  <2> HIDE DEF x, w, V, F, n
  <2>4. /\ Append(F, x) \in Seq(V) /\ Len(Append(F, x)) = Len(F) + 1
        /\ \A i \in 1 .. Len(F) : Append(F, x)[i] = F[i]
        /\ Append(F, x)[Len(F) + 1] = x
    BY <2>2, <2>3, AppendProperties DEF F
  <2>5. M \in Seq(V) /\ Len(M) = n /\ (\A i \in 1 .. n - 1 : M[i] = W[i]) /\ M[n] = x
    <3>1. Len(F) = n - 1 /\ n - 1 + 1 = n
      BY <2>1, <2>3 DEF F
    <3> HIDE DEF M
    <3>2. M = Append(F, x)
      BY <2>1 DEF F
    <3> QED BY <2>3, <2>4, <3>1, <3>2 DEF F
  <2> HIDE DEF M
  <2> QED BY <2>1, <2>2, <2>5 DEF w, n, V, M
<1>4. CASE ~(W # << >> /\ Reaches(Last(W), r))
  <2> DEFINE x == [start |-> Start(r), end |-> End(r), requests |-> {r}]
  <2>1. M = Append(W, x) /\ x \in V /\ x.start = Start(r) /\ x.end = End(r)
    BY <1>2, <1>4 DEF Merge, WindowRecords
  <2>2. n = 0 \/ (n \in Nat \ {0} /\ W[n].end < Start(r))
    <3>1. n # 0 => W[n] \in V /\ W[n].end \in Nat
      BY <1>1 DEF WindowRecords
    <3> QED BY <1>1, <1>2, <1>4, <3>1 DEF Last, Reaches
  <2> HIDE DEF x, V
  <2>3. /\ Append(W, x) \in Seq(V) /\ Len(Append(W, x)) = n + 1
        /\ \A i \in 1..n : Append(W, x)[i] = W[i]
        /\ Append(W, x)[n + 1] = x
    BY <2>1, AppendProperties DEF V
  <2> QED BY <2>1, <2>2, <2>3 DEF V
<1> QED BY <1>3, <1>4

\* A request that starts no earlier than those before.
LEMMA MergeKeeps ==
  ASSUME NEW rs, rs \subseteq RequestRecords, NEW W \in Seq(WindowRecords(rs)), NEW r \in rs,
         NEW R \in SUBSET rs, MergedOf(W, R), \A q \in R : Start(q) <= Start(r)
  PROVE  MergedOf(Merge(W, r), R \cup {r})
<1> DEFINE n == Len(W)
           M == Merge(W, r)
           R2 == R \cup {r}
<1>1. \A q \in rs : Start(q) \in Nat /\ End(q) \in Nat /\ Start(q) < End(q)
  <2>1. ASSUME NEW q \in rs PROVE Start(q) \in Nat /\ End(q) \in Nat /\ Start(q) < End(q) - 1
    BY RequestTimes
  <2> QED BY <2>1
<1>2. n \in Nat /\ \A i \in 1..n : W[i].start \in Nat /\ W[i].end \in Nat
  <2>1. n \in Nat /\ \A i \in 1..n : W[i] \in WindowRecords(rs)
    BY LenProperties, ElementOfSeq
  <2> QED BY <2>1 DEF WindowRecords
<1>3. \A i \in 1..n : W[i].start <= Start(r)
  BY DEF MergedOf
<1>4. /\ Len(M) = n \/ Len(M) = n + 1
      /\ Len(M) = n => /\ n # 0 /\ Start(r) <= W[n].end /\ \A i \in 1 .. n - 1 : M[i] = W[i]
                       /\ M[n].start = W[n].start /\ M[n].end = Larger(W[n].end, End(r))
      /\ Len(M) = n + 1 => /\ n # 0 => W[n].end < Start(r)
                           /\ \A i \in 1..n : M[i] = W[i]
                           /\ M[n + 1].start = Start(r) /\ M[n + 1].end = End(r)
  <2> HIDE DEF n, M
  <2> QED BY <1>2, MergeIs DEF n, M
<1>5. /\ \A i \in 1..n : W[i].start < W[i].end
      /\ \A i, j \in 1..n : i < j => W[i].end < W[j].start
      /\ \A i \in 1..n : \E q \in R : W[i].start = Start(q)
      /\ \A q \in R : \E i \in 1..n : W[i].start <= Start(q) /\ End(q) <= W[i].end
      /\ \A i \in 1..n, t \in Nat :
           W[i].start <= t /\ t < W[i].end => \E q \in R : Start(q) <= t /\ t < End(q)
  BY DEF MergedOf
<1> HIDE DEF n, M
<1>6. CASE Len(M) = n
  <2>1. /\ n \in 1..n /\ Start(r) <= W[n].end /\ \A i \in 1 .. n - 1 : M[i] = W[i]
        /\ M[n].start = W[n].start
        /\ M[n].end \in Nat /\ M[n].end >= W[n].end /\ M[n].end >= End(r)
        /\ M[n].end = W[n].end \/ M[n].end = End(r)
    <3>1. n \in 1..n /\ M[n].end = Larger(W[n].end, End(r)) /\ W[n].end \in Nat /\ End(r) \in Nat
      BY <1>1, <1>2, <1>4, <1>6
    <3> QED BY <1>4, <1>6, <3>1 DEF Larger
  <2>2. \A i \in 1..n : /\ M[i].start = W[i].start /\ M[i].end \in Nat /\ M[i].end >= W[i].end
                        /\ i # n => M[i].end = W[i].end
    <3> SUFFICES ASSUME NEW i \in 1..n
                 PROVE  /\ M[i].start = W[i].start /\ M[i].end \in Nat /\ M[i].end >= W[i].end
                        /\ i # n => M[i].end = W[i].end
      OBVIOUS
    <3>1. CASE i = n
      BY <2>1, <3>1
    <3>2. CASE i # n
      <4>1. i \in 1 .. n - 1
        BY <1>2, <3>2
      <4> QED BY <1>2, <2>1, <4>1
    <3> QED BY <3>1, <3>2
  <2>3. ASSUME NEW i \in 1..n PROVE M[i].start < M[i].end
    <3>1. W[i].start < W[i].end /\ M[i].start = W[i].start /\ M[i].end >= W[i].end
      BY <1>5, <2>2
    <3>2. W[i].start \in Nat /\ W[i].end \in Nat /\ M[i].end \in Nat
      BY <1>2, <2>2
    <3> QED BY <3>1, <3>2
  <2>4. ASSUME NEW i \in 1..n, NEW j \in 1..n, i < j PROVE M[i].end < M[j].start
    <3>1. i # n
      BY <1>2, <2>4
    <3> QED BY <1>5, <2>2, <2>4, <3>1
  <2>5. \A i \in 1..n : \E q \in R2 : M[i].start = Start(q)
    BY <1>5, <2>2
  <2>6. ASSUME NEW q \in R2 PROVE \E i \in 1..n : M[i].start <= Start(q) /\ End(q) <= M[i].end
    <3>1. CASE q = r
      <4>1. M[n].start <= Start(r) /\ End(r) <= M[n].end
        BY <1>1, <1>2, <1>3, <2>1
      <4> QED BY <2>1, <3>1, <4>1
    <3>2. CASE q \in R
      <4>1. PICK i \in 1..n : W[i].start <= Start(q) /\ End(q) <= W[i].end
        BY <1>5, <3>2
      <4>2. M[i].start <= Start(q) /\ End(q) <= M[i].end
        BY <1>1, <1>2, <2>2, <3>2, <4>1
      <4> QED BY <4>2
    <3> QED BY <3>1, <3>2
  <2>7. ASSUME NEW i \in 1..n, NEW t \in Nat, M[i].start <= t, t < M[i].end
        PROVE  \E q \in R2 : Start(q) <= t /\ t < End(q)
    <3>1. CASE t < W[i].end
      <4>1. W[i].start <= t
        BY <2>2, <2>7
      <4> QED BY <1>5, <3>1, <4>1
    <3>2. CASE ~(t < W[i].end)
      <4>1. i = n
        BY <2>2, <2>7, <3>2
      <4>2. Start(r) <= t /\ t < End(r)
        BY <1>1, <1>2, <2>1, <2>7, <3>2, <4>1
      <4> QED BY <4>2
    <3> QED BY <3>1, <3>2
  <2> QED BY <1>6, <2>3, <2>4, <2>5, <2>6, <2>7 DEF MergedOf, M
<1>7. CASE Len(M) = n + 1
  <2> DEFINE k == n + 1
  <2>1. /\ k \in 1..k /\ \A i \in 1..k : i # k => i \in 1..n /\ M[i] = W[i]
    BY <1>2, <1>4, <1>7
  <2>2. M[k].start = Start(r) /\ M[k].end = End(r) /\ \A i \in 1..n : W[i].end < Start(r) /\ i \in 1..k
    <3>1. M[k].start = Start(r) /\ M[k].end = End(r)
      BY <1>4, <1>7
    <3>2. ASSUME NEW i \in 1..n PROVE W[i].end < Start(r)
      <4>1. n # 0 /\ n \in 1..n /\ W[n].end < Start(r)
        BY <1>2, <1>4, <1>7
      <4>2. i # n => W[i].end < W[n].start /\ W[n].start < W[n].end
        BY <1>2, <1>5, <4>1
      <4> QED BY <1>1, <1>2, <4>1, <4>2
    <3>3. \A i \in 1..n : i \in 1..k
      BY <1>2
    <3> QED BY <3>1, <3>2, <3>3
  <2> HIDE DEF k
  <2>3. ASSUME NEW i \in 1..k PROVE M[i].start < M[i].end
    <3>1. CASE i = k
      BY <1>1, <2>2, <3>1
    <3>2. CASE i # k
      BY <1>5, <2>1, <3>2
    <3> QED BY <3>1, <3>2
  <2>4. ASSUME NEW i \in 1..k, NEW j \in 1..k, i < j PROVE M[i].end < M[j].start
    <3>1. k \in Nat /\ i # k
      BY <1>2, <2>4 DEF k
    <3>2. CASE j = k
      BY <2>1, <2>2, <3>1, <3>2
    <3>3. CASE j # k
      BY <1>5, <2>1, <2>4, <3>1, <3>3
    <3> QED BY <3>2, <3>3
  <2>5. ASSUME NEW i \in 1..k PROVE \E q \in R2 : M[i].start = Start(q)
    <3>1. CASE i = k
      BY <2>2, <3>1
    <3>2. CASE i # k
      BY <1>5, <2>1, <3>2
    <3> QED BY <3>1, <3>2
  <2>6. ASSUME NEW q \in R2 PROVE \E i \in 1..k : M[i].start <= Start(q) /\ End(q) <= M[i].end
    <3>1. CASE q = r
      BY <1>1, <2>1, <2>2, <3>1
    <3>2. CASE q \in R
      <4>1. PICK i \in 1..n : W[i].start <= Start(q) /\ End(q) <= W[i].end
        BY <1>5, <3>2
      <4>2. i \in 1..k /\ i # k
        BY <1>2, <2>2 DEF k
      <4> QED BY <2>1, <4>1, <4>2
    <3> QED BY <3>1, <3>2
  <2>7. ASSUME NEW i \in 1..k, NEW t \in Nat, M[i].start <= t, t < M[i].end
        PROVE  \E q \in R2 : Start(q) <= t /\ t < End(q)
    <3>1. CASE i = k
      BY <2>2, <2>7, <3>1
    <3>2. CASE i # k
      BY <1>5, <2>1, <2>7, <3>2
    <3> QED BY <3>1, <3>2
  <2> QED BY <1>7, <2>3, <2>4, <2>5, <2>6, <2>7 DEF MergedOf, M, k
<1> QED BY <1>4, <1>6, <1>7

\* The loop over the requests of a symbol, as a fold.
MergeFold(q, it) ==
  it = [S \in SUBSET DOMAIN q |-> IF S = {} THEN << >> ELSE Merge(it[S \ {Max(S)}], q[Max(S)])]

LEMMA MergesAreAFold ==
  ASSUME NEW q, NEW it, MergeFold(q, it)
  PROVE  \E jt : MergeFold(q, jt) /\ FoldLeft(Merge, << >>, q) = jt[DOMAIN q]
BY DEF FoldLeft, MapThenFoldSet, MergeFold

LEMMA MergeSteps ==
  ASSUME NEW rs, rs \subseteq RequestRecords, NEW q \in Seq(rs)
  PROVE  \E g : /\ g[0] = << >> /\ FoldLeft(Merge, << >>, q) = g[Len(q)]
                /\ \A i \in 1..Len(q) : g[i] = Merge(g[i - 1], q[i])
<1> DEFINE n == Len(q)
           V == Seq(WindowRecords(rs))
           base == << >>
           H == [i \in 1..n |-> [v \in V |-> Merge(v, q[i])]]
<1>1. n \in Nat /\ DOMAIN q = 1..n /\ \A i \in 1..n : q[i] \in rs
  BY LenProperties, ElementOfSeq
<1>0. base \in V
  BY EmptySeq
<1>2. \A i \in 1..n, v \in V : H[i][v] = Merge(v, q[i]) /\ H[i][v] \in V
  <2>1. \A i \in 1..n, v \in V : Merge(v, q[i]) \in V
    BY <1>1, MergeIs
  <2> HIDE DEF n, V
  <2> QED BY <2>1
<1> HIDE DEF H, n, V, base
<1>3. PICK it : it \in [SUBSET (1..n) -> V] /\ IsFold(1..n, base, H, it)
  BY <1>0, <1>1, <1>2, FoldSteps
<1>4. MergeFold(q, it)
  <2>1. \A S \in SUBSET (1..n) : S # {} =>
           H[Max(S)][it[S \ {Max(S)}]] = Merge(it[S \ {Max(S)}], q[Max(S)])
    <3>1. \A S \in SUBSET (1..n) : S # {} => Max(S) \in 1..n /\ S \ {Max(S)} \in SUBSET (1..n)
      BY <1>1, FirstMembers
    <3> QED BY <1>2, <1>3, <3>1
  <2>2. it = [S \in SUBSET (1..n) |-> IF S = {} THEN base ELSE Merge(it[S \ {Max(S)}], q[Max(S)])]
    BY <1>3, <2>1 DEF IsFold
  <2> QED BY <1>1, <2>2 DEF MergeFold, base
<1>5. PICK jt : MergeFold(q, jt) /\ FoldLeft(Merge, << >>, q) = jt[DOMAIN q]
  BY <1>4, MergesAreAFold
<1> DEFINE g == [i \in 0..n |-> jt[1..i]]
<1>6. g[0] = << >>
  <2>1. jt[{}] = << >>
    BY <1>1, <1>5, FirstMembers DEF MergeFold
  <2> QED BY <1>1, <2>1, FirstMembers
<1>7. ASSUME NEW i \in 1..n PROVE g[i] = Merge(g[i - 1], q[i])
  <2>1. jt[1..i] = Merge(jt[(1..i) \ {Max(1..i)}], q[Max(1..i)])
    BY ZenonT(40), <1>1, <1>5, FirstMembers DEF MergeFold
  <2>2. jt[1..i] = Merge(jt[1..(i - 1)], q[i])
    BY <1>1, <2>1, FirstMembers
  <2> QED BY <1>1, <2>2
<1>8. FoldLeft(Merge, << >>, q) = g[n]
  BY <1>1, <1>5
<1> HIDE DEF g
<1> QED BY <1>6, <1>7, <1>8 DEF n

\* What the merged windows of a symbol are.
LEMMA SymbolIsMerged ==
  ASSUME NEW rs, Requested(rs), NEW s
  PROVE  /\ WindowsOf(rs, s) \in Seq(WindowRecords(rs))
         /\ MergedOf(WindowsOf(rs, s), OfSymbol(rs, s))
<1> DEFINE S == OfSymbol(rs, s)
           q == InOrder(S, Earlier)
           n == Cardinality(S)
<1>1. /\ n \in Nat /\ DOMAIN q = 1..n /\ q \in Seq(S) /\ Len(q) = n
      /\ \A k \in 1..n : q[k] \in S
      /\ \A x \in S : \E k \in 1..n : q[k] = x
      /\ \A i, j \in 1..n : i < j => Start(q[i]) <= Start(q[j])
  BY RequestsInOrder
<1>2. S \subseteq rs /\ rs \subseteq RequestRecords
  BY DEF OfSymbol, Requested
<1>3. WindowsOf(rs, s) = FoldLeft(Merge, << >>, q)
  BY DEF WindowsOf
<1> HIDE DEF S, q, n
<1>4. q \in Seq(rs)
  BY <1>1, <1>2, SeqMonotonic
<1>5. PICK g : /\ g[0] = << >> /\ FoldLeft(Merge, << >>, q) = g[Len(q)]
               /\ \A i \in 1..Len(q) : g[i] = Merge(g[i - 1], q[i])
  BY <1>2, <1>4, MergeSteps
<1> DEFINE Done(i) == {q[k] : k \in 1..i}
           I == {i \in Nat : i <= n => g[i] \in Seq(WindowRecords(rs)) /\ MergedOf(g[i], Done(i))}
<1>6. 0 \in I
  <2>1. g[0] \in Seq(WindowRecords(rs)) /\ Len(g[0]) = 0
    BY <1>5, EmptySeq
  <2>2. Done(0) = {}
    OBVIOUS
  <2>3. MergedOf(g[0], {})
    BY <2>1 DEF MergedOf
  <2> QED BY <2>1, <2>2, <2>3
<1>7. ASSUME NEW i \in I PROVE i + 1 \in I
  <2> SUFFICES ASSUME i + 1 <= n
               PROVE  g[i + 1] \in Seq(WindowRecords(rs)) /\ MergedOf(g[i + 1], Done(i + 1))
    BY <1>7
  <2> DEFINE r == q[i + 1]
             R == Done(i)
             W == g[i]
  <2>1. i \in Nat /\ i + 1 \in 1..n /\ W \in Seq(WindowRecords(rs)) /\ MergedOf(W, R)
    BY <1>1, <1>7
  <2>2. g[i + 1] = Merge(W, r) /\ r \in rs
    <3>1. g[i + 1] = Merge(g[i + 1 - 1], q[i + 1]) /\ i + 1 - 1 = i
      BY <1>1, <1>5, <2>1
    <3> QED BY <1>1, <1>2, <2>1, <3>1
  <2>3. R \in SUBSET rs /\ \A x \in R : Start(x) <= Start(r)
    <3> SUFFICES ASSUME NEW k \in 1..i PROVE q[k] \in rs /\ Start(q[k]) <= Start(r)
      OBVIOUS
    <3>1. k \in 1..n /\ k < i + 1
      BY <1>1, <2>1
    <3> QED BY <1>1, <1>2, <2>1, <3>1
  <2>4. Done(i + 1) = R \cup {r}
    <3>1. 1 .. i + 1 = (1..i) \cup {i + 1}
      BY <2>1
    <3> QED BY <3>1
  <2> HIDE DEF R, r, W, Done
  <2>5. Merge(W, r) \in Seq(WindowRecords(rs)) /\ MergedOf(Merge(W, r), R \cup {r})
    BY <1>2, <2>1, <2>2, <2>3, MergeIs, MergeKeeps
  <2> QED BY <2>2, <2>4, <2>5
<1>8. n \in I
  <2> HIDE DEF I
  <2>1. I \in SUBSET Nat
    BY DEF I
  <2> QED BY <1>1, <1>6, <1>7, <2>1, AllNumbers
<1>9. Done(n) = S
  BY <1>1
<1>10. g[n] \in Seq(WindowRecords(rs)) /\ MergedOf(g[n], Done(n))
  <2> HIDE DEF Done
  <2> QED BY <1>1, <1>8
<1> HIDE DEF Done, I
<1>11. WindowsOf(rs, s) = g[n]
  BY <1>1, <1>3, <1>5
<1> QED BY <1>9, <1>10, <1>11 DEF S

\* The windows of a report: those of a symbol are apart, each request is in one
\* of them, and none has a minute that no request asks for.
WindowsFit(rs, W) ==
  /\ \A w \in W : /\ w \in [symbol : Int, start : Nat, end : Nat, requests : SUBSET rs]
                  /\ w.start < w.end
  /\ \A v, w \in W : v.symbol = w.symbol => v = w \/ v.end < w.start \/ w.end < v.start
  /\ \A r \in rs : \E w \in W : w.symbol = r.symbol /\ w.start <= Start(r) /\ End(r) <= w.end
  /\ \A w \in W, t \in Nat : w.start <= t /\ t < w.end =>
       \E r \in OfSymbol(rs, w.symbol) : Start(r) <= t /\ t < End(r)

LEMMA WindowsOfReport ==
  ASSUME NEW rs, Requested(rs)
  PROVE  WindowsFit(rs, Windows(rs)) /\ \A s : Merged(WindowsOf(rs, s))
<1> DEFINE W == Windows(rs)
           Of(s) == WindowsOf(rs, s)
<1>1. ASSUME NEW s
      PROVE  /\ Of(s) \in Seq(WindowRecords(rs)) /\ Len(Of(s)) \in Nat /\ DOMAIN Of(s) = 1 .. Len(Of(s))
             /\ \A i \in 1 .. Len(Of(s)) : Of(s)[i] \in WindowRecords(rs)
             /\ MergedOf(Of(s), OfSymbol(rs, s))
  BY SymbolIsMerged, LenProperties, ElementOfSeq
<1>2. \A r \in rs : r \in RequestRecords /\ r.symbol \in Int /\ Start(r) \in Nat /\ End(r) \in Nat /\ Start(r) < End(r)
  <2>1. ASSUME NEW r \in rs PROVE r \in RequestRecords /\ Start(r) \in Nat /\ End(r) \in Nat /\ Start(r) < End(r) - 1
    BY RequestTimes DEF Requested
  <2> QED BY <2>1 DEF RequestRecords
<1> DEFINE Named(s, i) == [symbol |-> s, start |-> Of(s)[i].start, end |-> Of(s)[i].end,
                           requests |-> Of(s)[i].requests]
<1>3. ASSUME NEW w \in W
      PROVE  \E s \in SymbolsOf(rs) : \E i \in 1 .. Len(Of(s)) : w = Named(s, i)
  <2>1. PICK s \in SymbolsOf(rs) : \E x \in ToSet(WindowsOf(rs, s)) :
          w = [symbol |-> s, start |-> x.start, end |-> x.end, requests |-> x.requests]
    BY DEF Windows
  <2>2. PICK x \in ToSet(WindowsOf(rs, s)) :
          w = [symbol |-> s, start |-> x.start, end |-> x.end, requests |-> x.requests]
    BY <2>1
  <2>3. PICK i \in DOMAIN Of(s) : x = Of(s)[i]
    BY DEF ToSet
  <2> QED BY <1>1, <2>2, <2>3
<1>4. ASSUME NEW s \in SymbolsOf(rs), NEW i \in 1 .. Len(Of(s)) PROVE Named(s, i) \in W
  <2>1. Of(s)[i] \in ToSet(WindowsOf(rs, s))
    BY <1>1 DEF ToSet
  <2> QED BY <2>1 DEF Windows
<1>5. SymbolsOf(rs) \subseteq Int
  BY <1>2 DEF SymbolsOf
<1> HIDE DEF W, Of
<1>6. ASSUME NEW w \in W
      PROVE  w \in [symbol : Int, start : Nat, end : Nat, requests : SUBSET rs] /\ w.start < w.end
  <2>0. PICK s \in SymbolsOf(rs) : \E i \in 1 .. Len(Of(s)) : w = Named(s, i)
    BY <1>3
  <2>1. PICK i \in 1 .. Len(Of(s)) : w = Named(s, i)
    BY <2>0
  <2>2. Of(s)[i] \in WindowRecords(rs) /\ Of(s)[i].start < Of(s)[i].end
    BY <1>1 DEF MergedOf
  <2> QED BY <1>5, <2>1, <2>2 DEF WindowRecords
<1>7. ASSUME NEW v \in W, NEW w \in W, v.symbol = w.symbol
      PROVE  v = w \/ v.end < w.start \/ w.end < v.start
  <2>8. PICK s \in SymbolsOf(rs) : \E i \in 1 .. Len(Of(s)) : v = Named(s, i)
    BY <1>3
  <2>1. PICK i \in 1 .. Len(Of(s)) : v = Named(s, i)
    BY <2>8
  <2>9. PICK u \in SymbolsOf(rs) : \E j \in 1 .. Len(Of(u)) : w = Named(u, j)
    BY <1>3
  <2>2. PICK j \in 1 .. Len(Of(u)) : w = Named(u, j)
    BY <2>9
  <2>3. u = s
    BY <1>7, <2>1, <2>2
  <2>4. i < j => v.end < w.start
    BY <1>1, <2>1, <2>2, <2>3 DEF MergedOf
  <2>5. j < i => w.end < v.start
    BY <1>1, <2>1, <2>2, <2>3 DEF MergedOf
  <2>6. i = j => v = w
    BY <2>1, <2>2, <2>3
  <2>7. i \in Nat /\ j \in Nat
    BY <1>1
  <2> QED BY <2>4, <2>5, <2>6, <2>7
<1>8. ASSUME NEW r \in rs
      PROVE  \E w \in W : w.symbol = r.symbol /\ w.start <= Start(r) /\ End(r) <= w.end
  <2>1. r.symbol \in SymbolsOf(rs) /\ r \in OfSymbol(rs, r.symbol)
    BY DEF SymbolsOf, OfSymbol
  <2>2. PICK i \in 1 .. Len(Of(r.symbol)) : Of(r.symbol)[i].start <= Start(r) /\ End(r) <= Of(r.symbol)[i].end
    BY <1>1, <2>1 DEF MergedOf
  <2>3. Named(r.symbol, i) \in W
    BY <1>4, <2>1
  <2> QED BY <2>2, <2>3
<1>9. ASSUME NEW w \in W, NEW t \in Nat, w.start <= t, t < w.end
      PROVE  \E r \in OfSymbol(rs, w.symbol) : Start(r) <= t /\ t < End(r)
  <2>0. PICK s \in SymbolsOf(rs) : \E i \in 1 .. Len(Of(s)) : w = Named(s, i)
    BY <1>3
  <2>1. PICK i \in 1 .. Len(Of(s)) : w = Named(s, i)
    BY <2>0
  <2>2. Of(s)[i].start <= t /\ t < Of(s)[i].end /\ w.symbol = s
    BY <1>9, <2>1
  <2> QED BY <1>1, <2>2 DEF MergedOf
<1>10. ASSUME NEW s PROVE Merged(WindowsOf(rs, s))
  <2>1. Len(Of(s)) \in Nat /\ \A i, j \in 1 .. Len(Of(s)) : i < j => Of(s)[i].end < Of(s)[j].start
    BY <1>1 DEF MergedOf
  <2> DEFINE n == Len(Of(s))
  <2>2. ASSUME NEW i \in 1 .. n - 1 PROVE Of(s)[i].end < Of(s)[i + 1].start
    <3>1. i \in 1..n /\ i + 1 \in 1..n /\ i < i + 1
      BY <2>1
    <3> QED BY <2>1, <3>1
  <2> QED BY <2>2 DEF Merged, Of
<1> QED BY <1>6, <1>7, <1>8, <1>9, <1>10 DEF WindowsFit, W

LEMMA WindowsAreFinite ==
  ASSUME NEW rs, Requested(rs), NEW W, WindowsFit(rs, W)
  PROVE  IsFiniteSet(W)
<1> DEFINE In(r, w) == w.symbol = r.symbol /\ w.start <= Start(r) /\ End(r) <= w.end
           f == [r \in rs |-> CHOOSE w \in W : In(r, w)]
<1>1. \A r \in rs : Start(r) \in Nat /\ End(r) \in Nat
  BY RequestTimes DEF Requested
<1>2. \A w \in W : w.start \in Nat /\ w.end \in Nat /\ w.start < w.end
  BY DEF WindowsFit
<1>3. ASSUME NEW r \in rs PROVE f[r] \in W /\ In(r, f[r])
  <2>1. \E w \in W : In(r, w)
    BY DEF WindowsFit
  <2> HIDE DEF In
  <2> QED BY <2>1
<1>4. ASSUME NEW w \in W PROVE \E r \in rs : f[r] = w
  <2>1. PICK r \in OfSymbol(rs, w.symbol) : Start(r) <= w.start /\ w.start < End(r)
    <3>1. w.start \in Nat /\ w.start <= w.start /\ w.start < w.end
      BY <1>2
    <3> QED BY <3>1 DEF WindowsFit
  <2>2. r \in rs /\ r.symbol = w.symbol
    BY DEF OfSymbol
  <2> HIDE DEF f
  <2>3. PICK v \in W : v = f[r] /\ In(r, v)
    BY <1>3, <2>2
  <2>4. v = w \/ v.end < w.start \/ w.end < v.start
    BY <2>2, <2>3 DEF WindowsFit
  <2>5. v = w
    BY <1>1, <1>2, <2>1, <2>2, <2>3, <2>4
  <2> QED BY <2>2, <2>3, <2>5
<1>5. f \in Surjection(rs, W)
  <2> DEFINE g == f
  <2>1. g \in [rs -> W]
    BY <1>3
  <2> HIDE DEF f
  <2> QED BY <1>4, <2>1 DEF Surjection
<1> HIDE DEF f
<1> QED BY <1>5, FS_Surjection DEF Requested

-----------------------------------------------------------------------------
(* MarketDataPlan: the queries *)

LEMMA BoundariesAre ==
  ASSUME NEW rs, Requested(rs), NEW W, WindowsFit(rs, W), NEW w \in W
  PROVE  /\ w.symbol \in Int /\ w.start \in Nat /\ w.end \in Nat /\ w.start < w.end
         /\ w.start \in Boundaries(rs, w) /\ w.end \in Boundaries(rs, w)
         /\ \A b \in Boundaries(rs, w) : b \in Nat /\ w.start <= b /\ b <= w.end
         /\ \A r \in OfSymbol(rs, w.symbol) : w.start <= Start(r) /\ End(r) <= w.end =>
              Start(r) \in Boundaries(rs, w) /\ End(r) \in Boundaries(rs, w)
<1>1. w.symbol \in Int /\ w.start \in Nat /\ w.end \in Nat /\ w.start < w.end
  BY DEF WindowsFit
<1>2. \A r \in OfSymbol(rs, w.symbol) : Start(r) \in Nat /\ End(r) \in Nat /\ Start(r) < End(r) - 1
  BY RequestTimes DEF Requested, OfSymbol
<1> DEFINE Q == {q \in OfSymbol(rs, w.symbol) : Start(q) < w.end /\ End(q) > w.start}
           Edges(r) == {Larger(Start(r), w.start), Smaller(End(r), w.end)}
<1>3. Boundaries(rs, w) = {w.start, w.end} \cup UNION {Edges(r) : r \in Q}
  BY DEF Boundaries
<1>4. ASSUME NEW b \in Boundaries(rs, w) PROVE b \in Nat /\ w.start <= b /\ b <= w.end
  <2>1. CASE b \in {w.start, w.end}
    BY <1>1, <2>1
  <2>2. CASE b \in UNION {Edges(r) : r \in Q}
    <3>1. PICK r \in Q : b \in Edges(r)
      BY <2>2
    <3> QED BY <1>1, <1>2, <3>1 DEF Larger, Smaller
  <2> QED BY <1>3, <1>4, <2>1, <2>2
<1>5. ASSUME NEW r \in OfSymbol(rs, w.symbol), w.start <= Start(r), End(r) <= w.end
      PROVE  Start(r) \in Boundaries(rs, w) /\ End(r) \in Boundaries(rs, w)
  <2>1. r \in Q
    BY <1>1, <1>2, <1>5
  <2>2. Larger(Start(r), w.start) = Start(r) /\ Smaller(End(r), w.end) = End(r)
    BY <1>1, <1>2, <1>5 DEF Larger, Smaller
  <2>3. Start(r) \in Edges(r) /\ End(r) \in Edges(r)
    BY <2>2
  <2> HIDE DEF Edges, Q
  <2> QED BY <1>3, <2>1, <2>3
<1> HIDE DEF Edges, Q
<1> QED BY <1>1, <1>3, <1>4, <1>5

LEMMA NextIs ==
  ASSUME NEW B \in SUBSET Nat, NEW t \in Nat, \E b \in B : t < b
  PROVE  /\ NextBoundary(B, t) \in B /\ t < NextBoundary(B, t)
         /\ \A c \in B : t < c => NextBoundary(B, t) <= c
<1>1. PICK b \in {x \in B : t < x} : \A c \in {x \in B : t < x} : b <= c
  <2>1. {x \in B : t < x} \in SUBSET Nat /\ {x \in B : t < x} # {}
    OBVIOUS
  <2> QED BY <2>1, SmallestExists
<1>2. \E x \in B : t < x /\ \A c \in B : t < c => x <= c
  BY <1>1
<1> QED BY <1>2 DEF NextBoundary

\* The largest boundary up to a time.
LEMMA LargestUpTo ==
  ASSUME NEW B \in SUBSET Nat, NEW t \in Nat, \E b \in B : b <= t
  PROVE  \E b \in B : b <= t /\ \A c \in B : c <= t => c <= b
<1> DEFINE D == {t - b : b \in {x \in B : x <= t}}
<1>1. D \in SUBSET Nat /\ D # {}
  OBVIOUS
<1>2. PICK d \in D : \A e \in D : d <= e
  <2> HIDE DEF D
  <2> QED BY <1>1, SmallestExists
<1>3. PICK b \in B : b <= t /\ d = t - b
  OBVIOUS
<1>4. ASSUME NEW c \in B, c <= t PROVE c <= b
  <2>1. t - c \in D
    BY <1>4
  <2>2. t - b <= t - c /\ b \in Nat /\ c \in Nat
    BY <1>2, <1>3, <2>1
  <2> QED BY <2>2
<1> QED BY <1>3, <1>4

\* A page from t on, after the boundary left.
IsPage(rs, w, left, s) ==
  LET next == NextBoundary(Boundaries(rs, w), left)
  IN  /\ left <= s.start /\ s.start < next /\ (s.start - left) % PageMinutes = 0
      /\ s.end = Smaller(s.start + PageMinutes, next)

LEMMA LeftsAre ==
  ASSUME NEW rs, Requested(rs), NEW W, WindowsFit(rs, W), NEW w \in W,
         NEW left \in Boundaries(rs, w) \ {w.end}
  PROVE  LET B == Boundaries(rs, w)
             next == NextBoundary(B, left)
         IN  /\ left \in Nat /\ w.start <= left /\ left < w.end
             /\ next \in B /\ next \in Nat /\ left < next /\ next <= w.end
             /\ \A c \in B : left < c => next <= c
<1> DEFINE B == Boundaries(rs, w)
<1>1. /\ w.end \in B /\ w.end \in Nat
      /\ \A b \in B : b \in Nat /\ w.start <= b /\ b <= w.end
  BY BoundariesAre
<1> HIDE DEF B
<1>2. left \in B /\ left # w.end
  BY DEF B
<1>3. left \in Nat /\ w.start <= left /\ left < w.end
  BY <1>1, <1>2
<1>4. B \in SUBSET Nat /\ \E b \in B : left < b
  BY <1>1, <1>3
<1>5. /\ NextBoundary(B, left) \in B /\ left < NextBoundary(B, left)
      /\ \A c \in B : left < c => NextBoundary(B, left) <= c
  BY <1>3, <1>4, NextIs
<1> QED BY <1>1, <1>3, <1>5 DEF B

SegmentAt(rs, w, start, end) ==
  [symbol |-> w.symbol, start |-> start, end |-> end,
   requests |-> {r \in OfSymbol(rs, w.symbol) : Start(r) < end /\ End(r) > start}]

LEMMA SegmentsAre ==
  ASSUME NEW rs, Requested(rs), NEW W, WindowsFit(rs, W), NEW w \in W
  PROVE  /\ \A s \in Segments(rs, w) :
              /\ s = SegmentAt(rs, w, s.start, s.end) /\ s.start \in Nat
              /\ \E left \in Boundaries(rs, w) \ {w.end} : IsPage(rs, w, left, s)
         /\ \A left \in Boundaries(rs, w) \ {w.end}, p \in [start : Nat, end : Nat] :
              IsPage(rs, w, left, p) => SegmentAt(rs, w, p.start, p.end) \in Segments(rs, w)
<1> DEFINE B == Boundaries(rs, w)
           Next(left) == NextBoundary(B, left)
           PageStarts(left) == {t \in left .. Next(left) - 1 : (t - left) % PageMinutes = 0}
           Page(left, t) == [start |-> t, end |-> Smaller(t + PageMinutes, Next(left))]
           For(left) == {Page(left, t) : t \in PageStarts(left)}
           All == UNION {For(left) : left \in B \ {w.end}}
           Seg(p) == SegmentAt(rs, w, p.start, p.end)
<1>1. Segments(rs, w) = {Seg(p) : p \in All}
  BY DEF Segments, SegmentAt
<1>2. ASSUME NEW left \in B \ {w.end} PROVE left \in Nat /\ Next(left) \in Nat
  BY LeftsAre
<1>3. ASSUME NEW p \in All
      PROVE  p.start \in Nat /\ \E left \in B \ {w.end} : IsPage(rs, w, left, p)
  <2>1. PICK left \in B \ {w.end} : p \in For(left)
    BY <1>3
  <2>2. PICK t \in PageStarts(left) : p = Page(left, t)
    BY <2>1
  <2>3. left \in Nat /\ Next(left) \in Nat
    BY <1>2
  <2>4. t \in Nat /\ left <= t /\ t < Next(left) /\ (t - left) % PageMinutes = 0
    <3> HIDE DEF Next
    <3> QED BY <2>3
  <2>5. p.start = t /\ p.end = Smaller(t + PageMinutes, Next(left))
    BY <2>2
  <2>6. IsPage(rs, w, left, p)
    BY <2>4, <2>5 DEF IsPage
  <2> QED BY <2>4, <2>5, <2>6
<1>4. ASSUME NEW left \in B \ {w.end}, NEW p \in [start : Nat, end : Nat], IsPage(rs, w, left, p)
      PROVE  p \in All
  <2>1. left \in Nat /\ Next(left) \in Nat
    BY <1>2
  <2>2. /\ left <= p.start /\ p.start < Next(left) /\ (p.start - left) % PageMinutes = 0
        /\ p.end = Smaller(p.start + PageMinutes, Next(left))
    BY <1>4 DEF IsPage
  <2>3. p.start \in PageStarts(left)
    <3> HIDE DEF Next
    <3> QED BY <2>1, <2>2
  <2>4. p = Page(left, p.start)
    BY <2>2
  <2> HIDE DEF Page, PageStarts
  <2>5. p \in For(left)
    BY <2>3, <2>4
  <2> QED BY <2>5
<1> HIDE DEF All, B
<1>5. ASSUME NEW s \in Segments(rs, w)
      PROVE  /\ s = SegmentAt(rs, w, s.start, s.end) /\ s.start \in Nat
             /\ \E left \in B \ {w.end} : IsPage(rs, w, left, s)
  <2>1. PICK p \in All : s = Seg(p)
    BY <1>1
  <2>2. s.start = p.start /\ s.end = p.end
    BY <2>1 DEF SegmentAt
  <2>3. p.start \in Nat /\ \E left \in B \ {w.end} : IsPage(rs, w, left, p)
    BY <1>3
  <2> QED BY <2>1, <2>2, <2>3 DEF IsPage
<1> QED BY <1>1, <1>4, <1>5 DEF B

\* A segment lies in its window, and some request asks for it.
LEMMA SegmentsFit ==
  ASSUME NEW rs, Requested(rs), NEW W, WindowsFit(rs, W), NEW w \in W, NEW s \in Segments(rs, w)
  PROVE  /\ s.symbol = w.symbol /\ s.start \in Nat /\ s.end \in Nat
         /\ w.start <= s.start /\ s.start < s.end /\ s.end <= w.end
         /\ s.requests # {} /\ s.requests \subseteq rs
<1>1. PICK left \in Boundaries(rs, w) \ {w.end} : IsPage(rs, w, left, s)
  BY SegmentsAre
<1>2. s = SegmentAt(rs, w, s.start, s.end) /\ s.start \in Nat
  BY SegmentsAre
<1> DEFINE next == NextBoundary(Boundaries(rs, w), left)
<1>3. left \in Nat /\ w.start <= left /\ next \in Nat /\ next <= w.end /\ w.start \in Nat /\ w.end \in Nat
  BY LeftsAre, BoundariesAre
<1>4. left <= s.start /\ s.start < next /\ s.end = Smaller(s.start + PageMinutes, next)
  BY <1>1 DEF IsPage
<1> HIDE DEF next
<1>5. s.end \in Nat /\ w.start <= s.start /\ s.start < s.end /\ s.end <= w.end
  BY <1>2, <1>3, <1>4, PlanAssumption DEF Smaller
<1>6. PICK r \in OfSymbol(rs, w.symbol) : Start(r) <= s.start /\ s.start < End(r)
  <2>1. w.start <= s.start /\ s.start < w.end
    BY <1>2, <1>3, <1>5
  <2> QED BY <1>2, <2>1 DEF WindowsFit
<1>7. Start(r) \in Nat /\ End(r) \in Nat
  BY RequestTimes DEF Requested, OfSymbol
<1>8. /\ s.symbol = w.symbol
      /\ s.requests = {q \in OfSymbol(rs, w.symbol) : Start(q) < s.end /\ End(q) > s.start}
  <2> DEFINE a == s.start
             b == s.end
  <2>1. s = SegmentAt(rs, w, a, b)
    BY <1>2
  <2> HIDE DEF a, b
  <2>2. /\ s.symbol = w.symbol
        /\ s.requests = {q \in OfSymbol(rs, w.symbol) : Start(q) < b /\ End(q) > a}
    BY <2>1 DEF SegmentAt
  <2> QED BY <2>2 DEF a, b
<1>9. r \in s.requests
  BY <1>2, <1>5, <1>6, <1>7, <1>8
<1> QED BY <1>2, <1>5, <1>8, <1>9 DEF OfSymbol

\* Two segments of a window that share a minute are one.
LEMMA SegmentsApart ==
  ASSUME NEW rs, Requested(rs), NEW W, WindowsFit(rs, W), NEW w \in W,
         NEW s \in Segments(rs, w), NEW u \in Segments(rs, w), s.start < u.end, u.start < s.end
  PROVE  s = u
<1> DEFINE B == Boundaries(rs, w)
           Next(left) == NextBoundary(B, left)
<1>1. ASSUME NEW a \in Segments(rs, w), NEW b \in Segments(rs, w), NEW l \in B \ {w.end}, NEW m \in B \ {w.end},
             IsPage(rs, w, l, a), IsPage(rs, w, m, b), b.start < a.end
      PROVE  m <= l
  <2>1. /\ l \in Nat /\ m \in Nat /\ m \in B /\ Next(l) \in Nat /\ \A c \in B : l < c => Next(l) <= c
        /\ a.start \in Nat /\ b.start \in Nat
    BY LeftsAre, SegmentsFit
  <2>2. a.end <= Next(l)
    <3>1. a.end = Smaller(a.start + PageMinutes, Next(l))
      BY <1>1 DEF IsPage
    <3> HIDE DEF Next
    <3> QED BY <2>1, <3>1, PlanAssumption DEF Smaller
  <2>3. m <= b.start
    BY <1>1 DEF IsPage
  <2>4. a.end \in Nat
    BY SegmentsFit
  <2> HIDE DEF Next, B
  <2> SUFFICES ASSUME l < m PROVE FALSE
    BY <2>1
  <2>5. Next(l) <= m
    BY <2>1
  <2> QED BY <1>1, <2>1, <2>2, <2>3, <2>4, <2>5
<1>2. PICK l \in B \ {w.end} : IsPage(rs, w, l, s)
  BY SegmentsAre
<1>3. PICK m \in B \ {w.end} : IsPage(rs, w, m, u)
  BY SegmentsAre
<1>4. l \in Nat /\ m \in Nat /\ Next(l) \in Nat
  BY LeftsAre
<1>5. l = m
  <2>1. m <= l /\ l <= m
    BY <1>1, <1>2, <1>3
  <2> QED BY <1>4, <2>1
<1>6. /\ s.start \in Nat /\ u.start \in Nat
      /\ l <= s.start /\ (s.start - l) % PageMinutes = 0 /\ s.end = Smaller(s.start + PageMinutes, Next(l))
      /\ l <= u.start /\ (u.start - l) % PageMinutes = 0 /\ u.end = Smaller(u.start + PageMinutes, Next(l))
  BY <1>2, <1>3, <1>5, SegmentsFit DEF IsPage
<1> HIDE DEF Next, B
<1>7. s.end <= s.start + PageMinutes /\ u.end <= u.start + PageMinutes /\ s.end \in Nat /\ u.end \in Nat
  <2>1. s.end \in Nat /\ u.end \in Nat
    BY SegmentsFit
  <2> QED BY <1>4, <1>6, <2>1, PlanAssumption DEF Smaller
<1>8. s.start = u.start
  <2> DEFINE a == s.start - l
             b == u.start - l
             p == PageMinutes
  <2>1. a \in Nat /\ b \in Nat /\ p \in Nat \ {0} /\ a % p = 0 /\ b % p = 0
    BY <1>4, <1>6, PlanAssumption
  <2>2. s.start = l + a /\ u.start = l + b
    BY <1>4, <1>6
  <2> HIDE DEF a, b, p
  <2>3. a < b + p /\ b < a + p
    BY <1>4, <1>6, <1>7, <2>1, <2>2 DEF p
  <2>4. a = (a \div p) * p /\ b = (b \div p) * p /\ a \div p \in Nat /\ b \div p \in Nat
    BY <2>1, QuotientBounds
  <2>5. a \div p = b \div p
    <3> DEFINE x == a \div p
               y == b \div p
    <3> HIDE DEF x, y
    <3>1. x \in Nat /\ y \in Nat /\ a = x * p /\ b = y * p
      BY <2>4 DEF x, y
    <3>2. (x + 1) * p = x * p + p /\ (y + 1) * p = y * p + p
      BY <2>1, <3>1
    <3>3. x + 1 <= y => (x + 1) * p <= y * p
      BY <2>1, <3>1
    <3>4. y + 1 <= x => (y + 1) * p <= x * p
      BY <2>1, <3>1
    <3>5. ~(x + 1 <= y) /\ ~(y + 1 <= x)
      BY <2>1, <2>3, <3>1, <3>2, <3>3, <3>4
    <3> QED BY <3>1, <3>5 DEF x, y
  <2> QED BY <2>2, <2>4, <2>5
<1>9. s.end = u.end
  BY <1>6, <1>8
<1> QED BY <1>8, <1>9, SegmentsAre

\* Each minute of a request has a segment, inside the request and for it.
LEMMA SegmentsCover ==
  ASSUME NEW rs, Requested(rs), NEW W, WindowsFit(rs, W), NEW w \in W,
         NEW r \in OfSymbol(rs, w.symbol), w.start <= Start(r), End(r) <= w.end,
         NEW t \in Nat, Start(r) <= t, t < End(r)
  PROVE  \E s \in Segments(rs, w) : /\ s.start <= t /\ t < s.end
                                    /\ Start(r) <= s.start /\ s.end <= End(r) /\ r \in s.requests
<1> DEFINE B == Boundaries(rs, w)
<1>1. /\ B \in SUBSET Nat /\ w.end \in B /\ w.end \in Nat /\ w.start \in Nat
      /\ Start(r) \in B /\ End(r) \in B /\ Start(r) \in Nat /\ End(r) \in Nat
  BY BoundariesAre
<1>2. PICK left \in B : left <= t /\ \A c \in B : c <= t => c <= left
  <2> HIDE DEF B
  <2> QED BY <1>1, LargestUpTo
<1>3. left \in B \ {w.end} /\ left \in Nat /\ Start(r) <= left
  BY <1>1, <1>2
<1> DEFINE next == NextBoundary(B, left)
<1>4. next \in B /\ next \in Nat /\ left < next /\ \A c \in B : left < c => next <= c
  BY <1>3, LeftsAre
<1> HIDE DEF B, next
<1>5. t < next /\ next <= End(r)
  BY <1>1, <1>2, <1>3, <1>4
<1> DEFINE p == PageMinutes
           a == t - left
           start == left + (a \div p) * p
           end == Smaller(start + p, next)
<1>6. a \in Nat /\ p \in Nat \ {0} /\ t = left + a
  BY <1>2, <1>3, PlanAssumption
<1>7. PICK k \in Nat : k = a \div p /\ a - (a % p) = k * p /\ a % p \in 0 .. p - 1
  <2> HIDE DEF a, p
  <2> QED BY <1>6, QuotientBounds
<1>8. k * p \in Nat /\ (k * p) % p = 0
  <2> HIDE DEF p
  <2> QED BY <1>6, <1>7, MultiplesDivide
<1>9. start \in Nat /\ left <= start /\ start <= t /\ t < start + p /\ (start - left) % p = 0
  <2> HIDE DEF p, a
  <2>1. start = left + k * p /\ start - left = k * p
    BY <1>3, <1>7, <1>8
  <2> HIDE DEF start
  <2>2. k * p <= a /\ a < k * p + p
    <3> DEFINE x == a % p
    <3>1. x \in 0 .. p - 1 /\ a - x = k * p
      BY <1>7
    <3> HIDE DEF x
    <3> QED BY <1>6, <1>8, <3>1
  <2> QED BY <1>3, <1>6, <1>8, <2>1, <2>2
<1> HIDE DEF a, start, p
<1>10. end \in Nat /\ t < end /\ end <= next
  BY <1>4, <1>5, <1>6, <1>9 DEF Smaller
<1> DEFINE page == [start |-> start, end |-> end]
<1>11. IsPage(rs, w, left, page) /\ page \in [start : Nat, end : Nat]
  <2>1. start < next
    BY <1>4, <1>5, <1>9
  <2> QED BY <1>9, <1>10, <2>1 DEF IsPage, next, B, p
<1> HIDE DEF end
<1>12. SegmentAt(rs, w, start, end) \in Segments(rs, w)
  <2>1. SegmentAt(rs, w, page.start, page.end) \in Segments(rs, w)
    <3> HIDE DEF page
    <3> QED BY <1>3, <1>11, SegmentsAre DEF B
  <2> QED BY <2>1
<1> DEFINE s == SegmentAt(rs, w, start, end)
<1>13. /\ s.start = start /\ s.end = end
       /\ s.requests = {q \in OfSymbol(rs, w.symbol) : Start(q) < end /\ End(q) > start}
  BY DEF SegmentAt
<1>14. Start(r) < end /\ End(r) > start /\ Start(r) <= start /\ end <= End(r)
  BY <1>1, <1>3, <1>4, <1>5, <1>9, <1>10
<1> HIDE DEF s
<1> QED BY <1>9, <1>10, <1>12, <1>13, <1>14 DEF s

Paged == {"CANDLE", "FUNDING"}

\* The tasks of a plan: two for each segment, two beside each window.
LEMMA TasksAre ==
  ASSUME NEW rs
  PROVE  /\ \A t \in Tasks(rs) : \E w \in Windows(rs) :
              \/ \E s \in Segments(rs, w) : t = CandleTask(s) \/ t = FundingTask(s)
              \/ t = GuardBefore(w) \/ t = GuardAfter(w)
         /\ \A w \in Windows(rs) :
              /\ \A s \in Segments(rs, w) : CandleTask(s) \in Tasks(rs) /\ FundingTask(s) \in Tasks(rs)
              /\ GuardBefore(w) \in Tasks(rs) /\ GuardAfter(w) \in Tasks(rs)
<1> DEFINE Two(s) == {CandleTask(s), FundingTask(s)}
           Cut(w) == UNION {Two(s) : s \in Segments(rs, w)}
           Beside(w) == {GuardBefore(w), GuardAfter(w)}
           All(w) == Beside(w) \cup Cut(w)
<1>1. Tasks(rs) = UNION {All(w) : w \in Windows(rs)}
  BY DEF Tasks
<1>2. ASSUME NEW w PROVE All(w) = Beside(w) \cup Cut(w)
  OBVIOUS
<1>3. ASSUME NEW w, NEW t \in Cut(w) PROVE \E s \in Segments(rs, w) : t = CandleTask(s) \/ t = FundingTask(s)
  OBVIOUS
<1>4. ASSUME NEW w, NEW s \in Segments(rs, w) PROVE CandleTask(s) \in Cut(w) /\ FundingTask(s) \in Cut(w)
  OBVIOUS
<1> HIDE DEF Cut, All
<1> QED BY <1>1, <1>2, <1>3, <1>4

LEMMA SegmentTasks ==
  ASSUME NEW s, NEW role, NEW limit
  PROVE  LET t == Task(role, s, limit)
         IN  /\ t.role = role /\ t.symbol = s.symbol /\ t.start = s.start /\ t.end = s.end
             /\ t.limit = limit /\ t.requests = s.requests
BY DEF Task

LEMMA GuardTasks ==
  ASSUME NEW rs, NEW W, WindowsFit(rs, W), NEW w \in W
  PROVE  /\ GuardBefore(w) = [role |-> "GUARD_BEFORE", symbol |-> w.symbol,
                              start |-> Larger(0, w.start - GuardMinutes), end |-> w.start,
                              limit |-> FundingLimit, requests |-> w.requests]
         /\ GuardAfter(w) = [role |-> "GUARD_AFTER", symbol |-> w.symbol, start |-> w.end,
                             end |-> w.end + GuardMinutes, limit |-> 1, requests |-> w.requests]
<1>1. w \in [symbol : Int, start : Nat, end : Nat, requests : SUBSET rs]
  BY DEF WindowsFit
<1> QED BY <1>1 DEF GuardBefore, GuardAfter, Task

\* What the queries of candles and funding are.
LEMMA PagesAre ==
  ASSUME NEW rs, Requested(rs), NEW p \in Tasks(rs), p.role \in Paged
  PROVE  \E w \in Windows(rs) : \E s \in Segments(rs, w) :
           p = IF p.role = "CANDLE" THEN CandleTask(s) ELSE FundingTask(s)
<1>1. PICK w \in Windows(rs) :
              \/ \E s \in Segments(rs, w) : p = CandleTask(s) \/ p = FundingTask(s)
              \/ p = GuardBefore(w) \/ p = GuardAfter(w)
  BY TasksAre
<1>2. p # GuardBefore(w) /\ p # GuardAfter(w)
  BY GuardTasks, WindowsOfReport DEF Paged
<1>3. PICK s \in Segments(rs, w) : p = CandleTask(s) \/ p = FundingTask(s)
  BY <1>1, <1>2
<1>4. CandleTask(s).role = "CANDLE" /\ FundingTask(s).role = "FUNDING"
  BY SegmentTasks DEF CandleTask, FundingTask
<1>5. p = IF p.role = "CANDLE" THEN CandleTask(s) ELSE FundingTask(s)
  BY <1>3, <1>4
<1> QED BY <1>5

LEMMA PagesFit ==
  ASSUME NEW rs, Requested(rs), NEW p \in Tasks(rs), p.role \in Paged
  PROVE  /\ p.start \in Nat /\ p.end \in Nat /\ p.start < p.end /\ p.requests \subseteq rs
         /\ p.role = "FUNDING" => p.limit = FundingLimit
<1>1. PICK w \in Windows(rs) : \E s \in Segments(rs, w) :
         p = IF p.role = "CANDLE" THEN CandleTask(s) ELSE FundingTask(s)
  BY PagesAre
<1>2. PICK s \in Segments(rs, w) : p = IF p.role = "CANDLE" THEN CandleTask(s) ELSE FundingTask(s)
  BY <1>1
<1>3. s.start \in Nat /\ s.end \in Nat /\ s.start < s.end /\ s.requests \subseteq rs
  BY SegmentsFit, WindowsOfReport
<1>4. p.start = s.start /\ p.end = s.end /\ p.requests = s.requests
  BY <1>2, SegmentTasks DEF CandleTask, FundingTask
<1>5. p.role = "FUNDING" => p.limit = FundingLimit
  BY <1>2, SegmentTasks DEF FundingTask
<1> QED BY <1>3, <1>4, <1>5

\* No minute is fetched twice, whichever requests ask for it.
LEMMA PagesApart ==
  ASSUME NEW rs, Requested(rs), NEW p \in Tasks(rs), p.role \in Paged, NEW q \in Tasks(rs),
         q.role = p.role, q.symbol = p.symbol, p.start < q.end, q.start < p.end
  PROVE  p = q
<1>1. PICK w \in Windows(rs) : \E s \in Segments(rs, w) :
         p = IF p.role = "CANDLE" THEN CandleTask(s) ELSE FundingTask(s)
  BY PagesAre
<1>2. PICK s \in Segments(rs, w) : p = IF p.role = "CANDLE" THEN CandleTask(s) ELSE FundingTask(s)
  BY <1>1
<1>3. PICK v \in Windows(rs) : \E u \in Segments(rs, v) :
         q = IF q.role = "CANDLE" THEN CandleTask(u) ELSE FundingTask(u)
  BY PagesAre
<1>4. PICK u \in Segments(rs, v) : q = IF q.role = "CANDLE" THEN CandleTask(u) ELSE FundingTask(u)
  BY <1>3
<1>5. /\ p.start = s.start /\ p.end = s.end /\ p.symbol = s.symbol
      /\ q.start = u.start /\ q.end = u.end /\ q.symbol = u.symbol
  BY <1>2, <1>4, SegmentTasks DEF CandleTask, FundingTask
<1>6. /\ s.symbol = w.symbol /\ s.start \in Nat /\ s.end \in Nat /\ w.start <= s.start /\ s.end <= w.end
      /\ u.symbol = v.symbol /\ u.start \in Nat /\ u.end \in Nat /\ v.start <= u.start /\ u.end <= v.end
  BY SegmentsFit, WindowsOfReport
<1>7. w.start \in Nat /\ w.end \in Nat /\ v.start \in Nat /\ v.end \in Nat
  BY BoundariesAre, WindowsOfReport
<1>8. v = w
  <2>1. v = w \/ v.end < w.start \/ w.end < v.start
    BY <1>5, <1>6, WindowsOfReport DEF WindowsFit
  <2> QED BY <1>5, <1>6, <1>7, <2>1
<1>9. s = u
  BY <1>5, <1>8, SegmentsApart, WindowsOfReport
<1> QED BY <1>2, <1>4, <1>9

\* Each minute of a request is fetched by a query that lies inside the request.
LEMMA PagesCover ==
  ASSUME NEW rs, Requested(rs), NEW r \in rs, NEW role \in Paged,
         NEW t \in Nat, Start(r) <= t, t < End(r)
  PROVE  \E p \in Tasks(rs) :
           /\ p.role = role /\ p.symbol = r.symbol /\ r \in p.requests
           /\ Start(r) <= p.start /\ p.start <= t /\ t < p.end /\ p.end <= End(r)
<1>1. PICK w \in Windows(rs) : w.symbol = r.symbol /\ w.start <= Start(r) /\ End(r) <= w.end
  BY WindowsOfReport DEF WindowsFit
<1>2. r \in OfSymbol(rs, w.symbol)
  BY <1>1 DEF OfSymbol
<1>3. PICK s \in Segments(rs, w) : /\ s.start <= t /\ t < s.end
                                   /\ Start(r) <= s.start /\ s.end <= End(r) /\ r \in s.requests
  BY <1>1, <1>2, SegmentsCover, WindowsOfReport
<1>4. s.symbol = r.symbol
  BY <1>1, SegmentsFit, WindowsOfReport
<1> DEFINE p == IF role = "CANDLE" THEN CandleTask(s) ELSE FundingTask(s)
<1>5. p.role = role /\ p.symbol = s.symbol /\ p.start = s.start /\ p.end = s.end /\ p.requests = s.requests
  BY SegmentTasks DEF CandleTask, FundingTask, Paged
<1>6. p \in Tasks(rs)
  BY TasksAre
<1> HIDE DEF p
<1> QED BY <1>3, <1>4, <1>5, <1>6

\* The plan of a report that has requests is never refused.
LEMMA PlanIsAccepted ==
  ASSUME NEW rs, Requested(rs)
  PROVE  ~PlanRaises(rs)
<1>1. rs # {} /\ \A s \in SymbolsOf(rs) : Merged(WindowsOf(rs, s))
  BY WindowsOfReport DEF Requested
<1>2. \A w \in Windows(rs) : \A s \in Segments(rs, w) : s.requests # {}
  BY SegmentsFit, WindowsOfReport
<1>3. ~Overlap(Tasks(rs))
  BY PagesApart DEF Overlap, Paged
<1> QED BY <1>1, <1>2, <1>3 DEF PlanRaises

-----------------------------------------------------------------------------
(* ReplayPrep: the oldest rows of an interval *)

LEMMA OldestAre ==
  ASSUME NEW T \in SUBSET Nat, IsFiniteSet(T), NEW n \in Nat
  PROVE  /\ Cardinality(Oldest(T, n)) < n => Oldest(T, n) = T
         /\ T # {} /\ n >= 1 => Oldest(T, n) # {}
         /\ T # {} => Cardinality(Oldest(T, 1)) = 1
<1> DEFINE Below(t) == {u \in T : u < t}
<1>1. ASSUME NEW t PROVE IsFiniteSet(Below(t)) /\ Cardinality(Below(t)) \in Nat /\ Below(t) \in SUBSET T
  <2>1. Below(t) \in SUBSET T
    OBVIOUS
  <2> HIDE DEF Below
  <2> QED BY <2>1, FS_Subset, FS_CardinalityType
<1>2. ASSUME NEW k PROVE Oldest(T, k) = {t \in T : Cardinality(Below(t)) < k}
  BY DEF Oldest
<1>3. ASSUME Cardinality(Oldest(T, n)) < n PROVE Oldest(T, n) = T
  <2> SUFFICES ASSUME T \ Oldest(T, n) # {} PROVE FALSE
    <3> HIDE DEF Below
    <3> QED BY <1>2
  <2>1. PICK t \in T \ Oldest(T, n) : \A u \in T \ Oldest(T, n) : t <= u
    <3>1. T \ Oldest(T, n) \in SUBSET Nat
      OBVIOUS
    <3> QED BY <3>1, SmallestExists
  <2>2. Below(t) \subseteq Oldest(T, n)
    <3> SUFFICES ASSUME NEW u \in T, u < t, u \notin Oldest(T, n) PROVE FALSE
      OBVIOUS
    <3>1. t \in Nat /\ u \in Nat /\ t <= u
      BY <2>1
    <3> QED BY <3>1
  <2>3. ~(Cardinality(Below(t)) < n)
    <3> HIDE DEF Below
    <3> QED BY <1>2, <2>1
  <2>4. IsFiniteSet(Oldest(T, n)) /\ Cardinality(Oldest(T, n)) \in Nat
    <3>1. Oldest(T, n) \in SUBSET T
      BY DEF Oldest
    <3> QED BY <3>1, FS_Subset, FS_CardinalityType
  <2> HIDE DEF Below
  <2>5. Cardinality(Below(t)) <= Cardinality(Oldest(T, n))
    BY <2>2, <2>4, FS_Subset
  <2> QED BY <1>1, <1>3, <2>3, <2>4, <2>5
<1>4. ASSUME T # {}
      PROVE  \E t \in T : /\ \A u \in T : t <= u
                          /\ \A k \in Nat : k >= 1 => t \in Oldest(T, k)
                          /\ Oldest(T, 1) = {t}
  <2>1. PICK t \in T : \A u \in T : t <= u
    BY <1>4, SmallestExists
  <2>2. Below(t) = {}
    <3> SUFFICES ASSUME NEW u \in T, u < t PROVE FALSE
      OBVIOUS
    <3>1. t \in Nat /\ u \in Nat /\ t <= u
      BY <2>1
    <3> QED BY <3>1
  <2>3. Cardinality(Below(t)) = 0
    BY <2>2, FS_EmptySet
  <2>4. \A k \in Nat : k >= 1 => t \in Oldest(T, k)
    <3> HIDE DEF Below
    <3> QED BY <1>2, <2>3
  <2>5. ASSUME NEW u \in T, u # t PROVE u \notin Oldest(T, 1)
    <3>1. t \in Below(u)
      BY <2>1, <2>5
    <3> HIDE DEF Below
    <3>2. Cardinality(Below(u)) # 0
      BY <1>1, <3>1, FS_EmptySet
    <3> QED BY <1>1, <1>2, <3>2
  <2>6. Oldest(T, 1) \subseteq T
    BY DEF Oldest
  <2>7. Oldest(T, 1) = {t}
    <3>1. t \in Oldest(T, 1)
      BY <2>4
    <3> QED BY <2>5, <2>6, <3>1
  <2> QED BY <2>1, <2>4, <2>7
<1>5. T # {} => Cardinality(Oldest(T, 1)) = 1
  BY <1>4, FS_Singleton
<1> QED BY <1>3, <1>4, <1>5

-----------------------------------------------------------------------------
(* ReplayPrep: the plan *)

LEMMA ReportIsRequested ==
  ASSUME accepted \in RequestSets
  PROVE  /\ Requested(Requests) /\ Plan = PlanFor(accepted)
         /\ Len(accepted) \in Nat \ {0} /\ DOMAIN accepted = 1 .. Len(accepted)
         /\ \A i \in 1 .. Len(accepted) : accepted[i] \in Requests
         /\ \A r \in Requests : \E i \in 1 .. Len(accepted) : accepted[i] = r
<1> DEFINE n == Len(accepted)
<1>1. /\ accepted # << >> /\ accepted \in Seq(RequestRecords)
      /\ \A i, j \in DOMAIN accepted : accepted[i].id = accepted[j].id => i = j
  BY PrepAssumption DEF RequestRecords
<1>2. n \in Nat \ {0} /\ DOMAIN accepted = 1..n /\ \A i \in 1..n : accepted[i] \in RequestRecords
  BY <1>1, EmptySeq, LenProperties, ElementOfSeq
<1>3. Requests = {accepted[i] : i \in 1..n}
  BY <1>2 DEF Requests, ToSet
<1> HIDE DEF n
<1>4. IsFiniteSet(Requests)
  <2> DEFINE f == [i \in 1..n |-> accepted[i]]
  <2>1. f \in Surjection(1..n, Requests)
    BY <1>3 DEF Surjection
  <2>2. IsFiniteSet(1..n)
    BY <1>2, FirstNumbers
  <2> HIDE DEF f
  <2> QED BY <2>1, <2>2, FS_Surjection
<1>5. Requests \subseteq RequestRecords /\ Requests # {}
  <2>1. accepted[1] \in Requests
    BY <1>2, <1>3
  <2> QED BY <1>2, <1>3, <2>1
<1>6. \A a, b \in Requests : a.id = b.id => a = b
  BY <1>1, <1>2, <1>3
<1>7. Plan = PlanFor(accepted)
  <2>1. \A q : PlanFor(q).accepted = q
    BY DEF PlanFor
  <2>2. PlanFor(accepted) \in Plans /\ PlanFor(accepted).accepted = accepted
    BY <2>1 DEF Plans
  <2>3. Plan \in Plans /\ Plan.accepted = accepted
    <3> DEFINE P(p) == p.accepted = accepted
    <3>1. \E p \in Plans : P(p)
      BY <2>2
    <3>2. Plan = CHOOSE p \in Plans : P(p)
      BY DEF Plan
    <3> HIDE DEF P
    <3>3. Plan \in Plans /\ P(Plan)
      BY <3>1, <3>2
    <3> QED BY <3>3 DEF P
  <2>4. PICK q \in RequestSets : Plan = PlanFor(q)
    BY <2>3 DEF Plans
  <2>5. q = accepted
    BY <2>1, <2>3, <2>4
  <2> QED BY <2>4, <2>5
<1> QED BY <1>2, <1>3, <1>4, <1>5, <1>6, <1>7 DEF Requested, n

LEMMA PlanIs ==
  ASSUME accepted \in RequestSets
  PROVE  /\ Plan.accepted = accepted /\ ~Plan.raises /\ Plan.tasks = Tasks(Requests)
         /\ Plan.windows = Windows(Requests) /\ WindowsFit(Requests, Plan.windows)
         /\ IsFiniteSet(Plan.windows) /\ Cardinality(Plan.windows) \in Nat
         /\ Plan.outputs = OutputsOf(accepted, Plan.windows)
<1>1. Requested(Requests) /\ Plan = PlanFor(accepted)
  BY ReportIsRequested
<1>2. /\ Plan.accepted = accepted /\ Plan.raises = PlanRaises(Requests) /\ Plan.tasks = Tasks(Requests)
      /\ Plan.windows = Windows(Requests) /\ Plan.outputs = OutputsOf(accepted, Windows(Requests))
  <2>1. PlanFor(accepted) = [accepted |-> accepted, raises |-> PlanRaises(Requests),
                             windows |-> Windows(Requests), tasks |-> Tasks(Requests),
                             outputs |-> OutputsOf(accepted, Windows(Requests))]
    BY DEF PlanFor, Requests
  <2> QED BY <1>1, <2>1
<1>3. WindowsFit(Requests, Plan.windows)
  BY <1>1, <1>2, WindowsOfReport
<1>4. IsFiniteSet(Plan.windows)
  BY <1>1, <1>3, WindowsAreFinite
<1>5. ~Plan.raises
  <2>1. ~PlanRaises(Requests)
    BY <1>1, PlanIsAccepted
  <2> QED BY <1>2, <2>1
<1>6. Cardinality(Plan.windows) \in Nat
  BY <1>4, FS_CardinalityType
<1> QED BY <1>2, <1>3, <1>4, <1>5, <1>6

\* The schedules come first, each window once, and then two artifacts per request.
LEMMA WindowsInOrder ==
  ASSUME NEW rs, NEW W, WindowsFit(rs, W), IsFiniteSet(W)
  PROVE  LET q == InOrder(W, WindowOrder)
             n == Cardinality(W)
         IN  /\ n \in Nat /\ q \in Seq(W) /\ Len(q) = n
             /\ \A k \in 1..n : q[k] \in W
             /\ \A x \in W : \E k \in 1..n : q[k] = x
<1> DEFINE q == InOrder(W, WindowOrder)
           n == Cardinality(W)
           B == {p \in W \X W : p[1] # p[2] /\ WindowOrder(p[1], p[2])}
           Pick(k) == CHOOSE x \in W : Cardinality({y \in W : y # x /\ WindowOrder(y, x)}) = k - 1
<1>1. n \in Nat
  BY FS_CardinalityType
<1>2. /\ \A w \in W : w.symbol \in Int /\ w.start \in Nat /\ w.end \in Nat /\ w.start < w.end
      /\ \A v, w \in W : v.symbol = w.symbol => v = w \/ v.end < w.start \/ w.end < v.start
  <2>1. \A w \in W : w \in [symbol : Int, start : Nat, end : Nat, requests : SUBSET rs] /\ w.start < w.end
    BY DEF WindowsFit
  <2> QED BY <2>1 DEF WindowsFit
<1>3. \A v, w \in W : v.symbol = w.symbol /\ v # w => v.start # w.start
  BY <1>2
<1>4. q = [k \in 1..n |-> Pick(k)]
  BY DEF InOrder
<1> HIDE DEF q, n
<1>5. StrictlyOrders(W, B)
  <2>1. \A a, b \in W : <<a, b>> \in B <=> a # b /\ WindowOrder(a, b)
    OBVIOUS
  <2> HIDE DEF B
  <2>3. ASSUME NEW a \in W, NEW b \in W, a # b PROVE WindowOrder(a, b) \/ WindowOrder(b, a)
    BY <1>2, <2>3 DEF WindowOrder
  <2>4. ASSUME NEW a \in W, NEW b \in W, NEW c \in W, a # b, WindowOrder(a, b), b # c, WindowOrder(b, c)
        PROVE  a # c /\ WindowOrder(a, c)
    <3>1. WindowOrder(a, c)
      BY <1>2, <2>4 DEF WindowOrder
    <3>2. a # c
      BY <1>2, <1>3, <2>4 DEF WindowOrder
    <3> QED BY <3>1, <3>2
  <2> QED BY <2>1, <2>3, <2>4 DEF StrictlyOrders
<1>6. \A k \in 1..n : q[k] = CHOOSE x \in W : RankIn(W, B, x) = k - 1
  <2>1. \A x \in W : RankIn(W, B, x) = Cardinality({y \in W : y # x /\ WindowOrder(y, x)})
    <3>1. ASSUME NEW x \in W PROVE {y \in W : <<y, x>> \in B} = {y \in W : y # x /\ WindowOrder(y, x)}
      OBVIOUS
    <3> HIDE DEF B
    <3> QED BY <3>1 DEF RankIn
  <2>3. \A k : Pick(k) = CHOOSE x \in W : RankIn(W, B, x) = k - 1
    <3> HIDE DEF B
    <3> QED BY <2>1
  <2> HIDE DEF B, Pick
  <2> QED BY <1>4, <2>3
<1>7. /\ \A k \in 1..n : q[k] \in W
      /\ \A x \in W : \E k \in 1..n : q[k] = x
  <2> HIDE DEF B, Pick
  <2> QED BY <1>5, <1>6, RanksList DEF n
<1>8. q \in Seq(W) /\ Len(q) = n
  <2>1. q \in [1..n -> W] /\ DOMAIN q = 1..n
    <3> HIDE DEF Pick, B
    <3> QED BY <1>4, <1>7
  <2> QED BY <1>1, <2>1, SeqDef, LenProperties
<1> QED BY <1>1, <1>7, <1>8 DEF q, n

Output(r, role) == [request |-> r, role |-> role]

LEMMA OutputsAre ==
  ASSUME accepted \in RequestSets
  PROVE  LET n == Cardinality(Plan.windows)
             o == Plan.outputs
         IN  /\ n \in Nat /\ Len(o) \in Nat
             /\ \A i \in 1..n : i \in 1 .. Len(o) /\ o[i] \in Plan.windows
             /\ \A w \in Plan.windows : \E i \in 1..n : o[i] = w
             /\ \A i \in n + 1 .. Len(o) : \E r \in Requests, role \in Paged : o[i] = Output(r, role)
             /\ \A r \in Requests, role \in Paged :
                  \E i \in 1 .. Len(o) : i > n /\ o[i] = Output(r, role)
<1> DEFINE n == Cardinality(Plan.windows)
           o == Plan.outputs
           k == 2 * Len(accepted)
           q == InOrder(Plan.windows, WindowOrder)
           RoleAt(i) == IF i % 2 = 1 THEN "CANDLE" ELSE "FUNDING"
           At(i) == Output(accepted[(i + 1) \div 2], RoleAt(i))
           p == [i \in 1..k |-> At(i)]
           S == Plan.windows \cup {Output(r, role) : r \in Requests, role \in Paged}
<1>1. /\ Len(accepted) \in Nat \ {0} /\ k \in Nat
      /\ \A i \in 1 .. Len(accepted) : accepted[i] \in Requests
      /\ \A r \in Requests : \E i \in 1 .. Len(accepted) : accepted[i] = r
  BY ReportIsRequested
<1>2. /\ n \in Nat /\ q \in Seq(Plan.windows) /\ Len(q) = n
      /\ \A i \in 1..n : q[i] \in Plan.windows
      /\ \A w \in Plan.windows : \E i \in 1..n : q[i] = w
  BY PlanIs, WindowsInOrder
<1>3. o = q \o p
  BY PlanIs DEF OutputsOf, Output
<1>4. ASSUME NEW i \in 1..k PROVE accepted[(i + 1) \div 2] \in Requests /\ RoleAt(i) \in Paged /\ At(i) \in S
  <2>1. (i + 1) \div 2 \in 1 .. Len(accepted)
    BY <1>1
  <2>2. accepted[(i + 1) \div 2] \in Requests
    BY <1>1, <2>1
  <2>3. RoleAt(i) \in Paged
    BY DEF Paged
  <2> QED BY <2>2, <2>3
<1> HIDE DEF n, k, q, S, o
<1>5. p \in Seq(S) /\ Len(p) = k
  <2>1. p \in [1..k -> S]
    <3> HIDE DEF At
    <3> QED BY <1>4
  <2> HIDE DEF p
  <2> QED BY <1>1, <2>1, SeqDef, LenProperties
<1>6. q \in Seq(S)
  BY <1>2, SeqMonotonic DEF S
<1>7. Len(o) = n + k /\ \A i \in 1 .. n + k : o[i] = IF i <= n THEN q[i] ELSE p[i - n]
  <2> HIDE DEF p
  <2>1. /\ Len(q \o p) = Len(q) + Len(p)
        /\ \A i \in 1 .. Len(q) + Len(p) : (q \o p)[i] = IF i <= Len(q) THEN q[i] ELSE p[i - Len(q)]
    BY <1>5, <1>6, ConcatProperties
  <2>2. Len(q) = n /\ Len(p) = k /\ o = q \o p
    BY <1>2, <1>3, <1>5
  <2> QED BY <2>1, <2>2, Zenon
<1>8. ASSUME NEW i \in 1..n PROVE i \in 1 .. Len(o) /\ o[i] = q[i] /\ o[i] \in Plan.windows
  <2>1. i \in 1 .. n + k /\ i <= n
    BY <1>1, <1>2
  <2> HIDE DEF p
  <2> QED BY <1>2, <1>7, <2>1
<1>9. ASSUME NEW i \in n + 1 .. Len(o) PROVE \E r \in Requests, role \in Paged : o[i] = Output(r, role)
  <2>1. i \in 1 .. n + k /\ ~(i <= n) /\ i - n \in 1..k
    BY <1>1, <1>2, <1>7
  <2>2. o[i] = At(i - n)
    <3> HIDE DEF At
    <3> QED BY <1>7, <2>1
  <2>3. accepted[(i - n + 1) \div 2] \in Requests /\ RoleAt(i - n) \in Paged
    BY <1>4, <2>1
  <2> QED BY <2>2, <2>3
<1>10. ASSUME NEW r \in Requests, NEW role \in Paged
       PROVE  \E i \in 1 .. Len(o) : i > n /\ o[i] = Output(r, role)
  <2>1. PICK j \in 1 .. Len(accepted) : accepted[j] = r
    BY <1>1
  <2> DEFINE m == IF role = "CANDLE" THEN 2 * j - 1 ELSE 2 * j
  <2>2. m \in 1..k /\ (m + 1) \div 2 = j /\ RoleAt(m) = role
    BY <1>1 DEF Paged, k
  <2> HIDE DEF m
  <2>3. At(m) = Output(r, role)
    BY <2>1, <2>2
  <2>4. m + n \in 1 .. n + k /\ ~(m + n <= n) /\ m + n - n = m
    BY <1>1, <1>2, <2>2
  <2>5. o[m + n] = p[m]
    <3> DEFINE x == m + n
    <3> HIDE DEF p, x
    <3>1. x \in 1 .. n + k /\ ~(x <= n) /\ x - n = m
      <4>1. m \in Int /\ n \in Nat /\ k \in Nat /\ 1 <= m /\ m <= k
        BY <1>1, <1>2, <2>2
      <4> QED BY <4>1 DEF x
    <3>2. o[x] = p[x - n]
      BY <1>7, <3>1
    <3> QED BY <3>1, <3>2 DEF x
  <2>6. o[m + n] = Output(r, role) /\ m + n > n
    BY <1>2, <2>2, <2>3, <2>4, <2>5
  <2> QED BY <1>7, <2>4, <2>6
<1> HIDE DEF p
<1>11. n \in Nat /\ Len(o) \in Nat
  BY <1>1, <1>2, <1>7
<1>12. \A w \in Plan.windows : \E i \in 1..n : o[i] = w
  BY <1>2, <1>8
<1> HIDE DEF At, RoleAt
<1> QED BY <1>8, <1>9, <1>10, <1>11, <1>12 DEF n, o

-----------------------------------------------------------------------------
(* ReplayPrep: what a finalization finds in the responses *)

Answering(run) == accepted \in RequestSets /\ view \in [Runs -> Views] /\ run \in Runs
SettledAt(run, symbol) == DOMAIN view[run].settlements[symbol]

\* No response was cut off.
Whole(run) == \A task \in Plan.tasks : ~Truncated(run, task)

LEMMA AnswersAre ==
  ASSUME NEW run, Answering(run), NEW r \in Requests
  PROVE  /\ view[run].minutes[r.symbol] \subseteq Nat /\ SettledAt(run, r.symbol) \subseteq Nat
         /\ \A t \in SettledAt(run, r.symbol) : KindAt(run, r, t) \in {"MARKED", "UNMARKED", "SPECIAL"}
<1>1. PICK i \in 1 .. Len(accepted) : accepted[i] = r
  BY ReportIsRequested DEF Answering
<1>2. i \in DOMAIN accepted /\ view[run] \in Views
  BY <1>1, ReportIsRequested DEF Answering
<1>3. LET settlements == view[run].settlements[accepted[i].symbol]
      IN  /\ view[run].minutes[accepted[i].symbol] \subseteq Nat /\ DOMAIN settlements \subseteq Nat
          /\ \A t \in DOMAIN settlements : settlements[t] \in {"MARKED", "UNMARKED", "SPECIAL"}
  BY <1>2, PrepAssumption DEF Answering
<1> QED BY <1>1, <1>3 DEF SettledAt, KindAt

LEMMA RequestTimesAre ==
  ASSUME accepted \in RequestSets, NEW r \in Requests
  PROVE  /\ r \in RequestRecords /\ Start(r) \in Nat /\ End(r) \in Nat /\ Start(r) < End(r) - 1
         /\ \A entry \in Entries(r) : /\ entry \in Nat /\ Start(r) <= entry
                                      /\ LastExit(entry) \in Nat /\ LastExit(entry) <= End(r) - 1
<1>1. r \in RequestRecords
  BY ReportIsRequested DEF Requested
<1> QED BY <1>1, RequestTimes

\* The rows of an interval are some of the settlements in it, the oldest.
LEMMA RowsAre ==
  ASSUME NEW run, Answering(run), NEW r \in Requests,
         NEW p, p.symbol = r.symbol, p.start \in Nat, p.end \in Nat
  PROVE  /\ TimesIn(run, p) = {t \in SettledAt(run, r.symbol) : p.start <= t /\ t < p.end}
         /\ TimesIn(run, p) \in SUBSET Nat /\ IsFiniteSet(TimesIn(run, p))
         /\ FundingRows(run, p) \subseteq TimesIn(run, p)
<1>1. TimesIn(run, p) = {t \in SettledAt(run, r.symbol) : p.start <= t /\ t < p.end}
  BY DEF TimesIn, SettledAt
<1>2. TimesIn(run, p) \in SUBSET Nat
  BY <1>1, AnswersAre
<1>3. \A t \in TimesIn(run, p) : t <= p.end
  <2>1. \A t \in TimesIn(run, p) : t \in Nat /\ t < p.end
    BY <1>1, <1>2
  <2> QED BY <2>1
<1>4. IsFiniteSet(TimesIn(run, p))
  BY <1>2, <1>3, FS_BoundedSetOfNaturals
<1>5. FundingRows(run, p) \subseteq TimesIn(run, p)
  BY DEF FundingRows, Oldest
<1> QED BY <1>1, <1>2, <1>4, <1>5

LEMMA FetchedAre ==
  ASSUME NEW run, Answering(run), Whole(run), NEW r \in Requests,
         NEW p \in Plan.tasks, p.role = "FUNDING", p.symbol = r.symbol
  PROVE  FundingRows(run, p) = {t \in SettledAt(run, r.symbol) : p.start <= t /\ t < p.end}
<1>1. p.start \in Nat /\ p.end \in Nat /\ p.limit = FundingLimit
  BY PlanIs, ReportIsRequested, PagesFit DEF Answering, Paged
<1>2. ~(Cardinality(FundingRows(run, p)) >= p.limit)
  BY DEF Whole, Truncated
<1>3. TimesIn(run, p) \in SUBSET Nat /\ IsFiniteSet(TimesIn(run, p)) /\ FundingRows(run, p) \subseteq TimesIn(run, p)
  BY <1>1, RowsAre
<1>4. Cardinality(FundingRows(run, p)) \in Nat
  BY <1>3, FS_Subset, FS_CardinalityType
<1>5. p.limit \in Nat /\ Cardinality(FundingRows(run, p)) < p.limit
  BY <1>1, <1>2, <1>4, PlanAssumption
<1>6. FundingRows(run, p) = TimesIn(run, p)
  BY <1>3, <1>5, OldestAre DEF FundingRows
<1> QED BY <1>1, <1>6, RowsAre

\* The pages of a request that the plan has, minute for minute.
LEMMA PagesOfRequest ==
  ASSUME accepted \in RequestSets, NEW r \in Requests, NEW role \in Paged
  PROVE  /\ \A p \in Pages(r, role) :
              /\ p \in Plan.tasks /\ p.role = role /\ p.symbol = r.symbol
              /\ p.start \in Nat /\ p.end \in Nat /\ p.start < p.end
              /\ Start(r) <= p.start /\ p.end <= End(r)
         /\ \A t \in Nat : Start(r) <= t /\ t < End(r) =>
              \E p \in Pages(r, role) : p.start <= t /\ t < p.end
<1>1. Requested(Requests) /\ Plan.tasks = Tasks(Requests)
  BY ReportIsRequested, PlanIs
<1>2. ASSUME NEW p \in Pages(r, role)
      PROVE  /\ p \in Plan.tasks /\ p.role = role /\ p.symbol = r.symbol
             /\ Start(r) <= p.start /\ p.end <= End(r)
  BY DEF Pages, Within
<1>3. ASSUME NEW p \in Pages(r, role)
      PROVE  p.start \in Nat /\ p.end \in Nat /\ p.start < p.end
  BY <1>1, <1>2, PagesFit
<1>4. ASSUME NEW t \in Nat, Start(r) <= t, t < End(r)
      PROVE  \E p \in Pages(r, role) : p.start <= t /\ t < p.end
  <2>1. PICK p \in Tasks(Requests) :
           /\ p.role = role /\ p.symbol = r.symbol /\ r \in p.requests
           /\ Start(r) <= p.start /\ p.start <= t /\ t < p.end /\ p.end <= End(r)
    BY <1>1, <1>4, PagesCover
  <2>2. p \in Pages(r, role)
    BY <1>1, <2>1 DEF Pages, Within
  <2> QED BY <2>1, <2>2
<1> QED BY <1>2, <1>3, <1>4

LEMMA PagesPartition ==
  ASSUME accepted \in RequestSets, NEW r \in Requests, NEW role \in Paged
  PROVE  Partition(r, Pages(r, role))
<1>1. Start(r) \in Nat /\ End(r) \in Nat /\ Start(r) < End(r)
  <2>1. Start(r) \in Nat /\ End(r) \in Nat /\ Start(r) < End(r) - 1
    BY RequestTimesAre
  <2> QED BY <2>1
<1>2. \E p \in Pages(r, role) : p.start = Start(r)
  <2>1. PICK p \in Pages(r, role) : p.start <= Start(r) /\ Start(r) < p.end
    BY <1>1, PagesOfRequest
  <2>2. p.start \in Nat /\ Start(r) <= p.start
    BY PagesOfRequest
  <2> QED BY <1>1, <2>1, <2>2
<1>3. ASSUME NEW p \in Pages(r, role), p.end # End(r)
      PROVE  \E q \in Pages(r, role) : q.start = p.end
  <2>1. /\ p \in Plan.tasks /\ p.role = role /\ p.symbol = r.symbol
        /\ p.start \in Nat /\ p.end \in Nat /\ p.start < p.end /\ Start(r) <= p.start /\ p.end <= End(r)
    BY PagesOfRequest
  <2>2. PICK q \in Pages(r, role) : q.start <= p.end /\ p.end < q.end
    <3>1. Start(r) <= p.end /\ p.end < End(r)
      BY <1>1, <1>3, <2>1
    <3> QED BY <2>1, <3>1, PagesOfRequest
  <2>3. /\ q \in Plan.tasks /\ q.role = role /\ q.symbol = r.symbol /\ q.start \in Nat /\ q.end \in Nat
    BY PagesOfRequest
  <2>4. q.start < p.end => p = q
    <3> SUFFICES ASSUME q.start < p.end PROVE p = q
      OBVIOUS
    <3>1. p.start < q.end
      BY <2>1, <2>2, <2>3
    <3> QED BY <2>1, <2>3, <3>1, PagesApart, ReportIsRequested, PlanIs
  <2>5. q.start = p.end
    BY <2>1, <2>2, <2>3, <2>4
  <2> QED BY <2>5
<1> QED BY <1>2, <1>3 DEF Partition

\* What is downloaded of the funding of a request, whichever way it is asked for.
LEMMA FundingIsWhole ==
  ASSUME NEW run, Answering(run), Whole(run), NEW r \in Requests
  PROVE  /\ Funded(run, r) = {t \in SettledAt(run, r.symbol) : Start(r) <= t /\ t < End(r)}
         /\ Required(r, Funded(run, r)) = Required(r, SettledAt(run, r.symbol))
         /\ \A w : /\ w.symbol = r.symbol /\ w.start \in Nat /\ w.end \in Nat
                  /\ w.start <= Start(r) /\ End(r) <= w.end =>
              Required(r, Scheduled(run, w)) = Required(r, SettledAt(run, r.symbol))
<1> DEFINE D == SettledAt(run, r.symbol)
           Span(p) == {t \in D : p.start <= t /\ t < p.end}
<1>1. accepted \in RequestSets /\ Start(r) \in Nat /\ End(r) \in Nat
  BY RequestTimesAre DEF Answering
<1>2. D \subseteq Nat
  BY AnswersAre
<1>3. \A p \in Plan.tasks : p.role = "FUNDING" /\ p.symbol = r.symbol => FundingRows(run, p) = Span(p)
  BY FetchedAre
<1> HIDE DEF D
<1>4. "FUNDING" \in Paged
  BY DEF Paged
<1>5. Funded(run, r) = UNION {FundingRows(run, p) : p \in Pages(r, "FUNDING")}
  BY DEF Funded, TimesOf
<1>6. ASSUME NEW t \in Funded(run, r) PROVE t \in D /\ Start(r) <= t /\ t < End(r)
  <2>1. PICK p \in Pages(r, "FUNDING") : t \in FundingRows(run, p)
    BY <1>5
  <2>2. /\ p \in Plan.tasks /\ p.role = "FUNDING" /\ p.symbol = r.symbol
        /\ p.start \in Nat /\ p.end \in Nat /\ Start(r) <= p.start /\ p.end <= End(r)
    BY <1>1, <1>4, PagesOfRequest
  <2>3. t \in D /\ p.start <= t /\ t < p.end
    BY <1>3, <2>1, <2>2
  <2> HIDE DEF Span
  <2>4. t \in Nat
    BY <1>2, <2>3
  <2> QED BY <1>1, <2>2, <2>3, <2>4
<1>7. ASSUME NEW t \in D, Start(r) <= t, t < End(r)
      PROVE  \E p \in Pages(r, "FUNDING") : t \in FundingRows(run, p)
  <2>1. PICK p \in Pages(r, "FUNDING") : p.start <= t /\ t < p.end
    BY <1>1, <1>2, <1>4, <1>7, PagesOfRequest
  <2>2. p \in Plan.tasks /\ p.role = "FUNDING" /\ p.symbol = r.symbol
    BY <1>1, <1>4, PagesOfRequest
  <2>3. t \in Span(p)
    BY <2>1
  <2> QED BY <1>3, <2>2, <2>3
<1>8. Funded(run, r) = {t \in D : Start(r) <= t /\ t < End(r)}
  BY <1>5, <1>6, <1>7
<1>9. \A t \in D : t < End(r) - 1 => t < End(r)
  BY <1>1, <1>2
<1>10. \A t \in D : Start(r) < t => Start(r) <= t
  BY <1>1, <1>2
<1>11. Required(r, Funded(run, r)) = Required(r, D)
  BY <1>8, <1>9, <1>10 DEF Required
<1>12. ASSUME NEW w, w.symbol = r.symbol, w.start \in Nat, w.end \in Nat, w.start <= Start(r), End(r) <= w.end
       PROVE  Required(r, Scheduled(run, w)) = Required(r, D)
  <2>1. Scheduled(run, w) = UNION {FundingRows(run, p) : p \in FundingTasksOf(w)}
    BY DEF Scheduled, TimesOf
  <2>2. ASSUME NEW t \in Scheduled(run, w) PROVE t \in D
    <3>1. PICK p \in FundingTasksOf(w) : t \in FundingRows(run, p)
      BY <2>1
    <3>2. p \in Plan.tasks /\ p.role = "FUNDING" /\ p.symbol = r.symbol
      BY <1>12 DEF FundingTasksOf, Within
    <3> QED BY <1>3, <3>1, <3>2
  <2>3. ASSUME NEW t \in D, Start(r) <= t, t < End(r) PROVE t \in Scheduled(run, w)
    <3>1. PICK p \in Pages(r, "FUNDING") : t \in FundingRows(run, p)
      BY <1>7, <2>3
    <3>2. /\ p \in Plan.tasks /\ p.role = "FUNDING" /\ p.symbol = r.symbol
          /\ p.start \in Nat /\ p.end \in Nat /\ Start(r) <= p.start /\ p.end <= End(r)
      BY <1>1, <1>4, PagesOfRequest
    <3>3. p \in FundingTasksOf(w)
      BY <1>1, <1>12, <3>2 DEF FundingTasksOf, Within
    <3> QED BY <2>1, <3>1, <3>3
  <2> QED BY <1>9, <1>10, <2>2, <2>3 DEF Required
<1> QED BY <1>8, <1>11, <1>12 DEF D

\* A run whose answers leave nothing out publishes whatever comes next.
LEMMA SchedulesDoNotRaise ==
  ASSUME NEW run, Answering(run), Whole(run), Answered(run), NEW w \in Plan.windows
  PROVE  ~ScheduleRaises(run, w)
<1>1. /\ Requested(Requests) /\ Plan.tasks = Tasks(Requests) /\ Plan.windows = Windows(Requests)
      /\ WindowsFit(Requests, Plan.windows)
  BY ReportIsRequested, PlanIs DEF Answering
<1> DEFINE W == Plan.windows
           before == GuardBefore(w)
           after == GuardAfter(w)
<1>2. /\ before = [role |-> "GUARD_BEFORE", symbol |-> w.symbol,
                   start |-> Larger(0, w.start - GuardMinutes), end |-> w.start,
                   limit |-> FundingLimit, requests |-> w.requests]
      /\ after = [role |-> "GUARD_AFTER", symbol |-> w.symbol, start |-> w.end,
                  end |-> w.end + GuardMinutes, limit |-> 1, requests |-> w.requests]
      /\ before \in Plan.tasks /\ after \in Plan.tasks
  BY <1>1, GuardTasks, TasksAre
<1>3. w.start \in Nat /\ w.end \in Nat /\ w.start < w.end
  BY <1>1, BoundariesAre
<1>4. PICK r \in Requests : r.symbol = w.symbol
  <2>1. \E r \in OfSymbol(Requests, w.symbol) : Start(r) <= w.start /\ w.start < End(r)
    <3>1. w.start <= w.start
      BY <1>3
    <3> QED BY <1>1, <1>3, <3>1 DEF WindowsFit
  <2> QED BY <2>1 DEF OfSymbol
<1>5. ASSUME NEW t \in Plan.tasks, t.role \in {"GUARD_BEFORE", "GUARD_AFTER"}
      PROVE  \E v \in W : t = IF t.role = "GUARD_BEFORE" THEN GuardBefore(v) ELSE GuardAfter(v)
  <2>1. PICK v \in W : \/ \E s \in Segments(Requests, v) : t = CandleTask(s) \/ t = FundingTask(s)
                       \/ t = GuardBefore(v) \/ t = GuardAfter(v)
    BY <1>1, TasksAre
  <2>2. \A s : CandleTask(s).role = "CANDLE" /\ FundingTask(s).role = "FUNDING"
    BY SegmentTasks DEF CandleTask, FundingTask
  <2>3. GuardBefore(v).role = "GUARD_BEFORE" /\ GuardAfter(v).role = "GUARD_AFTER"
    BY <1>1, GuardTasks
  <2>4. t = IF t.role = "GUARD_BEFORE" THEN GuardBefore(v) ELSE GuardAfter(v)
    BY <1>5, <2>1, <2>2, <2>3
  <2> QED BY <2>4
<1>6. GuardsOf(w, "GUARD_BEFORE") = {before}
  <2>1. before \in GuardsOf(w, "GUARD_BEFORE")
    BY <1>2 DEF GuardsOf
  <2>2. ASSUME NEW t \in GuardsOf(w, "GUARD_BEFORE") PROVE t = before
    <3>1. /\ t \in Plan.tasks /\ t.role = "GUARD_BEFORE" /\ t.symbol = w.symbol
          /\ t.requests = w.requests /\ t.end = w.start
      BY DEF GuardsOf
    <3>2. PICK v \in W : t = GuardBefore(v)
      BY <1>5, <3>1
    <3>3. t = [role |-> "GUARD_BEFORE", symbol |-> v.symbol,
               start |-> Larger(0, v.start - GuardMinutes), end |-> v.start,
               limit |-> FundingLimit, requests |-> v.requests]
      BY <1>1, <3>2, GuardTasks
    <3>4. v.symbol = w.symbol /\ v.start = w.start /\ v.requests = w.requests
      BY <3>1, <3>3
    <3> QED BY <1>2, <3>3, <3>4
  <2> QED BY <2>1, <2>2
<1>7. GuardsOf(w, "GUARD_AFTER") = {after}
  <2>1. after \in GuardsOf(w, "GUARD_AFTER")
    BY <1>2 DEF GuardsOf
  <2>2. ASSUME NEW t \in GuardsOf(w, "GUARD_AFTER") PROVE t = after
    <3>1. /\ t \in Plan.tasks /\ t.role = "GUARD_AFTER" /\ t.symbol = w.symbol
          /\ t.requests = w.requests /\ t.start = w.end
      BY DEF GuardsOf
    <3>2. PICK v \in W : t = GuardAfter(v)
      BY <1>5, <3>1
    <3>3. t = [role |-> "GUARD_AFTER", symbol |-> v.symbol, start |-> v.end,
               end |-> v.end + GuardMinutes, limit |-> 1, requests |-> v.requests]
      BY <1>1, <3>2, GuardTasks
    <3>4. v.symbol = w.symbol /\ v.end = w.end /\ v.requests = w.requests
      BY <3>1, <3>3
    <3> QED BY <1>2, <3>3, <3>4
  <2> QED BY <2>1, <2>2
<1>8. TimesOf(run, {before}) = FundingRows(run, before) /\ TimesOf(run, {after}) = FundingRows(run, after)
  BY DEF TimesOf
<1>9. /\ before.symbol = r.symbol /\ before.start \in Nat /\ before.end \in Nat /\ before.limit = FundingLimit
      /\ after.symbol = r.symbol /\ after.start \in Nat /\ after.end \in Nat /\ after.limit = 1
  <2>1. Larger(0, w.start - GuardMinutes) \in Nat /\ w.end + GuardMinutes \in Nat
    BY <1>3, PlanAssumption DEF Larger
  <2> QED BY <1>2, <1>3, <1>4, <2>1
<1>10. /\ \E t \in SettledAt(run, w.symbol) : w.start - GuardMinutes <= t /\ t < w.start
       /\ \E t \in SettledAt(run, w.symbol) : w.end <= t /\ t < w.end + GuardMinutes
  BY DEF Answered, SettledAt
<1>11. TimesIn(run, before) # {}
  <2>1. PICK t \in SettledAt(run, w.symbol) : w.start - GuardMinutes <= t /\ t < w.start
    BY <1>10
  <2>2. t \in Nat
    BY <1>4, AnswersAre
  <2>3. before.start <= t /\ t < before.end
    <3>1. before.start = Larger(0, w.start - GuardMinutes) /\ before.end = w.start
      BY <1>2
    <3> QED BY <1>3, <2>1, <2>2, <3>1, PlanAssumption DEF Larger
  <2>4. t \in TimesIn(run, before)
    BY <1>4, <1>9, <2>1, <2>3, RowsAre
  <2> QED BY <2>4
<1>12. TimesIn(run, after) # {}
  <2>1. PICK t \in SettledAt(run, w.symbol) : w.end <= t /\ t < w.end + GuardMinutes
    BY <1>10
  <2>2. after.start <= t /\ t < after.end
    BY <1>2, <2>1
  <2>3. t \in TimesIn(run, after)
    BY <1>4, <1>9, <2>1, <2>2, RowsAre
  <2> QED BY <2>3
<1>13. /\ TimesIn(run, before) \in SUBSET Nat /\ IsFiniteSet(TimesIn(run, before))
       /\ TimesIn(run, after) \in SUBSET Nat /\ IsFiniteSet(TimesIn(run, after))
  BY <1>4, <1>9, RowsAre
<1>14. FundingRows(run, before) # {}
  BY <1>9, <1>11, <1>13, OldestAre, PlanAssumption DEF FundingRows
<1>15. Cardinality(FundingRows(run, after)) = 1
  BY <1>9, <1>12, <1>13, OldestAre DEF FundingRows
<1> HIDE DEF before, after
<1> QED BY <1>6, <1>7, <1>8, <1>14, <1>15, FS_Singleton DEF ScheduleRaises

LEMMA CoveringIs ==
  ASSUME accepted \in RequestSets, NEW r \in Requests
  PROVE  /\ Covering(r) \in Plan.windows /\ Covering(r).symbol = r.symbol
         /\ Covering(r).start <= Start(r) /\ End(r) <= Covering(r).end
         /\ Covering(r).start \in Nat /\ Covering(r).end \in Nat
<1> DEFINE P(w) == w.symbol = r.symbol /\ w.start <= Start(r) /\ End(r) <= w.end
<1>1. \E w \in Plan.windows : P(w)
  BY PlanIs DEF WindowsFit
<1>2. Covering(r) = CHOOSE w \in Plan.windows : P(w)
  BY DEF Covering
<1> HIDE DEF P
<1>3. Covering(r) \in Plan.windows /\ P(Covering(r))
  BY <1>1, <1>2
<1>4. Covering(r).start \in Nat /\ Covering(r).end \in Nat
  BY <1>3, PlanIs, ReportIsRequested, BoundariesAre
<1> QED BY <1>3, <1>4 DEF P

\* When the funding of a request is skipped.
LEMMA SkippedIs ==
  ASSUME NEW run, Answering(run), Whole(run), NEW r \in Requests, NEW role \in Paged
  PROVE  Skipped(run, Output(r, role)) <=>
           role = "FUNDING" /\ Required(r, SettledAt(run, r.symbol)) = {}
<1>1. Output(r, role).request = r /\ Output(r, role).role = role
  BY DEF Output
<1>2. Required(r, Scheduled(run, Covering(r))) = Required(r, SettledAt(run, r.symbol))
  BY FundingIsWhole, CoveringIs DEF Answering
<1> QED BY <1>1, <1>2 DEF Skipped

LEMMA ArtifactsDoNotRaise ==
  ASSUME NEW run, Answering(run), Whole(run), Answered(run), NEW r \in Requests, NEW role \in Paged,
         ~Skipped(run, Output(r, role))
  PROVE  ~ArtifactRaises(run, Output(r, role))
<1>1. Output(r, role).request = r /\ Output(r, role).role = role
  BY DEF Output
<1>2. Partition(r, Pages(r, role)) /\ Start(r) \in Nat /\ End(r) \in Nat
  BY PagesPartition, RequestTimesAre DEF Answering
<1>3. /\ \A t \in Start(r) .. End(r) - 1 : t \in view[run].minutes[r.symbol]
      /\ \A t \in SettledAt(run, r.symbol) :
           Start(r) <= t /\ t < End(r) => KindAt(run, r, t) # "SPECIAL"
  BY DEF Answered, SettledAt
<1>4. CASE role = "CANDLE"
  <2>1. ASSUME NEW p \in Pages(r, "CANDLE") PROVE CandleRows(run, p) = p.start .. p.end - 1
    <3>1. /\ p.symbol = r.symbol /\ p.start \in Nat /\ p.end \in Nat
          /\ Start(r) <= p.start /\ p.end <= End(r)
      BY PagesOfRequest DEF Answering, Paged
    <3>2. CandleRows(run, p) = {t \in view[run].minutes[r.symbol] : p.start <= t /\ t < p.end}
      BY <3>1 DEF CandleRows
    <3>3. view[run].minutes[r.symbol] \subseteq Nat
      BY AnswersAre
    <3>4. ASSUME NEW t \in p.start .. p.end - 1
          PROVE  t \in view[run].minutes[r.symbol] /\ p.start <= t /\ t < p.end
      <4>1. t \in Start(r) .. End(r) - 1 /\ p.start <= t /\ t < p.end
        BY <1>2, <3>1
      <4> QED BY <1>3, <4>1
    <3>5. ASSUME NEW t \in view[run].minutes[r.symbol], p.start <= t, t < p.end
          PROVE  t \in p.start .. p.end - 1
      BY <3>1, <3>3, <3>5
    <3> QED BY <3>2, <3>4, <3>5
  <2> QED BY <1>1, <1>2, <1>4, <2>1 DEF ArtifactRaises
<1>5. CASE role = "FUNDING"
  <2>1. Required(r, Funded(run, r)) # {}
    BY <1>5, SkippedIs, FundingIsWhole
  <2>2. Funded(run, r) # {}
    BY <2>1 DEF Required
  <2>3. \A t \in Funded(run, r) : KindAt(run, r, t) # "SPECIAL"
    BY <1>3, FundingIsWhole
  <2> QED BY <1>1, <1>2, <1>5, <2>2, <2>3 DEF ArtifactRaises
<1> QED BY <1>4, <1>5 DEF Paged

-----------------------------------------------------------------------------
(* ReplayPrep: the files of the stores *)

RunStages == {"PLANNED", "FAILED", "COMPLETE", "RETURNED", "RAISED"}

PrepTypes ==
  /\ accepted \in RequestSets /\ view \in [Runs -> Views]
  /\ setting \in [Runs -> [store : Stores, attempts : 3 .. 4]]
  /\ stage \in [Runs -> RunStages] /\ at \in [Runs -> Nat \ {0}]
  /\ DOMAIN schedules = Stores /\ DOMAIN artifacts = Stores
  /\ IsFiniteSet(supplements)

ScheduleFile(run, w) == [symbol |-> w.symbol, start |-> w.start, end |-> w.end, run |-> run]
ArtifactFile(run, o) == [request |-> o.request, role |-> o.role, run |-> run]

\* What lies in a store was written there by the finalization of a whole download.
WrittenSchedule(store, s) ==
  /\ s.run \in Runs /\ StoreOf(s.run) = store /\ Whole(s.run)
  /\ \E w \in Plan.windows : s = ScheduleFile(s.run, w)
WrittenArtifact(store, a) ==
  /\ a.run \in Runs /\ StoreOf(a.run) = store /\ Whole(a.run)
  /\ \E r \in Requests, role \in Paged :
       a = ArtifactFile(a.run, Output(r, role)) /\ ~ArtifactRaises(a.run, Output(r, role))

FilesOK ==
  \A store \in Stores :
    /\ IsFiniteSet(schedules[store]) /\ \A s \in schedules[store] : WrittenSchedule(store, s)
    /\ IsFiniteSet(artifacts[store]) /\ \A a \in artifacts[store] : WrittenArtifact(store, a)

\* A finalization has written all that comes before the output it is at.
WrittenOutput(run, i) ==
  IF i <= Cardinality(Plan.windows)
  THEN ScheduleFile(run, Plan.outputs[i]) \in schedules[StoreOf(run)]
  ELSE Skipped(run, Plan.outputs[i]) \/ ArtifactFile(run, Plan.outputs[i]) \in artifacts[StoreOf(run)]

InTurn == \A run \in Runs, i \in 1 .. Len(Plan.outputs) : i < at[run] => WrittenOutput(run, i)

StagesOK ==
  \A run \in Runs :
    /\ stage[run] \in {"COMPLETE", "RETURNED", "RAISED"} => Whole(run)
    /\ stage[run] = "RETURNED" => at[run] > Len(Plan.outputs)
    /\ stage[run] = "RAISED" => ~Answered(run)

PrepInv == PrepTypes /\ FilesOK /\ InTurn /\ StagesOK

LEMMA PlanStays ==
  ASSUME UNCHANGED <<accepted, view, setting>>
  PROVE  /\ Plan' = Plan /\ Requests' = Requests
         /\ \A run : /\ StoreOf(run)' = StoreOf(run)
                     /\ Whole(run)' <=> Whole(run)
                     /\ Answered(run)' <=> Answered(run)
         /\ \A run, o : /\ Skipped(run, o)' <=> Skipped(run, o)
                        /\ ArtifactRaises(run, o)' <=> ArtifactRaises(run, o)
<1>1. Plan' = Plan /\ Requests' = Requests
  BY DEF Plan, Requests
<1>2. \A run : StoreOf(run)' = StoreOf(run)
  BY DEF StoreOf
<1>3. \A run, task : /\ FundingRows(run, task)' = FundingRows(run, task)
                     /\ CandleRows(run, task)' = CandleRows(run, task)
  BY DEF FundingRows, CandleRows, TimesIn
<1>4. \A run, r, t : KindAt(run, r, t)' = KindAt(run, r, t)
  BY DEF KindAt
<1>5. \A r, role : Pages(r, role)' = Pages(r, role)
  BY <1>1 DEF Pages
<1>6. \A w : FundingTasksOf(w)' = FundingTasksOf(w)
  BY <1>1 DEF FundingTasksOf
<1>7. \A r : Covering(r)' = Covering(r)
  BY <1>1 DEF Covering
<1>8. \A run, task : Truncated(run, task)' <=> Truncated(run, task)
  BY <1>3 DEF Truncated
<1>9. \A run : Whole(run)' <=> Whole(run)
  BY <1>1, <1>8 DEF Whole
<1>10. \A run, tasks : TimesOf(run, tasks)' = TimesOf(run, tasks)
  BY <1>3 DEF TimesOf
<1>11. \A run, w : Scheduled(run, w)' = Scheduled(run, w)
  BY <1>6, <1>10 DEF Scheduled
<1>12. \A run, r : Funded(run, r)' = Funded(run, r)
  BY <1>5, <1>10 DEF Funded
<1>13. \A run, o : Skipped(run, o)' <=> Skipped(run, o)
  BY <1>7, <1>11 DEF Skipped
<1>14. \A run, o : ArtifactRaises(run, o)' <=> ArtifactRaises(run, o)
  BY <1>3, <1>4, <1>5, <1>12 DEF ArtifactRaises
<1>15. \A run : Answered(run)' <=> Answered(run)
  BY <1>1, <1>4 DEF Answered
<1> QED BY <1>1, <1>2, <1>9, <1>13, <1>14, <1>15

LEMMA PrepInvInit == PrepInit => PrepInv
<1> SUFFICES ASSUME PrepInit PROVE PrepInv
  OBVIOUS
<1>1. PrepTypes
  BY FS_EmptySet DEF PrepInit, PrepTypes, RunStages
<1>2. FilesOK
  BY FS_EmptySet DEF PrepInit, FilesOK
<1>3. InTurn
  <2>1. \A run \in Runs : at[run] = 1
    BY DEF PrepInit
  <2>2. \A i \in 1 .. Len(Plan.outputs) : ~(i < 1)
    OBVIOUS
  <2> QED BY <2>1, <2>2 DEF InTurn
<1>4. StagesOK
  BY DEF PrepInit, StagesOK
<1> QED BY <1>1, <1>2, <1>3, <1>4 DEF PrepInv

\* Nothing is ever deleted, and the plan of a run never changes.
LEMMA PrepSteps ==
  ASSUME PrepInv, [PrepNext]_prepVars
  PROVE  UNCHANGED <<accepted, view, setting>>
<1>1. CASE PrepNext
  BY <1>1 DEF PrepNext, Download, PublishSchedule, PublishArtifact, FinalizeReturns, KillFinalize,
       Harm, Fetch, WriteSupplement
<1>2. CASE UNCHANGED prepVars
  BY <1>2 DEF prepVars
<1> QED BY <1>1, <1>2

LEMMA WrittenOutputNext ==
  ASSUME UNCHANGED <<accepted, view, setting>>, NEW run, NEW i
  PROVE  /\ i <= Cardinality(Plan.windows) =>
              (WrittenOutput(run, i)' <=> ScheduleFile(run, Plan.outputs[i]) \in schedules'[StoreOf(run)])
         /\ ~(i <= Cardinality(Plan.windows)) =>
              (WrittenOutput(run, i)' <=>
                 \/ Skipped(run, Plan.outputs[i])
                 \/ ArtifactFile(run, Plan.outputs[i]) \in artifacts'[StoreOf(run)])
<1>1. Plan' = Plan /\ StoreOf(run)' = StoreOf(run)
  BY DEF Plan, StoreOf
<1>4. \A o : Skipped(run, o)' <=> Skipped(run, o)
  BY PlanStays
<1>2. CASE i <= Cardinality(Plan.windows)
  <2>1. WrittenOutput(run, i)' <=> ScheduleFile(run, Plan'.outputs[i]) \in schedules'[StoreOf(run)']
    BY <1>1, <1>2 DEF WrittenOutput
  <2> QED BY <1>1, <1>2, <2>1
<1>3. CASE ~(i <= Cardinality(Plan.windows))
  <2>1. Skipped(run, Plan.outputs[i])' <=> Skipped(run, Plan.outputs[i])
    BY <1>1, <1>4
  <2>2. WrittenOutput(run, i)' <=>
          \/ Skipped(run, Plan.outputs[i])'
          \/ ArtifactFile(run, Plan'.outputs[i]) \in artifacts'[StoreOf(run)']
    BY <1>1, <1>3 DEF WrittenOutput
  <2> QED BY <1>1, <1>3, <2>1, <2>2
<1> QED BY <1>2, <1>3

LEMMA FilesKeep ==
  ASSUME PrepInv, UNCHANGED <<accepted, view, setting>>,
         UNCHANGED <<schedules, artifacts>>
  PROVE  FilesOK' /\ \A run, i : WrittenOutput(run, i) => WrittenOutput(run, i)'
<1>1. \A store, s : WrittenSchedule(store, s) => WrittenSchedule(store, s)'
  BY PlanStays DEF WrittenSchedule
<1>2. \A store, a : WrittenArtifact(store, a) => WrittenArtifact(store, a)'
  BY PlanStays DEF WrittenArtifact
<1>3. FilesOK'
  BY <1>1, <1>2 DEF PrepInv, FilesOK
<1>4. \A run, i : WrittenOutput(run, i) => WrittenOutput(run, i)'
  BY WrittenOutputNext DEF WrittenOutput
<1> QED BY <1>3, <1>4

LEMMA PublishScheduleKeeps ==
  ASSUME PrepInv, NEW run \in Runs, PublishSchedule(run)
  PROVE  PrepInv'
<1> DEFINE k == at[run]
           w == Plan.outputs[k]
           store == StoreOf(run)
           f == ScheduleFile(run, w)
<1>1. UNCHANGED <<accepted, view, setting>> /\ UNCHANGED <<artifacts, supplements>>
  BY DEF PublishSchedule
<1>2. /\ stage[run] = "COMPLETE" /\ Whole(run) /\ k \in 1 .. Cardinality(Plan.windows)
      /\ store \in Stores /\ Answering(run)
  <2>1. k \in Nat \ {0} /\ setting[run] \in [store : Stores, attempts : 3 .. 4]
    BY DEF PrepInv, PrepTypes
  <2>2. accepted \in RequestSets
    BY DEF PrepInv, PrepTypes
  <2>3. Cardinality(Plan.windows) \in Nat /\ k <= Cardinality(Plan.windows)
    BY <2>2, PlanIs DEF PublishSchedule
  <2>4. stage[run] = "COMPLETE" /\ Whole(run)
    BY DEF PublishSchedule, PrepInv, StagesOK
  <2> QED BY <2>1, <2>3, <2>4 DEF PrepInv, PrepTypes, StoreOf, Answering
<1>3. w \in Plan.windows
  BY <1>2, OutputsAre DEF Answering
<1>4. CASE ScheduleRaises(run, w)
  <2>1. stage' = [stage EXCEPT ![run] = "RAISED"] /\ UNCHANGED <<at, schedules>>
    BY <1>4 DEF PublishSchedule
  <2>2. FilesOK' /\ \A p, i : WrittenOutput(p, i) => WrittenOutput(p, i)'
    BY <1>1, <2>1, FilesKeep
  <2>3. PrepTypes'
    BY <1>1, <2>1 DEF PrepInv, PrepTypes, RunStages
  <2>4. InTurn'
    BY <1>1, <2>1, <2>2, PlanStays DEF PrepInv, InTurn
  <2>5. ~Answered(run)
    BY <1>2, <1>3, <1>4, SchedulesDoNotRaise
  <2>6. StagesOK'
    <3>1. \A p \in Runs : stage'[p] = IF p = run THEN "RAISED" ELSE stage[p]
      BY <2>1 DEF PrepInv, PrepTypes
    <3> QED BY <1>1, <1>2, <2>1, <2>5, <3>1, PlanStays DEF PrepInv, StagesOK
  <2> QED BY <2>2, <2>3, <2>4, <2>6 DEF PrepInv
<1>5. CASE ~ScheduleRaises(run, w)
  <2>1. /\ schedules' = [schedules EXCEPT ![store] = @ \cup {f}]
        /\ at' = [at EXCEPT ![run] = @ + 1] /\ UNCHANGED stage
    BY <1>5 DEF PublishSchedule, ScheduleFile
  <2>2. /\ \A s \in Stores : schedules'[s] = IF s = store THEN schedules[s] \cup {f} ELSE schedules[s]
        /\ \A p \in Runs : at'[p] = IF p = run THEN k + 1 ELSE at[p]
    BY <2>1 DEF PrepInv, PrepTypes
  <2>3. PrepTypes'
    <3>1. at' \in [Runs -> Nat \ {0}]
      BY <2>1, <1>2 DEF PrepInv, PrepTypes
    <3>2. DOMAIN schedules' = Stores
      BY <2>1 DEF PrepInv, PrepTypes
    <3> QED BY <1>1, <2>1, <3>1, <3>2 DEF PrepInv, PrepTypes
  <2>4. WrittenSchedule(store, f)
    <3>1. f.run = run
      BY DEF ScheduleFile
    <3> HIDE DEF f
    <3>2. f = ScheduleFile(f.run, w)
      BY <3>1 DEF f
    <3> QED BY <1>2, <1>3, <3>1, <3>2 DEF WrittenSchedule
  <2>5. FilesOK'
    <3>1. \A s, x : WrittenSchedule(s, x) => WrittenSchedule(s, x)'
      BY <1>1, PlanStays DEF WrittenSchedule
    <3>2. \A s, a : WrittenArtifact(s, a) => WrittenArtifact(s, a)'
      BY <1>1, PlanStays DEF WrittenArtifact
    <3> HIDE DEF f, store
    <3>3. ASSUME NEW s \in Stores
          PROVE  /\ IsFiniteSet(schedules'[s]) /\ \A x \in schedules'[s] : WrittenSchedule(s, x)'
                 /\ IsFiniteSet(artifacts'[s]) /\ \A a \in artifacts'[s] : WrittenArtifact(s, a)'
      <4>1. /\ IsFiniteSet(schedules[s]) /\ \A x \in schedules[s] : WrittenSchedule(s, x)
            /\ IsFiniteSet(artifacts[s]) /\ \A a \in artifacts[s] : WrittenArtifact(s, a)
        BY DEF PrepInv, FilesOK
      <4>2. IsFiniteSet(schedules[s] \cup {f})
        BY <4>1, FS_AddElement
      <4>3. schedules'[s] = IF s = store THEN schedules[s] \cup {f} ELSE schedules[s]
        BY <2>2
      <4>4. IsFiniteSet(schedules'[s])
        BY <4>1, <4>2, <4>3
      <4>5. \A x \in schedules'[s] : WrittenSchedule(s, x)
        BY <2>4, <4>1, <4>3
      <4> QED BY <1>1, <3>1, <3>2, <4>1, <4>4, <4>5
    <3> QED BY <3>3 DEF FilesOK
  <2>6. InTurn'
    <3> SUFFICES ASSUME NEW p \in Runs, NEW i \in 1 .. Len(Plan.outputs), i < at'[p]
                 PROVE  WrittenOutput(p, i)'
      BY <1>1, PlanStays DEF InTurn
    <3>1. /\ WrittenOutput(p, i)' <=>
               IF i <= Cardinality(Plan.windows)
               THEN ScheduleFile(p, Plan.outputs[i]) \in schedules'[StoreOf(p)]
               ELSE Skipped(p, Plan.outputs[i]) \/ ArtifactFile(p, Plan.outputs[i]) \in artifacts[StoreOf(p)]
      BY <1>1, WrittenOutputNext
    <3>2. StoreOf(p) \in Stores
      BY DEF StoreOf, PrepInv, PrepTypes
    <3>3. schedules[StoreOf(p)] \subseteq schedules'[StoreOf(p)]
      BY <2>2, <3>2
    <3>4. CASE i < at[p]
      <4>1. WrittenOutput(p, i)
        BY <3>4 DEF PrepInv, InTurn
      <4> QED BY <3>1, <3>3, <4>1 DEF WrittenOutput
    <3>5. CASE ~(i < at[p])
      <4>1. p = run /\ i = k
        BY <1>2, <2>2, <3>5
      <4>2. f \in schedules'[store]
        BY <1>2, <2>2
      <4> QED BY <1>2, <3>1, <4>1, <4>2
    <3> QED BY <3>4, <3>5
  <2>7. StagesOK'
    <3>1. \A p \in Runs : stage[p] = "RETURNED" => p # run
      BY <1>2
    <3> QED BY <1>1, <2>1, <2>2, <3>1, PlanStays DEF PrepInv, StagesOK
  <2> QED BY <2>3, <2>5, <2>6, <2>7 DEF PrepInv
<1> QED BY <1>4, <1>5

LEMMA PublishArtifactKeeps ==
  ASSUME PrepInv, NEW run \in Runs, PublishArtifact(run)
  PROVE  PrepInv'
<1> DEFINE k == at[run]
           o == Plan.outputs[k]
           store == StoreOf(run)
           f == ArtifactFile(run, o)
           new == IF Skipped(run, o) THEN {} ELSE {f}
<1>1. UNCHANGED <<accepted, view, setting>> /\ UNCHANGED <<schedules, supplements>>
  BY DEF PublishArtifact
<1>2. /\ stage[run] = "COMPLETE" /\ Whole(run)
      /\ k \in Cardinality(Plan.windows) + 1 .. Len(Plan.outputs) /\ k \in Nat
      /\ Cardinality(Plan.windows) \in Nat
      /\ store \in Stores /\ Answering(run)
  <2>1. k \in Nat \ {0} /\ setting[run] \in [store : Stores, attempts : 3 .. 4]
    BY DEF PrepInv, PrepTypes
  <2>2. accepted \in RequestSets
    BY DEF PrepInv, PrepTypes
  <2>3. /\ Cardinality(Plan.windows) \in Nat /\ Len(Plan.outputs) \in Nat
        /\ k > Cardinality(Plan.windows) /\ k <= Len(Plan.outputs)
    BY <2>2, OutputsAre DEF PublishArtifact
  <2>4. stage[run] = "COMPLETE" /\ Whole(run)
    BY DEF PublishArtifact, PrepInv, StagesOK
  <2> QED BY <2>1, <2>3, <2>4 DEF PrepInv, PrepTypes, StoreOf, Answering
<1>3. PICK r \in Requests, role \in Paged : o = Output(r, role)
  BY <1>2, OutputsAre DEF Answering
<1>4. CASE ~Skipped(run, o) /\ ArtifactRaises(run, o)
  <2>1. stage' = [stage EXCEPT ![run] = "RAISED"] /\ UNCHANGED <<at, artifacts>>
    BY <1>4 DEF PublishArtifact
  <2>2. FilesOK' /\ \A p, i : WrittenOutput(p, i) => WrittenOutput(p, i)'
    BY <1>1, <2>1, FilesKeep
  <2>3. PrepTypes'
    BY <1>1, <2>1 DEF PrepInv, PrepTypes, RunStages
  <2>4. InTurn'
    BY <1>1, <2>1, <2>2, PlanStays DEF PrepInv, InTurn
  <2>5. ~Answered(run)
    BY <1>2, <1>3, <1>4, ArtifactsDoNotRaise
  <2>6. StagesOK'
    <3>1. \A p \in Runs : stage'[p] = IF p = run THEN "RAISED" ELSE stage[p]
      BY <2>1 DEF PrepInv, PrepTypes
    <3> QED BY <1>1, <1>2, <2>1, <2>5, <3>1, PlanStays DEF PrepInv, StagesOK
  <2> QED BY <2>2, <2>3, <2>4, <2>6 DEF PrepInv
<1>5. CASE ~(~Skipped(run, o) /\ ArtifactRaises(run, o))
  <2>1. /\ artifacts' = [artifacts EXCEPT ![store] = @ \cup new]
        /\ at' = [at EXCEPT ![run] = @ + 1] /\ UNCHANGED stage
    <3>1. {[request |-> o.request, role |-> o.role, run |-> run] : x \in IF Skipped(run, o) THEN {} ELSE {o}} = new
      BY DEF ArtifactFile
    <3> QED BY <1>5, <3>1 DEF PublishArtifact
  <2>2. /\ \A s \in Stores : artifacts'[s] = IF s = store THEN artifacts[s] \cup new ELSE artifacts[s]
        /\ \A p \in Runs : at'[p] = IF p = run THEN k + 1 ELSE at[p]
    BY <2>1 DEF PrepInv, PrepTypes
  <2>3. PrepTypes'
    <3>1. at' \in [Runs -> Nat \ {0}]
      BY <2>1, <1>2 DEF PrepInv, PrepTypes
    <3>2. DOMAIN artifacts' = Stores
      BY <2>1 DEF PrepInv, PrepTypes
    <3> QED BY <1>1, <2>1, <3>1, <3>2 DEF PrepInv, PrepTypes
  <2>4. \A a \in new : WrittenArtifact(store, a)
    <3> SUFFICES ASSUME ~Skipped(run, o) PROVE WrittenArtifact(store, f)
      OBVIOUS
    <3>1. f.run = run
      BY DEF ArtifactFile
    <3>2. f = ArtifactFile(run, Output(r, role)) /\ ~ArtifactRaises(run, Output(r, role))
      BY <1>3, <1>5
    <3> HIDE DEF f
    <3> QED BY <1>2, <3>1, <3>2 DEF WrittenArtifact
  <2>5. FilesOK'
    <3>1. \A s, x : WrittenSchedule(s, x) => WrittenSchedule(s, x)'
      BY <1>1, PlanStays DEF WrittenSchedule
    <3>2. \A s, a : WrittenArtifact(s, a) => WrittenArtifact(s, a)'
      BY <1>1, PlanStays DEF WrittenArtifact
    <3>0. IsFiniteSet(new) /\ (new = {} \/ new = {f})
      BY FS_EmptySet, FS_Singleton
    <3> HIDE DEF new, store, f
    <3>3. ASSUME NEW s \in Stores
          PROVE  /\ IsFiniteSet(schedules'[s]) /\ \A x \in schedules'[s] : WrittenSchedule(s, x)'
                 /\ IsFiniteSet(artifacts'[s]) /\ \A a \in artifacts'[s] : WrittenArtifact(s, a)'
      <4>1. /\ IsFiniteSet(schedules[s]) /\ \A x \in schedules[s] : WrittenSchedule(s, x)
            /\ IsFiniteSet(artifacts[s]) /\ \A a \in artifacts[s] : WrittenArtifact(s, a)
        BY DEF PrepInv, FilesOK
      <4>2. IsFiniteSet(artifacts[s] \cup new)
        BY <3>0, <4>1, FS_Union
      <4>3. artifacts'[s] = IF s = store THEN artifacts[s] \cup new ELSE artifacts[s]
        BY <2>2
      <4>4. IsFiniteSet(artifacts'[s])
        BY <4>1, <4>2, <4>3
      <4>5. \A a \in artifacts'[s] : WrittenArtifact(s, a)
        BY <2>4, <4>1, <4>3
      <4> QED BY <1>1, <3>1, <3>2, <4>1, <4>4, <4>5
    <3> QED BY <3>3 DEF FilesOK
  <2>6. InTurn'
    <3> SUFFICES ASSUME NEW p \in Runs, NEW i \in 1 .. Len(Plan.outputs), i < at'[p]
                 PROVE  WrittenOutput(p, i)'
      BY <1>1, PlanStays DEF InTurn
    <3>1. /\ WrittenOutput(p, i)' <=>
               IF i <= Cardinality(Plan.windows)
               THEN ScheduleFile(p, Plan.outputs[i]) \in schedules[StoreOf(p)]
               ELSE Skipped(p, Plan.outputs[i]) \/ ArtifactFile(p, Plan.outputs[i]) \in artifacts'[StoreOf(p)]
      BY <1>1, WrittenOutputNext
    <3>2. StoreOf(p) \in Stores
      BY DEF StoreOf, PrepInv, PrepTypes
    <3>3. artifacts[StoreOf(p)] \subseteq artifacts'[StoreOf(p)]
      BY <2>2, <3>2
    <3>4. CASE i < at[p]
      <4>1. WrittenOutput(p, i)
        BY <3>4 DEF PrepInv, InTurn
      <4> QED BY <3>1, <3>3, <4>1 DEF WrittenOutput
    <3>5. CASE ~(i < at[p])
      <4>1. p = run /\ i = k
        BY <1>2, <2>2, <3>5
      <4>2. ~Skipped(run, o) => f \in artifacts'[store]
        BY <1>2, <2>2
      <4>3. ~(k <= Cardinality(Plan.windows))
        BY <1>2
      <4> QED BY <3>1, <4>1, <4>2, <4>3
    <3> QED BY <3>4, <3>5
  <2>7. StagesOK'
    <3>1. \A p \in Runs : stage[p] = "RETURNED" => p # run
      BY <1>2
    <3> QED BY <1>1, <2>1, <2>2, <3>1, PlanStays DEF PrepInv, StagesOK
  <2> QED BY <2>3, <2>5, <2>6, <2>7 DEF PrepInv
<1> QED BY <1>4, <1>5

\* The steps that write nothing to a store.
LEMMA OtherStepsKeep ==
  ASSUME PrepInv, UNCHANGED <<accepted, view, setting>>, UNCHANGED <<schedules, artifacts>>,
         IsFiniteSet(supplements'), at' \in [Runs -> Nat \ {0}], stage' \in [Runs -> RunStages],
         \A run \in Runs : at'[run] = at[run] \/ at'[run] = 1,
         \A run \in Runs : /\ stage'[run] \in {"COMPLETE", "RETURNED", "RAISED"} => Whole(run)
                           /\ stage'[run] = "RETURNED" => at'[run] > Len(Plan.outputs)
                           /\ stage'[run] = "RAISED" => ~Answered(run)
  PROVE  PrepInv'
<1>1. FilesOK' /\ \A run, i : WrittenOutput(run, i) => WrittenOutput(run, i)'
  BY FilesKeep
<1>2. PrepTypes'
  BY DEF PrepInv, PrepTypes
<1>3. Plan' = Plan
  BY DEF Plan
<1>4. InTurn'
  <2> SUFFICES ASSUME NEW run \in Runs, NEW i \in 1 .. Len(Plan.outputs), i < at'[run]
               PROVE  WrittenOutput(run, i)'
    BY <1>3 DEF InTurn
  <2>1. i < at[run]
    OBVIOUS
  <2>2. WrittenOutput(run, i)
    BY <2>1 DEF PrepInv, InTurn
  <2> QED BY <1>1, <2>2
<1>5. StagesOK'
  <2> SUFFICES ASSUME NEW p \in Runs
               PROVE  /\ stage'[p] \in {"COMPLETE", "RETURNED", "RAISED"} => Whole(p)'
                      /\ stage'[p] = "RETURNED" => at'[p] > Len(Plan.outputs)
                      /\ stage'[p] = "RAISED" => ~Answered(p)'
    BY <1>3 DEF StagesOK
  <2>1. Whole(p)' <=> Whole(p)
    BY PlanStays
  <2>2. Answered(p)' <=> Answered(p)
    BY PlanStays
  <2> QED BY <2>1, <2>2
<1> QED BY <1>1, <1>2, <1>4, <1>5 DEF PrepInv

LEMMA PrepInvNext == PrepInv /\ [PrepNext]_prepVars => PrepInv'
<1> SUFFICES ASSUME PrepInv, [PrepNext]_prepVars PROVE PrepInv'
  OBVIOUS
<1>1. UNCHANGED <<accepted, view, setting>>
  BY PrepSteps
<1>2. /\ IsFiniteSet(supplements) /\ at \in [Runs -> Nat \ {0}] /\ stage \in [Runs -> RunStages]
      /\ accepted \in RequestSets
      /\ \A p \in Runs : /\ stage[p] \in {"COMPLETE", "RETURNED", "RAISED"} => Whole(p)
                         /\ stage[p] = "RETURNED" => at[p] > Len(Plan.outputs)
                         /\ stage[p] = "RAISED" => ~Answered(p)
  BY DEF PrepInv, PrepTypes, StagesOK
<1>3. ASSUME NEW run \in Runs, Download(run) PROVE PrepInv'
  <2> DEFINE next == IF \E task \in Plan.tasks : Truncated(run, task) THEN "FAILED" ELSE "COMPLETE"
  <2>1. stage' = [stage EXCEPT ![run] = next] /\ UNCHANGED <<at, schedules, artifacts, supplements>>
    BY <1>3 DEF Download
  <2>2. next \in {"FAILED", "COMPLETE"} /\ (next = "COMPLETE" => Whole(run))
    BY DEF Whole
  <2> HIDE DEF next
  <2>3. \A p \in Runs : stage'[p] = IF p = run THEN next ELSE stage[p]
    BY <1>2, <2>1
  <2>4. stage' \in [Runs -> RunStages]
    BY <1>2, <2>1, <2>2 DEF RunStages
  <2> QED BY <1>1, <1>2, <2>1, <2>2, <2>3, <2>4, OtherStepsKeep
<1>4. ASSUME NEW run \in Runs, FinalizeReturns(run) PROVE PrepInv'
  <2>1. /\ stage[run] = "COMPLETE" /\ at[run] > Len(Plan.outputs)
        /\ stage' = [stage EXCEPT ![run] = "RETURNED"] /\ UNCHANGED <<at, schedules, artifacts, supplements>>
    BY <1>4 DEF FinalizeReturns
  <2>2. \A p \in Runs : stage'[p] = IF p = run THEN "RETURNED" ELSE stage[p]
    BY <1>2, <2>1
  <2>3. stage' \in [Runs -> RunStages]
    BY <1>2, <2>1 DEF RunStages
  <2> QED BY <1>1, <1>2, <2>1, <2>2, <2>3, OtherStepsKeep
<1>5. ASSUME NEW run \in Runs, KillFinalize(run) PROVE PrepInv'
  <2>1. /\ stage[run] = "COMPLETE" /\ at' = [at EXCEPT ![run] = 1]
        /\ UNCHANGED <<stage, schedules, artifacts, supplements>>
    BY <1>5 DEF KillFinalize
  <2>2. \A p \in Runs : at'[p] = IF p = run THEN 1 ELSE at[p]
    BY <1>2, <2>1
  <2>3. at' \in [Runs -> Nat \ {0}]
    BY <1>2, <2>1
  <2> QED BY <1>1, <1>2, <2>1, <2>2, <2>3, OtherStepsKeep
<1>6. ASSUME UNCHANGED <<stage, at, schedules, artifacts>>, IsFiniteSet(supplements') PROVE PrepInv'
  BY <1>1, <1>2, <1>6, OtherStepsKeep
<1>7. ASSUME NEW run \in Runs, Harm(run) PROVE PrepInv'
  BY <1>2, <1>6, <1>7 DEF Harm
<1>8. ASSUME NEW h \in Helpers, WriteSupplement(h) PROVE PrepInv'
  <2>1. supplements' = supplements \cup {helper[h]} /\ UNCHANGED <<stage, at, schedules, artifacts>>
    BY <1>8 DEF WriteSupplement
  <2>2. IsFiniteSet(supplements \cup {helper[h]})
    BY <1>2, FS_AddElement
  <2> QED BY <1>6, <2>1, <2>2
<1>9. ASSUME NEW h \in Helpers, NEW target \in Targets, Fetch(h, target) PROVE PrepInv'
  BY <1>2, <1>6, <1>9 DEF Fetch
<1>10. ASSUME UNCHANGED prepVars PROVE PrepInv'
  BY <1>2, <1>6, <1>10 DEF prepVars
<1> QED
  BY <1>3, <1>4, <1>5, <1>7, <1>8, <1>9, <1>10, PublishScheduleKeeps, PublishArtifactKeeps DEF PrepNext

-----------------------------------------------------------------------------
(* ReplayPrep: what the preflight concludes from the files of the stores *)

LEMMA OnlyIs == \A x : Only({x}) = x
BY DEF Only

\* A file found in a store, and the run that wrote it.
LEMMA SchedulesAre ==
  ASSUME PrepInv, NEW f \in Stores, NEW r \in Requests
  PROVE  /\ IsFiniteSet(SchedulesFor(f, r))
         /\ \A s \in SchedulesFor(f, r) :
              /\ s.run \in Runs /\ StoreOf(s.run) = f /\ Whole(s.run) /\ Answering(s.run)
              /\ Required(r, Scheduled(s.run, s)) = Required(r, SettledAt(s.run, r.symbol))
<1>1. SchedulesFor(f, r) \subseteq schedules[f]
  BY DEF SchedulesFor
<1>2. IsFiniteSet(SchedulesFor(f, r))
  BY <1>1, FS_Subset DEF PrepInv, FilesOK
<1>3. accepted \in RequestSets /\ view \in [Runs -> Views]
  BY DEF PrepInv, PrepTypes
<1>4. ASSUME NEW s \in SchedulesFor(f, r)
      PROVE  /\ s.run \in Runs /\ StoreOf(s.run) = f /\ Whole(s.run) /\ Answering(s.run)
             /\ Required(r, Scheduled(s.run, s)) = Required(r, SettledAt(s.run, r.symbol))
  <2>1. WrittenSchedule(f, s)
    BY <1>1 DEF PrepInv, FilesOK
  <2>2. s.run \in Runs /\ StoreOf(s.run) = f /\ Whole(s.run) /\ Answering(s.run)
    BY <1>3, <2>1 DEF WrittenSchedule, Answering
  <2>3. PICK w \in Plan.windows : s = ScheduleFile(s.run, w)
    BY <2>1 DEF WrittenSchedule
  <2>4. w.start \in Nat /\ w.end \in Nat
    BY <1>3, PlanIs, ReportIsRequested, BoundariesAre
  <2>5. s.start = w.start /\ s.end = w.end
    <3>1. \A a : ScheduleFile(a, w).start = w.start /\ ScheduleFile(a, w).end = w.end
      BY DEF ScheduleFile
    <3> QED BY <2>3, <3>1
  <2>6. s.symbol = r.symbol /\ s.start <= Start(r) /\ End(r) <= s.end
    BY DEF SchedulesFor
  <2> QED BY <2>2, <2>4, <2>5, <2>6, FundingIsWhole
<1> QED BY <1>2, <1>4

LEMMA ArtifactsAre ==
  ASSUME PrepInv, NEW m \in Stores, NEW r \in Requests, NEW role \in Paged
  PROVE  /\ IsFiniteSet(ArtifactsFor(m, r, role))
         /\ \A a \in ArtifactsFor(m, r, role) :
              /\ a.run \in Runs /\ StoreOf(a.run) = m /\ Whole(a.run) /\ Answering(a.run)
              /\ a = ArtifactFile(a.run, Output(r, role))
              /\ ~ArtifactRaises(a.run, Output(r, role))
<1>1. ArtifactsFor(m, r, role) \subseteq artifacts[m]
  BY DEF ArtifactsFor
<1>2. IsFiniteSet(ArtifactsFor(m, r, role))
  BY <1>1, FS_Subset DEF PrepInv, FilesOK
<1>3. accepted \in RequestSets /\ view \in [Runs -> Views]
  BY DEF PrepInv, PrepTypes
<1>4. ASSUME NEW a \in ArtifactsFor(m, r, role)
      PROVE  /\ a.run \in Runs /\ StoreOf(a.run) = m /\ Whole(a.run) /\ Answering(a.run)
             /\ a = ArtifactFile(a.run, Output(r, role))
             /\ ~ArtifactRaises(a.run, Output(r, role))
  <2>1. WrittenArtifact(m, a)
    BY <1>1 DEF PrepInv, FilesOK
  <2>2. a.run \in Runs /\ StoreOf(a.run) = m /\ Whole(a.run) /\ Answering(a.run)
    BY <1>3, <2>1 DEF WrittenArtifact, Answering
  <2>3. PICK q \in Requests, part \in Paged :
          a = ArtifactFile(a.run, Output(q, part)) /\ ~ArtifactRaises(a.run, Output(q, part))
    BY <2>1 DEF WrittenArtifact
  <2>4. a.request = q /\ a.role = part
    <3>1. \A x : ArtifactFile(x, Output(q, part)).request = q /\ ArtifactFile(x, Output(q, part)).role = part
      BY DEF ArtifactFile, Output
    <3> QED BY <2>3, <3>1
  <2>5. a.request = r /\ a.role = role
    BY DEF ArtifactsFor
  <2> QED BY <2>2, <2>3, <2>4, <2>5
<1> QED BY <1>2, <1>4

LEMMA ReadyInputsReplay ==
  ASSUME PrepInv, NEW m \in Stores, NEW f \in Stores, NEW run \in Runs, NEW r \in Requests,
         Issues(m, f, run, r) = {}
  PROVE  Replayable(ReadyInput(m, f, r))
<1> DEFINE input == ReadyInput(m, f, r)
           asked == Asked(f, r)
           files == ArtifactsFor(m, r, "FUNDING")
<1>1. accepted \in RequestSets /\ "CANDLE" \in Paged /\ "FUNDING" \in Paged
  BY DEF PrepInv, PrepTypes, Paged
<1>2. ScheduleIssues(f, r) = {} /\ CandleIssues(m, r) = {} /\ FundingIssues(m, f, r) = {}
  BY DEF Issues
<1>3. PICK s : SchedulesFor(f, r) = {s}
  <2> DEFINE n == Cardinality(SchedulesFor(f, r))
  <2>1. IsFiniteSet(SchedulesFor(f, r)) /\ n \in Nat
    BY SchedulesAre, FS_CardinalityType
  <2>2. n # 0 /\ ~(n > 1)
    BY <1>2 DEF ScheduleIssues
  <2>3. n = 1
    BY <2>1, <2>2
  <2> QED BY <2>1, <2>3, FS_Singleton
<1>4. PICK c : ArtifactsFor(m, r, "CANDLE") = {c}
  <2> DEFINE A == ArtifactsFor(m, r, "CANDLE")
  <2>1. IsFiniteSet(A) /\ Cardinality(A) \in Nat
    BY <1>1, ArtifactsAre, FS_CardinalityType
  <2>2. A # {} /\ ~(Cardinality(A) > 1)
    BY <1>2 DEF CandleIssues
  <2> HIDE DEF A
  <2>3. Cardinality(A) # 0
    BY <2>1, <2>2, FS_EmptySet
  <2>4. Cardinality(A) = 1
    BY <2>1, <2>2, <2>3
  <2>5. \E x : A = {x}
    BY <2>1, <2>4, FS_Singleton
  <2> QED BY <2>5 DEF A
<1>5. /\ s.run \in Runs /\ Answering(s.run) /\ asked = Required(r, SettledAt(s.run, r.symbol))
  <2>1. s \in SchedulesFor(f, r) /\ Only(SchedulesFor(f, r)) = s
    BY <1>3, OnlyIs
  <2> QED BY <2>1, SchedulesAre DEF Asked
<1> DEFINE used == UNION {UNION {SupplementsFor(r, a.run, t) : t \in Unmarked(a.run, r, asked)} :
                            a \in IF asked = {} THEN {} ELSE files}
<1>6. /\ input.request = r /\ input.candle = c /\ input.schedule = s
      /\ input.funding = (IF asked = {} THEN {} ELSE files)
      /\ input.supplements = used
      /\ input.warned = (\E x \in used : x.kind = "APPROXIMATE")
  <2>1. Only(ArtifactsFor(m, r, "CANDLE")) = c /\ Only(SchedulesFor(f, r)) = s
    BY <1>3, <1>4, OnlyIs
  <2> QED BY <2>1 DEF ReadyInput
<1> HIDE DEF input
<1>7. /\ Start(r) \in Nat /\ End(r) \in Nat
      /\ \A entry \in Entries(r) : /\ entry \in Nat /\ Start(r) <= entry
                                   /\ LastExit(entry) \in Nat /\ LastExit(entry) <= End(r) - 1
  BY <1>1, RequestTimesAre
<1>8. ASSUME NEW t \in Nat, Start(r) <= t, t < End(r) PROVE t \in view[c.run].minutes[r.symbol]
  <2>1. c.run \in Runs /\ ~ArtifactRaises(c.run, Output(r, "CANDLE"))
    BY <1>1, <1>4, ArtifactsAre
  <2>2. PICK p \in Pages(r, "CANDLE") : p.start <= t /\ t < p.end
    BY <1>1, <1>8, PagesOfRequest
  <2>3. p.start \in Nat /\ p.end \in Nat /\ p.symbol = r.symbol
    BY <1>1, PagesOfRequest
  <2>4. CandleRows(c.run, p) = p.start .. p.end - 1
    <3>1. Output(r, "CANDLE").request = r /\ Output(r, "CANDLE").role = "CANDLE"
      BY DEF Output
    <3> QED BY <2>1, <3>1 DEF ArtifactRaises
  <2>5. t \in p.start .. p.end - 1
    BY <2>2, <2>3
  <2>6. t \in CandleRows(c.run, p)
    BY <2>4, <2>5
  <2> QED BY <2>3, <2>6 DEF CandleRows
<1>9. ASSUME NEW t \in asked PROVE Known(input, t)
  <2>1. asked # {}
    BY <1>9
  <2>2. /\ files # {} /\ ~(Cardinality(files) > 1)
        /\ asked \ Required(r, Funded(Only(files).run, r)) = {}
        /\ Unsupplemented(r, Only(files).run, asked) = {}
    BY <1>2, <2>1 DEF FundingIssues
  <2>3. PICK a : files = {a}
    <3>1. IsFiniteSet(files) /\ Cardinality(files) \in Nat
      BY <1>1, ArtifactsAre, FS_CardinalityType
    <3> HIDE DEF files
    <3>2. Cardinality(files) # 0
      BY <2>2, <3>1, FS_EmptySet
    <3>3. Cardinality(files) = 1
      BY <2>2, <3>1, <3>2
    <3> QED BY <3>1, <3>3, FS_Singleton
  <2>4. a \in files /\ Only(files) = a /\ input.funding = {a}
    BY <1>6, <2>1, <2>3, OnlyIs
  <2>5. /\ a.run \in Runs /\ Answering(a.run) /\ Whole(a.run)
        /\ ~ArtifactRaises(a.run, Output(r, "FUNDING"))
    BY <1>1, <2>4, ArtifactsAre
  <2>6. t \in Funded(a.run, r) /\ t \in SettledAt(a.run, r.symbol)
    <3>1. t \in Required(r, Funded(a.run, r))
      BY <2>2, <2>4
    <3>2. t \in Funded(a.run, r)
      BY <3>1 DEF Required
    <3> QED BY <2>5, <3>2, FundingIsWhole
  <2>7. KindAt(a.run, r, t) # "SPECIAL"
    <3>1. Output(r, "FUNDING").request = r /\ Output(r, "FUNDING").role = "FUNDING"
      BY DEF Output
    <3> QED BY <2>5, <2>6, <3>1 DEF ArtifactRaises
  <2>8. KindAt(a.run, r, t) \in {"MARKED", "UNMARKED"}
    BY <2>5, <2>6, <2>7, AnswersAre
  <2>9. CASE KindAt(a.run, r, t) = "UNMARKED"
    <3>1. t \in Unmarked(a.run, r, asked)
      BY <1>9, <2>9 DEF Unmarked
    <3>2. Cardinality(SupplementsFor(r, a.run, t)) = 1
      BY <2>2, <2>4, <3>1 DEF Unsupplemented
    <3>3. SupplementsFor(r, a.run, t) # {}
      BY <3>2, FS_EmptySet
    <3>4. PICK x : x \in SupplementsFor(r, a.run, t)
      BY <3>3
    <3>5. x.run = a.run /\ x.time = t
      BY <3>4 DEF SupplementsFor, Cached
    <3>6. x \in used
      BY <2>1, <2>4, <3>1, <3>4
    <3>7. a \in input.funding /\ x \in input.supplements
      BY <1>6, <2>4, <3>6
    <3> QED BY <1>6, <2>6, <3>5, <3>7 DEF Known
  <2>10. CASE KindAt(a.run, r, t) = "MARKED"
    BY <1>6, <2>4, <2>6, <2>10 DEF Known
  <2> QED BY <2>8, <2>9, <2>10
<1> HIDE DEF asked, files, used
<1>10. input.warned <=> \E x \in input.supplements : x.kind = "APPROXIMATE"
  BY <1>6
<1>11. ASSUME NEW entry \in Entries(r)
       PROVE  /\ entry .. LastExit(entry) \subseteq view[c.run].minutes[r.symbol]
              /\ \A t \in SettledAt(s.run, r.symbol) : entry < t /\ t < LastExit(entry) => Known(input, t)
  <2>1. ASSUME NEW t \in entry .. LastExit(entry) PROVE t \in view[c.run].minutes[r.symbol]
    <3>1. t \in Nat /\ Start(r) <= t /\ t < End(r)
      BY <1>7
    <3> QED BY <1>8, <3>1
  <2>2. ASSUME NEW t \in SettledAt(s.run, r.symbol), entry < t, t < LastExit(entry) PROVE Known(input, t)
    <3>1. t \in Nat
      BY <1>5, AnswersAre
    <3>2. Start(r) < t /\ t < End(r) - 1
      BY <1>7, <2>2, <3>1
    <3>3. t \in asked
      BY <1>5, <3>2 DEF Required
    <3> QED BY <1>9, <3>3
  <2> QED BY <2>1, <2>2
<1> QED BY <1>6, <1>10, <1>11 DEF Replayable, SettledAt, input

\* A finalized run, alone in its store, has the schedules of the windows there and,
\* of what it does not skip, one artifact each.
LEMMA FinalizedStoreIs ==
  ASSUME PrepInv, NEW run \in Runs, stage[run] = "RETURNED", AloneIn(run)
  PROVE  /\ schedules[StoreOf(run)] = {ScheduleFile(run, w) : w \in Plan.windows}
         /\ \A r \in Requests, role \in Paged :
              ~Skipped(run, Output(r, role)) =>
                ArtifactsFor(StoreOf(run), r, role) = {ArtifactFile(run, Output(r, role))}
<1> DEFINE store == StoreOf(run)
           n == Cardinality(Plan.windows)
<1>1. /\ accepted \in RequestSets /\ at[run] \in Nat /\ at[run] > Len(Plan.outputs) /\ store \in Stores
      /\ Whole(run) /\ Answering(run)
  BY DEF PrepInv, PrepTypes, StagesOK, StoreOf, Answering
<1>2. ASSUME NEW i \in 1 .. Len(Plan.outputs) PROVE WrittenOutput(run, i)
  <2>1. Len(Plan.outputs) \in Nat
    BY <1>1, OutputsAre
  <2>2. i < at[run]
    BY <1>1, <2>1
  <2> QED BY <2>2 DEF PrepInv, InTurn
<1>3. \A a \in Runs : StoreOf(a) = store => a = run
  BY DEF AloneIn
<1>4. ASSUME NEW s \in schedules[store] PROVE \E w \in Plan.windows : s = ScheduleFile(run, w)
  <2>1. WrittenSchedule(store, s)
    BY <1>1 DEF PrepInv, FilesOK
  <2>2. s.run = run
    BY <1>3, <2>1 DEF WrittenSchedule
  <2> QED BY <2>1, <2>2 DEF WrittenSchedule
<1>5. ASSUME NEW w \in Plan.windows PROVE ScheduleFile(run, w) \in schedules[store]
  <2>1. PICK i \in 1..n : Plan.outputs[i] = w
    BY <1>1, OutputsAre
  <2>2. i \in 1 .. Len(Plan.outputs) /\ i <= n
    BY <1>1, OutputsAre
  <2> QED BY <1>2, <2>1, <2>2 DEF WrittenOutput
<1>6. ASSUME NEW r \in Requests, NEW role \in Paged, ~Skipped(run, Output(r, role))
      PROVE  ArtifactsFor(store, r, role) = {ArtifactFile(run, Output(r, role))}
  <2> DEFINE o == Output(r, role)
             f == ArtifactFile(run, o)
  <2>1. f.request = r /\ f.role = role
    BY DEF ArtifactFile, Output
  <2>2. ASSUME NEW a \in ArtifactsFor(store, r, role) PROVE a = f
    <3>1. a.run \in Runs /\ StoreOf(a.run) = store /\ a = ArtifactFile(a.run, o)
      BY <1>1, ArtifactsAre
    <3> QED BY <1>3, <3>1
  <2>3. f \in ArtifactsFor(store, r, role)
    <3>1. PICK i \in 1 .. Len(Plan.outputs) : i > n /\ Plan.outputs[i] = o
      BY <1>1, OutputsAre
    <3>2. n \in Nat /\ ~(i <= n)
      BY <1>1, <3>1, OutputsAre
    <3>3. f \in artifacts[store]
      BY <1>2, <1>6, <3>1, <3>2 DEF WrittenOutput
    <3> QED BY <2>1, <3>3 DEF ArtifactsFor
  <2> QED BY <2>2, <2>3
<1> QED BY <1>4, <1>5, <1>6

LEMMA FinalizedMayStart ==
  ASSUME PrepInv, NEW run \in Runs, stage[run] = "RETURNED", AloneIn(run), run \notin harmed, AllMarked(run)
  PROVE  CanStart(StoreOf(run), StoreOf(run), run)
<1> DEFINE store == StoreOf(run)
           F(w) == ScheduleFile(run, w)
<1>1. /\ accepted \in RequestSets /\ store \in Stores /\ Whole(run) /\ Answering(run)
      /\ "CANDLE" \in Paged /\ "FUNDING" \in Paged
  BY DEF PrepInv, PrepTypes, StagesOK, StoreOf, Answering, Paged
<1>2. schedules[store] = {F(w) : w \in Plan.windows}
  BY FinalizedStoreIs
<1>3. \A w : F(w).symbol = w.symbol /\ F(w).start = w.start /\ F(w).end = w.end /\ F(w).run = run
  BY DEF ScheduleFile
<1>4. \A v, w : v.symbol = w.symbol /\ v.start = w.start /\ v.end = w.end => F(v) = F(w)
  BY DEF ScheduleFile
<1> HIDE DEF F
<1>5. ~BindingBroken(store, run)
  <2>1. ASSUME NEW s \in schedules[store], NEW t \in schedules[store], SameWindow(s, t) PROVE s = t
    <3>1. PICK v \in Plan.windows : s = F(v)
      BY <1>2
    <3>2. PICK w \in Plan.windows : t = F(w)
      BY <1>2
    <3> QED BY <1>3, <1>4, <2>1, <3>1, <3>2 DEF SameWindow
  <2>2. ASSUME NEW w \in Plan.windows PROVE \E s \in schedules[store] : SameWindow(s, w)
    <3>1. F(w) \in schedules[store] /\ SameWindow(F(w), w)
      BY <1>2, <1>3 DEF SameWindow
    <3> QED BY <3>1
  <2>3. \A s \in schedules[store] : s.run = run
    BY <1>2, <1>3
  <2> QED BY <2>1, <2>2, <2>3 DEF BindingBroken
<1>6. ASSUME NEW r \in Requests PROVE SchedulesFor(store, r) = {F(Covering(r))}
  <2>1. /\ Covering(r) \in Plan.windows /\ Covering(r).symbol = r.symbol
        /\ Covering(r).start <= Start(r) /\ End(r) <= Covering(r).end
        /\ Covering(r).start \in Nat /\ Covering(r).end \in Nat
    BY <1>1, CoveringIs
  <2>2. Start(r) \in Nat /\ End(r) \in Nat /\ Start(r) < End(r)
    <3>1. Start(r) \in Nat /\ End(r) \in Nat /\ Start(r) < End(r) - 1
      BY <1>1, RequestTimesAre
    <3> QED BY <3>1
  <2>3. F(Covering(r)) \in SchedulesFor(store, r)
    <3>1. F(Covering(r)) \in schedules[store]
      BY <1>2, <2>1
    <3> QED BY <1>3, <2>1, <3>1 DEF SchedulesFor
  <2>4. ASSUME NEW s \in SchedulesFor(store, r) PROVE s = F(Covering(r))
    <3>1. s \in schedules[store] /\ s.symbol = r.symbol /\ s.start <= Start(r) /\ End(r) <= s.end
      BY DEF SchedulesFor
    <3>2. PICK w \in Plan.windows : s = F(w)
      BY <1>2, <3>1
    <3>3. w.symbol = r.symbol /\ w.start <= Start(r) /\ End(r) <= w.end
      BY <1>3, <3>1, <3>2
    <3>4. w.start \in Nat /\ w.end \in Nat
      BY <1>1, PlanIs, ReportIsRequested, BoundariesAre
    <3>5. w = Covering(r) \/ w.end < Covering(r).start \/ Covering(r).end < w.start
      BY <1>1, <2>1, <3>3, PlanIs DEF WindowsFit
    <3>6. w = Covering(r)
      BY <2>1, <2>2, <3>3, <3>4, <3>5
    <3> QED BY <3>2, <3>6
  <2> QED BY <2>3, <2>4
<1>7. ASSUME NEW r \in Requests PROVE ScheduleIssues(store, r) = {}
  <2>1. Cardinality(SchedulesFor(store, r)) = 1
    BY <1>6, FS_Singleton
  <2> QED BY <2>1 DEF ScheduleIssues
<1>8. ASSUME NEW r \in Requests PROVE CandleIssues(store, r) = {}
  <2> DEFINE a == ArtifactFile(run, Output(r, "CANDLE"))
  <2>1. ~Skipped(run, Output(r, "CANDLE"))
    BY <1>1, SkippedIs
  <2>2. ArtifactsFor(store, r, "CANDLE") = {a} /\ a.run = run
    BY <1>1, <2>1, FinalizedStoreIs DEF ArtifactFile
  <2> HIDE DEF a
  <2>3. /\ ArtifactsFor(store, r, "CANDLE") # {} /\ Cardinality(ArtifactsFor(store, r, "CANDLE")) = 1
        /\ Only(ArtifactsFor(store, r, "CANDLE")).run = run
    BY <2>2, FS_Singleton, OnlyIs
  <2> QED BY <2>3 DEF CandleIssues
<1>9. ASSUME NEW r \in Requests PROVE FundingIssues(store, store, r) = {}
  <2> DEFINE D == SettledAt(run, r.symbol)
             a == ArtifactFile(run, Output(r, "FUNDING"))
             files == ArtifactsFor(store, r, "FUNDING")
  <2>1. Asked(store, r) = Required(r, D)
    <3>1. F(Covering(r)) \in SchedulesFor(store, r) /\ Only(SchedulesFor(store, r)) = F(Covering(r))
      BY <1>6, OnlyIs
    <3> QED BY <1>1, <1>3, <3>1, SchedulesAre DEF Asked
  <2>2. Required(r, Funded(run, r)) = Required(r, D)
    BY <1>1, FundingIsWhole
  <2>3. CASE Required(r, D) = {}
    BY <2>1, <2>3 DEF FundingIssues
  <2>4. CASE Required(r, D) # {}
    <3>1. ~Skipped(run, Output(r, "FUNDING"))
      BY <1>1, <2>4, SkippedIs
    <3>2. files = {a} /\ a.run = run
      BY <1>1, <3>1, FinalizedStoreIs DEF ArtifactFile
    <3> HIDE DEF a, files
    <3>3. files # {} /\ Cardinality(files) = 1 /\ Only(files).run = run
      BY <3>2, FS_Singleton, OnlyIs
    <3>4. Unsupplemented(r, run, Required(r, D)) = {}
      <4>1. ASSUME NEW t \in Unmarked(run, r, Required(r, D))
            PROVE  Cardinality(SupplementsFor(r, run, t)) = 1
        <5>1. t \in Required(r, DOMAIN view[run].settlements[r.symbol]) /\ KindAt(run, r, t) = "UNMARKED"
          BY DEF Unmarked, SettledAt
        <5>2. Cardinality({s \in supplements : s.request = r /\ s.run = run /\ s.time = t}) = 1
          BY <5>1 DEF AllMarked
        <5>3. SupplementsFor(r, run, t) = {s \in supplements : s.request = r /\ s.run = run /\ s.time = t}
          BY DEF SupplementsFor, Cached
        <5> QED BY <5>2, <5>3
      <4> QED BY <4>1 DEF Unsupplemented
    <3> QED BY <2>1, <2>2, <3>3, <3>4 DEF FundingIssues, files
  <2> QED BY <2>3, <2>4
<1>10. ASSUME NEW r \in Requests PROVE Issues(store, store, run, r) = {}
  BY <1>5, <1>7, <1>8, <1>9 DEF Issues
<1> QED BY <1>10 DEF CanStart

-----------------------------------------------------------------------------
(* ReplayPrep: the theorem *)

LEMMA PrepInvMeans == PrepInv => ReadyMeansReplayable
<1> SUFFICES ASSUME PrepInv PROVE ReadyMeansReplayable
  OBVIOUS
<1>1. ~Plan.raises
  BY PlanIs DEF PrepInv, PrepTypes
<1>2. ASSUME NEW m \in Stores, NEW f \in Stores, NEW run \in Runs, NEW input \in Ready(m, f, run)
      PROVE  Replayable(input)
  BY ReadyInputsReplay DEF Ready
<1>3. \A run \in Runs : stage[run] = "RAISED" => ~Answered(run)
  BY DEF PrepInv, StagesOK
<1>4. \A run \in Runs : stage[run] = "RETURNED" /\ AloneIn(run) /\ run \notin harmed /\ AllMarked(run) =>
        CanStart(StoreOf(run), StoreOf(run), run)
  BY FinalizedMayStart
<1> QED BY <1>1, <1>2, <1>3, <1>4 DEF ReadyMeansReplayable

\* The promise of the replay preflight, whatever requests a report accepts, whatever
\* the exchange answers and however runs, kills and supplements interleave: a plan
\* never raises, an input that prepare_dev_replay calls ready can be replayed, a
\* finalization raises only when something a request needs was not answered, and what
\* a run alone in its store has finalized is ready once every mark price is there.
THEOREM ReadyIsReplayable == PrepSpec => []ReadyMeansReplayable
<1>1. PrepInit => PrepInv
  BY PrepInvInit
<1>2. PrepInv /\ [PrepNext]_prepVars => PrepInv'
  BY PrepInvNext
<1>3. PrepInv => ReadyMeansReplayable
  BY PrepInvMeans
<1> QED BY <1>1, <1>2, <1>3, PTL DEF PrepSpec
=============================================================================
