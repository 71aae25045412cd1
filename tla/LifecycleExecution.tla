------------------------- MODULE LifecycleExecution -------------------------
(***************************************************************************)
(* The remediation plan of a relisted symbol carried out on disk           *)
(* (research/lifecycle_real_execution.py with its script) and the lineage  *)
(* built over the result (research/lifecycle_replacement.py). Executors    *)
(* are processes of that script: one that is repeated after an error or a  *)
(* kill, or two at once. Meanwhile a source archive may be replaced by     *)
(* another one. The Parquet bytes of equal rows depend on the build that   *)
(* writes them. An immutable file is published in one step here; its own   *)
(* protocol is in RunPublication.                                          *)
(***************************************************************************)
EXTENDS LifecycleCutoff, Sequences

CONSTANTS
  Executors,
  Builds,
  MaxSwaps, MaxCrashes,   \* bounds
  Unplanned, Unpublished, Leftover

\* A derivative: the archives it came from, the buckets kept and who wrote it.
Outputs(builds) == [source : {"PLANNED", "CHANGED"}, kept : SUBSET Int, build : builds]

ASSUME ExecutionAssumption ==
  /\ Leftover \notin Executors
  /\ Unpublished \notin Outputs(Builds) /\ Unpublished \notin Outputs({"ANY"})

VARIABLES
  world,        \* what the exchange did
  remediation,  \* the plan: an action per interval, or Unplanned
  build,        \* of each executor
  sources,      \* each interval's archives: "PLANNED", or "CHANGED" since the audit
  step,         \* where each executor is
  turn,         \* the number of its action
  frame,        \* the archives its rows were read from
  staging,      \* the staging directory exists
  staged,       \* directories in it, by executor; Leftover of a killed one
  derivatives,  \* the published file of each interval, or Unpublished
  executions,   \* published receipts
  overlay,      \* published lineages
  swaps, crashes

given == <<world, remediation, build>>
running == <<step, turn, frame>>
scratch == <<staging, staged>>
published == <<derivatives, executions, overlay>>
events == <<swaps, crashes>>
lifecycleVars == <<given, sources, running, scratch, published, events>>

\* The actions are sorted by the name of their interval.
Turns == <<"15m", "1d", "1h", "4h">>
Interval(p) == Turns[turn[p]]
Primary(i) == Archives[world]["PRIMARY"][i]

\* An exclusion is JSON, the same of every build.
OutputOf(p, i, source) ==
  LET kept == Retained(remediation[i], Primary(i))
  IN  [source |-> source, kept |-> kept, build |-> IF kept = {} THEN "ANY" ELSE build[p]]

Goto(p, s) == step' = [step EXCEPT ![p] = s]

\* Audit and plan; an unresolved symbol gets no action.
PlanRemediation ==
  /\ remediation = Unplanned /\ Confirmed(world)
  /\ remediation' = RemediationPlan(world)
  /\ UNCHANGED <<world, build, sources, running, scratch, published, events>>

\* The authorization has a constant time: every run publishes the same one.
Authorize(p) ==
  /\ remediation # Unplanned /\ step[p] = "IDLE"
  /\ staging' = TRUE /\ turn' = [turn EXCEPT ![p] = 1] /\ Goto(p, "CHECK")
  /\ UNCHANGED <<given, sources, frame, staged, published, events>>

CheckArchive(p) ==
  /\ step[p] = "CHECK"
  /\ Goto(p, IF sources[Interval(p)] = "PLANNED" THEN "READ" ELSE "RAISING")
  /\ UNCHANGED <<given, sources, turn, frame, scratch, published, events>>

\* Faulty: the rows that were read are not compared with the plan.
RowsMatchFaulty(source) == TRUE

RowsMatch(source) == source = "PLANNED"

\* The file is opened again: it need not be the one whose hash was taken.
ReadRows(p) ==
  LET i == Interval(p)
      action == remediation[i]
  IN  /\ step[p] = "READ"
      /\ frame' = [frame EXCEPT ![p] = sources[i]]
      /\ Goto(p, IF ~RowsMatch(sources[i]) \/ DerivativeRaises(action, Primary(i), i) THEN "RAISING"
                 ELSE IF Retained(action, Primary(i)) = {} THEN "PUBLISH" ELSE "STAGE")
      /\ UNCHANGED <<given, sources, turn, scratch, published, events>>

\* The last one to leave may have removed the directory meanwhile.
StageOutput(p) ==
  /\ step[p] = "STAGE"
  /\ Goto(p, IF staging THEN "PUBLISH" ELSE "RAISING")
  /\ staged' = IF staging THEN staged \cup {p} ELSE staged
  /\ UNCHANGED <<given, sources, turn, frame, staging, published, events>>

\* An existing file must be equal: it is never replaced.
Agrees(i, output) == derivatives[i] \in {Unpublished, output}

PublishOutput(p) ==
  LET i == Interval(p)
      output == OutputOf(p, i, frame[p])
      agrees == Agrees(i, output)
      last == turn[p] = Len(Turns)
  IN  /\ step[p] = "PUBLISH"
      /\ derivatives' = IF agrees THEN [derivatives EXCEPT ![i] = output] ELSE derivatives
      /\ staged' = staged \ {p}
      /\ Goto(p, IF ~agrees THEN "RAISING" ELSE IF last THEN "LEAVING" ELSE "CHECK")
      /\ turn' = IF agrees /\ ~last THEN [turn EXCEPT ![p] = @ + 1] ELSE turn
      /\ UNCHANGED <<given, sources, frame, staging, executions, overlay, events>>

\* The finally clause looks into the staging directory, then removes it; what was
\* raised stays raised.
LookIntoStaging(p) ==
  /\ step[p] \in {"LEAVING", "RAISING"}
  /\ Goto(p, IF staging /\ staged = {}
             THEN IF step[p] = "LEAVING" THEN "REMOVING" ELSE "REMOVING_RAISED"
             ELSE IF step[p] = "LEAVING" THEN "RECEIPT" ELSE "IDLE")
  /\ UNCHANGED <<given, sources, turn, frame, scratch, published, events>>

\* Another executor may have removed the directory, or begun to use it: that raises.
RemoveStaging(p) ==
  LET succeeds == staging /\ staged = {}
  IN  /\ step[p] \in {"REMOVING", "REMOVING_RAISED"}
      /\ staging' = IF succeeds THEN FALSE ELSE staging
      /\ Goto(p, IF step[p] = "REMOVING" /\ succeeds THEN "RECEIPT" ELSE "IDLE")
      /\ UNCHANGED <<given, sources, turn, frame, staged, published, events>>

PublishReceipt(p) ==
  /\ step[p] = "RECEIPT"
  /\ executions' = executions \cup {[i \in Intervals |-> OutputOf(p, i, "PLANNED")]}
  /\ Goto(p, "IDLE")
  /\ UNCHANGED <<given, sources, turn, frame, scratch, derivatives, overlay, events>>

\* build_lifecycle_replacement_normalization: only a daily partition may be excluded.
PublishOverlay ==
  /\ \E receipt \in executions \ overlay :
       /\ \A i \in Intraday : receipt[i].kept # {}
       /\ overlay' = overlay \cup {receipt}
  /\ UNCHANGED <<given, sources, running, scratch, derivatives, executions, events>>

\* A killed executor leaves its staging directory.
Crash(p) ==
  /\ step[p] # "IDLE" /\ crashes < MaxCrashes /\ crashes' = crashes + 1
  /\ Goto(p, "IDLE")
  /\ staged' = IF p \in staged THEN (staged \ {p}) \cup {Leftover} ELSE staged
  /\ UNCHANGED <<given, sources, turn, frame, staging, published, swaps>>

\* The archive cache replaces an archive, or an operator puts the old one back.
SwapArchive ==
  /\ remediation # Unplanned /\ swaps < MaxSwaps /\ swaps' = swaps + 1
  /\ \E i \in Intervals :
       sources' = [sources EXCEPT ![i] = IF @ = "PLANNED" THEN "CHANGED" ELSE "PLANNED"]
  /\ UNCHANGED <<given, running, scratch, published, crashes>>

LifecycleInit ==
  /\ world \in Worlds /\ remediation = Unplanned
  /\ build \in [Executors -> Builds]
  /\ sources = [i \in Intervals |-> "PLANNED"]
  /\ step = [p \in Executors |-> "IDLE"] /\ turn = [p \in Executors |-> 1]
  /\ frame = [p \in Executors |-> "PLANNED"]
  /\ staging = FALSE /\ staged = {}
  /\ derivatives = [i \in Intervals |-> Unpublished]
  /\ executions = {} /\ overlay = {} /\ swaps = 0 /\ crashes = 0

ExecutionNext ==
  \/ PublishOverlay \/ SwapArchive
  \/ \E p \in Executors :
       \/ Authorize(p) \/ CheckArchive(p) \/ ReadRows(p) \/ StageOutput(p) \/ PublishOutput(p)
       \/ LookIntoStaging(p) \/ RemoveStaging(p) \/ PublishReceipt(p) \/ Crash(p)

LifecycleNext == PlanRemediation \/ ExecutionNext
LifecycleSpec == LifecycleInit /\ [][LifecycleNext]_lifecycleVars

----------------------------------------------------------------------------
(* Properties *)

\* Whenever the evidence confirms a relisting, whatever the exchange did once it halted
\* the old contract and however wrong the registered start is, the planned actions can
\* be carried out, what they retain holds trades of the new contract only, and of the
\* registered new contract no full bucket is lost.
OneContractIsRetained ==
  remediation # Unplanned =>
    \A i \in Intervals :
      LET kept == Retained(remediation[i], Primary(i))
      IN  /\ ~DerivativeRaises(remediation[i], Primary(i), i)
          /\ \A b \in kept : \A trade \in Primary(i)[b] : trade[1] = "NEW"
          /\ \A b \in DOMAIN Primary(i) : b >= world.registered => b \in kept

\* However executors are repeated, killed or run at once, with archives replaced under
\* them: a published derivative comes from the audited rows, there is one receipt at
\* most, it lists what is published, a lineage refers to it, and the staging directory
\* is gone when the last executor has left, unless one was killed.
OverlayIsBacked ==
  /\ \A i \in Intervals : derivatives[i] # Unpublished => derivatives[i].source = "PLANNED"
  /\ executions \subseteq {derivatives} /\ overlay \subseteq executions
  /\ staging /\ (\A p \in Executors : step[p] = "IDLE") => crashes > 0
=============================================================================
