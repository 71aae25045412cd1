-------------------------- MODULE ReplayCheckpoint --------------------------
(***************************************************************************)
(* The checkpoint of a replay over a manifest of ready inputs and the plan *)
(* that resumes it (build_resume_plan, update_replay_checkpoint and        *)
(* write_replay_checkpoint of research/replay_prep.py). A manifest gives   *)
(* each ready request its input; it is replaced when the preparation runs  *)
(* again. Whatever executes the plan reports one outcome at a time, may be *)
(* killed between two, and asks for a new plan when it starts.             *)
(***************************************************************************)
EXTENDS Integers, FiniteSets, Functions

CONSTANTS
  Manifests,      \* functions from ready requests to inputs
  MaxManifests,   \* bound on preparations
  NoPlan, NoCheckpoint

ManifestRequests == UNION {DOMAIN m : m \in Manifests}
ManifestInputs == UNION {{m[r] : r \in DOMAIN m} : m \in Manifests}
Checkpoints ==
  [manifest : Manifests,
   entries : UNION {[R -> [input : ManifestInputs, state : {"COMPLETE", "FAILED"}]] :
                      R \in SUBSET ManifestRequests}]

ASSUME CheckpointAssumption ==
  (\A m \in Manifests : IsFiniteSet(DOMAIN m)) /\ NoCheckpoint \notin Checkpoints

VARIABLES
  manifest,       \* the current manifest
  checkpoint,     \* on disk: [manifest, entries], or NoCheckpoint
  resume,         \* the plan being followed, or NoPlan
  done,           \* requests of the plan reported complete so far
  preparations    \* bound

checkpointVars == <<manifest, checkpoint, resume, done, preparations>>

EntriesOf(c) == IF c = NoCheckpoint THEN << >> ELSE c.entries

\* Some request the checkpoint knows has another input now.
InputChanged(c, m) ==
  \E r \in DOMAIN EntriesOf(c) \cap DOMAIN m : EntriesOf(c)[r].input # m[r]

Fresh(c, m) == c = NoCheckpoint \/ (c.manifest # m /\ ~InputChanged(c, m))

\* build_resume_plan
Completed(c, m) ==
  IF Fresh(c, m) THEN {}
  ELSE {r \in DOMAIN m \cap DOMAIN EntriesOf(c) :
          EntriesOf(c)[r] = [input |-> m[r], state |-> "COMPLETE"]}

Invalidated(c, m) ==
  {r \in DOMAIN m \cap DOMAIN EntriesOf(c) : Fresh(c, m) \/ EntriesOf(c)[r].input # m[r]}

PriorFailures(c, m) ==
  IF Fresh(c, m) THEN {} ELSE {r \in DOMAIN EntriesOf(c) : EntriesOf(c)[r].state = "FAILED"}

ResumePlan(c, m) ==
  [completed |-> Completed(c, m), pending |-> DOMAIN m \ Completed(c, m),
   invalidated |-> Invalidated(c, m), failures |-> PriorFailures(c, m)]

\* Faulty: only entries recorded under this very manifest are kept.
KeptFaulty(c, m) ==
  IF c = NoCheckpoint \/ c.manifest # m THEN {}
  ELSE {r \in DOMAIN EntriesOf(c) \cap DOMAIN m : EntriesOf(c)[r].input = m[r]}

Kept(c, m) ==
  IF Fresh(c, m) THEN {}
  ELSE {r \in DOMAIN EntriesOf(c) \cap DOMAIN m : EntriesOf(c)[r].input = m[r]}

\* update_replay_checkpoint
Updated(c, m, r, state) ==
  [manifest |-> m,
   entries |-> [q \in Kept(c, m) \cup {r} |->
                  IF q = r THEN [input |-> m[r], state |-> state] ELSE EntriesOf(c)[q]]]

InState(c, state) == {r \in DOMAIN EntriesOf(c) : EntriesOf(c)[r].state = state}

Status(c) ==
  LET requests == DOMAIN c.manifest
  IN  IF Cardinality(InState(c, "COMPLETE")) = Cardinality(requests) THEN "COMPLETE"
      ELSE IF Cardinality(InState(c, "FAILED")) = Cardinality(requests) THEN "FAILED"
      ELSE "PARTIAL"

Preflight ==
  /\ resume = NoPlan
  /\ resume' = ResumePlan(checkpoint, manifest) /\ done' = {}
  /\ UNCHANGED <<manifest, checkpoint, preparations>>

\* One outcome is recorded and the file replaced; a failed request may be retried.
Report(r, state) ==
  /\ resume # NoPlan /\ r \in resume.pending \ done
  /\ checkpoint' = Updated(checkpoint, manifest, r, state)
  /\ done' = IF state = "COMPLETE" THEN done \cup {r} ELSE done
  /\ UNCHANGED <<manifest, resume, preparations>>

\* Killed before the file is replaced: what was not recorded is lost.
Stop ==
  /\ resume # NoPlan
  /\ resume' = NoPlan /\ done' = {}
  /\ UNCHANGED <<manifest, checkpoint, preparations>>

PrepareAgain ==
  /\ resume = NoPlan /\ preparations < MaxManifests
  /\ manifest' \in Manifests \ {manifest} /\ preparations' = preparations + 1
  /\ UNCHANGED <<checkpoint, resume, done>>

CheckpointInit ==
  /\ manifest \in Manifests /\ checkpoint = NoCheckpoint
  /\ resume = NoPlan /\ done = {} /\ preparations = 0

CheckpointNext ==
  \/ Preflight \/ Stop \/ PrepareAgain
  \/ \E r \in DOMAIN manifest, state \in {"COMPLETE", "FAILED"} : Report(r, state)

CheckpointSpec == CheckpointInit /\ [][CheckpointNext]_checkpointVars

----------------------------------------------------------------------------
(* Properties *)

\* Nothing is reused that was computed from another input, and nothing more has to
\* be done than the plan says: the results it counts as completed stay in the
\* checkpoint under every report, so that the checkpoint is complete, each result
\* of the current input, exactly when the last pending request is. What was
\* invalidated is pending again, and a retried plan asks for less.
FollowingThePlanCompletes ==
  resume # NoPlan =>
    LET entries == EntriesOf(checkpoint)
    IN  /\ \A r \in resume.completed \cup done :
             r \in DOMAIN entries /\ entries[r] = [input |-> manifest[r], state |-> "COMPLETE"]
        /\ resume.invalidated \subseteq resume.pending
        /\ done # {} =>
             /\ checkpoint.manifest = manifest
             /\ Status(checkpoint) = "COMPLETE" <=> done = resume.pending
             /\ ResumePlan(checkpoint, manifest).pending = resume.pending \ done
             /\ ResumePlan(checkpoint, manifest).invalidated = {}
=============================================================================
