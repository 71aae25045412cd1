----------------------------- MODULE BatchReplay -----------------------------
(***************************************************************************)
(* run_replay_batch of research/batch_replay.py: the cases of a plan are   *)
(* replayed group by group (one candidate under one cost scenario), every  *)
(* outcome is published as an immutable file named by its hash and then    *)
(* recorded in a checkpoint that the next run resumes from. A run may be   *)
(* killed between any two steps, repeated with another scope or with       *)
(* changed inputs, and find its files lost or damaged.                     *)
(*                                                                         *)
(* A file write is one step: both writers build a temporary file and       *)
(* publish it by link or rename, so no reader sees half of it.             *)
(***************************************************************************)
EXTENDS Integers, FiniteSets

CONSTANTS
  Cases,          \* numbers, in the order in which the scheduler takes a group
  Groups,         \* numbers, in the order in which the run takes them
  GroupOf,        \* the group of each case
  Blocks,         \* pairs of cases: the first trade, if executed, blocks the second
  Versions,       \* what execution_hash identifies: code, inputs, parameters
  MaxBatchKills, MaxHarm   \* bounds on crashes and on files lost or damaged

ASSUME BatchAssumption ==
  /\ Cases \subseteq Nat /\ Groups \subseteq Nat /\ IsFiniteSet(Cases) /\ IsFiniteSet(Groups)
  /\ GroupOf \in [Cases -> Groups]
  /\ Blocks \subseteq {p \in Cases \X Cases : p[1] < p[2] /\ GroupOf[p[1]] = GroupOf[p[2]]}
  /\ MaxBatchKills \in Nat /\ MaxHarm \in Nat

Statuses == {"EXECUTED", "SKIPPED_ACTIVE_TRADE"}
NoGroup == -1
Members(g) == {c \in Cases : GroupOf[c] = g}

\* replay_cases over a set of cases of one group.
Replayed(S) ==
  LET status[c \in S] ==
        IF \E b \in S : <<b, c>> \in Blocks /\ status[b] = "EXECUTED"
        THEN "SKIPPED_ACTIVE_TRADE" ELSE "EXECUTED"
  IN  status

VARIABLES
  phase,        \* "IDLE", "RUNNING" or "RETURNED"
  scope,        \* groups of the current run
  version,      \* version of the current run
  recorded,     \* checkpoint entries in memory
  group,        \* group being worked on, NoGroup between groups
  replayed,     \* status of each case of the group, << >> when it failed
  published,    \* cases of the group whose result is written but not recorded
  saved,        \* checkpoint file: entries, none before the first run
  files,        \* result files: "ABSENT", "VALID" or "DAMAGED"
  killed, harm

batchVars == <<phase, scope, version, recorded, group, replayed, published, saved, files,
               killed, harm>>

\* A result file is named by the hash of its content.
FileIds == [case : Cases, version : Versions, status : Statuses]
Entries == [state : {"COMPLETE"}, version : Versions, status : Statuses]
             \cup [state : {"FAILED"}, version : Versions, status : {"NONE"}]
FileOf(c, e) == [case |-> c, version |-> e.version, status |-> e.status]

InScope(c) == GroupOf[c] \in scope
SavedResultIsValid(c, e) == files[FileOf(c, e)] = "VALID"

Completed(v, s) == [state |-> "COMPLETE", version |-> v, status |-> s]

Failed(v) == [state |-> "FAILED", version |-> v, status |-> "NONE"]

Put(c, e) == [d \in DOMAIN recorded \cup {c} |-> IF d = c THEN e ELSE recorded[d]]

----------------------------------------------------------------------------
\* Faulty: an entry is trusted without reading the file it names.
ReusableFaulty(c, sc, v) ==
  /\ c \in DOMAIN saved /\ GroupOf[c] \in sc
  /\ saved[c].state = "COMPLETE" /\ saved[c].version = v

Reusable(c, sc, v) ==
  /\ c \in DOMAIN saved /\ GroupOf[c] \in sc
  /\ saved[c].state = "COMPLETE" /\ saved[c].version = v
  /\ SavedResultIsValid(c, saved[c])

\* Faulty: the run starts its checkpoint anew.
StartBatchFaulty(sc, v) ==
  LET kept == [c \in {d \in Cases : Reusable(d, sc, v)} |-> saved[c]]
  IN  /\ phase # "RUNNING" /\ sc # {}
      /\ phase' = "RUNNING" /\ scope' = sc /\ version' = v
      /\ recorded' = kept /\ saved' = << >>
      /\ group' = NoGroup /\ replayed' = << >> /\ published' = {}
      /\ UNCHANGED <<files, killed, harm>>

\* The entries worth keeping are read and written back at once: being killed
\* before the write leaves everything as it was.
StartBatch(sc, v) ==
  LET kept == [c \in {d \in Cases : Reusable(d, sc, v)} |-> saved[c]]
  IN  /\ phase # "RUNNING" /\ sc # {}
      /\ phase' = "RUNNING" /\ scope' = sc /\ version' = v
      /\ recorded' = kept /\ saved' = kept
      /\ group' = NoGroup /\ replayed' = << >> /\ published' = {}
      /\ UNCHANGED <<files, killed, harm>>

PendingIn(g) == {c \in Members(g) : c \notin DOMAIN recorded}

\* Faulty: a group with a finished case counts as finished.
GroupsLeftFaulty == {g \in scope : PendingIn(g) = Members(g)}

GroupsLeft == {g \in scope : PendingIn(g) # {}}
IsNextGroup(g) == g \in GroupsLeft /\ \A h \in GroupsLeft : g <= h

\* Faulty: only the cases that are still pending are replayed.
ReplayGroupFaulty(g) ==
  /\ phase = "RUNNING" /\ group = NoGroup /\ IsNextGroup(g)
  /\ group' = g /\ replayed' = Replayed(PendingIn(g))
  /\ UNCHANGED <<phase, scope, version, recorded, published, saved, files, killed, harm>>

\* The whole group is loaded and replayed, the cases already COMPLETE included.
ReplayGroup(g) ==
  /\ phase = "RUNNING" /\ group = NoGroup /\ IsNextGroup(g)
  /\ group' = g /\ replayed' = Replayed(Members(g))
  /\ UNCHANGED <<phase, scope, version, recorded, published, saved, files, killed, harm>>

\* An input of the group cannot be loaded, or a replay of the group raises.
FailGroup(g) ==
  /\ phase = "RUNNING" /\ group = NoGroup /\ IsNextGroup(g)
  /\ group' = g /\ replayed' = << >>
  /\ UNCHANGED <<phase, scope, version, recorded, published, saved, files, killed, harm>>

GroupFailed == replayed = << >>
IsNextCase(c) ==
  /\ phase = "RUNNING" /\ group # NoGroup
  /\ c \in PendingIn(group) /\ \A d \in PendingIn(group) : c <= d

Record(c, e) ==
  /\ recorded' = Put(c, e) /\ saved' = Put(c, e)
  /\ group' = IF PendingIn(group) = {c} THEN NoGroup ELSE group
  /\ replayed' = IF PendingIn(group) = {c} THEN << >> ELSE replayed
  /\ published' = {}

RecordGroupFailure(c) ==
  /\ IsNextCase(c) /\ GroupFailed
  /\ Record(c, Failed(version))
  /\ UNCHANGED <<phase, scope, version, files, killed, harm>>

\* Funding is missing for the case, or its result fails validation.
ResultFails(c) ==
  /\ IsNextCase(c) /\ ~GroupFailed /\ c \notin published
  /\ Record(c, Failed(version))
  /\ UNCHANGED <<phase, scope, version, files, killed, harm>>

ResultOf(c) == Completed(version, replayed[c])

\* The file is new or already has the same content.
Publish(c) ==
  /\ IsNextCase(c) /\ ~GroupFailed /\ c \notin published
  /\ files[FileOf(c, ResultOf(c))] # "DAMAGED"
  /\ files' = [files EXCEPT ![FileOf(c, ResultOf(c))] = "VALID"]
  /\ published' = {c}
  /\ UNCHANGED <<phase, scope, version, recorded, group, replayed, saved, killed, harm>>

\* "existing run artifact changed": the damaged file stays, the case fails.
PublishRefused(c) ==
  /\ IsNextCase(c) /\ ~GroupFailed /\ c \notin published
  /\ files[FileOf(c, ResultOf(c))] = "DAMAGED"
  /\ Record(c, Failed(version))
  /\ UNCHANGED <<phase, scope, version, files, killed, harm>>

RecordResult(c) ==
  /\ IsNextCase(c) /\ ~GroupFailed /\ c \in published
  /\ Record(c, ResultOf(c))
  /\ UNCHANGED <<phase, scope, version, files, killed, harm>>

ReturnCheckpoint ==
  /\ phase = "RUNNING" /\ group = NoGroup /\ GroupsLeft = {}
  /\ phase' = "RETURNED"
  /\ UNCHANGED <<scope, version, recorded, group, replayed, published, saved, files,
                 killed, harm>>

\* The process dies, or a write of the checkpoint raises: memory is lost.
KillBatch ==
  /\ phase = "RUNNING" /\ killed < MaxBatchKills
  /\ phase' = "IDLE" /\ recorded' = << >> /\ group' = NoGroup /\ replayed' = << >>
  /\ published' = {} /\ killed' = killed + 1
  /\ UNCHANGED <<scope, version, saved, files, harm>>

\* Outside the program, between two runs: a result file is lost or damaged.
HarmFile(f, what) ==
  /\ phase # "RUNNING" /\ harm < MaxHarm /\ files[f] = "VALID"
  /\ files' = [files EXCEPT ![f] = what]
  /\ phase' = "IDLE" /\ recorded' = << >> /\ harm' = harm + 1
  /\ UNCHANGED <<scope, version, group, replayed, published, saved, killed>>

----------------------------------------------------------------------------
BatchInit ==
  /\ phase = "IDLE" /\ scope = {} /\ version \in Versions
  /\ recorded = << >> /\ group = NoGroup /\ replayed = << >> /\ published = {}
  /\ saved = << >> /\ files = [f \in FileIds |-> "ABSENT"]
  /\ killed = 0 /\ harm = 0

BatchStep ==
  \/ \E g \in Groups : ReplayGroup(g) \/ FailGroup(g)
  \/ \E c \in Cases : \/ RecordGroupFailure(c) \/ ResultFails(c)
                      \/ Publish(c) \/ PublishRefused(c) \/ RecordResult(c)
  \/ ReturnCheckpoint

BatchNext ==
  \/ \E sc \in SUBSET Groups, v \in Versions : StartBatch(sc, v)
  \/ BatchStep
  \/ KillBatch
  \/ \E f \in FileIds, what \in {"ABSENT", "DAMAGED"} : HarmFile(f, what)

BatchSpec == BatchInit /\ [][BatchNext]_batchVars

\* A run is a loop that nothing blocks; starting one is left to its user.
BatchFairSpec == BatchSpec /\ WF_batchVars(BatchStep)

----------------------------------------------------------------------------
IsPartial(f) == DOMAIN f \subseteq Cases /\ \A c \in DOMAIN f : f[c] \in Entries

\* Every variable stays in the range the code's fields have.
BatchTypeOK ==
  /\ phase \in {"IDLE", "RUNNING", "RETURNED"}
  /\ scope \subseteq Groups /\ version \in Versions
  /\ IsPartial(recorded) /\ IsPartial(saved)
  /\ group \in Groups \cup {NoGroup} /\ published \subseteq Cases
  /\ DOMAIN replayed \subseteq Cases /\ \A c \in DOMAIN replayed : replayed[c] \in Statuses
  /\ files \in [FileIds -> {"ABSENT", "VALID", "DAMAGED"}]
  /\ killed \in 0 .. MaxBatchKills /\ harm \in 0 .. MaxHarm

IsComplete(c) == c \in DOMAIN saved /\ saved[c].state = "COMPLETE"

\* While a run works and when it returns, every COMPLETE entry of the checkpoint
\* has its result file, intact, whatever was killed or damaged before; and the
\* checkpoint answers for this run only, not for another scope or other inputs.
CompleteHasResult ==
  phase # "IDLE" =>
    \A c \in DOMAIN saved :
       /\ InScope(c) /\ saved[c].version = version
       /\ IsComplete(c) => SavedResultIsValid(c, saved[c])

\* A result is what the replay of its whole group says, also when the group was
\* finished in pieces over several runs: a resumed run never loses the trade
\* that blocks a later signal.
ResumeEqualsUninterrupted ==
  \A f \in FileIds : files[f] # "ABSENT" => f.status = Replayed(Members(GroupOf[f.case]))[f.case]

Finished(c) == IsComplete(c) /\ SavedResultIsValid(c, saved[c])

\* Progress survives kills, restarts and failures of other cases: a finished case
\* is done again only if the run excludes it, has other inputs, or its file is harmed.
ProgressKept ==
  [][\A c \in Cases :
       Finished(c) /\ (phase' # "RUNNING" \/ (GroupOf[c] \in scope' /\ version' = saved[c].version))
         => Finished(c)' \/ harm' # harm]_batchVars

\* A run that is not killed returns, with an entry for every case in its scope.
RunReturns ==
  phase = "RUNNING" ~>
    \/ phase = "IDLE"
    \/ phase = "RETURNED" /\ DOMAIN saved = {c \in Cases : InScope(c)}
=============================================================================
