--------------------------- MODULE RunPublication ---------------------------
(***************************************************************************)
(* reporting/run_manifest.py: a completed DEV run is published as a result *)
(* and a manifest that holds its hash, result first and manifest last, by  *)
(* processes that may run at once, be killed anywhere and be run again,    *)
(* and is read back by others. Both are linked into place, so a file is    *)
(* complete or absent and never replaces another. The directory is named   *)
(* by the manifest's hash, which binds the content of both files: a file   *)
(* is ABSENT, VALID or DAMAGED.                                            *)
(***************************************************************************)
EXTENDS Integers, Sequences, Functions

CONSTANTS
  Publishers,   \* processes in write_dev_run for one run
  Readers,      \* processes in read_dev_run of its directory
  MaxKills,     \* bound on kills of a publisher
  MaxHarm       \* bound on files damaged or deleted from outside

ASSUME PublicationAssumption == Publishers \cap Readers = {}

VARIABLES
  file,        \* result and manifest on disk
  pc,          \* where each process is
  kills, harm, \* bounds
  since,       \* harm when each process began
  found        \* readers that found a manifest

pubVars == <<file, pc, kills, harm, since, found>>

\* Faulty: the manifest is published before the result.
WriteStepsFaulty == <<"SeekManifest", "SeekResult", "CompareResult", "CompareManifest",
                      "LinkManifest", "LinkResult", "RETURNED">>

\* The steps of write_dev_run in their order.
WriteSteps == <<"SeekManifest", "SeekResult", "CompareResult", "CompareManifest",
                "LinkResult", "LinkManifest", "RETURNED">>

After(step) ==
  WriteSteps[1 + CHOOSE i \in 1 .. Len(WriteSteps) - 1 : WriteSteps[i] = step]

Proceed(p, step) == pc' = [pc EXCEPT ![p] = step]

Begin(p) ==
  /\ p \in Publishers /\ pc[p] \in {"IDLE", "RETURNED", "RAISED"}
  /\ Proceed(p, WriteSteps[1]) /\ since' = [since EXCEPT ![p] = harm]
  /\ UNCHANGED <<file, kills, harm, found>>

\* "completed run is missing result; refusing silent repair": two looks in a row.
SeekManifest(p) ==
  /\ pc[p] = "SeekManifest"
  /\ Proceed(p, IF file["manifest"] = "ABSENT" THEN "CompareResult" ELSE "SeekResult")
  /\ UNCHANGED <<file, kills, harm, since, found>>

SeekResult(p) ==
  /\ pc[p] = "SeekResult"
  /\ Proceed(p, IF file["result"] = "ABSENT" THEN "RAISED" ELSE "CompareResult")
  /\ UNCHANGED <<file, kills, harm, since, found>>

\* An existing file with other bytes is refused.
Compare(p, f, step) ==
  /\ pc[p] = step
  /\ Proceed(p, IF file[f] = "DAMAGED" THEN "RAISED" ELSE After(step))
  /\ UNCHANGED <<file, kills, harm, since, found>>

\* os.link of a complete file: where one exists already it must be the same.
PublishImmutable(p, f, step) ==
  /\ pc[p] = step
  /\ Proceed(p, IF file[f] = "DAMAGED" THEN "RAISED" ELSE After(step))
  /\ file' = [file EXCEPT ![f] = IF @ = "ABSENT" THEN "VALID" ELSE @]
  /\ UNCHANGED <<kills, harm, since, found>>

Kill(p) ==
  /\ p \in Publishers /\ kills < MaxKills /\ pc[p] \in Range(WriteSteps)
  /\ Proceed(p, "IDLE") /\ kills' = kills + 1
  /\ UNCHANGED <<file, harm, since, found>>

HarmFile(f, what) ==
  /\ harm < MaxHarm /\ file[f] # "ABSENT" /\ file[f] # what
  /\ file' = [file EXCEPT ![f] = what] /\ harm' = harm + 1
  /\ UNCHANGED <<pc, kills, since, found>>

BeginRead(p) ==
  /\ p \in Readers /\ pc[p] \in {"IDLE", "RETURNED", "RAISED"}
  /\ Proceed(p, "ReadManifest") /\ since' = [since EXCEPT ![p] = harm]
  /\ found' = found \ {p}
  /\ UNCHANGED <<file, kills, harm>>

ReadManifest(p) ==
  /\ pc[p] = "ReadManifest"
  /\ Proceed(p, IF file["manifest"] = "VALID" THEN "ReadResult" ELSE "RAISED")
  /\ found' = IF file["manifest"] = "ABSENT" THEN found ELSE found \cup {p}
  /\ UNCHANGED <<file, kills, harm, since>>

ReadResult(p) ==
  /\ pc[p] = "ReadResult"
  /\ Proceed(p, IF file["result"] = "VALID" THEN "RETURNED" ELSE "RAISED")
  /\ UNCHANGED <<file, kills, harm, since, found>>

PublicationInit ==
  /\ file = [f \in {"result", "manifest"} |-> "ABSENT"]
  /\ pc = [p \in Publishers \cup Readers |-> "IDLE"]
  /\ kills = 0 /\ harm = 0
  /\ since = [p \in Publishers \cup Readers |-> 0] /\ found = {}

WriteStep(p) ==
  \/ SeekManifest(p) \/ SeekResult(p)
  \/ Compare(p, "result", "CompareResult") \/ Compare(p, "manifest", "CompareManifest")
  \/ PublishImmutable(p, "result", "LinkResult")
  \/ PublishImmutable(p, "manifest", "LinkManifest")

PublicationNext ==
  \/ \E p \in Publishers : Begin(p) \/ WriteStep(p) \/ Kill(p)
  \/ \E p \in Readers : BeginRead(p) \/ ReadManifest(p) \/ ReadResult(p)
  \/ \E f \in DOMAIN file, what \in {"ABSENT", "DAMAGED"} : HarmFile(f, what)

PublicationSpec == PublicationInit /\ [][PublicationNext]_pubVars

----------------------------------------------------------------------------
(* Properties *)

\* A manifest is the last thing a run writes (docstring of write_dev_run): as long
\* as nobody damages or deletes a file, whoever finds a manifest finds its result,
\* at every moment of any number of publishers and kills, no publisher is refused,
\* and a reader that found the manifest returns. Whatever was damaged before, a
\* publisher or a reader that returns leaves or has read both files intact.
ManifestComesLast ==
  /\ harm = 0 =>
       /\ file["manifest"] # "ABSENT" => file["result"] = "VALID"
       /\ \A p \in Publishers : pc[p] # "RAISED"
       /\ \A p \in found : pc[p] # "RAISED"
  /\ \A p \in Publishers \cup Readers :
       pc[p] = "RETURNED" /\ since[p] = harm => \A f \in DOMAIN file : file[f] = "VALID"
=============================================================================
