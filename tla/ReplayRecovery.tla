--------------------------- MODULE ReplayRecovery ---------------------------
(***************************************************************************)
(* A consumer keeps a checkpoint of the reduced log of a replay, to which  *)
(* late entries may be appended. It is interrupted at any point and        *)
(* resumes by reducing a slice of the log that starts no later than the    *)
(* first event it has not applied: events may be delivered again, any      *)
(* number of times, but none is skipped.                                   *)
(***************************************************************************)
EXTENDS LateEntry

VARIABLE checkpoint      \* the ReducedReplayState the consumer has stored

Applied == Cardinality(checkpoint.applied)

ResumeWith(from, to) ==
  /\ stage = "RETURNED" /\ ~checkpoint.raised
  /\ checkpoint' = Reduce(checkpoint, SubSeq(events, from, to))
  /\ UNCHANGED vars

RecoveryInit == Init /\ checkpoint = Fresh

RecoveryNext ==
  \/ LateNext /\ UNCHANGED checkpoint
  \/ \E from, to \in 1 .. Len(events) : from <= Applied + 1 /\ ResumeWith(from, to)

RecoverySpec == RecoveryInit /\ [][RecoveryNext]_<<vars, checkpoint>>

\* A resumed reduction has the state an uninterrupted one has after the same
\* prefix of the log: a duplicate is never applied a second time, and no log the
\* replay returns is rejected, however it is cut. (Late entries may put a log out of
\* order; the property LateLogOrdered is about that.)
ResumeEqualsUninterrupted ==
  stage = "RETURNED" /\ LogOrdered => checkpoint = Reduce(Fresh, SubSeq(events, 1, Applied))

\* The whole log rebuilds the result of the replay.
RebuildsResult ==
  stage = "RETURNED" /\ Applied = Len(events) =>
    /\ checkpoint.lifecycle = IF position = "FLAT" THEN "CLOSED" ELSE signal
    /\ checkpoint.position = position
    /\ checkpoint.openFraction = openFraction
    /\ checkpoint.breakevenActive = breakevenActive
    /\ checkpoint.closedSeen = (position = "FLAT")
    /\ position = "FLAT" => checkpoint.terminalReason = events[Len(events)].reason
=============================================================================
