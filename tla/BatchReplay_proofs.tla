------------------------- MODULE BatchReplay_proofs -------------------------
(***************************************************************************)
(* The checkpoint and the result files of BatchReplay, for any plan, any   *)
(* sequence of runs, any number of kills and of damaged files.             *)
(***************************************************************************)
EXTENDS BatchReplay, Sequences, FoldTheorems

(* Finite sets of natural numbers *)

\* A finite set of natural numbers is bounded.
LEMMA FiniteIsBounded ==
  ASSUME NEW S \in SUBSET Nat, IsFiniteSet(S)
  PROVE  \E n \in Nat : \A s \in S : s < n
<1>0. PICK len \in Nat : ExistsSurjection(1 .. len, S)
  BY FS_NatSurjection
<1>1. PICK f \in [1 .. len -> S] : \A s \in S : \E i \in 1 .. len : f[i] = s
  BY <1>0 DEF ExistsSurjection, Surjection
<1> DEFINE Bounded(k) == \E n \in Nat : \A i \in 1 .. len : i <= k => f[i] < n
           B == {k \in Nat : Bounded(k)}
<1>2. B \in SUBSET Nat /\ \A k \in Nat : k \in B <=> Bounded(k)
  OBVIOUS
<1>3. Bounded(0)
  OBVIOUS
<1>4. ASSUME NEW k \in Nat, Bounded(k)
      PROVE  Bounded(k + 1)
  <2>1. PICK n \in Nat : \A i \in 1 .. len : i <= k => f[i] < n
    BY <1>4
  <2>2. CASE k + 1 \in 1 .. len
    <3>1. f[k + 1] \in Nat
      BY <2>2
    <3>2. PICK m \in Nat : n <= m /\ f[k + 1] < m
      <4>1. n + f[k + 1] + 1 \in Nat /\ n <= n + f[k + 1] + 1 /\ f[k + 1] < n + f[k + 1] + 1
        BY <3>1
      <4> QED BY <4>1
    <3>3. ASSUME NEW i \in 1 .. len, i <= k + 1
          PROVE  f[i] < m
      <4>1. f[i] \in Nat
        BY <3>3
      <4>2. i = k + 1 \/ i <= k
        <5>1. i \in Nat
          BY <3>3
        <5> QED BY <3>3, <5>1
      <4> QED BY <2>1, <3>2, <4>1, <4>2
    <3> QED BY <3>3
  <2>3. CASE k + 1 \notin 1 .. len
    <3>1. \A i \in 1 .. len : i <= k + 1 => i <= k
      BY <2>3
    <3> QED BY <2>1, <3>1
  <2> QED BY <2>2, <2>3
<1> HIDE DEF B
<1>5. B = Nat
  <2>1. 0 \in B
    BY <1>2, <1>3
  <2>2. \A k \in B : k + 1 \in B
    <3> HIDE DEF Bounded
    <3> QED BY <1>2, <1>4
  <2> QED BY <1>2, <2>1, <2>2, AllNumbers
<1>6. Bounded(len)
  <2> HIDE DEF Bounded
  <2> QED BY <1>2, <1>5
<1>7. PICK n \in Nat : \A i \in 1 .. len : i <= len => f[i] < n
  BY <1>6
<1>8. ASSUME NEW s \in S
      PROVE  s < n
  <2>1. PICK i \in 1 .. len : f[i] = s
    BY <1>1
  <2> QED BY <1>7, <2>1
<1> QED BY <1>8

(* The replay of a group *)

\* The status of each case, from the statuses of the cases before it.
StatusFrom(S, f) ==
  [c \in S |-> IF \E b \in S : <<b, c>> \in Blocks /\ f[b] = "EXECUTED"
               THEN "SKIPPED_ACTIVE_TRADE" ELSE "EXECUTED"]

Solves(S, f, n) == \A c \in S : c < n => f[c] = StatusFrom(S, f)[c]

LEMMA SolvedOneFurther ==
  ASSUME NEW S \in SUBSET Cases, NEW n \in Nat, NEW f \in [S -> Statuses], Solves(S, f, n)
  PROVE  \E g \in [S -> Statuses] : Solves(S, g, n + 1)
<1>0. Cases \subseteq Nat /\ \A b, c \in S : <<b, c>> \in Blocks => b < c
  BY BatchAssumption
<1>1. CASE n \in S
  <2> DEFINE g == [f EXCEPT ![n] = StatusFrom(S, f)[n]]
  <2>1. g \in [S -> Statuses] /\ g[n] = StatusFrom(S, f)[n]
        /\ \A c \in S : c # n => g[c] = f[c]
    BY <1>1 DEF StatusFrom, Statuses
  <2> HIDE DEF g
  <2>2. \A c \in S : c <= n => StatusFrom(S, g)[c] = StatusFrom(S, f)[c]
    <3>1. ASSUME NEW c \in S, c <= n
          PROVE  \A b \in S : <<b, c>> \in Blocks => g[b] = f[b]
      BY <1>0, <2>1, <3>1
    <3> QED BY <3>1 DEF StatusFrom
  <2>3. ASSUME NEW c \in S, c < n + 1
        PROVE  g[c] = StatusFrom(S, g)[c]
    <3>1. c \in Nat /\ (c = n \/ (c # n /\ c < n)) /\ c <= n
      BY <1>0, <2>3
    <3> QED BY <2>1, <2>2, <3>1 DEF Solves
  <2> QED BY <2>1, <2>3 DEF Solves
<1>2. CASE n \notin S
  <2>1. \A c \in S : c < n + 1 => c < n
    BY <1>0, <1>2
  <2> QED BY <2>1 DEF Solves
<1> QED BY <1>1, <1>2

\* replay_cases gives every case of the group its status.
LEMMA ReplayedType ==
  ASSUME NEW S \in SUBSET Cases
  PROVE  Replayed(S) \in [S -> Statuses]
<1> DEFINE Solved(n) == \E f \in [S -> Statuses] : Solves(S, f, n)
           N == {n \in Nat : Solved(n)}
<1>1. N \in SUBSET Nat /\ \A n \in Nat : n \in N <=> Solved(n)
  OBVIOUS
<1>2. Solved(0)
  <2>1. [c \in S |-> "EXECUTED"] \in [S -> Statuses]
    BY DEF Statuses
  <2>2. \A c \in S : ~(c < 0)
    BY BatchAssumption
  <2> QED BY <2>1, <2>2 DEF Solves
<1>3. \A n \in Nat : Solved(n) => Solved(n + 1)
  BY SolvedOneFurther
<1>4. N = Nat
  <2> HIDE DEF N, Solved
  <2> QED BY <1>1, <1>2, <1>3, AllNumbers
<1>5. PICK n \in Nat : \A c \in S : c < n
  <2>1. PICK n \in Nat : \A c \in Cases : c < n
    BY BatchAssumption, FiniteIsBounded
  <2> QED BY <2>1
<1>6. PICK f \in [S -> Statuses] : Solves(S, f, n)
  <2>1. Solved(n)
    <3> HIDE DEF Solved
    <3> QED BY <1>1, <1>4
  <2> QED BY <2>1
<1>7. f = StatusFrom(S, f)
  <2>1. \A c \in S : f[c] = StatusFrom(S, f)[c]
    BY <1>5, <1>6 DEF Solves
  <2> QED BY <2>1 DEF StatusFrom
<1>8. Replayed(S) = CHOOSE g : g = StatusFrom(S, g)
  BY DEF Replayed, StatusFrom
<1>9. Replayed(S) = StatusFrom(S, Replayed(S))
  BY <1>7, <1>8
<1> QED BY <1>9 DEF StatusFrom, Statuses

(* The inductive invariant *)

\* What a run knows of a group exists only while it works on it.
Resting ==
  /\ phase # "RUNNING" => group = NoGroup
  /\ group = NoGroup => replayed = << >> /\ published = {}

\* What the run remembers is what it has written.
Saved == phase = "RUNNING" => saved = recorded

\* The group being worked on is in scope, replayed as a whole or failed.
Whole ==
  group # NoGroup =>
    group \in scope /\ (replayed = << >> \/ replayed = Replayed(Members(group)))

\* The file that has been published but not recorded.
Unrecorded ==
  \A c \in published :
    /\ group # NoGroup /\ c \in Members(group) /\ replayed # << >>
    /\ files[FileOf(c, ResultOf(c))] = "VALID"

IInv ==
  /\ BatchTypeOK /\ Resting /\ Saved /\ Whole /\ Unrecorded
  /\ CompleteHasResult /\ ResumeEqualsUninterrupted

LEMMA GroupIsReal ==
  ASSUME NEW g \in Groups
  PROVE  g # NoGroup /\ Members(g) \in SUBSET Cases /\ \A c \in Members(g) : GroupOf[c] = g
BY BatchAssumption DEF NoGroup, Members

LEMMA EntryKinds ==
  ASSUME NEW v \in Versions
  PROVE  /\ Failed(v) \in Entries /\ Failed(v).state = "FAILED" /\ Failed(v).version = v
         /\ \A s \in Statuses : /\ Completed(v, s) \in Entries
                                /\ Completed(v, s).version = v /\ Completed(v, s).status = s
BY DEF Failed, Completed, Entries

LEMMA FileIsNamed ==
  ASSUME NEW c \in Cases, NEW e \in Entries, e.state = "COMPLETE"
  PROVE  FileOf(c, e) \in FileIds
BY DEF FileOf, FileIds, Entries, Statuses

LEMMA PutEntry ==
  ASSUME BatchTypeOK, NEW c \in Cases, NEW e \in Entries
  PROVE  /\ IsPartial(Put(c, e)) /\ DOMAIN Put(c, e) = DOMAIN recorded \cup {c}
         /\ Put(c, e)[c] = e
         /\ \A d \in DOMAIN recorded : d # c => Put(c, e)[d] = recorded[d]
BY DEF Put, IsPartial, BatchTypeOK

\* The result of the next case of a replayed group.
LEMMA NextResult ==
  ASSUME IInv, NEW c \in Cases, IsNextCase(c), ~GroupFailed
  PROVE  /\ group \in Groups /\ group \in scope /\ c \in Members(group) /\ GroupOf[c] = group
         /\ replayed[c] \in Statuses /\ replayed[c] = Replayed(Members(GroupOf[c]))[c]
         /\ ResultOf(c) \in Entries /\ ResultOf(c).version = version
         /\ FileOf(c, ResultOf(c)) \in FileIds
         /\ FileOf(c, ResultOf(c)).case = c /\ FileOf(c, ResultOf(c)).status = replayed[c]
<1>1. group # NoGroup /\ c \in Members(group) /\ replayed # << >> /\ BatchTypeOK
  BY DEF IsNextCase, PendingIn, GroupFailed, IInv
<1>2. group \in Groups /\ group \in scope /\ replayed = Replayed(Members(group))
  BY <1>1 DEF IInv, Whole, BatchTypeOK
<1>3. GroupOf[c] = group /\ Members(group) \in SUBSET Cases
  BY <1>1, <1>2, GroupIsReal
<1>4. replayed[c] \in Statuses
  BY <1>1, <1>2, <1>3, ReplayedType
<1>5. version \in Versions
  BY <1>1 DEF BatchTypeOK
<1>6. ResultOf(c) \in Entries /\ ResultOf(c).version = version /\ ResultOf(c).status = replayed[c]
      /\ ResultOf(c).state = "COMPLETE"
  BY <1>4, <1>5, EntryKinds DEF ResultOf, Completed
<1>7. FileOf(c, ResultOf(c)) \in FileIds
  BY <1>6, FileIsNamed
<1> QED BY <1>1, <1>2, <1>3, <1>4, <1>6, <1>7 DEF FileOf

\* Recording an entry that is FAILED, or COMPLETE with its file in place.
LEMMA RecordKeeps ==
  ASSUME IInv, NEW c \in Cases, IsNextCase(c), NEW e \in Entries, Record(c, e),
         e.version = version,
         e.state = "COMPLETE" => files[FileOf(c, e)] = "VALID",
         UNCHANGED <<phase, scope, version, files, killed, harm>>
  PROVE  IInv'
<1>1. /\ phase = "RUNNING" /\ group # NoGroup /\ c \in Members(group) /\ c \notin DOMAIN recorded
      /\ recorded' = Put(c, e) /\ saved' = Put(c, e) /\ published' = {}
      /\ \/ group' = NoGroup /\ replayed' = << >>
         \/ group' = group /\ replayed' = replayed
  BY DEF IsNextCase, Record, PendingIn
<1>2. BatchTypeOK /\ saved = recorded /\ group \in Groups /\ group \in scope /\ GroupOf[c] = group
  <2>1. BatchTypeOK /\ saved = recorded /\ group \in Groups /\ group \in scope
    BY <1>1 DEF IInv, Saved, Whole, BatchTypeOK
  <2> QED BY <1>1, <2>1, GroupIsReal
<1>3. /\ IsPartial(Put(c, e)) /\ DOMAIN Put(c, e) = DOMAIN recorded \cup {c}
      /\ Put(c, e)[c] = e
      /\ \A d \in DOMAIN recorded : d # c => Put(c, e)[d] = recorded[d]
  BY <1>2, PutEntry
<1>4. BatchTypeOK'
  <2>1. IsPartial(recorded)' /\ IsPartial(saved)'
    BY <1>1, <1>3 DEF IsPartial
  <2>2. DOMAIN replayed' \subseteq Cases /\ \A d \in DOMAIN replayed' : replayed'[d] \in Statuses
    <3>1. DOMAIN << >> = {}
      OBVIOUS
    <3> QED BY <1>1, <1>2, <3>1 DEF BatchTypeOK
  <2> QED BY <1>1, <1>2, <2>1, <2>2 DEF BatchTypeOK
<1>5. Resting' /\ Saved' /\ Unrecorded'
  BY <1>1 DEF Resting, Saved, Unrecorded
<1>6. Whole'
  BY <1>1 DEF IInv, Whole
<1>7. CompleteHasResult'
  <2>1. ASSUME NEW d \in DOMAIN saved'
        PROVE  /\ GroupOf[d] \in scope /\ saved'[d].version = version
               /\ saved'[d].state = "COMPLETE" => files[FileOf(d, saved'[d])] = "VALID"
    <3>1. CASE d = c
      BY <1>1, <1>2, <1>3, <3>1
    <3>2. CASE d # c
      <4>1. d \in DOMAIN saved /\ saved'[d] = saved[d]
        BY <1>1, <1>2, <1>3, <3>2
      <4> QED BY <1>1, <4>1 DEF IInv, CompleteHasResult, InScope, IsComplete, SavedResultIsValid
    <3> QED BY <3>1, <3>2
  <2> QED BY <2>1 DEF CompleteHasResult, InScope, IsComplete, SavedResultIsValid
<1>8. ResumeEqualsUninterrupted'
  BY DEF IInv, ResumeEqualsUninterrupted
<1> QED BY <1>4, <1>5, <1>6, <1>7, <1>8 DEF IInv

\* A run keeps the entries of its cases whose files are intact.
LEMMA StartRunKeeps ==
  ASSUME IInv, NEW sc \in SUBSET Groups, NEW v \in Versions, StartBatch(sc, v)
  PROVE  IInv'
<1> DEFINE keeps == {d \in Cases : Reusable(d, sc, v)}
           kept == [c \in keeps |-> saved[c]]
<1>1. /\ phase' = "RUNNING" /\ scope' = sc /\ version' = v /\ recorded' = kept /\ saved' = kept
      /\ group' = NoGroup /\ replayed' = << >> /\ published' = {}
      /\ files' = files /\ killed' = killed /\ harm' = harm
  BY DEF StartBatch
<1>2. \A d \in keeps : /\ d \in Cases /\ d \in DOMAIN saved /\ GroupOf[d] \in sc
                       /\ saved[d].version = v /\ SavedResultIsValid(d, saved[d])
                       /\ saved[d] \in Entries
  BY DEF Reusable, IInv, BatchTypeOK, IsPartial
<1>3. DOMAIN kept = keeps /\ keeps \subseteq Cases /\ \A d \in keeps : kept[d] = saved[d]
  OBVIOUS
<1> HIDE DEF keeps, kept
<1>4. BatchTypeOK'
  <2>1. IsPartial(recorded)' /\ IsPartial(saved)'
    BY <1>1, <1>2, <1>3 DEF IsPartial
  <2>2. DOMAIN replayed' \subseteq Cases /\ \A d \in DOMAIN replayed' : replayed'[d] \in Statuses
    <3>1. DOMAIN << >> = {}
      OBVIOUS
    <3> QED BY <1>1, <3>1
  <2> QED BY <1>1, <2>1, <2>2 DEF IInv, BatchTypeOK
<1>5. Resting' /\ Saved' /\ Whole' /\ Unrecorded'
  BY <1>1 DEF Resting, Saved, Whole, Unrecorded
<1>6. CompleteHasResult'
  BY <1>1, <1>2, <1>3 DEF CompleteHasResult, InScope, IsComplete, SavedResultIsValid
<1>7. ResumeEqualsUninterrupted'
  BY <1>1 DEF IInv, ResumeEqualsUninterrupted
<1> QED BY <1>4, <1>5, <1>6, <1>7 DEF IInv

\* A group is replayed as a whole, or fails as a whole.
LEMMA GroupKeeps ==
  ASSUME IInv, NEW g \in Groups, ReplayGroup(g) \/ FailGroup(g)
  PROVE  IInv'
<1>1. /\ phase = "RUNNING" /\ group = NoGroup /\ g \in scope /\ group' = g
      /\ replayed' = << >> \/ replayed' = Replayed(Members(g))
      /\ UNCHANGED <<phase, scope, version, recorded, published, saved, files, killed, harm>>
  BY DEF ReplayGroup, FailGroup, IsNextGroup, GroupsLeft
<1>2. published = {}
  BY <1>1 DEF IInv, Unrecorded
<1>3. DOMAIN replayed' \subseteq Cases /\ \A d \in DOMAIN replayed' : replayed'[d] \in Statuses
  <2>1. Members(g) \in SUBSET Cases
    BY GroupIsReal
  <2>2. Replayed(Members(g)) \in [Members(g) -> Statuses]
    BY <2>1, ReplayedType
  <2>3. DOMAIN << >> = {}
    OBVIOUS
  <2> QED BY <1>1, <2>1, <2>2, <2>3
<1>4. BatchTypeOK'
  <2>1. IsPartial(recorded)' /\ IsPartial(saved)'
    BY <1>1 DEF IsPartial, IInv, BatchTypeOK
  <2> QED BY <1>1, <1>3, <2>1 DEF IInv, BatchTypeOK
<1>10. g # NoGroup
  BY GroupIsReal
<1>5. Resting' /\ Saved'
  BY <1>1, <1>10 DEF IInv, Resting, Saved
<1>6. Whole'
  BY <1>1 DEF Whole
<1>7. Unrecorded'
  BY <1>1, <1>2 DEF Unrecorded
<1>8. CompleteHasResult'
  BY <1>1 DEF IInv, CompleteHasResult, InScope, IsComplete, SavedResultIsValid
<1>9. ResumeEqualsUninterrupted'
  BY <1>1 DEF IInv, ResumeEqualsUninterrupted
<1> QED BY <1>4, <1>5, <1>6, <1>7, <1>8, <1>9 DEF IInv

\* A FAILED entry names no file.
LEMMA FailureKeeps ==
  ASSUME IInv, NEW c \in Cases, RecordGroupFailure(c) \/ ResultFails(c) \/ PublishRefused(c)
  PROVE  IInv'
<1>1. /\ IsNextCase(c) /\ Record(c, Failed(version))
      /\ UNCHANGED <<phase, scope, version, files, killed, harm>>
  BY DEF RecordGroupFailure, ResultFails, PublishRefused
<1>2. version \in Versions
  BY DEF IInv, BatchTypeOK
<1>3. Failed(version) \in Entries /\ Failed(version).state = "FAILED"
      /\ Failed(version).version = version
  BY <1>2, EntryKinds
<1>4. Failed(version).state # "COMPLETE"
  BY <1>3
<1> QED BY <1>1, <1>3, <1>4, RecordKeeps

\* A result is recorded when its file is in place.
LEMMA RecordResultKeeps ==
  ASSUME IInv, NEW c \in Cases, RecordResult(c)
  PROVE  IInv'
<1>1. /\ IsNextCase(c) /\ ~GroupFailed /\ c \in published /\ Record(c, ResultOf(c))
      /\ UNCHANGED <<phase, scope, version, files, killed, harm>>
  BY DEF RecordResult
<1>2. ResultOf(c) \in Entries /\ ResultOf(c).version = version
  BY <1>1, NextResult
<1>3. files[FileOf(c, ResultOf(c))] = "VALID"
  BY <1>1 DEF IInv, Unrecorded
<1> QED BY <1>1, <1>2, <1>3, RecordKeeps

\* A file is published under its own name, with what the whole group's replay says.
LEMMA PublishKeeps ==
  ASSUME IInv, NEW c \in Cases, Publish(c)
  PROVE  IInv'
<1> DEFINE mine == FileOf(c, ResultOf(c))
<1>1. /\ IsNextCase(c) /\ ~GroupFailed /\ phase = "RUNNING" /\ group # NoGroup
      /\ files' = [files EXCEPT ![mine] = "VALID"] /\ published' = {c}
      /\ UNCHANGED <<phase, scope, version, recorded, group, replayed, saved, killed, harm>>
  BY DEF Publish, IsNextCase
<1>2. /\ c \in Members(group) /\ replayed[c] = Replayed(Members(GroupOf[c]))[c]
      /\ mine \in FileIds /\ mine.case = c /\ mine.status = replayed[c]
  BY <1>1, NextResult
<1>3. BatchTypeOK /\ replayed # << >>
  BY <1>1 DEF IInv, GroupFailed
<1>4. FileOf(c, ResultOf(c))' = mine
  BY <1>1 DEF FileOf, ResultOf, Completed
<1> HIDE DEF mine
<1>5. files' \in [FileIds -> {"ABSENT", "VALID", "DAMAGED"}] /\ files'[mine] = "VALID"
      /\ \A f \in FileIds : f # mine => files'[f] = files[f]
  BY <1>1, <1>2, <1>3 DEF BatchTypeOK
<1>6. BatchTypeOK'
  <2>1. IsPartial(recorded)' /\ IsPartial(saved)'
    BY <1>1, <1>3 DEF IsPartial, BatchTypeOK
  <2> QED BY <1>1, <1>3, <1>5, <2>1 DEF BatchTypeOK
<1>7. Resting' /\ Saved' /\ Whole'
  BY <1>1 DEF IInv, Resting, Saved, Whole
<1>8. Unrecorded'
  <2>1. Members(group)' = Members(group)
    BY <1>1 DEF Members
  <2> QED BY <1>1, <1>2, <1>3, <1>4, <1>5, <2>1 DEF Unrecorded
<1>9. CompleteHasResult'
  <2>1. ASSUME NEW d \in DOMAIN saved, saved[d].state = "COMPLETE"
        PROVE  files'[FileOf(d, saved[d])] = "VALID"
    <3>1. files[FileOf(d, saved[d])] = "VALID"
      BY <1>1, <2>1 DEF IInv, CompleteHasResult, IsComplete, SavedResultIsValid
    <3>2. FileOf(d, saved[d]) \in FileIds
      BY <1>3, <2>1, FileIsNamed DEF BatchTypeOK, IsPartial
    <3> QED BY <1>5, <3>1, <3>2
  <2> QED BY <1>1, <2>1 DEF IInv, CompleteHasResult, InScope, IsComplete, SavedResultIsValid, FileOf
<1>10. ResumeEqualsUninterrupted'
  BY <1>2, <1>5 DEF IInv, ResumeEqualsUninterrupted
<1> QED BY <1>6, <1>7, <1>8, <1>9, <1>10 DEF IInv

\* Returning changes nothing but the stage.
LEMMA ReturnKeeps ==
  ASSUME IInv, ReturnCheckpoint
  PROVE  IInv'
<1>1. /\ phase = "RUNNING" /\ phase' = "RETURNED" /\ group = NoGroup
      /\ UNCHANGED <<scope, version, recorded, group, replayed, published, saved, files,
                     killed, harm>>
  BY DEF ReturnCheckpoint
<1>2. published = {}
  BY <1>1 DEF IInv, Unrecorded
<1>3. BatchTypeOK'
  <2>1. IsPartial(recorded)' /\ IsPartial(saved)'
    BY <1>1 DEF IsPartial, IInv, BatchTypeOK
  <2> QED BY <1>1, <2>1 DEF IInv, BatchTypeOK
<1>4. Saved' /\ Whole' /\ Unrecorded'
  BY <1>1, <1>2 DEF Saved, Whole, Unrecorded
<1>5. CompleteHasResult' /\ ResumeEqualsUninterrupted'
  BY <1>1 DEF IInv, CompleteHasResult, InScope, IsComplete, SavedResultIsValid,
              ResumeEqualsUninterrupted
<1>6. Resting'
  BY <1>1 DEF IInv, Resting
<1> QED BY <1>3, <1>4, <1>5, <1>6 DEF IInv

\* Being killed leaves what is on disk.
LEMMA KillKeeps ==
  ASSUME IInv, KillBatch
  PROVE  IInv'
<1>1. /\ phase = "RUNNING" /\ phase' = "IDLE" /\ recorded' = << >> /\ group' = NoGroup
      /\ replayed' = << >> /\ published' = {} /\ killed < MaxBatchKills /\ killed' = killed + 1
      /\ UNCHANGED <<scope, version, saved, files, harm>>
  BY DEF KillBatch
<1>2. DOMAIN << >> = {}
  OBVIOUS
<1>3. BatchTypeOK'
  <2>1. IsPartial(recorded)' /\ IsPartial(saved)'
    BY <1>1, <1>2 DEF IsPartial, IInv, BatchTypeOK
  <2>2. killed' \in 0 .. MaxBatchKills
    BY <1>1, BatchAssumption DEF IInv, BatchTypeOK
  <2>3. DOMAIN replayed' \subseteq Cases /\ \A d \in DOMAIN replayed' : replayed'[d] \in Statuses
    BY <1>1, <1>2
  <2> QED BY <1>1, <2>1, <2>2, <2>3 DEF IInv, BatchTypeOK
<1>4. Resting' /\ Saved' /\ Whole' /\ Unrecorded' /\ CompleteHasResult'
  BY <1>1 DEF Resting, Saved, Whole, Unrecorded, CompleteHasResult
<1>5. ResumeEqualsUninterrupted'
  BY <1>1 DEF IInv, ResumeEqualsUninterrupted
<1> QED BY <1>3, <1>4, <1>5 DEF IInv

\* A harmed file is none that was absent.
LEMMA HarmKeeps ==
  ASSUME IInv, NEW f \in FileIds, NEW what \in {"ABSENT", "DAMAGED"}, HarmFile(f, what)
  PROVE  IInv'
<1>1. /\ phase # "RUNNING" /\ phase' = "IDLE" /\ recorded' = << >> /\ harm < MaxHarm
      /\ files[f] = "VALID" /\ files' = [files EXCEPT ![f] = what] /\ harm' = harm + 1
      /\ UNCHANGED <<scope, version, group, replayed, published, saved, killed>>
  BY DEF HarmFile
<1>2. group = NoGroup /\ published = {}
  BY <1>1 DEF IInv, Resting
<1>3. DOMAIN << >> = {}
  OBVIOUS
<1>4. files' \in [FileIds -> {"ABSENT", "VALID", "DAMAGED"}]
      /\ \A h \in FileIds : files'[h] # "ABSENT" => files[h] # "ABSENT"
  BY <1>1 DEF IInv, BatchTypeOK
<1>5. BatchTypeOK'
  <2>1. IsPartial(recorded)' /\ IsPartial(saved)'
    BY <1>1, <1>3 DEF IsPartial, IInv, BatchTypeOK
  <2>2. harm' \in 0 .. MaxHarm
    BY <1>1, BatchAssumption DEF IInv, BatchTypeOK
  <2> QED BY <1>1, <1>4, <2>1, <2>2 DEF IInv, BatchTypeOK
<1>6. Resting' /\ Saved' /\ Whole' /\ Unrecorded' /\ CompleteHasResult'
  BY <1>1, <1>2 DEF IInv, Resting, Saved, Whole, Unrecorded, CompleteHasResult
<1>7. ResumeEqualsUninterrupted'
  BY <1>4 DEF IInv, ResumeEqualsUninterrupted
<1> QED BY <1>5, <1>6, <1>7 DEF IInv

LEMMA StutterKeeps ==
  ASSUME IInv, UNCHANGED batchVars
  PROVE  IInv'
<1>1. /\ phase' = phase /\ scope' = scope /\ version' = version /\ recorded' = recorded
      /\ group' = group /\ replayed' = replayed /\ published' = published
      /\ saved' = saved /\ files' = files /\ killed' = killed /\ harm' = harm
  BY DEF batchVars
<1>2. BatchTypeOK'
  BY <1>1 DEF IInv, BatchTypeOK, IsPartial
<1>3. Resting' /\ Saved' /\ Whole'
  BY <1>1 DEF IInv, Resting, Saved, Whole
<1>4. Unrecorded'
  BY <1>1 DEF IInv, Unrecorded, Members, FileOf, ResultOf, Completed
<1>5. CompleteHasResult' /\ ResumeEqualsUninterrupted'
  BY <1>1 DEF IInv, CompleteHasResult, InScope, IsComplete, SavedResultIsValid, FileOf,
              ResumeEqualsUninterrupted
<1> QED BY <1>2, <1>3, <1>4, <1>5 DEF IInv

LEMMA InitIInv == BatchInit => IInv
<1> SUFFICES ASSUME BatchInit PROVE IInv
  OBVIOUS
<1>1. /\ phase = "IDLE" /\ scope = {} /\ version \in Versions /\ recorded = << >>
      /\ group = NoGroup /\ replayed = << >> /\ published = {} /\ saved = << >>
      /\ files = [f \in FileIds |-> "ABSENT"] /\ killed = 0 /\ harm = 0
  BY DEF BatchInit
<1>2. DOMAIN << >> = {}
  OBVIOUS
<1>3. BatchTypeOK
  <2>1. IsPartial(recorded) /\ IsPartial(saved)
    BY <1>1, <1>2 DEF IsPartial
  <2>2. killed \in 0 .. MaxBatchKills /\ harm \in 0 .. MaxHarm
    BY <1>1, BatchAssumption
  <2>3. DOMAIN replayed \subseteq Cases /\ \A d \in DOMAIN replayed : replayed[d] \in Statuses
    BY <1>1, <1>2
  <2>4. files \in [FileIds -> {"ABSENT", "VALID", "DAMAGED"}]
    BY <1>1
  <2> QED BY <1>1, <2>1, <2>2, <2>3, <2>4 DEF BatchTypeOK
<1>4. Resting /\ Saved /\ Whole /\ Unrecorded /\ CompleteHasResult /\ ResumeEqualsUninterrupted
  BY <1>1 DEF Resting, Saved, Whole, Unrecorded, CompleteHasResult, ResumeEqualsUninterrupted
<1> QED BY <1>3, <1>4 DEF IInv

LEMMA StepKeeps == IInv /\ [BatchNext]_batchVars => IInv'
<1> SUFFICES ASSUME IInv, [BatchNext]_batchVars PROVE IInv'
  OBVIOUS
<1>1. ASSUME NEW sc \in SUBSET Groups, NEW v \in Versions, StartBatch(sc, v)
      PROVE  IInv'
  BY <1>1, StartRunKeeps
<1>2. ASSUME NEW g \in Groups, ReplayGroup(g) \/ FailGroup(g)
      PROVE  IInv'
  BY <1>2, GroupKeeps
<1>3. ASSUME NEW c \in Cases, RecordGroupFailure(c) \/ ResultFails(c) \/ PublishRefused(c)
      PROVE  IInv'
  BY <1>3, FailureKeeps
<1>4. ASSUME NEW c \in Cases, Publish(c)
      PROVE  IInv'
  BY <1>4, PublishKeeps
<1>5. ASSUME NEW c \in Cases, RecordResult(c)
      PROVE  IInv'
  BY <1>5, RecordResultKeeps
<1>6. ASSUME NEW f \in FileIds, NEW what \in {"ABSENT", "DAMAGED"}, HarmFile(f, what)
      PROVE  IInv'
  BY <1>6, HarmKeeps
<1>7. CASE ReturnCheckpoint
  BY <1>7, ReturnKeeps
<1>8. CASE KillBatch
  BY <1>8, KillKeeps
<1>9. CASE UNCHANGED batchVars
  BY <1>9, StutterKeeps
<1> QED BY <1>1, <1>2, <1>3, <1>4, <1>5, <1>6, <1>7, <1>8, <1>9 DEF BatchNext, BatchStep

LEMMA InvariantHolds == BatchSpec => []IInv
BY InitIInv, StepKeeps, PTL DEF BatchSpec

(* What holds of every behaviour *)

\* Every variable stays in the range the code's fields have, and the statuses of
\* a replayed group are defined for each of its cases.
THEOREM TypeCorrect == BatchSpec => []BatchTypeOK
<1>1. IInv => BatchTypeOK
  BY DEF IInv
<1> QED BY <1>1, InvariantHolds, PTL DEF BatchSpec

\* While run_replay_batch works and when it returns, every COMPLETE entry of the
\* checkpoint has its result file, of this run's inputs, intact.
THEOREM CompleteHasFile == BatchSpec => []CompleteHasResult
<1>1. IInv => CompleteHasResult
  BY DEF IInv
<1> QED BY <1>1, InvariantHolds, PTL DEF BatchSpec

\* Every result file holds what one uninterrupted replay of its group would have
\* put there, however many runs, kills and damaged files its group took.
THEOREM ResumedIsWhole == BatchSpec => []ResumeEqualsUninterrupted
<1>1. IInv => ResumeEqualsUninterrupted
  BY DEF IInv
<1> QED BY <1>1, InvariantHolds, PTL DEF BatchSpec

\* Recording the next case leaves the entries of the others.
LEMMA RecordLeaves ==
  ASSUME IInv, NEW c \in Cases, Finished(c), NEW d \in Cases, NEW e \in Entries,
         IsNextCase(d), Record(d, e), files' = files
  PROVE  Finished(c)'
<1>1. /\ phase = "RUNNING" /\ d \notin DOMAIN recorded /\ saved' = Put(d, e)
  BY DEF IsNextCase, Record, PendingIn
<1>2. BatchTypeOK /\ saved = recorded
  BY <1>1 DEF IInv, Saved
<1>3. c \in DOMAIN recorded /\ c # d
  BY <1>1, <1>2 DEF Finished, IsComplete
<1>4. c \in DOMAIN saved' /\ saved'[c] = saved[c]
  BY <1>1, <1>2, <1>3, PutEntry
<1> QED BY <1>4 DEF Finished, IsComplete, SavedResultIsValid, FileOf

LEMMA StepKeepsProgress ==
  ASSUME IInv, [BatchNext]_batchVars, NEW c \in Cases, Finished(c), harm' = harm,
         phase' # "RUNNING" \/ (GroupOf[c] \in scope' /\ version' = saved[c].version)
  PROVE  Finished(c)'
<1>1. ASSUME saved' = saved, files' = files
      PROVE  Finished(c)'
  BY <1>1 DEF Finished, IsComplete, SavedResultIsValid, FileOf
<1>2. ASSUME NEW sc \in SUBSET Groups, NEW v \in Versions, StartBatch(sc, v)
      PROVE  Finished(c)'
  <2>1. /\ phase' = "RUNNING" /\ scope' = sc /\ version' = v /\ files' = files
        /\ saved' = [d \in {b \in Cases : Reusable(b, sc, v)} |-> saved[d]]
    BY <1>2 DEF StartBatch
  <2>2. Reusable(c, sc, v)
    BY <2>1 DEF Reusable, Finished, IsComplete
  <2>3. c \in DOMAIN saved' /\ saved'[c] = saved[c]
    BY <2>1, <2>2
  <2> QED BY <2>1, <2>3 DEF Finished, IsComplete, SavedResultIsValid, FileOf
<1>3. ASSUME NEW g \in Groups, ReplayGroup(g) \/ FailGroup(g)
      PROVE  Finished(c)'
  BY <1>1, <1>3 DEF ReplayGroup, FailGroup
<1>4. ASSUME NEW d \in Cases, RecordGroupFailure(d) \/ ResultFails(d) \/ PublishRefused(d)
      PROVE  Finished(c)'
  <2>1. IsNextCase(d) /\ Record(d, Failed(version)) /\ files' = files
    BY <1>4 DEF RecordGroupFailure, ResultFails, PublishRefused
  <2>2. Failed(version) \in Entries
    BY EntryKinds DEF IInv, BatchTypeOK
  <2> QED BY <2>1, <2>2, RecordLeaves
<1>5. ASSUME NEW d \in Cases, RecordResult(d)
      PROVE  Finished(c)'
  <2>1. IsNextCase(d) /\ ~GroupFailed /\ Record(d, ResultOf(d)) /\ files' = files
    BY <1>5 DEF RecordResult
  <2>2. ResultOf(d) \in Entries
    BY <2>1, NextResult
  <2> QED BY <2>1, <2>2, RecordLeaves
<1>6. ASSUME NEW d \in Cases, Publish(d)
      PROVE  Finished(c)'
  <2> DEFINE mine == FileOf(c, saved[c])
             theirs == FileOf(d, ResultOf(d))
  <2>1. files' = [files EXCEPT ![theirs] = "VALID"] /\ saved' = saved
    BY <1>6 DEF Publish
  <2>2. files[mine] = "VALID" /\ c \in DOMAIN saved /\ saved[c].state = "COMPLETE"
    BY DEF Finished, IsComplete, SavedResultIsValid
  <2>3. mine \in FileIds
    BY <2>2, FileIsNamed DEF IInv, BatchTypeOK, IsPartial
  <2>4. mine' = mine
    BY <2>1 DEF FileOf
  <2> HIDE DEF mine, theirs
  <2>5. files'[mine] = "VALID"
    BY <2>1, <2>2, <2>3 DEF IInv, BatchTypeOK
  <2>6. (files[mine])' = files'[mine]
    BY <2>4
  <2> QED BY <2>1, <2>2, <2>5, <2>6 DEF mine, Finished, IsComplete, SavedResultIsValid
<1>7. ASSUME NEW f \in FileIds, NEW what \in {"ABSENT", "DAMAGED"}, HarmFile(f, what)
      PROVE  FALSE
  <2>1. harm' = harm + 1 /\ harm \in Nat
    BY <1>7, BatchAssumption DEF HarmFile, IInv, BatchTypeOK
  <2> QED BY <2>1
<1>8. CASE ReturnCheckpoint \/ KillBatch \/ UNCHANGED batchVars
  BY <1>1, <1>8 DEF ReturnCheckpoint, KillBatch, batchVars
<1> QED BY <1>2, <1>3, <1>4, <1>5, <1>6, <1>7, <1>8 DEF BatchNext, BatchStep

\* A finished case stays finished through kills, restarts and the failures of
\* other cases, unless the run excludes it, has other inputs, or a file is harmed.
THEOREM ProgressSurvives == BatchSpec => ProgressKept
<1>1. ASSUME IInv, [BatchNext]_batchVars
      PROVE  [\A c \in Cases :
                Finished(c) /\ (phase' # "RUNNING"
                                \/ (GroupOf[c] \in scope' /\ version' = saved[c].version))
                  => Finished(c)' \/ harm' # harm]_batchVars
  BY <1>1, StepKeepsProgress
<1> QED BY <1>1, InvariantHolds, PTL DEF BatchSpec, ProgressKept
=============================================================================
