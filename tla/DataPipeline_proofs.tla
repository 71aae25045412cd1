------------------------ MODULE DataPipeline_proofs ------------------------
(***************************************************************************)
(* How market data comes in.  The retry budget, the receipts and the       *)
(* checkpoint of BinanceTransport, for any plan, any server, any number of *)
(* kills and of lost files; the archive store for any archives and number  *)
(* of workers and batches; the universe batch over a store that changes    *)
(* under it as it likes; and, over a store that was filled first, the      *)
(* members each of its snapshots must have.                                *)
(***************************************************************************)
EXTENDS BinanceTransport, UniverseBatch, SequenceTheorems, FoldTheorems

(* The transport *)

\* The entries the next run would start from.
OnDisk == IF checkpoint = NoCheckpoint THEN Fresh ELSE checkpoint

InFlight(t) == Turn(t) /\ attempts # NotTrying

GivenUp == {"FAILED", "EXHAUSTED"}

\* The request in memory only exists while a run works.
Resting ==
  /\ stage # "RUNNING" => attempts = NotTrying /\ body = NoBody /\ ~committed
  /\ left = {} => attempts = NotTrying
  /\ body # NoBody => attempts # NotTrying
  /\ committed => body \in blobs /\ body # NoBody

\* A task the run has not passed is as the disk has it.
Waiting == stage = "RUNNING" => \A t \in left : entries[t] = OnDisk[t]

\* A task it has passed is COMPLETE, with at least the attempts the disk has.
Passed ==
  stage = "RUNNING" => \A t \in Tasks \ left :
    /\ entries[t].status = "COMPLETE" /\ OnDisk[t].attempts <= entries[t].attempts
    /\ OnDisk[t].status \notin GivenUp

Flight ==
  \A t \in Tasks : InFlight(t) =>
    /\ entries[t].status = "PENDING"
    /\ IF body = NoBody
       THEN ~HasReceipt(t) /\ attempts = entries[t].attempts
       ELSE attempts = entries[t].attempts + 1 /\ (~committed => ~HasReceipt(t))

SpentHasNoReceipt == \A t \in Tasks : OnDisk[t].status \in GivenUp => ~HasReceipt(t)

\* Requests are counted on disk, paid for by a kill, or the one being answered.
Accounted ==
  \A t \in Tasks :
    requests[t] <= OnDisk[t].attempts + kills + (IF InFlight(t) /\ body # NoBody THEN 1 ELSE 0)

Backed ==
  lost = 0 =>
    /\ \A t \in Tasks : HasReceipt(t) => ReceiptIsValid(t)
    /\ \A t \in Tasks : OnDisk[t].status = "COMPLETE" => OnDisk[t].receipt = receipts[t]
    /\ stage = "RUNNING" =>
         \A t \in Tasks : entries[t].status = "COMPLETE" => entries[t].receipt = receipts[t]

IInv ==
  /\ TypeOK /\ Resting /\ Waiting /\ Passed /\ Flight /\ SpentHasNoReceipt
  /\ Accounted /\ Backed

(* Entries *)

LEMMA EntryKinds ==
  /\ \A n \in 0 .. MaxAttempts : Pending(n) \in EntryRecords
  /\ \A n \in 0 .. MaxAttempts, s \in GivenUp : Entry(s, n, NoReceipt) \in EntryRecords
  /\ \A n \in 1 .. MaxAttempts, r \in Receipts : Entry("COMPLETE", n, r) \in EntryRecords
BY DEF Pending, Entry, EntryRecords, GivenUp

LEMMA EntryParts ==
  ASSUME NEW e \in EntryRecords
  PROVE  /\ e.status \in {"COMPLETE", "PENDING"} \cup GivenUp
         /\ e.attempts \in 0 .. MaxAttempts
         /\ e.status = "COMPLETE" => e.receipt \in Receipts /\ e.attempts \in 1 .. MaxAttempts
BY TransportAssumption DEF EntryRecords, GivenUp

LEMMA EntryFields ==
  ASSUME NEW s, NEW n, NEW r
  PROVE  /\ Entry(s, n, r).status = s /\ Entry(s, n, r).attempts = n
         /\ Entry(s, n, r).receipt = r
         /\ Pending(n).status = "PENDING" /\ Pending(n).attempts = n
BY DEF Entry, Pending

LEMMA NoReceiptIsNone == NoReceipt \notin Receipts
BY DEF NoReceipt, Receipts

LEMMA FreshType == Fresh \in [Tasks -> EntryRecords]
BY EntryKinds, TransportAssumption DEF Fresh

LEMMA OnDiskType ==
  ASSUME TypeOK
  PROVE  OnDisk \in [Tasks -> EntryRecords]
BY FreshType DEF OnDisk, TypeOK

LEMMA SavedIsOnDisk ==
  ASSUME NEW f \in [Tasks -> EntryRecords], checkpoint' = f
  PROVE  OnDisk' = f
<1>1. f # NoCheckpoint
  <2>1. PICK t \in Tasks : TRUE
    BY TransportAssumption
  <2>2. DOMAIN f = Tasks /\ DOMAIN NoCheckpoint = {}
    BY DEF NoCheckpoint
  <2> QED BY <2>1, <2>2
<1> QED BY <1>1 DEF OnDisk

LEMMA OneTurn ==
  ASSUME TypeOK, NEW t \in Tasks, NEW u \in Tasks, Turn(t), Turn(u)
  PROVE  t = u
BY TransportAssumption DEF Turn, TypeOK

(* The steps *)

LEMMA StartRunKeeps ==
  ASSUME IInv, StartRun
  PROVE  IInv'
<1>1. /\ OnDisk' = OnDisk /\ entries' = OnDisk /\ left' = Tasks /\ stage' = "RUNNING"
      /\ attempts' = NotTrying /\ body' = NoBody /\ committed' = FALSE
      /\ UNCHANGED <<disk, requests, kills, lost>>
  BY DEF StartRun, OnDisk, disk
<1>2. TypeOK /\ OnDisk \in [Tasks -> EntryRecords]
  BY OnDiskType DEF IInv
<1>3. TypeOK'
  BY <1>1, <1>2 DEF TypeOK, disk
<1>4. Resting' /\ Waiting' /\ Passed'
  BY <1>1, <1>2 DEF Resting, Waiting, Passed
<1>5. Flight'
  BY <1>1 DEF Flight, InFlight
<1>6. SpentHasNoReceipt'
  BY <1>1 DEF IInv, SpentHasNoReceipt, HasReceipt, disk
<1>7. Accounted'
  <2>2. \A t \in Tasks : ~InFlight(t)
    BY DEF InFlight, StartRun, Turn
  <2> QED BY <1>1, <2>2 DEF IInv, Accounted
<1>8. Backed'
  BY <1>1 DEF IInv, Backed, HasReceipt, ReceiptIsValid, disk
<1> QED BY <1>3, <1>4, <1>5, <1>6, <1>7, <1>8 DEF IInv

LEMMA AdoptReceiptKeeps ==
  ASSUME IInv, NEW t \in Tasks, AdoptReceipt(t)
  PROVE  IInv'
<1> DEFINE e == Entry("COMPLETE", Larger(entries[t].attempts, receipts[t].attempts), receipts[t])
<1>1. /\ OnDisk' = OnDisk /\ entries' = [entries EXCEPT ![t] = e] /\ left' = left \ {t}
      /\ UNCHANGED <<stage, attempts, body, committed, disk, requests, kills, lost>>
      /\ stage = "RUNNING" /\ t \in left /\ attempts = NotTrying /\ ReceiptIsValid(t)
  BY DEF AdoptReceipt, OnDisk, disk, Turn
<1>2. TypeOK /\ entries \in [Tasks -> EntryRecords] /\ receipts[t] \in Receipts
  BY <1>1 DEF IInv, TypeOK, ReceiptIsValid, HasReceipt
<1>3. /\ e \in EntryRecords /\ e.status = "COMPLETE" /\ e.receipt = receipts[t]
      /\ entries[t].attempts <= e.attempts
  <2>1. entries[t].attempts \in 0 .. MaxAttempts /\ receipts[t].attempts \in 1 .. MaxAttempts
    BY <1>2, EntryParts DEF Receipts
  <2>2. /\ Larger(entries[t].attempts, receipts[t].attempts) \in 1 .. MaxAttempts
        /\ entries[t].attempts <= Larger(entries[t].attempts, receipts[t].attempts)
    BY <2>1 DEF Larger
  <2> QED BY <1>2, <2>2, EntryKinds, EntryFields
<1> HIDE DEF e
<1>4. TypeOK'
  BY <1>1, <1>2, <1>3 DEF TypeOK, disk
<1>5. Resting'
  BY <1>1 DEF IInv, Resting, disk
<1>6. Waiting'
  BY <1>1, <1>2 DEF IInv, Waiting, TypeOK
<1>7. Passed'
  <2>1. OnDisk[t] = entries[t] /\ OnDisk[t].status \notin GivenUp
    BY <1>1 DEF IInv, Waiting, SpentHasNoReceipt, ReceiptIsValid
  <2> QED BY <1>1, <1>2, <1>3, <2>1 DEF IInv, Passed
<1>8. Flight'
  BY <1>1 DEF Flight, InFlight
<1>9. SpentHasNoReceipt'
  BY <1>1 DEF IInv, SpentHasNoReceipt, HasReceipt, disk
<1>10. Accounted'
  BY <1>1 DEF IInv, Accounted, InFlight
<1>11. Backed'
  BY <1>1, <1>2, <1>3 DEF IInv, Backed, HasReceipt, ReceiptIsValid, disk
<1> QED BY <1>4, <1>5, <1>6, <1>7, <1>8, <1>9, <1>10, <1>11 DEF IInv

LEMMA BeginTaskKeeps ==
  ASSUME IInv, NEW t \in Tasks, BeginTask(t)
  PROVE  IInv'
<1>1. /\ OnDisk' = OnDisk /\ attempts' = entries[t].attempts
      /\ UNCHANGED <<stage, entries, left, body, committed, disk, requests, kills, lost>>
      /\ Turn(t) /\ attempts = NotTrying /\ ~HasReceipt(t) /\ entries[t].status = "PENDING"
  BY DEF BeginTask, OnDisk, disk
<1>2. TypeOK /\ entries[t].attempts \in 0 .. MaxAttempts
  BY EntryParts DEF IInv, TypeOK
<1>3. body = NoBody /\ ~committed
  BY <1>1 DEF IInv, Resting
<1>4. TypeOK'
  BY <1>1, <1>2 DEF TypeOK, disk
<1>5. Resting' /\ Waiting' /\ Passed'
  BY <1>1, <1>3 DEF IInv, Resting, Waiting, Passed, Turn
<1>6. Flight'
  <2>1. ASSUME NEW u \in Tasks, InFlight(u)'
        PROVE  u = t
    <3>1. Turn(u)
      BY <1>1, <2>1 DEF InFlight, Turn
    <3> QED BY <1>1, <1>2, <3>1, OneTurn
  <2> QED BY <1>1, <1>3, <2>1 DEF Flight, HasReceipt, disk
<1>7. SpentHasNoReceipt'
  BY <1>1 DEF IInv, SpentHasNoReceipt, HasReceipt, disk
<1>8. Accounted'
  BY <1>1, <1>3 DEF IInv, Accounted
<1>9. Backed'
  BY <1>1 DEF IInv, Backed, HasReceipt, ReceiptIsValid, disk
<1> QED BY <1>4, <1>5, <1>6, <1>7, <1>8, <1>9 DEF IInv

LEMMA ReceiveKeeps ==
  ASSUME IInv, NEW t \in Tasks, NEW b \in Bodies, Receive(t, b)
  PROVE  IInv'
<1>1. /\ OnDisk' = OnDisk /\ attempts' = attempts + 1 /\ body' = b
      /\ requests' = [requests EXCEPT ![t] = @ + 1]
      /\ UNCHANGED <<stage, entries, left, committed, disk, kills, lost>>
      /\ Turn(t) /\ attempts # NotTrying /\ attempts < MaxAttempts /\ body = NoBody
  BY DEF Receive, Requesting, Send, OnDisk, disk
<1>2. /\ TypeOK /\ attempts \in 0 .. MaxAttempts - 1 /\ b # NoBody /\ ~committed
      /\ stage = "RUNNING"
  BY <1>1, TransportAssumption DEF IInv, TypeOK, Resting, Turn
<1>3. TypeOK'
  <2>1. attempts + 1 \in 0 .. MaxAttempts
    BY <1>2, TransportAssumption
  <2>2. requests' \in [Tasks -> Nat]
    BY <1>1, <1>2 DEF TypeOK
  <2> QED BY <1>1, <1>2, <2>1, <2>2 DEF TypeOK, disk
<1>4. Resting' /\ Waiting' /\ Passed'
  BY <1>1, <1>2 DEF IInv, Resting, Waiting, Passed, NotTrying
<1>5. InFlight(t) /\ \A u \in Tasks : InFlight(u)' => u = t
  <2>1. \A u \in Tasks : InFlight(u)' => Turn(u)
    BY <1>1 DEF InFlight, Turn
  <2> QED BY <1>1, <1>2, <2>1, OneTurn DEF InFlight
<1>6. Flight'
  <2>1. entries[t].status = "PENDING" /\ ~HasReceipt(t) /\ attempts = entries[t].attempts
    BY <1>1, <1>5 DEF IInv, Flight
  <2> QED BY <1>1, <1>2, <1>5, <2>1 DEF Flight, HasReceipt, disk
<1>7. SpentHasNoReceipt'
  BY <1>1 DEF IInv, SpentHasNoReceipt, HasReceipt, disk
<1>8. Accounted'
  <2>1. ASSUME NEW u \in Tasks
        PROVE  requests'[u] <= OnDisk'[u].attempts + kills'
                                 + (IF InFlight(u)' /\ body' # NoBody THEN 1 ELSE 0)
    <3>2. /\ requests[u] \in Nat /\ kills \in Nat /\ OnDisk[u].attempts \in Nat
          /\ requests \in [Tasks -> Nat]
      BY <1>2, OnDiskType, EntryParts, TransportAssumption DEF TypeOK
    <3>1. requests[u] <= OnDisk[u].attempts + kills
      BY <1>1, <3>2 DEF IInv, Accounted
    <3>3. CASE u = t
      <4>1. InFlight(u)'
        BY <1>1, <1>2, <3>3 DEF InFlight, Turn, NotTrying
      <4> QED BY <1>1, <1>2, <3>1, <3>2, <3>3, <4>1
    <3>4. CASE u # t
      BY <1>1, <3>1, <3>2, <3>4
    <3> QED BY <3>3, <3>4
  <2> QED BY <2>1 DEF Accounted
<1>9. Backed'
  BY <1>1 DEF IInv, Backed, HasReceipt, ReceiptIsValid, disk
<1> QED BY <1>3, <1>4, <1>6, <1>7, <1>8, <1>9 DEF IInv

\* Writing the checkpoint with a new entry for the task of the turn.
LEMMA SaveOne ==
  ASSUME IInv, NEW t \in Tasks, Turn(t), NEW e \in EntryRecords,
         checkpoint' = [entries EXCEPT ![t] = e]
  PROVE  /\ OnDisk' = [entries EXCEPT ![t] = e] /\ OnDisk'[t] = e /\ OnDisk[t] = entries[t]
         /\ checkpoint' \in [Tasks -> EntryRecords]
         /\ \A u \in Tasks : OnDisk'[u].attempts \in Nat
         /\ \A u \in Tasks \ {t} :
               /\ OnDisk'[u] = entries[u] /\ OnDisk[u].attempts <= OnDisk'[u].attempts
               /\ OnDisk'[u].status \in GivenUp => ~HasReceipt(u)
               /\ lost = 0 /\ OnDisk'[u].status = "COMPLETE" => OnDisk'[u].receipt = receipts[u]
<1>1. stage = "RUNNING" /\ t \in left /\ entries \in [Tasks -> EntryRecords]
  BY DEF IInv, TypeOK, Turn
<1>2. OnDisk' = [entries EXCEPT ![t] = e] /\ checkpoint' \in [Tasks -> EntryRecords]
  <2>1. [entries EXCEPT ![t] = e] \in [Tasks -> EntryRecords]
    BY <1>1
  <2> QED BY <2>1, SavedIsOnDisk
<1>3. \A u \in Tasks : OnDisk'[u].attempts \in Nat
  BY <1>1, <1>2, EntryParts, TransportAssumption
<1>4. OnDisk[t] = entries[t]
  BY <1>1 DEF IInv, Waiting
<1>5. ASSUME NEW u \in Tasks \ {t}
      PROVE  /\ OnDisk'[u] = entries[u] /\ OnDisk[u].attempts <= OnDisk'[u].attempts
             /\ OnDisk'[u].status \in GivenUp => ~HasReceipt(u)
             /\ lost = 0 /\ OnDisk'[u].status = "COMPLETE" => OnDisk'[u].receipt = receipts[u]
  <2>1. OnDisk'[u] = entries[u] /\ OnDisk'[u].attempts \in Nat
    BY <1>1, <1>2, EntryParts, TransportAssumption
  <2>2. CASE u \in left
    <3>1. OnDisk[u] = entries[u]
      BY <1>1, <2>2 DEF IInv, Waiting
    <3> QED BY <1>1, <2>1, <3>1 DEF IInv, SpentHasNoReceipt, Backed
  <2>3. CASE u \notin left
    <3>1. entries[u].status = "COMPLETE" /\ OnDisk[u].attempts <= entries[u].attempts
      BY <1>1, <2>3 DEF IInv, Passed
    <3> QED BY <1>1, <2>1, <3>1 DEF IInv, Backed, GivenUp
  <2> QED BY <2>2, <2>3
<1> QED BY <1>1, <1>2, <1>4, <1>5, <1>3

\* The numbers of the account.
LEMMA CountsAreKept ==
  ASSUME TypeOK, NEW u \in Tasks
  PROVE  /\ requests[u] \in Nat /\ kills \in Nat /\ OnDisk[u].attempts \in 0 .. MaxAttempts
         /\ MaxAttempts \in Nat
BY OnDiskType, EntryParts, TransportAssumption DEF TypeOK

\* The task in flight, before and after its answer.
LEMMA FlightFacts ==
  ASSUME IInv, NEW t \in Tasks, Turn(t), attempts # NotTrying
  PROVE  /\ stage = "RUNNING" /\ t \in left /\ entries[t].status = "PENDING"
         /\ OnDisk[t] = entries[t] /\ attempts \in 0 .. MaxAttempts
         /\ \A u \in Tasks : Turn(u) => u = t
         /\ body = NoBody => ~HasReceipt(t) /\ attempts = entries[t].attempts /\ ~committed
         /\ body # NoBody => attempts = entries[t].attempts + 1 /\ attempts \in 1 .. MaxAttempts
<1>1. /\ stage = "RUNNING" /\ t \in left /\ InFlight(t) /\ TypeOK
      /\ attempts \in 0 .. MaxAttempts /\ entries[t] \in EntryRecords
  BY DEF IInv, TypeOK, Turn, InFlight
<1>2. \A u \in Tasks : Turn(u) => u = t
  BY <1>1, OneTurn
<1>3. OnDisk[t] = entries[t] /\ entries[t].attempts \in 0 .. MaxAttempts
  BY <1>1, EntryParts DEF IInv, Waiting
<1>4. body = NoBody => ~committed
  BY DEF IInv, Resting
<1> QED BY <1>1, <1>2, <1>3, <1>4, TransportAssumption DEF IInv, Flight

LEMMA RetryLaterKeeps ==
  ASSUME IInv, NEW t \in Tasks, RetryLater(t)
  PROVE  IInv'
<1> DEFINE e == Pending(attempts + 1)
<1>1. /\ attempts' = attempts + 1 /\ requests' = [requests EXCEPT ![t] = @ + 1]
      /\ entries' = [entries EXCEPT ![t] = e] /\ checkpoint' = [entries EXCEPT ![t] = e]
      /\ UNCHANGED <<stage, left, body, committed, blobs, receipts, kills, lost>>
      /\ Turn(t) /\ attempts # NotTrying /\ attempts + 1 < MaxAttempts /\ body = NoBody
  BY DEF RetryLater, Requesting, Send, SaveEntry
<1>2. /\ stage = "RUNNING" /\ t \in left /\ ~HasReceipt(t) /\ attempts = entries[t].attempts
      /\ attempts \in 0 .. MaxAttempts /\ OnDisk[t] = entries[t] /\ TypeOK
      /\ \A u \in Tasks : Turn(u) => u = t
  BY <1>1, FlightFacts DEF IInv
<1>3. attempts + 1 \in 0 .. MaxAttempts
  BY <1>1, <1>2, TransportAssumption
<1>4. e \in EntryRecords /\ e.status = "PENDING" /\ e.attempts = attempts + 1
  BY <1>3, EntryKinds, EntryFields
<1> HIDE DEF e
<1>5. /\ OnDisk' = entries' /\ OnDisk'[t] = e
      /\ checkpoint' \in [Tasks -> EntryRecords]
      /\ \A u \in Tasks : OnDisk'[u].attempts \in Nat
      /\ \A u \in Tasks \ {t} :
            /\ OnDisk'[u] = entries[u] /\ OnDisk[u].attempts <= OnDisk'[u].attempts
            /\ OnDisk'[u].status \in GivenUp => ~HasReceipt(u)
            /\ lost = 0 /\ OnDisk'[u].status = "COMPLETE" => OnDisk'[u].receipt = receipts[u]
  BY <1>1, <1>4, SaveOne
<1>6. TypeOK'
  <2>1. requests' \in [Tasks -> Nat]
    BY <1>1, <1>2 DEF TypeOK
  <2>2. entries' \in [Tasks -> EntryRecords]
    BY <1>1, <1>5
  <2> QED BY <1>1, <1>2, <1>3, <1>5, <2>1, <2>2 DEF TypeOK
<1>7. Resting' /\ Waiting'
  BY <1>1, <1>2, <1>5 DEF IInv, Resting, Waiting
<1>8. Passed'
  <2>1. ASSUME NEW u \in Tasks \ left
        PROVE  entries'[u] = entries[u] /\ OnDisk'[u] = entries[u]
               /\ entries[u].status = "COMPLETE" /\ entries[u].attempts <= entries[u].attempts
    BY <1>1, <1>2, <1>5, EntryParts DEF IInv, Passed, TypeOK
  <2> QED BY <1>1, <2>1 DEF Passed, GivenUp
<1>9. Flight'
  <2>1. \A u \in Tasks : InFlight(u)' => u = t
    BY <1>1, <1>2 DEF InFlight, Turn
  <2> QED BY <1>1, <1>2, <1>4, <1>5, <2>1 DEF Flight, HasReceipt
<1>10. SpentHasNoReceipt'
  BY <1>1, <1>2, <1>4, <1>5 DEF SpentHasNoReceipt, HasReceipt
<1>11. Accounted'
  <2>1. ASSUME NEW u \in Tasks
        PROVE  requests'[u] <= OnDisk'[u].attempts + kills
    <3>1. /\ requests[u] \in Nat /\ kills \in Nat /\ OnDisk[u].attempts \in Nat
          /\ OnDisk'[u].attempts \in Nat
      BY <1>2, <1>5, CountsAreKept
    <3>2. requests[u] <= OnDisk[u].attempts + kills
      BY <1>1, <3>1 DEF IInv, Accounted
    <3>3. CASE u = t
      <4>1. requests'[u] = requests[u] + 1 /\ OnDisk'[u].attempts = OnDisk[u].attempts + 1
        BY <1>1, <1>2, <1>4, <1>5, <3>3 DEF TypeOK
      <4> QED BY <3>1, <3>2, <4>1
    <3>4. CASE u # t
      <4>1. requests'[u] = requests[u] /\ OnDisk[u].attempts <= OnDisk'[u].attempts
        BY <1>1, <1>2, <1>5, <3>4 DEF TypeOK
      <4> QED BY <3>1, <3>2, <4>1
    <3> QED BY <3>3, <3>4
  <2>2. \A u \in Tasks : OnDisk'[u].attempts + kills \in Nat
    BY <1>2, <1>5, CountsAreKept
  <2> QED BY <1>1, <2>1, <2>2 DEF Accounted
<1>12. Backed'
  BY <1>1, <1>2, <1>4, <1>5 DEF IInv, Backed, HasReceipt, ReceiptIsValid
<1> QED BY <1>6, <1>7, <1>8, <1>9, <1>10, <1>11, <1>12 DEF IInv

\* A process that has stopped working holds nothing in memory.
LEMMA Stopped ==
  ASSUME stage' # "RUNNING", attempts' = NotTrying, body' = NoBody, committed' = FALSE
  PROVE  Resting' /\ Waiting' /\ Passed' /\ Flight' /\ \A u \in Tasks : ~InFlight(u)'
BY DEF Resting, Waiting, Passed, Flight, InFlight

LEMMA GiveUpKeeps ==
  ASSUME IInv, NEW t \in Tasks, NEW s \in GivenUp, GiveUp(t, s)
  PROVE  IInv'
<1> DEFINE e == Entry(s, attempts + 1, NoReceipt)
<1>1. /\ requests' = [requests EXCEPT ![t] = @ + 1] /\ checkpoint' = [entries EXCEPT ![t] = e]
      /\ stage' = "RAISED" /\ entries' = Fresh /\ left' = {}
      /\ attempts' = NotTrying /\ body' = NoBody /\ committed' = FALSE
      /\ UNCHANGED <<blobs, receipts, kills, lost>>
      /\ Turn(t) /\ attempts # NotTrying /\ attempts < MaxAttempts /\ body = NoBody
  BY DEF GiveUp, Requesting, Send, Raise
<1>2. /\ stage = "RUNNING" /\ t \in left /\ ~HasReceipt(t) /\ attempts = entries[t].attempts
      /\ attempts \in 0 .. MaxAttempts /\ OnDisk[t] = entries[t] /\ TypeOK
  BY <1>1, FlightFacts DEF IInv
<1>3. attempts + 1 \in 0 .. MaxAttempts
  BY <1>1, <1>2, TransportAssumption
<1>4. e \in EntryRecords /\ e.status \in GivenUp /\ e.attempts = attempts + 1
  BY <1>3, EntryKinds, EntryFields
<1> HIDE DEF e
<1>5. /\ OnDisk'[t] = e /\ checkpoint' \in [Tasks -> EntryRecords]
      /\ \A u \in Tasks : OnDisk'[u].attempts \in Nat
      /\ \A u \in Tasks \ {t} :
            /\ OnDisk'[u] = entries[u] /\ OnDisk[u].attempts <= OnDisk'[u].attempts
            /\ OnDisk'[u].status \in GivenUp => ~HasReceipt(u)
            /\ lost = 0 /\ OnDisk'[u].status = "COMPLETE" => OnDisk'[u].receipt = receipts[u]
  BY <1>1, <1>4, SaveOne
<1>6. TypeOK'
  <2>1. requests' \in [Tasks -> Nat]
    BY <1>1, <1>2 DEF TypeOK
  <2> QED BY <1>1, <1>2, <1>5, <2>1, FreshType DEF TypeOK
<1>7. Resting' /\ Waiting' /\ Passed' /\ Flight' /\ \A u \in Tasks : ~InFlight(u)'
  BY <1>1, Stopped
<1>8. SpentHasNoReceipt'
  BY <1>1, <1>2, <1>5 DEF SpentHasNoReceipt, HasReceipt
<1>9. Accounted'
  <2>1. ASSUME NEW u \in Tasks
        PROVE  requests'[u] <= OnDisk'[u].attempts + kills
    <3>1. /\ requests[u] \in Nat /\ kills \in Nat /\ OnDisk[u].attempts \in Nat
          /\ OnDisk'[u].attempts \in Nat
      BY <1>2, <1>5, CountsAreKept
    <3>2. requests[u] <= OnDisk[u].attempts + kills
      BY <1>1, <3>1 DEF IInv, Accounted
    <3>3. CASE u = t
      <4>1. requests'[u] = requests[u] + 1 /\ OnDisk'[u].attempts = OnDisk[u].attempts + 1
        BY <1>1, <1>2, <1>4, <1>5, <3>3 DEF TypeOK
      <4> QED BY <3>1, <3>2, <4>1
    <3>4. CASE u # t
      <4>1. requests'[u] = requests[u] /\ OnDisk[u].attempts <= OnDisk'[u].attempts
        BY <1>1, <1>2, <1>5, <3>4 DEF TypeOK
      <4> QED BY <3>1, <3>2, <4>1
    <3> QED BY <3>3, <3>4
  <2>2. \A u \in Tasks : OnDisk'[u].attempts + kills \in Nat
    BY <1>2, <1>5, CountsAreKept
  <2> QED BY <1>1, <1>7, <2>1, <2>2 DEF Accounted
<1>10. Backed'
  <2>1. e.status # "COMPLETE"
    BY <1>4 DEF GivenUp
  <2> QED BY <1>1, <1>5, <2>1 DEF IInv, Backed, HasReceipt, ReceiptIsValid
<1> QED BY <1>6, <1>7, <1>8, <1>9, <1>10 DEF IInv

LEMMA RecordCompleteKeeps ==
  ASSUME IInv, NEW t \in Tasks, RecordComplete(t)
  PROVE  IInv'
<1> DEFINE e == Entry("COMPLETE", attempts, receipts[t])
<1>1. /\ entries' = [entries EXCEPT ![t] = e] /\ checkpoint' = [entries EXCEPT ![t] = e]
      /\ left' = left \ {t} /\ attempts' = NotTrying /\ body' = NoBody /\ committed' = FALSE
      /\ UNCHANGED <<stage, blobs, receipts, requests, kills, lost>>
      /\ Turn(t) /\ body # NoBody /\ committed /\ HasReceipt(t)
  BY DEF RecordComplete, SaveEntry
<1>2. /\ attempts # NotTrying /\ TypeOK
      /\ stage = "RUNNING" /\ t \in left /\ attempts = entries[t].attempts + 1
      /\ attempts \in 1 .. MaxAttempts /\ OnDisk[t] = entries[t]
  <2>1. attempts # NotTrying /\ TypeOK
    BY <1>1 DEF IInv, Resting
  <2> QED BY <1>1, <2>1, FlightFacts
<1>3. receipts[t] \in Receipts
  BY <1>1, <1>2 DEF TypeOK, HasReceipt
<1>4. /\ e \in EntryRecords /\ e.status = "COMPLETE" /\ e.attempts = attempts
      /\ e.receipt = receipts[t]
  BY <1>2, <1>3, EntryKinds, EntryFields
<1> HIDE DEF e
<1>5. /\ OnDisk' = entries' /\ OnDisk'[t] = e /\ checkpoint' \in [Tasks -> EntryRecords]
      /\ \A u \in Tasks : OnDisk'[u].attempts \in Nat
      /\ \A u \in Tasks \ {t} :
            /\ OnDisk'[u] = entries[u] /\ OnDisk[u].attempts <= OnDisk'[u].attempts
            /\ OnDisk'[u].status \in GivenUp => ~HasReceipt(u)
            /\ lost = 0 /\ OnDisk'[u].status = "COMPLETE" => OnDisk'[u].receipt = receipts[u]
  BY <1>1, <1>4, SaveOne
<1>6. TypeOK'
  <2>1. entries' \in [Tasks -> EntryRecords]
    BY <1>1, <1>5
  <2> QED BY <1>1, <1>2, <1>5, <2>1 DEF TypeOK
<1>7. Resting' /\ Waiting' /\ Flight'
  BY <1>1, <1>2, <1>5 DEF Resting, Waiting, Flight, InFlight
<1>8. Passed'
  <2>1. ASSUME NEW u \in Tasks \ left'
        PROVE  OnDisk'[u] = entries'[u] /\ entries'[u].status = "COMPLETE"
    <3>1. CASE u = t
      BY <1>4, <1>5, <3>1
    <3>2. CASE u # t
      BY <1>1, <1>2, <1>5, <3>2 DEF IInv, Passed
    <3> QED BY <3>1, <3>2
  <2> QED BY <1>5, <2>1 DEF Passed, GivenUp
<1>9. SpentHasNoReceipt'
  BY <1>1, <1>4, <1>5 DEF SpentHasNoReceipt, HasReceipt, GivenUp
<1>10. Accounted'
  <2>1. ASSUME NEW u \in Tasks
        PROVE  requests[u] <= OnDisk'[u].attempts + kills
    <3>1. /\ requests[u] \in Nat /\ kills \in Nat /\ OnDisk[u].attempts \in Nat
          /\ OnDisk'[u].attempts \in Nat
      BY <1>2, <1>5, CountsAreKept
    <3>2. CASE u = t
      <4>1. requests[u] <= OnDisk[u].attempts + kills + 1
        BY <3>1 DEF IInv, Accounted
      <4>2. OnDisk'[u].attempts = OnDisk[u].attempts + 1
        BY <1>2, <1>4, <1>5, <3>2
      <4> QED BY <3>1, <4>1, <4>2
    <3>3. CASE u # t
      <4>1. ~InFlight(u)
        BY <1>1, <1>2, <3>3, OneTurn DEF InFlight
      <4>2. requests[u] <= OnDisk[u].attempts + kills
        BY <3>1, <4>1 DEF IInv, Accounted
      <4> QED BY <1>5, <3>1, <3>3, <4>2
    <3> QED BY <3>2, <3>3
  <2>2. \A u \in Tasks : OnDisk'[u].attempts + kills \in Nat /\ ~InFlight(u)'
    BY <1>1, <1>2, <1>5, CountsAreKept DEF InFlight
  <2> QED BY <1>1, <2>1, <2>2 DEF Accounted
<1>11. Backed'
  BY <1>1, <1>4, <1>5 DEF IInv, Backed, HasReceipt, ReceiptIsValid
<1> QED BY <1>6, <1>7, <1>8, <1>9, <1>10, <1>11 DEF IInv

\* A run that raises or is killed leaves the disk as it was; a kill pays for the
\* request it interrupts.
LEMMA StopKeeps ==
  ASSUME IInv, stage' \in {"IDLE", "RAISED"}, entries' = Fresh, left' = {},
         attempts' = NotTrying, body' = NoBody, committed' = FALSE,
         UNCHANGED <<disk, requests, lost>>, kills' \in 0 .. MaxKills,
         (kills' = kills /\ body = NoBody) \/ kills' = kills + 1
  PROVE  IInv'
<1>1. OnDisk' = OnDisk /\ UNCHANGED <<checkpoint, blobs, receipts>>
  BY DEF OnDisk, disk
<1>2. TypeOK'
  BY <1>1, FreshType DEF IInv, TypeOK
<1>3. Resting' /\ Waiting' /\ Passed' /\ Flight' /\ \A u \in Tasks : ~InFlight(u)'
  BY Stopped
<1>4. SpentHasNoReceipt' /\ Backed'
  BY <1>1 DEF IInv, SpentHasNoReceipt, Backed, HasReceipt, ReceiptIsValid
<1>5. Accounted'
  <2>1. ASSUME NEW u \in Tasks
        PROVE  requests[u] <= OnDisk[u].attempts + kills'
    <3>1. requests[u] \in Nat /\ kills \in Nat /\ OnDisk[u].attempts \in Nat
      BY CountsAreKept DEF IInv
    <3>2. CASE kills' = kills + 1
      <4>1. requests[u] <= OnDisk[u].attempts + kills + 1
        BY <3>1 DEF IInv, Accounted
      <4> QED BY <3>1, <3>2, <4>1
    <3>3. CASE kills' = kills /\ body = NoBody
      BY <3>1, <3>3 DEF IInv, Accounted
    <3> QED BY <3>2, <3>3
  <2>2. \A u \in Tasks : OnDisk[u].attempts + kills' \in Nat
    BY CountsAreKept DEF IInv
  <2> QED BY <1>1, <1>3, <2>1, <2>2 DEF Accounted
<1> QED BY <1>2, <1>3, <1>4, <1>5 DEF IInv

LEMMA RaiseOrKillKeeps ==
  ASSUME IInv, Kill \/ \E t \in Tasks : RefuseTask(t)
  PROVE  IInv'
<1>1. CASE Kill
  <2>1. kills' \in 0 .. MaxKills
    BY <1>1, TransportAssumption DEF Kill, IInv, TypeOK
  <2> QED BY <1>1, <2>1, StopKeeps DEF Kill
<1>2. CASE \E t \in Tasks : RefuseTask(t)
  <2>1. PICK t \in Tasks : RefuseTask(t)
    BY <1>2
  <2>2. body = NoBody /\ kills' \in 0 .. MaxKills
    BY <2>1 DEF RefuseTask, IInv, Resting, TypeOK
  <2> QED BY <2>1, <2>2, StopKeeps DEF RefuseTask, Raise
<1> QED BY <1>1, <1>2

LEMMA CommitBodyKeeps ==
  ASSUME IInv, NEW t \in Tasks, CommitBody(t)
  PROVE  IInv'
<1>1. /\ blobs' = blobs \cup {body} /\ committed' = TRUE /\ OnDisk' = OnDisk
      /\ UNCHANGED <<stage, entries, left, attempts, body, checkpoint, receipts, requests,
                     kills, lost>>
      /\ Turn(t) /\ body # NoBody /\ ~committed
  BY DEF CommitBody, OnDisk
<1>2. TypeOK'
  BY <1>1 DEF IInv, TypeOK
<1>3. Resting' /\ Waiting' /\ Passed'
  BY <1>1 DEF IInv, Resting, Waiting, Passed, Turn
<1>4. Flight' /\ SpentHasNoReceipt'
  BY <1>1 DEF IInv, Flight, InFlight, Turn, SpentHasNoReceipt, HasReceipt
<1>5. Accounted'
  BY <1>1 DEF IInv, Accounted, InFlight, Turn
<1>6. Backed'
  BY <1>1 DEF IInv, Backed, HasReceipt, ReceiptIsValid
<1> QED BY <1>2, <1>3, <1>4, <1>5, <1>6 DEF IInv

LEMMA PublishReceiptKeeps ==
  ASSUME IInv, NEW t \in Tasks, PublishReceipt(t)
  PROVE  IInv'
<1> DEFINE r == [body |-> body, attempts |-> attempts]
<1>1. /\ receipts' = [receipts EXCEPT ![t] = r] /\ OnDisk' = OnDisk
      /\ UNCHANGED <<stage, entries, left, attempts, body, committed, checkpoint, blobs,
                     requests, kills, lost>>
      /\ Turn(t) /\ body # NoBody /\ committed /\ ~HasReceipt(t)
  BY DEF PublishReceipt, OnDisk, memory
<1>2. /\ TypeOK /\ body \in Bodies /\ body \in blobs /\ stage = "RUNNING" /\ t \in left
      /\ attempts \in 1 .. MaxAttempts /\ entries[t].status = "PENDING" /\ OnDisk[t] = entries[t]
      /\ receipts \in [Tasks -> Receipts \cup {NoReceipt}]
  <2>1. attempts # NotTrying /\ TypeOK /\ body \in Bodies /\ body \in blobs
    BY <1>1 DEF IInv, Resting, TypeOK
  <2> QED BY <1>1, <2>1, FlightFacts DEF TypeOK
<1>3. r \in Receipts /\ r.body = body
  BY <1>2 DEF Receipts
<1> HIDE DEF r
<1>4. TypeOK'
  BY <1>1, <1>2, <1>3 DEF TypeOK
<1>5. Resting' /\ Waiting' /\ Passed'
  BY <1>1 DEF IInv, Resting, Waiting, Passed
<1>6. /\ receipts'[t] = r
      /\ \A u \in Tasks \ {t} : receipts'[u] = receipts[u]
      /\ \A u \in Tasks \ {t} : ~InFlight(u)
  BY <1>1, <1>2, OneTurn DEF InFlight
<1>7. Flight'
  BY <1>1, <1>6 DEF IInv, Flight, InFlight, Turn
<1>8. SpentHasNoReceipt'
  BY <1>1, <1>2, <1>6 DEF IInv, SpentHasNoReceipt, HasReceipt, GivenUp
<1>9. Accounted'
  BY <1>1 DEF IInv, Accounted, InFlight, Turn
<1>10. Backed'
  BY <1>1, <1>2, <1>3, <1>6 DEF IInv, Backed, HasReceipt, ReceiptIsValid
<1> QED BY <1>4, <1>5, <1>7, <1>8, <1>9, <1>10 DEF IInv

LEMMA FinishRunKeeps ==
  ASSUME IInv, FinishRun
  PROVE  IInv'
<1>1. /\ stage' = "RETURNED" /\ checkpoint' = entries /\ entries' = entries
      /\ UNCHANGED <<left, attempts, body, committed, blobs, receipts, requests, kills, lost>>
      /\ stage = "RUNNING" /\ left = {} /\ \A t \in Tasks : entries[t].status = "COMPLETE"
  BY DEF FinishRun, memory
<1>2. /\ TypeOK /\ entries \in [Tasks -> EntryRecords]
      /\ attempts = NotTrying /\ body = NoBody /\ committed = FALSE
  BY <1>1 DEF IInv, TypeOK, Resting
<1>3. OnDisk' = entries
  BY <1>1, <1>2, SavedIsOnDisk
<1>4. TypeOK'
  BY <1>1, <1>2 DEF TypeOK
<1>5. Resting' /\ Waiting' /\ Passed' /\ Flight' /\ \A u \in Tasks : ~InFlight(u)'
  BY <1>1, <1>2, Stopped
<1>6. SpentHasNoReceipt' /\ Backed'
  BY <1>1, <1>3 DEF IInv, SpentHasNoReceipt, Backed, HasReceipt, ReceiptIsValid, GivenUp
<1>7. Accounted'
  <2>1. ASSUME NEW u \in Tasks
        PROVE  requests[u] <= entries[u].attempts + kills /\ entries[u].attempts + kills \in Nat
    <3>1. /\ requests[u] \in Nat /\ kills \in Nat /\ OnDisk[u].attempts \in Nat
          /\ entries[u].attempts \in Nat
      BY <1>2, CountsAreKept, EntryParts
    <3>2. requests[u] <= OnDisk[u].attempts + kills
      BY <1>2, <3>1 DEF IInv, Accounted
    <3>3. OnDisk[u].attempts <= entries[u].attempts
      BY <1>1 DEF IInv, Passed
    <3> QED BY <3>1, <3>2, <3>3
  <2> QED BY <1>1, <1>2, <1>3, <2>1 DEF Accounted
<1> QED BY <1>4, <1>5, <1>6, <1>7 DEF IInv

\* Between two runs: finalization, and files that are lost.
LEMMA BetweenRunsKeeps ==
  ASSUME IInv, Finalize \/ (\E b \in Bodies : LoseBlob(b)) \/ (\E t \in Tasks : LoseReceipt(t))
  PROVE  IInv'
<1>1. /\ stage # "RUNNING" /\ stage' \in {"IDLE", "FINALIZED"}
      /\ UNCHANGED <<entries, left, attempts, body, committed, checkpoint, requests, kills>>
      /\ OnDisk' = OnDisk
  BY DEF Finalize, LoseBlob, LoseReceipt, memory, disk, OnDisk
<1>2. attempts = NotTrying /\ body = NoBody /\ committed = FALSE /\ TypeOK
  BY <1>1 DEF IInv, Resting, TypeOK
<1>3. Resting' /\ Waiting' /\ Passed' /\ Flight' /\ \A u \in Tasks : ~InFlight(u)'
  BY <1>1, <1>2, Stopped
<1>4. Accounted'
  BY <1>1, <1>2, <1>3 DEF IInv, Accounted
<1>5. /\ \A u \in Tasks : receipts'[u] = receipts[u] \/ receipts'[u] = NoReceipt
      /\ TypeOK'
  <2>1. CASE Finalize
    BY <1>2, <2>1 DEF Finalize, TypeOK, memory, disk
  <2>2. CASE \E b \in Bodies : LoseBlob(b)
    <3>1. lost' \in 0 .. MaxLost
      BY <1>2, <2>2, TransportAssumption DEF LoseBlob, TypeOK
    <3> QED BY <1>1, <1>2, <2>2, <3>1 DEF LoseBlob, TypeOK
  <2>3. CASE \E t \in Tasks : LoseReceipt(t)
    <3>1. lost' \in 0 .. MaxLost
      BY <1>2, <2>3, TransportAssumption DEF LoseReceipt, TypeOK
    <3> QED BY <1>1, <1>2, <2>3, <3>1 DEF LoseReceipt, TypeOK
  <2> QED BY <2>1, <2>2, <2>3
<1>6. SpentHasNoReceipt'
  BY <1>1, <1>5 DEF IInv, SpentHasNoReceipt, HasReceipt
<1>7. Backed'
  <2>1. CASE Finalize
    BY <1>1, <2>1 DEF Finalize, IInv, Backed, HasReceipt, ReceiptIsValid, disk
  <2>2. CASE ~Finalize
    <3>1. lost' = lost + 1 /\ lost \in Nat
      BY <1>2, <2>2 DEF LoseBlob, LoseReceipt, TypeOK
    <3> QED BY <3>1 DEF Backed
  <2> QED BY <2>1, <2>2
<1> QED BY <1>3, <1>4, <1>5, <1>6, <1>7 DEF IInv

LEMMA StutterKeeps ==
  ASSUME IInv, UNCHANGED vars
  PROVE  IInv'
<1>1. UNCHANGED <<stage, entries, left, attempts, body, committed, checkpoint, blobs, receipts,
                  requests, kills, lost>> /\ OnDisk' = OnDisk
  BY DEF vars, memory, disk, OnDisk
<1> QED BY <1>1 DEF IInv, TypeOK, Resting, Waiting, Passed, Flight, SpentHasNoReceipt, Accounted,
                    Backed, InFlight, Turn, HasReceipt, ReceiptIsValid

LEMMA InitIInv == Init => IInv
<1> SUFFICES ASSUME Init PROVE IInv
  OBVIOUS
<1>1. OnDisk = Fresh /\ \A t \in Tasks : OnDisk[t].status = "PENDING" /\ OnDisk[t].attempts = 0
  BY EntryFields DEF Init, OnDisk, Fresh
<1>2. TypeOK
  <2>1. 0 \in 0 .. MaxKills /\ 0 \in 0 .. MaxLost /\ [t \in Tasks |-> 0] \in [Tasks -> Nat]
    BY TransportAssumption
  <2>2. [t \in Tasks |-> NoReceipt] \in [Tasks -> Receipts \cup {NoReceipt}]
    OBVIOUS
  <2> QED BY <2>1, <2>2, FreshType DEF Init, TypeOK
<1>3. Resting /\ Waiting /\ Passed /\ Flight
  BY DEF Init, Resting, Waiting, Passed, Flight, InFlight, Turn
<1>4. SpentHasNoReceipt /\ Backed
  BY <1>1 DEF Init, SpentHasNoReceipt, Backed, HasReceipt, GivenUp
<1>5. Accounted
  BY <1>1 DEF Init, Accounted
<1> QED BY <1>2, <1>3, <1>4, <1>5 DEF IInv

LEMMA StepKeeps ==
  ASSUME IInv, [Next]_vars
  PROVE  IInv'
<1>1. CASE StartRun \/ Finalize \/ FinishRun \/ Environment \/ UNCHANGED vars
  BY <1>1, StartRunKeeps, BetweenRunsKeeps, FinishRunKeeps, RaiseOrKillKeeps, StutterKeeps
     DEF Environment
<1>2. ASSUME NEW t \in Tasks,
             \/ AdoptReceipt(t) \/ RefuseTask(t) \/ BeginTask(t)
             \/ \E b \in Bodies : Receive(t, b)
             \/ RetryLater(t) \/ GiveUp(t, "FAILED") \/ GiveUp(t, "EXHAUSTED")
             \/ CommitBody(t) \/ PublishReceipt(t) \/ RecordComplete(t)
      PROVE  IInv'
  <2>1. "FAILED" \in GivenUp /\ "EXHAUSTED" \in GivenUp
    BY DEF GivenUp
  <2>2. CASE \E s \in GivenUp : GiveUp(t, s)
    BY <2>2, GiveUpKeeps
  <2>3. CASE \E b \in Bodies : Receive(t, b)
    BY <2>3, ReceiveKeeps
  <2> QED BY <1>2, <2>1, <2>2, <2>3, AdoptReceiptKeeps, RaiseOrKillKeeps, BeginTaskKeeps,
             RetryLaterKeeps, CommitBodyKeeps, PublishReceiptKeeps, RecordCompleteKeeps
<1> QED BY <1>1, <1>2 DEF Next, RunStep

LEMMA InvariantHolds == Spec => []IInv
BY InitIInv, StepKeeps, PTL DEF Spec

(* The properties *)

\* Every variable keeps the type of its field; in particular a recorded attempt
\* count never exceeds max_attempts, over any number of runs.
THEOREM TypeCorrect == Spec => []TypeOK
<1>1. IInv => TypeOK
  BY DEF IInv
<1> QED BY <1>1, InvariantHolds, PTL

\* As long as no file is lost, every COMPLETE task of the checkpoint has the
\* receipt it names and every receipt its body, wherever a run was killed.
THEOREM CompleteBacked == Spec => []CompleteIsBacked
<1>1. IInv => CompleteIsBacked
  BY DEF IInv, Backed, CompleteIsBacked, OnDisk
<1> QED BY <1>1, InvariantHolds, PTL

\* Over any number of runs a task is requested at most max_attempts times plus
\* once for each kill.
THEOREM BudgetKept == Spec => []BudgetOverRuns
<1>1. ASSUME IInv
      PROVE  BudgetOverRuns
  <2>1. ASSUME NEW t \in Tasks
        PROVE  requests[t] <= MaxAttempts + kills
    <3>1. /\ requests[t] \in Nat /\ kills \in Nat /\ OnDisk[t].attempts \in 0 .. MaxAttempts
          /\ MaxAttempts \in Nat
      BY <1>1, CountsAreKept DEF IInv
    <3>2. CASE InFlight(t) /\ body # NoBody
      <4>1. requests[t] <= OnDisk[t].attempts + kills + 1
        BY <1>1, <3>1 DEF IInv, Accounted
      <4>2. OnDisk[t].attempts + 1 <= MaxAttempts
        BY <1>1, <3>1, <3>2, FlightFacts DEF InFlight
      <4> QED BY <3>1, <4>1, <4>2
    <3>3. CASE ~(InFlight(t) /\ body # NoBody)
      BY <1>1, <3>1, <3>3 DEF IInv, Accounted
    <3> QED BY <3>2, <3>3
  <2> QED BY <2>1 DEF BudgetOverRuns
<1> QED BY <1>1, InvariantHolds, PTL

\* What a step that sends a request for t starts from.
LEMMA WhoSends ==
  ASSUME IInv, [Next]_vars, NEW t \in Tasks, Sent(t)
  PROVE  InFlight(t) /\ body = NoBody
<1>1. requests \in [Tasks -> Nat] /\ requests' # requests
  BY DEF IInv, TypeOK, Sent
<1>2. PICK u \in Tasks : Requesting(u) /\ Send(u)
  BY <1>1 DEF Next, RunStep, Environment, StartRun, Finalize, FinishRun, Kill, LoseBlob, LoseReceipt,
              AdoptReceipt, RefuseTask, BeginTask, Receive, RetryLater, GiveUp, CommitBody,
              PublishReceipt, RecordComplete, vars
<1>3. u = t
  BY <1>1, <1>2 DEF Send, Sent
<1> QED BY <1>2, <1>3 DEF Requesting, InFlight

\* No request is ever sent for a task that has a receipt or that the checkpoint
\* calls COMPLETE, in whatever state earlier runs left the disk.
THEOREM NothingRepeated == Spec => NeverRepeated
<1>1. ASSUME IInv, [Next]_vars
      PROVE  [\A t \in Tasks : Sent(t) =>
                ~HasReceipt(t) /\ (checkpoint # NoCheckpoint => checkpoint[t].status # "COMPLETE")]_vars
  <2>1. ASSUME NEW t \in Tasks, Sent(t)
        PROVE  ~HasReceipt(t) /\ (checkpoint # NoCheckpoint => checkpoint[t].status # "COMPLETE")
    <3>1. Turn(t) /\ attempts # NotTrying /\ body = NoBody
      BY <1>1, <2>1, WhoSends DEF InFlight
    <3>2. ~HasReceipt(t) /\ OnDisk[t].status = "PENDING"
      BY <1>1, <3>1, FlightFacts
    <3> QED BY <3>2 DEF OnDisk
  <2> QED BY <2>1
<1> QED BY <1>1, InvariantHolds, PTL DEF Spec, NeverRepeated

\* A checkpoint entry that has failed for good is never written again, and no
\* task from it on is requested: only its removal from the disk unblocks the plan.
THEOREM FailureIsFinal == Spec => FailureBlocksPlan
<1>1. ASSUME IInv, [Next]_vars, NEW t \in Tasks, Spent(t)
      PROVE  Spent(t)' /\ \A u \in Tasks : t <= u => ~Sent(u)
  <2>1. /\ checkpoint # NoCheckpoint /\ OnDisk = checkpoint /\ OnDisk[t].status \in GivenUp
        /\ ~HasReceipt(t) /\ checkpoint[t].status \notin {"PENDING", "COMPLETE"}
    BY <1>1 DEF Spent, OnDisk, GivenUp, IInv, SpentHasNoReceipt
  <2>2. stage = "RUNNING" => t \in left /\ entries[t] = checkpoint[t]
    BY <1>1, <2>1 DEF IInv, Passed, Waiting
  <2>3. ASSUME NEW u \in Tasks, InFlight(u)
        PROVE  ~(t <= u) /\ u # t
    <3>1. entries[u].status = "PENDING" /\ Turn(u) /\ stage = "RUNNING"
      BY <1>1, <2>3 DEF InFlight, IInv, Flight, Turn
    <3>2. u # t
      BY <2>1, <2>2, <3>1
    <3>3. u <= t
      BY <2>2, <3>1 DEF Turn
    <3> QED BY <3>2, <3>3, TransportAssumption
  <2>4. ASSUME NEW u \in Tasks, t <= u
        PROVE  ~Sent(u)
    BY <1>1, <2>3, <2>4, WhoSends
  <2>5. Spent(t)'
    <3>1. CASE checkpoint' = checkpoint
      BY <1>1, <3>1 DEF Spent
    <3>2. CASE checkpoint' # checkpoint
      <4>1. CASE FinishRun
        BY <2>2, <4>1 DEF FinishRun
      <4>2. CASE ~FinishRun
        <5>1. PICK u \in Tasks, e \in EntryRecords : /\ InFlight(u)
                       /\ checkpoint' = [entries EXCEPT ![u] = e]
          <6>1. CASE \E u \in Tasks : RetryLater(u) \/ GiveUp(u, "FAILED") \/ GiveUp(u, "EXHAUSTED")
            <7>1. PICK u \in Tasks : RetryLater(u) \/ GiveUp(u, "FAILED") \/ GiveUp(u, "EXHAUSTED")
              BY <6>1
            <7>2. /\ attempts + 1 \in 0 .. MaxAttempts
                  /\ InFlight(u)
              BY <1>1, <7>1, TransportAssumption
                 DEF RetryLater, GiveUp, Requesting, InFlight, IInv, TypeOK
            <7>3. /\ Pending(attempts + 1) \in EntryRecords
                  /\ Entry("FAILED", attempts + 1, NoReceipt) \in EntryRecords
                  /\ Entry("EXHAUSTED", attempts + 1, NoReceipt) \in EntryRecords
              BY <7>2, EntryKinds DEF GivenUp
            <7> QED BY <7>1, <7>2, <7>3 DEF RetryLater, GiveUp, SaveEntry
          <6>2. CASE \E u \in Tasks : RecordComplete(u)
            <7>1. PICK u \in Tasks : RecordComplete(u)
              BY <6>2
            <7>2. attempts # NotTrying /\ Turn(u) /\ body # NoBody
              BY <1>1, <7>1 DEF RecordComplete, IInv, Resting
            <7>3. attempts \in 1 .. MaxAttempts /\ receipts[u] \in Receipts
              BY <1>1, <7>1, <7>2, FlightFacts DEF RecordComplete, IInv, TypeOK, HasReceipt
            <7>4. Entry("COMPLETE", attempts, receipts[u]) \in EntryRecords
              BY <7>3, EntryKinds
            <7> QED BY <7>1, <7>2, <7>4 DEF RecordComplete, SaveEntry, InFlight
          <6> QED BY <1>1, <3>2, <4>2, <6>1, <6>2
                  DEF Next, RunStep, Environment, StartRun, Finalize, Kill, LoseBlob, LoseReceipt,
                      AdoptReceipt, RefuseTask, BeginTask, Receive, CommitBody, PublishReceipt,
                      vars, disk
        <5>2. u # t /\ stage = "RUNNING"
          BY <2>3, <5>1 DEF InFlight, Turn
        <5>3. /\ checkpoint' \in [Tasks -> EntryRecords] /\ checkpoint'[t] = checkpoint[t]
          BY <1>1, <2>2, <5>1, <5>2 DEF IInv, TypeOK
        <5>4. checkpoint' # NoCheckpoint
          BY <5>3, TransportAssumption DEF NoCheckpoint
        <5> QED BY <1>1, <5>3, <5>4 DEF Spent
      <4> QED BY <4>1, <4>2
    <3> QED BY <3>1, <3>2
  <2> QED BY <2>4, <2>5
<1>2. ASSUME IInv, [Next]_vars
      PROVE  [\A t, u \in Tasks : Spent(t) /\ t <= u => ~Sent(u) /\ Spent(t)']_vars
  BY <1>1, <1>2
<1> QED BY <1>2, InvariantHolds, PTL DEF Spec, FailureBlocksPlan

\* No run asks again for a task that an earlier request settled.
THEOREM SettledOnce == Spec => SettledStaysSettled
BY NothingRepeated, FailureIsFinal, PTL DEF SettledStaysSettled

(* The store *)

Manifests == [content : Contents, rows : SUBSET RowRecords, table : Tables]

StoreTypeOK ==
  /\ official \in [Items -> Contents] /\ past \in [Items -> SUBSET Contents]
  /\ raw \in [Items -> Contents \cup {Absent}]
  /\ receipt \in [Items -> [Contents -> Nat \cup {Absent}]]
  /\ table \in [Items -> [Contents -> Tables \cup {Absent}]]
  /\ manifest \in [Items -> SUBSET Manifests]
  /\ plan \in [PlannedItems -> [size : Nat, checksum : BOOLEAN]]
  /\ DOMAIN job = Workers

\* Rows of an archive that the exchange served, a month of candles.
ServedRows(i, rows) == \E served \in past[i] : rows = Rows(i, served) /\ NormalizesAt(i, served)

\* What is served was served, and what has a manifest is a month of candles.
StoreOk ==
  \A i \in Items :
    /\ official[i] \in past[i]
    /\ \A c \in Contents : receipt[i][c] # Absent => c \in past[i]
    /\ raw[i] # Absent => raw[i] \in past[i]
    /\ \A m \in manifest[i] : ServedRows(i, m.rows)

Seen(i, content) == content \in past[i] /\ receipt[i][content] # Absent

\* A record of a normalised item.
BackedRecord(i, record) ==
  /\ Seen(i, record.content)
  /\ ServedRows(i, record.rows)
  /\ \E m \in manifest[i] : m.content = record.content /\ m.rows = record.rows

Fields == {"kind", "plan", "todo", "item", "step", "seen", "rows", "found", "failed", "records"}
RowSteps == {"table", "write", "digest", "manifest"}

\* Every item of a batch is to do, failed or recorded; the one it works on is to
\* do, and what it saw of it then was served and, when it is normalised, has a
\* receipt, and the rows it read then are those of an archive that was served.
JobOk(j) ==
  /\ DOMAIN j = Fields
  /\ j.kind # "none" =>
       /\ j.todo \cup j.failed \cup DOMAIN j.records = PlannedItems
       /\ j.todo \cap j.failed = {} /\ j.todo \cap DOMAIN j.records = {}
       /\ j.failed \cap DOMAIN j.records = {}
       /\ j.plan \in [PlannedItems -> [size : Nat, checksum : BOOLEAN]]
       /\ j.kind = "normalize" => \A i \in DOMAIN j.records : BackedRecord(i, j.records[i])
       /\ j.step # "pick" => j.item \in j.todo
       /\ j.kind = "download" /\ j.step \notin {"pick", "checksum"} => j.seen \in past[j.item]
       /\ j.kind = "normalize" /\ j.step # "pick" => Seen(j.item, j.seen)
       /\ j.kind = "normalize" /\ j.step \in RowSteps => ServedRows(j.item, j.rows)
       /\ j.kind = "normalize" /\ j.step = "manifest" => j.found \in Tables

DatasetsOk ==
  \A dataset \in datasets :
    /\ dataset.failed = PlannedItems \ DOMAIN dataset.records
    /\ DOMAIN dataset.records \subseteq PlannedItems
    /\ \A i \in DOMAIN dataset.records : BackedRecord(i, dataset.records[i])

StoreInv ==
  /\ StoreTypeOK /\ StoreOk
  /\ \A w \in Workers : JobOk(job[w])
  /\ DatasetsOk

\* What the store has, it keeps.
StoreGrows ==
  \A i \in Items :
    /\ past[i] \subseteq past'[i] /\ manifest[i] \subseteq manifest'[i]
    /\ \A c \in Contents : receipt[i][c] # Absent => receipt'[i][c] # Absent

\* What was seen stays so, and a record of a normalised item stays one.
LEMMA SeenStays ==
  ASSUME StoreTypeOK, StoreGrows, NEW i \in Items
  PROVE  /\ \A content : Seen(i, content) => Seen(i, content)'
         /\ \A rows : ServedRows(i, rows) => ServedRows(i, rows)'
<1>1. past[i] \subseteq Contents
  BY DEF StoreTypeOK
<1>2. \A content : Seen(i, content) => Seen(i, content)'
  BY <1>1 DEF Seen, StoreGrows
<1>3. \A rows : ServedRows(i, rows) => ServedRows(i, rows)'
  BY DEF ServedRows, StoreGrows, Rows, NormalizesAt
<1> QED BY <1>2, <1>3

LEMMA BackedStays ==
  ASSUME StoreTypeOK, StoreGrows, NEW i \in Items, NEW record, BackedRecord(i, record)
  PROVE  BackedRecord(i, record)'
<1>1. Seen(i, record.content)' /\ ServedRows(i, record.rows)'
  BY SeenStays DEF BackedRecord
<1>2. \E m \in manifest'[i] : m.content = record.content /\ m.rows = record.rows
  BY DEF BackedRecord, StoreGrows
<1> QED BY <1>1, <1>2 DEF BackedRecord

\* The other workers, and the datasets that were written, notice nothing.
LEMMA JobStays ==
  ASSUME StoreTypeOK, StoreGrows, NEW j, JobOk(j)
  PROVE  JobOk(j)'
<1>1. SUFFICES ASSUME j.kind # "none"
               PROVE  /\ j.kind = "normalize" => \A i \in DOMAIN j.records : BackedRecord(i, j.records[i])'
                      /\ j.kind = "download" /\ j.step \notin {"pick", "checksum"} => j.seen \in past'[j.item]
                      /\ j.kind = "normalize" /\ j.step # "pick" => Seen(j.item, j.seen)'
                      /\ j.kind = "normalize" /\ j.step \in RowSteps => ServedRows(j.item, j.rows)'
  BY DEF JobOk
<1>2. DOMAIN j.records \subseteq Items /\ (j.step # "pick" => j.item \in Items)
  BY <1>1, StoreAssumption DEF JobOk
<1>3. j.kind = "normalize" => \A i \in DOMAIN j.records : BackedRecord(i, j.records[i])'
  BY <1>1, <1>2, BackedStays DEF JobOk
<1>4. j.kind = "download" /\ j.step \notin {"pick", "checksum"} => j.seen \in past'[j.item]
  BY <1>1, <1>2 DEF JobOk, StoreGrows
<1>5. /\ j.kind = "normalize" /\ j.step # "pick" => Seen(j.item, j.seen)'
      /\ j.kind = "normalize" /\ j.step \in RowSteps => ServedRows(j.item, j.rows)'
  BY <1>1, <1>2, SeenStays DEF JobOk, RowSteps
<1> QED BY <1>3, <1>4, <1>5

LEMMA DatasetsStay ==
  ASSUME StoreTypeOK, StoreGrows, DatasetsOk, UNCHANGED datasets
  PROVE  DatasetsOk'
<1>1. PlannedItems \subseteq Items
  BY StoreAssumption
<1> QED BY <1>1, BackedStays DEF DatasetsOk

\* A step of a worker.
LEMMA StepHolds ==
  ASSUME StoreInv, NEW w \in Workers, job' = [job EXCEPT ![w] = job'[w]],
         StoreTypeOK', StoreOk', StoreGrows, JobOk(job[w])', DatasetsOk'
  PROVE  StoreInv'
<1>1. \A v \in Workers \ {w} : job'[v] = job[v]
  BY DEF StoreInv, StoreTypeOK
<1>2. ASSUME NEW v \in Workers PROVE JobOk(job[v])'
  <2>1. CASE v = w
    BY <2>1
  <2>2. CASE v # w
    <3>1. PICK j : j = job[v]
      OBVIOUS
    <3>2. JobOk(j) /\ job'[v] = j
      BY <1>1, <2>2, <3>1 DEF StoreInv
    <3>3. JobOk(j)'
      BY <3>2, JobStays DEF StoreInv
    <3> QED BY <3>2, <3>3 DEF JobOk
  <2> QED BY <2>1, <2>2
<1> QED BY <1>2 DEF StoreInv

\* A step after which the job of a worker is new, and new was a job before it.
LEMMA NewJobHolds ==
  ASSUME StoreInv, NEW w \in Workers, NEW new, job' = [job EXCEPT ![w] = new], JobOk(new),
         StoreTypeOK', StoreOk', StoreGrows, UNCHANGED datasets
  PROVE  StoreInv'
<1>1. job'[w] = new /\ job' = [job EXCEPT ![w] = job'[w]]
  BY DEF StoreInv, StoreTypeOK
<1>2. PICK j : j = new
  OBVIOUS
<1>3. JobOk(j)' /\ job'[w] = j
  BY <1>1, <1>2, JobStays DEF StoreInv
<1>4. JobOk(job[w])'
  BY <1>3 DEF JobOk
<1>5. DatasetsOk'
  BY DatasetsStay DEF StoreInv
<1> QED BY <1>1, <1>4, <1>5, StepHolds

\* What a worker makes of its batch. The store may have grown meanwhile.
LEMMA FailedJob ==
  ASSUME NEW j, JobOk(j), j.kind # "none", NEW i \in j.todo
  PROVE  JobOk([j EXCEPT !.step = "pick", !.todo = @ \ {i}, !.failed = @ \cup {i}])
<1> DEFINE new == [j EXCEPT !.step = "pick", !.todo = @ \ {i}, !.failed = @ \cup {i}]
<1>1. /\ DOMAIN new = Fields /\ new.kind = j.kind /\ new.step = "pick" /\ new.records = j.records
      /\ new.todo = j.todo \ {i} /\ new.failed = j.failed \cup {i} /\ new.plan = j.plan
  BY DEF JobOk, Fields
<1> HIDE DEF new
<1>2. JobOk(new)
  BY <1>1 DEF JobOk, RowSteps
<1> QED BY <1>2 DEF new

LEMMA DoneJob ==
  ASSUME NEW j, JobOk(j), j.kind # "none", NEW i \in j.todo, NEW record,
         j.kind = "normalize" => BackedRecord(i, record)
  PROVE  JobOk([j EXCEPT !.step = "pick", !.todo = @ \ {i},
                         !.records = [k \in DOMAIN @ \cup {i} |-> IF k = i THEN record ELSE @[k]]])
<1> DEFINE records == [k \in DOMAIN j.records \cup {i} |-> IF k = i THEN record ELSE j.records[k]]
           new == [j EXCEPT !.step = "pick", !.todo = @ \ {i},
                            !.records = [k \in DOMAIN @ \cup {i} |-> IF k = i THEN record ELSE @[k]]]
<1>1. /\ DOMAIN new = Fields /\ new.kind = j.kind /\ new.step = "pick" /\ new.records = records
      /\ new.todo = j.todo \ {i} /\ new.failed = j.failed /\ new.plan = j.plan
  BY DEF JobOk, Fields
<1>2. /\ DOMAIN records = DOMAIN j.records \cup {i}
      /\ \A k \in DOMAIN records : k # i => records[k] = j.records[k]
      /\ records[i] = record
  OBVIOUS
<1> HIDE DEF new, records
<1>3. j.kind = "normalize" => \A k \in DOMAIN records : BackedRecord(k, records[k])
  BY <1>2 DEF JobOk
<1>4. JobOk(new)
  BY <1>1, <1>2, <1>3 DEF JobOk, RowSteps
<1> QED BY <1>4 DEF new

\* The same, of the store it leaves behind.
LEMMA DoneJobNext ==
  ASSUME NEW j, JobOk(j)', j.kind # "none", NEW i \in j.todo, NEW record,
         j.kind = "normalize" => BackedRecord(i, record)',
         NEW new, new = [j EXCEPT !.step = "pick", !.todo = @ \ {i},
                           !.records = [k \in DOMAIN @ \cup {i} |-> IF k = i THEN record ELSE @[k]]]
  PROVE  JobOk(new)'
<1> DEFINE records == [k \in DOMAIN j.records \cup {i} |-> IF k = i THEN record ELSE j.records[k]]
<1>1. /\ DOMAIN new = Fields /\ new.kind = j.kind /\ new.step = "pick" /\ new.records = records
      /\ new.todo = j.todo \ {i} /\ new.failed = j.failed /\ new.plan = j.plan
  BY DEF JobOk, Fields
<1>2. /\ DOMAIN records = DOMAIN j.records \cup {i}
      /\ \A k \in DOMAIN records : k # i => records[k] = j.records[k]
      /\ records[i] = record
  OBVIOUS
<1> HIDE DEF records
<1>3. j.kind = "normalize" => \A k \in DOMAIN records : BackedRecord(k, records[k])'
  BY <1>2 DEF JobOk
<1>4. JobOk(new)'
  BY <1>1, <1>2, <1>3 DEF JobOk, RowSteps
<1> QED BY <1>4

\* A step that changes no more than the job of one worker.
LEMMA JobStep ==
  ASSUME StoreInv, NEW w \in Workers, NEW new, job' = [job EXCEPT ![w] = new], JobOk(new),
         UNCHANGED << exchange, raw, receipt, tables, datasets >>
  PROVE  StoreInv'
<1>1. StoreTypeOK'
  BY DEF StoreInv, StoreTypeOK, exchange, tables
<1>2. StoreOk'
  BY DEF StoreInv, StoreOk, ServedRows, exchange, tables
<1>3. StoreGrows
  BY DEF StoreGrows, exchange, tables
<1> QED BY <1>1, <1>2, <1>3, NewJobHolds

LEMMA WorkingJob ==
  ASSUME StoreInv, NEW w \in Workers
  PROVE  /\ JobOk(job[w]) /\ DOMAIN job[w] = Fields
         /\ job[w].kind # "none" =>
              /\ \A i \in job[w].todo : i \in Items
              /\ job[w].step # "pick" => job[w].item \in job[w].todo /\ job[w].item \in Items
BY StoreAssumption DEF StoreInv, JobOk

LEMMA BeginHolds ==
  ASSUME StoreInv, NEW w \in Workers, NEW kind \in {"download", "normalize"}, BeginBatch(w, kind)
  PROVE  StoreInv'
<1> DEFINE refused == {i \in PlannedItems : kind = "download" /\ ~plan[i].checksum}
           new == [Idle EXCEPT !.kind = kind, !.plan = plan, !.todo = PlannedItems \ refused,
                               !.failed = refused]
<1>1. /\ DOMAIN new = Fields /\ new.kind = kind /\ new.step = "pick" /\ DOMAIN new.records = {}
      /\ new.todo = PlannedItems \ refused /\ new.failed = refused /\ new.plan = plan
  BY DEF Idle, Fields
<1>2. refused \subseteq PlannedItems /\ plan \in [PlannedItems -> [size : Nat, checksum : BOOLEAN]]
  BY DEF StoreInv, StoreTypeOK
<1>3. job' = [job EXCEPT ![w] = new]
  BY DEF BeginBatch
<1> HIDE DEF new, refused
<1>4. JobOk(new)
  BY <1>1, <1>2 DEF JobOk, RowSteps
<1> QED BY <1>3, <1>4, JobStep DEF BeginBatch

LEMMA DoneHolds ==
  ASSUME StoreInv, NEW w \in Workers, job[w].kind # "none", NEW i \in job[w].todo, NEW record,
         job[w].kind = "normalize" => BackedRecord(i, record), Done(w, i, record),
         UNCHANGED << exchange, raw, receipt, tables, datasets >>
  PROVE  StoreInv'
<1> DEFINE new == [job[w] EXCEPT !.step = "pick", !.todo = @ \ {i},
                     !.records = [k \in DOMAIN @ \cup {i} |-> IF k = i THEN record ELSE @[k]]]
<1>1. job' = [job EXCEPT ![w] = new]
  BY DEF Done, StoreInv, StoreTypeOK
<1>2. JobOk(new)
  BY DoneJob DEF StoreInv
<1> HIDE DEF new
<1> QED BY <1>1, <1>2, JobStep

LEMMA FailHolds ==
  ASSUME StoreInv, NEW w \in Workers, job[w].kind # "none", NEW i \in job[w].todo, Fail(w, i),
         UNCHANGED << exchange, raw, receipt, tables, datasets >>
  PROVE  StoreInv'
<1> DEFINE new == [job[w] EXCEPT !.step = "pick", !.todo = @ \ {i}, !.failed = @ \cup {i}]
<1>1. job' = [job EXCEPT ![w] = new]
  BY DEF Fail, StoreInv, StoreTypeOK
<1>2. JobOk(new)
  BY FailedJob DEF StoreInv
<1> HIDE DEF new
<1> QED BY <1>1, <1>2, JobStep

\* A job that goes on to step, having seen content.
LEMMA AdvancedJob ==
  ASSUME NEW j, JobOk(j), j.kind # "none", j.step # "pick",
         NEW step, step \notin {"pick", "manifest"}, NEW content,
         j.kind = "download" /\ step # "checksum" => content \in past[j.item],
         j.kind = "normalize" => Seen(j.item, content),
         j.kind = "normalize" /\ step \in RowSteps => ServedRows(j.item, j.rows)
  PROVE  JobOk([j EXCEPT !.step = step, !.seen = content])
<1> DEFINE new == [j EXCEPT !.step = step, !.seen = content]
<1>1. /\ DOMAIN new = Fields /\ new.kind = j.kind /\ new.step = step /\ new.seen = content
      /\ new.item = j.item /\ new.todo = j.todo /\ new.failed = j.failed /\ new.plan = j.plan
      /\ new.records = j.records /\ new.rows = j.rows
  BY DEF JobOk, Fields
<1> HIDE DEF new
<1>2. JobOk(new)
  BY <1>1 DEF JobOk
<1> QED BY <1>2 DEF new

LEMMA AdvanceHolds ==
  ASSUME StoreInv, NEW w \in Workers, job[w].kind # "none", job[w].step # "pick",
         NEW step, step \notin {"pick", "manifest"}, NEW content, Advance(w, step, content),
         job[w].kind = "download" /\ step # "checksum" => content \in past[job[w].item],
         job[w].kind = "normalize" => Seen(job[w].item, content),
         job[w].kind = "normalize" /\ step \in RowSteps => ServedRows(job[w].item, job[w].rows),
         UNCHANGED << exchange, raw, receipt, tables, datasets >>
  PROVE  StoreInv'
<1> DEFINE new == [job[w] EXCEPT !.step = step, !.seen = content]
<1>1. job' = [job EXCEPT ![w] = new]
  BY DEF Advance, StoreInv, StoreTypeOK
<1>2. JobOk(new)
  BY AdvancedJob DEF StoreInv
<1> HIDE DEF new
<1> QED BY <1>1, <1>2, JobStep

LEMMA DownloadPickHolds ==
  ASSUME StoreInv, NEW w \in Workers, NEW i \in PlannedItems, DownloadPick(w, i)
  PROVE  StoreInv'
<1>1. /\ JobOk(job[w]) /\ job[w].kind = "download" /\ i \in job[w].todo
      /\ UNCHANGED << exchange, raw, receipt, tables, datasets >> /\ DOMAIN job[w] = Fields
  BY WorkingJob DEF DownloadPick, At
<1>2. CASE Receipted(w, i)
  BY <1>1, <1>2, DoneHolds DEF DownloadPick
<1>3. CASE ~Receipted(w, i)
  <2> DEFINE new == [job[w] EXCEPT !.item = i, !.step = "checksum"]
  <2>1. job' = [job EXCEPT ![w] = new]
    BY <1>3 DEF DownloadPick, StoreInv, StoreTypeOK
  <2>2. /\ DOMAIN new = Fields /\ new.kind = "download" /\ new.step = "checksum" /\ new.item = i
        /\ new.todo = job[w].todo /\ new.failed = job[w].failed /\ new.records = job[w].records
        /\ new.plan = job[w].plan
    BY <1>1 DEF Fields
  <2> HIDE DEF new
  <2>3. JobOk(new)
    BY <1>1, <2>2 DEF JobOk
  <2> QED BY <1>1, <2>1, <2>3, JobStep
<1> QED BY <1>2, <1>3

\* The steps of a download that look at the disk and the exchange and write nothing.
LEMMA FetchingHolds ==
  ASSUME StoreInv, NEW w \in Workers, Checksum(w) \/ Look(w) \/ Fetch(w) \/ Measure(w)
  PROVE  StoreInv'
<1> DEFINE i == job[w].item
<1>1. /\ JobOk(job[w]) /\ job[w].kind = "download" /\ job[w].step # "pick"
      /\ i \in job[w].todo /\ i \in Items
      /\ UNCHANGED << exchange, raw, receipt, tables, datasets >>
      /\ job[w].step # "checksum" => job[w].seen \in past[i]
  BY WorkingJob DEF Checksum, Look, Fetch, Measure, At, JobOk
<1>2. CASE Fail(w, i)
  BY <1>1, <1>2, FailHolds
<1>3. official[i] \in past[i]
  BY <1>1 DEF StoreInv, StoreOk
<1>4. ASSUME NEW step \in {"look", "fetch", "place", "size", "receipt"}, NEW content \in past[i],
             Advance(w, step, content)
      PROVE  StoreInv'
  BY <1>1, <1>4, AdvanceHolds
<1>5. CASE Checksum(w)
  BY <1>2, <1>3, <1>4, <1>5 DEF Checksum
<1>6. CASE Look(w)
  <2>1. job[w].step = "look"
    BY <1>6 DEF Look, At
  <2> QED BY <1>1, <1>2, <1>4, <1>6, <2>1 DEF Look
<1>7. CASE Fetch(w)
  <2>1. job[w].step = "fetch"
    BY <1>7 DEF Fetch, At
  <2> QED BY <1>1, <1>2, <1>4, <1>7, <2>1 DEF Fetch, MayReplace
<1>8. CASE Measure(w)
  <2>1. job[w].step = "size"
    BY <1>8 DEF Measure, At
  <2> QED BY <1>1, <1>2, <1>4, <1>8, <2>1 DEF Measure
<1> QED BY <1>5, <1>6, <1>7, <1>8

LEMMA PlaceHolds ==
  ASSUME StoreInv, NEW w \in Workers, Place(w)
  PROVE  StoreInv'
<1> DEFINE i == job[w].item
           bytes == job[w].seen
           new == [job[w] EXCEPT !.step = "size", !.seen = bytes]
<1>1. /\ JobOk(job[w]) /\ job[w].kind = "download" /\ job[w].step = "place"
      /\ i \in job[w].todo /\ i \in Items /\ bytes \in past[i]
      /\ UNCHANGED << exchange, receipt, tables, datasets >>
  BY WorkingJob DEF Place, At, JobOk
<1>2. bytes \in Contents
  BY <1>1 DEF StoreInv, StoreTypeOK
<1>3. job' = [job EXCEPT ![w] = new] /\ raw' = [raw EXCEPT ![i] = bytes]
  BY DEF Place, Advance, StoreInv, StoreTypeOK
<1>4. JobOk(new)
  BY <1>1, AdvancedJob
<1> HIDE DEF new
<1>5. StoreTypeOK'
  BY <1>1, <1>2, <1>3 DEF StoreInv, StoreTypeOK, exchange, tables
<1>6. ASSUME NEW k \in Items, raw'[k] # Absent PROVE raw'[k] \in past[k]
  BY <1>1, <1>2, <1>3, <1>6 DEF StoreInv, StoreTypeOK, StoreOk
<1>7. StoreOk'
  BY <1>1, <1>6 DEF StoreInv, StoreOk, ServedRows, exchange, tables
<1>8. StoreGrows
  BY <1>1 DEF StoreGrows, exchange, tables
<1> QED BY <1>1, <1>3, <1>4, <1>5, <1>7, <1>8, NewJobHolds

LEMMA ReceiptHolds ==
  ASSUME StoreInv, NEW w \in Workers, Receipt(w)
  PROVE  StoreInv'
<1> DEFINE i == job[w].item
           content == job[w].seen
           size == job[w].plan[i].size
<1>1. /\ JobOk(job[w]) /\ job[w].kind = "download" /\ job[w].step = "receipt"
      /\ i \in job[w].todo /\ i \in Items /\ content \in past[i] /\ size \in Nat
      /\ UNCHANGED << exchange, raw, tables, datasets >>
  BY WorkingJob DEF Receipt, At, JobOk
<1>2. IF raw[i] = content THEN WriteReceipt(i, content, size) /\ Done(w, i, Record(content, {}, Absent))
      ELSE Fail(w, i) /\ UNCHANGED receipt
  BY DEF Receipt
<1>3. CASE raw[i] # content
  BY <1>1, <1>2, <1>3, FailHolds
<1>4. CASE raw[i] = content
  <2>1. content \in Contents /\ size # Absent
    BY <1>1, StoreAssumption DEF StoreInv, StoreTypeOK
  <2>2. /\ receipt' \in [Items -> [Contents -> Nat \cup {Absent}]]
        /\ \A k \in Items, c \in Contents :
             /\ receipt[k][c] # Absent => receipt'[k][c] # Absent
             /\ receipt'[k][c] # Absent => receipt[k][c] # Absent \/ (k = i /\ c = content)
    <3>1. receipt \in [Items -> [Contents -> Nat \cup {Absent}]]
      BY DEF StoreInv, StoreTypeOK
    <3> DEFINE x == IF receipt[i][content] = Absent THEN size ELSE receipt[i][content]
               row == [receipt[i] EXCEPT ![content] = x]
    <3>2. receipt' = [receipt EXCEPT ![i] = row]
      BY <1>1, <1>2, <1>4, <2>1, <3>1 DEF WriteReceipt
    <3>3. x \in Nat \cup {Absent} /\ x # Absent
      BY <1>1, <2>1, <3>1
    <3> HIDE DEF x
    <3>4. row \in [Contents -> Nat \cup {Absent}] /\ row[content] # Absent
          /\ \A c \in Contents : c # content => row[c] = receipt[i][c]
      BY <1>1, <2>1, <3>1, <3>3
    <3> HIDE DEF row
    <3> QED BY <1>1, <3>1, <3>2, <3>4
  <2> DEFINE new == [job[w] EXCEPT !.step = "pick", !.todo = @ \ {i},
                       !.records = [k \in DOMAIN @ \cup {i} |->
                                      IF k = i THEN Record(content, {}, Absent) ELSE @[k]]]
  <2>3. job' = [job EXCEPT ![w] = new]
    BY <1>2, <1>4 DEF Done, StoreInv, StoreTypeOK
  <2>4. JobOk(new)
    BY <1>1, DoneJob
  <2> HIDE DEF new
  <2>5. StoreGrows
    BY <1>1, <2>2 DEF StoreGrows, exchange, tables
  <2>6. StoreTypeOK'
    <3>1. DOMAIN job' = Workers
      BY <2>3 DEF StoreInv, StoreTypeOK
    <3> QED BY <1>1, <2>2, <3>1 DEF StoreInv, StoreTypeOK, exchange, tables
  <2>7. StoreOk'
    BY <1>1, <2>2 DEF StoreInv, StoreOk, ServedRows, exchange, tables
  <2> QED BY <1>1, <2>3, <2>4, <2>5, <2>6, <2>7, NewJobHolds
<1> QED BY <1>3, <1>4

LEMMA NormalizePickHolds ==
  ASSUME StoreInv, NEW w \in Workers, NEW i \in PlannedItems, NormalizePick(w, i)
  PROVE  StoreInv'
<1> DEFINE existing == ExistingNormalization(i, raw[i])
<1>1. /\ JobOk(job[w]) /\ job[w].kind = "normalize" /\ i \in job[w].todo /\ i \in Items
      /\ UNCHANGED << exchange, raw, receipt, tables, datasets >> /\ DOMAIN job[w] = Fields
      /\ job[w].plan \in [PlannedItems -> [size : Nat, checksum : BOOLEAN]]
  BY WorkingJob DEF NormalizePick, At, JobOk
<1>2. CASE ~DownloadReceipt(w, i) \/ Cardinality(existing) > 1
  BY <1>1, <1>2, FailHolds DEF NormalizePick
<1>3. CASE ~(~DownloadReceipt(w, i) \/ Cardinality(existing) > 1)
  <2>1. Seen(i, raw[i]) /\ raw[i] \in Contents
    <3>1. raw[i] # Absent /\ receipt[i][raw[i]] = job[w].plan[i].size
      BY <1>3 DEF DownloadReceipt, Receipted, HasPlannedSize
    <3>2. job[w].plan[i].size # Absent
      BY <1>1, StoreAssumption
    <3> QED BY <1>1, <3>1, <3>2 DEF Seen, StoreInv, StoreTypeOK, StoreOk
  <2>2. CASE existing # {}
    <3>1. PICK m \in existing : Done(w, i, Record(raw[i], m.rows, m.table))
      BY <1>3, <2>2 DEF NormalizePick
    <3>2. m \in manifest[i] /\ m.content = raw[i] /\ ServedRows(i, m.rows)
      BY <1>1, <3>1 DEF ExistingNormalization, StoreInv, StoreOk
    <3>3. BackedRecord(i, Record(raw[i], m.rows, m.table))
      BY <2>1, <3>2 DEF BackedRecord, Record
    <3> QED BY <1>1, <3>1, <3>3, DoneHolds
  <2>3. CASE existing = {}
    <3> DEFINE new == [job[w] EXCEPT !.item = i, !.step = "hash", !.seen = raw[i]]
    <3>1. job' = [job EXCEPT ![w] = new]
      BY <1>3, <2>3 DEF NormalizePick, StoreInv, StoreTypeOK
    <3>2. /\ DOMAIN new = Fields /\ new.kind = "normalize" /\ new.step = "hash" /\ new.item = i
          /\ new.todo = job[w].todo /\ new.failed = job[w].failed /\ new.records = job[w].records
          /\ new.seen = raw[i] /\ new.plan = job[w].plan
      BY <1>1 DEF Fields
    <3> HIDE DEF new
    <3>3. JobOk(new)
      BY <1>1, <2>1, <3>2 DEF JobOk, RowSteps
    <3> QED BY <1>1, <3>1, <3>3, JobStep
  <2> QED BY <2>2, <2>3
<1> QED BY <1>2, <1>3

\* The steps of a normalisation that read, and write nothing.
LEMMA ReadingHolds ==
  ASSUME StoreInv, NEW w \in Workers,
         HashArchive(w) \/ ReadArchive(w) \/ FindTable(w) \/ HashTable(w)
  PROVE  StoreInv'
<1> DEFINE i == job[w].item
           content == job[w].seen
           j == job[w]
<1>1. /\ JobOk(j) /\ j.kind = "normalize" /\ j.step # "pick" /\ DOMAIN j = Fields
      /\ i \in j.todo /\ i \in Items /\ Seen(i, content)
      /\ UNCHANGED << exchange, raw, receipt, tables, datasets >>
      /\ j.step \in RowSteps => ServedRows(i, j.rows)
  BY WorkingJob DEF HashArchive, ReadArchive, FindTable, HashTable, At, JobOk
<1>2. CASE Fail(w, i)
  BY <1>1, <1>2, FailHolds
<1>3. CASE HashArchive(w)
  <2>1. ASSUME Advance(w, "read", content) PROVE StoreInv'
    BY <1>1, <2>1, AdvanceHolds DEF RowSteps
  <2> QED BY <1>2, <1>3, <2>1 DEF HashArchive
<1>4. CASE ReadArchive(w) /\ ~Fail(w, i)
  <2> DEFINE new == [j EXCEPT !.step = "table", !.rows = Rows(i, raw[i])]
  <2>1. raw[i] # Absent /\ NormalizesAt(i, raw[i]) /\ job' = [job EXCEPT ![w] = new]
    BY <1>4 DEF ReadArchive, StoreInv, StoreTypeOK
  <2>2. ServedRows(i, Rows(i, raw[i]))
    BY <1>1, <2>1 DEF ServedRows, StoreInv, StoreOk
  <2>3. /\ DOMAIN new = Fields /\ new.kind = "normalize" /\ new.step = "table" /\ new.item = i
        /\ new.todo = j.todo /\ new.failed = j.failed /\ new.records = j.records
        /\ new.seen = content /\ new.plan = j.plan /\ new.rows = Rows(i, raw[i])
    BY <1>1 DEF Fields
  <2> HIDE DEF new
  <2>4. JobOk(new)
    BY <1>1, <2>2, <2>3 DEF JobOk
  <2> QED BY <1>1, <2>1, <2>4, JobStep
<1>5. CASE FindTable(w)
  <2>1. j.step = "table"
    BY <1>5 DEF FindTable, At
  <2>2. ASSUME NEW step \in {"write", "digest"}, Advance(w, step, content) PROVE StoreInv'
    BY <1>1, <2>1, <2>2, AdvanceHolds DEF RowSteps
  <2> QED BY <1>2, <1>5, <2>2 DEF FindTable
<1>6. CASE HashTable(w) /\ ~Fail(w, i)
  <2> DEFINE new == [j EXCEPT !.step = "manifest", !.found = table[i][content]]
  <2>1. table[i][content] # Absent /\ job' = [job EXCEPT ![w] = new] /\ j.step = "digest"
    BY <1>6 DEF HashTable, At, StoreInv, StoreTypeOK
  <2>2. table[i][content] \in Tables
    <3>1. content \in Contents
      BY <1>1 DEF Seen, StoreInv, StoreTypeOK
    <3> QED BY <1>1, <2>1, <3>1 DEF StoreInv, StoreTypeOK
  <2>3. /\ DOMAIN new = Fields /\ new.kind = "normalize" /\ new.step = "manifest" /\ new.item = i
        /\ new.todo = j.todo /\ new.failed = j.failed /\ new.records = j.records
        /\ new.seen = content /\ new.plan = j.plan /\ new.rows = j.rows
        /\ new.found = table[i][content]
    BY <1>1 DEF Fields
  <2> HIDE DEF new
  <2>4. JobOk(new)
    BY <1>1, <2>1, <2>2, <2>3 DEF JobOk, RowSteps
  <2> QED BY <1>1, <2>1, <2>4, JobStep
<1> QED BY <1>2, <1>3, <1>4, <1>5, <1>6

\* The members of a sequence.
LEMMA SeqMembers ==
  ASSUME NEW E, NEW c \in Seq(E)
  PROVE  /\ ToSet(c) = {c[i] : i \in 1 .. Len(c)} /\ ToSet(c) \subseteq E
         /\ \A x : x \in ToSet(c) <=> \E i \in 1 .. Len(c) : c[i] = x
<1>1. DOMAIN c = 1 .. Len(c) /\ \A i \in 1 .. Len(c) : c[i] \in E
  BY LenProperties, ElementOfSeq
<1> QED BY <1>1 DEF ToSet

\* Rows that were served are rows.
LEMMA ServedAreRows ==
  ASSUME StoreTypeOK, NEW i \in Items, NEW rows, ServedRows(i, rows)
  PROVE  rows \in SUBSET RowRecords
<1>1. PICK served \in past[i] : rows = ToSet(RowsOf[i][served])
  BY DEF ServedRows, Rows
<1>2. served \in Contents
  BY <1>1 DEF StoreTypeOK
<1>3. RowsOf[i][served] \in Seq(RowRecords)
  BY <1>2, StoreAssumption
<1> QED BY <1>1, <1>3, SeqMembers

LEMMA WriteTableHolds ==
  ASSUME StoreInv, NEW w \in Workers, WriteTable(w)
  PROVE  StoreInv'
<1> DEFINE i == job[w].item
           content == job[w].seen
           made == [writer |-> w, whole |-> TRUE, rows |-> job[w].rows]
           new == [job[w] EXCEPT !.step = "digest", !.seen = content]
<1>1. /\ JobOk(job[w]) /\ job[w].kind = "normalize" /\ job[w].step = "write"
      /\ i \in job[w].todo /\ i \in Items /\ Seen(i, content) /\ ServedRows(i, job[w].rows)
      /\ UNCHANGED << exchange, raw, receipt, manifest, datasets >>
  BY WorkingJob DEF WriteTable, At, JobOk, RowSteps
<1>2. content \in Contents /\ made \in Tables
  <2>1. job[w].rows \in SUBSET RowRecords
    BY <1>1, ServedAreRows DEF StoreInv
  <2> QED BY <1>1, <2>1 DEF Seen, StoreInv, StoreTypeOK, Tables
<1>3. table' = [table EXCEPT ![i][content] = made] /\ job' = [job EXCEPT ![w] = new]
  BY DEF WriteTable, Advance, StoreInv, StoreTypeOK
<1>4. JobOk(new)
  BY <1>1, AdvancedJob
<1> HIDE DEF new, made
<1>5. StoreTypeOK'
  <2>1. table' \in [Items -> [Contents -> Tables \cup {Absent}]]
    BY <1>1, <1>2, <1>3 DEF StoreInv, StoreTypeOK
  <2>2. DOMAIN job' = Workers
    BY <1>3 DEF StoreInv, StoreTypeOK
  <2> QED BY <1>1, <2>1, <2>2 DEF StoreInv, StoreTypeOK, exchange
<1>6. StoreOk'
  BY <1>1 DEF StoreInv, StoreOk, ServedRows, exchange
<1>7. StoreGrows
  BY <1>1 DEF StoreGrows, exchange
<1> QED BY <1>1, <1>3, <1>4, <1>5, <1>6, <1>7, NewJobHolds

LEMMA WriteManifestHolds ==
  ASSUME StoreInv, NEW w \in Workers, WriteManifest(w)
  PROVE  StoreInv'
<1> DEFINE i == job[w].item
           content == job[w].seen
           rows == job[w].rows
           record == Record(content, rows, job[w].found)
           failed == [job[w] EXCEPT !.step = "pick", !.todo = @ \ {i}, !.failed = @ \cup {i}]
           new == [job[w] EXCEPT !.step = "pick", !.todo = @ \ {i},
                     !.records = [k \in DOMAIN @ \cup {i} |-> IF k = i THEN record ELSE @[k]]]
<1>1. /\ JobOk(job[w]) /\ job[w].kind = "normalize" /\ job[w].step = "manifest"
      /\ i \in job[w].todo /\ i \in Items /\ Seen(i, content)
      /\ ServedRows(i, rows) /\ job[w].found \in Tables
      /\ UNCHANGED << exchange, raw, receipt, table, datasets >>
  BY WorkingJob DEF WriteManifest, At, JobOk, RowSteps
<1>2. record \in Manifests /\ record.content = content /\ record.rows = rows
  <2>1. rows \in SUBSET RowRecords
    BY <1>1, ServedAreRows DEF StoreInv
  <2> QED BY <1>1, <2>1 DEF Record, Manifests, Seen, StoreInv, StoreTypeOK
<1>3. KeepManifest(i, record)
  BY DEF WriteManifest
<1>4. job' = [job EXCEPT ![w] = failed] \/ job' = [job EXCEPT ![w] = new]
  BY DEF WriteManifest, Done, Fail, StoreInv, StoreTypeOK
<1> HIDE DEF record
<1>5. /\ manifest' \in [Items -> SUBSET Manifests]
      /\ \A k \in Items : manifest[k] \subseteq manifest'[k]
      /\ \A k \in Items : \A m \in manifest'[k] : m \in manifest[k] \/ (k = i /\ m = record)
      /\ \E m \in manifest'[i] : m.content = content /\ m.rows = rows
  BY <1>1, <1>2, <1>3 DEF KeepManifest, StoreInv, StoreTypeOK
<1>6. StoreGrows
  BY <1>1, <1>5 DEF StoreGrows, exchange
<1>7. JobOk(job[w])'
  <2>1. PICK j : j = job[w]
    OBVIOUS
  <2>2. JobOk(j)'
    BY <1>1, <1>6, <2>1, JobStays DEF StoreInv
  <2>3. PICK k, r, n, c, s : k = i /\ r = record /\ n = new /\ c = content /\ s = rows
    OBVIOUS
  <2>4. BackedRecord(k, r)'
    <3>1. Seen(k, c)' /\ ServedRows(k, s)'
      BY <1>1, <1>6, <2>3, SeenStays DEF StoreInv
    <3>2. r.content = c /\ r.rows = s
      BY <1>2, <2>3
    <3>3. \E m \in manifest'[k] : m.content = c /\ m.rows = s
      BY <1>5, <2>3
    <3> QED BY <3>1, <3>2, <3>3 DEF BackedRecord
  <2>5. /\ j.kind # "none" /\ k \in j.todo
        /\ n = [j EXCEPT !.step = "pick", !.todo = @ \ {k},
                 !.records = [x \in DOMAIN @ \cup {k} |-> IF x = k THEN r ELSE @[x]]]
    BY <1>1, <2>1, <2>3
  <2>6. JobOk(n)'
    BY <2>2, <2>4, <2>5, DoneJobNext
  <2>7. PICK f : f = failed
    OBVIOUS
  <2>8. JobOk(f)'
    <3>1. JobOk(f)
      BY <1>1, <2>7, FailedJob
    <3> QED BY <1>6, <3>1, JobStays DEF StoreInv
  <2>9. job'[w] = n \/ job'[w] = f
    BY <1>4, <2>3, <2>7 DEF StoreInv, StoreTypeOK
  <2> QED BY <2>6, <2>8, <2>9 DEF JobOk
<1>8. StoreTypeOK'
  BY <1>1, <1>4, <1>5 DEF StoreInv, StoreTypeOK, exchange
<1>9. StoreOk'
  <2>1. ASSUME NEW k \in Items, NEW m \in manifest'[k] PROVE ServedRows(k, m.rows)'
    <3>1. ServedRows(k, m.rows)
      BY <1>1, <1>2, <1>5, <2>1 DEF StoreInv, StoreOk
    <3> QED BY <1>6, <3>1, SeenStays DEF StoreInv
  <2> QED BY <1>1, <2>1 DEF StoreInv, StoreOk, exchange
<1>10. DatasetsOk'
  BY <1>1, <1>6, DatasetsStay DEF StoreInv
<1>11. job' = [job EXCEPT ![w] = job'[w]]
  BY <1>4 DEF StoreInv, StoreTypeOK
<1> QED BY <1>6, <1>7, <1>8, <1>9, <1>10, <1>11, StepHolds

LEMMA IdleIsOk == JobOk(Idle)
BY DEF JobOk, Idle, Fields

LEMMA FinishHolds ==
  ASSUME StoreInv, NEW w \in Workers, FinishBatch(w)
  PROVE  StoreInv'
<1>1. /\ JobOk(job[w]) /\ job[w].kind # "none" /\ job[w].todo = {}
      /\ UNCHANGED << exchange, raw, receipt, tables >>
  BY WorkingJob DEF FinishBatch
<1>2. /\ Dataset(w).records = job[w].records /\ Dataset(w).failed = job[w].failed
  BY DEF Dataset
<1>3. job[w].kind = "normalize" =>
        /\ Dataset(w).failed = PlannedItems \ DOMAIN Dataset(w).records
        /\ DOMAIN Dataset(w).records \subseteq PlannedItems
        /\ \A i \in DOMAIN Dataset(w).records : BackedRecord(i, Dataset(w).records[i])
  BY <1>1, <1>2 DEF JobOk
<1>4. datasets' = IF job[w].kind = "normalize" THEN datasets \cup {Dataset(w)} ELSE datasets
  BY DEF FinishBatch
<1>5. \A dataset \in datasets' :
        /\ dataset.failed = PlannedItems \ DOMAIN dataset.records
        /\ DOMAIN dataset.records \subseteq PlannedItems
        /\ \A i \in DOMAIN dataset.records : BackedRecord(i, dataset.records[i])
  BY <1>3, <1>4 DEF StoreInv, DatasetsOk
<1>6. StoreTypeOK' /\ StoreOk' /\ StoreGrows
  BY <1>1 DEF FinishBatch, StoreInv, StoreTypeOK, StoreOk, StoreGrows, ServedRows, exchange, tables
<1>7. DatasetsOk'
  <2>1. PlannedItems \subseteq Items
    BY StoreAssumption
  <2> QED BY <1>5, <1>6, <2>1, BackedStays DEF DatasetsOk, StoreInv
<1>8. job' = [job EXCEPT ![w] = Idle]
  BY DEF FinishBatch
<1>9. job'[w] = Idle /\ job' = [job EXCEPT ![w] = job'[w]]
  BY <1>8 DEF StoreInv, StoreTypeOK
<1>10. JobOk(job[w])'
  <2>1. PICK j : j = Idle
    OBVIOUS
  <2>2. JobOk(j)'
    BY <1>6, <2>1, IdleIsOk, JobStays DEF StoreInv
  <2> QED BY <1>9, <2>1, <2>2 DEF JobOk
<1> QED BY <1>6, <1>7, <1>9, <1>10, StepHolds

LEMMA KillHolds ==
  ASSUME StoreInv, NEW w \in Workers, KillBatch(w)
  PROVE  StoreInv'
BY IdleIsOk, JobStep DEF KillBatch

\* What happens around the batches.
LEMMA ExchangeHolds ==
  ASSUME StoreInv, StoreTypeOK', StoreOk', UNCHANGED << receipt, manifest, job, datasets >>,
         \A i \in Items : past[i] \subseteq past'[i]
  PROVE  StoreInv'
<1>1. StoreGrows
  BY DEF StoreGrows
<1>2. ASSUME NEW v \in Workers PROVE JobOk(job[v])'
  <2>1. PICK j : j = job[v]
    OBVIOUS
  <2>2. JobOk(j) /\ job'[v] = j
    BY <2>1 DEF StoreInv
  <2>3. JobOk(j)'
    BY <1>1, <2>2, JobStays DEF StoreInv
  <2> QED BY <2>2, <2>3 DEF JobOk
<1>3. DatasetsOk'
  BY <1>1, DatasetsStay DEF StoreInv
<1> QED BY <1>2, <1>3 DEF StoreInv

LEMMA RepublishHolds ==
  ASSUME StoreInv, NEW i \in PlannedItems, NEW content \in Contents, Republish(i, content)
  PROVE  StoreInv'
<1>1. /\ i \in Items /\ official' = [official EXCEPT ![i] = content]
      /\ past' = [past EXCEPT ![i] = @ \cup {content}]
      /\ UNCHANGED << plan, raw, receipt, table, manifest, job, datasets >>
  BY StoreAssumption DEF Republish, tables
<1>2. /\ past' \in [Items -> SUBSET Contents] /\ official' \in [Items -> Contents]
      /\ \A k \in Items : past[k] \subseteq past'[k] /\ official'[k] \in past'[k]
  BY <1>1 DEF StoreInv, StoreTypeOK, StoreOk
<1>3. StoreTypeOK'
  BY <1>1, <1>2 DEF StoreInv, StoreTypeOK
<1>4. StoreOk'
  BY <1>1, <1>2 DEF StoreInv, StoreOk, ServedRows
<1> QED BY <1>1, <1>2, <1>3, <1>4, ExchangeHolds

LEMMA HarmHolds ==
  ASSUME StoreInv, NEW i \in PlannedItems, NEW content \in Contents, HarmTable(i, content)
  PROVE  StoreInv'
<1>1. UNCHANGED << official, past, plan, raw, receipt, manifest, job, datasets >> /\ i \in Items
  BY StoreAssumption DEF HarmTable, exchange
<1>2. PICK broken \in {Absent, [table[i][content] EXCEPT !.whole = FALSE]} :
         table' = [table EXCEPT ![i][content] = broken]
  BY DEF HarmTable
<1>3. broken \in Tables \cup {Absent}
  <2>1. table[i][content] \in Tables
    BY <1>1 DEF HarmTable, StoreInv, StoreTypeOK
  <2>2. [table[i][content] EXCEPT !.whole = FALSE] \in Tables
    BY <2>1 DEF Tables
  <2> QED BY <2>2
<1>4. table' \in [Items -> [Contents -> Tables \cup {Absent}]]
  BY <1>1, <1>2, <1>3 DEF StoreInv, StoreTypeOK
<1>5. StoreTypeOK' /\ StoreOk'
  BY <1>1, <1>4 DEF StoreInv, StoreTypeOK, StoreOk, ServedRows
<1> QED BY <1>1, <1>5, ExchangeHolds

LEMMA AroundHolds ==
  ASSUME StoreInv, NEW i \in PlannedItems,
         RemoveArchive(i) \/ \E checksum \in BOOLEAN : Replan(i, checksum)
  PROVE  StoreInv'
<1>1. UNCHANGED << official, past, receipt, manifest, table, job, datasets >> /\ i \in Items
      /\ raw' \in {raw, [raw EXCEPT ![i] = Absent]}
  BY StoreAssumption DEF RemoveArchive, Replan, exchange, tables
<1>2. plan' \in [PlannedItems -> [size : Nat, checksum : BOOLEAN]]
  <2>1. CASE RemoveArchive(i)
    BY <2>1 DEF RemoveArchive, exchange, StoreInv, StoreTypeOK
  <2>2. ASSUME NEW checksum \in BOOLEAN, Replan(i, checksum)
        PROVE  plan' \in [PlannedItems -> [size : Nat, checksum : BOOLEAN]]
    <3>1. SizeOf[official[i]] \in Nat
      BY <1>1, StoreAssumption DEF StoreInv, StoreTypeOK
    <3> QED BY <2>2, <3>1 DEF Replan, Planned, StoreInv, StoreTypeOK
  <2> QED BY <2>1, <2>2
<1>3. StoreTypeOK'
  BY <1>1, <1>2 DEF StoreInv, StoreTypeOK
<1>4. StoreOk'
  BY <1>1 DEF StoreInv, StoreTypeOK, StoreOk, ServedRows
<1> QED BY <1>1, <1>3, <1>4, ExchangeHolds

LEMMA StoreInvNext == StoreInv /\ [StoreNext]_storeVars => StoreInv'
<1> SUFFICES ASSUME StoreInv, [StoreNext]_storeVars PROVE StoreInv'
  OBVIOUS
<1>1. CASE UNCHANGED storeVars
  BY <1>1, ExchangeHolds
  DEF storeVars, exchange, tables, StoreInv, StoreTypeOK, StoreOk, ServedRows
<1>2. ASSUME NEW w \in Workers, StoreStep(w) PROVE StoreInv'
  BY <1>2, BeginHolds, DownloadPickHolds, NormalizePickHolds, FetchingHolds, PlaceHolds,
     ReceiptHolds, ReadingHolds, WriteTableHolds, WriteManifestHolds, FinishHolds, KillHolds
  DEF StoreStep
<1>3. ASSUME NEW i \in PlannedItems, NEW content \in Contents,
             Republish(i, content) \/ HarmTable(i, content)
      PROVE StoreInv'
  BY <1>3, RepublishHolds, HarmHolds
<1>4. ASSUME NEW i \in PlannedItems,
             RemoveArchive(i) \/ \E checksum \in BOOLEAN : Replan(i, checksum)
      PROVE StoreInv'
  BY <1>4, AroundHolds
<1> QED BY <1>1, <1>2, <1>3, <1>4 DEF StoreNext

LEMMA StoreInvInit == StoreInit => StoreInv
<1> SUFFICES ASSUME StoreInit PROVE StoreInv
  OBVIOUS
<1>1. PICK content \in Contents : official = [i \in Items |-> content]
  BY DEF StoreInit
<1>2. plan \in [PlannedItems -> [size : Nat, checksum : BOOLEAN]]
  <2>1. \A i \in PlannedItems : SizeOf[official[i]] \in Nat
    BY <1>1, StoreAssumption
  <2> QED BY <2>1 DEF StoreInit, Planned
<1>3. StoreTypeOK /\ StoreOk
  BY <1>1, <1>2 DEF StoreInit, StoreTypeOK, StoreOk
<1>4. DatasetsOk
  BY DEF StoreInit, DatasetsOk
<1>5. \A w \in Workers : JobOk(job[w])
  BY IdleIsOk DEF StoreInit
<1> QED BY <1>3, <1>4, <1>5 DEF StoreInv

\* Whatever is republished, replanned, replaced, removed, killed or run in parallel,
\* every record of a dataset names an archive the exchange served, with its receipt;
\* its rows are an unbroken part of their month that the exchange served, and their
\* manifest is there.
THEOREM DatasetsAreBacked == StoreSpec => []DatasetIsBacked
<1>1. StoreInv => DatasetIsBacked
  BY DEF StoreInv, DatasetsOk, DatasetIsBacked, BackedRecord, Seen, ServedRows
<1> QED BY <1>1, StoreInvInit, StoreInvNext, PTL DEF StoreSpec

-----------------------------------------------------------------------------
(* The universe batch *)

Days == FirstDay .. LastDay
RunFields == {"version", "reuse", "index", "day", "input", "built", "days", "failed", "pickedUp"}

\* What a batch says of its days is what their progress files say.
Stand(version, days) ==
  \A day \in DOMAIN days :
    /\ day \in Days /\ days[day] # NoSnapshot
    /\ progress[version][day] = days[day] /\ days[day] \in snapshots

RunOk(r) ==
  /\ DOMAIN r = RunFields /\ r.version \in Versions
  /\ r.day \in Int /\ FirstDay <= r.day
  /\ r.built # NoSnapshot => r.built \in snapshots /\ r.day \in Days
  /\ Stand(r.version, r.days)

UniverseInv ==
  /\ DOMAIN progress = Versions /\ \A v \in Versions : DOMAIN progress[v] = Days
  /\ run # NotRunning => RunOk(run)
  /\ \A result \in universes : result.version \in Versions /\ Stand(result.version, result.days)

\* A progress file that is there stays, as snapshots do.
ProgressStays ==
  /\ snapshots \subseteq snapshots'
  /\ \A v \in Versions, day \in Days :
       progress[v][day] # NoSnapshot => progress'[v][day] = progress[v][day]

LEMMA StandStays ==
  ASSUME NEW version \in Versions, NEW days, Stand(version, days), ProgressStays
  PROVE  Stand(version, days)'
BY DEF Stand, ProgressStays

\* A step that leaves the batch r, writing as it goes.
LEMMA UniverseHolds ==
  ASSUME UniverseInv, NEW r, run' = r, r # NotRunning => RunOk(r)', ProgressStays,
         DOMAIN progress' = Versions, \A v \in Versions : DOMAIN progress'[v] = Days,
         \A result \in universes' : result \in universes
             \/ (result.version \in Versions /\ Stand(result.version, result.days)')
  PROVE  UniverseInv'
<1>1. (run # NotRunning => RunOk(run))'
  BY DEF RunOk, Stand, NotRunning
<1>2. \A result \in universes' : result.version \in Versions /\ Stand(result.version, result.days)'
  BY StandStays DEF UniverseInv
<1>3. (\A result \in universes : result.version \in Versions /\ Stand(result.version, result.days))'
  BY <1>2 DEF Stand
<1> QED BY <1>1, <1>3 DEF UniverseInv

\* A day is accepted.
LEMMA AcceptHolds ==
  ASSUME UniverseInv, run # NotRunning, ProgressStays, NEW snapshot, snapshot # NoSnapshot,
         run.day \in Days, progress'[run.version][run.day] = snapshot, snapshot \in snapshots',
         NEW r, r.version = run.version, r.day = run.day + 1, r.built = NoSnapshot,
         r.days = Accept(snapshot).days, DOMAIN r = RunFields
  PROVE  RunOk(r)'
<1> DEFINE days == [d \in DOMAIN run.days \cup {run.day} |->
                      IF d = run.day THEN snapshot ELSE run.days[d]]
<1>1. RunOk(run)
  BY DEF UniverseInv
<1>2. r.days = days
  BY <1>1 DEF Accept, RunOk, RunFields
<1>3. \A day \in DOMAIN days :
        \/ day = run.day /\ days[day] = snapshot
        \/ day # run.day /\ day \in DOMAIN run.days /\ days[day] = run.days[day]
  OBVIOUS
<1> HIDE DEF days
<1>4. PICK version : version = run.version /\ version \in Versions
  BY <1>1 DEF RunOk
<1>5. \A day \in DOMAIN r.days :
        /\ day \in Days /\ r.days[day] # NoSnapshot
        /\ progress'[r.version][day] = r.days[day] /\ r.days[day] \in snapshots'
  BY <1>1, <1>2, <1>3, <1>4 DEF RunOk, Stand, ProgressStays
<1>6. Stand(r.version, r.days)'
  BY <1>5 DEF Stand
<1>7. r.day \in Int /\ FirstDay <= r.day
  <2>1. run.day \in Int /\ FirstDay <= run.day /\ FirstDay \in Int
    BY <1>1, RangeAssumption DEF RunOk
  <2> QED BY <2>1
<1> QED BY <1>1, <1>4, <1>6, <1>7 DEF RunOk

LEMMA FailDayHolds ==
  ASSUME UniverseInv, run # NotRunning, ProgressStays, NEW r, r = FailDay
  PROVE  RunOk(r)'
<1>1. RunOk(run)
  BY DEF UniverseInv
<1>2. /\ r.version = run.version /\ r.day = run.day + 1 /\ r.built = NoSnapshot
      /\ r.days = run.days /\ DOMAIN r = RunFields
  BY <1>1 DEF FailDay, RunOk, RunFields
<1>3. PICK version, days : version = run.version /\ days = run.days
  OBVIOUS
<1>4. Stand(r.version, r.days)'
  <2>1. Stand(version, days) /\ version \in Versions
    BY <1>1, <1>3 DEF RunOk
  <2>2. Stand(version, days)'
    BY <2>1, StandStays
  <2> QED BY <1>2, <1>3, <2>2 DEF Stand
<1>5. r.day \in Int /\ FirstDay <= r.day
  <2>1. run.day \in Int /\ FirstDay <= run.day /\ FirstDay \in Int
    BY <1>1, RangeAssumption DEF RunOk
  <2> QED BY <1>2, <2>1
<1> QED BY <1>1, <1>2, <1>4, <1>5 DEF RunOk

LEMMA BeginRunHolds ==
  ASSUME UniverseInv, NEW version \in Versions, NEW reuse \in BOOLEAN, BeginRun(version, reuse)
  PROVE  UniverseInv'
<1>1. UNCHANGED << progress, snapshots, universes >>
  BY DEF BeginRun
<1>2. PICK r : r = run'
  OBVIOUS
<1>3. /\ r.version = version /\ r.day = FirstDay /\ r.built = NoSnapshot /\ DOMAIN r = RunFields
      /\ DOMAIN r.days = {}
  BY <1>2 DEF BeginRun, RunFields
<1>4. FirstDay \in Int
  BY RangeAssumption
<1>5. RunOk(r)'
  BY <1>3, <1>4 DEF RunOk, Stand
<1>6. ProgressStays
  BY <1>1 DEF ProgressStays
<1> QED BY <1>1, <1>2, <1>5, <1>6, UniverseHolds DEF UniverseInv

LEMMA DayOfRun ==
  ASSUME UniverseInv, run # NotRunning, run.day <= LastDay
  PROVE  /\ RunOk(run) /\ run.day \in Days /\ DOMAIN run = RunFields /\ run.version \in Versions
         /\ run.day + 1 \in Int
  BY RangeAssumption DEF UniverseInv, RunOk, Days

LEMMA ReuseDayHolds ==
  ASSUME UniverseInv, ReuseDay
  PROVE  UniverseInv'
<1>1. /\ run # NotRunning /\ run.day \in Days /\ DOMAIN run = RunFields
      /\ UNCHANGED << progress, snapshots, universes >>
  BY DayOfRun DEF ReuseDay, Building
<1>2. ProgressStays
  BY <1>1 DEF ProgressStays
<1> DEFINE snapshot == progress[run.version][run.day]
<1>3. PICK r : r = run'
  OBVIOUS
<1>4. CASE snapshot \in snapshots
  <2>1. r = [Accept(snapshot) EXCEPT !.pickedUp = @ \cup {run.day}]
    BY <1>3, <1>4 DEF ReuseDay
  <2>2. /\ DOMAIN r = RunFields /\ r.version = run.version /\ r.day = run.day + 1
        /\ r.built = NoSnapshot /\ r.days = Accept(snapshot).days
    BY <1>1, <2>1 DEF Accept, RunFields
  <2>3. PICK x : x = snapshot /\ x # NoSnapshot
    BY DEF ReuseDay, HasProgress
  <2>4. RunOk(r)'
    BY <1>1, <1>2, <1>4, <2>2, <2>3, AcceptHolds
  <2> QED BY <1>1, <1>2, <1>3, <2>4, UniverseHolds DEF UniverseInv
<1>5. CASE snapshot \notin snapshots
  <2>1. r = FailDay
    BY <1>3, <1>5 DEF ReuseDay
  <2>2. RunOk(r)'
    BY <1>1, <1>2, <2>1, FailDayHolds
  <2> QED BY <1>1, <1>2, <1>3, <2>2, UniverseHolds DEF UniverseInv
<1> QED BY <1>4, <1>5

LEMMA BuildDayHolds ==
  ASSUME UniverseInv, BuildDay
  PROVE  UniverseInv'
<1>1. /\ run # NotRunning /\ run.day \in Days /\ DOMAIN run = RunFields /\ RunOk(run)
      /\ UNCHANGED << progress, universes >>
  BY DayOfRun DEF BuildDay, Building
<1> DEFINE snapshot == Snapshot(run.day - 1, Input)
<1>2. /\ snapshots' = snapshots \cup {snapshot}
      /\ run' = [run EXCEPT !.input = Input, !.built = snapshot]
  BY DEF BuildDay, WriteSnapshot
<1>3. PICK r, version, days : r = run' /\ version = run.version /\ days = run.days
  OBVIOUS
<1> HIDE DEF snapshot
<1>4. /\ DOMAIN r = RunFields /\ r.version = version /\ r.day = run.day /\ r.built = snapshot
      /\ r.days = days
  BY <1>1, <1>2, <1>3 DEF RunFields
<1>5. ProgressStays /\ snapshot \in snapshots'
  BY <1>1, <1>2 DEF ProgressStays
<1>6. Stand(version, days)'
  BY <1>1, <1>3, <1>5, StandStays DEF RunOk
<1>7. RunOk(r)'
  BY <1>1, <1>3, <1>4, <1>5, <1>6 DEF RunOk
<1> QED BY <1>1, <1>3, <1>5, <1>7, UniverseHolds DEF UniverseInv

LEMMA RecordProgressHolds ==
  ASSUME UniverseInv, RecordProgress
  PROVE  UniverseInv'
<1>1. /\ run # NotRunning /\ run.built # NoSnapshot /\ RunOk(run) /\ run.day \in Days
      /\ run.version \in Versions /\ run.built \in snapshots /\ DOMAIN run = RunFields
      /\ UNCHANGED << snapshots, universes >>
  BY DEF RecordProgress, UniverseInv, RunOk
<1>2. PICK r : r = run'
  OBVIOUS
<1>3. CASE ProgressStands(progress[run.version][run.day], run.built)
  <2>1. /\ progress' = [progress EXCEPT ![run.version][run.day] = run.built]
        /\ r = Accept(run.built)
    BY <1>2, <1>3 DEF RecordProgress
  <2>2. /\ DOMAIN progress' = Versions /\ \A v \in Versions : DOMAIN progress'[v] = Days
        /\ progress'[run.version][run.day] = run.built
        /\ \A v \in Versions, day \in Days :
              v # run.version \/ day # run.day => progress'[v][day] = progress[v][day]
    BY <1>1, <2>1 DEF UniverseInv
  <2>3. ProgressStays
    BY <1>1, <1>3, <2>2 DEF ProgressStays, ProgressStands
  <2>4. /\ DOMAIN r = RunFields /\ r.version = run.version /\ r.day = run.day + 1
        /\ r.built = NoSnapshot /\ r.days = Accept(run.built).days
    BY <1>1, <2>1 DEF Accept, RunFields
  <2>5. PICK x : x = run.built
    OBVIOUS
  <2>6. RunOk(r)'
    BY <1>1, <2>2, <2>3, <2>4, <2>5, AcceptHolds
  <2> QED BY <1>1, <1>2, <2>2, <2>3, <2>6, UniverseHolds
<1>4. CASE ~ProgressStands(progress[run.version][run.day], run.built)
  <2>1. r = FailDay /\ UNCHANGED progress
    BY <1>2, <1>4 DEF RecordProgress
  <2>2. ProgressStays
    BY <1>1, <2>1 DEF ProgressStays
  <2>3. RunOk(r)'
    BY <1>1, <2>1, <2>2, FailDayHolds
  <2> QED BY <1>1, <1>2, <2>1, <2>2, <2>3, UniverseHolds DEF UniverseInv
<1> QED BY <1>3, <1>4

LEMMA EndRunHolds ==
  ASSUME UniverseInv, FinishUniverse \/ KillRun
  PROVE  UniverseInv'
<1>1. /\ run # NotRunning /\ run' = NotRunning /\ UNCHANGED << progress, snapshots >>
      /\ universes' = universes \/ universes' = universes \cup {Result}
  BY DEF FinishUniverse, KillRun
<1>2. /\ Result.version = run.version /\ Result.days = run.days /\ RunOk(run)
  BY <1>1 DEF Result, UniverseInv
<1>3. \A result \in universes' : result.version \in Versions /\ Stand(result.version, result.days)
  BY <1>1, <1>2 DEF UniverseInv, RunOk
<1> QED BY <1>1, <1>3 DEF UniverseInv, Stand

LEMMA UniverseInvNext == UniverseInv /\ [UniverseNext]_universeVars => UniverseInv'
<1>1. UniverseInv /\ UNCHANGED universeVars => UniverseInv'
  BY DEF universeVars, UniverseInv, RunOk, Stand
<1> QED BY <1>1, BeginRunHolds, ReuseDayHolds, BuildDayHolds, RecordProgressHolds, EndRunHolds
        DEF UniverseNext

LEMMA UniverseInvInit == UniverseInit => UniverseInv
BY DEF UniverseInit, UniverseInv, Days, NotRunning

\* However often a batch is killed and run again, and whatever becomes of the
\* tables meanwhile, what the results of a version say of a day is what its
\* progress file says, for ever.
THEOREM ResultsAlwaysAgree == UniverseSpec => []ResultsAgree
<1>1. UniverseInv => ResultsAgree
  BY DEF UniverseInv, Stand, ResultsAgree
<1> QED BY <1>1, UniverseInvInit, UniverseInvNext, PTL DEF UniverseSpec

-----------------------------------------------------------------------------
(* The order of the ranking *)

Volumes(set, volume) == set \subseteq Nat /\ \A s \in set : volume[s] \in Int

\* How many are ahead.
RankOfDay(s, set, volume) == Cardinality({t \in set : Ahead(volume, t, s)})

\* Of two different symbols one is ahead, and what is ahead of that is ahead of both.
LEMMA AheadOrders ==
  ASSUME NEW set, NEW volume, Volumes(set, volume), NEW a \in set, NEW b \in set
  PROVE  /\ ~Ahead(volume, a, a)
         /\ a # b => Ahead(volume, a, b) \/ Ahead(volume, b, a)
         /\ Ahead(volume, a, b) => /\ a # b /\ ~Ahead(volume, b, a)
                                   /\ \A c \in set : Ahead(volume, c, a) => Ahead(volume, c, b)
<1>1. a \in Nat /\ b \in Nat /\ volume[a] \in Int /\ volume[b] \in Int
  BY DEF Volumes
<1>2. ASSUME NEW c \in set, Ahead(volume, a, b), Ahead(volume, c, a) PROVE Ahead(volume, c, b)
  <2>1. c \in Nat /\ volume[c] \in Int
    BY DEF Volumes
  <2> QED BY <1>1, <1>2, <2>1 DEF Ahead
<1>3. ~Ahead(volume, a, a)
  BY <1>1 DEF Ahead
<1>4. a # b => Ahead(volume, a, b) \/ Ahead(volume, b, a)
  BY <1>1 DEF Ahead
<1>5. Ahead(volume, a, b) => ~Ahead(volume, b, a)
  BY <1>1 DEF Ahead
<1> QED BY <1>2, <1>3, <1>4, <1>5

\* A place is below the number of members, and behind every place that is ahead.
LEMMA PlaceOrders ==
  ASSUME NEW set, IsFiniteSet(set), NEW volume, Volumes(set, volume), NEW a \in set
  PROVE  /\ RankOfDay(a, set, volume) \in 0 .. Cardinality(set) - 1
         /\ \A b \in set : Ahead(volume, a, b) => RankOfDay(a, set, volume) < RankOfDay(b, set, volume)
<1> DEFINE Leaders(s) == {t \in set : Ahead(volume, t, s)}
<1>1. ASSUME NEW s \in set PROVE IsFiniteSet(Leaders(s)) /\ Cardinality(Leaders(s)) \in Nat
  <2>1. Leaders(s) \in SUBSET set
    OBVIOUS
  <2> HIDE DEF Leaders
  <2> QED BY <2>1, FS_Subset, FS_CardinalityType
<1>2. ASSUME NEW s \in set, NEW S \in SUBSET set, Leaders(s) \subseteq S, s \in S
      PROVE  Cardinality(Leaders(s)) < Cardinality(S)
  <2>1. s \notin Leaders(s)
    BY AheadOrders
  <2>2. IsFiniteSet(S) /\ Cardinality(S) \in Nat
    BY FS_Subset, FS_CardinalityType
  <2> HIDE DEF Leaders
  <2>3. Cardinality(Leaders(s)) <= Cardinality(S) /\ Cardinality(S) # Cardinality(Leaders(s))
    BY <1>2, <2>1, <2>2, FS_Subset
  <2> QED BY <1>1, <2>2, <2>3
<1>3. Cardinality(Leaders(a)) < Cardinality(set)
  <2>1. set \in SUBSET set /\ Leaders(a) \subseteq set
    OBVIOUS
  <2> HIDE DEF Leaders
  <2> QED BY <1>2, <2>1
<1>4. ASSUME NEW b \in set, Ahead(volume, a, b) PROVE Cardinality(Leaders(a)) < Cardinality(Leaders(b))
  <2>1. Leaders(b) \in SUBSET set /\ Leaders(a) \subseteq Leaders(b) /\ a \in Leaders(b)
    BY <1>4, AheadOrders
  <2> HIDE DEF Leaders
  <2> QED BY <1>2, <2>1
<1>5. Cardinality(set) \in Nat
  BY FS_CardinalityType
<1>6. \A s \in set : RankOfDay(s, set, volume) = Cardinality(Leaders(s))
  BY DEF RankOfDay
<1> HIDE DEF Leaders
<1>7. RankOfDay(a, set, volume) \in 0 .. Cardinality(set) - 1
  BY <1>1, <1>3, <1>5, <1>6
<1>8. \A b \in set : Ahead(volume, a, b) => RankOfDay(a, set, volume) < RankOfDay(b, set, volume)
  BY <1>4, <1>6
<1> QED BY <1>7, <1>8

\* The ranking lists every member once, each at its place.
LEMMA RankedLists ==
  ASSUME NEW set, IsFiniteSet(set), NEW volume, Volumes(set, volume)
  PROVE  LET q == Ranked(set, volume)
             n == Cardinality(set)
         IN  /\ n \in Nat /\ q \in Seq(set) /\ Len(q) = n /\ DOMAIN q = 1..n
             /\ \A k \in 1..n : q[k] \in set /\ RankOfDay(q[k], set, volume) = k - 1
             /\ \A s \in set : \E k \in 1..n : q[k] = s
             /\ \A i, j \in 1..n : i < j => Ahead(volume, q[i], q[j])
<1> DEFINE n == Cardinality(set)
           q == Ranked(set, volume)
           P(s) == RankOfDay(s, set, volume)
           f == [s \in set |-> P(s)]
<1>1. n \in Nat
  BY FS_CardinalityType
<1>2. \A s \in set : P(s) \in 0 .. n - 1
  BY PlaceOrders
<1>3. \A a, b \in set : a # b => P(a) # P(b)
  <2> SUFFICES ASSUME NEW a \in set, NEW b \in set, a # b PROVE P(a) # P(b)
    OBVIOUS
  <2>1. Ahead(volume, a, b) => P(a) < P(b)
    BY PlaceOrders
  <2>2. Ahead(volume, b, a) => P(b) < P(a)
    BY PlaceOrders
  <2>3. P(a) \in Int /\ P(b) \in Int
    BY <1>1, <1>2
  <2> HIDE DEF P
  <2> QED BY <2>1, <2>2, <2>3, AheadOrders
<1>4. f \in Injection(set, 0 .. n - 1)
  <2> HIDE DEF P
  <2> QED BY <1>2, <1>3 DEF Injection, IsInjective
<1>5. IsFiniteSet(0 .. n - 1) /\ Cardinality(0 .. n - 1) = n
  <2>1. n - 1 \in Int /\ 0 \in Int
    BY <1>1
  <2>2. IsFiniteSet(0 .. n - 1) /\ Cardinality(0 .. n - 1) = IF 0 > n - 1 THEN 0 ELSE (n - 1) - 0 + 1
    <3> HIDE DEF n
    <3> QED BY <2>1, FS_Interval
  <2> HIDE DEF n
  <2> QED BY <1>1, <2>2
<1>6. f \in Surjection(set, 0 .. n - 1)
  <2> DEFINE T == 0 .. n - 1
  <2>1. f \in Injection(set, T) /\ IsFiniteSet(T) /\ Cardinality(set) = Cardinality(T)
    BY <1>4, <1>5
  <2> HIDE DEF f, T, n
  <2>2. f \in Surjection(set, T)
    BY <2>1, FS_Injection
  <2> QED BY <2>2 DEF T
<1>7. \A p \in 0 .. n - 1 : \E s \in set : P(s) = p
  BY <1>6 DEF Surjection
<1>8. ASSUME NEW k \in 1..n PROVE q[k] \in set /\ P(q[k]) = k - 1
  <2>1. k - 1 \in 0 .. n - 1
    BY <1>1
  <2>2. q[k] = CHOOSE s \in set : P(s) = k - 1
    BY DEF Ranked, RankOfDay
  <2>3. \E s \in set : P(s) = k - 1
    BY <1>7, <2>1
  <2> HIDE DEF q, P
  <2> QED BY <2>2, <2>3
<1>9. DOMAIN q = 1..n /\ q = [k \in 1..n |-> q[k]]
  <2> DEFINE Pick(k) == CHOOSE s \in set : Cardinality({t \in set : Ahead(volume, t, s)}) = k - 1
  <2>1. q = [k \in 1..n |-> Pick(k)]
    BY DEF Ranked
  <2> HIDE DEF q, n, Pick
  <2> QED BY <2>1
<1>10. q \in Seq(set) /\ Len(q) = n
  <2>1. q \in [1..n -> set]
    <3> HIDE DEF q
    <3> QED BY <1>8, <1>9
  <2> HIDE DEF q, n
  <2> QED BY <1>1, <2>1, SeqDef, LenProperties
<1>11. ASSUME NEW s \in set PROVE \E k \in 1..n : q[k] = s
  <2>1. P(s) \in 0 .. n - 1 /\ P(s) + 1 \in 1..n
    BY <1>1, <1>2
  <2>2. q[P(s) + 1] \in set /\ P(q[P(s) + 1]) = P(s)
    <3> DEFINE k == P(s) + 1
    <3>1. k \in 1..n /\ k - 1 = P(s)
      BY <1>1, <2>1
    <3> HIDE DEF k, q, P, n
    <3>2. q[k] \in set /\ P(q[k]) = P(s)
      BY <1>8, <3>1
    <3> QED BY <3>2 DEF k
  <2> HIDE DEF q, P, n
  <2> QED BY <1>3, <2>1, <2>2
<1>12. ASSUME NEW i \in 1..n, NEW j \in 1..n, i < j PROVE Ahead(volume, q[i], q[j])
  <2>1. q[i] \in set /\ q[j] \in set /\ P(q[i]) = i - 1 /\ P(q[j]) = j - 1
    BY <1>8
  <2> HIDE DEF q
  <2>2. PICK a \in set, b \in set : a = q[i] /\ b = q[j]
    BY <2>1
  <2>3. P(a) < P(b) /\ P(a) \in Int /\ P(b) \in Int
    BY <1>1, <1>12, <2>1, <2>2
  <2>4. Ahead(volume, b, a) => P(b) < P(a)
    BY PlaceOrders
  <2> HIDE DEF P
  <2>5. Ahead(volume, a, b)
    BY <2>3, <2>4, AheadOrders
  <2> QED BY <2>2, <2>5
<1> QED BY <1>1, <1>8, <1>9, <1>10, <1>11, <1>12

-----------------------------------------------------------------------------
(* The fixed symbols *)

Eligibles(E, volume) ==
  E \subseteq Symbols /\ Volumes(E, volume) /\ IsFiniteSet(E) /\ Cardinality(E) \in Nat

SizeOfDay(E) == IF Cardinality(E) < TargetCount THEN Cardinality(E) ELSE TargetCount

\* The selection while the fixed symbols are forced in: of full size, each symbol
\* once, and its other symbols in their order and ahead of all that are left out.
Chosen(c, E, volume) ==
  /\ c \in Seq(E) /\ Len(c) = SizeOfDay(E)
  /\ \A i, j \in 1 .. Len(c) : c[i] = c[j] => i = j
  /\ \A i, j \in 1 .. Len(c) :
       i < j /\ c[i] \notin FixedSymbols /\ c[j] \notin FixedSymbols => Ahead(volume, c[i], c[j])
  /\ \A i \in 1 .. Len(c), s \in E :
       c[i] \notin FixedSymbols /\ s \notin FixedSymbols /\ s \notin ToSet(c) => Ahead(volume, c[i], s)

LEMMA FixedAreSymbols ==
  FixedSymbols \subseteq Symbols /\ IsFiniteSet(FixedSymbols) /\ Cardinality(FixedSymbols) \in Nat
<1>1. FixedSymbols \subseteq Symbols
  <2>1. \A i \in DOMAIN FixedOrder : FixedOrder[i] \in Symbols
    BY UniverseAssumption, LenProperties, ElementOfSeq
  <2> QED BY <2>1 DEF FixedSymbols, ToSet
<1> QED BY <1>1, UniverseAssumption, FS_Subset, FS_CardinalityType

\* As many different symbols as there are.
LEMMA CountOfSeq ==
  ASSUME NEW E, NEW c \in Seq(E), \A i, j \in 1 .. Len(c) : c[i] = c[j] => i = j
  PROVE  IsFiniteSet(ToSet(c)) /\ Cardinality(ToSet(c)) = Len(c)
<1> DEFINE n == Len(c)
           f == [i \in 1..n |-> c[i]]
<1>1. n \in Nat /\ IsFiniteSet(1..n) /\ Cardinality(1..n) = n
  BY LenProperties, FirstNumbers
<1>2. f \in Surjection(1..n, ToSet(c)) /\ f \in Injection(1..n, ToSet(c))
  BY SeqMembers DEF Surjection, Injection, IsInjective
<1> HIDE DEF f, n
<1>3. IsFiniteSet(ToSet(c)) /\ Cardinality(ToSet(c)) = Cardinality(1..n)
  BY <1>1, <1>2, FS_Surjection
<1> QED BY <1>1, <1>3 DEF n

\* A fixed symbol that is left out can be forced in: the selection is full, and has
\* a symbol that is not fixed.
LEMMA RoomIsFound ==
  ASSUME NEW E, NEW volume, Eligibles(E, volume), NEW c, Chosen(c, E, volume),
         NEW s \in FixedSymbols, s \in E, s \notin ToSet(c)
  PROVE  LET open == {i \in DOMAIN c : c[i] \notin FixedSymbols}
         IN  /\ Len(c) = TargetCount /\ open \in SUBSET (1 .. Len(c))
             /\ Max(open) \in open /\ \A i \in open : i <= Max(open)
<1> DEFINE n == Len(c)
           open == {i \in DOMAIN c : c[i] \notin FixedSymbols}
<1>1. n \in Nat /\ DOMAIN c = 1..n /\ \A i \in 1..n : c[i] \in E
  BY LenProperties, ElementOfSeq DEF Chosen
<1>2. IsFiniteSet(ToSet(c)) /\ Cardinality(ToSet(c)) = n /\ ToSet(c) \subseteq E
  BY CountOfSeq, SeqMembers DEF Chosen
<1>3. n = TargetCount
  <2>1. n # Cardinality(E)
    BY <1>2, FS_Subset DEF Eligibles
  <2> QED BY <2>1 DEF Chosen, SizeOfDay
<1>4. open # {}
  <2> SUFFICES ASSUME open = {} PROVE FALSE
    OBVIOUS
  <2>1. ToSet(c) \subseteq FixedSymbols
    BY <1>1 DEF ToSet
  <2>2. Cardinality(ToSet(c)) <= Cardinality(FixedSymbols)
    BY <2>1, FixedAreSymbols, FS_Subset
  <2> QED BY <1>1, <1>2, <1>3, <2>2, FixedAreSymbols, UniverseAssumption
<1>5. open \in SUBSET (1..n)
  BY <1>1
<1> HIDE DEF n, open
<1>6. Max(open) \in open /\ \A i \in open : i <= Max(open)
  BY <1>1, <1>4, <1>5, MaxOfSome
<1> QED BY <1>3, <1>5, <1>6 DEF n, open

\* The selection with the last symbol that is not fixed replaced by a fixed one.
LEMMA RoomIsMade ==
  ASSUME NEW E, NEW volume, Eligibles(E, volume), NEW c, Chosen(c, E, volume),
         NEW s \in FixedSymbols, s \in E, s \notin ToSet(c)
  PROVE  \E p \in 1 .. Len(c) :
           LET d == Append(MakeRoom(c), s)
               n == Len(c)
           IN  /\ c[p] \notin FixedSymbols
               /\ \A i \in 1..n : i > p => c[i] \in FixedSymbols
               /\ d \in Seq(E) /\ Len(d) = n
               /\ \A i \in 1..n : d[i] = IF i < p THEN c[i] ELSE IF i < n THEN c[i + 1] ELSE s
<1> DEFINE n == Len(c)
           open == {i \in DOMAIN c : c[i] \notin FixedSymbols}
           p == Max(open)
           front == SubSeq(c, 1, p - 1)
           back == SubSeq(c, p + 1, n)
           room == front \o back
           d == Append(MakeRoom(c), s)
<1>1. n \in Nat /\ DOMAIN c = 1..n /\ \A i \in 1..n : c[i] \in E
  BY LenProperties, ElementOfSeq DEF Chosen
<1>2. n = TargetCount /\ open \in SUBSET (1..n) /\ p \in open /\ \A i \in open : i <= p
  BY RoomIsFound
<1>3. p \in 1..n /\ c[p] \notin FixedSymbols /\ \A i \in 1..n : i > p => c[i] \in FixedSymbols
  <2>1. p \in 1..n /\ c[p] \notin FixedSymbols
    <3> HIDE DEF p
    <3> QED BY <1>2
  <2>2. ASSUME NEW i \in 1..n, i > p, c[i] \notin FixedSymbols PROVE FALSE
    <3>1. i \in open
      BY <1>1, <2>2
    <3>2. i <= p
      BY <1>2, <3>1
    <3> HIDE DEF p
    <3> QED BY <1>1, <2>1, <2>2, <3>2
  <2> QED BY <2>1, <2>2
<1>4. MakeRoom(c) = room
  <2>1. ~(Len(c) < TargetCount)
    BY <1>1, <1>2
  <2> QED BY <2>1 DEF MakeRoom, RemoveAt
<1> HIDE DEF n, p, open
<1>5. /\ front \in Seq(E) /\ Len(front) = p - 1 /\ \A i \in 1 .. p - 1 : front[i] = c[i]
  <2>1. p - 1 \in Int /\ 1 \in Int /\ \A i \in 1 .. p - 1 : c[i] \in E
    BY <1>1, <1>3
  <2>2. /\ SubSeq(c, 1, p - 1) \in Seq(E)
        /\ Len(SubSeq(c, 1, p - 1)) = IF 1 <= p - 1 THEN (p - 1) - 1 + 1 ELSE 0
        /\ \A i \in 1 .. (p - 1) - 1 + 1 : SubSeq(c, 1, p - 1)[i] = c[1 + i - 1]
    BY <2>1, SubSeqProperties
  <2> QED BY <1>1, <1>3, <2>2
<1>6. /\ back \in Seq(E) /\ Len(back) = n - p /\ \A i \in 1 .. n - p : back[i] = c[p + i]
  <2>1. p + 1 \in Int /\ n \in Int /\ \A i \in p + 1 .. n : c[i] \in E
    BY <1>1, <1>3
  <2>2. /\ SubSeq(c, p + 1, n) \in Seq(E)
        /\ Len(SubSeq(c, p + 1, n)) = IF p + 1 <= n THEN n - (p + 1) + 1 ELSE 0
        /\ \A i \in 1 .. n - (p + 1) + 1 : SubSeq(c, p + 1, n)[i] = c[(p + 1) + i - 1]
    BY <2>1, SubSeqProperties
  <2> QED BY <1>1, <1>3, <2>2
<1> HIDE DEF front, back
<1>7. /\ room \in Seq(E) /\ Len(room) = n - 1
      /\ \A i \in 1 .. n - 1 : room[i] = IF i < p THEN c[i] ELSE c[i + 1]
  <2>1. /\ room \in Seq(E) /\ Len(room) = Len(front) + Len(back)
        /\ \A i \in 1 .. Len(front) + Len(back) :
             room[i] = IF i <= Len(front) THEN front[i] ELSE back[i - Len(front)]
    BY <1>5, <1>6, ConcatProperties
  <2>2. Len(front) + Len(back) = n - 1
    BY <1>1, <1>3, <1>5, <1>6
  <2> HIDE DEF room
  <2>3. ASSUME NEW i \in 1 .. n - 1 PROVE room[i] = IF i < p THEN c[i] ELSE c[i + 1]
    <3>1. CASE i < p
      BY <1>1, <1>3, <1>5, <2>1, <2>2, <3>1
    <3>2. CASE ~(i < p)
      <4>1. i - (p - 1) \in 1 .. n - p /\ p + (i - (p - 1)) = i + 1 /\ ~(i <= p - 1)
        BY <1>1, <1>3, <3>2
      <4>2. room[i] = back[i - (p - 1)]
        BY <1>5, <2>1, <2>2, <4>1
      <4>3. back[i - (p - 1)] = c[p + (i - (p - 1))]
        BY <1>6, <4>1
      <4> QED BY <3>2, <4>1, <4>2, <4>3
    <3> QED BY <3>1, <3>2
  <2> QED BY <2>1, <2>2, <2>3
<1> HIDE DEF room
<1>8. /\ d \in Seq(E) /\ Len(d) = n
      /\ \A i \in 1..n : d[i] = IF i < p THEN c[i] ELSE IF i < n THEN c[i + 1] ELSE s
  <2>1. d = Append(room, s)
    BY <1>4
  <2> HIDE DEF d
  <2>2. d \in Seq(E) /\ Len(d) = n /\ d[n] = s /\ \A i \in 1 .. n - 1 : d[i] = room[i]
    BY <1>1, <1>7, <2>1, AppendProperties
  <2>3. ASSUME NEW i \in 1..n PROVE d[i] = IF i < p THEN c[i] ELSE IF i < n THEN c[i + 1] ELSE s
    <3>1. CASE i < n
      <4>1. i \in 1 .. n - 1
        BY <1>1, <3>1
      <4> QED BY <1>7, <2>2, <3>1, <4>1
    <3>2. CASE ~(i < n)
      <4>1. i = n /\ ~(i < p)
        BY <1>1, <1>3, <3>2
      <4> QED BY <2>2, <3>2, <4>1
    <3> QED BY <3>1, <3>2
  <2> QED BY <2>2, <2>3
<1> QED BY <1>3, <1>8 DEF n


\* Forcing a symbol in leaves a selection, which has it when it is eligible and
\* still has the fixed symbols it had.
LEMMA ForcedIsChosen ==
  ASSUME NEW E, NEW volume, Eligibles(E, volume), NEW c, Chosen(c, E, volume), NEW s \in FixedSymbols
  PROVE  LET d == ForceIn(c, s, E)
         IN  /\ Chosen(d, E, volume)
             /\ s \in E => s \in ToSet(d)
             /\ ToSet(c) \cap FixedSymbols \subseteq ToSet(d)
<1>1. CASE s \notin E \/ s \in ToSet(c)
  BY <1>1 DEF ForceIn
<1>2. CASE s \in E /\ s \notin ToSet(c)
  <2> DEFINE d == Append(MakeRoom(c), s)
             n == Len(c)
  <2>1. ForceIn(c, s, E) = d
    BY <1>2 DEF ForceIn
  <2>2. PICK p \in 1..n :
          /\ c[p] \notin FixedSymbols /\ \A i \in 1..n : i > p => c[i] \in FixedSymbols
          /\ d \in Seq(E) /\ Len(d) = n
          /\ \A i \in 1..n : d[i] = IF i < p THEN c[i] ELSE IF i < n THEN c[i + 1] ELSE s
    BY <1>2, RoomIsMade
  <2>3. n \in Nat /\ c \in Seq(E) /\ \A i \in 1..n : c[i] \in E
    BY LenProperties, ElementOfSeq DEF Chosen
  <2>4. \A x : x \in ToSet(c) <=> \E i \in 1..n : c[i] = x
    BY <2>3, SeqMembers
  <2> HIDE DEF d
  <2>5. \A x : x \in ToSet(d) <=> \E i \in 1..n : d[i] = x
    BY <2>2, SeqMembers
  <2>6. /\ \A i, j \in 1..n : c[i] = c[j] => i = j
        /\ \A i, j \in 1..n : i < j /\ c[i] \notin FixedSymbols /\ c[j] \notin FixedSymbols
                              => Ahead(volume, c[i], c[j])
        /\ \A i \in 1..n, x \in E : c[i] \notin FixedSymbols /\ x \notin FixedSymbols
                                   /\ x \notin ToSet(c) => Ahead(volume, c[i], x)
        /\ n = SizeOfDay(E)
    BY DEF Chosen
  <2> HIDE DEF n
  \* A place of d that is not fixed is one of c, before p.
  <2>7. \A i \in 1..n : d[i] \notin FixedSymbols => i < p /\ d[i] = c[i]
    <3> SUFFICES ASSUME NEW i \in 1..n, d[i] \notin FixedSymbols, ~(i < p) PROVE FALSE
      BY <2>2
    <3>1. CASE i < n
      <4>1. i + 1 \in 1..n /\ i + 1 > p
        BY <2>3, <3>1
      <4>2. c[i + 1] \in FixedSymbols
        BY <2>2, <4>1
      <4> QED BY <2>2, <3>1, <4>2
    <3>2. CASE ~(i < n)
      BY <2>2, <3>2
    <3> QED BY <3>1, <3>2
  <2>8. \A i, j \in 1..n : d[i] = d[j] => i = j
    <3>1. ASSUME NEW i \in 1..n
          PROVE  \/ i < p /\ d[i] = c[i]
                 \/ ~(i < p) /\ i < n /\ i + 1 \in 1..n /\ d[i] = c[i + 1]
                 \/ ~(i < p) /\ i = n /\ d[i] = s
      BY <2>2, <2>3
    <3>2. \A i \in 1..n : c[i] # s
      BY <1>2, <2>4
    <3> SUFFICES ASSUME NEW i \in 1..n, NEW j \in 1..n, d[i] = d[j] PROVE i = j
      OBVIOUS
    <3>3. CASE i < p
      <4>1. d[i] = c[i]
        BY <3>1, <3>3
      <4>2. CASE j < p
        BY <2>6, <3>1, <4>1, <4>2
      <4>3. CASE ~(j < p) /\ j < n
        <5>1. d[j] = c[j + 1] /\ j + 1 \in 1..n
          BY <3>1, <4>3
        <5>2. i = j + 1
          BY <2>6, <4>1, <5>1
        <5> QED BY <2>3, <3>3, <4>3, <5>2
      <4>4. CASE ~(j < p) /\ j = n
        <5>1. d[j] = s
          BY <2>3, <3>1, <4>4
        <5>2. d[i] # s
          BY <2>3, <3>2, <4>1
        <5> QED BY <5>1, <5>2
      <4> QED BY <2>3, <4>2, <4>3, <4>4
    <3>4. CASE ~(i < p) /\ i < n
      <4>1. d[i] = c[i + 1] /\ i + 1 \in 1..n
        BY <3>1, <3>4
      <4>2. CASE j < p
        <5>1. d[j] = c[j]
          BY <3>1, <4>2
        <5>2. j = i + 1
          BY <2>6, <4>1, <5>1
        <5> QED BY <2>3, <3>4, <4>2, <5>2
      <4>3. CASE ~(j < p) /\ j < n
        <5>1. d[j] = c[j + 1] /\ j + 1 \in 1..n
          BY <3>1, <4>3
        <5>2. i + 1 = j + 1
          BY <2>6, <4>1, <5>1
        <5> QED BY <2>3, <5>2
      <4>4. CASE ~(j < p) /\ j = n
        <5>1. d[j] = s
          BY <2>3, <3>1, <4>4
        <5>2. d[i] # s
          BY <2>3, <3>2, <4>1
        <5> QED BY <5>1, <5>2
      <4> QED BY <2>3, <4>2, <4>3, <4>4
    <3>5. CASE ~(i < p) /\ i = n
      <4>1. d[i] = s
        BY <3>1, <3>5
      <4>2. j = n
        BY <3>1, <3>2, <4>1
      <4> QED BY <3>5, <4>2
    <3> QED BY <2>3, <3>3, <3>4, <3>5
  <2>9. ASSUME NEW x, x \in ToSet(c), x # c[p] PROVE x \in ToSet(d)
    <3>1. PICK i \in 1..n : c[i] = x
      BY <2>4, <2>9
    <3>2. CASE i < p
      BY <2>2, <2>5, <3>1, <3>2
    <3>3. CASE i > p
      <4>1. i - 1 \in 1..n /\ ~(i - 1 < p) /\ i - 1 < n /\ (i - 1) + 1 = i
        BY <2>3, <3>3
      <4>2. d[i - 1] = c[i]
        BY <2>2, <4>1
      <4> QED BY <2>5, <3>1, <4>1, <4>2
    <3> QED BY <2>3, <2>9, <3>1, <3>2, <3>3
  <2>10. s \in ToSet(d)
    <3>1. n \in 1..n /\ ~(n < p) /\ ~(n < n)
      BY <2>3
    <3> QED BY <2>2, <2>5, <3>1
  <2>11. Chosen(d, E, volume)
    <3>1. ASSUME NEW i \in 1..n, NEW j \in 1..n, i < j, d[i] \notin FixedSymbols, d[j] \notin FixedSymbols
          PROVE  Ahead(volume, d[i], d[j])
      BY <2>6, <2>7, <3>1
    <3>2. ASSUME NEW i \in 1..n, NEW x \in E, d[i] \notin FixedSymbols, x \notin FixedSymbols,
                 x \notin ToSet(d)
          PROVE  Ahead(volume, d[i], x)
      <4>1. i < p /\ d[i] = c[i]
        BY <2>7, <3>2
      <4>2. x \in ToSet(c) => x = c[p]
        BY <2>9, <3>2
      <4>3. CASE x = c[p]
        BY <2>2, <2>6, <3>2, <4>1, <4>3
      <4>4. CASE x \notin ToSet(c)
        BY <2>6, <3>2, <4>1, <4>4
      <4> QED BY <4>2, <4>3, <4>4
    <3> QED BY <2>2, <2>6, <2>8, <3>1, <3>2 DEF Chosen
  <2>12. ToSet(c) \cap FixedSymbols \subseteq ToSet(d)
    BY <2>2, <2>9
  <2> QED BY <2>1, <2>10, <2>11, <2>12
<1> QED BY <1>1, <1>2

\* The loop over the fixed symbols, as a fold.
Forces(base, E, it) ==
  it = [S \in SUBSET DOMAIN FixedOrder |->
          IF S = {} THEN base ELSE ForceIn(it[S \ {Max(S)}], FixedOrder[Max(S)], E)]

LEMMA WithFixedIsFold ==
  ASSUME NEW base, NEW E, NEW it, Forces(base, E, it)
  PROVE  \E jt : Forces(base, E, jt) /\ WithFixed(base, E) = jt[DOMAIN FixedOrder]
BY DEF WithFixed, FoldLeft, MapThenFoldSet, Forces

LEMMA WithFixedSteps ==
  ASSUME NEW E, NEW volume, Eligibles(E, volume), NEW base, Chosen(base, E, volume)
  PROVE  \E g : /\ g[0] = base
                /\ \A i \in 1 .. Len(FixedOrder) : g[i] = ForceIn(g[i - 1], FixedOrder[i], E)
                /\ WithFixed(base, E) = g[Len(FixedOrder)]
<1> DEFINE n == Len(FixedOrder)
           V == {c \in Seq(E) : Chosen(c, E, volume)}
           Next1(v, i) == ForceIn(v, FixedOrder[i], E)
           H == [i \in 1..n |-> [v \in V |-> Next1(v, i)]]
<1>1. n \in Nat /\ DOMAIN FixedOrder = 1..n /\ \A i \in 1..n : FixedOrder[i] \in FixedSymbols
  BY UniverseAssumption, LenProperties, ElementOfSeq DEF FixedSymbols, ToSet
<1>2. \A i \in 1..n, v \in V : H[i][v] = Next1(v, i) /\ H[i][v] \in V
  <2>1. ASSUME NEW i \in 1..n, NEW v \in V PROVE Next1(v, i) \in V
    <3>1. Chosen(Next1(v, i), E, volume)
      BY <1>1, ForcedIsChosen
    <3> QED BY <3>1 DEF Chosen
  <2> HIDE DEF n, Next1, V
  <2> QED BY <2>1
<1>0. base \in V
  BY DEF Chosen
<1> HIDE DEF H, n, Next1, V
<1>3. PICK it : it \in [SUBSET (1..n) -> V] /\ IsFold(1..n, base, H, it)
  BY <1>0, <1>1, <1>2, FoldSteps
<1>4. Forces(base, E, it)
  <2>1. \A S \in SUBSET (1..n) : S # {} =>
           H[Max(S)][it[S \ {Max(S)}]] = Next1(it[S \ {Max(S)}], Max(S))
    <3>1. \A S \in SUBSET (1..n) : S # {} => Max(S) \in 1..n /\ S \ {Max(S)} \in SUBSET (1..n)
      BY <1>1, FirstMembers
    <3> QED BY <1>2, <1>3, <3>1
  <2>2. it = [S \in SUBSET (1..n) |-> IF S = {} THEN base ELSE Next1(it[S \ {Max(S)}], Max(S))]
    BY <1>3, <2>1 DEF IsFold
  <2> QED BY <1>1, <2>2 DEF Forces, Next1
<1>5. PICK jt : Forces(base, E, jt) /\ WithFixed(base, E) = jt[DOMAIN FixedOrder]
  BY <1>4, WithFixedIsFold
<1> DEFINE g == [i \in 0..n |-> jt[1..i]]
<1>6. jt = [S \in SUBSET (1..n) |-> IF S = {} THEN base ELSE Next1(jt[S \ {Max(S)}], Max(S))]
  BY <1>1, <1>5 DEF Forces, Next1
<1>7. g[0] = base
  <2>1. jt[{}] = base
    BY <1>6, <1>1, FirstMembers
  <2> QED BY <1>1, <2>1, FirstMembers
<1>8. ASSUME NEW i \in 1..n PROVE g[i] = Next1(g[i - 1], i)
  <2>1. jt[1..i] = Next1(jt[(1..i) \ {Max(1..i)}], Max(1..i))
    BY <1>6, <1>1, FirstMembers
  <2>2. jt[1..i] = Next1(jt[1..(i - 1)], i)
    BY <1>1, <2>1, FirstMembers
  <2> QED BY <1>1, <2>2
<1>9. WithFixed(base, E) = g[n]
  BY <1>1, <1>5
<1> HIDE DEF g
<1> QED BY <1>7, <1>8, <1>9 DEF n, Next1

\* After the loop the selection has all fixed symbols that are eligible.
LEMMA FixedAreChosen ==
  ASSUME NEW E, NEW volume, Eligibles(E, volume), NEW base, Chosen(base, E, volume)
  PROVE  Chosen(WithFixed(base, E), E, volume) /\ FixedSymbols \cap E \subseteq ToSet(WithFixed(base, E))
<1> DEFINE n == Len(FixedOrder)
<1>1. n \in Nat /\ DOMAIN FixedOrder = 1..n /\ \A i \in 1..n : FixedOrder[i] \in FixedSymbols
  BY UniverseAssumption, LenProperties, ElementOfSeq DEF FixedSymbols, ToSet
<1>2. PICK g : /\ g[0] = base
               /\ \A i \in 1..n : g[i] = ForceIn(g[i - 1], FixedOrder[i], E)
               /\ WithFixed(base, E) = g[n]
  BY WithFixedSteps
<1> DEFINE In(i) == \A j \in 1..i : FixedOrder[j] \in E => FixedOrder[j] \in ToSet(g[i])
           I == {i \in Nat : i <= n => Chosen(g[i], E, volume) /\ In(i)}
<1> HIDE DEF n
<1>3. 0 \in I
  BY <1>2
<1>4. ASSUME NEW i \in I PROVE i + 1 \in I
  <2> SUFFICES ASSUME i + 1 <= n PROVE Chosen(g[i + 1], E, volume) /\ In(i + 1)
    BY <1>4
  <2>1. i \in Nat /\ i + 1 \in 1..n /\ (i + 1) - 1 = i /\ Chosen(g[i], E, volume) /\ In(i)
    BY <1>1, <1>4
  <2> DEFINE s == FixedOrder[i + 1]
  <2>2. s \in FixedSymbols /\ g[i + 1] = ForceIn(g[i], s, E)
    BY <1>1, <1>2, <2>1
  <2> HIDE DEF s
  <2>3. /\ Chosen(g[i + 1], E, volume) /\ (s \in E => s \in ToSet(g[i + 1]))
        /\ ToSet(g[i]) \cap FixedSymbols \subseteq ToSet(g[i + 1])
    BY <2>1, <2>2, ForcedIsChosen
  <2>4. ASSUME NEW j \in 1 .. i + 1, FixedOrder[j] \in E PROVE FixedOrder[j] \in ToSet(g[i + 1])
    <3>1. CASE j = i + 1
      BY <2>3, <2>4, <3>1 DEF s
    <3>2. CASE j # i + 1
      <4>1. j \in 1..i /\ j \in 1..n
        BY <1>1, <2>1, <3>2
      <4>2. FixedOrder[j] \in ToSet(g[i]) /\ FixedOrder[j] \in FixedSymbols
        BY <1>1, <2>1, <2>4, <4>1
      <4> QED BY <2>3, <4>2
    <3> QED BY <3>1, <3>2
  <2> QED BY <2>3, <2>4
<1>5. n \in I
  <2> HIDE DEF I
  <2>1. I \in SUBSET Nat
    BY DEF I
  <2> QED BY <1>1, <1>3, <1>4, <2>1, AllNumbers
<1>6. Chosen(g[n], E, volume) /\ In(n)
  BY <1>1, <1>5
<1>7. \A s \in FixedSymbols : \E j \in 1..n : FixedOrder[j] = s
  BY <1>1 DEF FixedSymbols, ToSet
<1> QED BY <1>2, <1>6, <1>7

-----------------------------------------------------------------------------
(* The selection of a day *)

Volume(day, input) == [s \in Eligible(day, input) |-> WindowVolume(input.frames[s], day)]
TopOf(day, input) ==
  LET ranked == Ranked(Eligible(day, input), Volume(day, input))
  IN  SubSeq(ranked, 1, IF Len(ranked) < TargetCount THEN Len(ranked) ELSE TargetCount)
MembersOf(day, input) == ToSet(WithFixed(TopOf(day, input), Eligible(day, input)))

LEMMA SnapshotFields ==
  ASSUME NEW day, NEW input
  PROVE  /\ Snapshot(day, input).day = day
         /\ Snapshot(day, input).members =
              [i \in 1 .. Cardinality(MembersOf(day, input)) |->
                 Member(Ranked(MembersOf(day, input), Volume(day, input))[i], Volume(day, input),
                        Ranked(MembersOf(day, input), Volume(day, input))[i]
                          \notin ToSet(TopOf(day, input)))]
         /\ DOMAIN Snapshot(day, input).blocked = Symbols \ Eligible(day, input)
BY DEF Snapshot, MembersOf, TopOf, Volume

\* What ranks before the fixed symbols are forced in.
LEMMA TopIsChosen ==
  ASSUME NEW E, NEW volume, Eligibles(E, volume)
  PROVE  LET ranked == Ranked(E, volume)
             top == SubSeq(ranked, 1, IF Len(ranked) < TargetCount THEN Len(ranked) ELSE TargetCount)
         IN  /\ Chosen(top, E, volume)
             /\ \A s \in E : s \in ToSet(top) <=> RankOfDay(s, E, volume) < TargetCount
<1> DEFINE q == Ranked(E, volume)
           n == Cardinality(E)
           k == SizeOfDay(E)
           top == SubSeq(q, 1, k)
<1>1. /\ n \in Nat /\ q \in Seq(E) /\ Len(q) = n /\ DOMAIN q = 1..n
      /\ \A i \in 1..n : q[i] \in E /\ RankOfDay(q[i], E, volume) = i - 1
      /\ \A s \in E : \E i \in 1..n : q[i] = s
      /\ \A i, j \in 1..n : i < j => Ahead(volume, q[i], q[j])
  BY RankedLists DEF Eligibles
<1>2. SubSeq(q, 1, IF Len(q) < TargetCount THEN Len(q) ELSE TargetCount) = top
  BY <1>1 DEF SizeOfDay
<1>3. k \in Nat /\ k <= n /\ (k < n => k = TargetCount) /\ k <= TargetCount /\ TargetCount \in Nat
  BY <1>1, UniverseAssumption DEF SizeOfDay
<1> HIDE DEF q, k, n
<1>4. top \in Seq(E) /\ Len(top) = k /\ \A i \in 1..k : top[i] = q[i] /\ i \in 1..n
  <2>1. k \in Int /\ 1 \in Int /\ \A i \in 1..k : q[i] \in E /\ i \in 1..n
    BY <1>1, <1>3
  <2>2. /\ SubSeq(q, 1, k) \in Seq(E)
        /\ Len(SubSeq(q, 1, k)) = IF 1 <= k THEN k - 1 + 1 ELSE 0
        /\ \A i \in 1 .. k - 1 + 1 : SubSeq(q, 1, k)[i] = q[1 + i - 1]
    BY <2>1, SubSeqProperties
  <2> QED BY <1>3, <2>1, <2>2
<1> HIDE DEF top
<1>5. \A i, j \in 1..k : top[i] = top[j] => i = j
  <2> SUFFICES ASSUME NEW i \in 1..k, NEW j \in 1..k, top[i] = top[j] PROVE i = j
    OBVIOUS
  <2>1. RankOfDay(q[i], E, volume) = i - 1 /\ RankOfDay(q[j], E, volume) = j - 1 /\ q[i] = q[j]
    BY <1>1, <1>4
  <2> QED BY <1>3, <2>1
<1>6. \A i, j \in 1..k : i < j => Ahead(volume, top[i], top[j])
  BY <1>1, <1>4
<1>7. \A x : x \in ToSet(top) <=> \E i \in 1..k : top[i] = x
  BY <1>4, SeqMembers
<1>8. ASSUME NEW s \in E PROVE s \in ToSet(top) <=> RankOfDay(s, E, volume) < TargetCount
  <2>1. PICK i \in 1..n : q[i] = s
    BY <1>1
  <2>2. RankOfDay(s, E, volume) = i - 1
    BY <1>1, <2>1
  <2>3. CASE i <= k
    <3>1. i \in 1..k
      BY <1>1, <1>3, <2>3
    <3>2. top[i] = s /\ i - 1 < TargetCount
      BY <1>3, <1>4, <2>1, <3>1
    <3> QED BY <1>7, <2>2, <3>1, <3>2
  <2>4. CASE ~(i <= k)
    <3>1. ~(i - 1 < TargetCount)
      BY <1>1, <1>3, <2>4
    <3>2. ASSUME NEW j \in 1..k, top[j] = s PROVE FALSE
      <4>1. q[j] = s /\ j \in 1..n
        BY <1>4, <3>2
      <4>2. j - 1 = i - 1
        BY <1>1, <2>2, <4>1
      <4> QED BY <1>1, <1>3, <2>4, <4>2
    <3> QED BY <1>7, <2>2, <3>1, <3>2
  <2> QED BY <2>3, <2>4
<1>9. ASSUME NEW i \in 1..k, NEW s \in E, s \notin ToSet(top) PROVE Ahead(volume, top[i], s)
  <2>1. PICK j \in 1..n : q[j] = s
    BY <1>1
  <2>2. ~(j <= k)
    <3> SUFFICES ASSUME j <= k PROVE FALSE
      OBVIOUS
    <3>1. j \in 1..k
      BY <1>3
    <3> QED BY <1>4, <1>7, <1>9, <2>1, <3>1
  <2>3. i \in 1..n /\ i < j /\ top[i] = q[i]
    BY <1>1, <1>3, <1>4, <2>2
  <2> QED BY <1>1, <2>1, <2>3
<1>10. Chosen(top, E, volume)
  BY <1>4, <1>5, <1>6, <1>9 DEF Chosen, k
<1> QED BY <1>2, <1>8, <1>10 DEF q

\* What the members of a day are, by volume and name alone.
SymbolsOf(snapshot) == {snapshot.members[n].symbol : n \in DOMAIN snapshot.members}

RankedMembers(snapshot, E, volume) ==
  /\ SymbolsOf(snapshot) \subseteq E /\ Cardinality(SymbolsOf(snapshot)) = SizeOfDay(E)
  /\ FixedSymbols \cap E \subseteq SymbolsOf(snapshot)
  /\ \A s \in SymbolsOf(snapshot) \ FixedSymbols, other \in E \ SymbolsOf(snapshot) :
       Ahead(volume, s, other)
  /\ Len(snapshot.members) = SizeOfDay(E) /\ DOMAIN snapshot.members = 1 .. SizeOfDay(E)
  /\ \A n \in 1 .. SizeOfDay(E) :
       /\ snapshot.members[n].symbol \in E
       /\ snapshot.members[n].volume = volume[snapshot.members[n].symbol]
       /\ \A later \in n + 1 .. SizeOfDay(E) :
            Ahead(volume, snapshot.members[n].symbol, snapshot.members[later].symbol)
       /\ snapshot.members[n].forced <=> RankOfDay(snapshot.members[n].symbol, E, volume) >= TargetCount

LEMMA MembersAreRanked ==
  ASSUME NEW day, NEW input, Eligibles(Eligible(day, input), Volume(day, input))
  PROVE  RankedMembers(Snapshot(day, input), Eligible(day, input), Volume(day, input))
<1> DEFINE E == Eligible(day, input)
           volume == Volume(day, input)
           snapshot == Snapshot(day, input)
           top == TopOf(day, input)
           c == WithFixed(top, E)
           M == ToSet(c)
           k == SizeOfDay(E)
           q == Ranked(M, volume)
<1>1. Chosen(top, E, volume) /\ \A s \in E : s \in ToSet(top) <=> RankOfDay(s, E, volume) < TargetCount
  <2> HIDE DEF E, volume
  <2>1. Eligibles(E, volume)
    BY DEF E, volume
  <2> QED BY <2>1, TopIsChosen DEF TopOf, E, volume
<1>2. Chosen(c, E, volume) /\ FixedSymbols \cap E \subseteq M
  <2> HIDE DEF E, volume, top
  <2>1. Eligibles(E, volume)
    BY DEF E, volume
  <2> QED BY <1>1, <2>1, FixedAreChosen
<1>3. /\ snapshot.members = [i \in 1 .. Cardinality(M) |->
                              Member(q[i], volume, q[i] \notin ToSet(top))]
  BY DEF Snapshot, TopOf, Volume
<1>4. M = MembersOf(day, input)
  BY DEF MembersOf
<1>5. Eligibles(E, volume)
  OBVIOUS
<1> HIDE DEF E, volume, top, c, snapshot
<1>6. M \subseteq E /\ IsFiniteSet(M) /\ Cardinality(M) = k
  <2>1. c \in Seq(E) /\ Len(c) = k /\ \A i, j \in 1 .. Len(c) : c[i] = c[j] => i = j
    BY <1>2 DEF Chosen
  <2> QED BY <2>1, CountOfSeq, SeqMembers
<1>7. /\ k \in Nat /\ DOMAIN q = 1..k
      /\ \A i \in 1..k : q[i] \in M
      /\ \A s \in M : \E i \in 1..k : q[i] = s
      /\ \A i, j \in 1..k : i < j => Ahead(volume, q[i], q[j])
  <2>1. Volumes(M, volume)
    BY <1>5, <1>6 DEF Eligibles, Volumes
  <2> HIDE DEF M, k
  <2> QED BY <1>6, <2>1, RankedLists
<1> HIDE DEF M, q, k
<1>8. /\ DOMAIN snapshot.members = 1..k
      /\ \A n \in 1..k : snapshot.members[n] = Member(q[n], volume, q[n] \notin ToSet(top))
  BY <1>3, <1>6
<1>9. ASSUME NEW n \in 1..k
      PROVE  /\ snapshot.members[n].symbol = q[n] /\ snapshot.members[n].volume = volume[q[n]]
             /\ snapshot.members[n].forced <=> q[n] \notin ToSet(top)
  <2>1. PICK out \in BOOLEAN : out <=> q[n] \notin ToSet(top)
    OBVIOUS
  <2>2. snapshot.members[n] = Member(q[n], volume, out)
    BY <1>8, <2>1, Zenon
  <2> QED BY <2>1, <2>2 DEF Member
<1>10. SymbolsOf(snapshot) = M
  BY <1>7, <1>8, <1>9 DEF SymbolsOf
<1>11. Len(snapshot.members) = k
  BY <1>7, <1>8
<1>12. ASSUME NEW s \in M \ FixedSymbols, NEW other \in E \ M PROVE Ahead(volume, s, other)
  <2>1. c \in Seq(E) /\ other \notin FixedSymbols
    BY <1>2 DEF Chosen
  <2>2. PICK i \in 1 .. Len(c) : c[i] = s
    BY <2>1, SeqMembers DEF M
  <2> QED BY <1>2, <2>1, <2>2 DEF Chosen, M
<1>13. ASSUME NEW n \in 1..k
       PROVE  /\ q[n] \in E
              /\ \A later \in n + 1 .. k : Ahead(volume, q[n], q[later])
              /\ snapshot.members[n].forced <=> RankOfDay(q[n], E, volume) >= TargetCount
  <2>1. q[n] \in E
    BY <1>6, <1>7
  <2>2. \A later \in n + 1 .. k : later \in 1..k /\ n < later
    BY <1>7
  <2>3. RankOfDay(q[n], E, volume) \in Nat /\ TargetCount \in Nat
    <3>1. RankOfDay(q[n], E, volume) \in 0 .. Cardinality(E) - 1 /\ Cardinality(E) \in Nat
      BY <1>5, <2>1, PlaceOrders DEF Eligibles
    <3> QED BY <3>1, UniverseAssumption
  <2>4. q[n] \in ToSet(top) <=> RankOfDay(q[n], E, volume) < TargetCount
    BY <1>1, <2>1
  <2>5. snapshot.members[n].forced <=> RankOfDay(q[n], E, volume) >= TargetCount
    BY <1>9, <2>3, <2>4
  <2> QED BY <1>7, <2>1, <2>2, <2>5
<1>14. RankedMembers(snapshot, E, volume)
  BY <1>2, <1>6, <1>8, <1>9, <1>10, <1>11, <1>12, <1>13 DEF RankedMembers, M, k
<1> QED BY <1>14 DEF E, volume, snapshot

-----------------------------------------------------------------------------
(* What counts of a day *)

\* The rows of a normalised archive: finitely many, sound, one for each open.
SoundRows(rows) ==
  /\ IsFiniteSet(rows)
  /\ \A row \in rows : row.open \in Int /\ row.volume \in Int /\ row.sound
  /\ \A row, other \in rows : row.open = other.open => row = other

LEMMA NormalisedRows ==
  ASSUME NEW i \in Items, NEW content \in Contents, NormalizesAt(i, content)
  PROVE  SoundRows(Rows(i, content))
<1> DEFINE q == RowsOf[i][content]
           rows == ToSet(q)
<1>1. q \in Seq(RowRecords)
  BY StoreAssumption
<1>2. ~Conflicting(rows) /\ \A row \in rows : row.sound
  BY DEF NormalizesAt, Normalizes, Normalize
<1> HIDE DEF q
<1>3. rows = {q[n] : n \in 1 .. Len(q)} /\ rows \subseteq RowRecords /\ Len(q) \in Nat
  <2>1. rows = {q[n] : n \in 1 .. Len(q)} /\ rows \subseteq RowRecords
    BY <1>1, SeqMembers
  <2> QED BY <1>1, <2>1, LenProperties
<1>4. IsFiniteSet(rows)
  <2> DEFINE f == [n \in 1 .. Len(q) |-> q[n]]
  <2>1. f \in Surjection(1 .. Len(q), rows)
    BY <1>3 DEF Surjection
  <2> HIDE DEF f, rows
  <2> QED BY <1>3, <2>1, FirstNumbers, FS_Surjection
<1> HIDE DEF rows
<1>5. \A row, other \in rows : row.open = other.open => row = other
  <2> DEFINE f == [row \in rows |-> row.open]
  <2>1. f \in Surjection(rows, Opens(rows))
    BY DEF Surjection, Opens
  <2>2. Cardinality(rows) = Cardinality(Opens(rows))
    BY <1>2 DEF Conflicting
  <2>3. f \in Injection(rows, Opens(rows))
    <3> HIDE DEF f
    <3> QED BY <1>4, <2>1, <2>2, FS_SurjSameCardinalityImpliesInj
  <2> QED BY <2>3 DEF Injection, IsInjective
<1>6. \A row \in rows : row.open \in Int /\ row.volume \in Int /\ row.sound
  BY <1>2, <1>3 DEF RowRecords
<1> QED BY <1>4, <1>5, <1>6 DEF SoundRows, Rows, rows, q

LEMMA WindowFacts ==
  ASSUME NEW day \in Int
  PROVE  IsFiniteSet(Window(day)) /\ Window(day) # {} /\ Window(day) \subseteq Int
<1> DEFINE a == day * DayCandles
           b == (day + 1) * DayCandles
<1>1. a \in Int /\ b \in Int /\ b = a + DayCandles /\ DayCandles \in Nat /\ DayCandles >= 1
  BY UniverseAssumption
<1>2. Window(day) = a .. b - 1
  BY DEF Window
<1> HIDE DEF a, b
<1>3. b - 1 \in Int /\ a \in a .. b - 1
  BY <1>1
<1>4. IsFiniteSet(a .. b - 1)
  BY <1>1, <1>3, FS_Interval
<1> QED BY <1>2, <1>3, <1>4

\* The rows of the window, one for each open when they cover it, and their sum.
LEMMA CoveredWindow ==
  ASSUME NEW day \in Int, NEW rows, SoundRows(rows)
  PROVE  /\ (\A open \in Window(day) : Cardinality({row \in rows : row.open = open}) = 1)
              <=> Opens(InWindow(rows, day)) = Window(day)
         /\ ~Conflicting(InWindow(rows, day))
         /\ WindowVolume(rows, day) \in Int
         /\ Opens(InWindow(rows, day)) = Window(day) =>
              WindowVolume(rows, day) =
                SumFunction([open \in Window(day) |-> (CHOOSE row \in rows : row.open = open).volume])
<1> DEFINE W == InWindow(rows, day)
           RowsAt(open) == {row \in rows : row.open = open}
<1>1. /\ W \subseteq rows /\ IsFiniteSet(W)
      /\ \A row \in rows : row \in W <=> row.open \in Window(day)
  <2>1. W \in SUBSET rows
    BY DEF InWindow
  <2>2. IsFiniteSet(rows)
    BY DEF SoundRows
  <2>3. IsFiniteSet(W)
    <3> HIDE DEF W
    <3> QED BY <2>1, <2>2, FS_Subset
  <2> QED BY <2>1, <2>3 DEF InWindow
<1>2. \A row, other \in rows : row.open = other.open => row = other
  BY DEF SoundRows
<1> HIDE DEF W
<1>3. ASSUME NEW open \in Window(day)
      PROVE  Cardinality(RowsAt(open)) = 1 <=> open \in Opens(W)
  <2>1. CASE open \in Opens(W)
    <3>1. PICK row \in W : row.open = open
      BY <2>1 DEF Opens
    <3>2. RowsAt(open) = {row}
      BY <1>1, <1>2, <3>1
    <3> QED BY <2>1, <3>2, FS_Singleton
  <2>2. CASE open \notin Opens(W)
    <3>1. RowsAt(open) = {}
      BY <1>1, <2>2 DEF Opens
    <3> QED BY <2>2, <3>1, FS_EmptySet
  <2> QED BY <2>1, <2>2
<1>4. Opens(W) \subseteq Window(day)
  BY <1>1 DEF Opens
<1>5. (\A open \in Window(day) : Cardinality(RowsAt(open)) = 1) <=> Opens(W) = Window(day)
  <2> HIDE DEF RowsAt
  <2> QED BY <1>3, <1>4
<1>6. ~Conflicting(W)
  <2> DEFINE f == [row \in W |-> row.open]
  <2>1. f \in Surjection(W, Opens(W)) /\ f \in Injection(W, Opens(W))
    BY <1>1, <1>2 DEF Surjection, Injection, IsInjective, Opens
  <2> HIDE DEF f
  <2>2. Cardinality(Opens(W)) = Cardinality(W)
    BY <1>1, <2>1, FS_Surjection
  <2> QED BY <2>2 DEF Conflicting
<1> DEFINE f == [row \in W |-> row.volume]
<1>7. WindowVolume(rows, day) = SumFunctionOnSet(f, W)
  BY DEF WindowVolume, SumFunction, W
<1>8. \A row \in W : f[row] = row.volume /\ f[row] \in Int
  BY <1>1 DEF SoundRows
<1>9. WindowVolume(rows, day) \in Int
  <2> HIDE DEF f
  <2> QED BY <1>1, <1>7, <1>8, SumIsInteger
<1>10. ASSUME Opens(W) = Window(day)
       PROVE  WindowVolume(rows, day) =
                SumFunction([open \in Window(day) |-> (CHOOSE row \in rows : row.open = open).volume])
  <2> DEFINE T == Window(day)
             h == [open \in T |-> CHOOSE row \in rows : row.open = open]
             g == [open \in T |-> (CHOOSE row \in rows : row.open = open).volume]
  <2>1. \A open \in T : h[open] \in W /\ h[open].open = open /\ g[open] = h[open].volume
    <3> SUFFICES ASSUME NEW open \in T
                 PROVE  h[open] \in W /\ h[open].open = open /\ g[open] = h[open].volume
      OBVIOUS
    <3>1. PICK row \in rows : row.open = open
      BY <1>1, <1>10 DEF Opens
    <3> DEFINE chosen == CHOOSE r \in rows : r.open = open
    <3>2. chosen \in rows /\ chosen.open = open
      BY <3>1
    <3>3. h[open] = chosen /\ g[open] = chosen.volume
      OBVIOUS
    <3> HIDE DEF chosen, h, g
    <3> QED BY <1>1, <3>2, <3>3
  <2>2. SumFunction(g) = SumFunctionOnSet(g, T)
    BY DEF SumFunction
  <2> HIDE DEF h, g, f
  <2>3. {h[open] : open \in T} = W
    <3>1. ASSUME NEW row \in W PROVE \E open \in T : h[open] = row
      <4>1. row.open \in T /\ row \in rows
        BY <1>1
      <4>2. h[row.open] \in rows /\ h[row.open].open = row.open
        BY <1>1, <2>1, <4>1
      <4> QED BY <1>2, <4>1, <4>2
    <3> QED BY <2>1, <3>1
  <2>4. \A open \in T : f[h[open]] = g[open] /\ g[open] \in Int
    BY <1>8, <2>1
  <2>5. \A a, b \in T : h[a] = h[b] => a = b
    BY <2>1
  <2>6. IsFiniteSet(T)
    BY WindowFacts
  <2> HIDE DEF T
  <2>7. SumFunctionOnSet(f, {h[open] : open \in T}) = SumFunctionOnSet(g, T)
    BY <2>4, <2>5, <2>6, SumOfImage
  <2>8. WindowVolume(rows, day) = SumFunction(g)
    BY <1>7, <2>2, <2>3, <2>7
  <2> QED BY <2>8 DEF g, T
<1> QED BY <1>5, <1>6, <1>9, <1>10 DEF W

IndexOk(index) ==
  \A i \in DOMAIN index : i \in Items /\ SoundRows(index[i].rows)

\* The input of a day's period, read through the index; only a harmed table is missing.
InputOk(input, index, harmed) ==
  /\ input.period \in Int
  /\ input.blocks \cup DOMAIN input.frames =
       {s \in Symbols : Item(s, RankingInterval, input.period) \in DOMAIN index}
  /\ input.blocks \cap DOMAIN input.frames = {}
  /\ input.blocks # {} => harmed
  /\ \A s \in DOMAIN input.frames :
       input.frames[s] = RowsIn(Item(s, RankingInterval, input.period), index)
  /\ input.evidence = {s \in Symbols : \A interval \in RequiredIntervals :
                                          Item(s, interval, input.period) \in DOMAIN index}

\* A symbol is eligible when its table could be read and it counts.
LEMMA EligibleCounts ==
  ASSUME NEW day \in Int, NEW index, IndexOk(index), NEW input, NEW harmed,
         InputOk(input, index, harmed), input.period = PeriodOf(day), NEW s \in Symbols
  PROVE  /\ s \in Eligible(day, input) <=> s \notin input.blocks /\ Counts(s, day, index)
         /\ s \in Eligible(day, input) =>
              /\ Volume(day, input)[s] = DayVolume(s, day, index)
              /\ DayVolume(s, day, index) \in Int
<1> DEFINE i == Item(s, RankingInterval, input.period)
           rows == RowsIn(i, index)
<1>1. s \in Eligible(day, input) <=> Reason(s, day, input) = "COUNTED"
  BY DEF Eligible
<1>2. Standing[s] # "COUNTED" /\ Standing[s] \in Standings
  BY UniverseAssumption DEF Standings
<1>3. Counts(s, day, index) <=>
        /\ Standing[s] = "ELIGIBLE" /\ s \in input.evidence /\ i \in DOMAIN index
        /\ \A open \in Window(day) : Cardinality({row \in rows : row.open = open}) = 1
  BY DEF Counts, Covers, InputOk
<1>4. i \in DOMAIN index <=> s \in input.blocks \cup DOMAIN input.frames
  BY DEF InputOk
<1>5. s \in DOMAIN input.frames => input.frames[s] = rows /\ s \notin input.blocks
  BY DEF InputOk
<1>6. i \in DOMAIN index => SoundRows(rows)
  BY DEF IndexOk, RowsIn
<1> HIDE DEF i, rows
<1>7. CASE s \in input.blocks
  <2>1. Reason(s, day, input) # "COUNTED"
    BY <1>7 DEF Reason
  <2> QED BY <1>1, <1>7, <2>1
<1>8. CASE s \notin input.blocks /\ (Standing[s] # "ELIGIBLE" \/ s \notin input.evidence
                                       \/ s \notin DOMAIN input.frames)
  <2>1. Reason(s, day, input) # "COUNTED"
    BY <1>2, <1>8 DEF Reason
  <2> QED BY <1>1, <1>3, <1>4, <1>8, <2>1
<1>9. CASE s \notin input.blocks /\ Standing[s] = "ELIGIBLE" /\ s \in input.evidence
             /\ s \in DOMAIN input.frames
  <2>1. i \in DOMAIN index /\ input.frames[s] = rows /\ SoundRows(rows)
    BY <1>4, <1>5, <1>6, <1>9
  <2> DEFINE W == InWindow(rows, day)
  <2>2. Reason(s, day, input) = IF W = {} THEN "DATA_INCOMPLETE" ELSE WindowReason(rows, day)
    BY <1>9, <2>1 DEF Reason
  <2>3. ~(\E row \in W : ~row.sound) /\ ~Conflicting(W)
    <3>1. ~Conflicting(W)
      BY <2>1, CoveredWindow
    <3>2. ~(\E row \in W : ~row.sound)
      BY <2>1 DEF SoundRows, InWindow
    <3> QED BY <3>1, <3>2
  <2>4. WindowReason(rows, day) = IF Opens(W) # Window(day) THEN "CANDLE_GAP" ELSE "COUNTED"
    BY <2>3, Zenon DEF WindowReason
  <2>5. Opens(W) = Window(day) => W # {}
    <3>1. Opens({}) = {}
      BY DEF Opens
    <3> HIDE DEF W
    <3> QED BY <3>1, WindowFacts
  <2>6. Reason(s, day, input) = "COUNTED" <=> Opens(W) = Window(day)
    <3> HIDE DEF W
    <3> QED BY <2>2, <2>4, <2>5
  <2>7. Opens(W) = Window(day) <=>
          \A open \in Window(day) : Cardinality({row \in rows : row.open = open}) = 1
    BY <2>1, CoveredWindow
  <2>8. s \in Eligible(day, input) <=> Counts(s, day, index)
    <3> HIDE DEF W
    <3> QED BY <1>1, <1>3, <1>9, <2>1, <2>6, <2>7
  <2>9. ASSUME s \in Eligible(day, input)
        PROVE  Volume(day, input)[s] = DayVolume(s, day, index) /\ DayVolume(s, day, index) \in Int
    <3>1. Opens(W) = Window(day)
      <4> HIDE DEF W
      <4> QED BY <1>1, <2>6, <2>9
    <3>2. Volume(day, input)[s] = WindowVolume(rows, day)
      BY <2>1, <2>9 DEF Volume
    <3>3. DayVolume(s, day, index) =
            SumFunction([open \in Window(day) |-> (CHOOSE row \in rows : row.open = open).volume])
      BY DEF DayVolume, rows, i
    <3>4. WindowVolume(rows, day) = DayVolume(s, day, index) /\ WindowVolume(rows, day) \in Int
      BY <2>1, <3>1, <3>3, CoveredWindow
    <3> QED BY <3>2, <3>4
  <2> QED BY <1>9, <2>8, <2>9
<1> QED BY <1>7, <1>8, <1>9

\* So the snapshot of a day ranks it.
LEMMA DayIsRanked ==
  ASSUME NEW day \in Int, NEW index, IndexOk(index), NEW input, NEW harmed,
         InputOk(input, index, harmed), input.period = PeriodOf(day)
  PROVE  RanksItsDay(Snapshot(day, input), index, harmed)
<1> DEFINE E == Eligible(day, input)
           volume == Volume(day, input)
           snapshot == Snapshot(day, input)
<1>1. E \subseteq Symbols /\ \A s \in E : volume[s] = DayVolume(s, day, index) /\ volume[s] \in Int
  BY EligibleCounts DEF Eligible
<1>2. Eligibles(E, volume)
  <2>1. IsFiniteSet(E) /\ Cardinality(E) \in Nat
    <3> HIDE DEF E
    <3> QED BY <1>1, UniverseAssumption, FS_Subset, FS_CardinalityType
  <2> QED BY <1>1, <2>1, UniverseAssumption DEF Eligibles, Volumes
<1>3. RankedMembers(snapshot, E, volume)
  BY <1>2, MembersAreRanked
<1>4. snapshot.day = day /\ Symbols \ DOMAIN snapshot.blocked = E
  <2>1. snapshot.day = day /\ DOMAIN snapshot.blocked = Symbols \ E
    BY SnapshotFields
  <2> HIDE DEF E, snapshot
  <2> QED BY <1>1, <2>1
<1>5. \A s \in Symbols : (s \in E <=> Counts(s, day, index)) \/ (harmed /\ Counts(s, day, index))
  <2> SUFFICES ASSUME NEW s \in Symbols
               PROVE  (s \in E <=> Counts(s, day, index)) \/ (harmed /\ Counts(s, day, index))
    OBVIOUS
  <2>1. s \in E <=> s \notin input.blocks /\ Counts(s, day, index)
    BY EligibleCounts
  <2>2. s \in input.blocks => harmed
    BY DEF InputOk
  <2> QED BY <2>1, <2>2
<1> HIDE DEF E, volume, snapshot
<1>6. \A s, other \in E : Ahead(volume, s, other) <=> Beats(s, other, day, index)
  BY <1>1 DEF Ahead, Beats
<1>7. \A s \in E : RankOfDay(s, E, volume) = Cardinality({t \in E : Beats(t, s, day, index)})
  <2> SUFFICES ASSUME NEW s \in E
               PROVE  RankOfDay(s, E, volume) = Cardinality({t \in E : Beats(t, s, day, index)})
    OBVIOUS
  <2>1. {t \in E : Ahead(volume, t, s)} = {t \in E : Beats(t, s, day, index)}
    BY <1>6
  <2> QED BY <2>1 DEF RankOfDay
<1>8. /\ SymbolsOf(snapshot) \subseteq E /\ FixedSymbols \cap E \subseteq SymbolsOf(snapshot)
      /\ Cardinality(SymbolsOf(snapshot)) =
           IF Cardinality(E) < TargetCount THEN Cardinality(E) ELSE TargetCount
      /\ \A s \in SymbolsOf(snapshot) \ FixedSymbols, other \in E \ SymbolsOf(snapshot) :
           Beats(s, other, day, index)
  <2>1. /\ SymbolsOf(snapshot) \subseteq E /\ FixedSymbols \cap E \subseteq SymbolsOf(snapshot)
        /\ Cardinality(SymbolsOf(snapshot)) = SizeOfDay(E)
        /\ \A s \in SymbolsOf(snapshot) \ FixedSymbols, other \in E \ SymbolsOf(snapshot) :
             Ahead(volume, s, other)
    BY <1>3 DEF RankedMembers
  <2> QED BY <1>6, <2>1 DEF SizeOfDay
<1>9. ASSUME NEW n \in DOMAIN snapshot.members
      PROVE  /\ snapshot.members[n].volume = DayVolume(snapshot.members[n].symbol, day, index)
             /\ \A later \in n + 1 .. Len(snapshot.members) :
                  Beats(snapshot.members[n].symbol, snapshot.members[later].symbol, day, index)
             /\ snapshot.members[n].forced <=>
                  Cardinality({s \in E : Beats(s, snapshot.members[n].symbol, day, index)}) >= TargetCount
  <2> DEFINE symbol == snapshot.members[n].symbol
             k == SizeOfDay(E)
  <2>1. /\ n \in 1..k /\ Len(snapshot.members) = k
        /\ \A m \in 1..k : snapshot.members[m].symbol \in E
        /\ snapshot.members[n].volume = volume[symbol]
        /\ \A later \in n + 1 .. k : Ahead(volume, symbol, snapshot.members[later].symbol)
        /\ snapshot.members[n].forced <=> RankOfDay(symbol, E, volume) >= TargetCount
    BY <1>3, <1>9 DEF RankedMembers
  <2>2. symbol \in E
    BY <2>1
  <2>3. k \in Nat /\ \A later \in n + 1 .. k : later \in 1..k
    BY <1>2, <2>1, UniverseAssumption DEF SizeOfDay, Eligibles
  <2> HIDE DEF k
  <2>4. \A later \in n + 1 .. k : Beats(symbol, snapshot.members[later].symbol, day, index)
    BY <1>6, <2>1, <2>2, <2>3
  <2>5. RankOfDay(symbol, E, volume) = Cardinality({s \in E : Beats(s, symbol, day, index)})
    BY <1>7, <2>2
  <2>6. volume[symbol] = DayVolume(symbol, day, index)
    BY <1>1, <2>2
  <2> QED BY <2>1, <2>4, <2>5, <2>6
<1>10. RanksItsDay(snapshot, index, harmed)
  BY <1>4, <1>5, <1>8, <1>9 DEF RanksItsDay, SymbolsOf
<1> QED BY <1>10 DEF snapshot

-----------------------------------------------------------------------------
(* The universe over a store that was filled in stages *)

\* The rows of a table and of a manifest are those of the archive whose content they
\* name. A table has been harmed when one is not whole or is not there.
TableOk(i, c) ==
  table[i][c] # Absent => /\ table[i][c].rows = Rows(i, c)
                          /\ harms = 0 => table[i][c].whole

ManifestOk(i, m) ==
  /\ m.rows = Rows(i, m.content)
  /\ harms = 0 => table[i][m.content] # Absent

\* A worker that has hashed an archive reads this one or none, and keeps its rows; a
\* table it hashes is there.
JobTold(j) ==
  j.kind = "normalize" =>
    /\ \A i \in DOMAIN j.records : j.records[i].rows = Rows(i, j.records[i].content)
    /\ j.step = "read" => raw[j.item] \in {j.seen, Absent}
    /\ j.step \in RowSteps => j.rows = Rows(j.item, j.seen)
    /\ j.step \in {"digest", "manifest"} /\ harms = 0 => table[j.item][j.seen] # Absent

\* The rows of every record are those of the archive that it names.
RecordsNameTheirRows ==
  \A dataset \in datasets :
    \A i \in DOMAIN dataset.records : dataset.records[i].rows = Rows(i, dataset.records[i].content)

Staged ==
  /\ harms \in Nat /\ DownloadedFirst
  /\ \A i \in Items, c \in Contents : TableOk(i, c)
  /\ \A i \in Items : \A m \in manifest[i] : ManifestOk(i, m)
  /\ \A w \in Workers : JobTold(job[w])
  /\ RecordsNameTheirRows

\* Once a batch has begun the index stands: its run has it, and the input it holds
\* and every snapshot there is were made by it.
RankingInv ==
  /\ StoreInv /\ UniverseInv /\ Staged /\ runs \in Nat
  /\ runs = 0 => run = NotRunning /\ snapshots = {}
  /\ run # NotRunning => /\ run.index = Index
                         /\ run.input.period # NoPeriod => InputOk(run.input, Index, harms > 0)
  /\ SnapshotsRankTheirDay

LEMMA IndexIsOk ==
  ASSUME StoreInv
  PROVE  IndexOk(Index) /\ \A i \in DOMAIN Index : i \in Items /\ Index[i] \in manifest[i]
<1>1. ASSUME NEW i \in DOMAIN Index
      PROVE  i \in Items /\ Index[i] \in manifest[i] /\ SoundRows(Index[i].rows)
  <2>1. i \in Items /\ manifest[i] # {} /\ Index[i] = CHOOSE m \in manifest[i] : TRUE
    BY DEF Index
  <2>2. Index[i] \in manifest[i]
    BY <2>1
  <2>3. PICK served \in past[i] : Index[i].rows = Rows(i, served) /\ NormalizesAt(i, served)
    BY <2>1, <2>2 DEF StoreInv, StoreOk, ServedRows
  <2>4. served \in Contents
    BY <2>1, <2>3 DEF StoreInv, StoreTypeOK
  <2> QED BY <2>1, <2>2, <2>3, <2>4, NormalisedRows
<1> QED BY <1>1 DEF IndexOk

LEMMA IndexStays == UNCHANGED manifest => Index' = Index
BY DEF Index

\* What is read from the tables of a period.
LEMMA PeriodIsRead ==
  ASSUME StoreInv, Staged, NEW period \in Int
  PROVE  PeriodInput(period, Index).period = period
         /\ InputOk(PeriodInput(period, Index), Index, harms > 0)
<1> DEFINE ItemOf(s) == Item(s, RankingInterval, period)
           ranked == {s \in Symbols : ItemOf(s) \in DOMAIN Index}
           read == {s \in ranked : Readable(ItemOf(s), Index)}
           input == PeriodInput(period, Index)
<1>1. /\ input.period = period /\ input.blocks = ranked \ read
      /\ input.frames = [s \in read |-> TableOf(ItemOf(s), Index).rows]
      /\ input.evidence = {s \in Symbols : \A interval \in RequiredIntervals :
                                              Item(s, interval, period) \in DOMAIN Index}
  BY DEF PeriodInput
<1>2. ASSUME NEW s \in ranked
      PROVE  /\ ~Readable(ItemOf(s), Index) => harms > 0
             /\ Readable(ItemOf(s), Index) => TableOf(ItemOf(s), Index).rows = RowsIn(ItemOf(s), Index)
  <2> DEFINE i == ItemOf(s)
             m == Index[i]
             found == table[i][m.content]
  <2>1. i \in Items /\ m \in manifest[i]
    BY IndexIsOk
  <2>2. m.content \in Contents
    BY <2>1 DEF StoreInv, StoreTypeOK, Manifests
  <2>3. ManifestOk(i, m) /\ TableOk(i, m.content)
    BY <2>1, <2>2 DEF Staged
  <2>4. Readable(i, Index) <=> found # Absent /\ found.whole
    BY DEF Readable, TableOf
  <2>5. harms \in Nat /\ TableOf(i, Index) = found /\ RowsIn(i, Index) = m.rows
    BY DEF Staged, TableOf, RowsIn
  <2> HIDE DEF i, m
  <2>6. ~Readable(i, Index) => harms # 0
    BY <2>3, <2>4 DEF TableOk, ManifestOk
  <2>7. Readable(i, Index) => found.rows = m.rows
    BY <2>3, <2>4 DEF TableOk, ManifestOk
  <2> QED BY <2>5, <2>6, <2>7 DEF i
<1> HIDE DEF input, ItemOf
<1>3. DOMAIN input.frames = read /\ \A s \in read : input.frames[s] = RowsIn(ItemOf(s), Index)
  <2>1. \A s \in read : TableOf(ItemOf(s), Index).rows = RowsIn(ItemOf(s), Index)
    BY <1>2
  <2> HIDE DEF read
  <2> QED BY <1>1, <2>1
<1>4. input.blocks # {} => harms > 0
  BY <1>1, <1>2
<1>5. input.blocks \cup DOMAIN input.frames = ranked /\ input.blocks \cap DOMAIN input.frames = {}
  BY <1>1, <1>3
<1>6. InputOk(input, Index, harms > 0)
  BY <1>1, <1>3, <1>4, <1>5 DEF InputOk, ItemOf
<1> QED BY <1>1, <1>6 DEF input

\* What was ranked stays ranked while no manifest is written and tables are harmed.
LEMMA RankingStays ==
  ASSUME Index' = Index, harms > 0 => harms' > 0
  PROVE  /\ \A input : InputOk(input, Index, harms > 0) => InputOk(input, Index', harms' > 0)
         /\ \A snapshot : RanksItsDay(snapshot, Index, harms > 0)
                            => RanksItsDay(snapshot, Index', harms' > 0)
<1>1. ASSUME NEW input, InputOk(input, Index, harms > 0) PROVE InputOk(input, Index', harms' > 0)
  BY <1>1 DEF InputOk
<1>2. ASSUME NEW snapshot, RanksItsDay(snapshot, Index, harms > 0)
      PROVE  RanksItsDay(snapshot, Index', harms' > 0)
  <2> DEFINE index == Index
  <2>1. RanksItsDay(snapshot, index, harms > 0) /\ Index' = index
    BY <1>2
  <2> HIDE DEF index
  <2>2. RanksItsDay(snapshot, index, harms' > 0)
    BY <2>1 DEF RanksItsDay
  <2> QED BY <2>1, <2>2
<1> QED BY <1>1, <1>2

\* The stages are kept by a step of one worker that writes nothing,
LEMMA StagedJob ==
  ASSUME StoreInv, Staged, NEW w \in Workers, NEW new, job' = [job EXCEPT ![w] = new],
         UNCHANGED << raw, table, manifest, harms, datasets >>, JobTold(new), DownloadedFirst'
  PROVE  Staged'
<1>1. job'[w] = new /\ \A v \in Workers \ {w} : job'[v] = job[v]
  BY DEF StoreInv, StoreTypeOK
<1>2. ASSUME NEW v \in Workers PROVE JobTold(job[v])'
  <2>1. PICK j : j = job'[v]
    OBVIOUS
  <2>2. JobTold(j)
    BY <1>1, <2>1 DEF Staged
  <2>3. JobTold(j)'
    BY <2>2 DEF JobTold, Rows
  <2> QED BY <2>1, <2>3 DEF JobTold
<1> QED BY <1>2 DEF Staged, TableOk, ManifestOk, RecordsNameTheirRows, Rows

\* and by each step that writes.
LEMMA StagedPlace ==
  ASSUME StoreInv, Staged, NEW w \in Workers, Place(w), DownloadedFirst'
  PROVE  Staged'
<1>1. /\ job[w].kind = "download" /\ DOMAIN job[w] = Fields
      /\ UNCHANGED << table, manifest, harms, datasets >>
  BY WorkingJob DEF Place, At, tables
<1>2. job'[w].kind = "download" /\ \A v \in Workers \ {w} : job'[v] = job[v]
  BY <1>1 DEF Place, Advance, Fields, StoreInv, StoreTypeOK
<1>3. ASSUME NEW v \in Workers PROVE JobTold(job[v])'
  <2>1. job'[v].kind # "normalize"
    BY <1>2 DEF DownloadedFirst
  <2> QED BY <2>1 DEF JobTold
<1> QED BY <1>1, <1>3 DEF Staged, TableOk, ManifestOk, RecordsNameTheirRows, Rows

LEMMA StagedTable ==
  ASSUME StoreInv, Staged, NEW w \in Workers, WriteTable(w), DownloadedFirst'
  PROVE  Staged'
<1> DEFINE i == job[w].item
           content == job[w].seen
           made == [writer |-> w, whole |-> TRUE, rows |-> job[w].rows]
           new == [job[w] EXCEPT !.step = "digest", !.seen = content]
<1>1. /\ JobOk(job[w]) /\ job[w].kind = "normalize" /\ job[w].step = "write"
      /\ i \in Items /\ content \in Contents /\ DOMAIN job[w] = Fields
      /\ UNCHANGED << raw, manifest, harms, datasets >>
  BY WorkingJob DEF WriteTable, At, JobOk, Seen, StoreInv, StoreTypeOK
<1>2. JobTold(job[w]) /\ job[w].rows = Rows(i, content)
  BY <1>1 DEF Staged, JobTold, RowSteps
<1>3. made \in Tables
  <2>1. ServedRows(i, job[w].rows)
    BY <1>1 DEF JobOk, RowSteps
  <2>2. job[w].rows \in SUBSET RowRecords
    BY <1>1, <2>1, ServedAreRows DEF StoreInv
  <2> QED BY <2>2 DEF Tables
<1>4. made # Absent /\ made.whole /\ made.rows = Rows(i, content)
  BY <1>2, <1>3, StoreAssumption
<1>5. /\ table' = [table EXCEPT ![i][content] = made]
      /\ job' = [job EXCEPT ![w] = new]
  BY DEF WriteTable, Advance, StoreInv, StoreTypeOK
<1>6. /\ new.item = i /\ new.seen = content /\ new.kind = "normalize" /\ new.step = "digest"
      /\ new.records = job[w].records /\ new.rows = job[w].rows
  BY <1>1 DEF Fields
<1>7. job'[w] = new /\ \A v \in Workers \ {w} : job'[v] = job[v]
  BY <1>5 DEF StoreInv, StoreTypeOK
<1> HIDE DEF i, content, new, made
<1>8. table'[i][content] = made /\ \A k \in Items, c \in Contents :
        (table'[k][c] = made /\ k = i /\ c = content) \/ table'[k][c] = table[k][c]
  BY <1>1, <1>5 DEF StoreInv, StoreTypeOK
<1>9. ASSUME NEW v \in Workers PROVE JobTold(job[v])'
  <2>1. CASE v = w
    <3>1. PICK j, k, c : j = new /\ k = i /\ c = content
      OBVIOUS
    <3>2. /\ j.kind = "normalize" /\ j.step = "digest" /\ j.item = k /\ j.seen = c
          /\ j.records = job[w].records /\ j.rows = Rows(k, c) /\ table'[k][c] # Absent
      BY <1>2, <1>4, <1>6, <1>8, <3>1
    <3>3. \A n \in DOMAIN j.records : j.records[n].rows = Rows(n, j.records[n].content)
      BY <1>1, <1>2, <3>2 DEF JobTold
    <3>4. JobTold(j)'
      BY <3>2, <3>3 DEF JobTold, Rows
    <3> QED BY <1>7, <2>1, <3>1, <3>4 DEF JobTold
  <2>2. CASE v # w
    <3>1. PICK j : j = job[v]
      OBVIOUS
    <3>2. JobTold(j) /\ JobOk(j) /\ job'[v] = j
      BY <1>7, <2>2, <3>1 DEF Staged, StoreInv
    <3>3. j.kind = "normalize" /\ j.step # "pick" => j.item \in Items /\ j.seen \in Contents
      BY <3>1, WorkingJob DEF JobOk, Seen, StoreInv, StoreTypeOK
    <3>4. JobTold(j)'
      BY <1>1, <1>4, <1>8, <3>2, <3>3 DEF JobTold, Rows
    <3> QED BY <3>2, <3>4 DEF JobTold
  <2> QED BY <2>1, <2>2
<1>10. \A k \in Items, c \in Contents : TableOk(k, c)'
  BY <1>1, <1>4, <1>8 DEF Staged, TableOk, Rows
<1>11. ASSUME NEW k \in Items, NEW m \in manifest'[k] PROVE ManifestOk(k, m)'
  <2>1. m \in manifest[k] /\ m.content \in Contents /\ ManifestOk(k, m)
    BY <1>1 DEF Staged, StoreInv, StoreTypeOK, Manifests
  <2> QED BY <1>1, <1>4, <1>8, <2>1 DEF ManifestOk, Rows
<1> QED BY <1>1, <1>9, <1>10, <1>11 DEF Staged, RecordsNameTheirRows, Rows

LEMMA StagedManifest ==
  ASSUME StoreInv, Staged, NEW w \in Workers, WriteManifest(w), DownloadedFirst'
  PROVE  Staged'
<1> DEFINE i == job[w].item
           content == job[w].seen
           record == Record(content, job[w].rows, job[w].found)
<1>1. /\ JobOk(job[w]) /\ job[w].kind = "normalize" /\ job[w].step = "manifest"
      /\ i \in Items /\ DOMAIN job[w] = Fields /\ DOMAIN job = Workers
      /\ UNCHANGED << raw, table, harms, datasets >>
  BY WorkingJob DEF WriteManifest, At, JobOk, StoreInv, StoreTypeOK
<1>2. JobTold(job[w]) /\ record.content = content /\ record.rows = Rows(i, content)
      /\ (harms = 0 => table[i][content] # Absent)
  BY <1>1 DEF Staged, JobTold, RowSteps, Record
<1>3. KeepManifest(i, record)
  BY DEF WriteManifest
<1>4. Fail(w, i) \/ Done(w, i, record)
  BY DEF WriteManifest
<1> HIDE DEF record, i, content
<1>5. \A k \in Items : \A m \in manifest'[k] : m \in manifest[k] \/ (k = i /\ m = record)
  BY <1>1, <1>3 DEF KeepManifest, StoreInv, StoreTypeOK
<1>6. /\ job'[w].step = "pick" /\ \A v \in Workers \ {w} : job'[v] = job[v]
      /\ \A k \in DOMAIN job'[w].records :
           \/ job'[w].records[k] = record /\ k = i
           \/ k \in DOMAIN job[w].records /\ job'[w].records[k] = job[w].records[k]
  <2>1. CASE Fail(w, i)
    <3>1. /\ job'[w].step = "pick" /\ job'[w].records = job[w].records
          /\ \A v \in Workers \ {w} : job'[v] = job[v]
      BY <1>1, <2>1 DEF Fail, Fields
    <3> QED BY <3>1
  <2>2. CASE Done(w, i, record)
    <3> DEFINE records == [k \in DOMAIN job[w].records \cup {i} |->
                             IF k = i THEN record ELSE job[w].records[k]]
    <3>1. /\ job'[w].step = "pick" /\ job'[w].records = records
          /\ \A v \in Workers \ {w} : job'[v] = job[v]
      BY <1>1, <2>2 DEF Done, Fields
    <3> QED BY <3>1
  <2> QED BY <1>4, <2>1, <2>2
<1>7. ASSUME NEW v \in Workers PROVE JobTold(job[v])'
  <2>1. CASE v = w
    <3>1. \A k \in DOMAIN job'[w].records : job'[w].records[k].rows = Rows(k, job'[w].records[k].content)
      BY <1>1, <1>2, <1>6 DEF JobTold
    <3> QED BY <1>6, <2>1, <3>1 DEF JobTold, RowSteps, Rows
  <2>2. CASE v # w
    BY <1>1, <1>6, <2>2 DEF Staged, JobTold, Rows
  <2> QED BY <2>1, <2>2
<1>8. ASSUME NEW k \in Items, NEW m \in manifest'[k] PROVE ManifestOk(k, m)'
  <2>1. ManifestOk(k, m)
    BY <1>2, <1>5 DEF Staged, ManifestOk
  <2> QED BY <1>1, <2>1 DEF ManifestOk, Rows
<1>9. \A k \in Items, c \in Contents : TableOk(k, c)'
  BY <1>1 DEF Staged, TableOk, Rows
<1> QED BY <1>1, <1>7, <1>8, <1>9 DEF Staged, RecordsNameTheirRows, Rows

LEMMA StagedFinish ==
  ASSUME StoreInv, Staged, NEW w \in Workers, FinishBatch(w), DownloadedFirst'
  PROVE  Staged'
<1>1. /\ UNCHANGED << raw, table, manifest, harms >> /\ job[w].kind # "none"
      /\ job' = [job EXCEPT ![w] = Idle]
      /\ datasets' = IF job[w].kind = "normalize" THEN datasets \cup {Dataset(w)} ELSE datasets
  BY DEF FinishBatch, tables
<1>2. job'[w] = Idle /\ Idle.kind = "none" /\ \A v \in Workers \ {w} : job'[v] = job[v]
  BY <1>1 DEF StoreInv, StoreTypeOK, Idle
<1>3. ASSUME NEW v \in Workers PROVE JobTold(job[v])'
  <2>1. CASE v = w
    BY <1>2, <2>1 DEF JobTold
  <2>2. CASE v # w
    BY <1>1, <1>2, <2>2 DEF Staged, JobTold, Rows
  <2> QED BY <2>1, <2>2
<1>4. \A dataset \in datasets' : \A i \in DOMAIN dataset.records :
        dataset.records[i].rows = Rows(i, dataset.records[i].content)
  <2>1. JobTold(job[w]) /\ Dataset(w).records = job[w].records
    BY DEF Staged, Dataset
  <2> QED BY <1>1, <2>1 DEF Staged, JobTold, RecordsNameTheirRows
<1>5. RecordsNameTheirRows'
  BY <1>4 DEF RecordsNameTheirRows, Rows
<1> QED BY <1>1, <1>3, <1>5 DEF Staged, TableOk, ManifestOk, Rows

LEMMA StagedStep ==
  ASSUME StoreInv, Staged, NEW w \in Workers, StoreStep(w), DownloadedFirst'
  PROVE  Staged' /\ harms' = harms
<1> DEFINE j == job[w]
           Still == UNCHANGED << raw, table, manifest, harms, datasets >>
<1>1. JobOk(j) /\ JobTold(j) /\ DOMAIN j = Fields /\ DOMAIN job = Workers
  BY WorkingJob DEF StoreInv, StoreTypeOK, Staged
<1>2. ASSUME NEW new, job' = [job EXCEPT ![w] = new], JobTold(new), Still
      PROVE  Staged'
  BY <1>2, StagedJob
<1>3. ASSUME NEW i, Fail(w, i), Still PROVE Staged'
  <2> DEFINE new == [j EXCEPT !.step = "pick", !.todo = @ \ {i}, !.failed = @ \cup {i}]
  <2>1. job' = [job EXCEPT ![w] = new] /\ new.step = "pick" /\ new.records = j.records
        /\ new.kind = j.kind
    BY <1>1, <1>3 DEF Fail, Fields
  <2> HIDE DEF new
  <2>2. JobTold(new)
    BY <1>1, <2>1 DEF JobTold, RowSteps
  <2> QED BY <1>2, <1>3, <2>1, <2>2
<1>4. ASSUME NEW i, NEW record, Done(w, i, record), Still,
             j.kind = "normalize" => record.rows = Rows(i, record.content)
      PROVE  Staged'
  <2> DEFINE records == [k \in DOMAIN j.records \cup {i} |-> IF k = i THEN record ELSE j.records[k]]
             new == [j EXCEPT !.step = "pick", !.todo = @ \ {i},
                       !.records = [k \in DOMAIN @ \cup {i} |-> IF k = i THEN record ELSE @[k]]]
  <2>1. job' = [job EXCEPT ![w] = new] /\ new.step = "pick" /\ new.records = records
        /\ new.kind = j.kind
    BY <1>1, <1>4 DEF Done, Fields
  <2> HIDE DEF new
  <2>2. JobTold(new)
    BY <1>1, <1>4, <2>1 DEF JobTold, RowSteps
  <2> QED BY <1>2, <1>4, <2>1, <2>2
<1>5. ASSUME NEW step, step # "pick", Advance(w, step, j.seen), Still,
             j.kind = "normalize" =>
               /\ step = "read" => raw[j.item] \in {j.seen, Absent}
               /\ step \in RowSteps => j.step \in RowSteps
               /\ step \in {"digest", "manifest"} => table[j.item][j.seen] # Absent
      PROVE  Staged'
  <2> DEFINE new == [j EXCEPT !.step = step, !.seen = j.seen]
  <2>1. /\ job' = [job EXCEPT ![w] = new] /\ new.step = step /\ new.seen = j.seen
        /\ new.item = j.item /\ new.kind = j.kind /\ new.records = j.records /\ new.rows = j.rows
    BY <1>1, <1>5 DEF Advance, Fields
  <2> HIDE DEF new
  <2>2. JobTold(new)
    BY <1>1, <1>5, <2>1 DEF JobTold
  <2> QED BY <1>2, <1>5, <2>1, <2>2
<1>6. ASSUME NEW step, NEW seen, Advance(w, step, seen), Still, j.kind = "download"
      PROVE  Staged'
  <2> DEFINE new == [j EXCEPT !.step = step, !.seen = seen]
  <2>1. job' = [job EXCEPT ![w] = new] /\ new.kind = "download"
    BY <1>1, <1>6 DEF Advance, Fields
  <2> HIDE DEF new
  <2>2. JobTold(new)
    BY <2>1 DEF JobTold
  <2> QED BY <1>2, <1>6, <2>1, <2>2
<1>7. ASSUME NEW kind, BeginBatch(w, kind) PROVE Staged' /\ harms' = harms
  <2> DEFINE refused == {i \in PlannedItems : kind = "download" /\ ~plan[i].checksum}
             new == [Idle EXCEPT !.kind = kind, !.plan = plan, !.todo = PlannedItems \ refused,
                                 !.failed = refused]
  <2>1. job' = [job EXCEPT ![w] = new] /\ new.step = "pick" /\ DOMAIN new.records = {} /\ Still
    BY <1>7 DEF BeginBatch, Idle, tables
  <2> HIDE DEF new
  <2>2. JobTold(new)
    BY <2>1 DEF JobTold, RowSteps
  <2> QED BY <1>2, <2>1, <2>2
<1>8. ASSUME KillBatch(w) PROVE Staged' /\ harms' = harms
  <2>1. job' = [job EXCEPT ![w] = Idle] /\ JobTold(Idle) /\ Still
    BY <1>8 DEF KillBatch, Idle, JobTold, tables
  <2> QED BY <1>2, <2>1
<1>9. ASSUME NEW i, DownloadPick(w, i) PROVE Staged' /\ harms' = harms
  <2>1. Still /\ j.kind = "download"
    BY <1>9 DEF DownloadPick, At, tables
  <2>2. CASE Receipted(w, i)
    BY <1>4, <1>9, <2>1, <2>2 DEF DownloadPick
  <2>3. CASE ~Receipted(w, i)
    <3> DEFINE new == [j EXCEPT !.item = i, !.step = "checksum"]
    <3>1. job' = [job EXCEPT ![w] = new] /\ new.kind = "download"
      BY <1>1, <1>9, <2>1, <2>3 DEF DownloadPick, Fields
    <3> HIDE DEF new
    <3>2. JobTold(new)
      BY <3>1 DEF JobTold
    <3> QED BY <1>2, <2>1, <3>1, <3>2
  <2> QED BY <2>1, <2>2, <2>3
<1>10. ASSUME Checksum(w) \/ Look(w) \/ Fetch(w) \/ Measure(w) PROVE Staged' /\ harms' = harms
  <2>1. Still /\ j.kind = "download"
    BY <1>10 DEF Checksum, Look, Fetch, Measure, At, tables
  <2>2. Fail(w, j.item) \/ \E step, seen : Advance(w, step, seen)
    BY <1>10 DEF Checksum, Look, Fetch, Measure
  <2> QED BY <1>3, <1>6, <2>1, <2>2
<1>11. ASSUME Receipt(w) PROVE Staged' /\ harms' = harms
  <2>1. Still /\ j.kind = "download"
    BY <1>11 DEF Receipt, At, tables
  <2>2. Fail(w, j.item) \/ \E record : Done(w, j.item, record)
    BY <1>11 DEF Receipt
  <2> QED BY <1>3, <1>4, <2>1, <2>2
<1>12. ASSUME NEW i \in PlannedItems, NormalizePick(w, i) PROVE Staged' /\ harms' = harms
  <2> DEFINE existing == ExistingNormalization(i, raw[i])
  <2>1. Still /\ j.kind = "normalize" /\ i \in Items
    BY <1>12, StoreAssumption DEF NormalizePick, At, tables
  <2>2. CASE ~DownloadReceipt(w, i) \/ Cardinality(existing) > 1
    BY <1>3, <1>12, <2>1, <2>2 DEF NormalizePick
  <2>3. CASE ~(~DownloadReceipt(w, i) \/ Cardinality(existing) > 1) /\ existing # {}
    <3>1. PICK m \in existing : Done(w, i, Record(raw[i], m.rows, m.table))
      BY <1>12, <2>3 DEF NormalizePick
    <3>2. m.rows = Rows(i, raw[i])
      BY <2>1, <3>1 DEF ExistingNormalization, Staged, ManifestOk
    <3> QED BY <1>4, <2>1, <3>1, <3>2 DEF Record
  <2>4. CASE ~(~DownloadReceipt(w, i) \/ Cardinality(existing) > 1) /\ existing = {}
    <3> DEFINE new == [j EXCEPT !.item = i, !.step = "hash", !.seen = raw[i]]
    <3>1. job' = [job EXCEPT ![w] = new] /\ new.step = "hash" /\ new.records = j.records
          /\ new.kind = j.kind
      BY <1>1, <1>12, <2>4 DEF NormalizePick, Fields
    <3> HIDE DEF new
    <3>2. JobTold(new)
      BY <1>1, <3>1 DEF JobTold, RowSteps
    <3> QED BY <1>2, <2>1, <3>1, <3>2
  <2> QED BY <2>1, <2>2, <2>3, <2>4
<1>13. ASSUME HashArchive(w) \/ FindTable(w) PROVE Staged' /\ harms' = harms
  <2>1. Still /\ j.kind = "normalize"
    BY <1>13 DEF HashArchive, FindTable, At, tables
  <2>2. CASE HashArchive(w)
    <3>1. Fail(w, j.item) \/ (raw[j.item] = j.seen /\ Advance(w, "read", j.seen))
      BY <2>2 DEF HashArchive
    <3> QED BY <1>3, <1>5, <2>1, <3>1 DEF RowSteps
  <2>3. CASE FindTable(w)
    <3>1. j.step = "table"
      BY <2>3 DEF FindTable, At
    <3>2. \/ Fail(w, j.item) \/ Advance(w, "write", j.seen)
          \/ table[j.item][j.seen] # Absent /\ Advance(w, "digest", j.seen)
      BY <2>3 DEF FindTable
    <3> QED BY <1>3, <1>5, <2>1, <3>1, <3>2 DEF RowSteps
  <2> QED BY <1>13, <2>1, <2>2, <2>3
<1>14. ASSUME ReadArchive(w) PROVE Staged' /\ harms' = harms
  <2> DEFINE i == j.item
             new == [j EXCEPT !.step = "table", !.rows = Rows(i, raw[i])]
  <2>1. Still /\ j.kind = "normalize" /\ j.step = "read"
    BY <1>14 DEF ReadArchive, At, tables
  <2>2. Fail(w, i) \/ (raw[i] # Absent /\ job' = [job EXCEPT ![w] = new])
    BY <1>14 DEF ReadArchive
  <2>3. ASSUME raw[i] # Absent, job' = [job EXCEPT ![w] = new] PROVE Staged'
    <3>1. raw[i] = j.seen
      BY <1>1, <2>1, <2>3 DEF JobTold
    <3>2. new.step = "table" /\ new.records = j.records /\ new.item = i /\ new.seen = j.seen
          /\ new.rows = Rows(i, raw[i])
      BY <1>1 DEF Fields
    <3>3. JobTold(new)
      <4> HIDE DEF new
      <4> QED BY <1>1, <2>1, <3>1, <3>2 DEF JobTold
    <3> QED BY <1>2, <2>1, <2>3, <3>3
  <2> QED BY <1>3, <2>1, <2>2, <2>3
<1>15. ASSUME HashTable(w) PROVE Staged' /\ harms' = harms
  <2> DEFINE i == j.item
             new == [j EXCEPT !.step = "manifest", !.found = table[i][j.seen]]
  <2>1. Still /\ j.kind = "normalize" /\ j.step = "digest"
    BY <1>15 DEF HashTable, At, tables
  <2>2. Fail(w, i) \/ (table[i][j.seen] # Absent /\ job' = [job EXCEPT ![w] = new])
    BY <1>15 DEF HashTable
  <2>3. ASSUME table[i][j.seen] # Absent, job' = [job EXCEPT ![w] = new] PROVE Staged'
    <3>1. new.step = "manifest" /\ new.records = j.records /\ new.item = i /\ new.seen = j.seen
          /\ new.rows = j.rows /\ new.kind = j.kind
      BY <1>1 DEF Fields
    <3>2. JobTold(new)
      <4> HIDE DEF new
      <4> QED BY <1>1, <2>1, <2>3, <3>1 DEF JobTold, RowSteps
    <3> QED BY <1>2, <2>1, <2>3, <3>2
  <2> QED BY <1>3, <2>1, <2>2, <2>3
<1>16. ASSUME Place(w) \/ WriteTable(w) \/ WriteManifest(w) \/ FinishBatch(w)
       PROVE  Staged' /\ harms' = harms
  BY <1>16, StagedPlace, StagedTable, StagedManifest, StagedFinish
  DEF Place, WriteTable, WriteManifest, FinishBatch
<1>17. CASE \E kind \in {"download", "normalize"} : BeginBatch(w, kind)
  BY <1>7, <1>17
<1>18. CASE \E i \in PlannedItems : DownloadPick(w, i) \/ NormalizePick(w, i)
  BY <1>9, <1>12, <1>18
<1> QED BY <1>8, <1>10, <1>11, <1>13, <1>14, <1>15, <1>16, <1>17, <1>18 DEF StoreStep

LEMMA StagedHarm ==
  ASSUME StoreInv, Staged, NEW i \in PlannedItems, NEW content \in Contents, HarmTable(i, content)
  PROVE  Staged' /\ harms' > 0
<1>1. i \in Items /\ UNCHANGED << raw, manifest, job, datasets >>
      /\ harms' = harms + 1 /\ table[i][content] # Absent
  BY StoreAssumption DEF HarmTable, exchange
<1>2. harms' \in Nat /\ harms' > 0
  BY <1>1 DEF Staged
<1>3. PICK rest \in {Absent, [table[i][content] EXCEPT !.whole = FALSE]} :
         table' = [table EXCEPT ![i][content] = rest]
  BY DEF HarmTable
<1>4. rest # Absent => rest.rows = Rows(i, content)
  <2>1. table[i][content] \in Tables /\ table[i][content].rows = Rows(i, content)
    BY <1>1 DEF Staged, TableOk, StoreInv, StoreTypeOK
  <2>2. [table[i][content] EXCEPT !.whole = FALSE].rows = table[i][content].rows
    BY <2>1 DEF Tables
  <2> QED BY <1>3, <2>1, <2>2
<1>5. \A k \in Items, c \in Contents :
        (table'[k][c] = rest /\ k = i /\ c = content) \/ table'[k][c] = table[k][c]
  BY <1>1, <1>3 DEF StoreInv, StoreTypeOK
<1>6. \A k \in Items, c \in Contents : TableOk(k, c)'
  BY <1>2, <1>4, <1>5 DEF Staged, TableOk, Rows
<1>7. \A k \in Items : \A m \in manifest'[k] : ManifestOk(k, m)'
  BY <1>1, <1>2 DEF Staged, ManifestOk, Rows
<1>8. \A w \in Workers : JobTold(job[w])'
  BY <1>1, <1>2 DEF Staged, JobTold, Rows
<1> QED BY <1>1, <1>2, <1>6, <1>7, <1>8 DEF Staged, RecordsNameTheirRows, Rows, DownloadedFirst

LEMMA StagedStays ==
  ASSUME StoreInv, Staged, UNCHANGED << table, manifest, job, harms, datasets >>,
         raw' = raw \/ \E i \in Items : raw' = [raw EXCEPT ![i] = Absent]
  PROVE  Staged'
<1>1. \A i \in Items : raw'[i] \in {raw[i], Absent}
  BY DEF StoreInv, StoreTypeOK
<1>2. ASSUME NEW w \in Workers PROVE JobTold(job[w])'
  <2>1. PICK j : j = job[w]
    OBVIOUS
  <2>2. JobTold(j) /\ job'[w] = j
    BY <2>1 DEF Staged
  <2>3. j.kind = "normalize" /\ j.step # "pick" => j.item \in Items
    BY <2>1, WorkingJob
  <2>4. j.kind = "normalize" /\ j.step = "read" => raw'[j.item] \in {j.seen, Absent}
    BY <1>1, <2>2, <2>3 DEF JobTold
  <2>5. JobTold(j)'
    BY <2>2, <2>4 DEF JobTold, Rows
  <2> QED BY <2>2, <2>5 DEF JobTold
<1> QED BY <1>2 DEF Staged, TableOk, ManifestOk, RecordsNameTheirRows, Rows, DownloadedFirst

LEMMA StagedNext ==
  ASSUME StoreInv, Staged, StoreNext, DownloadedFirst'
  PROVE  Staged' /\ (harms > 0 => harms' > 0)
<1>1. ASSUME NEW w \in Workers, StoreStep(w) PROVE Staged' /\ (harms > 0 => harms' > 0)
  BY <1>1, StagedStep
<1>2. ASSUME NEW i \in PlannedItems, NEW content \in Contents, HarmTable(i, content)
      PROVE  Staged' /\ (harms > 0 => harms' > 0)
  BY <1>2, StagedHarm
<1>3. ASSUME NEW i \in PlannedItems, NEW content \in Contents, Republish(i, content)
      PROVE  Staged' /\ (harms > 0 => harms' > 0)
  BY <1>3, StagedStays DEF Republish, tables
<1>4. ASSUME NEW i \in PlannedItems,
             RemoveArchive(i) \/ \E checksum \in BOOLEAN : Replan(i, checksum)
      PROVE  Staged' /\ (harms > 0 => harms' > 0)
  <2>1. i \in Items
    BY StoreAssumption
  <2> QED BY <1>4, <2>1, StagedStays DEF RemoveArchive, Replan, tables
<1> QED BY <1>1, <1>2, <1>3, <1>4 DEF StoreNext

\* A step of the batch leaves the tables alone and ranks by the index it began with.
LEMMA BatchRanks ==
  ASSUME RankingInv, UniverseNext
  PROVE  RankingInv'
<1>1. UNCHANGED storeVars
  BY DEF UniverseNext, BeginRun, ReuseDay, BuildDay, RecordProgress, FinishUniverse, KillRun
<1>2. Index' = Index /\ harms' = harms /\ Staged' /\ StoreInv' /\ UniverseInv'
  <2>1. UNCHANGED << raw, manifest, table, job, harms, datasets >>
    BY <1>1 DEF storeVars, tables
  <2>2. Staged'
    BY <2>1, StagedStays DEF RankingInv
  <2> QED BY <1>1, <2>1, <2>2, IndexStays, StoreInvNext, UniverseInvNext DEF RankingInv
<1>3. run # NotRunning => RunOk(run)
  BY DEF RankingInv, UniverseInv
<1>4. runs \in Nat /\ (runs = 0 => run = NotRunning /\ snapshots = {})
  BY DEF RankingInv
<1>5. \A input : InputOk(input, Index, harms > 0) => InputOk(input, Index, harms > 0)'
  BY <1>2, RankingStays
<1>6. ASSUME snapshots' = snapshots PROVE SnapshotsRankTheirDay'
  BY <1>2, <1>6, RankingStays DEF SnapshotsRankTheirDay, RankingInv
<1>7. CASE \E version \in Versions, reuse \in BOOLEAN : BeginRun(version, reuse)
  <2>1. /\ runs' = runs + 1 /\ snapshots' = snapshots
        /\ run'.index = Index /\ run'.input.period = NoPeriod
    BY <1>7 DEF BeginRun
  <2>2. runs' \in Nat /\ runs' # 0
    BY <1>4, <2>1
  <2> QED BY <1>2, <1>6, <2>1, <2>2 DEF RankingInv
<1>8. CASE ReuseDay \/ RecordProgress
  <2>1. /\ run # NotRunning /\ runs' = runs /\ snapshots' = snapshots
        /\ run'.index = run.index /\ run'.input = run.input
    BY <1>3, <1>8 DEF ReuseDay, RecordProgress, Building, Accept, FailDay, RunOk, RunFields
  <2> QED BY <1>2, <1>4, <1>5, <1>6, <2>1 DEF RankingInv
<1>9. CASE FinishUniverse \/ KillRun
  <2>1. run # NotRunning /\ run' = NotRunning /\ runs' = runs /\ snapshots' = snapshots
    BY <1>9 DEF FinishUniverse, KillRun
  <2> QED BY <1>2, <1>4, <1>6, <2>1 DEF RankingInv
<1>10. CASE BuildDay
  <2> DEFINE day == run.day - 1
             input == Input
             snapshot == Snapshot(day, input)
  <2>1. /\ run # NotRunning /\ runs' = runs /\ snapshots' = snapshots \cup {snapshot}
        /\ run' = [run EXCEPT !.input = input, !.built = snapshot]
    BY <1>10 DEF BuildDay, Building, WriteSnapshot
  <2>2. run'.index = run.index /\ run'.input = input
    BY <1>3, <2>1 DEF RunOk, RunFields
  <2>3. day \in Int /\ PeriodOf(day) \in Int /\ PeriodOf(day) # NoPeriod
    BY <1>3, <2>1, UniverseAssumption, RangeAssumption DEF RunOk, PeriodOf, NoPeriod
  <2>4. run.index = Index /\ (run.input.period # NoPeriod => InputOk(run.input, Index, harms > 0))
    BY <2>1 DEF RankingInv
  <2>5. input.period = PeriodOf(day) /\ InputOk(input, Index, harms > 0)
    <3>1. CASE run.input.period = PeriodOf(day)
      BY <2>3, <2>4, <3>1 DEF Input, RankingPeriod
    <3>2. CASE run.input.period # PeriodOf(day)
      BY <2>3, <2>4, <3>2, PeriodIsRead DEF Input, RankingPeriod, RankingInv
    <3> QED BY <3>1, <3>2
  <2> HIDE DEF day, input
  <2>6. RanksItsDay(snapshot, Index, harms > 0)
    BY <2>3, <2>5, IndexIsOk, DayIsRanked DEF RankingInv
  <2> HIDE DEF snapshot
  <2>7. \A ranked \in snapshots' : RanksItsDay(ranked, Index, harms > 0)
    BY <2>1, <2>6 DEF RankingInv, SnapshotsRankTheirDay
  <2>8. SnapshotsRankTheirDay'
    BY <1>2, <2>7, RankingStays DEF SnapshotsRankTheirDay
  <2> QED BY <1>2, <1>4, <1>5, <2>1, <2>2, <2>4, <2>5, <2>8 DEF RankingInv
<1> QED BY <1>7, <1>8, <1>9, <1>10 DEF UniverseNext

\* A step of the store, which writes no manifest once a batch has begun.
LEMMA StoreKeepsRanking ==
  ASSUME RankingInv, StoreNext, UNCHANGED universeVars, DownloadedFirst', NormalisedFirst
  PROVE  RankingInv'
<1>1. StoreInv' /\ UniverseInv' /\ Staged' /\ (harms > 0 => harms' > 0)
  BY StoreInvNext, UniverseInvNext, StagedNext DEF RankingInv
<1>2. UNCHANGED << run, runs, snapshots >>
  BY DEF universeVars
<1>3. CASE runs = 0
  BY <1>1, <1>2, <1>3 DEF RankingInv, SnapshotsRankTheirDay
<1>4. CASE runs # 0
  <2>1. Index' = Index
    BY <1>4, IndexStays DEF NormalisedFirst
  <2>2. /\ \A input : InputOk(input, Index, harms > 0) => InputOk(input, Index, harms > 0)'
        /\ SnapshotsRankTheirDay'
    BY <1>1, <1>2, <2>1, RankingStays DEF RankingInv, SnapshotsRankTheirDay
  <2> QED BY <1>1, <1>2, <1>4, <2>1, <2>2 DEF RankingInv
<1> QED BY <1>3, <1>4

LEMMA RankingInvNext ==
  RankingInv /\ [PipelineNext]_<<storeVars, universeVars>> => RankingInv'
<1> SUFFICES ASSUME RankingInv, [PipelineNext]_<<storeVars, universeVars>> PROVE RankingInv'
  OBVIOUS
<1>1. CASE UNCHANGED <<storeVars, universeVars>>
  <2>1. UNCHANGED << raw, manifest, table, job, harms, datasets, run, runs, snapshots >>
    BY <1>1 DEF storeVars, universeVars, tables
  <2>2. StoreInv' /\ UniverseInv'
    BY <1>1, StoreInvNext, UniverseInvNext DEF RankingInv
  <2>3. Staged' /\ Index' = Index
    BY <2>1, IndexStays, StagedStays DEF RankingInv
  <2>4. /\ \A input : InputOk(input, Index, harms > 0) => InputOk(input, Index, harms > 0)'
        /\ SnapshotsRankTheirDay'
    BY <2>1, <2>3, RankingStays DEF RankingInv, SnapshotsRankTheirDay
  <2> QED BY <2>1, <2>2, <2>3, <2>4 DEF RankingInv
<1> QED BY <1>1, BatchRanks, StoreKeepsRanking DEF PipelineNext

LEMMA RankingInvInit == StoreInit /\ UniverseInit => RankingInv
<1> SUFFICES ASSUME StoreInit, UniverseInit PROVE RankingInv
  OBVIOUS
<1>1. StoreInv /\ UniverseInv
  BY StoreInvInit, UniverseInvInit
<1>2. Staged
  <2>1. \A w \in Workers : job[w].kind = "none"
    BY DEF StoreInit, Idle
  <2>2. \A i \in Items : manifest[i] = {} /\ \A c \in Contents : table[i][c] = Absent
    BY DEF StoreInit
  <2>3. harms = 0 /\ datasets = {}
    BY DEF StoreInit
  <2> QED BY <2>1, <2>2, <2>3
      DEF Staged, DownloadedFirst, TableOk, JobTold, RecordsNameTheirRows
<1> QED BY <1>1, <1>2 DEF RankingInv, UniverseInit, SnapshotsRankTheirDay

\* When no archive is downloaded while another worker normalises, the rows of every
\* record are those of the archive it names: the hash and the read of
\* normalize_archive_to_parquet then see one file.
THEOREM StagedRecordsNameTheirRows == PipelineSpec => []RecordsNameTheirRows
<1>1. RankingInv => RecordsNameTheirRows
  BY DEF RankingInv, Staged
<1> QED BY <1>1, RankingInvInit, RankingInvNext, PTL DEF PipelineSpec

\* For any archives, workers, kills and republished or removed archives, and for any
\* tables harmed at any time: once the tables are made, every snapshot a batch ever
\* writes has the members that the rows behind the manifests call for.
THEOREM SnapshotsAreRanked == PipelineSpec => []SnapshotsRankTheirDay
<1>1. RankingInv => SnapshotsRankTheirDay
  BY DEF RankingInv
<1> QED BY <1>1, RankingInvInit, RankingInvNext, PTL DEF PipelineSpec

=============================================================================
