-------------------------- MODULE BinanceTransport --------------------------
(***************************************************************************)
(* run_binance_transport and finalize_binance_transport of                 *)
(* data/binance_usdm_transport.py: the HTTP queries of a plan, one after   *)
(* the other, each tried a bounded number of times. A body is committed to *)
(* the content-addressed cache, then its receipt is published, then the    *)
(* checkpoint is written. The process may be killed between any two steps  *)
(* and the plan run again; files may be lost between runs.                 *)
(***************************************************************************)
EXTENDS Integers, FiniteSets

CONSTANTS
  Tasks,             \* numbers, in the order of the plan
  Bodies,            \* what the server may answer; not the same every time
  MaxAttempts,       \* max_attempts of the plan
  MaxKills, MaxLost  \* bounds on crashes and on files lost

NoBody == "no body"

ASSUME TransportAssumption ==
  /\ Tasks \subseteq Nat /\ IsFiniteSet(Tasks) /\ Tasks # {}
  /\ Bodies # {} /\ NoBody \notin Bodies
  /\ MaxAttempts \in Nat \ {0} /\ MaxKills \in Nat /\ MaxLost \in Nat

VARIABLES
  stage,        \* "IDLE", "RUNNING", "RETURNED", "RAISED" or "FINALIZED"
  entries,      \* checkpoint entries in memory
  left,         \* tasks the run has not passed
  attempts,     \* attempts of the task being requested, NotTrying before
  body,         \* body of a successful response, NoBody
  committed,    \* the body is in the cache
  checkpoint,   \* checkpoint file, {} before the first is written
  blobs,        \* bodies in the cache
  receipts,     \* receipt files
  requests,     \* requests sent for each task, over all runs
  kills, lost

memory == <<entries, left, attempts, body, committed>>
disk == <<checkpoint, blobs, receipts>>
vars == <<stage, memory, disk, requests, kills, lost>>

NoReceipt == [body |-> NoBody, attempts |-> 0]
NotTrying == -1
Receipts == [body : Bodies, attempts : 1 .. MaxAttempts]

Entry(status, n, r) == [status |-> status, attempts |-> n, receipt |-> r]
Pending(n) == Entry("PENDING", n, NoReceipt)
Fresh == [t \in Tasks |-> Pending(0)]
NoCheckpoint == << >>

Larger(a, b) == IF a >= b THEN a ELSE b

HasReceipt(t) == receipts[t] # NoReceipt
ReceiptIsValid(t) == HasReceipt(t) /\ receipts[t].body \in blobs

----------------------------------------------------------------------------
\* Faulty: the attempts of the earlier runs are forgotten.
StartRunFaulty ==
  /\ stage # "RUNNING"
  /\ stage' = "RUNNING"
  /\ entries' = IF checkpoint = NoCheckpoint THEN Fresh
                ELSE [t \in Tasks |-> IF checkpoint[t].status = "PENDING" THEN Pending(0) ELSE checkpoint[t]]
  /\ left' = Tasks /\ attempts' = NotTrying /\ body' = NoBody /\ committed' = FALSE
  /\ UNCHANGED <<disk, requests, kills, lost>>

StartRun ==
  /\ stage # "RUNNING"
  /\ stage' = "RUNNING"
  /\ entries' = IF checkpoint = NoCheckpoint THEN Fresh ELSE checkpoint
  /\ left' = Tasks /\ attempts' = NotTrying /\ body' = NoBody /\ committed' = FALSE
  /\ UNCHANGED <<disk, requests, kills, lost>>

Turn(t) == stage = "RUNNING" /\ t \in left /\ \A u \in left : t <= u

Raise ==
  /\ stage' = "RAISED"
  /\ entries' = Fresh /\ left' = {} /\ attempts' = NotTrying /\ body' = NoBody
  /\ committed' = FALSE

\* Faulty: the run does not go on to the next task.
AdoptReceiptFaulty(t) ==
  /\ Turn(t) /\ attempts = NotTrying /\ ReceiptIsValid(t)
  /\ entries' = [entries EXCEPT ![t] =
       Entry("COMPLETE", Larger(entries[t].attempts, receipts[t].attempts), receipts[t])]
  /\ UNCHANGED <<stage, left, attempts, body, committed, disk, requests, kills, lost>>

\* A task whose receipt exists is complete, whatever the checkpoint says.
AdoptReceipt(t) ==
  /\ Turn(t) /\ attempts = NotTrying /\ ReceiptIsValid(t)
  /\ entries' = [entries EXCEPT ![t] =
       Entry("COMPLETE", Larger(entries[t].attempts, receipts[t].attempts), receipts[t])]
  /\ left' = left \ {t}
  /\ UNCHANGED <<stage, attempts, body, committed, disk, requests, kills, lost>>

\* The blob of the receipt is missing, a COMPLETE task has no receipt, or the
\* task has failed in an earlier run.
RefuseTask(t) ==
  /\ Turn(t) /\ attempts = NotTrying
  /\ \/ HasReceipt(t) /\ ~ReceiptIsValid(t)
     \/ ~HasReceipt(t) /\ entries[t].status # "PENDING"
  /\ Raise
  /\ UNCHANGED <<disk, requests, kills, lost>>

\* Faulty: a task that has failed is requested again.
BeginTaskFaulty(t) ==
  /\ Turn(t) /\ attempts = NotTrying /\ ~HasReceipt(t) /\ entries[t].status # "COMPLETE"
  /\ attempts' = 0
  /\ UNCHANGED <<stage, entries, left, body, committed, disk, requests, kills, lost>>

BeginTask(t) ==
  /\ Turn(t) /\ attempts = NotTrying /\ ~HasReceipt(t) /\ entries[t].status = "PENDING"
  /\ attempts' = entries[t].attempts
  /\ UNCHANGED <<stage, entries, left, body, committed, disk, requests, kills, lost>>

Requesting(t) ==
  Turn(t) /\ attempts # NotTrying /\ attempts < MaxAttempts /\ body = NoBody
Send(t) == requests' = [requests EXCEPT ![t] = @ + 1]

Receive(t, b) ==
  /\ Requesting(t) /\ Send(t)
  /\ attempts' = attempts + 1 /\ body' = b
  /\ UNCHANGED <<stage, entries, left, committed, disk, kills, lost>>

SaveEntry(t, e) ==
  /\ entries' = [entries EXCEPT ![t] = e]
  /\ checkpoint' = [entries EXCEPT ![t] = e]

\* A transport error or a retryable HTTP status, with attempts to spare.
RetryLater(t) ==
  /\ Requesting(t) /\ attempts + 1 < MaxAttempts /\ Send(t)
  /\ attempts' = attempts + 1
  /\ SaveEntry(t, Pending(attempts + 1))
  /\ UNCHANGED <<stage, left, body, committed, blobs, receipts, kills, lost>>

GiveUp(t, status) ==
  /\ Requesting(t) /\ Send(t)
  /\ status = "EXHAUSTED" => attempts + 1 = MaxAttempts
  /\ checkpoint' = [entries EXCEPT ![t] = Entry(status, attempts + 1, NoReceipt)]
  /\ Raise
  /\ UNCHANGED <<blobs, receipts, kills, lost>>

CommitBody(t) ==
  /\ Turn(t) /\ body # NoBody /\ ~committed
  /\ blobs' = blobs \cup {body} /\ committed' = TRUE
  /\ UNCHANGED <<stage, entries, left, attempts, body, checkpoint, receipts, requests,
                 kills, lost>>

\* Faulty: the receipt does not wait for the body.
PublishReceiptFaulty(t) ==
  /\ Turn(t) /\ body # NoBody /\ ~HasReceipt(t)
  /\ receipts' = [receipts EXCEPT ![t] = [body |-> body, attempts |-> attempts]]
  /\ UNCHANGED <<stage, memory, checkpoint, blobs, requests, kills, lost>>

PublishReceipt(t) ==
  /\ Turn(t) /\ body # NoBody /\ committed /\ ~HasReceipt(t)
  /\ receipts' = [receipts EXCEPT ![t] = [body |-> body, attempts |-> attempts]]
  /\ UNCHANGED <<stage, memory, checkpoint, blobs, requests, kills, lost>>

RecordComplete(t) ==
  /\ Turn(t) /\ body # NoBody /\ committed /\ HasReceipt(t)
  /\ SaveEntry(t, Entry("COMPLETE", attempts, receipts[t]))
  /\ left' = left \ {t} /\ attempts' = NotTrying /\ body' = NoBody /\ committed' = FALSE
  /\ UNCHANGED <<stage, blobs, receipts, requests, kills, lost>>

\* With an entry that is not COMPLETE the run would raise: it never has one.
FinishRun ==
  /\ stage = "RUNNING" /\ left = {} /\ \A t \in Tasks : entries[t].status = "COMPLETE"
  /\ stage' = "RETURNED" /\ checkpoint' = entries
  /\ UNCHANGED <<memory, blobs, receipts, requests, kills, lost>>

MayFinalize ==
  /\ checkpoint # NoCheckpoint
  /\ \A t \in Tasks : checkpoint[t].status = "COMPLETE" /\ ReceiptIsValid(t)
                      /\ checkpoint[t].receipt = receipts[t]

Finalize ==
  /\ stage # "RUNNING" /\ MayFinalize
  /\ stage' = "FINALIZED"
  /\ UNCHANGED <<memory, disk, requests, kills, lost>>

Kill ==
  /\ stage = "RUNNING" /\ kills < MaxKills
  /\ stage' = "IDLE" /\ kills' = kills + 1
  /\ entries' = Fresh /\ left' = {} /\ attempts' = NotTrying /\ body' = NoBody
  /\ committed' = FALSE
  /\ UNCHANGED <<disk, requests, lost>>

\* Outside the program, between runs.
LoseBlob(b) ==
  /\ stage # "RUNNING" /\ lost < MaxLost /\ b \in blobs
  /\ blobs' = blobs \ {b} /\ lost' = lost + 1 /\ stage' = "IDLE"
  /\ UNCHANGED <<memory, checkpoint, receipts, requests, kills>>

LoseReceipt(t) ==
  /\ stage # "RUNNING" /\ lost < MaxLost /\ HasReceipt(t)
  /\ receipts' = [receipts EXCEPT ![t] = NoReceipt] /\ lost' = lost + 1 /\ stage' = "IDLE"
  /\ UNCHANGED <<memory, checkpoint, blobs, requests, kills>>

----------------------------------------------------------------------------
Init ==
  /\ stage = "IDLE"
  /\ entries = Fresh /\ left = {} /\ attempts = NotTrying /\ body = NoBody /\ committed = FALSE
  /\ checkpoint = NoCheckpoint /\ blobs = {} /\ receipts = [t \in Tasks |-> NoReceipt]
  /\ requests = [t \in Tasks |-> 0] /\ kills = 0 /\ lost = 0

RunStep ==
  \/ \E t \in Tasks :
       \/ AdoptReceipt(t) \/ RefuseTask(t) \/ BeginTask(t)
       \/ \E b \in Bodies : Receive(t, b)
       \/ RetryLater(t) \/ GiveUp(t, "FAILED") \/ GiveUp(t, "EXHAUSTED")
       \/ CommitBody(t) \/ PublishReceipt(t) \/ RecordComplete(t)
  \/ FinishRun

Environment ==
  \/ Kill
  \/ \E b \in Bodies : LoseBlob(b)
  \/ \E t \in Tasks : LoseReceipt(t)

Next == StartRun \/ RunStep \/ Finalize \/ Environment

Spec == Init /\ [][Next]_vars

\* A run is a loop; a request ends with an answer or a transport error.
FairSpec == Spec /\ WF_vars(RunStep)

----------------------------------------------------------------------------
EntryRecords == [status : {"COMPLETE"}, attempts : 1 .. MaxAttempts, receipt : Receipts]
  \cup [status : {"PENDING", "FAILED", "EXHAUSTED"}, attempts : 0 .. MaxAttempts,
        receipt : {NoReceipt}]

\* Every variable stays in the range the code's fields have; in particular the
\* recorded attempts stay within the budget over all runs.
TypeOK ==
  /\ stage \in {"IDLE", "RUNNING", "RETURNED", "RAISED", "FINALIZED"}
  /\ entries \in [Tasks -> EntryRecords] /\ left \subseteq Tasks
  /\ attempts \in {NotTrying} \cup 0 .. MaxAttempts
  /\ body \in Bodies \cup {NoBody} /\ committed \in BOOLEAN
  /\ checkpoint = NoCheckpoint \/ checkpoint \in [Tasks -> EntryRecords]
  /\ blobs \subseteq Bodies /\ receipts \in [Tasks -> Receipts \cup {NoReceipt}]
  /\ requests \in [Tasks -> Nat] /\ kills \in 0 .. MaxKills /\ lost \in 0 .. MaxLost

\* Until a file is lost, a COMPLETE entry of the checkpoint names the receipt on
\* disk, and a receipt names a body in the cache, wherever the process is killed.
CompleteIsBacked ==
  lost = 0 =>
    /\ \A t \in Tasks : HasReceipt(t) => ReceiptIsValid(t)
    /\ checkpoint # NoCheckpoint =>
         \A t \in Tasks : checkpoint[t].status = "COMPLETE" => checkpoint[t].receipt = receipts[t]

\* The retry budget holds over all runs: each request beyond it is paid for by a
\* kill, which loses the attempt it interrupts.
BudgetOverRuns == \A t \in Tasks : requests[t] <= MaxAttempts + kills

Sent(t) == requests'[t] # requests[t]

\* "Successful tasks are never repeated" (docstring of run_binance_transport): no
\* request for a task that has a receipt, or that a checkpoint calls COMPLETE.
NeverRepeated ==
  [][\A t \in Tasks : Sent(t) =>
       ~HasReceipt(t) /\ (checkpoint # NoCheckpoint => checkpoint[t].status # "COMPLETE")]_vars

Spent(t) ==
  checkpoint # NoCheckpoint /\ checkpoint[t].status \in {"FAILED", "EXHAUSTED"}

\* A task that failed for good is never requested again, nor is any task after
\* it in the plan: no later run passes it.
FailureBlocksPlan ==
  [][\A t, u \in Tasks : Spent(t) /\ t <= u => ~Sent(u) /\ Spent(t)']_vars

\* What is settled is never asked for again, whether it succeeded or failed.
SettledStaysSettled == NeverRepeated /\ FailureBlocksPlan

\* A run that is not killed returns or raises.
RunEnds == stage = "RUNNING" ~> stage # "RUNNING"
=============================================================================
