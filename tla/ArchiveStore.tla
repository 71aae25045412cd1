---------------------------- MODULE ArchiveStore ----------------------------
(***************************************************************************)
(* The archive store: download_capacity_plan (data/archive_batch.py over   *)
(* data/archive.py) brings the planned archives to the disk with a receipt *)
(* each, and normalize_capacity_plan (data/normalization_batch.py over     *)
(* data/klines.py) turns receipt archives into tables with a manifest    *)
(* each.                                                                   *)
(*                                                                         *)
(* Several processes work on one directory, each with the plan of its own  *)
(* time, and may be killed anywhere. The exchange may publish an archive   *)
(* again. Nothing is locked: an archive that was looked for, hashed or     *)
(* measured may be another one when it is placed, read or hashed next. A   *)
(* file name that holds a hash is a function from that hash: receipts and  *)
(* tables of an item are keyed by the content of the archive, its          *)
(* manifests by that content and the rows that were read, which together   *)
(* make the normalised content hash.                                       *)
(***************************************************************************)
EXTENDS KlineArchives

CONSTANTS
  Items,           \* [symbol, interval, period]
  PlannedItems,    \* the rows of the capacity plan
  Contents,        \* the bytes an archive may have
  RowsOf,          \* the rows of every content of every item
  SizeOf,
  Corrupt,         \* bytes that the exchange never served, readable as they are
  Absent,
  Workers,         \* processes
  MaxPublications, MaxBatches, MaxHarms

RowRecords == [open : Int, volume : Int, sound : BOOLEAN]
Tables == [writer : Workers, whole : BOOLEAN, rows : SUBSET RowRecords]

ASSUME StoreAssumption ==
  /\ PlannedItems \subseteq Items
  /\ RowsOf \in [Items -> [Contents -> Seq(RowRecords)]]
  /\ SizeOf \in [Contents -> Nat]
  /\ Corrupt \in Contents
  /\ Absent \notin Contents /\ Absent \notin Nat /\ Absent \notin Tables
  /\ {MaxPublications, MaxBatches, MaxHarms} \subseteq Nat

VARIABLES
  official,   \* what the exchange serves of each item
  past,       \* what it ever served
  plan,       \* the capacity plan: size and presence of the checksum
  raw,        \* the archive file of each item
  receipt,    \* the size in the download receipt of each content, or Absent
  table,      \* the Parquet file named by each content: [writer, whole, rows], or Absent
  manifest,   \* the normalisation manifests: [content, rows, table]
  job,        \* the batch of each worker
  datasets,   \* the normalisation results written
  batches, harms

exchange == <<official, past, plan>>
tables == <<table, manifest>>
storeVars == <<exchange, raw, receipt, tables, job, datasets, batches, harms>>

Idle == [kind |-> "none", plan |-> [i \in {} |-> 0], todo |-> {}, item |-> Absent,
         step |-> "pick", seen |-> Absent, rows |-> {}, found |-> Absent, failed |-> {},
         records |-> [i \in {} |-> 0]]

Planned(content) == [size |-> SizeOf[content], checksum |-> TRUE]

StoreInit ==
  /\ official \in {[i \in Items |-> content] : content \in Contents \ {Corrupt}}
  /\ past = [i \in Items |-> {official[i]}]
  /\ plan = [i \in PlannedItems |-> Planned(official[i])]
  /\ raw = [i \in Items |-> Absent]
  /\ receipt = [i \in Items |-> [c \in Contents |-> Absent]]
  /\ table = [i \in Items |-> [c \in Contents |-> Absent]]
  /\ manifest = [i \in Items |-> {}]
  /\ job = [w \in Workers |-> Idle]
  /\ datasets = {} /\ batches = 0 /\ harms = 0

NormalizesAt(i, content) == Normalizes(RowsOf[i][content], i.period)
Rows(i, content) == ToSet(RowsOf[i][content])

\* The archive is there with its planned size, and with a receipt of these bytes
\* and of this size.
HasPlannedSize(w, i) == raw[i] # Absent /\ SizeOf[raw[i]] = job[w].plan[i].size
Receipted(w, i) == HasPlannedSize(w, i) /\ receipt[i][raw[i]] = job[w].plan[i].size

----------------------------------------------------------------------------
(* Batches *)

\* An item without a checksum object fails before the download starts.
BeginBatch(w, kind) ==
  LET refused == {i \in PlannedItems : kind = "download" /\ ~plan[i].checksum}
  IN  /\ job[w] = Idle /\ batches < MaxBatches
      /\ batches' = batches + 1
      /\ job' = [job EXCEPT ![w] = [Idle EXCEPT !.kind = kind, !.plan = plan,
                                    !.todo = PlannedItems \ refused, !.failed = refused]]
      /\ UNCHANGED <<exchange, raw, receipt, tables, datasets, harms>>

At(w, kind, step) == job[w].kind = kind /\ job[w].step = step

Advance(w, step, seen) == job' = [job EXCEPT ![w].step = step, ![w].seen = seen]

Fail(w, i) ==
  job' = [job EXCEPT ![w].step = "pick", ![w].todo = @ \ {i}, ![w].failed = @ \cup {i}]

Done(w, i, record) ==
  job' = [job EXCEPT ![w].step = "pick", ![w].todo = @ \ {i},
                     ![w].records = [k \in DOMAIN @ \cup {i} |-> IF k = i THEN record ELSE @[k]]]

Record(content, rows, found) == [content |-> content, rows |-> rows, table |-> found]

----------------------------------------------------------------------------
(* _download_one *)

DownloadPick(w, i) ==
  /\ At(w, "download", "pick") /\ i \in job[w].todo
  /\ IF Receipted(w, i)
     THEN Done(w, i, Record(raw[i], {}, Absent))
     ELSE job' = [job EXCEPT ![w].item = i, ![w].step = "checksum"]
  /\ UNCHANGED <<exchange, raw, receipt, tables, datasets, batches, harms>>

\* fetch_archive asks for the official checksum, which may fail.
Checksum(w) ==
  /\ At(w, "download", "checksum")
  /\ Fail(w, job[w].item) \/ Advance(w, "look", official[job[w].item])
  /\ UNCHANGED <<exchange, raw, receipt, tables, datasets, batches, harms>>

\* An archive that is there is not fetched, and one that differs is kept.
Look(w) ==
  LET i == job[w].item
  IN  /\ At(w, "download", "look")
      /\ IF raw[i] = Absent THEN Advance(w, "fetch", job[w].seen)
         ELSE IF raw[i] = job[w].seen THEN Advance(w, "size", job[w].seen)
         ELSE Fail(w, i)
      /\ UNCHANGED <<exchange, raw, receipt, tables, datasets, batches, harms>>

\* Faulty: whatever arrives is moved into place.
MayReplaceFaulty(bytes, expected) == TRUE

\* Bytes move into place when they have the official checksum.
MayReplace(bytes, expected) == bytes = expected

\* The bytes that arrive are written to a file of their own and hashed there.
Fetch(w) ==
  /\ At(w, "download", "fetch")
  /\ \E bytes \in {official[job[w].item], Corrupt} :
       IF MayReplace(bytes, job[w].seen) THEN Advance(w, "place", bytes) ELSE Fail(w, job[w].item)
  /\ UNCHANGED <<exchange, raw, receipt, tables, datasets, batches, harms>>

\* That file replaces the archive, also one that another process placed meanwhile.
Place(w) ==
  /\ At(w, "download", "place")
  /\ raw' = [raw EXCEPT ![job[w].item] = job[w].seen]
  /\ Advance(w, "size", job[w].seen)
  /\ UNCHANGED <<exchange, receipt, tables, datasets, batches, harms>>

\* The size of the file, for the receipt and against the plan.
Measure(w) ==
  LET i == job[w].item
  IN  /\ At(w, "download", "size")
      /\ IF HasPlannedSize(w, i) THEN Advance(w, "receipt", job[w].seen) ELSE Fail(w, i)
      /\ UNCHANGED <<exchange, raw, receipt, tables, datasets, batches, harms>>

\* write_download_manifest: one file per archive hash, never rewritten.
WriteReceipt(i, content, size) ==
  receipt' = [receipt EXCEPT ![i][content] = IF @ = Absent THEN size ELSE @]

\* The file is hashed again before its receipt is written.
Receipt(w) ==
  LET i == job[w].item
      content == job[w].seen
  IN  /\ At(w, "download", "receipt")
      /\ IF raw[i] = content
         THEN /\ WriteReceipt(i, content, job[w].plan[i].size)
              /\ Done(w, i, Record(content, {}, Absent))
         ELSE Fail(w, i) /\ UNCHANGED receipt
      /\ UNCHANGED <<exchange, raw, tables, datasets, batches, harms>>

----------------------------------------------------------------------------
(* _normalize_one *)

DownloadReceipt(w, i) == Receipted(w, i)

\* The manifests of a content whose table still has the hash they name.
ExistingNormalization(i, content) ==
  {m \in manifest[i] : m.content = content /\ m.table = table[i][content]}

\* Several of them name different rows under one table.
NormalizePick(w, i) ==
  LET existing == ExistingNormalization(i, raw[i])
  IN  /\ At(w, "normalize", "pick") /\ i \in job[w].todo
      /\ IF ~DownloadReceipt(w, i) \/ Cardinality(existing) > 1 THEN Fail(w, i)
         ELSE IF existing = {}
         THEN job' = [job EXCEPT ![w].item = i, ![w].step = "hash", ![w].seen = raw[i]]
         ELSE \E m \in existing : Done(w, i, Record(raw[i], m.rows, m.table))
      /\ UNCHANGED <<exchange, raw, receipt, tables, datasets, batches, harms>>

\* normalize_archive_to_parquet hashes the archive again ...
HashArchive(w) ==
  LET i == job[w].item
  IN  /\ At(w, "normalize", "hash")
      /\ IF raw[i] = job[w].seen THEN Advance(w, "read", raw[i]) ELSE Fail(w, i)
      /\ UNCHANGED <<exchange, raw, receipt, tables, datasets, batches, harms>>

\* ... and then opens it for its rows, whatever it is by then.
ReadArchive(w) ==
  LET i == job[w].item
  IN  /\ At(w, "normalize", "read")
      /\ IF raw[i] = Absent THEN Fail(w, i)
         ELSE IF ~NormalizesAt(i, raw[i]) THEN Fail(w, i)
         ELSE job' = [job EXCEPT ![w].step = "table", ![w].rows = Rows(i, raw[i])]
      /\ UNCHANGED <<exchange, raw, receipt, tables, datasets, batches, harms>>

\* A table that is there is kept when its metadata name the same rows, whatever
\* its columns have become; one that is not whole may be unreadable.
FindTable(w) ==
  LET i == job[w].item
      there == table[i][job[w].seen]
  IN  /\ At(w, "normalize", "table")
      /\ IF there = Absent THEN Advance(w, "write", job[w].seen)
         ELSE \/ there.rows = job[w].rows /\ Advance(w, "digest", job[w].seen)
              \/ ~(there.whole /\ there.rows = job[w].rows) /\ Fail(w, i)
      /\ UNCHANGED <<exchange, raw, receipt, tables, datasets, batches, harms>>

\* The table is replaced in one step. It holds the time of its writer, so two
\* writers of the same rows make two files of one normalised content.
WriteTable(w) ==
  /\ At(w, "normalize", "write")
  /\ table' = [table EXCEPT ![job[w].item][job[w].seen] =
                 [writer |-> w, whole |-> TRUE, rows |-> job[w].rows]]
  /\ Advance(w, "digest", job[w].seen)
  /\ UNCHANGED <<exchange, raw, receipt, manifest, datasets, batches, harms>>

\* The hash of the table that is there now, which may be another writer's.
HashTable(w) ==
  LET i == job[w].item
      there == table[i][job[w].seen]
  IN  /\ At(w, "normalize", "digest")
      /\ IF there = Absent THEN Fail(w, i)
         ELSE job' = [job EXCEPT ![w].step = "manifest", ![w].found = there]
      /\ UNCHANGED <<exchange, raw, receipt, tables, datasets, batches, harms>>

\* The first manifest of a normalised content stays.
KeepManifest(i, m) ==
  manifest' = [manifest EXCEPT ![i] =
                 IF \E kept \in @ : kept.content = m.content /\ kept.rows = m.rows THEN @ ELSE @ \cup {m}]

\* The record of an item has the size of its table, which must be there.
WriteManifest(w) ==
  LET i == job[w].item
      record == Record(job[w].seen, job[w].rows, job[w].found)
  IN  /\ At(w, "normalize", "manifest")
      /\ KeepManifest(i, record)
      /\ IF table[i][job[w].seen] = Absent THEN Fail(w, i) ELSE Done(w, i, record)
      /\ UNCHANGED <<exchange, raw, receipt, table, datasets, batches, harms>>

Dataset(w) == [records |-> job[w].records, failed |-> job[w].failed]

FinishBatch(w) ==
  /\ job[w].kind # "none" /\ job[w].step = "pick" /\ job[w].todo = {}
  /\ datasets' = IF job[w].kind = "normalize" THEN datasets \cup {Dataset(w)} ELSE datasets
  /\ job' = [job EXCEPT ![w] = Idle]
  /\ UNCHANGED <<exchange, raw, receipt, tables, batches, harms>>

----------------------------------------------------------------------------
(* Around the batches *)

KillBatch(w) ==
  /\ job[w] # Idle
  /\ job' = [job EXCEPT ![w] = Idle]
  /\ UNCHANGED <<exchange, raw, receipt, tables, datasets, batches, harms>>

\* The exchange publishes an archive again, or withdraws a checksum; a new
\* inventory then makes a new plan.
Republish(i, content) ==
  /\ content \notin {official[i], Corrupt} /\ Cardinality(past[i]) <= MaxPublications
  /\ official' = [official EXCEPT ![i] = content]
  /\ past' = [past EXCEPT ![i] = @ \cup {content}]
  /\ UNCHANGED <<plan, raw, receipt, tables, job, datasets, batches, harms>>

Replan(i, checksum) ==
  /\ plan' = [plan EXCEPT ![i] = [Planned(official[i]) EXCEPT !.checksum = checksum]]
  /\ UNCHANGED <<official, past, raw, receipt, tables, job, datasets, batches, harms>>

\* The operator removes an archive that was replaced.
RemoveArchive(i) ==
  /\ raw[i] \notin {Absent, official[i]}
  /\ raw' = [raw EXCEPT ![i] = Absent]
  /\ UNCHANGED <<exchange, receipt, tables, job, datasets, batches, harms>>

\* A table loses its bytes, in part or in whole.
HarmTable(i, content) ==
  /\ harms < MaxHarms /\ table[i][content] # Absent
  /\ harms' = harms + 1
  /\ \E left \in {Absent, [table[i][content] EXCEPT !.whole = FALSE]} :
       table' = [table EXCEPT ![i][content] = left]
  /\ UNCHANGED <<exchange, raw, receipt, manifest, job, datasets, batches>>

StoreStep(w) ==
  \/ \E kind \in {"download", "normalize"} : BeginBatch(w, kind)
  \/ \E i \in PlannedItems : DownloadPick(w, i) \/ NormalizePick(w, i)
  \/ Checksum(w) \/ Look(w) \/ Fetch(w) \/ Place(w) \/ Measure(w) \/ Receipt(w)
  \/ HashArchive(w) \/ ReadArchive(w)
  \/ FindTable(w) \/ WriteTable(w) \/ HashTable(w) \/ WriteManifest(w)
  \/ FinishBatch(w) \/ KillBatch(w)

StoreNext ==
  \/ \E w \in Workers : StoreStep(w)
  \/ \E i \in PlannedItems :
       \/ \E content \in Contents : Republish(i, content) \/ HarmTable(i, content)
       \/ \E checksum \in BOOLEAN : Replan(i, checksum)
       \/ RemoveArchive(i)

StoreSpec == StoreInit /\ [][StoreNext]_storeVars

----------------------------------------------------------------------------
(* Properties *)

\* Every record of every dataset, whatever was republished, killed, replaced or
\* run in parallel: its archive was served by the exchange under this checksum
\* and has its receipt; its rows are those of an archive of this item that the
\* exchange served, an unbroken and unambiguous part of their month; and the
\* manifest of these rows is on the disk. A dataset without failures has every
\* item.
DatasetIsBacked ==
  \A dataset \in datasets :
    /\ dataset.failed = PlannedItems \ DOMAIN dataset.records
    /\ \A i \in DOMAIN dataset.records :
         LET record == dataset.records[i]
         IN  /\ record.content \in past[i] /\ receipt[i][record.content] # Absent
             /\ \E served \in past[i] : record.rows = Rows(i, served) /\ NormalizesAt(i, served)
             /\ \E m \in manifest[i] : m.content = record.content /\ m.rows = record.rows

\* docs/p8-historical-universe-contract.md:19 says that raw files are never
\* silently overwritten and that changed content makes a new version. The code
\* overwrites one when two downloads run around a republication.
RawFilesAreKept ==
  [][\A i \in Items : raw[i] # Absent => raw'[i] \in {raw[i], Absent}]_storeVars
=============================================================================
