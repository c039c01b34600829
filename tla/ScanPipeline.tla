---------------------------- MODULE ScanPipeline ----------------------------
(***************************************************************************)
(* One uploaded document on its way through the trust boundary: the        *)
(* gateway's upload handler puts the bytes in the quarantine bucket, the   *)
(* scanner agent (one worker per delivery of the SCAN task) moves them to  *)
(* the approved bucket if the engine finds them clean, and the ingestion   *)
(* agent (one worker per delivery of an INGEST task) extracts fields from  *)
(* them.  Documents share nothing, and one of them is enough.              *)
(*                                                                         *)
(* update_document_fields is not a transaction: it reads the record and    *)
(* later writes the whole of it back.  Both halves are steps here, so any  *)
(* two workers can overwrite one another.  The audit rows these handlers   *)
(* write are left out (no property reads them), except that the ingestion  *)
(* agent's may raise and take its failure path.                            *)
(***************************************************************************)
EXTENDS Naturals

CONSTANTS
  Scanners,     \* concurrent executions of the scanner agent's handler
  Ingesters,    \* concurrent executions of the ingestion agent's handler
  MaxSurplus,   \* bound on deliveries of the SCAN task beyond the needed ones
  MaxCrashes,   \* bound on the scans that end in an exception or a dead instance
  MaxIngests,   \* bound on deliveries of INGEST tasks (max_attempts, re-triggers)
  None,         \* an empty reference
  NoDoc         \* no document

Places   == {"quarantine", "approved"}      \* the two buckets: raw_docs is "approved"
Rejected == {"infected", "scan_failed"}     \* SCAN_TIMEOUT is handled like SCAN_FAILED
Settled  == Rejected \cup {"clean"}

Document == [scan : {"scan_pending", "scanning"} \cup Settled,
             status : {"pending", "processed", "failed"},
             storage : Places, quarantine : Places \cup {None}]

ASSUME ScanPipelineAssumption ==
  /\ MaxSurplus \in Nat /\ MaxCrashes \in Nat /\ MaxIngests \in Nat
  /\ NoDoc \notin Document
  /\ None \notin Places

VARIABLES
  doc,       \* the stored Document, or NoDoc
  blobs,     \* the buckets that hold the file
  upload,    \* the upload request's progress
  scanTask,  \* the SCAN task: not created, on the queue, answered 200, or
             \* answered and then "abandoned" by a surplus delivery that died
  scanner,   \* per scanner: progress, source_ref, verdict, copy of the record
  surplus,   \* surplus deliveries of the SCAN task so far
  crashes,   \* scans that died so far
  queued,    \* is an INGEST task on the queue?
  ingester,  \* per ingester: progress, copy of the record
  ingests,   \* deliveries of INGEST tasks so far
  cleared    \* history: the engine has called these bytes clean

vars == <<doc, blobs, upload, scanTask, scanner, surplus, crashes, queued,
          ingester, ingests, cleared>>

scanVars   == <<scanTask, scanner, surplus, crashes>>
ingestVars == <<queued, ingester, ingests>>

Answered == {"done", "abandoned"}

IdleScanner  == [at |-> "idle", src |-> "quarantine", verdict |-> "clean", copy |-> NoDoc]
IdleIngester == [at |-> "idle", copy |-> NoDoc]

TypeOK ==
  /\ doc \in Document \cup {NoDoc}
  /\ blobs \in SUBSET Places
  /\ upload \in {"new", "stored", "recorded", "done"}
  /\ scanTask \in {"none", "queued"} \cup Answered
  /\ scanner \in [Scanners ->
       [at : {"idle", "mark", "examine", "copy", "promote", "delete", "dispatch", "reject"},
        src : Places, verdict : Settled, copy : Document \cup {NoDoc}]]
  /\ surplus \in 0..MaxSurplus
  /\ crashes \in 0..MaxCrashes
  /\ queued \in BOOLEAN
  /\ ingester \in [Ingesters ->
       [at : {"idle", "read", "extracted", "written", "failing", "marking"},
        copy : Document \cup {NoDoc}]]
  /\ ingests \in 0..MaxIngests
  /\ cleared \in BOOLEAN

Init ==
  /\ doc = NoDoc
  /\ blobs = {}
  /\ upload = "new"
  /\ scanTask = "none"
  /\ scanner = [s \in Scanners |-> IdleScanner]
  /\ surplus = 0
  /\ crashes = 0
  /\ queued = FALSE
  /\ ingester = [i \in Ingesters |-> IdleIngester]
  /\ ingests = 0
  /\ cleared = FALSE

-----------------------------------------------------------------------------
(* The gateway's upload handler: the file, the record, the SCAN task.      *)

Uploaded == [scan |-> "scan_pending", status |-> "pending",
             storage |-> "quarantine", quarantine |-> "quarantine"]

UploadFile ==
  /\ upload = "new"
  /\ upload' = "stored"
  /\ blobs' = blobs \cup {"quarantine"}
  /\ UNCHANGED <<doc, scanVars, ingestVars, cleared>>

UploadRecord ==
  /\ upload = "stored"
  /\ upload' = "recorded"
  /\ doc' = Uploaded
  /\ UNCHANGED <<blobs, scanVars, ingestVars, cleared>>

UploadDispatch ==
  /\ upload = "recorded"
  /\ upload' = "done"
  /\ scanTask' = "queued"
  /\ UNCHANGED <<doc, blobs, scanner, surplus, crashes, ingestVars, cleared>>

UploadDies ==                 \* the storage, Firestore, audit or queue call raised
  /\ upload \in {"stored", "recorded"}
  /\ upload' = "done"
  /\ UNCHANGED <<doc, blobs, scanVars, ingestVars, cleared>>

-----------------------------------------------------------------------------
(* The scanner agent.  A delivery of the SCAN task starts scan_document,   *)
(* which reads the record once and keeps its source_ref to the end.        *)

(* Faults: a redelivery is not recognised, or recognised too eagerly.      *)
NeverResolved(d) == FALSE
AlreadyStarted(d) == d.scan # "scan_pending"

AlreadyResolved(d) == d.scan = "clean"

(* Fault: the fallback to storage_ref is forgotten.                        *)
QuarantineOnly(d) == d.quarantine

SourceRef(d) == IF d.quarantine = None THEN d.storage ELSE d.quarantine

Go(s, at) == scanner' = [scanner EXCEPT ![s].at = at]

ScanRead(s) ==
  /\ scanner[s].at = "idle"
  /\ IF AlreadyResolved(doc)
     THEN scanTask' = "done" /\ UNCHANGED scanner
     ELSE /\ scanner' = [scanner EXCEPT ![s] =
               [IdleScanner EXCEPT !.at = "mark", !.src = SourceRef(doc)]]
          /\ UNCHANGED scanTask
  /\ UNCHANGED <<doc, blobs, upload, crashes, ingestVars, cleared>>

Scanning == \E s \in Scanners : scanner[s].at # "idle"

ScanDeliver(s) ==             \* first delivery, and retries of one that died
  /\ scanTask = "queued" /\ ~Scanning
  /\ ScanRead(s)
  /\ UNCHANGED surplus

ScanRedeliver(s) ==           \* at-least-once: a delivery nobody needed
  /\ scanTask \in Answered \/ Scanning
  /\ surplus < MaxSurplus
  /\ surplus' = surplus + 1
  /\ ScanRead(s)

(* update_document_fields: read the record, write it all back patched.     *)
(* Fault: CLEAN is recorded without the reference to the approved copy.    *)
PatchedInPlace(w) ==
  CASE w.at = "mark"    -> [w.copy EXCEPT !.scan = "scanning"]
    [] w.at = "promote" -> [w.copy EXCEPT !.scan = "clean"]
    [] w.at = "reject"  -> [w.copy EXCEPT !.scan = w.verdict]

Patched(w) ==
  CASE w.at = "mark" -> [w.copy EXCEPT !.scan = "scanning"]
    [] w.at = "promote" ->
         [w.copy EXCEPT !.scan = "clean", !.storage = "approved", !.quarantine = None]
    [] w.at = "reject" ->
         [w.copy EXCEPT !.scan = w.verdict,
                        !.status = IF w.verdict = "infected" THEN "failed" ELSE @]

PatchRead(s) ==
  /\ scanner[s].at \in {"mark", "promote", "reject"} /\ scanner[s].copy = NoDoc
  /\ scanner' = [scanner EXCEPT ![s].copy = doc]
  /\ UNCHANGED <<doc, blobs, upload, scanTask, surplus, crashes, ingestVars, cleared>>

PatchWrite(s) ==
  /\ scanner[s].at \in {"mark", "promote"} /\ scanner[s].copy # NoDoc
  /\ doc' = Patched(scanner[s])
  /\ scanner' = [scanner EXCEPT ![s].copy = NoDoc,
       ![s].at = IF @ = "mark" THEN "examine" ELSE "delete"]
  /\ UNCHANGED <<blobs, upload, scanTask, surplus, crashes, ingestVars, cleared>>

(* Faults: the rejected file is discarded, or the outcome is not recorded. *)
Discard(s) ==
  /\ scanner[s].at = "reject" /\ scanner[s].copy # NoDoc
  /\ doc' = Patched(scanner[s])
  /\ blobs' = blobs \ {scanner[s].src}
  /\ scanTask' = "done"
  /\ scanner' = [scanner EXCEPT ![s] = IdleScanner]
  /\ UNCHANGED <<upload, surplus, crashes, ingestVars, cleared>>

(* _resolve: whatever was not clean is recorded and answered 200.          *)
Resolve(s) ==
  /\ scanner[s].at = "reject" /\ scanner[s].copy # NoDoc
  /\ doc' = Patched(scanner[s])
  /\ scanTask' = "done"
  /\ scanner' = [scanner EXCEPT ![s] = IdleScanner]
  /\ UNCHANGED <<blobs, upload, surplus, crashes, ingestVars, cleared>>

(* Fault: an engine that could not answer counts as one that found nothing.*)
NotInfected(verdict) == verdict # "infected"

IsClean(verdict) == verdict = "clean"

(* Download and engine.  A file that cannot be read is a failed scan.      *)
Examine(s) ==
  /\ scanner[s].at = "examine"
  /\ \E verdict \in Settled :
       /\ verdict = "scan_failed" \/ scanner[s].src \in blobs
       /\ cleared' = (cleared \/ verdict = "clean")
       /\ scanner' = [scanner EXCEPT ![s].verdict = verdict,
            ![s].at = IF IsClean(verdict) THEN "copy" ELSE "reject"]
  /\ UNCHANGED <<doc, blobs, upload, scanTask, surplus, crashes, ingestVars>>

(* Fault: a copy that fails is not noticed.                                *)
CopyUnchecked(s) ==
  /\ scanner[s].at = "copy"
  /\ blobs' \in {blobs, blobs \cup {"approved"}}
  /\ Go(s, "promote")
  /\ UNCHANGED <<doc, upload, scanTask, surplus, crashes, ingestVars, cleared>>

Copy(s) ==                    \* an upload that raises may have stored the file
  /\ scanner[s].at = "copy"
  /\ \/ blobs' = blobs \cup {"approved"} /\ Go(s, "promote")
     \/ /\ blobs' \in {blobs, blobs \cup {"approved"}}
        /\ scanner' = [scanner EXCEPT ![s].at = "reject", ![s].verdict = "scan_failed"]
  /\ UNCHANGED <<doc, upload, scanTask, surplus, crashes, ingestVars, cleared>>

Delete(s) ==                  \* best effort; src is where the file was READ from
  /\ scanner[s].at = "delete"
  /\ blobs' \in {blobs, blobs \ {scanner[s].src}}
  /\ Go(s, "dispatch")
  /\ UNCHANGED <<doc, upload, scanTask, surplus, crashes, ingestVars, cleared>>

DispatchIngest(s) ==          \* a failed dispatch is logged and forgotten
  /\ scanner[s].at = "dispatch"
  /\ queued' \in {queued, TRUE}
  /\ scanTask' = "done"
  /\ scanner' = [scanner EXCEPT ![s] = IdleScanner]
  /\ UNCHANGED <<doc, blobs, upload, surplus, crashes, ingester, ingests, cleared>>

(* 502 or no answer.  A task still on the queue is delivered again; one    *)
(* that was answered 200 before this delivery died is not.                 *)
ScanDies(s) ==
  /\ scanner[s].at # "idle" /\ crashes < MaxCrashes
  /\ crashes' = crashes + 1
  /\ scanner' = [scanner EXCEPT ![s] = IdleScanner]
  /\ scanTask' = IF scanTask = "done" THEN "abandoned" ELSE scanTask
  /\ UNCHANGED <<doc, blobs, upload, surplus, ingestVars, cleared>>

-----------------------------------------------------------------------------
(* The ingestion agent.  The record is read once; on success that copy,    *)
(* with the extracted fields, replaces whatever is stored by then.         *)

(* Fault: only what is known to be infected is refused.                    *)
KnownInfected(d) == d.scan # "infected"

Processable(d) == d.scan = "clean"

Work(i, at, copy) == ingester' = [ingester EXCEPT ![i] = [at |-> at, copy |-> copy]]

RetryExtraction ==            \* a platform admin queues an INGEST task
  /\ doc # NoDoc /\ ~queued
  /\ queued' = TRUE
  /\ UNCHANGED <<doc, blobs, upload, scanVars, ingester, ingests, cleared>>

IngestRead(i) ==
  /\ ingester[i].at = "idle" /\ queued /\ ingests < MaxIngests
  /\ ingests' = ingests + 1
  /\ IF Processable(doc) THEN Work(i, "read", doc) ELSE UNCHANGED ingester  \* 502
  /\ UNCHANGED <<doc, blobs, upload, scanVars, queued, cleared>>

Extract(i) ==                 \* fetch the file, ask the model, read its answer
  /\ ingester[i].at = "read"
  /\ \/ ingester[i].copy.storage \in blobs /\ Work(i, "extracted", ingester[i].copy)
     \/ Work(i, "failing", NoDoc)
  /\ UNCHANGED <<doc, blobs, upload, scanVars, queued, ingests, cleared>>

IngestWrite(i) ==
  /\ ingester[i].at = "extracted"
  /\ doc' = [ingester[i].copy EXCEPT !.status = "processed"]
  /\ Work(i, "written", NoDoc)
  /\ UNCHANGED <<blobs, upload, scanVars, queued, ingests, cleared>>

IngestAudit(i) ==             \* document.ingested; AuditWriteError is a failure
  /\ ingester[i].at = "written"
  /\ \/ Work(i, "idle", NoDoc) /\ queued' = FALSE
     \/ Work(i, "failing", NoDoc) /\ UNCHANGED queued
  /\ UNCHANGED <<doc, blobs, upload, scanVars, ingests, cleared>>

FailRead(i) ==
  /\ ingester[i].at = "failing"
  /\ Work(i, "marking", doc)
  /\ UNCHANGED <<doc, blobs, upload, scanVars, queued, ingests, cleared>>

FailWrite(i) ==
  /\ ingester[i].at = "marking"
  /\ doc' = [ingester[i].copy EXCEPT !.status = "failed"]
  /\ Work(i, "idle", NoDoc)
  /\ UNCHANGED <<blobs, upload, scanVars, queued, ingests, cleared>>

IngestDies(i) ==
  /\ ingester[i].at # "idle"
  /\ Work(i, "idle", NoDoc)
  /\ UNCHANGED <<doc, blobs, upload, scanVars, queued, ingests, cleared>>

-----------------------------------------------------------------------------
Upload == UploadFile \/ UploadRecord \/ UploadDispatch \/ UploadDies

Scan(s) ==
  \/ PatchRead(s) \/ PatchWrite(s) \/ Resolve(s) \/ Examine(s) \/ Copy(s)
  \/ Delete(s) \/ DispatchIngest(s)

Ingest(i) ==
  \/ IngestRead(i) \/ Extract(i) \/ IngestWrite(i) \/ IngestAudit(i)
  \/ FailRead(i) \/ FailWrite(i) \/ IngestDies(i)

Next ==
  \/ Upload
  \/ \E s \in Scanners : ScanDeliver(s) \/ ScanRedeliver(s) \/ Scan(s) \/ ScanDies(s)
  \/ RetryExtraction
  \/ \E i \in Ingesters : Ingest(i)

Spec == Init /\ [][Next]_vars

(* A running handler goes on, and Cloud Tasks retries what was not         *)
(* answered 200 (max_attempts exceeds the deaths a run allows).            *)
FairSpec ==
  /\ Spec
  /\ \A s \in Scanners : WF_vars(Scan(s)) /\ WF_vars(ScanDeliver(s))

-----------------------------------------------------------------------------
(* Invariants that hold whatever the deliveries and the interleaving.      *)

(* Bytes reach the approved bucket only after the engine called them clean *)
(* (scan_document copies after is_clean): no crash, redelivery or failed   *)
(* engine puts an unscanned file where workers can read it.                *)
ApprovedWasCleared == "approved" \in blobs => cleared

(* Every worker that overwrites the record leaves the scan verdict and the *)
(* storage reference consistent: CLEAN always names the approved copy.     *)
CleanIsPromoted ==
  doc # NoDoc /\ doc.scan = "clean" =>
    cleared /\ doc.storage = "approved" /\ doc.quarantine = None

(* Ingestion never fetches a file from quarantine, however stale its copy  *)
(* of the record is (the allowlist check before _read_blob), and a         *)
(* document whose bytes no engine cleared is never recorded processed, so  *)
(* no compliance check (which wants PROCESSED) runs on it.                 *)
NothingUnscannedUsed ==
  /\ \A i \in Ingesters : ingester[i].at \in {"read", "extracted"} =>
       cleared /\ ingester[i].copy.storage = "approved"
  /\ doc # NoDoc /\ doc.status = "processed" => cleared

(* An upload that was not cleared keeps its only copy ("deliberately left  *)
(* in quarantine rather than deleted").                                    *)
EvidenceKept == doc # NoDoc /\ ~cleared => "quarantine" \in blobs

(* The record never claims a readable file that does not exist.  True with *)
(* one scan at a time, crashes and redeliveries included.  Overlapping     *)
(* ones break it: a mark that began before a promotion puts SCANNING over  *)
(* CLEAN, and a delivery after that takes the approved copy for its source *)
(* and deletes it.                                                         *)
ClearedFileExists ==
  doc # NoDoc /\ doc.scan = "clean" => doc.storage \in blobs

(* A document once CLEAN stays CLEAN: a redelivered scan is recognised and *)
(* the ingestion agent writes the verdict back as it read it.              *)
CleanIsFinal ==
  [][doc # NoDoc /\ doc.scan = "clean" => doc'.scan = "clean"]_vars

(* The promise itself, as a specification of its own: cleared, released,   *)
(* recorded CLEAN, processed, in this order and never backwards.           *)
Screened == INSTANCE DocumentScreening WITH
  verdict  <- IF doc = NoDoc THEN "none" ELSE doc.scan,
  released <- "approved" \in blobs,
  used     <- doc # NoDoc /\ doc.status = "processed"

ImplementsScreening == Screened!Spec

(* Once there is a SCAN task the document comes, and always comes back, to *)
(* a verdict, whichever scans die or are delivered once more: a retry      *)
(* finishes what a dead scan left SCANNING, and a delivery nobody needed   *)
(* either recognises a CLEAN document or judges it again.  The one way to  *)
(* be SCANNING for ever is the death of such a delivery after the task was *)
(* answered, when nothing is left to repeat it.                            *)
ScanSettles ==
  scanTask \in {"queued", "done"} ~>
    \/ doc # NoDoc /\ doc.scan \in Settled
    \/ scanTask = "abandoned"
=============================================================================
