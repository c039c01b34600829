------------------------ MODULE ScanPipeline_proofs ------------------------
(***************************************************************************)
(* Theorems about ScanPipeline, for any sets of workers and any numbers of *)
(* deliveries and deaths.                                                  *)
(***************************************************************************)
EXTENDS ScanPipeline, TLAPS

(* The steps of one scanner worker, by what they can touch.                *)
ScannerStep(s) == ScanDeliver(s) \/ ScanRedeliver(s) \/ Scan(s) \/ ScanDies(s)

-----------------------------------------------------------------------------
(* The inductive invariant.                                                *)

(* Whoever works on the document, or is about to, finds its record.        *)
RecordExists ==
  /\ upload = "recorded" \/ scanTask # "none" \/ queued => doc # NoDoc
  /\ \A s \in Scanners : scanner[s].at # "idle" => doc # NoDoc
  /\ \A i \in Ingesters : ingester[i].at # "idle" => doc # NoDoc

(* What a record may say, stored or in a worker's hands, is true of the    *)
(* bytes; being about `cleared`, which is never reset, it cannot go stale. *)
Sound(d) ==
  d # NoDoc =>
    /\ d.scan = "clean" => d.storage = "approved" /\ d.quarantine = None
    /\ d.scan = "clean" \/ d.storage = "approved" \/ d.status = "processed" => cleared

SoundRecords ==
  /\ Sound(doc)
  /\ \A s \in Scanners : Sound(scanner[s].copy)
  /\ \A i \in Ingesters : Sound(ingester[i].copy)

(* A scanner past the engine has a clean verdict; one that resolves has    *)
(* some other.                                                             *)
ScannersCleared ==
  \A s \in Scanners :
    /\ scanner[s].at \in {"copy", "promote", "delete", "dispatch"} => cleared
    /\ scanner[s].at = "reject" => scanner[s].verdict # "clean"

(* An ingester past the gate holds a record that was CLEAN.                *)
IngestersGated ==
  \A i \in Ingesters :
    /\ ingester[i].at \in {"read", "extracted"} =>
         ingester[i].copy # NoDoc /\ ingester[i].copy.scan = "clean"
    /\ ingester[i].at = "marking" => ingester[i].copy # NoDoc

(* The file is where its state of trust allows it to be.                   *)
BytesKept ==
  /\ ApprovedWasCleared
  /\ upload # "new" /\ ~cleared => "quarantine" \in blobs
  /\ doc # NoDoc => upload # "new"

IInv ==
  /\ TypeOK
  /\ RecordExists
  /\ SoundRecords
  /\ ScannersCleared
  /\ IngestersGated
  /\ BytesKept

-----------------------------------------------------------------------------
LEMMA InitInv == Init => IInv
<1> SUFFICES ASSUME Init PROVE IInv
  OBVIOUS
<1>1. TypeOK
  <2>1. 0 \in 0..MaxSurplus /\ 0 \in 0..MaxCrashes /\ 0 \in 0..MaxIngests
    BY ScanPipelineAssumption
  <2>2. IdleScanner \in
          [at : {"idle", "mark", "examine", "copy", "promote", "delete", "dispatch", "reject"},
           src : Places, verdict : Settled, copy : Document \cup {NoDoc}]
    BY DEF IdleScanner, Places, Settled
  <2>3. IdleIngester \in
          [at : {"idle", "read", "extracted", "written", "failing", "marking"},
           copy : Document \cup {NoDoc}]
    BY DEF IdleIngester
  <2>4. blobs \in SUBSET Places /\ queued \in BOOLEAN /\ cleared \in BOOLEAN
    BY DEF Init
  <2> QED
    BY <2>1, <2>2, <2>3, <2>4 DEF Init, TypeOK
<1>2. RecordExists /\ ScannersCleared /\ IngestersGated
  BY DEF Init, RecordExists, ScannersCleared, IngestersGated, IdleScanner, IdleIngester
<1>3. SoundRecords /\ BytesKept
  BY DEF Init, SoundRecords, Sound, BytesKept, ApprovedWasCleared, IdleScanner, IdleIngester
<1> QED
  BY <1>1, <1>2, <1>3 DEF IInv

LEMMA UploadedType == Uploaded \in Document /\ Uploaded # NoDoc
BY ScanPipelineAssumption DEF Uploaded, Document, Places, Settled

LEMMA UploadKeeps ==
  ASSUME IInv, Upload PROVE IInv'
<1> USE DEF IInv, scanVars, ingestVars
<1>1. CASE UploadFile
  BY <1>1 DEF UploadFile, TypeOK, RecordExists, SoundRecords, Sound, ScannersCleared,
    IngestersGated, BytesKept, ApprovedWasCleared, Places
<1>2. CASE UploadRecord
  <2>1. TypeOK'
    BY <1>2, UploadedType DEF UploadRecord, TypeOK
  <2>2. SoundRecords'
    BY <1>2 DEF UploadRecord, SoundRecords, Sound, Uploaded
  <2>3. RecordExists' /\ ScannersCleared' /\ IngestersGated' /\ BytesKept'
    BY <1>2, UploadedType DEF UploadRecord, RecordExists, ScannersCleared, IngestersGated,
      BytesKept, ApprovedWasCleared
  <2> QED
    BY <2>1, <2>2, <2>3
<1>3. CASE UploadDispatch
  BY <1>3 DEF UploadDispatch, TypeOK, RecordExists, SoundRecords, Sound, ScannersCleared,
    IngestersGated, BytesKept, ApprovedWasCleared
<1>4. CASE UploadDies
  BY <1>4 DEF UploadDies, TypeOK, RecordExists, SoundRecords, Sound, ScannersCleared,
    IngestersGated, BytesKept, ApprovedWasCleared
<1> QED
  BY <1>1, <1>2, <1>3, <1>4 DEF Upload

-----------------------------------------------------------------------------
(* A record patched by a scanner stays well-typed, and Sound if the        *)
(* scanner may write what it writes.                                       *)
LEMMA PatchedSound ==
  ASSUME IInv, NEW s \in Scanners, scanner[s].at \in {"mark", "promote", "reject"},
         scanner[s].copy # NoDoc
  PROVE  /\ Patched(scanner[s]) \in Document
         /\ Patched(scanner[s]) # NoDoc
         /\ Sound(Patched(scanner[s]))
<1> DEFINE w == scanner[s]
<1>1. w.copy \in Document /\ w.verdict \in Settled /\ Sound(w.copy)
  BY DEF IInv, TypeOK, SoundRecords
<1>2. CASE w.at = "mark"
  <2>1. Patched(w) = [w.copy EXCEPT !.scan = "scanning"]
    BY <1>2 DEF Patched
  <2> QED
    BY <1>1, <2>1, ScanPipelineAssumption DEF Document, Sound, Settled
<1>3. CASE w.at = "promote"
  <2>1. Patched(w) = [w.copy EXCEPT !.scan = "clean", !.storage = "approved",
                                    !.quarantine = None]
    BY <1>3 DEF Patched
  <2>2. cleared
    BY <1>3 DEF IInv, ScannersCleared
  <2> QED
    BY <1>1, <2>1, <2>2, ScanPipelineAssumption DEF Document, Sound, Settled, Places
<1>4. CASE w.at = "reject"
  <2>1. Patched(w) = [w.copy EXCEPT !.scan = w.verdict,
           !.status = IF w.verdict = "infected" THEN "failed" ELSE w.copy.status]
    BY <1>1, <1>4 DEF Patched, Document
  <2>2. w.verdict # "clean"
    BY <1>4 DEF IInv, ScannersCleared
  <2> QED
    BY <1>1, <2>1, <2>2, ScanPipelineAssumption DEF Document, Sound, Settled
<1> QED
  BY <1>2, <1>3, <1>4

LEMMA ScanReadKeeps ==
  ASSUME IInv, NEW s \in Scanners, ScanRead(s), scanTask # "none" \/ Scanning,
         surplus' \in 0..MaxSurplus
  PROVE  IInv'
<1> USE DEF IInv, ingestVars, Answered
<1>0. doc \in Document
  BY DEF TypeOK, RecordExists, Scanning
<1>1. CASE AlreadyResolved(doc)
  BY <1>0, <1>1, ScanPipelineAssumption DEF ScanRead, TypeOK, RecordExists, SoundRecords,
    Sound, ScannersCleared, IngestersGated, BytesKept, ApprovedWasCleared
<1>2. CASE ~AlreadyResolved(doc)
  <2>1. scanner' = [scanner EXCEPT ![s] =
          [at |-> "mark", src |-> SourceRef(doc), verdict |-> "clean", copy |-> NoDoc]]
    BY <1>2 DEF ScanRead, IdleScanner
  <2>2. SourceRef(doc) \in Places
    BY <1>0 DEF SourceRef, Document
  <2>3. TypeOK'
    BY <1>2, <2>1, <2>2 DEF ScanRead, TypeOK, Settled
  <2>4. SoundRecords' /\ ScannersCleared'
    BY <1>2, <2>1 DEF ScanRead, TypeOK, SoundRecords, Sound, ScannersCleared
  <2>5. RecordExists' /\ IngestersGated' /\ BytesKept'
    BY <1>0, <1>2, <2>1, ScanPipelineAssumption DEF ScanRead, TypeOK, RecordExists,
      IngestersGated, BytesKept, ApprovedWasCleared
  <2> QED
    BY <2>3, <2>4, <2>5
<1> QED
  BY <1>1, <1>2

LEMMA ScannerKeeps ==
  ASSUME IInv, NEW s \in Scanners, ScannerStep(s)
  PROVE  IInv'
<1> USE DEF IInv, ingestVars, Answered
<1>1. CASE ScanDeliver(s)
  BY <1>1, ScanReadKeeps DEF ScanDeliver, TypeOK
<1>2. CASE ScanRedeliver(s)
  <2>1. surplus' \in 0..MaxSurplus
    BY <1>2, ScanPipelineAssumption DEF ScanRedeliver, TypeOK
  <2> QED
    BY <1>2, <2>1, ScanReadKeeps DEF ScanRedeliver
<1>3. CASE PatchRead(s)
  BY <1>3 DEF PatchRead, TypeOK, RecordExists, SoundRecords, Sound, ScannersCleared,
    IngestersGated, BytesKept, ApprovedWasCleared
<1>4. CASE PatchWrite(s) \/ Resolve(s)
  <2>1. /\ doc' = Patched(scanner[s])
        /\ doc' \in Document /\ doc' # NoDoc /\ Sound(doc')
        /\ scanner[s].at # "idle"
    BY <1>4, PatchedSound DEF PatchWrite, Resolve
  <2>2. scanner' \in [Scanners -> [at : {"idle", "mark", "examine", "copy", "promote",
          "delete", "dispatch", "reject"}, src : Places, verdict : Settled,
          copy : Document \cup {NoDoc}]]
    BY <1>4 DEF PatchWrite, Resolve, TypeOK, IdleScanner, Places, Settled
  <2>3. TypeOK' /\ UNCHANGED <<blobs, upload, queued, ingester, cleared>>
    BY <1>4, <2>1, <2>2 DEF PatchWrite, Resolve, TypeOK
  <2>4. ScannersCleared'
    BY <1>4, <2>3 DEF PatchWrite, Resolve, TypeOK, ScannersCleared, IdleScanner
  <2>5. SoundRecords'
    BY <1>4, <2>1, <2>3 DEF PatchWrite, Resolve, TypeOK, SoundRecords, Sound, IdleScanner
  <2>6. RecordExists' /\ IngestersGated'
    BY <2>1, <2>3 DEF RecordExists, IngestersGated
  <2>7. BytesKept'
    BY <2>1, <2>3 DEF RecordExists, BytesKept, ApprovedWasCleared
  <2> QED
    BY <2>3, <2>4, <2>5, <2>6, <2>7
<1>5. CASE Examine(s)
  <2>1. PICK verdict \in Settled :
          /\ cleared' = (cleared \/ verdict = "clean")
          /\ scanner' = [scanner EXCEPT ![s].verdict = verdict,
               ![s].at = IF IsClean(verdict) THEN "copy" ELSE "reject"]
    BY <1>5 DEF Examine
  <2>2. TypeOK'
    BY <1>5, <2>1 DEF Examine, TypeOK
  <2>3. ScannersCleared'
    BY <1>5, <2>1 DEF Examine, TypeOK, ScannersCleared, IsClean
  <2>4. SoundRecords'
    BY <1>5, <2>1 DEF Examine, TypeOK, SoundRecords, Sound
  <2>5. RecordExists' /\ IngestersGated' /\ BytesKept'
    BY <1>5, <2>1 DEF Examine, TypeOK, RecordExists, IngestersGated, BytesKept,
      ApprovedWasCleared
  <2> QED
    BY <2>2, <2>3, <2>4, <2>5
<1>6. CASE Copy(s)
  <2>1. /\ scanner \in [Scanners -> [at : {"idle", "mark", "examine", "copy", "promote",
             "delete", "dispatch", "reject"}, src : Places, verdict : Settled,
             copy : Document \cup {NoDoc}]]
        /\ blobs \subseteq blobs'
        /\ UNCHANGED <<doc, ingester, cleared>>
        /\ \/ scanner' = [scanner EXCEPT ![s].at = "promote"] /\ "approved" \in blobs'
           \/ scanner' = [scanner EXCEPT ![s].at = "reject", ![s].verdict = "scan_failed"]
    BY <1>6 DEF Copy, Go, TypeOK
  <2>2. TypeOK'
    <3>1. blobs' \subseteq Places
      BY <1>6 DEF Copy, TypeOK, Places
    <3>2. scanner' \in [Scanners -> [at : {"idle", "mark", "examine", "copy", "promote",
            "delete", "dispatch", "reject"}, src : Places, verdict : Settled,
            copy : Document \cup {NoDoc}]]
      BY <2>1 DEF Settled, Rejected
    <3> QED
      BY <1>6, <3>1, <3>2 DEF Copy, TypeOK
  <2>3. ScannersCleared'
    BY <1>6, <2>1 DEF Copy, ScannersCleared
  <2>4. SoundRecords'
    BY <1>6, <2>1 DEF Copy, SoundRecords, Sound
  <2>5. RecordExists' /\ IngestersGated' /\ BytesKept'
    BY <1>6 DEF Copy, Go, TypeOK, RecordExists, IngestersGated, BytesKept,
      ApprovedWasCleared, ScannersCleared
  <2> QED
    BY <2>2, <2>3, <2>4, <2>5
<1>7. CASE Delete(s)
  <2>1. TypeOK'
    BY <1>7 DEF Delete, Go, TypeOK
  <2>2. ScannersCleared' /\ SoundRecords'
    BY <1>7 DEF Delete, Go, TypeOK, ScannersCleared, SoundRecords, Sound
  <2>3. RecordExists' /\ IngestersGated' /\ BytesKept'
    BY <1>7 DEF Delete, Go, TypeOK, RecordExists, IngestersGated, BytesKept,
      ApprovedWasCleared, ScannersCleared
  <2> QED
    BY <2>1, <2>2, <2>3
<1>8. CASE DispatchIngest(s) \/ ScanDies(s)
  <2>1. scanner' = [scanner EXCEPT ![s] = [at |-> "idle", src |-> "quarantine",
                      verdict |-> "clean", copy |-> NoDoc]]
    BY <1>8 DEF DispatchIngest, ScanDies, IdleScanner
  <2>2. crashes' \in 0..MaxCrashes
    <3>1. CASE DispatchIngest(s)
      BY <3>1 DEF DispatchIngest, TypeOK
    <3>2. CASE ScanDies(s)
      BY <3>2, ScanPipelineAssumption DEF ScanDies, TypeOK
    <3> QED
      BY <1>8, <3>1, <3>2
  <2>3. TypeOK' /\ UNCHANGED <<doc, blobs, upload, ingester, cleared>> /\ doc # NoDoc
    BY <1>8, <2>1, <2>2 DEF DispatchIngest, ScanDies, TypeOK, Places, Settled, RecordExists
  <2>4. ScannersCleared' /\ SoundRecords'
    BY <2>1, <2>3 DEF TypeOK, ScannersCleared, SoundRecords, Sound
  <2>5. RecordExists' /\ IngestersGated' /\ BytesKept'
    BY <2>3 DEF RecordExists, IngestersGated, BytesKept, ApprovedWasCleared
  <2> QED
    BY <2>3, <2>4, <2>5
<1> QED
  BY <1>1, <1>2, <1>3, <1>4, <1>5, <1>6, <1>7, <1>8 DEF ScannerStep, Scan

-----------------------------------------------------------------------------
(* The ingestion agent changes neither the bytes nor the scanners: what it *)
(* must not do is write a record that is not Sound.                        *)
LEMMA IngesterKeeps ==
  ASSUME IInv, NEW i \in Ingesters, Ingest(i)
  PROVE  IInv'
<1> USE DEF IInv, scanVars
<1>1. CASE IngestRead(i)
  <2>1. doc # NoDoc /\ ingests' \in 0..MaxIngests
    BY <1>1, ScanPipelineAssumption DEF IngestRead, TypeOK, RecordExists
  <2>2. TypeOK'
    BY <1>1, <2>1 DEF IngestRead, Work, TypeOK
  <2>3. IngestersGated'
    BY <1>1, <2>1 DEF IngestRead, Work, TypeOK, IngestersGated, Processable
  <2>4. SoundRecords'
    BY <1>1 DEF IngestRead, Work, TypeOK, SoundRecords, Sound
  <2>5. RecordExists' /\ ScannersCleared' /\ BytesKept'
    BY <1>1, <2>1 DEF IngestRead, Work, TypeOK, RecordExists, ScannersCleared, BytesKept,
      ApprovedWasCleared
  <2> QED
    BY <2>2, <2>3, <2>4, <2>5
<1>2. CASE Extract(i)
  <2>1. TypeOK' /\ IngestersGated'
    BY <1>2 DEF Extract, Work, TypeOK, IngestersGated
  <2>2. SoundRecords'
    BY <1>2 DEF Extract, Work, TypeOK, SoundRecords, Sound
  <2>3. RecordExists' /\ ScannersCleared' /\ BytesKept'
    BY <1>2 DEF Extract, Work, TypeOK, RecordExists, ScannersCleared, BytesKept,
      ApprovedWasCleared
  <2> QED
    BY <2>1, <2>2, <2>3
<1>3. CASE IngestWrite(i) \/ FailWrite(i)
  <2>1. /\ ingester[i].copy \in Document /\ Sound(ingester[i].copy)
        /\ IngestWrite(i) => ingester[i].copy.scan = "clean"
    BY <1>3 DEF IngestWrite, FailWrite, TypeOK, IngestersGated, SoundRecords
  <2>2. doc' \in Document /\ doc' # NoDoc
    BY <1>3, <2>1, ScanPipelineAssumption DEF IngestWrite, FailWrite, Document
  <2>3. UNCHANGED <<blobs, upload, scanner, queued, cleared>>
    BY <1>3 DEF IngestWrite, FailWrite
  <2>4. Sound(doc)'
    <3>1. /\ doc'.scan = ingester[i].copy.scan
          /\ doc'.storage = ingester[i].copy.storage
          /\ doc'.quarantine = ingester[i].copy.quarantine
          /\ doc'.status = "processed" => IngestWrite(i)
      BY <1>3, <2>1 DEF IngestWrite, FailWrite, Document
    <3>2. ingester[i].copy # NoDoc
      BY <2>1, ScanPipelineAssumption
    <3> QED
      BY <2>1, <2>3, <3>1, <3>2 DEF Sound
  <2>5. TypeOK' /\ IngestersGated'
    BY <1>3, <2>2 DEF IngestWrite, FailWrite, Work, TypeOK, IngestersGated
  <2>6. SoundRecords'
    BY <1>3, <2>3, <2>4 DEF IngestWrite, FailWrite, Work, TypeOK, SoundRecords, Sound
  <2>7. doc # NoDoc
    BY <1>3 DEF IngestWrite, FailWrite, RecordExists
  <2>8. RecordExists' /\ ScannersCleared' /\ BytesKept'
    BY <2>2, <2>3, <2>7 DEF RecordExists, ScannersCleared, BytesKept, ApprovedWasCleared
  <2> QED
    BY <2>5, <2>6, <2>8
<1>4. CASE IngestAudit(i) \/ IngestDies(i)
  <2>1. doc # NoDoc
    BY <1>4 DEF IngestAudit, IngestDies, RecordExists
  <2>2. PICK at \in {"idle", "failing"} :
          ingester' = [ingester EXCEPT ![i] = [at |-> at, copy |-> NoDoc]]
    BY <1>4 DEF IngestAudit, IngestDies, Work
  <2>3. queued' \in BOOLEAN /\ UNCHANGED <<doc, blobs, upload, scanVars, ingests, cleared>>
    BY <1>4 DEF IngestAudit, IngestDies, TypeOK
  <2>4. TypeOK'
    BY <2>2, <2>3 DEF TypeOK
  <2>5. IngestersGated'
    BY <2>2 DEF TypeOK, IngestersGated
  <2>6. SoundRecords'
    BY <2>2, <2>3 DEF TypeOK, SoundRecords, Sound
  <2>7. RecordExists' /\ ScannersCleared' /\ BytesKept'
    BY <2>1, <2>3 DEF RecordExists, ScannersCleared, BytesKept, ApprovedWasCleared
  <2> QED
    BY <2>4, <2>5, <2>6, <2>7
<1>5. CASE FailRead(i)
  <2>1. doc # NoDoc
    BY <1>5 DEF FailRead, RecordExists
  <2>2. TypeOK' /\ IngestersGated'
    BY <1>5, <2>1 DEF FailRead, Work, TypeOK, IngestersGated
  <2>3. SoundRecords'
    BY <1>5 DEF FailRead, Work, TypeOK, SoundRecords, Sound
  <2>4. RecordExists' /\ ScannersCleared' /\ BytesKept'
    BY <1>5, <2>1 DEF FailRead, Work, TypeOK, RecordExists, ScannersCleared,
      BytesKept, ApprovedWasCleared
  <2> QED
    BY <2>2, <2>3, <2>4
<1> QED
  BY <1>1, <1>2, <1>3, <1>4, <1>5 DEF Ingest

-----------------------------------------------------------------------------
LEMMA Invariance == Spec => []IInv
<1>1. IInv /\ [Next]_vars => IInv'
  <2> SUFFICES ASSUME IInv, [Next]_vars PROVE IInv'
    OBVIOUS
  <2>1. CASE Upload
    BY <2>1, UploadKeeps
  <2>2. ASSUME NEW s \in Scanners, ScannerStep(s) PROVE IInv'
    BY <2>2, ScannerKeeps
  <2>3. CASE RetryExtraction
    BY <2>3 DEF RetryExtraction, scanVars, IInv, TypeOK, RecordExists, SoundRecords, Sound,
      ScannersCleared, IngestersGated, BytesKept, ApprovedWasCleared
  <2>4. ASSUME NEW i \in Ingesters, Ingest(i) PROVE IInv'
    BY <2>4, IngesterKeeps
  <2>5. CASE UNCHANGED vars
    BY <2>5 DEF vars, IInv, TypeOK, RecordExists, SoundRecords, Sound,
      ScannersCleared, IngestersGated, BytesKept, ApprovedWasCleared
  <2> QED
    BY <2>1, <2>2, <2>3, <2>4, <2>5 DEF Next, ScannerStep
<1> QED
  BY InitInv, <1>1, PTL DEF Spec

(* Every variable keeps its type: in particular no worker ever meets a     *)
(* document without a record.                                              *)
THEOREM TypeCorrect == Spec => []TypeOK
<1>1. IInv => TypeOK
  BY DEF IInv
<1> QED
  BY Invariance, <1>1, PTL

(* The approved bucket never holds bytes the engine did not clear.         *)
THEOREM ApprovedWereCleared == Spec => []ApprovedWasCleared
<1>1. IInv => ApprovedWasCleared
  BY DEF IInv, BytesKept
<1> QED
  BY Invariance, <1>1, PTL

(* A record that says CLEAN names the approved copy, whoever wrote it.     *)
THEOREM CleanIsAlwaysPromoted == Spec => []CleanIsPromoted
<1>1. IInv => CleanIsPromoted
  BY DEF IInv, SoundRecords, Sound, CleanIsPromoted
<1> QED
  BY Invariance, <1>1, PTL

(* The ingestion agent fetches no file from quarantine, and no document is *)
(* recorded processed unless its bytes were cleared.                       *)
THEOREM NothingUnscanned == Spec => []NothingUnscannedUsed
<1>1. IInv => NothingUnscannedUsed
  BY DEF IInv, SoundRecords, Sound, IngestersGated, NothingUnscannedUsed
<1> QED
  BY Invariance, <1>1, PTL

(* A file that was not cleared is still in quarantine.                     *)
THEOREM EvidenceIsKept == Spec => []EvidenceKept
<1>1. IInv => EvidenceKept
  BY DEF IInv, BytesKept, EvidenceKept
<1> QED
  BY Invariance, <1>1, PTL
-----------------------------------------------------------------------------
(* One scan at a time: what overlapping deliveries break.                  *)
OneAtATime == \A s, t \in Scanners : s = t

(* Until the document is CLEAN its record names the quarantined file, and  *)
(* only the scanner works on it; from then on its approved copy stays and  *)
(* only ingesters, who read it CLEAN, do.                                  *)
Turns ==
  /\ upload \in {"new", "stored"} => doc = NoDoc
  /\ doc # NoDoc /\ doc.scan # "clean" => doc.quarantine = "quarantine"
  /\ doc # NoDoc /\ doc.scan = "clean" => "approved" \in blobs

ScannersTurn ==
  \A s \in Scanners :
    /\ scanner[s].at \in {"mark", "examine", "copy", "promote", "reject"} => doc.scan # "clean"
    /\ scanner[s].at = "promote" => "approved" \in blobs
    /\ scanner[s].src = "quarantine"
    /\ scanner[s].copy # NoDoc => scanner[s].copy.quarantine = "quarantine"

IngestersTurn ==
  \A i \in Ingesters :
    /\ ingester[i].at # "idle" => doc.scan = "clean"
    /\ ingester[i].copy # NoDoc => ingester[i].copy.scan = "clean"

TurnsInv == Turns /\ ScannersTurn /\ IngestersTurn

(* A scanner's steps keep the turns.                                       *)
LEMMA ScannerTakesTurns ==
  ASSUME OneAtATime, IInv, TurnsInv, NEW s \in Scanners, ScannerStep(s)
  PROVE  TurnsInv' /\ (doc # NoDoc /\ doc.scan = "clean" => doc'.scan = "clean")
<1> USE DEF ingestVars
<1>1. /\ \A t \in Scanners : t = s
      /\ scanner[s].copy \in Document \cup {NoDoc} /\ scanner[s].src = "quarantine"
      /\ doc \in Document \cup {NoDoc}
      /\ scanner \in [Scanners ->
           [at : {"idle", "mark", "examine", "copy", "promote", "delete", "dispatch", "reject"},
            src : Places, verdict : Settled, copy : Document \cup {NoDoc}]]
  BY DEF OneAtATime, IInv, TypeOK, TurnsInv, ScannersTurn
<1>2. CASE ScanDeliver(s) \/ ScanRedeliver(s)
  <2>1. doc \in Document /\ doc # NoDoc
    BY <1>1, <1>2 DEF ScanDeliver, ScanRedeliver, Scanning, Answered, IInv, RecordExists
  <2>2. ScanRead(s) /\ UNCHANGED <<doc, blobs, upload, ingester>>
    BY <1>2 DEF ScanDeliver, ScanRedeliver, ScanRead
  <2>3. CASE AlreadyResolved(doc)
    BY <2>2, <2>3 DEF ScanRead, TurnsInv, Turns, ScannersTurn, IngestersTurn
  <2>4. CASE ~AlreadyResolved(doc)
    <3>1. scanner' = [scanner EXCEPT ![s] =
            [at |-> "mark", src |-> SourceRef(doc), verdict |-> "clean", copy |-> NoDoc]]
      BY <2>2, <2>4 DEF ScanRead, IdleScanner
    <3>2. SourceRef(doc) = "quarantine"
      BY <2>1, <2>4, ScanPipelineAssumption
      DEF TurnsInv, Turns, SourceRef, AlreadyResolved, Places
    <3>3. ScannersTurn'
      BY <1>1, <2>2, <2>4, <3>1, <3>2 DEF ScannersTurn, AlreadyResolved
    <3> QED
      BY <2>2, <3>3 DEF TurnsInv, Turns, IngestersTurn
  <2> QED
    BY <2>3, <2>4
<1>3. CASE PatchRead(s)
  <2>1. /\ doc # NoDoc /\ doc.quarantine = "quarantine"
        /\ scanner' = [scanner EXCEPT ![s].copy = doc]
        /\ UNCHANGED <<doc, blobs, upload, ingester>>
    BY <1>3 DEF PatchRead, IInv, RecordExists, TurnsInv, Turns, ScannersTurn
  <2>2. ScannersTurn'
    BY <1>1, <2>1 DEF ScannersTurn, TurnsInv
  <2> QED
    BY <2>1, <2>2 DEF TurnsInv, Turns, IngestersTurn
<1>4. CASE PatchWrite(s) \/ Resolve(s)
  <2>1. /\ scanner[s].at \in {"mark", "promote", "reject"} /\ scanner[s].copy \in Document
        /\ scanner[s].copy.quarantine = "quarantine"
        /\ doc # NoDoc /\ doc.scan # "clean" /\ doc' = Patched(scanner[s])
        /\ UNCHANGED <<blobs, upload, ingester>>
    BY <1>1, <1>4 DEF PatchWrite, Resolve, IInv, RecordExists, TurnsInv, ScannersTurn
  <2>2. \A i \in Ingesters : ingester[i].at = "idle"
    BY <2>1 DEF TurnsInv, IngestersTurn
  <2>3. scanner[s].at = "promote" => "approved" \in blobs
    BY DEF TurnsInv, ScannersTurn
  <2>4. IF scanner[s].at = "promote" THEN doc'.scan = "clean"
        ELSE doc'.scan # "clean" /\ doc'.quarantine = "quarantine"
    <3>1. CASE scanner[s].at = "mark"
      BY <2>1, <3>1 DEF Patched, Document
    <3>2. CASE scanner[s].at = "promote"
      BY <2>1, <3>2 DEF Patched, Document
    <3>3. CASE scanner[s].at = "reject"
      <4>1. scanner[s].verdict # "clean"
        BY <3>3 DEF IInv, ScannersCleared
      <4>2. Patched(scanner[s]) = [scanner[s].copy EXCEPT !.scan = scanner[s].verdict,
              !.status = IF scanner[s].verdict = "infected" THEN "failed"
                         ELSE scanner[s].copy.status]
        BY <2>1, <3>3 DEF Patched, Document
      <4> QED
        BY <2>1, <3>3, <4>1, <4>2 DEF Document
    <3> QED
      BY <2>1, <3>1, <3>2, <3>3
  <2>5. Turns'
    BY <2>1, <2>3, <2>4 DEF TurnsInv, Turns
  <2>6. ScannersTurn'
    BY <1>1, <1>4, <2>1, <2>4 DEF PatchWrite, Resolve, ScannersTurn, IdleScanner
  <2>7. IngestersTurn'
    BY <2>1, <2>2 DEF TurnsInv, IngestersTurn
  <2> QED
    BY <2>1, <2>5, <2>6, <2>7 DEF TurnsInv
<1>5. CASE Examine(s) \/ Copy(s) \/ Delete(s)
  <2>1. /\ UNCHANGED <<doc, upload, ingester>>
        /\ "approved" \in blobs => "approved" \in blobs'
    BY <1>1, <1>5 DEF Examine, Copy, Delete
  <2>2. ScannersTurn'
    <3>1. CASE Examine(s)
      BY <1>1, <2>1, <3>1 DEF Examine, TurnsInv, ScannersTurn
    <3>2. CASE Copy(s)
      BY <1>1, <2>1, <3>2 DEF Copy, Go, TurnsInv, ScannersTurn
    <3>3. CASE Delete(s)
      BY <1>1, <2>1, <3>3 DEF Delete, Go, TurnsInv, ScannersTurn
    <3> QED
      BY <1>5, <3>1, <3>2, <3>3
  <2> QED
    BY <2>1, <2>2 DEF TurnsInv, Turns, IngestersTurn
<1>6. CASE DispatchIngest(s) \/ ScanDies(s)
  <2>1. /\ scanner' = [scanner EXCEPT ![s] = IdleScanner]
        /\ UNCHANGED <<doc, blobs, upload, ingester>>
    BY <1>6 DEF DispatchIngest, ScanDies
  <2>2. ScannersTurn'
    BY <1>1, <2>1 DEF ScannersTurn, IdleScanner
  <2> QED
    BY <2>1, <2>2 DEF TurnsInv, Turns, IngestersTurn
<1> QED
  BY <1>2, <1>3, <1>4, <1>5, <1>6 DEF ScannerStep, Scan

(* So do the others, and no step takes CLEAN back.                         *)
LEMMA TurnsKept ==
  ASSUME OneAtATime, IInv, TurnsInv, [Next]_vars
  PROVE  TurnsInv' /\ (doc # NoDoc /\ doc.scan = "clean" => doc'.scan = "clean")
<1>1. CASE Upload
  <2>1. CASE UploadRecord
    <3>1. /\ doc = NoDoc /\ doc' = Uploaded /\ upload' = "recorded"
          /\ UNCHANGED <<blobs, scanner, ingester>>
      BY <2>1 DEF UploadRecord, TurnsInv, Turns, scanVars, ingestVars
    <3>2. /\ \A s \in Scanners : scanner[s].at = "idle"
          /\ \A i \in Ingesters : ingester[i].at = "idle"
      BY <3>1 DEF IInv, RecordExists
    <3> QED
      BY <3>1, <3>2 DEF TurnsInv, Turns, ScannersTurn, IngestersTurn, Uploaded
  <2>2. CASE ~UploadRecord
    <3>1. UNCHANGED <<doc, scanner, ingester>> /\ blobs \subseteq blobs'
      BY <1>1, <2>2 DEF Upload, UploadFile, UploadDispatch, UploadDies, scanVars, ingestVars
    <3>2. upload' \in {"new", "stored"} => upload \in {"new", "stored"}
      BY <1>1, <2>2 DEF Upload, UploadFile, UploadDispatch, UploadDies
    <3> QED
      BY <3>1, <3>2 DEF TurnsInv, Turns, ScannersTurn, IngestersTurn
  <2> QED
    BY <2>1, <2>2
<1>2. ASSUME NEW i \in Ingesters, Ingest(i)
      PROVE  TurnsInv' /\ (doc # NoDoc /\ doc.scan = "clean" => doc'.scan = "clean")
  <2>1. UNCHANGED <<blobs, upload, scanner>>
    BY <1>2 DEF Ingest, IngestRead, Extract, IngestWrite, IngestAudit, FailRead, FailWrite,
      IngestDies, scanVars
  <2>2. CASE IngestWrite(i) \/ FailWrite(i)
    <3>1. ingester[i].copy \in Document /\ ingester[i].copy # NoDoc /\ doc # NoDoc
          /\ ingester[i].copy.scan = "clean" /\ doc.scan = "clean"
      BY <2>2 DEF IngestWrite, FailWrite, IInv, TypeOK, RecordExists, IngestersGated, TurnsInv,
        IngestersTurn
    <3>2. doc'.scan = "clean"
      BY <2>2, <3>1 DEF IngestWrite, FailWrite, Document
    <3>3. Turns' /\ ScannersTurn'
      <4>1. upload \notin {"new", "stored"}
        BY <3>1 DEF TurnsInv, Turns
      <4>2. \A s \in Scanners :
              scanner[s].at \notin {"mark", "examine", "copy", "promote", "reject"}
        BY <3>1 DEF TurnsInv, ScannersTurn
      <4> QED
        BY <2>1, <3>1, <3>2, <4>1, <4>2 DEF TurnsInv, Turns, ScannersTurn
    <3>4. IngestersTurn'
      BY <2>2, <3>2 DEF IngestWrite, FailWrite, Work, IInv, TypeOK, TurnsInv, IngestersTurn
    <3> QED
      BY <3>2, <3>3, <3>4 DEF TurnsInv
  <2>3. CASE ~(IngestWrite(i) \/ FailWrite(i))
    <3>1. UNCHANGED doc
      BY <1>2, <2>3 DEF Ingest, IngestRead, Extract, IngestAudit, FailRead, IngestDies
    <3>2. IngestersTurn'
      <4>1. CASE IngestRead(i)
        BY <3>1, <4>1 DEF IngestRead, Work, Processable, IInv, TypeOK, TurnsInv, IngestersTurn
      <4>2. CASE Extract(i) \/ IngestAudit(i) \/ FailRead(i) \/ IngestDies(i)
        BY <3>1, <4>2 DEF Extract, IngestAudit, FailRead, IngestDies, Work, IInv, TypeOK,
          TurnsInv, IngestersTurn
      <4> QED
        BY <1>2, <2>3, <4>1, <4>2 DEF Ingest
    <3> QED
      BY <2>1, <3>1, <3>2 DEF TurnsInv, Turns, ScannersTurn
  <2> QED
    BY <2>2, <2>3
<1>3. CASE RetryExtraction \/ UNCHANGED vars
  BY <1>3 DEF RetryExtraction, vars, scanVars, TurnsInv, Turns, ScannersTurn, IngestersTurn
<1> QED
  BY <1>1, <1>2, <1>3, ScannerTakesTurns DEF Next, ScannerStep

(* The turns hold from the first upload on.                                *)
LEMMA TurnsHold == OneAtATime /\ Spec => []TurnsInv
<1> SUFFICES ASSUME OneAtATime PROVE Spec => []TurnsInv
  OBVIOUS
<1>1. Init => TurnsInv
  BY DEF Init, TurnsInv, Turns, ScannersTurn, IngestersTurn, IdleScanner, IdleIngester
<1>2. IInv /\ TurnsInv /\ [Next]_vars => TurnsInv'
  BY TurnsKept
<1> QED
  BY <1>1, <1>2, Invariance, PTL DEF Spec

(* With one scan at a time a CLEAN record names a file that exists, for    *)
(* any number of redeliveries, deaths and ingesters.                       *)
THEOREM ClearedFilesExist == OneAtATime /\ Spec => []ClearedFileExists
<1> SUFFICES ASSUME OneAtATime PROVE Spec => []ClearedFileExists
  OBVIOUS
<1>1. IInv /\ TurnsInv => ClearedFileExists
  BY DEF IInv, SoundRecords, Sound, TurnsInv, Turns, ClearedFileExists
<1> QED
  BY <1>1, Invariance, TurnsHold, PTL

(* And CLEAN is the last word on a document.                               *)
THEOREM CleanStaysClean == OneAtATime /\ Spec => CleanIsFinal
<1> SUFFICES ASSUME OneAtATime PROVE Spec => CleanIsFinal
  OBVIOUS
<1>1. IInv /\ TurnsInv /\ [Next]_vars
        => [doc # NoDoc /\ doc.scan = "clean" => doc'.scan = "clean"]_vars
  BY TurnsKept
<1> QED
  BY <1>1, Invariance, TurnsHold, PTL DEF Spec, CleanIsFinal

-----------------------------------------------------------------------------
(* One scan at a time implements DocumentScreening.                        *)

(* Nothing is processed before it is CLEAN, nor about to be by a scanner's *)
(* copy, which was read before.                                            *)
NotYetUsed ==
  /\ doc # NoDoc /\ doc.scan # "clean" => doc.status # "processed"
  /\ \A s \in Scanners : scanner[s].copy # NoDoc => scanner[s].copy.status # "processed"

(* The six things a step can do to what the promise is about.              *)
Registers == doc = NoDoc /\ doc' = Uploaded /\ UNCHANGED <<blobs, cleared>>
Clears    == doc # NoDoc /\ doc.scan # "clean" /\ cleared' /\ UNCHANGED <<doc, blobs>>
Releases  ==
  /\ doc # NoDoc /\ doc.scan # "clean" /\ cleared /\ "approved" \in blobs'
  /\ UNCHANGED <<doc, cleared>>
Judges    ==
  /\ doc # NoDoc /\ doc.scan # "clean" /\ doc' \in Document
  /\ doc'.scan = "clean" => "approved" \in blobs
  /\ doc.status # "processed" /\ doc'.status # "processed"
  /\ UNCHANGED <<blobs, cleared>>
Uses      ==
  /\ doc # NoDoc /\ doc.scan = "clean" /\ doc' \in Document /\ doc'.scan = "clean"
  /\ UNCHANGED <<blobs, cleared>>
Stays     == UNCHANGED <<doc, cleared>> /\ ("approved" \in blobs' <=> "approved" \in blobs)

Screens == Registers \/ Clears \/ Releases \/ Judges \/ Uses \/ Stays

LEMMA UploadScreens ==
  ASSUME IInv, TurnsInv, NotYetUsed, Upload
  PROVE  Screens /\ NotYetUsed'
<1>1. UNCHANGED scanner /\ (UploadRecord => Registers) /\ (~UploadRecord => Stays)
  BY DEF Upload, UploadFile, UploadRecord, UploadDispatch, UploadDies, scanVars, ingestVars,
    TurnsInv, Turns, Registers, Stays
<1>2. (UploadRecord => doc'.status = "pending") /\ (~UploadRecord => UNCHANGED doc)
  BY <1>1 DEF Registers, Stays, Uploaded
<1> QED
  BY <1>1, <1>2 DEF Screens, NotYetUsed

LEMMA ScannerScreens ==
  ASSUME OneAtATime, IInv, TurnsInv, NotYetUsed, NEW s \in Scanners, ScannerStep(s)
  PROVE  Screens /\ NotYetUsed'
<1> USE DEF ingestVars
<1>1. /\ \A t \in Scanners : t = s
      /\ scanner[s].src = "quarantine" /\ scanner[s].copy \in Document \cup {NoDoc}
      /\ doc \in Document \cup {NoDoc}
      /\ scanner[s].at \in {"mark", "examine", "copy", "promote", "reject"} => doc.scan # "clean"
      /\ scanner[s].at # "idle" => doc # NoDoc
      /\ scanner \in [Scanners ->
           [at : {"idle", "mark", "examine", "copy", "promote", "delete", "dispatch", "reject"},
            src : Places, verdict : Settled, copy : Document \cup {NoDoc}]]
  BY DEF OneAtATime, IInv, TypeOK, TurnsInv, ScannersTurn, RecordExists
<1>2. CASE ScanDeliver(s) \/ ScanRedeliver(s) \/ DispatchIngest(s) \/ ScanDies(s)
  <2>1. UNCHANGED <<doc, blobs, cleared>>
    BY <1>2 DEF ScanDeliver, ScanRedeliver, ScanRead, DispatchIngest, ScanDies
  <2>2. \/ UNCHANGED scanner
        \/ \E w \in [at : {"idle", "mark"}, src : {"quarantine", SourceRef(doc)},
                     verdict : {"clean"}, copy : {NoDoc}] : scanner' = [scanner EXCEPT ![s] = w]
    <3>1. CASE ScanDeliver(s) \/ ScanRedeliver(s)
      BY <3>1 DEF ScanDeliver, ScanRedeliver, ScanRead, IdleScanner
    <3>2. CASE DispatchIngest(s) \/ ScanDies(s)
      BY <3>2 DEF DispatchIngest, ScanDies, IdleScanner
    <3> QED
      BY <1>2, <3>1, <3>2
  <2>3. \A t \in Scanners : scanner'[t].copy \in {NoDoc, scanner[t].copy}
    BY <1>1, <2>2
  <2> QED
    BY <2>1, <2>3 DEF Screens, Stays, NotYetUsed
<1>3. CASE PatchRead(s)
  <2>1. /\ doc.scan # "clean" /\ doc # NoDoc /\ UNCHANGED <<doc, blobs, cleared>>
        /\ scanner' = [scanner EXCEPT ![s].copy = doc]
    BY <1>1, <1>3 DEF PatchRead
  <2> QED
    BY <1>1, <2>1 DEF Screens, Stays, NotYetUsed
<1>4. CASE PatchWrite(s) \/ Resolve(s)
  <2>1. /\ scanner[s].at \in {"mark", "promote", "reject"}
        /\ scanner[s].copy \in Document /\ scanner[s].copy.status # "processed"
        /\ doc # NoDoc /\ doc.scan # "clean" /\ doc.status # "processed"
        /\ doc' = Patched(scanner[s]) /\ doc' \in Document
        /\ UNCHANGED <<blobs, cleared>>
    BY <1>1, <1>4, PatchedSound DEF PatchWrite, Resolve, NotYetUsed
  <2>2. doc'.status # "processed"
    BY <2>1 DEF Patched, Document
  <2>3. doc'.scan = "clean" => scanner[s].at = "promote"
    <3>1. CASE scanner[s].at = "mark"
      BY <2>1, <3>1 DEF Patched, Document
    <3>2. CASE scanner[s].at = "reject"
      <4>1. scanner[s].verdict # "clean"
        BY <3>2 DEF IInv, ScannersCleared
      <4>2. Patched(scanner[s]) = [scanner[s].copy EXCEPT !.scan = scanner[s].verdict,
              !.status = IF scanner[s].verdict = "infected" THEN "failed"
                         ELSE scanner[s].copy.status]
        BY <2>1, <3>2 DEF Patched, Document
      <4> QED
        BY <2>1, <4>1, <4>2 DEF Document
    <3> QED
      BY <2>1, <3>1, <3>2
  <2>4. Judges
    BY <2>1, <2>2, <2>3 DEF Judges, TurnsInv, ScannersTurn
  <2>5. \A t \in Scanners : scanner'[t].copy = NoDoc
    BY <1>1, <1>4 DEF PatchWrite, Resolve, IdleScanner
  <2> QED
    BY <2>2, <2>4, <2>5 DEF Screens, NotYetUsed
<1>5. CASE Examine(s) \/ Copy(s) \/ Delete(s)
  <2>1. UNCHANGED doc /\ doc # NoDoc
    BY <1>1, <1>5 DEF Examine, Copy, Delete
  <2>3. scanner'[s].copy = scanner[s].copy
    <3>1. CASE Examine(s)
      BY <1>1, <3>1 DEF Examine
    <3>2. CASE Copy(s)
      BY <1>1, <3>2 DEF Copy, Go
    <3>3. CASE Delete(s)
      BY <1>1, <3>3 DEF Delete, Go
    <3> QED
      BY <1>5, <3>1, <3>2, <3>3
  <2>2. Clears \/ Releases \/ Stays
    <3>1. CASE Examine(s)
      BY <1>1, <2>1, <3>1 DEF Examine, Clears, Stays, IInv, TypeOK
    <3>2. CASE Copy(s)
      BY <1>1, <2>1, <3>2 DEF Copy, Releases, Stays, IInv, ScannersCleared
    <3>3. CASE Delete(s)
      BY <1>1, <2>1, <3>3 DEF Delete, Stays
    <3> QED
      BY <1>5, <3>1, <3>2, <3>3
  <2> QED
    BY <1>1, <2>1, <2>2, <2>3 DEF Screens, NotYetUsed
<1> QED
  BY <1>2, <1>3, <1>4, <1>5 DEF ScannerStep, Scan

LEMMA IngesterScreens ==
  ASSUME IInv, TurnsInv, NotYetUsed, NEW i \in Ingesters, Ingest(i)
  PROVE  Screens /\ NotYetUsed'
<1>1. UNCHANGED <<blobs, scanner, cleared>>
  BY DEF Ingest, IngestRead, Extract, IngestWrite, IngestAudit, FailRead, FailWrite,
    IngestDies, scanVars
<1>2. CASE IngestWrite(i) \/ FailWrite(i)
  <2>1. ingester[i].copy \in Document /\ ingester[i].copy # NoDoc /\ doc # NoDoc
        /\ ingester[i].copy.scan = "clean" /\ doc.scan = "clean"
    BY <1>2 DEF IngestWrite, FailWrite, IInv, TypeOK, RecordExists, IngestersGated, TurnsInv,
      IngestersTurn
  <2>2. Uses
    BY <1>1, <1>2, <2>1 DEF IngestWrite, FailWrite, Uses, Document
  <2> QED
    BY <1>1, <2>2 DEF Screens, Uses, NotYetUsed
<1>3. CASE ~(IngestWrite(i) \/ FailWrite(i))
  <2>1. UNCHANGED doc
    BY <1>3 DEF Ingest, IngestRead, Extract, IngestAudit, FailRead, IngestDies
  <2> QED
    BY <1>1, <2>1 DEF Screens, Stays, NotYetUsed
<1> QED
  BY <1>2, <1>3

LEMMA EveryStepScreens ==
  ASSUME OneAtATime, IInv, TurnsInv, NotYetUsed, [Next]_vars
  PROVE  Screens /\ NotYetUsed'
<1>1. CASE RetryExtraction \/ UNCHANGED vars
  BY <1>1 DEF RetryExtraction, vars, scanVars, Screens, Stays, NotYetUsed
<1> QED
  BY <1>1, UploadScreens, ScannerScreens, IngesterScreens DEF Next, ScannerStep

(* Cleared, released, recorded CLEAN, processed: in this order, and none   *)
(* taken back, for any number of redeliveries, deaths and ingesters.       *)
THEOREM ScreeningIsKept == OneAtATime /\ Spec => ImplementsScreening
<1> SUFFICES ASSUME OneAtATime PROVE Spec => ImplementsScreening
  OBVIOUS
<1> DEFINE v == IF doc = NoDoc THEN "none" ELSE doc.scan
           r == "approved" \in blobs
           u == doc # NoDoc /\ doc.status = "processed"
<1>1. Init => Screened!Init /\ NotYetUsed
  <2> SUFFICES ASSUME Init PROVE Screened!Init /\ NotYetUsed
    OBVIOUS
  <2>1. doc = NoDoc /\ blobs = {} /\ ~cleared /\ \A s \in Scanners : scanner[s].copy = NoDoc
    BY DEF Init, IdleScanner
  <2> QED
    BY <2>1 DEF Screened!Init, NotYetUsed
<1>2. IInv /\ TurnsInv /\ NotYetUsed /\ [Next]_vars => NotYetUsed'
  BY EveryStepScreens
<1>3. IInv /\ TurnsInv /\ NotYetUsed /\ [Next]_vars
        => [Screened!Next]_<<v, cleared, r, u>>
  <2> SUFFICES ASSUME Screens, IInv
               PROVE  Screened!Next \/ <<v, cleared, r, u>>' = <<v, cleared, r, u>>
    BY EveryStepScreens
  <2>0. NoDoc \notin Document /\ cleared \in BOOLEAN
    BY ScanPipelineAssumption DEF IInv, TypeOK
  <2>1. CASE Registers
    <3>1. doc = NoDoc /\ doc' = Uploaded /\ doc' # NoDoc /\ UNCHANGED <<blobs, cleared>>
      BY <2>1, UploadedType DEF Registers
    <3>2. doc'.scan = "scan_pending" /\ doc'.status = "pending"
      BY <3>1 DEF Uploaded
    <3> QED
      BY <3>1, <3>2 DEF Screened!Next, Screened!Register
  <2>2. CASE Clears
    BY <2>2 DEF Clears, IInv, TypeOK, Document, Settled, Rejected, Screened!Next, Screened!Clear, Screened!Undecided
  <2>3. CASE Releases
    BY <2>3 DEF Releases, IInv, TypeOK, Document, Settled, Rejected, Screened!Next, Screened!Release, Screened!Undecided
  <2>4. CASE Judges
    <3>1. doc' # NoDoc
      BY <2>0, <2>4 DEF Judges
    <3> QED
      BY <2>4, <3>1 DEF Judges, IInv, TypeOK, Document, Settled, Rejected,
        Screened!Next, Screened!Judge, Screened!Undecided
  <2>5. CASE Uses
    <3>1. doc' # NoDoc
      BY <2>0, <2>5 DEF Uses
    <3>2. v = "clean" /\ v' = "clean"
      BY <2>5, <3>1 DEF Uses
    <3>3. r' = r /\ cleared' = cleared
      BY <2>5 DEF Uses
    <3>4. u' \in BOOLEAN
      OBVIOUS
    <3> QED
      BY <3>2, <3>3, <3>4, Zenon DEF Screened!Next, Screened!Use
  <2>6. CASE Stays
    BY <2>6 DEF Stays
  <2> QED
    BY <2>1, <2>2, <2>3, <2>4, <2>5, <2>6 DEF Screens
<1> QED
  BY <1>1, <1>2, <1>3, Invariance, TurnsHold, PTL
  DEF Spec, ImplementsScreening, Screened!Spec, Screened!screeningVars
(* What the abstract specification is for: a document that was processed   *)
(* is CLEAN, one that is CLEAN was released, and what was released was     *)
(* cleared, at every moment.  (With overlapping scans the first fails: a   *)
(* late scan may take CLEAN back after the document was processed.)        *)
ScreenedInOrder ==
  /\ doc # NoDoc /\ doc.status = "processed" => doc.scan = "clean"
  /\ doc # NoDoc /\ doc.scan = "clean" => "approved" \in blobs
  /\ "approved" \in blobs => cleared

(* It follows from the abstract steps alone.                               *)
LEMMA OrderIsPromised == ImplementsScreening => []ScreenedInOrder
<1> DEFINE v == IF doc = NoDoc THEN "none" ELSE doc.scan
           r == "approved" \in blobs
           u == doc # NoDoc /\ doc.status = "processed"
           InOrder == (u => v = "clean") /\ (v = "clean" => r) /\ (r => cleared)
<1>1. Screened!Init => InOrder
  BY DEF Screened!Init
<1>2. InOrder /\ [Screened!Next]_<<v, cleared, r, u>> => InOrder'
  <2> SUFFICES ASSUME InOrder, Screened!Next \/ UNCHANGED <<v, cleared, r, u>>
               PROVE  InOrder'
    OBVIOUS
  <2>1. CASE Screened!Register
    BY <2>1 DEF Screened!Register
  <2>2. CASE Screened!Clear
    BY <2>2 DEF Screened!Clear
  <2>3. CASE Screened!Release
    BY <2>3 DEF Screened!Release
  <2>4. CASE Screened!Judge
    BY <2>4 DEF Screened!Judge, Screened!Undecided
  <2>5. CASE Screened!Use
    BY <2>5 DEF Screened!Use
  <2>6. CASE UNCHANGED <<v, cleared, r, u>>
    BY <2>6
  <2> QED
    BY <2>1, <2>2, <2>3, <2>4, <2>5, <2>6 DEF Screened!Next
<1>3. InOrder => ScreenedInOrder
  BY DEF ScreenedInOrder
<1> QED
  BY <1>1, <1>2, <1>3, PTL DEF ImplementsScreening, Screened!Spec, Screened!screeningVars

THEOREM ScreeningInOrder == OneAtATime /\ Spec => []ScreenedInOrder
BY ScreeningIsKept, OrderIsPromised, PTL

=============================================================================
