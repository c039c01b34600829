------------------------------- MODULE Report -------------------------------
(***************************************************************************)
(* One periodic report and everybody who writes its durable record: the    *)
(* gateway's requests that claim it and queue a REPORT task, the platform  *)
(* admins who have it regenerated, the reporting agent's workers that      *)
(* generate, store and verify it (one per delivery of a task), and the     *)
(* direct calls of the weekly workflow.                                    *)
(*                                                                         *)
(* report_id is uuid5(tenant, period), so everybody who asks for the same  *)
(* period shares one record, one report.html and one report.pdf; reports   *)
(* with different ids share nothing, and one of them is enough.            *)
(*                                                                         *)
(* claim_report is a transaction, one step.  update_report_record reads    *)
(* the record, patches it and writes it all back: two steps.  A file is    *)
(* stored or not: which upload it is of, and with it the size, the         *)
(* checksum and the summary a READY record carries, is left out.           *)
(***************************************************************************)
EXTENDS Naturals, FiniteSets

CONSTANTS
  Requesters,   \* POST /api/reports requests for this tenant and period
  Admins,       \* platform_regenerate_report requests for this report
  Workers,      \* concurrent executions of the reporting agent's handlers
  MaxExtra,     \* bound on attempts nobody requested: direct calls, repeated
                \* deliveries of a task in hand or answered, regenerations
  MaxFailures,  \* bound on failed attempts, failed dispatches and deaths
  MaxAttempts,  \* max_attempts of the REPORT queue
  NoRecord      \* no record

InFlight == {"queued", "generating", "validating", "persisting", "verifying"}
Statuses == InFlight \cup {"ready", "failed", "retrying"}

Files == {"html", "pdf"}

\* file: what storage_key, format and checksum describe
Record == [status : Statuses, file : Files \cup {"none"}]

ASSUME ReportAssumption ==
  /\ MaxExtra \in Nat /\ MaxFailures \in Nat /\ MaxAttempts \in Nat
  /\ NoRecord \notin Record
  /\ Requesters \cap Admins = {}
  /\ IsFiniteSet(Workers)

VARIABLES
  record,    \* the stored ReportRecord, or NoRecord
  stored,    \* the files in the bucket
  queue,     \* REPORT tasks not yet answered 200 nor given up
  req,       \* per request: progress, copy of the record
  worker,    \* per worker: progress, whose attempt it is, the record as it began
             \* (was it READY?), the file it verifies, copy of the record
  failures,  \* failures so far
  extra,     \* of those attempts, how many so far
  orphaned   \* history: did one of the known mishaps (below) happen?

vars == <<record, stored, queue, req, worker, failures, extra, orphaned>>

Askers == Requesters \cup Admins

\* The status a worker is about to write, one update_report_record each.
Patching == {"generating", "validating", "persisting", "verifying", "ready", "retrying"}

IdleWorker == [at |-> "idle", kind |-> "task", sawReady |-> FALSE,
               file |-> "html", copy |-> NoRecord]

\* "reset", "stamp" and "fail" are updates of the record yet to be written.
Updating == {"reset", "stamp", "fail"}

Asking == [at : Updating \cup {"new", "claimed", "done"},
           copy : Record \cup {NoRecord}]

Attempt == [at : Patching \cup {"idle", "generate", "verify"}, kind : {"task", "extra"},
            sawReady : BOOLEAN, file : Files, copy : Record \cup {NoRecord}]

TypeOK ==
  /\ record \in Record \cup {NoRecord}
  /\ stored \subseteq Files
  /\ queue \in Nat
  /\ req \in [Askers -> Asking]
  /\ worker \in [Workers -> Attempt]
  /\ failures \in 0..MaxFailures
  /\ extra \in 0..MaxExtra
  /\ orphaned \in BOOLEAN

Init ==
  /\ record = NoRecord
  /\ stored = {}
  /\ queue = 0
  /\ req = [q \in Askers |-> [at |-> "new", copy |-> NoRecord]]
  /\ worker = [w \in Workers |-> IdleWorker]
  /\ failures = 0 /\ extra = 0
  /\ orphaned = FALSE

Failed == failures < MaxFailures /\ failures' = failures + 1

Mishap(b) == orphaned' = (orphaned \/ b)

-----------------------------------------------------------------------------
(* The gateway: claim the report, queue the task, note its id.  An admin   *)
(* sends the record back to QUEUED instead, and notes neither the task nor *)
(* the failure to queue one.                                               *)

Claimed == [status |-> "queued", file |-> "none"]

Ask(q, at, copy) == req' = [req EXCEPT ![q] = [at |-> at, copy |-> copy]]

NeedsNoTask(r) == r.status \in InFlight \cup {"ready"}

Claim(q) ==
  /\ q \in Requesters /\ req[q].at = "new"
  /\ \/ record = NoRecord /\ record' = Claimed /\ Ask(q, "claimed", NoRecord)
     \/ /\ record # NoRecord
        /\ Ask(q, IF NeedsNoTask(record) THEN "done" ELSE "claimed", NoRecord)
        /\ UNCHANGED record
  /\ UNCHANGED <<stored, queue, worker, failures, extra, orphaned>>

Regenerate(q) ==
  /\ q \in Admins /\ req[q].at = "new"
  /\ record # NoRecord /\ extra < MaxExtra         \* 404 without a record
  /\ extra' = extra + 1
  /\ Ask(q, "reset", NoRecord)
  /\ UNCHANGED <<record, stored, queue, worker, failures, orphaned>>

Dispatch(q) ==
  /\ req[q].at = "claimed"
  /\ queue' = queue + 1
  /\ Ask(q, IF q \in Requesters THEN "stamp" ELSE "done", NoRecord)
  /\ UNCHANGED <<record, stored, worker, failures, extra, orphaned>>

(* Fault: a failed dispatch is answered, but not recorded.                 *)
DispatchUnrecorded(q) ==
  /\ req[q].at = "claimed" /\ Failed
  /\ queue' \in {queue, queue + 1}
  /\ Ask(q, "done", NoRecord)
  /\ Mishap(q \in Admins)
  /\ UNCHANGED <<record, stored, worker, extra>>

(* create_and_dispatch raised, perhaps after the task was queued.          *)
DispatchFails(q) ==
  /\ req[q].at = "claimed" /\ Failed
  /\ queue' \in {queue, queue + 1}
  /\ Ask(q, IF q \in Requesters THEN "fail" ELSE "done", NoRecord)
  /\ Mishap(q \in Admins)
  /\ UNCHANGED <<record, stored, worker, extra>>

UpdateRead(q) ==
  /\ req[q].at \in Updating /\ req[q].copy = NoRecord
  /\ Ask(q, req[q].at, record)
  /\ UNCHANGED <<record, stored, queue, worker, failures, extra, orphaned>>

(* task_id is read by nobody; the rest of the copy goes back with it.      *)
Updated(r) ==
  IF r.at = "stamp" THEN r.copy
  ELSE [r.copy EXCEPT !.status = IF r.at = "fail" THEN "failed" ELSE "queued"]

UpdateWrite(q) ==             \* 202, or 503 after a failed dispatch
  /\ req[q].at \in Updating /\ req[q].copy # NoRecord
  /\ record' = Updated(req[q])
  /\ Mishap(req[q].at = "stamp" /\ req[q].copy.status # record.status)
  /\ Ask(q, IF req[q].at = "reset" THEN "claimed" ELSE "done", NoRecord)
  /\ UNCHANGED <<stored, queue, worker, failures, extra>>

RequestDies(q) ==
  /\ req[q].at \in Updating \cup {"claimed"} /\ Failed
  /\ Mishap(req[q].at \in {"claimed", "fail"})
  /\ Ask(q, "done", NoRecord)
  /\ UNCHANGED <<record, stored, queue, worker, extra>>

-----------------------------------------------------------------------------
(* The reporting agent: run_report_workflow around generate_report.        *)

(* Fault: a finished report is generated again.                            *)
NeverReady(r) == FALSE

(* Fault: a delivery is answered while another attempt seems to be at work.*)
AlreadyBegun(r) == r.status \in {"ready", "generating"}

AlreadyReady(r) == r.status = "ready"

InHand == {w \in Workers : worker[w].at # "idle" /\ worker[w].kind = "task"}

(* Reads the record; READY is answered 200 at once.                        *)
Start(w, kind, r) ==
  worker' = [worker EXCEPT ![w] =
    IF AlreadyReady(r) THEN @
    ELSE [IdleWorker EXCEPT !.at = "generating", !.kind = kind,
                            !.sawReady = (r.status = "ready")]]

Answered(kind) == queue' = IF kind = "task" THEN queue - 1 ELSE queue

Deliver(w) ==                 \* POST /internal/report-task; also a retry
  /\ worker[w].at = "idle" /\ queue > Cardinality(InHand)
  /\ Start(w, "task", record)
  /\ IF AlreadyReady(record) THEN Answered("task") ELSE UNCHANGED queue
  /\ UNCHANGED <<record, stored, req, failures, extra, orphaned>>

Redeliver(w) ==               \* at-least-once: a delivery nobody needed
  /\ worker[w].at = "idle" /\ record # NoRecord /\ extra < MaxExtra
  /\ extra' = extra + 1
  /\ Start(w, "extra", record)
  /\ UNCHANGED <<record, stored, queue, req, failures, orphaned>>

Direct(w) ==                  \* POST /internal/report: claim and go on
  /\ worker[w].at = "idle" /\ extra < MaxExtra
  /\ extra' = extra + 1
  /\ record' = IF record = NoRecord THEN Claimed ELSE record
  /\ Start(w, "extra", record')
  /\ UNCHANGED <<stored, queue, req, failures, orphaned>>

Dead(w) ==                    \* nobody repeats an extra attempt
  /\ worker' = [worker EXCEPT ![w] = IdleWorker]
  /\ Mishap(worker[w].kind # "task")

PatchRead(w) ==
  /\ worker[w].at \in Patching /\ worker[w].copy = NoRecord
  /\ worker' = [worker EXCEPT ![w].copy = record]
  /\ UNCHANGED <<record, stored, queue, req, failures, extra, orphaned>>

Following == [generating |-> "generate", validating |-> "persisting",
              persisting |-> "verifying", verifying |-> "verify"]

(* Fault: READY is written where verification begins.                      *)
PatchedEarly(w) ==
  CASE w.at = "ready"     -> [status |-> "ready", file |-> w.file]
    [] w.at = "verifying" -> [w.copy EXCEPT !.status = "ready"]
    [] OTHER              -> [w.copy EXCEPT !.status = w.at]

Patched(w) ==                 \* "persisting" also empties storage_key
  IF w.at = "ready" THEN [status |-> "ready", file |-> w.file]
  ELSE [status |-> w.at,
        file |-> IF w.at = "persisting" THEN "none" ELSE w.copy.file]

PatchWrite(w) ==
  /\ worker[w].at \in DOMAIN Following /\ worker[w].copy # NoRecord
  /\ record' = Patched(worker[w])
  /\ worker' = [worker EXCEPT ![w].at = Following[@], ![w].copy = NoRecord]
  /\ UNCHANGED <<stored, queue, req, failures, extra, orphaned>>

(* The artifact a record is to describe.  Fault: it is the PDF or nothing. *)
PdfOnly(pdf) == IF pdf THEN "pdf" ELSE "none"

Artefact(pdf) == IF pdf THEN "pdf" ELSE "html"

(* generate_report: statistics, report.html, report.pdf (one that fails to *)
(* render or upload is let go), the BigQuery row and report.generated.  It *)
(* shares nothing but the bucket with the others, so it is one step; it    *)
(* may raise (or die) after any of its uploads.                            *)
GenerateReport(w) ==
  /\ worker[w].at = "generate"
  /\ \E pdf \in BOOLEAN :
       /\ stored' = stored \cup (IF pdf THEN Files ELSE {"html"})
       /\ worker' = [worker EXCEPT ![w].at = "validating",
            ![w].file = Artefact(pdf)]
  /\ UNCHANGED <<record, queue, req, failures, extra, orphaned>>

GenerateFails(w) ==
  /\ worker[w].at = "generate" /\ Failed
  /\ \E uploaded \in {{}, {"html"}, Files} : stored' = stored \cup uploaded
  /\ \/ worker' = [worker EXCEPT ![w].at = "retrying"] /\ UNCHANGED orphaned
     \/ Dead(w)
  /\ UNCHANGED <<record, queue, req, extra>>

Verify(w) ==                  \* read the file back; it may be missing or empty
  /\ worker[w].at = "verify"
  /\ \/ /\ worker[w].file \in stored
        /\ worker' = [worker EXCEPT ![w].at = "ready"]
        /\ UNCHANGED failures
     \/ /\ Failed
        /\ worker' = [worker EXCEPT ![w].at = "retrying"]
  /\ UNCHANGED <<record, stored, queue, req, extra, orphaned>>

Finish(w) ==                  \* 200
  /\ worker[w].at = "ready" /\ worker[w].copy # NoRecord
  /\ record' = Patched(worker[w])
  /\ worker' = [worker EXCEPT ![w] = IdleWorker]
  /\ Answered(worker[w].kind)
  /\ UNCHANGED <<stored, req, failures, extra, orphaned>>

(* Fault: the failed attempt is answered 200.                              *)
RetryAnswered(w) ==
  /\ worker[w].at = "retrying" /\ worker[w].copy # NoRecord
  /\ record' = Patched(worker[w])
  /\ worker' = [worker EXCEPT ![w] = IdleWorker]
  /\ Answered(worker[w].kind)
  /\ UNCHANGED <<stored, req, failures, extra, orphaned>>

Retry(w) ==                   \* 502: the task stays on the queue
  /\ worker[w].at = "retrying" /\ worker[w].copy # NoRecord
  /\ record' = Patched(worker[w])
  /\ worker' = [worker EXCEPT ![w] = IdleWorker]
  /\ UNCHANGED <<stored, queue, req, failures, extra, orphaned>>

(* The instance dies, or Firestore or Storage raises where nothing catches.*)
WorkerDies(w) ==
  /\ worker[w].at \notin {"idle", "generate"} /\ Failed
  /\ Dead(w)
  /\ UNCHANGED <<record, stored, queue, req, extra>>

(* Cloud Tasks drops a task after max_attempts.  (All failures count       *)
(* here, whichever task they were of.)                                     *)
GiveUp ==
  /\ queue > Cardinality(InHand) /\ failures >= MaxAttempts
  /\ queue' = queue - 1
  /\ Mishap(TRUE)
  /\ UNCHANGED <<record, stored, req, worker, failures, extra>>

-----------------------------------------------------------------------------
Request(q) ==
  \/ Claim(q) \/ Regenerate(q) \/ Dispatch(q) \/ DispatchFails(q) \/ UpdateRead(q)
  \/ UpdateWrite(q) \/ RequestDies(q)

Work(w) ==
  \/ PatchRead(w) \/ PatchWrite(w) \/ GenerateReport(w) \/ Verify(w)
  \/ Finish(w) \/ Retry(w)

Next ==
  \/ \E q \in Askers : Request(q)
  \/ \E w \in Workers :
       Deliver(w) \/ Redeliver(w) \/ Direct(w) \/ Work(w) \/ GenerateFails(w)
       \/ WorkerDies(w)
  \/ GiveUp

Spec == Init /\ [][Next]_vars

(* A running handler goes on, and Cloud Tasks delivers what is queued.     *)
FairSpec ==
  Spec /\ \A w \in Workers : WF_vars(Work(w)) /\ WF_vars(Deliver(w))

-----------------------------------------------------------------------------
Ready == record # NoRecord /\ record.status = "ready"

(* READY always names a file that was read back: whoever wrote the record  *)
(* last, and from however old a copy, what it describes is stored.         *)
ReadyIsStored == Ready => record.file \in stored

(* A delivery that found the report READY never touches it: READY is lost  *)
(* only to a worker whose delivery began before, or to a request's update: *)
(* an admin's reset, one from an older copy, one after a failed dispatch.  *)
ReadyLostOnlyBlindly ==
  [][Ready /\ record'.status # "ready" =>
       \/ \E w \in Workers : worker[w].at \in Patching /\ ~worker[w].sawReady
       \/ \E q \in Askers : req[q].at \in Updating /\ req[q].copy # NoRecord]_vars

(* A report in one of the statuses that answer every further request       *)
(* without queueing a task has a task, a worker or a request that will     *)
(* queue one.                                                              *)
WorkedOn ==
  \/ queue > 0
  \/ \E w \in Workers : worker[w].at # "idle"
  \/ \E q \in Askers : req[q].at \in {"claimed", "fail"}

InFlightIsWorkedOn == record # NoRecord /\ record.status \in InFlight => WorkedOn

(* So it is unless a mishap happened: a request died before its dispatch   *)
(* or its record of a failed one (an admin's never records it), its update *)
(* undid a newer status, Cloud Tasks gave up, or an attempt that no task   *)
(* repeats died.                                                           *)
StuckOnlyByMishap == ~orphaned => InFlightIsWorkedOn

(* What a record tells the tenant, as of its status.                       *)
Outcome ==
  IF record = NoRecord THEN "none"
  ELSE IF record.status \in InFlight THEN "open"
  ELSE IF record.status = "ready" THEN "delivered" ELSE "failed"

Delivery == INSTANCE ReportDelivery WITH
  state <- Outcome, file <- IF record = NoRecord THEN "none" ELSE record.file,
  archive <- stored, owed <- WorkedOn, lost <- orphaned

(* The promise as a specification of its own.  Beyond the invariants: any  *)
(* attempt or request that is the last to work on the report leaves an     *)
(* outcome, and the outcome changes only under the hands of those who work *)
(* on it, or by one of the mishaps.                                        *)
ImplementsDelivery == Delivery!Spec

(* A queued task makes the report READY, however often its own attempts    *)
(* fail or die, unless one of the mishaps happens: Cloud Tasks gives up, a *)
(* request dies at its dispatch or undoes a newer status, an attempt that  *)
(* no task repeats dies.                                                   *)
TaskLeadsToReady == queue > 0 ~> Ready \/ orphaned
=============================================================================
