# A TLA+ model of Compliance Guardian

Compliance Guardian takes a company's documents, scans them for malware, extracts
their fields with a language model, judges them against a ruleset, has a human
decide what the machine is unsure of, and produces periodic reports. It runs as a
FastAPI gateway and a set of single-purpose agents on Cloud Run, glued together by
Cloud Tasks, with Firestore as the system of record and Cloud Storage for files.

This directory models the parts of it where several of those processes write one
record, or one process writes several: four large state machines (checks, scanning,
allowance, reports) and seven smaller ones around them, each checked with TLC on small
instances and all proved about with TLAPS for every instance. All paths below are relative to the repository.

## 1. The system

### Where the difficulty is

The gateway and the agents share no memory; they meet in Firestore documents. Two
kinds of write exist in `shared/gcp_clients/firestore_repo.py`:

* **transactions**: `apply_reviewer_decision`, `claim_check`,
  `consume_/release_/grant_report_entitlement`, `claim_report`. They re-read and
  write atomically; in the models each is one action;
* **whole-document write-backs**: `upsert_check`, `upsert_tenant`,
  `upsert_document`, `update_document_fields`, `update_report_record`. A handler reads
  the document, works on its copy and later `set()`s all of it. Whatever anybody
  wrote in between is undone. In the models the read and the write are two actions.

A third, `touch_api_key`, is a field update that leaves the rest of its record alone.

Almost every hazard comes from mixing these on one document, from Cloud Tasks
delivering a task again (at least once, and after every answer that is not 2xx), and
from a handler that dies between two of its steps. The second concern is order:
of copy, record and delete in the scanner; of commit and audit row in a decision; of
upload, checksum and READY in a report; of charge and dispatch in a check request; of
object, record and audit row in a deletion; of account, claims and record of a member. Here
no transaction spans the steps, and where the code acts on a call that raised, the models
let it raise both before and after it had its effect.

### Inventory

| Component (source) | State it keeps | Operations | What makes it correct | Model |
|---|---|---|---|---|
| Gateway, upload (`apps/api-gateway/.../main.py`) | - | file to quarantine, record, SCAN task | nothing is readable before it is scanned | `ScanPipeline` |
| Scanner agent (`services/scanner-agent`) | `Document.scan_status`, references | SCANNING, engine, copy, CLEAN, delete, queue INGEST; reject | only cleared bytes reach the approved bucket; evidence is kept; CLEAN names a file that exists | `ScanPipeline` |
| Ingestion agent (`services/ingestion-agent`) | `Document.status`, fields | gate on CLEAN, extract, write back, fail | never fetches from quarantine | `ScanPipeline` |
| Compliance agent (`services/compliance-agent`) | `ComplianceCheck` | judge, store, audit | an uncertain result is escalated | `CheckReview` (its writes), `Assessment` (its verdicts and score) |
| Escalation service, reviewer endpoints | the check's decision | decide, claim | one reviewer decides, finally, and is the one audited | `CheckReview`, `EscalationDecision` |
| Gateway, comments and assignment | the check's comments, assignee | comment, assign | they do not disturb a decision | `CheckReview` |
| Report allowance (repo, `trigger_check`) | `Tenant` counts | charge, renew, release, grant | never more consumed than granted; charged what was used | `Entitlement` |
| Payments (`payment_routes.py`) | plan tier, allowance | confirm from callback, capture or webhook | a payment grants once | `Entitlement` |
| Tenant settings, status, jurisdiction | `Tenant` fields | read, edit, write back | they do not disturb allowance or suspension | `Entitlement` |
| Gateway, reports; platform console | `ReportRecord` | claim, queue, record a failure, regenerate | a report in progress is worked on | `Report` |
| Reporting agent (`services/reporting-agent`) | `ReportRecord`, files | generate, verify, READY, retry | READY names a verified file; every task gets there | `Report` |
| Orchestrator (`services/orchestrator`) | `Task` rows | create and dispatch, read-and-store transitions, inline handlers, callbacks | an answer is backed by work or a queued task; a refund means nothing was produced; a row that is settled stays, but for callbacks and threads one of whose calls raised | `TaskRows` |
| Audit logger (`shared/audit_logger`) | BigQuery rows | append with insertId | rows only of what happened | the rows of one check in `CheckReview`; of keys, tickets, deletions and plans in their modules |
| Cloud Tasks (external, `infra/terraform/main.tf`) | queue | deliver, retry 5 times | - | within each module |
| Remediation agent, language model client (`services/remediation-agent`, `shared/gemini_client`) | plan per check | ask, retry, repair, fall back, order, store | the plan is that of the check, worst items first | `Assessment` |
| Retention sweep (`shared/retention`) | deletes documents | list, object, record, audit row | nothing young is deleted, no deletion without evidence | `Retention` |
| Rate limiters (`rate_limit.py`) | bucket, cooldown | allow, record failure or success, Retry-After | bounded admission; a hint that suffices; never a lockout | `RateLimit` |
| Authentication, tenant-status cache, API keys (`shared/auth_middleware`, `composition.py`) | cache entry, key records | sign in, present a key, refuse the suspended, make and revoke keys | staleness within the TTL; revoked stays revoked | `Access` |
| Support tickets (`support_routes.py`) | `SupportTicket`, counter | open, reply and note (transaction), update (write-back) | no message is lost, no reply stays unseen, references are unique | `Support` |
| Accounts: signup, team, roles (`main.py`, `admin_routes.py`) | Firebase account and claims, `TenantUser` | create, invite, remove, change role, disable | account and record agree; somebody can manage | `Accounts` |
| Analytics, UI, rulesets, scripts | - | - | - | not modelled: reads, presentation, data |

`PROJECT.json` lists every component with its files, and under "hazards" each hazard
at the line where it bites and the properties that cover it.

How the parts call one another: the gateway uploads and queues SCAN; the scanner queues
INGEST; `trigger_check` charges the tenant and queues CHECK, which the compliance agent
takes only for a PROCESSED document; an escalated check waits for `decide_check`;
`create_report` queues REPORT, and a weekly workflow calls the reporting agent directly.
Each arrow is a task or an HTTP call that may be lost, repeated or late; there are no
locks besides Firestore's transactions and the limiters' own. Status callbacks have an
endpoint but no caller in the repository.

## 2. The modules

One document, check, tenant or report is enough in each module: ids are deterministic
(`uuid5`) or generated once, and records with different ids share nothing.

### CheckReview (with EscalationDecision)

`check` is the stored `ComplianceCheck`; `agent[a]` a running `run_compliance_check`;
`req[m]` the request a member has in flight, with the copy it read; `audit` the
`compliance.checked`, `check.approved` and `check.rejected` rows. `verdicts` and `commits`
are history: what each run concluded, which rulings committed.

| Action | Code |
|---|---|
| `CheckStart`, `CheckStore`, `CheckAudit`, `CheckFails` | `run_compliance_check`: guard, whole-record `upsert_check`, audit row, any exception or death |
| `DecideRead`, `DecideCommit`, `DecideConflict`, `DecideAudit` | `decide_check` → `apply_decision` → `apply_reviewer_decision`'s transaction, 409, audit row |
| `CommentRead/Write`, `AssignRead/Write` | `add_check_comment`, `assign_check`: read, change the copy, write it back |
| `Claim` | `claim_check`'s transaction |
| `RequestDies` | an exception (`AuditWriteError`, Firestore) or a dead instance |

The score and the verdict list become a choice between "escalated" and
"auto_approved". A row with the same event id as an earlier one is stored or dropped
(`Log`), because BigQuery's insertId window is best effort. `EscalationDecision` is the promise of
the human-in-the-loop path on its own: the agent concludes once, at most one reviewer
decides, and that is the last word. `CheckReview` maps `outcome` to the stored decision and
`by` to the stored reviewer.

### ScanPipeline (with DocumentScreening)

`doc` is the stored `Document` (scan status, status, where `storage_ref` and
`quarantine_ref` point), `blobs` the buckets that hold the file, `scanner[s]` and
`ingester[i]` running handlers with their copies, `scanTask` and `queued` the two tasks (a SCAN
task is "abandoned" when it was answered and a surplus delivery of it then died).
`cleared` is history: the engine has called these bytes clean.

| Action | Code |
|---|---|
| `UploadFile`, `UploadRecord`, `UploadDispatch`, `UploadDies` | `upload_document` |
| `ScanDeliver`, `ScanRedeliver` (both `ScanRead`) | a needed and a surplus delivery of SCAN; `scan_document`'s first read and early return |
| `PatchRead`, `PatchWrite`, `Resolve` | the two halves of `update_document_fields`; `_resolve` |
| `Examine`, `Copy`, `Delete`, `DispatchIngest` | download and engine, promotion copy (an upload that raises may have stored the file), best-effort delete, `_dispatch_ingest` |
| `ScanDies` | an exception (502) or a dead instance; a task still queued is delivered again, one already answered is not |
| `IngestRead`, `Extract`, `IngestWrite`, `IngestAudit`, `FailRead`, `FailWrite`, `IngestDies` | `ingest_document` and its failure path |
| `RetryExtraction` | the platform console's button |

`SourceRef` keeps the code's fallback to `storage_ref` when `quarantine_ref` is empty; the
race of section 6 lives in it. SCAN_TIMEOUT is handled by the code exactly as SCAN_FAILED
and is the same value here.

`DocumentScreening` is the trust boundary's promise on its own: the bytes are cleared, then
released to where workers read, then the record says CLEAN, and only then does a worker use
them; no step is skipped and no verdict or release taken back (a use may be followed by one that fails). `ScanPipeline` maps `verdict` to the recorded scan status,
`released` to the file being in the approved bucket and `used` to the status PROCESSED.

### Entitlement

`tenant` keeps granted, consumed, source, period and status; `request[r]`, `confirm[c]` and
`edit[w]` are running handlers. `grants`, `opening` and `drift` are history; `drift` records that
something other than a charge or its refund changed the count.

| Action | Code |
|---|---|
| `Charge`, `Refuse`, `Bypass` | `consume_report_entitlement` with the lazy renewal `Renewed`; 402; platform admin |
| `Dispatch`, `DispatchFails`, `Release`, `RequestDies` | `create_and_dispatch`, `release_report_entitlement` |
| `ConfirmRead`, `ConfirmWrite`, `Grant`, `ConfirmDies` | `_apply_payment`: read, write back the plan tier, grant in a transaction |
| `EditRead`, `EditWrite`, `EditDies` | notification and retention settings, jurisdiction (`Editors`); suspend and reactivate (`Operators`) |
| `PeriodEnds` | `entitlement_expires_at` has passed |

### Report (with ReportDelivery)

`record` is the stored `ReportRecord`, `stored` the files in the bucket, `queue` the number
of unanswered REPORT tasks, `req[q]` a gateway request, `worker[w]` a running
`run_report_workflow`. `orphaned` is history: one of the listed mishaps happened.

| Action | Code |
|---|---|
| `Claim`, `Dispatch`, `DispatchFails`, `RequestDies` | `create_report` around `claim_report` and `create_and_dispatch` |
| `Regenerate` | `platform_regenerate_report`: reset to QUEUED, dispatch, record neither task nor failure |
| `UpdateRead`, `UpdateWrite` | `update_report_record` from a request: the reset, the task_id stamp, FAILED |
| `Deliver`, `Redeliver`, `Direct` (all `Start`) | `/internal/report-task`, needed or not; `/internal/report` |
| `PatchRead`, `PatchWrite`, `Finish`, `Retry` | `update_report_record` from the workflow; 200; 502 |
| `GenerateReport`, `GenerateFails`, `Artefact`, `Verify` | `generate_report`; `_verify_artifact`, which takes the HTML when there is no PDF |
| `WorkerDies`, `GiveUp` | death; Cloud Tasks' max_attempts |

A file is stored or not: which upload it is of is left out, so the checksum a READY
record carries is not compared with the bytes of a later attempt.

`ReportDelivery` is what somebody who asks for a report is promised: a state ("none", "open",
"failed", "delivered"), whether anybody `owed` work on it, and whether a mishap happened. Whoever is
the last to leave the report leaves an outcome (`Settle`); nothing changes while nobody owes work, but
by being taken on, by a mishap, or by the same outcome said again (`Restate`); and what is delivered
can be downloaded. `Report` maps `owed` to `WorkedOn` and `lost` to `orphaned`.

### TaskRows

`row` is a `Task` document, `job[t]` the thread inside `create_and_dispatch`, with the row it read
while it is between the halves of `_transition`; `callback[b]` a status callback between its halves.
`onQueue`, `produced` and `charge` are what the outside has of the task; `faulted` is history: a
bookkeeping call for the task raised, or its thread died.

| Action | Code |
|---|---|
| `CreateRow`, `AuditCreated`, `DispatchInline`, `DispatchCloud` | `create_and_dispatch` and the two dispatchers; inline only INGEST and CHECK have handlers |
| `MarkRead`, `MarkWrite` | `_transition`; `AfterMark` and `Escape` say where the handler's control goes |
| `Work`, `Notify` | `handle_ingest`, `handle_check`: the work, and what may still raise beside it once it is stored |
| `Reread`, `ReleaseCharge` | the final `get_task`; `trigger_check`'s refund |
| `AgentWorks`, `CallbackRead`, `CallbackWrite`, `CallbackDies`, `ThreadDies` | delivery in the cloud; `/internal/tasks` callbacks; deaths |

A handler that fails marks its task failed and raises, so `create_and_dispatch` marks it failed once
more and raises in turn: that second mark is what lets a fault after success overwrite SUCCEEDED.

### Assessment

`check` and `plan` are the stored `ComplianceCheck` and `RemediationPlan` of one document, `call[r]` a run
of the agent. A reply of the model is a claim per rule: pass, fail, something that is no status, or
nothing. `cutShort` and `met` are history.

| Action | Code |
|---|---|
| `Begin`, `Judge`, `StoreCheck`, `AuditCheck` | `run_compliance_check` with `_build_verdicts`, `_reconcile_score` and the threshold |
| `TryAgain`, `CallFails` | `generate_json`: transient errors, repair of what was no JSON, giving up |
| `Plans`, `Answers`, `StorePlan`, `AuditPlan` | `build_remediation_plan`, `_collect_failures`, `_items_from_model`, `_fallback_items`, `order_items`, `_persist` |
| `RunDies` | an exception that escapes, a dead instance |

Items are identified with the rule they are about, so that the order of a list is what it keeps when
it is cut. Planner and checker each load the tenant and its ruleset: when the tenant has moved to another
jurisdiction in between, the plan is about the rules both have (`CommonRules`) and silent about the others.

### Retention

`record` and `object` are the documents that have one, `sweep[s]` a running `sweep_tenant` with its list,
`pipe[w]` a scanner or ingester that will store the record it read. `mishap` is history.

| Action | Code |
|---|---|
| `BeginSweep`, `ListStale` | the tenant's policy, then `list_documents_created_before` (limit first, age after) |
| `DeleteObject`, `DeleteRecord`, `AuditDeletion`, `SweepEnds`, `SweepDies` | the loop body, each call with three outcomes |
| `ReadSettings`, `StoreSettings` | `put_retention_settings` and the write-backs of the tenant record |
| `PipeReads`, `PipeWrites`, `Upload` | `upsert_document` by the pipeline; an upload |

### RateLimit

`bucket` and `backoff` are the two limiters' records for one key, `caller[c]` a thread with the clock reading
it took before the lock. Time is in ticks and tokens are counted in what a tick refills, so
the code's floats become integers without losing a comparison. `spent` and `window` observe.
`Allow`, `RetryAfter`, `BackoffAllow`, `RecordFailure`, `RecordSuccess` and `BackoffRetryAfter` are the methods;
`ReadClock` is the line before the lock; `Unrecorded` is a sign-up that raises what nobody handles, which
counts as neither failure nor success; `Tick` and `Watch` are time and the observer.

### Access

`standing` is the tenant's status in the store, `entry` the process's cache entry, `key` the key records,
`request[r]` a request on its way through authentication, `change[m]` a change in flight.
`PresentKey`, `TouchKey` and `SignIn` authenticate; `LookInCache`, `ReadStanding`, `ReadFails` and `FillCache` are
`_enforce_tenant_status` over `_register_tenant_status`, which stamps an entry with the time read *before* the
store was; `MintKey`, `ReadKey`, `StoreKey`, `AuditKey` the keys; `ReadForSwitch`, `ReadForEdit` and `StoreTenant` the
writes of the tenant record.

### Support

`ticket` are the stored tickets, `counter` the reference counter, `treq[p]` a request in flight, `trail`
the audit rows. `OpenNumber` and `StoreTicket` open a ticket; `ReplyScope` and `ReplyAppend` are a customer's reply,
`SupportReply` an operator's reply or note; `UpdateRead` and `StoreTicket` an operator's update; `Respond` is the
audit row and the answer. A ticket's `asked` is history: its status is one that an update asked for.

### Accounts

`account` is Firebase (external), `roster` the `TenantUser` records, `session` the role in a member's ID token,
`handler[h]` a request and what it still has to do. `Signup` and `Invite` go on to `SetClaims` and
`StoreRecord`; `Remove` to `DeleteAccount` and `StrikeRecord`; `ChangeRole` to `StoreRole` and `FollowClaims`;
`ChangeStatus` disables or restores. `torn` is history: a call about the member failed or died, or two requests
were about them at once.

### The other modules

`MCServices` puts the seven smaller modules side by side. They share no state and do not call each other as far
as they are modelled, so interleaving them would multiply states and show nothing: in each behaviour one
part works and the others rest. The other `MC*.tla` add what only TLC needs (symmetry). `*_proofs.tla` hold the theorems. Operators under
a comment "Fault" are plausible bugs put beside the definition they would change; nothing in the
specifications uses them. Each is recorded in `PROJECT.json` with the property that TLC
finds violated when it replaces the real definition.

## 3. The runs

| Run | Instance | What it shows |
|---|---|---|
| `review_full` | 2 agent runs on 2 workers, 2 reviewers, one of whom also comments and assigns | The stored decision is always one somebody made; reviewers rule on escalated runs only; the audit log has no ruling that did not commit; decisions, comments and assignments are lost only to a re-run or a stale write-back |
| `review_txn` | 1 agent run, 3 reviewers | the refinement to `EscalationDecision` |
| `scan_concurrent` | 2 scanners with overlapping deliveries, 1 ingester, 1 death, 2 surplus deliveries | no unscanned byte crosses the boundary or is used, CLEAN and the references agree, evidence is kept |
| `scan_sequential` | 1 scanner, 2 ingesters, 2 deaths, 2 surplus deliveries | the refinement to `DocumentScreening`, so that in particular CLEAN is final; CLEAN names an existing file; a queued scan settles the document, and keeps settling it, unless a surplus delivery dies after the task was answered |
| `entitlement` | 2 customers, 1 admin, 1 confirmer, 2 payments (one a subscription), 1 operator | never overspent; charges exact without drift; allowance and suspension lost only to write-backs |
| `report` | 1 request, 1 regeneration, 2 workers, 1 extra attempt, 1 failure | the refinement to `ReportDelivery`; READY is stored; stuck only by a mishap; READY lost only in the listed ways; a task leads to READY |
| `services` | see below | tickets lose messages only to an operator's update and wait for customers only when support spoke last or an operator asked for it; admission and Retry-After are bounded; stale answers about suspension are younger than the TTL; answers and refunds are backed; deletions are old enough and on the trail; account and record agree, and somebody can manage; checks and plans are sound |
| `review_rerun`, `scan_race`, `entitlement_bypass`, `payment_double`, `report_stuck` | minimal | the disagreements of section 6 |

Why the bounds are enough. Every property is about a pair of writers of one record and
the state between them, so two of each kind that can race with itself is the case that matters; a third
writer is there where it changes the outcome (the third reviewer of `review_txn`, the
admin beside two customers). Two agent runs give the one re-run. One
payment of each plan covers both branches of the grant; in `entitlement` the operator stands for all
handlers that read, edit and write back, being the one whose edit matters. One failure or death lets every
step fail once at every point with a complete retry after it; `scan_sequential` has two,
so that a retry may fail as well. `MaxAttempts = 1` in `report` is the code's 5 scaled to one
failure, so that both giving up and going on happen. Every other bound (`MaxRuns`, `MaxSurplus`, `MaxIngests`,
`MaxExtra`, `MaxConfirms`, `MaxOpening`, `MonthlyReports`) caps a count the code leaves open; the theorems need none of them
to be small.

`services` has, per part: two customers, an operator, two tickets and three messages (two replies around an
update and one more), updates that ask for no status or for waiting_for_user; two callers, a burst of 3 with cost 2 and seconds of 2 ticks (neither divides
the other, so that rounding matters), 4 ticks; for access once two sign-ins against one manager and once one request
against two managers, TTL 1 over 2 ticks; one task of each kind in each mode and one callback; two
documents, two sweeps, one pipeline step, policies below, at and above none-or-floor (0, 1, 2 with a
floor of 2) and a limit of 1 document; two addresses, two uids, two requests and an owner beside a reviewer;
two runs over a ruleset with one severe and one light rule, the light one shared with the other jurisdiction, a threshold of 60 and raw scores on both sides of it.
An upload, a run or an account is independent of the others in the code, so the second of each is there
to race the first. The theorems are for any value of the parts' constants.

Deadlock checking is off because every instance ends: once the bounded
requests and deliveries are spent the system rests, which is its normal state.

## 4. Fairness

Only two liveness properties are stated, and both under weak fairness alone. The smaller
modules state safety only: a sweep has no scheduler in the repository, callbacks no caller, and a
client need not wait or retry.

* `ScanPipeline!FairSpec`: `WF(Scan(s))`, a handler that is running takes its next step
  unless it dies (nothing in it waits for another handler, and a call that hangs ends
  with the request's timeout, which is a death), and
  `WF(ScanDeliver(s))`, Cloud Tasks retries whatever was not answered 2xx. The queue's
  max_attempts of 5 exceeds the 2 deaths of the run. Nothing is fair about uploads, deaths,
  surplus deliveries or ingestion.
* `Report!FairSpec`: the same two for `Work(w)` and `Deliver(w)`. That Cloud Tasks may give
  up is an action of the model (`GiveUp`); `TaskLeadsToReady` excepts it and the other mishaps through `orphaned`.

`ScanSettles` concludes "settled", not "clean": a failed engine is a recorded outcome. It starts over whenever the
task is queued or was answered, so that what a surplus delivery stirs up must settle again; the exception is a
surplus delivery that dies after the task was answered, which nobody repeats ("abandoned").

## 5. The theorems

All are of the form `Spec => ...` for any sets of workers, members, requests and payments,
any bounds, from the named ASSUMEs of the modules: bounds are naturals, the "nothing"
values are not records, requests of different kinds are disjoint, and (where
cardinalities are used) `Workers` and `Customers` are finite. Each module has one inductive
invariant (`IInv`, or `LimitInv`, `AccessInv`, `AssessmentInv`, `RetentionInv`, `TaskInv`, `TicketInv`, `AccountsInv`), and one lemma per kind of actor
that its steps keep it.

* **CheckReview_proofs.** `IInv` strengthens `StoredDecisionWasMade`, `OnlyEscalatedDecided`
  and `RowsAreOfCommits` with `RunsApart` (runs in progress have different numbers, and a run
  that has not stored has no verdict - otherwise a re-run could change the verdict an earlier
  record refers to), `CopiesWereStored` (a copy a request will write back satisfies the same
  provenance as the stored record) and `DecidedDidCommit` (a request about to write its row has committed).
  `DecisionIsFinal` and `Implements` hold under `SingleWriter`: nobody comments or assigns and
  the agent runs once. That condition is exactly what the finding on `DecisionFinal` lacks. Without it the
  three action properties say what remains: `WritesToTheCheck` lists what a step can do to a stored check that is
  not a blind write.
* **ScanPipeline_proofs.** The point is that a stale copy cannot lie: `SoundRecords` says what a
  record claims, stored or in anybody's hands, is true of `cleared`, and `cleared` never becomes
  false. `ScannersCleared`, `IngestersGated`, `RecordExists` and `BytesKept` carry it through the
  handlers' progress. The five safety theorems of `scan_concurrent` follow, with overlapping scans included.
  `ClearedFilesExist` and `CleanStaysClean` assume `OneAtATime` (the condition whose absence `scan_race` refutes):
  `Turns` says that the record is worked on by the scanner alone until it is CLEAN and by ingesters alone from
  then on, so that no stale copy meets a newer one and the file that is deleted is the quarantined one.
  Under the same condition `ScreeningIsKept` shows the refinement: `Screens` says what a step may do to
  record and buckets (registers, clears, releases, judges, uses, or leaves alone), one lemma per process shows its steps do one of
  these, and each is a step of `DocumentScreening`. `NotYetUsed` (what is not CLEAN was not processed) is needed for it.
  `ScreeningInOrder` then follows from the abstract steps alone.
* **Entitlement_proofs.** `NeverOverspent` is inductive only together with `CopiesBalanced`: a
  settings handler may undo charges, but what it writes back was itself balanced.
  `ChargesAreAccounted` counts the requests that hold a charge, so its steps are about the
  cardinality of `Paying`. The two action properties follow from what each step does to
  `granted` and `status`. `CustomersChargedExactly` and `GrantsAreOfConfirmations` are the other side of two findings:
  without platform admins and write-backs the count is exact, and a payment is granted at most once per confirmation.
  The second counts `Holders`, the confirmations of a payment that may still grant: grants and holders together
  never exceed the confirmations begun.
* **Report_proofs.** `ReadyIsStored` needs `CopiesStored` and `ReadyVerified` (what a request or
  a worker may still write is also true of the bucket) and `StuckOnlyByMishap` needs
  `TasksInHand`: the attempts that tasks own never outnumber the tasks on the queue, so a
  worker that answers leaves the rest of the queue for the others. `ReadyIsNotUndone` rests on
  `BeganUnready`: an attempt never starts from a READY record. `DeliveryIsKept` is the refinement; `Delivers` names
  what is left of the abstract step once its common part (`StepCommon`) is out of the way, and `OwedExists`
  (nobody works on a report without a record) keeps the abstract state from being worked on before it is there.
  `OnlyTheStampStrands` says that of all the mishaps the task_id stamp of the finding on `InFlightIsWorkedOn` is the only
  one that needs no failure, and `ReadyIsFinalAlone` that without requests and overlapping attempts READY is final.
* **RateLimit_proofs.** `AdmissionBound` is not inductive: a caller with an old reading takes tokens back (the elapsed time is
  negative) and winds `last` back, so that the interval is refilled again. `PaidFor` says why that
  balances: tokens in the bucket plus tokens handed out since the window opened never exceed the burst
  plus the time up to `last`; callers still waiting read the clock after the window opened
  (`ReadingsSound`), and `NeverOverdrawn` bounds what was taken back. `LimitPromises` adds that `\div` rounds the hint up.
* **Access_proofs.** `ReadingsTrueOnce`: what a thread or the cache holds was true at its stamp, because the
  stamp is taken before the store is read. `KeysInTransit`: a key being made is nobody else's, and a
  revocation about to be recorded is stored. `AccessIsSound` and `RefusalsAreFinal` follow.
* **Assessment_proofs.** `DecidedWell` carries the floors from the reply to the store; `CompanyKnown` and `ChecksStored` say that
  a run past its check owns the stored check unless it met another, and `PlansStored` the same of the plan.
* **Services_proofs.** Retention: `SweepsOldOnly` (whatever a sweep has in hand is older than the floor, and stays so as days
  pass) makes `RetentionHonest` inductive. Task rows: `QueuesInCloud`, `WorkKnown` (what is produced at each stage
  of the thread) and `RowsFollow` (a row whose calls never raised is not ahead of its thread) give `AnswersBacked`;
  `SettledRowsStay` follows with `RowsBegin` (until its handler runs, a row is as it was created), one case per action
  that writes a row.
  Support: `NumbersTaken` (a number in hand is nobody else's, and the counter is ahead of all) carries
  `ReferencesUnique` from the counter to the record, `RequestsKnow` says that whoever stores a ticket either opened it
  alone or holds a copy with its number, and `CopiesAnswered` that a copy is as honest about whose turn it is as the
  ticket. `TicketsAreSound` holds whatever statuses updates may ask for. Accounts: `StageOK` says, per stage of a request, what the two stores say of its member - for a member
  being created whatever happens, because nobody else can be at work on them; for the others until something is
  torn. `StoresAgree` is the case of a member without a request; `LastManagerKept` needs that a member without
  claims has none to lose and that a removal's author is not its target.

  Together: `PartsBehave` shows that a behaviour of `ServicesSpec` is, seen from each part, one of the part's own,
  so that `ServicesTyped` and `ServicesKeepPromises` (every property of the run `services`) follow from the parts'
  theorems, and the run checks nothing the theorems are not about.

Three theorem modules thus end in refinements, `Implements`, `ScreeningIsKept` and `DeliveryIsKept`. The first two hold under the
conditions named above, the third of the whole specification. For each of the five findings of section 6
there is a theorem that names what it takes: without re-runs and blind writers `DecisionIsFinal`, without overlapping
scans `ClearedFilesExist`, without platform admins and write-backs `CustomersChargedExactly`, for every further
grant a further confirmation `GrantsAreOfConfirmations`, and without failures nothing strands a report but the stamp
(`OnlyTheStampStrands`).

Only model-checked: the two liveness properties `ScanSettles` and `TaskLeadsToReady` (fairness and ENABLED are
outside the prover). Every other property of a passing run is the subject of a theorem.

## 6. Where the code and its words disagree

Five runs end in a counterexample; each quotes, in `PROJECT.json`, the line it contradicts.

* `review_rerun`: a second CHECK delivery rebuilds the record with `reviewer_id=None` over a
  committed ruling, although task delivery is said to be idempotent.
* `scan_race`: of two overlapping deliveries of SCAN one promotes (CLEAN and the approved reference, in one
  write), and the slower one's SCANNING mark, a read and a write, then overwrites CLEAN. A third delivery finds
  the document not CLEAN, takes its source from the promoted reference, and deletes the approved file: CLEAN without a file.
* `entitlement_bypass`: a platform admin's failed dispatch releases an allowance nobody charged.
* `payment_double`: callback and webhook of one payment each grant; the dedup key guards
  only the audit row.
* `report_stuck`: the task_id stamp writes back a record read before the worker finished;
  READY becomes QUEUED with no task left, and every further request is told to wait.

Others were met while modelling. They are in the models as the code has them, without a run of their own:

* A public reply to a ticket is stored, then answered 500 and never audited: `append_ticket_message` leaves a plain
  string where `_audit` and `_to_out` read `status.value`. `support_routes.py:177-178` says every ticket event lands in
  the trail, and `tests/unit/test_support.py:282` and `324` expect the reply's status; the fake at lines 79-84 hides it.
  `StatusIsEnum` has the code's behaviour, and no property promises the row: `RowsHaveTickets` is only the other direction.
* `signup` stores account, tenant and member and then builds its audit row from `req.jurisdiction`, which
  `SignupRequest` does not have: 500, and 409 on a retry. `tests/unit/test_api_gateway.py:224` expects the row.
* `change_user_status` says revoking refresh tokens makes disabling immediate; ID tokens are verified without
  `check_revoked`, so `session` outlives it (`ChangeStatus` leaves it alone).
* After a failure between the account and the record of a removal the record can never be removed; after one
  between account and claims the address can never be invited again; failed claims of a role change are never repaired.
* A rule the model says nothing of counts as uncertain, but the floors of a medium (25) or low (10) one stay under
  the threshold: such a check is approved. `NothingSlips` is about critical and high rules.
* A surplus delivery of SCAN to a document that failed its scan, or that overlaps, starts over; if it dies after
  the task was answered, the document stays SCANNING (`abandoned`).
* The inline dispatcher has no handler for SCAN and REPORT, so in that mode these tasks always fail; in the cloud
  no code reports a task's progress, so its row stays QUEUED.
* The docstring of `BackoffRateLimiter` doubles from the free attempts on; the code starts one power lower.
* The sweep's query cuts at its limit before it looks at the age: behind enough young documents old ones are
  never seen. A list that cannot be parsed aborts the sweep of every later tenant (not modelled).
* A derived fix list copies explanations longer than `RemediationItem.action` allows: building it raises and
  no plan is stored (`StorePlan` may cut a run short there).

## 7. Not modelled

Extraction, prompts, rendering and statistics (data no modelled property reads); confidences and wording of
verdicts and fixes; what validates and rejects an upload or a request; signatures of payments and tokens, hashing
of keys (their libraries' promises); emails; analytics, which
aggregates; the audit-writer service, which relays; `sweep_all_tenants`, a loop over what `Retention` models;
the loop of the weekly workflow; the two dashboards, rulesets, deployment, demonstration scripts. Listing and
detail endpoints only read. Two gateway processes differ only in their limiters and caches, which
are per process; one of each is modelled. `PROJECT.json` gives the reason per component.

## 8. Plan

Modules were written in the order CheckReview, ScanPipeline, Entitlement, Report (the product's promises about
decisions, trust, money and deliverables), then RateLimit, Access, Support, TaskRows, Retention, Accounts and
Assessment. Still to come:

1. Versions of the files in `Report` (a checksum of bytes that have been overwritten, a PDF left over from an
   earlier attempt), and whether a regeneration regenerates.
2. `TaskRows` composed with `Entitlement` for more than one request, and `Assessment`'s decision as the
   verdict of `CheckReview`.
