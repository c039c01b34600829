---------------------------- MODULE Report_proofs ----------------------------
(***************************************************************************)
(* Theorems about Report, for any sets of requests and workers and any     *)
(* numbers of deliveries, failures and deaths.                             *)
(***************************************************************************)
EXTENDS Report, FiniteSetTheorems, TLAPS

-----------------------------------------------------------------------------
(* The inductive invariant.                                                *)

(* Every attempt a task owns is of a task still on the queue.              *)
TasksInHand == Cardinality(InHand) <= queue

(* What a request may write back is true of the bucket ...                 *)
CopiesStored ==
  \A q \in Askers :
    req[q].copy # NoRecord /\ req[q].copy.status = "ready" => req[q].copy.file \in stored

(* ... and so is what a worker is about to declare READY.                  *)
ReadyVerified == \A w \in Workers : worker[w].at = "ready" => worker[w].file \in stored

(* A request that holds a copy found the record, and it is never removed.  *)
RecordFound == \A q \in Askers : req[q].copy # NoRecord => record # NoRecord

IInv ==
  /\ TypeOK /\ TasksInHand /\ ReadyIsStored /\ CopiesStored /\ ReadyVerified
  /\ RecordFound /\ StuckOnlyByMishap

(* The steps of one worker.                                                *)
WorkerStep(w) ==
  Deliver(w) \/ Redeliver(w) \/ Direct(w) \/ Work(w) \/ GenerateFails(w) \/ WorkerDies(w)

-----------------------------------------------------------------------------
(* Types.                                                                  *)

LEMMA Constants ==
  /\ IdleWorker \in Attempt
  /\ Claimed \in Record
  /\ NoRecord \notin Record
  /\ MaxExtra \in Nat /\ MaxFailures \in Nat
<1>1. NoRecord \notin Record /\ MaxExtra \in Nat /\ MaxFailures \in Nat
  BY ReportAssumption
<1>2. Claimed \in Record
  BY DEF Claimed, Record, Statuses, InFlight
<1>3. IdleWorker \in Attempt
  BY DEF IdleWorker, Attempt, Patching, Files
<1> QED
  BY <1>1, <1>2, <1>3

LEMMA FailedType == ASSUME TypeOK, Failed PROVE failures' \in 0..MaxFailures
BY Constants DEF TypeOK, Failed

LEMMA MishapType == ASSUME TypeOK, NEW b, Mishap(b) PROVE orphaned' \in BOOLEAN
BY DEF TypeOK, Mishap

LEMMA PatchedType ==
  ASSUME NEW w \in Attempt, w.at \in Patching, w.copy # NoRecord
  PROVE  Patched(w) \in Record
<1>1. w.copy \in Record /\ w.file \in Files
  BY DEF Attempt
<1>2. w.at \in Statuses
  BY DEF Patching, Statuses, InFlight
<1> QED
  BY <1>1, <1>2 DEF Patched, Record, Statuses

(* The attempts in hand are finitely many.                                 *)
LEMMA InHandFinite == IsFiniteSet(InHand) /\ Cardinality(InHand) \in Nat
<1>1. IsFiniteSet(Workers) /\ InHand \in SUBSET Workers
  BY ReportAssumption DEF InHand
<1>2. IsFiniteSet(InHand)
  BY <1>1, FS_Subset
<1> QED
  BY <1>2, FS_CardinalityType

(* A step that puts no further attempt in hand and takes no task off the   *)
(* queue keeps the count.                                                  *)
LEMMA FewerInHand ==
  ASSUME TypeOK, TasksInHand, InHand' \subseteq InHand, queue' \in Nat, queue' >= queue
  PROVE  TasksInHand'
<1> DEFINE H == InHand'
<1>1. H \in SUBSET InHand
  OBVIOUS
<1>2. Cardinality(H) <= Cardinality(InHand) /\ IsFiniteSet(H)
  BY <1>1, InHandFinite, FS_Subset
<1>3. Cardinality(H) \in Nat
  BY <1>2, FS_CardinalityType
<1>4. Cardinality(H) <= queue'
  BY <1>2, <1>3, InHandFinite DEF TypeOK, TasksInHand
<1> QED
  BY <1>4 DEF TasksInHand

(* An attempt that a task owns has a task on the queue.                    *)
LEMMA OwnTask ==
  ASSUME TypeOK, TasksInHand, NEW w \in InHand
  PROVE  queue >= 1
<1>1. Cardinality(InHand) # 0
  BY InHandFinite, FS_EmptySet
<1> QED
  BY <1>1, InHandFinite DEF TasksInHand, TypeOK

(* A worker that goes on stays in hand if it was ...                       *)
LEMMA StaysInHand ==
  ASSUME TypeOK, NEW w \in Workers, NEW n, worker' = [worker EXCEPT ![w] = n],
         worker[w].at # "idle", n.at # "idle", n.kind = worker[w].kind
  PROVE  InHand' = InHand
BY DEF InHand, TypeOK

(* ... and one that ends leaves.                                           *)
LEMMA LeavesHand ==
  ASSUME TypeOK, NEW w \in Workers, worker' = [worker EXCEPT ![w] = IdleWorker]
  PROVE  InHand' = InHand \ {w}
BY DEF InHand, TypeOK, IdleWorker

-----------------------------------------------------------------------------
(* The gateway's steps.                                                    *)

LEMMA RequestKeeps ==
  ASSUME IInv, NEW q \in Askers, Request(q)
  PROVE  IInv'
<1> USE DEF IInv
<1>1. UNCHANGED <<worker, stored>> /\ extra' \in 0..MaxExtra
  BY Constants DEF Request, Claim, Regenerate, Dispatch, DispatchFails, UpdateRead, UpdateWrite, RequestDies,
    TypeOK
<1>2. queue' \in Nat /\ queue' >= queue
  BY DEF Request, Claim, Regenerate, Dispatch, DispatchFails, UpdateRead, UpdateWrite, RequestDies, TypeOK
<1>3. PICK a \in Asking : req' = [req EXCEPT ![q] = a] /\ a.copy \in {NoRecord, record}
  BY Constants DEF Request, Claim, Regenerate, Dispatch, DispatchFails, UpdateRead, UpdateWrite,
    RequestDies, Ask, TypeOK, Asking, Updating
<1>4. req[q] \in Asking /\ req'[q] = a /\ req' \in [Askers -> Asking]
  BY <1>3 DEF TypeOK
<1>5. \/ record' = record
      \/ record = NoRecord /\ record' = Claimed /\ a.at = "claimed"
      \/ UpdateWrite(q)
  BY <1>4 DEF Request, Claim, Regenerate, Dispatch, DispatchFails, UpdateRead, RequestDies, Ask
<1>6. ASSUME UpdateWrite(q)
      PROVE  /\ record' \in Record
             /\ record'.status = "ready" => record'.file \in stored
  <2>1. req[q].copy \in Record
    BY <1>4, <1>6 DEF Asking, UpdateWrite
  <2>2. CASE req[q].at = "stamp"
    BY <2>1, <2>2, <1>6 DEF UpdateWrite, Updated, CopiesStored
  <2>3. CASE req[q].at # "stamp"
    <3>1. PICK status \in {"failed", "queued"} : record' = [req[q].copy EXCEPT !.status = status]
      BY <2>3, <1>6 DEF UpdateWrite, Updated
    <3> QED
      BY <2>1, <3>1 DEF Record, Statuses, InFlight
  <2> QED
    BY <2>2, <2>3
<1>7. record' \in Record \cup {NoRecord} /\ (record # NoRecord => record' # NoRecord)
  BY <1>5, <1>6, Constants DEF TypeOK
<1>8. failures' \in 0..MaxFailures
  BY FailedType DEF Request, Claim, Regenerate, Dispatch, DispatchFails, UpdateRead, UpdateWrite,
    RequestDies, TypeOK
<1>9. orphaned' \in BOOLEAN
  <2>1. orphaned' = orphaned \/ \E b : Mishap(b)
    BY DEF Request, Claim, Regenerate, Dispatch, DispatchFails, UpdateRead, UpdateWrite,
      RequestDies
  <2> QED
    BY <2>1, MishapType DEF TypeOK
<1>10. TypeOK'
  BY <1>1, <1>2, <1>4, <1>7, <1>8, <1>9 DEF TypeOK
<1>11. TasksInHand'
  BY <1>1, <1>2, FewerInHand DEF InHand
<1>12. ReadyIsStored'
  BY <1>1, <1>5, <1>6 DEF ReadyIsStored, Ready, Claimed
<1>13. CopiesStored' /\ RecordFound'
  BY <1>1, <1>3, <1>7 DEF CopiesStored, RecordFound, ReadyIsStored, Ready, TypeOK
<1>14. ReadyVerified'
  BY <1>1 DEF ReadyVerified
<1>15. StuckOnlyByMishap'
  <2> SUFFICES ASSUME ~orphaned', record' # NoRecord, record'.status \in InFlight
               PROVE  WorkedOn'
    BY DEF StuckOnlyByMishap, InFlightIsWorkedOn
  <2>1. ASSUME WorkedOn, req[q].at \notin {"claimed", "fail"}
        PROVE  WorkedOn'
    BY <2>1, <1>1, <1>2, <1>3 DEF WorkedOn, TypeOK
  <2>2. ASSUME ~orphaned, record # NoRecord, record.status \in InFlight
        PROVE  WorkedOn
    BY <2>2 DEF StuckOnlyByMishap, InFlightIsWorkedOn
  <2>3. ~orphaned
    BY DEF Request, Claim, Regenerate, Dispatch, DispatchFails, UpdateRead, UpdateWrite, RequestDies,
      Mishap
  <2>4. CASE Claim(q)
    <3>1. CASE record' = record
      BY <3>1, <2>1, <2>2, <2>3, <2>4 DEF Claim
    <3>2. CASE record' # record
      BY <3>2, <2>4, <1>4 DEF Claim, Ask, WorkedOn, TypeOK
    <3> QED
      BY <3>1, <3>2
  <2>10. CASE Regenerate(q)
    <3>1. record' = record /\ req[q].at = "new"
      BY <2>10 DEF Regenerate
    <3> QED
      BY <3>1, <2>1, <2>2, <2>3
  <2>5. CASE Dispatch(q)
    BY <2>5 DEF Dispatch, WorkedOn, TypeOK
  <2>6. CASE DispatchFails(q)
    <3>1. q \in Requesters
      BY <2>6 DEF DispatchFails, Mishap, Askers
    <3> QED
      BY <2>6, <3>1, <1>4 DEF DispatchFails, Ask, WorkedOn, TypeOK
  <2>7. CASE UpdateRead(q)
    <3>1. record' = record /\ req'[q].at = req[q].at
      BY <2>7 DEF UpdateRead, Ask, TypeOK
    <3>2. CASE req[q].at = "fail"
      BY <3>1, <3>2 DEF WorkedOn
    <3>3. CASE req[q].at # "fail"
      BY <3>1, <3>3, <2>7, <2>1, <2>2, <2>3 DEF UpdateRead, Updating
    <3> QED
      BY <3>2, <3>3
  <2>8. CASE UpdateWrite(q)
    <3>1. req[q].copy \in Record /\ record # NoRecord
      BY <1>4, <2>8 DEF Asking, UpdateWrite, RecordFound
    <3>2. req[q].at # "fail"
      <4>1. "failed" \notin InFlight
        BY DEF InFlight
      <4>2. req[q].at = "fail" => record'.status = "failed"
        BY <2>8, <3>1 DEF UpdateWrite, Updated, Record
      <4> QED
        BY <4>1, <4>2
    <3>3. CASE req[q].at = "stamp"
      <4>1. record' = req[q].copy
        BY <2>8, <3>3 DEF UpdateWrite, Updated
      <4>2. req[q].copy.status = record.status
        BY <2>8, <3>3 DEF UpdateWrite, Mishap
      <4> QED
        BY <3>1, <3>3, <4>1, <4>2, <2>1, <2>2, <2>3
    <3>4. CASE req[q].at = "reset"
      BY <2>8, <3>4, <1>4 DEF UpdateWrite, Ask, WorkedOn, TypeOK
    <3> QED
      BY <3>2, <3>3, <3>4, <2>8 DEF UpdateWrite, Updating
  <2>9. CASE RequestDies(q)
    <3>1. req[q].at \in {"stamp", "reset"} /\ record' = record
      BY <2>9 DEF RequestDies, Mishap, Updating
    <3> QED
      BY <3>1, <2>1, <2>2, <2>3
  <2> QED
    BY <2>4, <2>5, <2>6, <2>7, <2>8, <2>9, <2>10 DEF Request
<1> QED
  BY <1>10, <1>11, <1>12, <1>13, <1>14, <1>15

-----------------------------------------------------------------------------
(* The workers' steps.                                                     *)

(* What every step of a worker leaves alone, and what it does to its own   *)
(* state and the record.                                                   *)
LEMMA WorkerFrame ==
  ASSUME TypeOK, NEW w \in Workers, WorkerStep(w)
  PROVE  /\ req' = req
         /\ stored \subseteq stored' /\ stored' \subseteq Files
         /\ failures' \in 0..MaxFailures /\ extra' \in 0..MaxExtra
         /\ orphaned' \in BOOLEAN
         /\ record' \in Record \cup {NoRecord}
         /\ record # NoRecord => record' # NoRecord
         /\ \E n \in Attempt : worker' = [worker EXCEPT ![w] = n]
<1> DEFINE Steps == Deliver(w) \/ Redeliver(w) \/ Direct(w) \/ PatchRead(w) \/ PatchWrite(w)
                    \/ GenerateReport(w) \/ Verify(w) \/ Finish(w) \/ Retry(w)
                    \/ GenerateFails(w) \/ WorkerDies(w)
<1>1. Steps
  BY DEF WorkerStep, Work
<1>2. req' = req
  BY <1>1 DEF Deliver, Redeliver, Direct, PatchRead, PatchWrite, GenerateReport, Verify,
    Finish, Retry, GenerateFails, WorkerDies
<1>3. stored \subseteq stored' /\ stored' \subseteq Files
  BY <1>1 DEF Deliver, Redeliver, Direct, PatchRead, PatchWrite, GenerateReport, Verify,
    Finish, Retry, GenerateFails, WorkerDies, TypeOK, Files
<1>4. failures' \in 0..MaxFailures
  BY <1>1, FailedType DEF Deliver, Redeliver, Direct, PatchRead, PatchWrite,
    GenerateReport, Verify, Finish, Retry, GenerateFails, WorkerDies, TypeOK
<1>5. extra' \in 0..MaxExtra
  BY <1>1, Constants DEF Deliver, Redeliver, Direct, PatchRead, PatchWrite,
    GenerateReport, Verify, Finish, Retry, GenerateFails, WorkerDies, TypeOK
<1>6. orphaned' \in BOOLEAN
  BY <1>1, MishapType DEF Deliver, Redeliver, Direct, PatchRead, PatchWrite,
    GenerateReport, Verify, Finish, Retry, GenerateFails, WorkerDies, Dead, TypeOK
<1>7. worker[w] \in Attempt
  BY DEF TypeOK
<1>8. record' \in Record \cup {NoRecord} /\ (record # NoRecord => record' # NoRecord)
  <2>1. ASSUME worker[w].at \in Patching, worker[w].copy # NoRecord,
               record' = Patched(worker[w])
        PROVE  record' \in Record
    BY <2>1, <1>7, PatchedType
  <2>2. CASE record' = record
    BY <2>2 DEF TypeOK
  <2>3. CASE Direct(w)
    BY <2>3, Constants DEF Direct, TypeOK
  <2>4. CASE PatchWrite(w) \/ Finish(w) \/ Retry(w)
    BY <2>1, <2>4, Constants DEF PatchWrite, Finish, Retry, Following, Patching
  <2> QED
    BY <1>1, <2>2, <2>3, <2>4 DEF Deliver, Redeliver, PatchRead, GenerateReport, Verify,
      GenerateFails, WorkerDies
<1>9. \E n \in Attempt : worker' = [worker EXCEPT ![w] = n]
  <2>1. ASSUME NEW kind \in {"task", "extra"}, NEW r, Start(w, kind, r)
        PROVE  \E n \in Attempt : worker' = [worker EXCEPT ![w] = n]
    <3> DEFINE n == [IdleWorker EXCEPT !.at = "generating", !.kind = kind,
                                       !.sawReady = (r.status = "ready")]
    <3>1. n \in Attempt
      BY DEF IdleWorker, Attempt, Patching, Files
    <3>2. CASE AlreadyReady(r)
      BY <2>1, <3>2, <1>7 DEF Start
    <3>3. CASE ~AlreadyReady(r)
      BY <2>1, <3>1, <3>3 DEF Start
    <3> QED
      BY <3>2, <3>3
  <2>2. CASE Deliver(w) \/ Redeliver(w) \/ Direct(w)
    BY <2>1, <2>2 DEF Deliver, Redeliver, Direct
  <2>3. CASE Finish(w) \/ Retry(w) \/ WorkerDies(w)
    BY <2>3, Constants DEF Finish, Retry, WorkerDies, Dead
  <2>4. CASE PatchRead(w)
    <3>1. [worker[w] EXCEPT !.copy = record] \in Attempt
      BY <1>7 DEF Attempt, TypeOK
    <3> QED
      BY <2>4, <3>1 DEF PatchRead
  <2>5. CASE PatchWrite(w)
    <3>1. Following[worker[w].at] \in {"generate", "persisting", "verifying", "verify"}
      BY <2>5 DEF PatchWrite, Following
    <3>2. [worker[w] EXCEPT !.at = Following[worker[w].at], !.copy = NoRecord] \in Attempt
      BY <3>1, <1>7 DEF Attempt, Patching
    <3> QED
      BY <2>5, <3>2 DEF PatchWrite
  <2>6. CASE GenerateReport(w)
    <3>1. \A file \in Files :
            [worker[w] EXCEPT !.at = "validating", !.file = file] \in Attempt
      BY <1>7 DEF Attempt, Patching
    <3> QED
      BY <2>6, <3>1 DEF GenerateReport, Artefact, Files
  <2>7. CASE Verify(w) \/ GenerateFails(w)
    <3>1. \A at \in {"ready", "retrying"} : [worker[w] EXCEPT !.at = at] \in Attempt
      BY <1>7 DEF Attempt, Patching
    <3> QED
      BY <2>7, <3>1, Constants DEF Verify, GenerateFails, Dead
  <2> QED
    BY <1>1, <2>2, <2>3, <2>4, <2>5, <2>6, <2>7
<1> QED
  BY <1>2, <1>3, <1>4, <1>5, <1>6, <1>8, <1>9

(* A step by which the worker starts an attempt, or finds the report READY.*)
LEMMA StartKeeps ==
  ASSUME IInv, NEW w \in Workers, Deliver(w) \/ Redeliver(w) \/ Direct(w)
  PROVE  queue' \in Nat /\ TasksInHand' /\ StuckOnlyByMishap'
<1> USE DEF IInv
<1>1. orphaned' = orphaned /\ worker[w].at = "idle"
  BY DEF Deliver, Redeliver, Direct
<1>2. PICK kind \in {"task", "extra"}, r \in {record, record'} :
        /\ Start(w, kind, r)
        /\ kind = "task" => queue > Cardinality(InHand)
        /\ queue' = IF kind = "task" /\ AlreadyReady(r) THEN queue - 1 ELSE queue
        /\ record' = record \/ (record' = Claimed /\ r = Claimed)
  BY DEF Deliver, Redeliver, Direct, Answered
<1>3. CASE AlreadyReady(r)
  <2>1. record' = record /\ r = record
    BY <1>2, <1>3 DEF AlreadyReady, Claimed
  <2>2. worker' = worker
    BY <1>2, <1>3 DEF Start, TypeOK
  <2>3. queue' \in Nat /\ Cardinality(InHand) <= queue'
    BY <1>2, <1>3, InHandFinite DEF TasksInHand, TypeOK
  <2>4. TasksInHand'
    BY <2>2, <2>3 DEF TasksInHand, InHand
  <2>5. StuckOnlyByMishap'
    BY <2>1, <1>3 DEF StuckOnlyByMishap, InFlightIsWorkedOn, AlreadyReady, InFlight
  <2> QED
    BY <2>3, <2>4, <2>5
<1>4. CASE ~AlreadyReady(r)
  <2>1. worker'[w].at = "generating" /\ worker'[w].kind = kind
        /\ \A v \in Workers \ {w} : worker'[v] = worker[v]
    BY <1>2, <1>4 DEF Start, TypeOK, IdleWorker
  <2>2. queue' = queue /\ queue' \in Nat
    BY <1>2, <1>4 DEF TypeOK
  <2>3. TasksInHand'
    <3>1. CASE kind = "task"
      <4>1. InHand' = InHand \cup {w} /\ w \notin InHand
        BY <2>1, <1>1, <3>1 DEF InHand
      <4>2. Cardinality(InHand \cup {w}) = Cardinality(InHand) + 1
        BY <4>1, InHandFinite, FS_AddElement
      <4>3. Cardinality(InHand \cup {w}) <= queue'
        BY <4>2, <2>2, <1>2, <3>1, InHandFinite DEF TypeOK
      <4> QED
        BY <4>1, <4>3 DEF TasksInHand
    <3>2. CASE kind = "extra"
      <4>1. InHand' \subseteq InHand
        BY <2>1, <1>1, <3>2 DEF InHand
      <4> QED
        BY <4>1, <2>2, FewerInHand DEF TypeOK
    <3> QED
      BY <3>1, <3>2
  <2>4. WorkedOn'
    BY <2>1 DEF WorkedOn
  <2> QED
    BY <2>2, <2>3, <2>4 DEF StuckOnlyByMishap, InFlightIsWorkedOn
<1> QED
  BY <1>3, <1>4

(* A step of a worker that goes on.                                        *)
LEMMA GoOnKeeps ==
  ASSUME IInv, NEW w \in Workers,
         \/ PatchRead(w) \/ PatchWrite(w) \/ GenerateReport(w) \/ Verify(w)
         \/ GenerateFails(w) /\ ~Dead(w)
  PROVE  queue' \in Nat /\ TasksInHand' /\ StuckOnlyByMishap'
<1> USE DEF IInv
<1>1. queue' = queue /\ queue' \in Nat
  BY DEF PatchRead, PatchWrite, GenerateReport, Verify, GenerateFails, TypeOK
<1>2. worker[w] \in Attempt /\ worker[w].at # "idle"
  BY DEF PatchRead, PatchWrite, GenerateReport, Verify, GenerateFails, TypeOK, Patching,
    Following
<1>3. PICK n : worker' = [worker EXCEPT ![w] = n] /\ n.at # "idle" /\ n.kind = worker[w].kind
  <2>1. CASE PatchRead(w)
    <3>1. LET n == [worker[w] EXCEPT !.copy = record]
          IN  worker' = [worker EXCEPT ![w] = n] /\ n.at # "idle" /\ n.kind = worker[w].kind
      BY <2>1, <1>2 DEF PatchRead, Attempt
    <3> QED
      BY <3>1
  <2>2. CASE PatchWrite(w)
    <3>1. Following[worker[w].at] # "idle"
      BY <2>2 DEF PatchWrite, Following
    <3>2. LET n == [worker[w] EXCEPT !.at = Following[worker[w].at], !.copy = NoRecord]
          IN  worker' = [worker EXCEPT ![w] = n] /\ n.at # "idle" /\ n.kind = worker[w].kind
      BY <2>2, <3>1, <1>2 DEF PatchWrite, Attempt
    <3> QED
      BY <3>2
  <2>3. CASE GenerateReport(w)
    <3>1. PICK file \in Files :
            worker' = [worker EXCEPT ![w].at = "validating", ![w].file = file]
      BY <2>3 DEF GenerateReport, Artefact, Files
    <3>2. LET n == [worker[w] EXCEPT !.at = "validating", !.file = file]
          IN  worker' = [worker EXCEPT ![w] = n] /\ n.at # "idle" /\ n.kind = worker[w].kind
      BY <3>1, <1>2 DEF Attempt
    <3> QED
      BY <3>2
  <2>4. CASE Verify(w)
    BY <2>4, <1>2 DEF Verify, Attempt
  <2>5. CASE GenerateFails(w) /\ ~Dead(w)
    BY <2>5, <1>2 DEF GenerateFails, Attempt
  <2> QED
    BY <2>1, <2>2, <2>3, <2>4, <2>5
<1>4. TasksInHand'
  <2>1. InHand' = InHand
    BY <1>2, <1>3, StaysInHand
  <2> QED
    BY <2>1, <1>1, FewerInHand DEF TypeOK
<1>5. WorkedOn'
  BY <1>3 DEF WorkedOn, TypeOK
<1> QED
  BY <1>1, <1>4, <1>5 DEF StuckOnlyByMishap, InFlightIsWorkedOn

(* A step that ends an attempt.                                            *)
LEMMA EndKeeps ==
  ASSUME IInv, NEW w \in Workers,
         \/ Finish(w) \/ Retry(w) \/ WorkerDies(w)
         \/ GenerateFails(w) /\ Dead(w)
  PROVE  queue' \in Nat /\ TasksInHand' /\ StuckOnlyByMishap'
<1> USE DEF IInv
<1>1. worker[w] \in Attempt /\ worker[w].at # "idle"
  BY DEF Finish, Retry, WorkerDies, GenerateFails, TypeOK
<1>2. worker' = [worker EXCEPT ![w] = IdleWorker]
  BY DEF Finish, Retry, WorkerDies, Dead
<1>3. InHand' = InHand \ {w}
  BY <1>2, LeavesHand
<1>4. w \in InHand <=> worker[w].kind = "task"
  BY <1>1 DEF InHand
<1>5. \/ queue' = queue
      \/ Finish(w) /\ (queue' = IF w \in InHand THEN queue - 1 ELSE queue)
  BY <1>4 DEF Finish, Retry, WorkerDies, GenerateFails, Answered
<1>6. queue' \in Nat
  BY <1>5, OwnTask DEF TypeOK
<1>7. TasksInHand'
  <2>1. CASE queue' = queue
    BY <2>1, <1>3, <1>6, FewerInHand DEF TypeOK
  <2>2. CASE w \in InHand /\ queue' = queue - 1
    <3>1. Cardinality(InHand \ {w}) = Cardinality(InHand) - 1
      BY <2>2, InHandFinite, FS_RemoveElement
    <3>2. Cardinality(InHand \ {w}) <= queue'
      BY <3>1, <2>2, InHandFinite DEF TasksInHand, TypeOK
    <3> QED
      BY <3>2, <1>3 DEF TasksInHand
  <2> QED
    BY <2>1, <2>2, <1>5
<1>8. StuckOnlyByMishap'
  <2>1. CASE Finish(w) \/ Retry(w)
    <3>1. worker[w].at \in {"ready", "retrying"} /\ record' = Patched(worker[w])
      BY <2>1 DEF Finish, Retry
    <3>2. worker[w].copy \in Record
      BY <2>1, <1>1 DEF Finish, Retry, Attempt
    <3>3. record'.status \in {"ready", "retrying"}
      BY <3>1, <3>2 DEF Patched, Record
    <3> QED
      BY <3>3 DEF StuckOnlyByMishap, InFlightIsWorkedOn, InFlight
  <2>2. CASE Dead(w) /\ queue' = queue
    <3>1. CASE worker[w].kind = "task"
      <4>1. queue' > 0
        BY <2>2, <3>1, <1>4, OwnTask DEF TypeOK
      <4> QED
        BY <4>1 DEF StuckOnlyByMishap, InFlightIsWorkedOn, WorkedOn
    <3>2. CASE worker[w].kind # "task"
      BY <2>2, <3>2 DEF Dead, Mishap, StuckOnlyByMishap
    <3> QED
      BY <3>1, <3>2
  <2> QED
    BY <2>1, <2>2 DEF WorkerDies, GenerateFails
<1> QED
  BY <1>6, <1>7, <1>8

LEMMA WorkerKeeps ==
  ASSUME IInv, NEW w \in Workers, WorkerStep(w)
  PROVE  IInv'
<1> USE DEF IInv
<1>1. queue' \in Nat /\ TasksInHand' /\ StuckOnlyByMishap'
  BY StartKeeps, GoOnKeeps, EndKeeps DEF WorkerStep, Work, WorkerDies
<1>2. PICK n \in Attempt : worker' = [worker EXCEPT ![w] = n]
  BY WorkerFrame
<1>3. worker' \in [Workers -> Attempt] /\ worker'[w] = n
      /\ \A v \in Workers \ {w} : worker'[v] = worker[v]
  BY <1>2 DEF TypeOK
<1>4. TypeOK'
  BY <1>1, <1>3, WorkerFrame DEF TypeOK
<1>5. CopiesStored' /\ RecordFound'
  BY WorkerFrame DEF CopiesStored, RecordFound
<1>6. ReadyVerified'
  <2>1. worker'[w].at = "ready" => worker'[w].file \in stored
    <3>1. worker[w] \in Attempt
      BY DEF TypeOK
    <3>2. CASE Deliver(w) \/ Redeliver(w) \/ Direct(w)
      BY <3>2, <3>1 DEF Deliver, Redeliver, Direct, Start, IdleWorker, TypeOK
    <3>3. CASE PatchRead(w)
      BY <3>3, <3>1 DEF PatchRead, ReadyVerified, Attempt, TypeOK
    <3>4. CASE PatchWrite(w)
      BY <3>4, <3>1 DEF PatchWrite, Following, Attempt, TypeOK
    <3>5. CASE GenerateReport(w)
      BY <3>5, <3>1 DEF GenerateReport, Attempt, TypeOK
    <3>6. CASE Verify(w)
      BY <3>6, <3>1 DEF Verify, Attempt, TypeOK
    <3>7. CASE Finish(w) \/ Retry(w) \/ WorkerDies(w) \/ GenerateFails(w)
      BY <3>7, <3>1 DEF Finish, Retry, WorkerDies, GenerateFails, Dead, IdleWorker,
        Attempt, TypeOK
    <3> QED
      BY <3>2, <3>3, <3>4, <3>5, <3>6, <3>7 DEF WorkerStep, Work
  <2> QED
    BY <2>1, <1>3, WorkerFrame DEF ReadyVerified
<1>7. ReadyIsStored'
  <2>1. worker[w] \in Attempt
    BY DEF TypeOK
  <2>2. \/ record' = record \/ record' = Claimed
        \/ worker[w].at \in Patching /\ worker[w].copy # NoRecord
           /\ record' = Patched(worker[w])
    BY DEF WorkerStep, Work, Deliver, Redeliver, Direct, PatchRead, PatchWrite,
      GenerateReport, Verify, Finish, Retry, WorkerDies, GenerateFails, Following, Patching
  <2>3. CASE record' = record \/ record' = Claimed
    BY <2>3, WorkerFrame DEF ReadyIsStored, Ready, Claimed
  <2>4. CASE worker[w].at \in Patching /\ worker[w].copy # NoRecord
             /\ record' = Patched(worker[w])
    <3>1. CASE worker[w].at = "ready"
      BY <2>4, <3>1, WorkerFrame DEF ReadyVerified, ReadyIsStored, Ready, Patched
    <3>2. CASE worker[w].at # "ready"
      <4>1. worker[w].copy \in Record
        BY <2>4, <2>1 DEF Attempt
      <4>2. record'.status = worker[w].at
        BY <2>4, <3>2, <4>1 DEF Patched, Record
      <4> QED
        BY <4>2, <3>2 DEF ReadyIsStored, Ready
    <3> QED
      BY <3>1, <3>2
  <2> QED
    BY <2>2, <2>3, <2>4
<1> QED
  BY <1>1, <1>4, <1>5, <1>6, <1>7

-----------------------------------------------------------------------------
LEMMA InitInv == Init => IInv
<1> SUFFICES ASSUME Init PROVE IInv
  OBVIOUS
<1>1. TypeOK
  <2>1. req \in [Askers -> Asking] /\ worker \in [Workers -> Attempt]
    BY Constants DEF Init, Asking
  <2>2. failures \in 0..MaxFailures /\ extra \in 0..MaxExtra
    BY Constants DEF Init
  <2>3. orphaned \in BOOLEAN
    BY DEF Init
  <2> QED
    BY <2>1, <2>2, <2>3 DEF Init, TypeOK
<1>2. TasksInHand
  <2>1. InHand = {}
    BY DEF Init, InHand, IdleWorker
  <2> QED
    BY <2>1, FS_EmptySet DEF Init, TasksInHand
<1>3. ReadyIsStored /\ CopiesStored /\ ReadyVerified /\ RecordFound
  BY DEF Init, ReadyIsStored, Ready, CopiesStored, ReadyVerified, RecordFound, IdleWorker
<1>4. StuckOnlyByMishap
  BY DEF Init, StuckOnlyByMishap, InFlightIsWorkedOn
<1> QED
  BY <1>1, <1>2, <1>3, <1>4 DEF IInv

LEMMA StepInv == IInv /\ [Next]_vars => IInv'
<1> SUFFICES ASSUME IInv, [Next]_vars PROVE IInv'
  OBVIOUS
<1>1. CASE \E q \in Askers : Request(q)
  BY <1>1, RequestKeeps
<1>2. CASE \E w \in Workers : WorkerStep(w)
  BY <1>2, WorkerKeeps
<1>3. CASE GiveUp
  <2>1. queue' \in Nat /\ Cardinality(InHand) <= queue'
    BY <1>3, InHandFinite DEF GiveUp, IInv, TypeOK
  <2>2. orphaned' = TRUE
    BY <1>3 DEF GiveUp, Mishap
  <2>3. UNCHANGED <<record, stored, req, worker, failures, extra>>
    BY <1>3 DEF GiveUp
  <2>4. TypeOK'
    BY <2>1, <2>2, <2>3 DEF IInv, TypeOK
  <2>5. TasksInHand'
    BY <2>1, <2>3 DEF TasksInHand, InHand
  <2>6. StuckOnlyByMishap'
    BY <2>2 DEF StuckOnlyByMishap
  <2> QED
    BY <2>3, <2>4, <2>5, <2>6 DEF IInv, ReadyIsStored, Ready, CopiesStored, ReadyVerified,
      RecordFound
<1>4. CASE UNCHANGED vars
  BY <1>4 DEF vars, IInv, TypeOK, TasksInHand, InHand, ReadyIsStored, Ready, CopiesStored,
    ReadyVerified, RecordFound, StuckOnlyByMishap, InFlightIsWorkedOn, WorkedOn
<1> QED
  BY <1>1, <1>2, <1>3, <1>4 DEF Next, WorkerStep

LEMMA Invariance == Spec => []IInv
BY InitInv, StepInv, PTL DEF Spec

-----------------------------------------------------------------------------
(* Every variable keeps its type; in particular no answer takes a task off *)
(* an empty queue.                                                         *)
THEOREM TypeCorrect == Spec => []TypeOK
<1>1. IInv => TypeOK
  BY DEF IInv
<1> QED
  BY <1>1, Invariance, PTL

(* Whatever the workers and the requests overwrite, READY names a file     *)
(* that is stored (run_report_workflow verifies before it writes READY).   *)
THEOREM ReadyIsAlwaysStored == Spec => []ReadyIsStored
<1>1. IInv => ReadyIsStored
  BY DEF IInv
<1> QED
  BY <1>1, Invariance, PTL

(* Short of the listed mishaps, a report whose status keeps create_report  *)
(* from queueing another task is being worked on.                          *)
THEOREM StuckOnlyAfterMishap == Spec => []StuckOnlyByMishap
<1>1. IInv => StuckOnlyByMishap
  BY DEF IInv
<1> QED
  BY <1>1, Invariance, PTL

-----------------------------------------------------------------------------
(* A worker that found the report READY does not start an attempt.         *)
BeganUnready == \A w \in Workers : ~worker[w].sawReady

LEMMA BeganUnreadyInvariance == Spec => []BeganUnready
<1>1. Init => BeganUnready
  BY DEF Init, BeganUnready, IdleWorker
<1>2. IInv /\ BeganUnready /\ [Next]_vars => BeganUnready'
  <2> SUFFICES ASSUME IInv, BeganUnready, [Next]_vars PROVE BeganUnready'
    OBVIOUS
  <2>1. CASE worker' = worker
    BY <2>1 DEF BeganUnready
  <2>2. ASSUME NEW w \in Workers, WorkerStep(w)
        PROVE  BeganUnready'
    <3>1. worker[w] \in Attempt /\ ~worker[w].sawReady
      BY DEF IInv, TypeOK, BeganUnready
    <3>2. PICK n \in Attempt : worker' = [worker EXCEPT ![w] = n]
      BY <2>2, WorkerFrame DEF IInv
    <3>3. ~worker'[w].sawReady
      <4>1. CASE Deliver(w) \/ Redeliver(w) \/ Direct(w)
        <5>1. ASSUME NEW kind, NEW r, Start(w, kind, r)
              PROVE  ~worker'[w].sawReady
          <6>1. CASE AlreadyReady(r)
            <7>1. worker' = worker
              BY <5>1, <6>1 DEF Start, IInv, TypeOK
            <7> QED
              BY <7>1, <3>1
          <6>2. CASE ~AlreadyReady(r)
            <7>1. worker'[w].sawReady = (r.status = "ready")
              BY <5>1, <6>2 DEF Start, IInv, TypeOK, IdleWorker
            <7> QED
              BY <7>1, <6>2 DEF AlreadyReady
          <6> QED
            BY <6>1, <6>2
        <5> QED
          BY <4>1, <5>1 DEF Deliver, Redeliver, Direct
      <4>2. CASE PatchRead(w) \/ PatchWrite(w) \/ Verify(w)
        BY <4>2, <3>1 DEF PatchRead, PatchWrite, Verify, Attempt, IInv, TypeOK
      <4>3. CASE GenerateReport(w)
        BY <4>3, <3>1 DEF GenerateReport, Attempt, IInv, TypeOK
      <4>4. CASE Finish(w) \/ Retry(w) \/ WorkerDies(w) \/ GenerateFails(w)
        BY <4>4, <3>1 DEF Finish, Retry, WorkerDies, GenerateFails, Dead, IdleWorker,
          Attempt, IInv, TypeOK
      <4> QED
        BY <2>2, <4>1, <4>2, <4>3, <4>4 DEF WorkerStep, Work
    <3> QED
      BY <3>2, <3>3 DEF BeganUnready, IInv, TypeOK
  <2> QED
    BY <2>1, <2>2 DEF Next, Request, Claim, Regenerate, Dispatch, DispatchFails, UpdateRead, UpdateWrite,
      RequestDies, GiveUp, WorkerStep, vars
<1> QED
  BY <1>1, <1>2, Invariance, PTL DEF Spec

(* READY is lost only to a worker that began before, or to the update of a *)
(* request: a delivery that found the report READY never touches it.       *)
THEOREM ReadyIsNotUndone == Spec => ReadyLostOnlyBlindly
<1> DEFINE Blind == \/ \E w \in Workers : worker[w].at \in Patching /\ ~worker[w].sawReady
                    \/ \E q \in Askers :
                         req[q].at \in Updating /\ req[q].copy # NoRecord
<1>1. IInv /\ BeganUnready /\ [Next]_vars => [Ready /\ record'.status # "ready" => Blind]_vars
  <2> SUFFICES ASSUME IInv, BeganUnready, Next, Ready, record' # record
               PROVE  Blind
    BY DEF Ready
  <2>1. ASSUME NEW q \in Askers, Request(q)
        PROVE  Blind
    BY <2>1 DEF Request, Claim, Regenerate, Dispatch, DispatchFails, UpdateRead, UpdateWrite,
      RequestDies, Ready
  <2>2. ASSUME NEW w \in Workers, WorkerStep(w)
        PROVE  Blind
    BY <2>2 DEF WorkerStep, Work, Deliver, Redeliver, Direct, PatchRead, PatchWrite,
      GenerateReport, Verify, Finish, Retry, WorkerDies, GenerateFails, Following, Patching,
      Ready, BeganUnready
  <2>3. CASE GiveUp
    BY <2>3 DEF GiveUp
  <2> QED
    BY <2>1, <2>2, <2>3 DEF Next, WorkerStep
<1> QED
  BY <1>1, Invariance, BeganUnreadyInvariance, PTL DEF Spec, ReadyLostOnlyBlindly
-----------------------------------------------------------------------------
(* The report's life implements ReportDelivery.                            *)

(* Nobody works on a report that has no record.                            *)
OwedExists == WorkedOn => record # NoRecord

LEMMA OwedExistsKept == IInv /\ OwedExists /\ [Next]_vars => OwedExists'
<1> SUFFICES ASSUME IInv, OwedExists, [Next]_vars, record' = NoRecord
             PROVE  ~WorkedOn'
  BY DEF OwedExists
<1> USE DEF IInv
<1>1. ASSUME NEW q \in Askers, Request(q)
      PROVE  record = NoRecord /\ (WorkedOn' => WorkedOn)
  <2>1. Claimed # NoRecord
    BY Constants
  <2>2. ~Claim(q) /\ ~Regenerate(q)
    BY <2>1, <1>1 DEF Claim, Regenerate
  <2>3. ~UpdateWrite(q)
    <3> SUFFICES ASSUME UpdateWrite(q) PROVE FALSE
      OBVIOUS
    <3>1. req[q].copy \in Record /\ NoRecord \notin Record
      BY Constants DEF UpdateWrite, TypeOK, Asking
    <3>2. Updated(req[q]) \in Record
      BY <3>1 DEF Updated, Record, Statuses, InFlight
    <3> QED
      BY <3>1, <3>2 DEF UpdateWrite
  <2>4. record = NoRecord
    BY <1>1, <2>2, <2>3 DEF Request, Dispatch, DispatchFails, UpdateRead, RequestDies
  <2>5. ~Dispatch(q) /\ ~DispatchFails(q)
    BY <2>4 DEF Dispatch, DispatchFails, OwedExists, WorkedOn
  <2>6. CASE UpdateRead(q)
    BY <2>6 DEF UpdateRead, Ask, WorkedOn, TypeOK
  <2>7. CASE RequestDies(q)
    BY <2>7 DEF RequestDies, Ask, WorkedOn, TypeOK
  <2> QED
    BY <1>1, <2>2, <2>3, <2>4, <2>5, <2>6, <2>7 DEF Request
<1>2. ASSUME NEW w \in Workers, WorkerStep(w)
      PROVE  FALSE
  <2>1. record = NoRecord
    BY <1>2, WorkerFrame
  <2>2. ~WorkedOn
    BY <2>1 DEF OwedExists
  <2>3. queue = 0 /\ worker[w].at = "idle"
    BY <2>2 DEF WorkedOn, TypeOK
  <2>4. Direct(w)
    BY <1>2, <2>1, <2>3, InHandFinite DEF WorkerStep, Work, Deliver, Redeliver, PatchRead,
      PatchWrite, GenerateReport, Verify, Finish, Retry, GenerateFails, WorkerDies, Patching,
      Following
  <2> QED
    BY <2>1, <2>4, Constants DEF Direct
<1>3. CASE GiveUp
  BY <1>3, InHandFinite DEF GiveUp, OwedExists, WorkedOn, TypeOK
<1>4. CASE UNCHANGED vars
  BY <1>4 DEF vars, OwedExists, WorkedOn
<1> QED
  BY <1>1, <1>2, <1>3, <1>4 DEF Next, WorkerStep, OwedExists

(* What is left of the abstract step when its common part holds.           *)
Delivers ==
  \/ WorkedOn' /\ Outcome' \in {Outcome, "open"} /\ orphaned' = orphaned
  \/ WorkedOn /\ WorkedOn' /\ orphaned' = orphaned
  \/ WorkedOn /\ ~WorkedOn' /\ Outcome' \in {"failed", "delivered"} /\ orphaned' = orphaned
  \/ Outcome' = Outcome /\ stored' = stored /\ WorkedOn' = WorkedOn /\ orphaned' = orphaned
  \/ orphaned'

(* A step that does not change the record and leaves nobody's work.        *)
LEMMA QuietDelivers ==
  ASSUME record' = record, stored' = stored, orphaned' = orphaned, WorkedOn => WorkedOn'
  PROVE  Delivers
<1>1. Outcome' = Outcome
  BY DEF Outcome
<1>2. WorkedOn \in BOOLEAN /\ WorkedOn' \in BOOLEAN
  BY DEF WorkedOn
<1> QED
  BY <1>1, <1>2 DEF Delivers

(* A step under the hands of somebody who works on it.                     *)
LEMMA WorkDelivers ==
  ASSUME WorkedOn, orphaned' = orphaned,
         WorkedOn' \/ Outcome' \in {"failed", "delivered"}
  PROVE  Delivers
BY DEF Delivers

LEMMA RequestDelivers ==
  ASSUME IInv, NEW q \in Askers, Request(q)
  PROVE  Delivers
<1> USE DEF IInv
<1>1. UNCHANGED <<worker, stored>>
  BY DEF Request, Claim, Regenerate, Dispatch, DispatchFails, UpdateRead, UpdateWrite, RequestDies
<1>2. queue' \in Nat /\ queue' >= queue
  BY DEF Request, Claim, Regenerate, Dispatch, DispatchFails, UpdateRead, UpdateWrite, RequestDies, TypeOK
<1>3. PICK a : req' = [req EXCEPT ![q] = a]
  BY DEF Request, Claim, Regenerate, Dispatch, DispatchFails, UpdateRead, UpdateWrite,
    RequestDies, Ask
<1>4. req'[q] = a
  BY <1>3 DEF TypeOK
<1>5. ASSUME req[q].at \notin {"claimed", "fail"}, WorkedOn
      PROVE  WorkedOn'
  BY <1>1, <1>2, <1>3, <1>5 DEF WorkedOn, TypeOK
<1>6. CASE Claim(q)
  <2>1. CASE record' = record
    BY <2>1, <1>1, <1>5, <1>6, QuietDelivers DEF Claim
  <2>2. CASE record' = Claimed /\ Ask(q, "claimed", NoRecord)
    <3>1. WorkedOn'
      BY <2>2, <1>4 DEF Ask, WorkedOn, TypeOK
    <3>2. Outcome' = "open"
      BY <2>2, Constants DEF Outcome, Claimed, InFlight
    <3> QED
      BY <3>1, <3>2, <1>6 DEF Claim, Delivers
  <2> QED
    BY <2>1, <2>2, <1>6 DEF Claim
<1>7. CASE Regenerate(q)
  BY <1>1, <1>5, <1>7, QuietDelivers DEF Regenerate
<1>8. CASE Dispatch(q)
  <2>1. WorkedOn'
    BY <1>8 DEF Dispatch, WorkedOn, TypeOK
  <2> QED
    BY <2>1, <1>8, QuietDelivers DEF Dispatch
<1>9. CASE DispatchFails(q)
  <2>1. CASE q \in Requesters
    <3>1. orphaned' = orphaned
      BY <2>1, <1>9, ReportAssumption DEF DispatchFails, Mishap, TypeOK
    <3>2. WorkedOn'
      BY <2>1, <1>9, <1>4 DEF DispatchFails, Ask, WorkedOn, TypeOK
    <3> QED
      BY <3>1, <3>2, <1>9, QuietDelivers DEF DispatchFails
  <2>2. CASE q \in Admins
    BY <2>2, <1>9 DEF DispatchFails, Mishap, Delivers
  <2> QED
    BY <2>1, <2>2 DEF Askers
<1>10. CASE UpdateRead(q)
  <2>1. WorkedOn => WorkedOn'
    BY <1>10 DEF UpdateRead, Ask, WorkedOn, TypeOK
  <2> QED
    BY <2>1, <1>10, QuietDelivers DEF UpdateRead
<1>11. CASE UpdateWrite(q)
  <2>1. req[q].copy \in Record /\ record # NoRecord /\ NoRecord \notin Record
    BY <1>11, Constants DEF Asking, UpdateWrite, RecordFound, TypeOK
  <2>2. CASE req[q].at = "stamp"
    <3>1. CASE req[q].copy.status # record.status
      BY <2>2, <3>1, <1>11 DEF UpdateWrite, Mishap, Delivers
    <3>2. CASE req[q].copy.status = record.status
      <4>1. record' = req[q].copy
        BY <1>11, <2>2 DEF UpdateWrite, Updated
      <4>2. Outcome' = Outcome
        BY <3>2, <4>1, <2>1 DEF Outcome
      <4>3. orphaned' = orphaned
        BY <1>11, <3>2 DEF UpdateWrite, Mishap, TypeOK
      <4>4. WorkedOn \in BOOLEAN /\ WorkedOn' \in BOOLEAN
        BY DEF WorkedOn
      <4> QED
        BY <4>2, <4>3, <4>4, <1>1, <1>5, <2>2 DEF Delivers
    <3> QED
      BY <3>1, <3>2
  <2>3. CASE req[q].at = "reset"
    <3>1. record' = [req[q].copy EXCEPT !.status = "queued"]
      BY <1>11, <2>3 DEF UpdateWrite, Updated
    <3>2. record'.status = "queued" /\ record' # NoRecord
      BY <2>1, <3>1 DEF Record, Statuses, InFlight
    <3>3. Outcome' = "open"
      BY <3>2 DEF Outcome, InFlight
    <3>4. WorkedOn'
      BY <1>11, <2>3, <1>4 DEF UpdateWrite, Ask, WorkedOn, TypeOK
    <3>5. orphaned' = orphaned
      BY <1>11, <2>3 DEF UpdateWrite, Mishap, TypeOK
    <3> QED
      BY <3>3, <3>4, <3>5 DEF Delivers
  <2>4. CASE req[q].at = "fail"
    <3>1. record' = [req[q].copy EXCEPT !.status = "failed"]
      BY <1>11, <2>4 DEF UpdateWrite, Updated
    <3>2. record'.status = "failed" /\ record' # NoRecord
      BY <2>1, <3>1 DEF Record, Statuses
    <3>3. Outcome' = "failed"
      BY <3>2 DEF Outcome, InFlight
    <3>4. WorkedOn
      BY <2>4 DEF WorkedOn
    <3>5. orphaned' = orphaned
      BY <1>11, <2>4 DEF UpdateWrite, Mishap, TypeOK
    <3> QED
      BY <3>3, <3>4, <3>5, WorkDelivers
  <2> QED
    BY <2>2, <2>3, <2>4, <1>11 DEF UpdateWrite, Updating
<1>12. CASE RequestDies(q)
  <2>1. CASE req[q].at \in {"claimed", "fail"}
    BY <2>1, <1>12 DEF RequestDies, Mishap, Delivers
  <2>2. CASE req[q].at \notin {"claimed", "fail"}
    <3>1. orphaned' = orphaned
      BY <2>2, <1>12 DEF RequestDies, Mishap, TypeOK
    <3> QED
      BY <2>2, <3>1, <1>5, <1>12, QuietDelivers DEF RequestDies
  <2> QED
    BY <2>1, <2>2
<1> QED
  BY <1>6, <1>7, <1>8, <1>9, <1>10, <1>11, <1>12 DEF Request

LEMMA WorkerDelivers ==
  ASSUME IInv, OwedExists, NEW w \in Workers, WorkerStep(w)
  PROVE  Delivers
<1> USE DEF IInv
<1>1. PICK n \in Attempt : worker' = [worker EXCEPT ![w] = n]
  BY WorkerFrame
<1>2. worker'[w] = n /\ worker[w] \in Attempt /\ queue' \in Nat
  BY <1>1, WorkerKeeps DEF TypeOK
<1>3. CASE Deliver(w) \/ Redeliver(w) \/ Direct(w)
  <2>1. PICK kind \in {"task", "extra"}, r \in {record, record'} :
          /\ Start(w, kind, r)
          /\ queue' = IF kind = "task" /\ AlreadyReady(r) THEN queue - 1 ELSE queue
          /\ kind = "task" => queue > 0
          /\ record' = record \/ (record' = Claimed /\ r = Claimed)
    BY <1>3, InHandFinite DEF Deliver, Redeliver, Direct, Answered, TypeOK
  <2>2. UNCHANGED <<req, stored, orphaned>>
    BY <1>3 DEF Deliver, Redeliver, Direct
  <2>3. CASE AlreadyReady(r)
    <3>1. record' = record /\ r = record
      BY <2>1, <2>3 DEF AlreadyReady, Claimed
    <3>2. worker' = worker
      BY <2>1, <2>3 DEF Start, TypeOK
    <3>3. CASE kind = "extra"
      <4>1. WorkedOn => WorkedOn'
        BY <2>1, <2>2, <3>2, <3>3 DEF WorkedOn
      <4> QED
        BY <2>2, <3>1, <4>1, QuietDelivers
    <3>4. CASE kind = "task"
      <4>1. WorkedOn
        BY <2>1, <3>4 DEF WorkedOn
      <4>2. record # NoRecord
        BY <4>1 DEF OwedExists
      <4>3. Outcome' = "delivered"
        BY <2>3, <3>1, <4>2 DEF Outcome, AlreadyReady, InFlight
      <4> QED
        BY <2>2, <4>1, <4>3, WorkDelivers
    <3> QED
      BY <3>3, <3>4
  <2>4. CASE ~AlreadyReady(r)
    <3>1. worker'[w].at = "generating"
      BY <2>1, <2>4 DEF Start, TypeOK, IdleWorker
    <3>2. WorkedOn'
      BY <3>1 DEF WorkedOn
    <3>3. CASE record' = record
      BY <2>2, <3>2, <3>3, QuietDelivers
    <3>4. CASE record' = Claimed
      <4>1. Outcome' = "open"
        BY <3>4, Constants DEF Outcome, Claimed, InFlight
      <4> QED
        BY <2>2, <3>2, <4>1 DEF Delivers
    <3> QED
      BY <2>1, <3>3, <3>4
  <2> QED
    BY <2>3, <2>4
<1>4. ASSUME ~(Deliver(w) \/ Redeliver(w) \/ Direct(w))
      PROVE  WorkedOn
  <2>1. worker[w].at # "idle"
    BY <1>4 DEF WorkerStep, Work, PatchRead, PatchWrite, GenerateReport, Verify, Finish,
      Retry, GenerateFails, WorkerDies, Patching, Following
  <2> QED
    BY <2>1 DEF WorkedOn
<1>5. CASE PatchRead(w) \/ PatchWrite(w) \/ GenerateReport(w) \/ Verify(w)
           \/ (GenerateFails(w) /\ ~Dead(w))
  <2>1. worker'[w].at # "idle"
    <3>1. CASE PatchRead(w)
      BY <3>1, <1>2 DEF PatchRead, Attempt, Patching, TypeOK
    <3>2. CASE PatchWrite(w)
      BY <3>2, <1>2 DEF PatchWrite, Following, Attempt, TypeOK
    <3>3. CASE GenerateReport(w)
      BY <3>3, <1>2 DEF GenerateReport, Attempt, TypeOK
    <3>4. CASE Verify(w)
      BY <3>4, <1>2 DEF Verify, Attempt, TypeOK
    <3>5. CASE GenerateFails(w) /\ ~Dead(w)
      BY <3>5, <1>2 DEF GenerateFails, Attempt, TypeOK
    <3> QED
      BY <1>5, <3>1, <3>2, <3>3, <3>4, <3>5
  <2>2. orphaned' = orphaned
    BY <1>5 DEF PatchRead, PatchWrite, GenerateReport, Verify, GenerateFails
  <2>3. WorkedOn'
    BY <2>1 DEF WorkedOn
  <2>4. CASE WorkedOn
    BY <2>2, <2>3, <2>4, WorkDelivers
  <2> QED
    BY <2>4, <1>3, <1>4
<1>6. CASE Finish(w) \/ Retry(w)
  <2>1. worker[w].at \in {"ready", "retrying"} /\ record' = Patched(worker[w])
    BY <1>6 DEF Finish, Retry
  <2>2. worker[w].copy \in Record /\ worker[w].at \in Patching
    BY <1>6, <1>2 DEF Finish, Retry, Attempt, Patching
  <2>3. record'.status \in {"ready", "retrying"} /\ record' # NoRecord
    BY <2>1, <2>2, <1>2, Constants, PatchedType DEF Patched, Record
  <2>4. Outcome' \in {"failed", "delivered"}
    BY <2>3 DEF Outcome, InFlight
  <2>5. orphaned' = orphaned
    BY <1>6 DEF Finish, Retry
  <2>6. WorkedOn
    BY <1>6 DEF Finish, Retry, WorkedOn
  <2> QED
    BY <2>4, <2>5, <2>6, WorkDelivers
<1>7. CASE WorkerDies(w) \/ (GenerateFails(w) /\ Dead(w))
  <2>1. Dead(w) /\ queue' = queue /\ worker[w].at # "idle"
    BY <1>7 DEF WorkerDies, GenerateFails
  <2>2. CASE worker[w].kind = "task"
    <3>1. queue > 0
      BY <2>1, <2>2, OwnTask DEF InHand, TypeOK
    <3>2. WorkedOn /\ WorkedOn'
      BY <2>1, <3>1 DEF WorkedOn
    <3>3. orphaned' = orphaned
      BY <2>1, <2>2 DEF Dead, Mishap, TypeOK
    <3> QED
      BY <3>2, <3>3, WorkDelivers
  <2>3. CASE worker[w].kind # "task"
    BY <2>1, <2>3 DEF Dead, Mishap, Delivers
  <2> QED
    BY <2>2, <2>3
<1> QED
  BY <1>3, <1>5, <1>6, <1>7 DEF WorkerStep, Work, WorkerDies

(* The common part of every abstract step.                                 *)
LEMMA StepCommon ==
  ASSUME IInv, OwedExists, [Next]_vars
  PROVE  /\ stored \subseteq stored' /\ stored' \subseteq Files
         /\ (Outcome # "none" \/ WorkedOn') => Outcome' # "none"
         /\ Outcome' = "delivered" => record' # NoRecord /\ record'.file \in stored'
         /\ orphaned => orphaned'
<1> USE DEF IInv
<1>1. IInv' /\ OwedExists'
  BY StepInv, OwedExistsKept
<1>2. stored \subseteq stored' /\ (record # NoRecord => record' # NoRecord)
  <2>1. ASSUME NEW q \in Askers, Request(q)
        PROVE  stored' = stored /\ (record # NoRecord => record' # NoRecord)
    <3>1. stored' = stored
      BY <2>1 DEF Request, Claim, Regenerate, Dispatch, DispatchFails, UpdateRead, UpdateWrite,
        RequestDies
    <3>2. CASE UpdateWrite(q)
      <4>1. req[q].copy \in Record /\ NoRecord \notin Record
        BY <3>2, Constants DEF UpdateWrite, TypeOK, Asking
      <4>2. Updated(req[q]) \in Record
        BY <4>1 DEF Updated, Record, Statuses, InFlight
      <4> QED
        BY <3>1, <3>2, <4>1, <4>2 DEF UpdateWrite
    <3>3. CASE ~UpdateWrite(q)
      BY <2>1, <3>1, <3>3 DEF Request, Claim, Regenerate, Dispatch, DispatchFails, UpdateRead,
        RequestDies
    <3> QED
      BY <3>2, <3>3
  <2>2. ASSUME NEW w \in Workers, WorkerStep(w)
        PROVE  stored \subseteq stored' /\ (record # NoRecord => record' # NoRecord)
    BY <2>2, WorkerFrame
  <2> QED
    BY <2>1, <2>2 DEF Next, WorkerStep, GiveUp, vars
<1>3. orphaned => orphaned'
  BY DEF Next, Request, Claim, Regenerate, Dispatch, DispatchFails, UpdateRead, UpdateWrite,
    RequestDies, Work, Deliver, Redeliver, Direct, PatchRead, PatchWrite, GenerateReport,
    Verify, Finish, Retry, WorkerDies, GenerateFails, Dead, GiveUp, Mishap, vars
<1>4. (Outcome # "none" \/ WorkedOn') => Outcome' # "none"
  BY <1>1, <1>2 DEF Outcome, OwedExists
<1>5. Outcome' = "delivered" => record' # NoRecord /\ record'.file \in stored'
  BY <1>1 DEF Outcome, ReadyIsStored, Ready
<1> QED
  BY <1>1, <1>2, <1>3, <1>4, <1>5 DEF TypeOK

(* Every step of requests, workers and the queue is a step of the abstract *)
(* delivery, or leaves it alone.                                           *)
THEOREM DeliveryIsKept == Spec => ImplementsDelivery
<1> DEFINE File == IF record = NoRecord THEN "none" ELSE record.file
<1>1. Init => Delivery!Init
  <2> SUFFICES ASSUME Init PROVE Delivery!Init
    OBVIOUS
  <2>1. ~WorkedOn
    BY DEF Init, WorkedOn, IdleWorker
  <2>2. Outcome = "none"
    BY DEF Init, Outcome
  <2> QED
    BY <2>1, <2>2 DEF Init, Delivery!Init
<1>2. Init => OwedExists
  BY DEF Init, OwedExists, WorkedOn, IdleWorker
<1>3. IInv /\ OwedExists /\ [Next]_vars
        => [Delivery!Next]_<<Outcome, File, stored, WorkedOn, orphaned>>
  <2> SUFFICES ASSUME IInv, OwedExists, [Next]_vars
               PROVE  Delivery!Next \/ UNCHANGED <<Outcome, File, stored, WorkedOn, orphaned>>
    OBVIOUS
  <2>1. CASE Delivers
    <3>1. (Outcome' = "delivered") => File' \in stored'
      BY StepCommon
    <3> QED
      BY <2>1, <3>1, StepCommon DEF Delivers, Delivery!Next, Delivery!TakeOn, Delivery!Attempt,
        Delivery!Settle, Delivery!Restate, Delivery!GoAstray
  <2>2. CASE \E q \in Askers : Request(q)
    BY <2>1, <2>2, RequestDelivers
  <2>3. CASE \E w \in Workers : WorkerStep(w)
    BY <2>1, <2>3, WorkerDelivers
  <2>4. CASE GiveUp
    BY <2>1, <2>4 DEF GiveUp, Mishap, Delivers
  <2>5. CASE UNCHANGED vars
    BY <2>5 DEF vars, Outcome, WorkedOn
  <2> QED
    BY <2>2, <2>3, <2>4, <2>5 DEF Next, WorkerStep
<1>4. Spec => []OwedExists
  BY <1>2, OwedExistsKept, Invariance, PTL DEF Spec
<1> HIDE DEF File
<1> QED
  BY <1>1, <1>3, <1>4, Invariance, PTL DEF Spec, ImplementsDelivery, Delivery!Spec,
    Delivery!deliveryVars, File

-----------------------------------------------------------------------------
(* When nothing fails, one thing only strands a report: create_report's    *)
(* task_id stamp, written from a copy with another status than the stored. *)
StaleStamp ==
  \E q \in Requesters :
    /\ req[q].at = "stamp" /\ req[q].copy # NoRecord
    /\ req[q].copy.status # record.status

THEOREM OnlyTheStampStrands ==
  MaxFailures = 0 /\ MaxAttempts > 0 /\ Spec => [][orphaned' # orphaned => StaleStamp]_vars
<1> SUFFICES ASSUME MaxFailures = 0, MaxAttempts > 0
             PROVE  Spec => [][orphaned' # orphaned => StaleStamp]_vars
  OBVIOUS
<1> DEFINE Stampers == \A q \in Askers : req[q].at = "stamp" => q \in Requesters
<1>1. Init => Stampers
  BY DEF Init
<1>2. IInv /\ Stampers /\ [Next]_vars => Stampers'
  <2> SUFFICES ASSUME IInv, Stampers, [Next]_vars PROVE Stampers'
    OBVIOUS
  <2>1. ASSUME NEW q \in Askers, Request(q)
        PROVE  Stampers'
    BY <2>1 DEF IInv, TypeOK, Request, Claim, Regenerate, Dispatch, DispatchFails, UpdateRead,
      UpdateWrite, RequestDies, Ask
  <2>2. CASE req' = req
    BY <2>2
  <2> QED
    BY <2>1, <2>2, WorkerFrame DEF IInv, Next, WorkerStep, GiveUp, vars
<1>3. IInv /\ Stampers /\ [Next]_vars => [orphaned' # orphaned => StaleStamp]_vars
  <2> SUFFICES ASSUME IInv, Stampers, Next, orphaned' # orphaned
               PROVE  StaleStamp
    OBVIOUS
  <2>1. failures = 0 /\ ~Failed
    BY Constants DEF IInv, TypeOK, Failed
  <2>2. ~GiveUp
    <3>1. MaxAttempts \in Nat
      BY ReportAssumption
    <3>2. ~(failures >= MaxAttempts)
      BY <2>1, <3>1
    <3> QED
      BY <3>2 DEF GiveUp
  <2>3. ~\E w \in Workers : WorkerStep(w)
    BY <2>1 DEF WorkerStep, Work, Deliver, Redeliver, Direct, PatchRead, PatchWrite,
      GenerateReport, Verify, Finish, Retry, WorkerDies, GenerateFails
  <2>4. PICK q \in Askers : UpdateWrite(q)
    BY <2>1, <2>2, <2>3 DEF Next, WorkerStep, Request, Claim, Regenerate, Dispatch,
      DispatchFails, UpdateRead, RequestDies
  <2>5. req[q].at = "stamp" /\ req[q].copy.status # record.status
    BY <2>4 DEF UpdateWrite, Mishap, IInv, TypeOK
  <2> QED
    BY <2>4, <2>5 DEF UpdateWrite, StaleStamp
<1> HIDE DEF Stampers
<1> QED
  BY <1>1, <1>2, <1>3, Invariance, PTL DEF Spec

-----------------------------------------------------------------------------
(* The reporting agent alone, one attempt at a time (the weekly workflow's *)
(* calls, failed and repeated ones included): READY is then final.         *)
OneAttempt == Askers = {} /\ \A v, w \in Workers : v = w

AttemptsUnready == \A w \in Workers : worker[w].at # "idle" => ~Ready

LEMMA AttemptsUnreadyKept ==
  ASSUME OneAttempt, IInv, AttemptsUnready, NEW w \in Workers, WorkerStep(w)
  PROVE  AttemptsUnready' /\ (Ready => record' = record)
<1>1. worker[w] \in Attempt /\ \A v \in Workers : v = w
  BY DEF IInv, TypeOK, OneAttempt
<1>2. CASE Deliver(w) \/ Redeliver(w) \/ Direct(w)
  <2>1. PICK kind, r : Start(w, kind, r) /\ r = record' /\ record' \in {record, Claimed}
                       /\ (record # NoRecord => record' = record)
    BY <1>2 DEF Deliver, Redeliver, Direct
  <2>2. CASE AlreadyReady(r)
    <3>1. worker' = worker /\ worker[w].at = "idle"
      BY <1>2, <2>1, <2>2 DEF Start, Deliver, Redeliver, Direct, IInv, TypeOK
    <3> QED
      BY <1>1, <2>1, <3>1 DEF AttemptsUnready, Ready
  <2>3. CASE ~AlreadyReady(r)
    BY <1>1, <2>1, <2>3 DEF AlreadyReady, AttemptsUnready, Ready
  <2> QED
    BY <2>2, <2>3
<1>3. CASE PatchRead(w) \/ GenerateReport(w) \/ Verify(w) \/ GenerateFails(w) \/ WorkerDies(w)
  <2>1. record' = record /\ worker[w].at # "idle"
    BY <1>3 DEF PatchRead, GenerateReport, Verify, GenerateFails, WorkerDies, Patching
  <2> QED
    BY <1>1, <2>1 DEF AttemptsUnready, Ready
<1>4. CASE PatchWrite(w) \/ Retry(w)
  <2>1. /\ worker[w].at \in Patching \ {"ready"} /\ worker[w].copy \in Record
        /\ record' = Patched(worker[w])
    BY <1>1, <1>4 DEF PatchWrite, Retry, Following, Patching, Attempt
  <2>2. record'.status = worker[w].at
    BY <2>1 DEF Patched, Record
  <2> QED
    BY <1>1, <2>1, <2>2 DEF AttemptsUnready, Ready, Patching
<1>5. CASE Finish(w)
  <2>1. worker[w].at # "idle" /\ worker'[w].at = "idle"
    BY <1>5, <1>1 DEF Finish, IdleWorker, IInv, TypeOK
  <2> QED
    BY <1>1, <2>1 DEF AttemptsUnready
<1> QED
  BY <1>2, <1>3, <1>4, <1>5 DEF WorkerStep, Work

THEOREM ReadyIsFinalAlone == OneAttempt /\ Spec => [][Ready => record' = record]_vars
<1> SUFFICES ASSUME OneAttempt PROVE Spec => [][Ready => record' = record]_vars
  OBVIOUS
<1>1. Init => AttemptsUnready
  BY DEF Init, AttemptsUnready, Ready
<1>2. IInv /\ AttemptsUnready /\ [Next]_vars => AttemptsUnready' /\ (Ready => record' = record)
  <2> SUFFICES ASSUME IInv, AttemptsUnready, [Next]_vars
               PROVE  AttemptsUnready' /\ (Ready => record' = record)
    OBVIOUS
  <2>1. CASE UNCHANGED <<record, worker>>
    BY <2>1 DEF AttemptsUnready, Ready
  <2>2. CASE \E w \in Workers : WorkerStep(w)
    BY <2>2, AttemptsUnreadyKept
  <2> QED
    BY <2>1, <2>2 DEF OneAttempt, Next, WorkerStep, GiveUp, vars
<1> QED
  BY <1>1, <1>2, Invariance, PTL DEF Spec

=============================================================================
