-------------------------- MODULE Services_proofs --------------------------
(***************************************************************************)
(* Theorems about the retention sweep, the task rows, the support tickets  *)
(* and the members of a workspace, for any number of documents, tasks,     *)
(* people and requests; and, at the end, about the seven parts together.   *)
(***************************************************************************)
EXTENDS MCServices, RateLimit_proofs, Access_proofs, Assessment_proofs, TLAPS

(* A document is old enough to be taken.                                   *)
Old(d) == today - created[d] > Floor

(* What a sweep is about to take, or has begun to, is old enough.          *)
SweepsOldOnly ==
  \A s \in Sweeps :
    /\ \A d \in sweep[s].todo : Old(d)
    /\ sweep[s].at \in {"object_gone", "record_gone"} => Old(sweep[s].doc)

RetentionInv ==
  /\ RetentionTypeOK /\ SweepsOldOnly
  /\ YoungKept /\ DeletionsOnRecord /\ OrphansExplained

(* The invariant holds before anything is uploaded.                        *)
LEMMA RetentionInitOK == RetentionInit => RetentionInv
<1> SUFFICES ASSUME RetentionInit PROVE RetentionInv
  OBVIOUS
<1>1. RetentionTypeOK
  BY RetentionAssumption DEF RetentionInit, RetentionTypeOK, Rest
<1> QED
  BY <1>1
  DEF RetentionInit, RetentionInv, SweepsOldOnly, YoungKept, DeletionsOnRecord,
      OrphansExplained, Rest

(* A document once old stays so: its day is fixed when it is uploaded.     *)
LEMMA OldStaysOld ==
  ASSUME RetentionInv, RetentionNext, NEW d \in uploaded, Old(d)
  PROVE  Old(d)'
<1>1. today \in Nat /\ created[d] \in Nat /\ Floor \in Nat /\ d \in Documents
  BY RetentionAssumption DEF RetentionInv, RetentionTypeOK
<1>2. today' \in Nat /\ today' >= today
  BY <1>1 DEF RetentionNext, DayPasses, StoreSettings, ReadSettings, Upload, PipeWrites,
              PipeReads, SweepStep, BeginSweep, ListStale, DeleteObject, DeleteRecord,
              AuditDeletion, SweepEnds, SweepDies
<1>3. created'[d] = created[d]
  BY <1>1 DEF RetentionNext, DayPasses, StoreSettings, ReadSettings, Upload, PipeWrites,
              PipeReads, SweepStep, BeginSweep, ListStale, DeleteObject, DeleteRecord,
              AuditDeletion, SweepEnds, SweepDies, RetentionInv, RetentionTypeOK
<1> QED
  BY <1>1, <1>2, <1>3 DEF Old

(* Everything but the sweeps.                                              *)
LEMMA OutsideTheSweepOK ==
  ASSUME RetentionInv, RetentionNext,
         \/ DayPasses \/ StoreSettings
         \/ \E days \in Policies : ReadSettings(days)
         \/ \E d \in Documents : Upload(d)
         \/ \E w \in Pipeline : PipeWrites(w) \/ \E d \in Documents : PipeReads(w, d)
  PROVE  RetentionInv'
<1>1. UNCHANGED <<sweep, deletions, mishap>>
  BY DEF DayPasses, StoreSettings, ReadSettings, Upload, PipeWrites, PipeReads
<1>2. RetentionTypeOK'
  <2>1. CASE DayPasses \/ StoreSettings \/ \E days \in Policies : ReadSettings(days)
    BY <2>1 DEF RetentionInv, RetentionTypeOK, DayPasses, StoreSettings, ReadSettings
  <2>2. ASSUME NEW d \in Documents, Upload(d)
        PROVE  RetentionTypeOK'
    <3>1. pipe' \in [Pipeline -> uploaded' \cup {-1}]
      BY <2>2 DEF RetentionInv, RetentionTypeOK, Upload
    <3> QED
      BY <2>2, <3>1 DEF RetentionInv, RetentionTypeOK, Upload
  <2>3. ASSUME NEW w \in Pipeline, PipeWrites(w)
        PROVE  RetentionTypeOK'
    BY <2>3 DEF RetentionInv, RetentionTypeOK, PipeWrites
  <2>4. ASSUME NEW w \in Pipeline, NEW d \in Documents, PipeReads(w, d)
        PROVE  RetentionTypeOK'
    BY <2>4 DEF RetentionInv, RetentionTypeOK, PipeReads
  <2> QED
    BY <2>1, <2>2, <2>3, <2>4
<1>3. uploaded \subseteq uploaded' /\ \A d \in uploaded' \ uploaded : d \in record' \cap object'
  BY DEF DayPasses, StoreSettings, ReadSettings, Upload, PipeWrites, PipeReads
<1>4. SweepsOldOnly'
  BY <1>1, OldStaysOld DEF RetentionInv, RetentionTypeOK, SweepsOldOnly
<1>5. record \subseteq record' /\ object \subseteq object'
  BY DEF DayPasses, StoreSettings, ReadSettings, Upload, PipeWrites, PipeReads
<1>6. YoungKept'
  BY <1>3, <1>5, OldStaysOld DEF RetentionInv, YoungKept, Old
<1>7. DeletionsOnRecord'
  BY <1>1, <1>3, <1>5 DEF RetentionInv, DeletionsOnRecord
<1>8. OrphansExplained'
  <2>1. \A d \in record' \ object' : d \in record \ object \/ d \in uploaded \ record
    BY <1>3 DEF RetentionInv, RetentionTypeOK, DayPasses, StoreSettings, ReadSettings, Upload,
                PipeWrites, PipeReads
  <2> QED
    BY <1>1, <2>1 DEF RetentionInv, OrphansExplained, DeletionsOnRecord
<1> QED
  BY <1>2, <1>4, <1>6, <1>7, <1>8 DEF RetentionInv

(* What a sweep may have for an entry.                                     *)
Entries == [at : {"idle", "policy", "listed", "object_gone", "record_gone"},
            days : Policies \cup {0}, todo : SUBSET Documents, doc : Documents \cup {-1}]

(* A sweep's step, seen from outside: its entry changes, objects and       *)
(* records may go, rows and mishaps may come.                              *)
LEMMA SweepMoves ==
  ASSUME RetentionInv, RetentionNext, NEW s \in Sweeps, NEW e,
         UNCHANGED <<today, policy, settings, uploaded, created, pipe>>,
         sweep' = [sweep EXCEPT ![s] = e],
         e \in Entries,
         e.at \in {"object_gone", "record_gone"} => e.doc \in uploaded /\ Old(e.doc),
         \A d \in e.todo : d \in uploaded /\ Old(d),
         record' \subseteq record, object' \subseteq object,
         deletions \subseteq deletions', deletions' \subseteq uploaded,
         mishap \subseteq mishap', mishap' \subseteq Documents,
         \A d \in record \ record' :
           Old(d) /\ (d \in mishap' \/ (e.at = "record_gone" /\ e.doc = d)),
         \A d \in object \ object' :
           Old(d) /\ (d \in mishap' \/ (e.at = "object_gone" /\ e.doc = d)),
         sweep[s].at = "record_gone"
           => sweep[s].doc \in mishap' \cup deletions' \/ (e.at = "record_gone" /\ e.doc = sweep[s].doc),
         sweep[s].at = "object_gone"
           => \/ sweep[s].doc \in mishap' \cup deletions' \/ sweep[s].doc \notin record'
              \/ e.at = "record_gone" /\ e.doc = sweep[s].doc
  PROVE  RetentionInv'
<1>1. \A q \in Sweeps : sweep'[q] = IF q = s THEN e ELSE sweep[q]
  BY DEF RetentionInv, RetentionTypeOK
<1>2. RetentionTypeOK'
  BY <1>1 DEF RetentionInv, RetentionTypeOK, Entries
<1>3. SweepsOldOnly'
  BY <1>1 DEF RetentionInv, SweepsOldOnly, Old
<1>4. YoungKept'
  BY DEF RetentionInv, YoungKept, Old
<1>5. DeletionsOnRecord'
  BY <1>1 DEF RetentionInv, DeletionsOnRecord
<1>6. OrphansExplained'
  BY <1>1 DEF RetentionInv, OrphansExplained
<1> QED
  BY <1>2, <1>3, <1>4, <1>5, <1>6 DEF RetentionInv

(* What typing says of a sweep at work.                                    *)
LEMMA SweepTyped ==
  ASSUME RetentionInv, NEW s \in Sweeps
  PROVE  /\ sweep[s].at \in {"idle", "policy", "listed", "object_gone", "record_gone"}
         /\ sweep[s].days \in Policies \cup {0}
         /\ sweep[s].todo \subseteq uploaded
         /\ sweep[s].doc \in Documents \cup {-1}
         /\ \A d \in sweep[s].todo : Old(d)
         /\ sweep[s].at \in {"object_gone", "record_gone"}
              => sweep[s].doc \in uploaded /\ Old(sweep[s].doc) /\ sweep[s].doc # -1
         /\ uploaded \subseteq Documents /\ -1 \notin Documents
         /\ deletions \subseteq uploaded /\ mishap \subseteq Documents
         /\ record \subseteq uploaded /\ object \subseteq uploaded
  BY RetentionAssumption DEF RetentionInv, RetentionTypeOK, SweepsOldOnly

(* A sweep that moves on keeps the type of all sweeps.                     *)
LEMMA SweepEntries ==
  ASSUME RetentionInv, NEW s \in Sweeps
  PROVE  /\ NextDocument(s) => \E e \in Entries : /\ sweep' = [sweep EXCEPT ![s] = e]
                                                 /\ e.at = "listed" /\ e.todo = sweep[s].todo
         /\ \A stage \in {"listed", "object_gone"}, d \in Documents, doc \in Documents \cup {-1} :
              Takes(s, stage, d, doc) =>
                \E e \in Entries : /\ sweep' = [sweep EXCEPT ![s] = e]
                                   /\ e.at = stage /\ e.doc = doc
                                   /\ e.todo = sweep[s].todo \ {d}
         /\ Rest \in Entries /\ Rest.at = "idle" /\ Rest.todo = {}
<1>1. sweep[s] \in Entries
  BY DEF RetentionInv, RetentionTypeOK, Entries
<1>2. ASSUME NextDocument(s)
      PROVE  \E e \in Entries : /\ sweep' = [sweep EXCEPT ![s] = e]
                                /\ e.at = "listed" /\ e.todo = sweep[s].todo
  <2> DEFINE e == [sweep[s] EXCEPT !.at = "listed", !.doc = -1]
  <2>1. e \in Entries /\ e.at = "listed" /\ e.todo = sweep[s].todo
    BY <1>1 DEF Entries
  <2>2. sweep' = [sweep EXCEPT ![s] = e]
    BY <1>2 DEF NextDocument
  <2> QED
    BY <2>1, <2>2
<1>3. ASSUME NEW stage \in {"listed", "object_gone"}, NEW d \in Documents,
             NEW doc \in Documents \cup {-1}, Takes(s, stage, d, doc)
      PROVE  \E e \in Entries : /\ sweep' = [sweep EXCEPT ![s] = e]
                                /\ e.at = stage /\ e.doc = doc
                                /\ e.todo = sweep[s].todo \ {d}
  <2> DEFINE e == [at |-> stage, days |-> sweep[s].days, todo |-> sweep[s].todo \ {d}, doc |-> doc]
  <2>1. e \in Entries
    BY <1>1 DEF Entries
  <2>2. sweep' = [sweep EXCEPT ![s] = e]
    BY <1>3 DEF Takes
  <2> QED
    BY <2>1, <2>2
<1>4. Rest \in Entries /\ Rest.at = "idle" /\ Rest.todo = {}
  BY DEF Rest, Entries
<1> QED
  BY <1>2, <1>3, <1>4

(* Beginning and listing put only old documents on the list.               *)
LEMMA SweepBeginsOK ==
  ASSUME RetentionInv, RetentionNext, NEW s \in Sweeps, BeginSweep(s) \/ ListStale(s)
  PROVE  RetentionInv'
<1>1. UNCHANGED <<today, policy, settings, uploaded, created, record, object, pipe,
                  deletions, mishap>>
  BY DEF BeginSweep, ListStale
<1>2. sweep[s].at \notin {"object_gone", "record_gone"}
  BY DEF BeginSweep, ListStale
<1>3. PICK e \in Entries : /\ sweep' = [sweep EXCEPT ![s] = e]
                           /\ e.at \notin {"object_gone", "record_gone"}
                           /\ \A d \in e.todo : d \in uploaded /\ Old(d)
  <2>1. CASE BeginSweep(s)
    <3> DEFINE e == [at |-> "policy", days |-> policy, todo |-> {}, doc |-> -1]
    <3>1. e \in Entries
      BY DEF RetentionInv, RetentionTypeOK, Entries
    <3> QED
      BY <2>1, <3>1 DEF BeginSweep
  <2>2. CASE ListStale(s) /\ Sweepable(sweep[s].days)
    <3> DEFINE e == [at |-> "listed", days |-> sweep[s].days, todo |-> Stale(sweep[s].days),
                     doc |-> -1]
    <3>1. ASSUME NEW d \in Stale(sweep[s].days)
          PROVE  d \in uploaded /\ d \in Documents /\ Old(d)
      <4>1. d \in record /\ created[d] < today - sweep[s].days
        BY DEF Stale, FirstFew
      <4>2. d \in uploaded /\ d \in Documents /\ created[d] \in Nat /\ today \in Nat
        BY <4>1, SweepTyped DEF RetentionInv, RetentionTypeOK
      <4>3. sweep[s].days \in Nat /\ sweep[s].days >= Floor /\ Floor \in Nat
        <5>1. sweep[s].days \in Nat /\ Floor \in Nat
          <6>1. sweep[s].days \in Policies \cup {0}
            BY SweepTyped
          <6>2. Policies \subseteq Nat /\ Floor \in Nat
            BY RetentionAssumption
          <6>3. 0 \in Nat
            OBVIOUS
          <6> QED
            BY <6>1, <6>2, <6>3
        <5> QED
          BY <2>2, <5>1 DEF Sweepable
      <4> QED
        BY <4>1, <4>2, <4>3 DEF Old
    <3>2. e \in Entries
      BY <3>1, SweepTyped DEF Entries
    <3>3. sweep' = [sweep EXCEPT ![s] = e]
      BY <2>2 DEF ListStale
    <3> QED
      BY <3>1, <3>2, <3>3
  <2>3. CASE ListStale(s) /\ ~Sweepable(sweep[s].days)
    BY <2>3, SweepEntries DEF ListStale
  <2> QED
    BY <2>1, <2>2, <2>3
<1> QED
  BY <1>1, <1>2, <1>3, SweepTyped, SweepMoves

(* Deleting an object takes an old document in hand, or a mishap.          *)
LEMMA DeleteObjectOK ==
  ASSUME RetentionInv, RetentionNext, NEW s \in Sweeps, NEW d \in Documents,
         DeleteObject(s, d)
  PROVE  RetentionInv'
<1>1. /\ UNCHANGED <<today, policy, settings, uploaded, created, record, pipe, deletions>>
      /\ sweep[s].at = "listed" /\ d \in sweep[s].todo
  BY DEF DeleteObject
<1>2. d \in uploaded /\ Old(d)
  BY <1>1, SweepTyped
<1>3. CASE object' = object \ {d} /\ Takes(s, "object_gone", d, d) /\ UNCHANGED mishap
  <2>1. PICK e \in Entries : /\ sweep' = [sweep EXCEPT ![s] = e]
                             /\ e.at = "object_gone" /\ e.doc = d
                             /\ e.todo = sweep[s].todo \ {d}
    BY <1>3, SweepEntries
  <2> QED
    BY <1>1, <1>2, <1>3, <2>1, SweepTyped, SweepMoves
<1>4. CASE /\ object' \in {object, object \ {d}}
           /\ Takes(s, "listed", d, -1) /\ mishap' = mishap \cup {d}
  <2>1. PICK e \in Entries : /\ sweep' = [sweep EXCEPT ![s] = e]
                             /\ e.at = "listed" /\ e.todo = sweep[s].todo \ {d}
    BY <1>4, SweepEntries
  <2> QED
    BY <1>1, <1>2, <1>4, <2>1, SweepTyped, SweepMoves
<1> QED
  BY <1>3, <1>4 DEF DeleteObject

(* Deleting a record leaves the row to be written, or a mishap.            *)
LEMMA DeleteRecordOK ==
  ASSUME RetentionInv, RetentionNext, NEW s \in Sweeps, DeleteRecord(s)
  PROVE  RetentionInv'
<1> DEFINE d == sweep[s].doc
<1>1. /\ UNCHANGED <<today, policy, settings, uploaded, created, object, pipe, deletions>>
      /\ sweep[s].at = "object_gone"
  BY DEF DeleteRecord
<1>2. d \in uploaded /\ Old(d) /\ d \in Documents
  BY <1>1, SweepTyped
<1>3. CASE /\ d \in record /\ record' = record \ {d} /\ UNCHANGED mishap
           /\ sweep' = [sweep EXCEPT ![s].at = AfterDelete(s)]
  <2> DEFINE e == [sweep[s] EXCEPT !.at = "record_gone"]
  <2>1. /\ e \in Entries /\ e.at = "record_gone" /\ e.doc = d /\ e.todo = sweep[s].todo
        /\ sweep' = [sweep EXCEPT ![s] = e]
    BY <1>3 DEF RetentionInv, RetentionTypeOK, Entries, AfterDelete
  <2> HIDE DEF e
  <2>2. /\ mishap \subseteq mishap' /\ mishap' \subseteq Documents
        /\ deletions \subseteq deletions' /\ deletions' \subseteq uploaded
        /\ record' \subseteq record /\ object' \subseteq object
    BY <1>1, <1>2, <1>3, SweepTyped
  <2>3. \A q \in e.todo : q \in uploaded /\ Old(q)
    BY <2>1, SweepTyped
  <2>4. \A q \in record \ record' : q = d
    BY <1>3
  <2> QED
    BY <1>1, <1>2, <2>1, <2>2, <2>3, <2>4, SweepMoves
<1>4. CASE /\ NextDocument(s) /\ mishap \subseteq mishap'
           /\ \/ d \notin record /\ UNCHANGED <<record, mishap>>
              \/ record' \in {record, record \ {d}} /\ mishap' = mishap \cup {d}
  <2>1. PICK e \in Entries : /\ sweep' = [sweep EXCEPT ![s] = e]
                             /\ e.at = "listed" /\ e.todo = sweep[s].todo
    BY <1>4, SweepEntries
  <2>2. /\ mishap \subseteq mishap' /\ mishap' \subseteq Documents
        /\ deletions \subseteq deletions' /\ deletions' \subseteq uploaded
        /\ record' \subseteq record /\ object' \subseteq object
    BY <1>1, <1>2, <1>4, SweepTyped
  <2>3. \A q \in e.todo : q \in uploaded /\ Old(q)
    BY <2>1, SweepTyped
  <2>4. \A q \in record \ record' : q = d /\ d \in mishap'
    BY <1>4
  <2>5. d \notin record' \/ d \in mishap'
    BY <1>4
  <2> QED
    BY <1>1, <1>2, <2>1, <2>2, <2>3, <2>4, <2>5, SweepMoves
<1> QED
  BY <1>3, <1>4 DEF DeleteRecord

(* Every step of a sweep keeps the invariant.                              *)
LEMMA SweepStepOK ==
  ASSUME RetentionInv, RetentionNext, NEW s \in Sweeps, SweepStep(s)
  PROVE  RetentionInv'
<1>1. CASE AuditDeletion(s)
  <2>1. PICK e \in Entries : /\ sweep' = [sweep EXCEPT ![s] = e]
                             /\ e.at = "listed" /\ e.todo = sweep[s].todo
    BY <1>1, SweepEntries DEF AuditDeletion
  <2>2. /\ UNCHANGED <<today, policy, settings, uploaded, created, record, object, pipe>>
        /\ sweep[s].at = "record_gone"
        /\ \/ deletions' = deletions \cup {sweep[s].doc} /\ UNCHANGED mishap
           \/ UNCHANGED deletions /\ mishap' = mishap \cup {sweep[s].doc}
    BY <1>1 DEF AuditDeletion
  <2>3. /\ mishap \subseteq mishap' /\ mishap' \subseteq Documents
        /\ deletions \subseteq deletions' /\ deletions' \subseteq uploaded
        /\ record' \subseteq record /\ object' \subseteq object
    BY <2>2, SweepTyped
  <2>4. \A q \in e.todo : q \in uploaded /\ Old(q)
    BY <2>1, SweepTyped
  <2>5. sweep[s].doc \in mishap' \cup deletions'
    BY <2>2
  <2> QED
    BY <2>1, <2>2, <2>3, <2>4, <2>5, SweepMoves
<1>2. CASE SweepEnds(s)
  BY <1>2, SweepEntries, SweepTyped, SweepMoves DEF SweepEnds
<1>3. CASE SweepDies(s)
  <2>1. Rest \in Entries /\ Rest.at = "idle" /\ Rest.todo = {}
    BY SweepEntries
  <2>2. /\ UNCHANGED <<today, policy, settings, uploaded, created, record, object, pipe, deletions>>
        /\ sweep' = [sweep EXCEPT ![s] = Rest]
        /\ mishap' = mishap \cup ({sweep[s].doc} \ {-1})
    BY <1>3 DEF SweepDies
  <2>3. /\ mishap \subseteq mishap' /\ mishap' \subseteq Documents
        /\ deletions' \subseteq uploaded
        /\ sweep[s].at \in {"object_gone", "record_gone"} => sweep[s].doc \in mishap'
    BY <2>2, SweepTyped
  <2> QED
    BY <2>1, <2>2, <2>3, SweepMoves
<1> QED
  BY <1>1, <1>2, <1>3, SweepBeginsOK, DeleteObjectOK, DeleteRecordOK DEF SweepStep

(* The inductive invariant of the retention sweep holds throughout.        *)
THEOREM RetentionInvariant == RetentionSpec => []RetentionInv
<1>1. ASSUME RetentionInv, [RetentionNext]_retentionVars
      PROVE  RetentionInv'
  <2>1. CASE UNCHANGED retentionVars
    BY <1>1, <2>1
    DEF retentionVars, RetentionInv, RetentionTypeOK, SweepsOldOnly, Old, YoungKept,
        DeletionsOnRecord, OrphansExplained
  <2>2. CASE RetentionNext
    BY <1>1, <2>2, OutsideTheSweepOK, SweepStepOK DEF RetentionNext
  <2> QED
    BY <1>1, <2>1, <2>2
<1> QED
  BY <1>1, RetentionInitOK, PTL DEF RetentionSpec

(* Whatever the policy, its changes, overlapping sweeps and failures:      *)
(* nothing young is taken, and nothing goes without evidence or an error.  *)
THEOREM RetentionIsHonest == RetentionSpec => []RetentionHonest
<1>1. RetentionInv => RetentionHonest
  BY DEF RetentionInv, RetentionHonest
<1> QED
  BY <1>1, RetentionInvariant, PTL

(* Type correctness of the retention sweep.                                *)
THEOREM RetentionTyped == RetentionSpec => []RetentionTypeOK
<1>1. RetentionInv => RetentionTypeOK
  BY DEF RetentionInv
<1> QED
  BY <1>1, RetentionInvariant, PTL

-----------------------------------------------------------------------------
(* Task rows.  Callbacks are only about tasks that were queued, which only *)
(* the cloud does; handlers only run inline.                               *)
QueuesInCloud ==
  /\ onQueue # {} => mode = "cloud"
  /\ \A b \in Callbacks : callback[b] # NoCallback => callback[b].for \in onQueue
  /\ \A t \in Jobs : job[t].at \in {"run", "working", "worked", "done", "fail"} => mode = "inline"

(* Before its work nothing of a task is produced or queued; after it, it   *)
(* is produced.                                                            *)
WorkKnown ==
  \A t \in Jobs :
    /\ job[t].at \in {"new", "created", "dispatch", "run", "working"} => t \notin produced \cup onQueue
    /\ job[t].at \in {"worked", "done"} => t \in produced
    /\ job[t].at \in {"fail", "fail_again", "raising"} /\ t \notin faulted
         => t \notin produced \cup onQueue
    /\ job[t].at = "reread" =>
         IF mode = "cloud" THEN t \in onQueue
         ELSE t \in produced /\ row[t].status = "succeeded" /\ row[t].result

(* A row no call about which raised is not ahead of its thread.            *)
RowsFollow ==
  \A t \in Jobs :
    /\ job[t].at = "new" => row[t] = NoRow
    /\ t \notin faulted =>
         /\ job[t].at \in {"created", "dispatch", "run", "working", "worked", "done", "fail"}
              => row[t].status \notin Terminal
         /\ job[t].at = "fail_again" => row[t].status # "succeeded"
         /\ job[t].at = "raising" => row[t].status = "failed"

TaskInv ==
  /\ TaskTypeOK /\ QueuesInCloud /\ WorkKnown /\ RowsFollow /\ AnswersBacked

(* The invariant holds before any task is asked for.                       *)
LEMMA TaskInitOK == TaskInit => TaskInv
<1> SUFFICES ASSUME TaskInit PROVE TaskInv
  OBVIOUS
<1>1. NoRow \in TaskRow /\ NoCallback \in
        [for : Jobs \cup {"nobody"}, status : RowState, copy : TaskRow]
  BY DEF NoRow, TaskRow, RowState, NoCallback
<1>2. TaskTypeOK
  BY <1>1 DEF TaskInit, TaskTypeOK, Stages
<1>3. \A t \in Jobs : job[t].at = "new" /\ row[t] = NoRow
  BY DEF TaskInit
<1> QED
  BY <1>2, <1>3
  DEF TaskInit, TaskInv, QueuesInCloud, WorkKnown, RowsFollow, AnswersBacked

(* A step of a task's thread, seen from outside.                           *)
JobStates == [at : Stages, holds : BOOLEAN, copy : TaskRow]

(* A step of one thread and its row keeps the invariant if it keeps it for *)
(* that task.                                                              *)
LEMMA JobMoves ==
  ASSUME TaskInv, NEW t \in Jobs, NEW j \in JobStates, NEW cells \in TaskRow,
         UNCHANGED <<mode, kind, callback>>,
         job' = [job EXCEPT ![t] = j],
         row' = [row EXCEPT ![t] = cells],
         charge' \in [Jobs -> {"none", "charged", "released"}],
         onQueue' \in {onQueue, onQueue \cup {t}},
         onQueue' # onQueue => mode = "cloud",
         produced' \in {produced, produced \cup {t}},
         faulted' \in {faulted, faulted \cup {t}},
         j.at \in {"run", "working", "worked", "done", "fail"} => mode = "inline",
         j.at \in {"new", "created", "dispatch", "run", "working"}
           => t \notin produced' \cup onQueue',
         j.at \in {"worked", "done"} => t \in produced',
         j.at \in {"reread", "answered"} =>
           IF mode = "cloud" THEN t \in onQueue'
           ELSE t \in produced' /\ cells.status = "succeeded" /\ cells.result,
         j.at = "new" => cells = NoRow,
         t \notin faulted' =>
           /\ j.at \in {"fail", "fail_again", "raising", "refused"}
                => t \notin produced' \cup onQueue'
           /\ j.at \in {"created", "dispatch", "run", "working", "worked", "done", "fail"}
                => cells.status \notin Terminal
           /\ j.at = "fail_again" => cells.status # "succeeded"
           /\ j.at \in {"raising", "refused"} => cells.status = "failed"
  PROVE  TaskInv'
<1>1. \A u \in Jobs : /\ job'[u] = IF u = t THEN j ELSE job[u]
                      /\ row'[u] = IF u = t THEN cells ELSE row[u]
  BY DEF TaskInv, TaskTypeOK
<1>2. TaskTypeOK'
  BY DEF TaskInv, TaskTypeOK, JobStates
<1>3. QueuesInCloud'
  BY <1>1 DEF TaskInv, QueuesInCloud
<1>4. WorkKnown'
  BY <1>1 DEF TaskInv, WorkKnown
<1>5. RowsFollow'
  BY <1>1 DEF TaskInv, RowsFollow
<1>6. AnswersBacked'
  BY <1>1 DEF TaskInv, AnswersBacked
<1> QED
  BY <1>2, <1>3, <1>4, <1>5, <1>6 DEF TaskInv

(* What typing says of one task, in the form of the lemma above.           *)
LEMMA JobTyped ==
  ASSUME TaskInv, NEW t \in Jobs
  PROVE  /\ job[t] \in JobStates /\ row[t] \in TaskRow /\ NoRow \in TaskRow
         /\ row = [row EXCEPT ![t] = row[t]]
         /\ charge \in [Jobs -> {"none", "charged", "released"}]
         /\ \A stage \in Stages :
              Goto(t, stage) =>
                \E j \in JobStates : job' = [job EXCEPT ![t] = j] /\ j.at = stage
<1>1. NoRow \in TaskRow
  BY DEF NoRow, TaskRow, RowState
<1>2. ASSUME NEW stage \in Stages, Goto(t, stage)
      PROVE  \E j \in JobStates : job' = [job EXCEPT ![t] = j] /\ j.at = stage
  <2> DEFINE j == [at |-> stage, holds |-> FALSE, copy |-> NoRow]
  <2>1. j \in JobStates
    BY <1>1 DEF JobStates
  <2> QED
    BY <1>2, <2>1 DEF Goto
<1> QED
  BY <1>1, <1>2 DEF TaskInv, TaskTypeOK, JobStates

(* Steps that only move the thread on.                                     *)
LEMMA ThreadGoes ==
  ASSUME TaskInv, NEW t \in Jobs, NEW stage \in Stages, Goto(t, stage),
         UNCHANGED <<mode, kind, row, onQueue, callback>>,
         charge' \in [Jobs -> {"none", "charged", "released"}],
         produced' \in {produced, produced \cup {t}},
         faulted' \in {faulted, faulted \cup {t}},
         stage \in {"run", "working", "worked", "done", "fail"} => mode = "inline",
         stage \in {"new", "created", "dispatch", "run", "working"}
           => t \notin produced' \cup onQueue,
         stage \in {"worked", "done"} => t \in produced',
         stage \in {"reread", "answered"} =>
           IF mode = "cloud" THEN t \in onQueue
           ELSE t \in produced' /\ row[t].status = "succeeded" /\ row[t].result,
         stage # "new",
         t \notin faulted' =>
           /\ stage \in {"fail", "fail_again", "raising", "refused"}
                => t \notin produced' \cup onQueue
           /\ stage \in {"created", "dispatch", "run", "working", "worked", "done", "fail"}
                => row[t].status \notin Terminal
           /\ stage = "fail_again" => row[t].status # "succeeded"
           /\ stage \in {"raising", "refused"} => row[t].status = "failed"
  PROVE  TaskInv'
<1>1. PICK j \in JobStates : job' = [job EXCEPT ![t] = j] /\ j.at = stage
  BY JobTyped
<1>2. row' = [row EXCEPT ![t] = row[t]] /\ row[t] \in TaskRow
  BY JobTyped
<1> QED
  BY <1>1, <1>2, JobMoves

(* Creating a row, stored or not.                                          *)
LEMMA CreateRowOK ==
  ASSUME TaskInv, NEW t \in Jobs, CreateRow(t)
  PROVE  TaskInv'
<1> DEFINE queued == [NoRow EXCEPT !.status = "queued"]
<1>1. queued \in TaskRow /\ queued.status \notin Terminal
  BY DEF NoRow, TaskRow, RowState, Terminal
<1>2. /\ job[t].at = "new" /\ t \notin produced \cup onQueue
      /\ UNCHANGED <<mode, kind, onQueue, produced, charge, callback>>
  BY DEF CreateRow, TaskInv, WorkKnown
<1> HIDE DEF queued
<1>3. CASE row' = [row EXCEPT ![t] = queued] /\ Goto(t, "created") /\ UNCHANGED faulted
  <2>1. PICK j \in JobStates : job' = [job EXCEPT ![t] = j] /\ j.at = "created"
    BY <1>3, JobTyped DEF Stages
  <2> QED
    BY <1>1, <1>2, <1>3, <2>1, JobTyped, JobMoves
<1>4. CASE row' \in {row, [row EXCEPT ![t] = queued]} /\ Goto(t, "raising") /\ GoesWrong(t)
  <2>1. PICK j \in JobStates : job' = [job EXCEPT ![t] = j] /\ j.at = "raising"
    BY <1>4, JobTyped DEF Stages
  <2>2. PICK cells \in TaskRow : row' = [row EXCEPT ![t] = cells]
    BY <1>1, <1>4, JobTyped
  <2> QED
    BY <1>2, <1>4, <2>1, <2>2, JobTyped, JobMoves DEF GoesWrong
<1> QED
  BY <1>3, <1>4 DEF CreateRow, queued

(* The audit row and the two dispatchers.                                  *)
LEMMA DispatchOK ==
  ASSUME TaskInv, NEW t \in Jobs, AuditCreated(t) \/ DispatchInline(t) \/ DispatchCloud(t)
  PROVE  TaskInv'
<1>1. /\ t \notin produced \cup onQueue
      /\ t \notin faulted => row[t].status \notin Terminal
      /\ UNCHANGED <<mode, kind, row, produced, charge, callback>>
  BY DEF AuditCreated, DispatchInline, DispatchCloud, TaskInv, WorkKnown, RowsFollow
<1>2. CASE AuditCreated(t)
  BY <1>1, <1>2, JobTyped, ThreadGoes DEF AuditCreated, GoesWrong, Stages
<1>3. CASE DispatchInline(t)
  BY <1>1, <1>3, JobTyped, ThreadGoes DEF DispatchInline, Stages, Transitions, Terminal
<1>4. CASE DispatchCloud(t) /\ UNCHANGED onQueue /\ Goto(t, "fail_again")
  BY <1>1, <1>4, JobTyped, ThreadGoes
  DEF DispatchCloud, GoesWrong, Stages, Transitions, Terminal
<1>5. CASE DispatchCloud(t) /\ onQueue' = onQueue \cup {t}
  <2>1. PICK stage \in {"reread", "fail_again"} :
          /\ Goto(t, stage)
          /\ stage = "reread" => UNCHANGED faulted
          /\ stage = "fail_again" => faulted' = faulted \cup {t}
    BY <1>1, <1>5 DEF DispatchCloud, GoesWrong
  <2>2. PICK j \in JobStates : job' = [job EXCEPT ![t] = j] /\ j.at = stage
    BY <2>1, JobTyped DEF Stages, Transitions
  <2>3. /\ mode = "cloud" /\ UNCHANGED <<mode, kind, produced, charge, callback>>
        /\ row' = [row EXCEPT ![t] = row[t]] /\ row[t] \in TaskRow
    BY <1>1, <1>5, JobTyped DEF DispatchCloud
  <2>4. CASE stage = "reread"
    <3>1. t \in onQueue' /\ faulted' = faulted /\ j.at = "reread"
      BY <1>5, <2>1, <2>2, <2>4
    <3> QED
      BY <1>5, <2>2, <2>3, <3>1, JobTyped, JobMoves
  <2>5. CASE stage = "fail_again"
    <3>1. t \in faulted' /\ faulted' = faulted \cup {t} /\ j.at = "fail_again"
      BY <2>1, <2>2, <2>5
    <3> QED
      BY <1>5, <2>2, <2>3, <3>1, JobTyped, JobMoves
  <2> QED
    BY <2>1, <2>4, <2>5
<1> QED
  BY <1>2, <1>3, <1>4, <1>5 DEF DispatchCloud

(* The work, the notification, the answer, the refund, a death.            *)
LEMMA WorkingOK ==
  ASSUME TaskInv, NEW t \in Jobs,
         Work(t) \/ Notify(t) \/ Reread(t) \/ ReleaseCharge(t) \/ ThreadDies(t)
  PROVE  TaskInv'
<1>1. CASE Work(t)
  BY <1>1, JobTyped, ThreadGoes
  DEF Work, Stages, Transitions, TaskInv, QueuesInCloud, WorkKnown, RowsFollow
<1>2. CASE Notify(t)
  BY <1>2, JobTyped, ThreadGoes
  DEF Notify, GoesWrong, Stages, Transitions, TaskInv, QueuesInCloud, WorkKnown, RowsFollow
<1>3. CASE Reread(t)
  BY <1>3, JobTyped, ThreadGoes DEF Reread, GoesWrong, Stages, TaskInv, WorkKnown
<1>4. CASE ReleaseCharge(t)
  <2>1. charge' \in [Jobs -> {"none", "charged", "released"}]
    BY <1>4, JobTyped DEF ReleaseCharge
  <2>2. /\ UNCHANGED <<mode, kind, row, onQueue, produced, callback, faulted>>
        /\ Goto(t, "refused") /\ "refused" \in Stages
    BY <1>4 DEF ReleaseCharge, Stages
  <2>3. t \notin faulted => row[t].status = "failed" /\ t \notin produced \cup onQueue
    BY <1>4 DEF ReleaseCharge, TaskInv, WorkKnown, RowsFollow
  <2> QED
    BY <2>1, <2>2, <2>3, ThreadGoes
<1>5. CASE ThreadDies(t)
  BY <1>5, JobTyped, ThreadGoes DEF ThreadDies, GoesWrong, Stages
<1> QED
  BY <1>1, <1>2, <1>3, <1>4, <1>5

(* The reading half of a transition.                                       *)
LEMMA MarkReadOK ==
  ASSUME TaskInv, NEW t \in Jobs, MarkRead(t)
  PROVE  TaskInv'
<1>1. /\ UNCHANGED <<mode, kind, row, onQueue, produced, charge, callback>>
      /\ job[t].at \in Transitions
  BY DEF MarkRead
<1>2. CASE job' = [job EXCEPT ![t] = [at |-> job[t].at, holds |-> TRUE, copy |-> row[t]]]
           /\ UNCHANGED faulted
  <2> DEFINE j == [at |-> job[t].at, holds |-> TRUE, copy |-> row[t]]
  <2>1. j \in JobStates /\ j.at = job[t].at /\ job' = [job EXCEPT ![t] = j]
    BY <1>2, JobTyped DEF JobStates
  <2>2. row' = [row EXCEPT ![t] = row[t]] /\ row[t] \in TaskRow
    BY <1>1, JobTyped
  <2> HIDE DEF j
  <2>3. /\ j.at \in {"run", "done", "fail", "fail_again"}
        /\ j.at \in {"run", "done", "fail"} => mode = "inline"
        /\ j.at = "run" => t \notin produced \cup onQueue
        /\ j.at = "done" => t \in produced
        /\ t \notin faulted =>
             /\ j.at \in {"fail", "fail_again"} => t \notin produced \cup onQueue
             /\ j.at \in {"run", "done", "fail"} => row[t].status \notin Terminal
             /\ j.at = "fail_again" => row[t].status # "succeeded"
    BY <1>1, <2>1 DEF Transitions, TaskInv, QueuesInCloud, WorkKnown, RowsFollow
  <2>4. /\ UNCHANGED <<mode, kind, onQueue, produced, callback, faulted>>
        /\ charge' \in [Jobs -> {"none", "charged", "released"}]
    BY <1>1, <1>2, JobTyped
  <2> QED
    BY <2>1, <2>2, <2>3, <2>4, JobMoves
<1>3. CASE Goto(t, Escape(job[t].at)) /\ GoesWrong(t)
  BY <1>1, <1>3, JobTyped, ThreadGoes DEF Escape, GoesWrong, Stages, Transitions, TaskInv,
                                          QueuesInCloud
<1> QED
  BY <1>2, <1>3 DEF MarkRead

(* What a transition stores.                                               *)
LEMMA ChangedTyped ==
  ASSUME NEW copy \in TaskRow, NEW status \in RowState
  PROVE  /\ Changed(copy, status) \in TaskRow
         /\ Changed(copy, status).status = status
         /\ status = "succeeded" => Changed(copy, status).result
  BY DEF Changed, TaskRow

(* The writing half of a transition.                                       *)
LEMMA MarkWriteOK ==
  ASSUME TaskInv, NEW t \in Jobs, MarkWrite(t)
  PROVE  TaskInv'
<1> DEFINE written == Changed(job[t].copy, Target(job[t].at))
<1>1. /\ UNCHANGED <<mode, kind, onQueue, produced, charge, callback>>
      /\ job[t].at \in {"run", "done", "fail", "fail_again"}
  BY DEF MarkWrite, Transitions
<1>2. Target(job[t].at) \in RowState /\ job[t].copy \in TaskRow
  BY <1>1, JobTyped DEF Target, RowState, JobStates
<1>3. /\ written \in TaskRow /\ written.status = Target(job[t].at)
      /\ Target(job[t].at) = "succeeded" => written.result
  BY <1>2, ChangedTyped
<1> HIDE DEF written
<1>4. CASE row' = [row EXCEPT ![t] = written] /\ Goto(t, AfterMark(job[t].at)) /\ UNCHANGED faulted
  <2>1. AfterMark(job[t].at) \in Stages
    BY <1>1 DEF AfterMark, Stages, Transitions
  <2>2. PICK j \in JobStates : job' = [job EXCEPT ![t] = j] /\ j.at = AfterMark(job[t].at)
    BY <1>4, <2>1, JobTyped
  <2> QED
    BY <1>1, <1>3, <1>4, <2>2, JobTyped, JobMoves
    DEF AfterMark, Target, Terminal, TaskInv, QueuesInCloud, WorkKnown
<1>5. CASE row' \in {row, [row EXCEPT ![t] = written]} /\ Goto(t, Escape(job[t].at)) /\ GoesWrong(t)
  <2>1. PICK stage \in {"fail", "fail_again", "raising"} :
          Goto(t, stage) /\ (stage = "fail" => mode = "inline")
    BY <1>1, <1>5 DEF Escape, TaskInv, QueuesInCloud
  <2>2. PICK j \in JobStates : job' = [job EXCEPT ![t] = j] /\ j.at = stage
    BY <2>1, JobTyped DEF Stages, Transitions
  <2>3. PICK cells \in TaskRow : row' = [row EXCEPT ![t] = cells]
    BY <1>3, <1>5, JobTyped
  <2> QED
    BY <1>1, <1>5, <2>1, <2>2, <2>3, JobTyped, JobMoves DEF GoesWrong
<1> QED
  BY <1>4, <1>5 DEF MarkWrite, written

(* The agents and the callbacks.                                           *)
LEMMA CloudOK ==
  ASSUME TaskInv,
         \/ \E t \in Jobs : AgentWorks(t)
         \/ \E b \in Callbacks : CallbackStep(b)
  PROVE  TaskInv'
<1>1. ASSUME NEW t \in Jobs, AgentWorks(t)
      PROVE  TaskInv'
  <2>1. job' = [job EXCEPT ![t] = job[t]] /\ row' = [row EXCEPT ![t] = row[t]]
    BY <1>1, JobTyped DEF AgentWorks, TaskInv, TaskTypeOK
  <2>2. onQueue # {} /\ mode = "cloud"
    BY <1>1 DEF AgentWorks, TaskInv, QueuesInCloud
  <2>3. /\ UNCHANGED <<mode, kind, onQueue, charge, callback, faulted>>
        /\ t \in onQueue /\ produced' = produced \cup {t}
    BY <1>1 DEF AgentWorks
  <2>4. /\ job[t].at \notin {"new", "created", "dispatch", "run", "working", "worked", "done", "fail"}
        /\ t \notin faulted => job[t].at \notin {"fail_again", "raising", "refused"}
    BY <2>2, <2>3 DEF TaskInv, QueuesInCloud, WorkKnown, AnswersBacked
  <2> QED
    BY <2>1, <2>2, <2>3, <2>4, JobTyped, JobMoves
<1>2. ASSUME NEW b \in Callbacks, NEW t \in Jobs,
             NEW status \in {"running", "succeeded", "failed"}, CallbackRead(b, t, status)
      PROVE  TaskInv'
  BY <1>2, JobTyped
  DEF CallbackRead, TaskInv, TaskTypeOK, QueuesInCloud, WorkKnown, RowsFollow, AnswersBacked,
      RowState
<1>3. ASSUME NEW b \in Callbacks, CallbackWrite(b) \/ CallbackDies(b)
      PROVE  TaskInv'
  <2> DEFINE u == callback[b].for
  <2>1. u \in onQueue /\ u \in Jobs /\ mode = "cloud" /\ callback[b].copy \in TaskRow
        /\ callback[b].status \in RowState
    BY <1>3 DEF CallbackWrite, CallbackDies, TaskInv, TaskTypeOK, QueuesInCloud
  <2>2. Changed(callback[b].copy, callback[b].status) \in TaskRow
    BY <2>1, ChangedTyped
  <2>3. /\ UNCHANGED <<mode, kind, job, onQueue, produced, charge, faulted>>
        /\ callback' = [callback EXCEPT ![b] = NoCallback]
        /\ row' \in [Jobs -> TaskRow]
        /\ \A t \in Jobs \ {u} : row'[t] = row[t]
    <3>1. row \in [Jobs -> TaskRow]
      BY DEF TaskInv, TaskTypeOK
    <3>2. CASE CallbackDies(b)
      BY <3>1, <3>2 DEF CallbackDies
    <3>3. CASE CallbackWrite(b)
      BY <2>1, <2>2, <3>1, <3>3 DEF CallbackWrite
    <3> QED
      BY <1>3, <3>2, <3>3
  <2>4. NoCallback \in [for : Jobs \cup {"nobody"}, status : RowState, copy : TaskRow]
    BY JobTyped, <2>1 DEF NoCallback, RowState
  <2>5. TaskTypeOK'
    BY <2>3, <2>4 DEF TaskInv, TaskTypeOK
  <2>6. job[u].at \notin {"new", "created", "dispatch", "run", "working", "worked", "done", "fail"}
    BY <2>1 DEF TaskInv, QueuesInCloud, WorkKnown
  <2>7. u \notin faulted => job[u].at \notin {"fail_again", "raising", "refused"}
    BY <2>1 DEF TaskInv, WorkKnown, AnswersBacked
  <2>8. QueuesInCloud' /\ WorkKnown'
    BY <2>1, <2>3 DEF TaskInv, TaskTypeOK, QueuesInCloud, WorkKnown
  <2>9. RowsFollow' /\ AnswersBacked'
    BY <2>1, <2>3, <2>6, <2>7 DEF TaskInv, RowsFollow, AnswersBacked
  <2> QED
    BY <2>5, <2>8, <2>9 DEF TaskInv
<1> QED
  BY <1>1, <1>2, <1>3 DEF CallbackStep

(* The inductive invariant of task rows holds throughout.                  *)
THEOREM TaskInvariant == TaskSpec => []TaskInv
<1>1. ASSUME TaskInv, [TaskNext]_taskVars
      PROVE  TaskInv'
  <2>1. CASE UNCHANGED taskVars
    BY <1>1, <2>1
    DEF taskVars, TaskInv, TaskTypeOK, QueuesInCloud, WorkKnown, RowsFollow, AnswersBacked
  <2>2. CASE TaskNext
    BY <1>1, <2>2, CreateRowOK, DispatchOK, WorkingOK, MarkReadOK, MarkWriteOK, CloudOK
    DEF TaskNext, JobStep
  <2> QED
    BY <1>1, <2>1, <2>2
<1> QED
  BY <1>1, TaskInitOK, PTL DEF TaskSpec

(* Type correctness of task rows.                                          *)
THEOREM TasksTyped == TaskSpec => []TaskTypeOK
<1>1. TaskInv => TaskTypeOK
  BY DEF TaskInv
<1> QED
  BY <1>1, TaskInvariant, PTL

(* For any number of tasks and callbacks: an answer is backed by work or   *)
(* by a queued task, a refund by a failure.                                *)
THEOREM AnswersAreBacked == TaskSpec => []AnswersBacked
<1>1. TaskInv => AnswersBacked
  BY DEF TaskInv
<1> QED
  BY <1>1, TaskInvariant, PTL

(* Until its handler runs, a row is as it was created.                     *)
RowsBegin ==
  \A t \in Jobs : job[t].at \in {"created", "dispatch", "run"} => row[t].status = "queued"

LEMMA RowsBeginKept == TaskInv /\ RowsBegin /\ [TaskNext]_taskVars => RowsBegin'
<1> SUFFICES ASSUME TaskInv, RowsBegin, [TaskNext]_taskVars PROVE RowsBegin'
  OBVIOUS
<1>1. job \in [Jobs -> JobStates] /\ row \in [Jobs -> TaskRow]
  BY DEF TaskInv, TaskTypeOK, JobStates
<1>2. ASSUME NEW t \in Jobs, NEW stage, Goto(t, stage),
             \A u \in Jobs \ {t} : row'[u] = row[u],
             stage \in {"created", "dispatch", "run"} => row'[t].status = "queued"
      PROVE  RowsBegin'
  BY <1>1, <1>2 DEF Goto, RowsBegin, JobStates
<1>3. ASSUME NEW t \in Jobs, CreateRow(t)
      PROVE  RowsBegin'
  BY <1>1, <1>2, <1>3 DEF CreateRow, NoRow
<1>4. ASSUME NEW t \in Jobs, AuditCreated(t) \/ DispatchInline(t) \/ DispatchCloud(t)
      PROVE  RowsBegin'
  <2>1. row' = row /\ row[t].status = "queued"
    BY <1>4 DEF AuditCreated, DispatchInline, DispatchCloud, RowsBegin
  <2> QED
    BY <1>2, <1>4, <2>1 DEF AuditCreated, DispatchInline, DispatchCloud
<1>5. ASSUME NEW t \in Jobs, MarkRead(t)
      PROVE  RowsBegin'
  <2>1. row' = row /\ job[t].at \in Transitions
    BY <1>5 DEF MarkRead
  <2>2. CASE Goto(t, Escape(job[t].at))
    BY <1>2, <2>1, <2>2 DEF Escape, Transitions
  <2>3. CASE job' = [job EXCEPT ![t] = [at |-> job[t].at, holds |-> TRUE, copy |-> row[t]]]
    BY <1>1, <2>1, <2>3 DEF RowsBegin, JobStates
  <2> QED
    BY <1>5, <2>2, <2>3 DEF MarkRead
<1>6. ASSUME NEW t \in Jobs, MarkWrite(t)
      PROVE  RowsBegin'
  <2>1. \A u \in Jobs \ {t} : row'[u] = row[u]
    BY <1>1, <1>6 DEF MarkWrite
  <2>2. PICK stage \in {AfterMark(job[t].at), Escape(job[t].at)} : Goto(t, stage)
    BY <1>6 DEF MarkWrite
  <2>3. stage \notin {"created", "dispatch", "run"}
    BY <1>6, <2>2 DEF MarkWrite, AfterMark, Escape, Transitions
  <2> QED
    BY <1>2, <2>1, <2>2, <2>3
<1>7. ASSUME NEW t \in Jobs, Work(t) \/ Notify(t) \/ Reread(t) \/ ReleaseCharge(t) \/ ThreadDies(t)
      PROVE  RowsBegin'
  BY <1>2, <1>7 DEF Work, Notify, Reread, ReleaseCharge, ThreadDies
<1>8. ASSUME UNCHANGED <<job, row>>
      PROVE  RowsBegin'
  BY <1>8 DEF RowsBegin
<1>9. ASSUME NEW b \in Callbacks, CallbackWrite(b)
      PROVE  RowsBegin'
  <2>1. job' = job /\ callback[b].for \in onQueue
    BY <1>9 DEF CallbackWrite, TaskInv, QueuesInCloud
  <2>2. \A u \in Jobs \ {callback[b].for} : row'[u] = row[u]
    BY <1>1, <1>9 DEF CallbackWrite
  <2> QED
    BY <2>1, <2>2 DEF RowsBegin, TaskInv, WorkKnown
<1> QED
  BY <1>3, <1>4, <1>5, <1>6, <1>7, <1>8, <1>9 DEF TaskNext, JobStep, CallbackStep, AgentWorks,
    CallbackRead, CallbackDies, taskVars

LEMMA RowsBeginInvariant == TaskSpec => []RowsBegin
<1>1. TaskInit => RowsBegin
  BY DEF TaskInit, RowsBegin
<1> QED
  BY <1>1, RowsBeginKept, TaskInvariant, PTL DEF TaskSpec

(* For any number of tasks and callbacks a row only moves on: a status     *)
(* goes back only by a callback, and one outcome replaces another only     *)
(* there or in a thread one of whose calls raised.                         *)
THEOREM SettledRowsAreFinal == TaskSpec => SettledRowsStay
<1> DEFINE Settled(t) ==
      row'[t].status # row[t].status =>
        \/ Rank[row[t].status] < Rank[row'[t].status]
        \/ {row[t].status, row'[t].status} \subseteq Terminal /\ t \in faulted
        \/ ByCallback(t)
<1>1. ASSUME TaskInv, RowsBegin, TaskNext
      PROVE  \A u \in Jobs : Settled(u)
  <2> USE <1>1
  <2>1. \A u \in Jobs : (row' = row \/ row'[u] = row[u]) => Settled(u)
    OBVIOUS
  <2>2. row \in [Jobs -> TaskRow]
    BY DEF TaskInv, TaskTypeOK
  <2>3. ASSUME NEW t \in Jobs, CreateRow(t)
        PROVE  \A u \in Jobs : Settled(u)
    <3>1. row[t].status = "none" /\ \A u \in Jobs \ {t} : row'[u] = row[u]
      BY <2>2, <2>3 DEF CreateRow, TaskInv, RowsFollow, NoRow
    <3>2. row'[t].status \in {"none", "queued"}
      BY <2>2, <2>3, <3>1 DEF CreateRow, NoRow
    <3>3. Rank["none"] < Rank["queued"]
      BY DEF Rank
    <3> QED
      BY <2>1, <3>1, <3>2, <3>3
  <2>4. ASSUME NEW t \in Jobs, MarkWrite(t)
        PROVE  \A u \in Jobs : Settled(u)
    <3>1. /\ \A u \in Jobs \ {t} : row'[u] = row[u]
          /\ row'[t] = row[t] \/ row'[t].status = Target(job[t].at)
          /\ job[t].at \in Transitions
      BY <2>2, <2>4 DEF MarkWrite, Changed
    <3>2. row[t].status \in RowState
      BY <2>2 DEF TaskRow
    <3>3. ASSUME job[t].at = "run", row'[t].status = "running" PROVE Settled(t)
      <4>1. row[t].status = "queued"
        BY <3>3 DEF RowsBegin
      <4> QED
        BY <3>3, <4>1 DEF Rank
    <3>4. ASSUME job[t].at # "run", row'[t].status = Target(job[t].at) PROVE Settled(t)
      <4>1. row'[t].status \in Terminal
        BY <3>1, <3>4 DEF Target, Transitions, Terminal
      <4>2. CASE row[t].status \in Terminal /\ t \in faulted
        BY <4>1, <4>2
      <4>3. CASE row[t].status \in Terminal /\ t \notin faulted
        <5>1. row[t].status = row'[t].status
          BY <3>1, <3>4, <4>3 DEF TaskInv, RowsFollow, Transitions, Target, Terminal
        <5> QED
          BY <5>1
      <4>4. CASE row[t].status \notin Terminal
        BY <3>2, <4>1, <4>4 DEF RowState, Terminal, Rank
      <4> QED
        BY <4>2, <4>3, <4>4
    <3>5. Settled(t)
      BY <3>1, <3>3, <3>4 DEF Target
    <3> HIDE DEF Settled
    <3> QED
      BY <2>1, <3>1, <3>5
  <2>5. ASSUME NEW b \in Callbacks, CallbackWrite(b)
        PROVE  \A u \in Jobs : Settled(u)
    <3>1. callback \in [Callbacks -> [for : Jobs \cup {"nobody"}, status : RowState, copy : TaskRow]]
      BY DEF TaskInv, TaskTypeOK
    <3>2. /\ callback'[b] = NoCallback
          /\ \A u \in Jobs : IF u = callback[b].for
               THEN row'[u] = Changed(callback[b].copy, callback[b].status)
               ELSE row'[u] = row[u]
      BY <2>2, <2>5, <3>1 DEF CallbackWrite
    <3> QED
      BY <2>1, <3>2 DEF ByCallback
  <2>6. ASSUME UNCHANGED row
        PROVE  \A u \in Jobs : Settled(u)
    BY <2>1, <2>6
  <2> HIDE DEF Settled
  <2>7. \/ \E t \in Jobs : CreateRow(t) \/ MarkWrite(t)
        \/ \E b \in Callbacks : CallbackWrite(b)
        \/ UNCHANGED row
    BY DEF TaskNext, JobStep, CallbackStep, AuditCreated, DispatchInline, DispatchCloud, MarkRead,
           Work, Notify, Reread, ReleaseCharge, ThreadDies, AgentWorks, CallbackRead, CallbackDies
  <2> QED
    BY <2>3, <2>4, <2>5, <2>6, <2>7
<1>2. TaskInv /\ RowsBegin /\ [TaskNext]_taskVars =>
        [\A t \in Jobs :
           row'[t].status # row[t].status =>
             \/ Rank[row[t].status] < Rank[row'[t].status]
             \/ {row[t].status, row'[t].status} \subseteq Terminal /\ t \in faulted
             \/ ByCallback(t)]_taskVars
  BY <1>1
<1> HIDE DEF Settled
<1> QED
  BY <1>2, TaskInvariant, RowsBeginInvariant, PTL DEF TaskSpec, SettledRowsStay

-----------------------------------------------------------------------------
(* Support.  A request that is past its first look at a ticket knows the   *)
(* ticket exists; one that opens a ticket is alone with its id, and has    *)
(* the only copy of its number.                                            *)
Knows(p) ==
  /\ treq[p].op \in {"update", "reply", "respond"} => Exists(treq[p].id)
  /\ treq[p].op = "update" =>
       p \in Operators /\ treq[p].copy.reference = ticket[treq[p].id].reference

Alone(p) ==
  treq[p].op = "create" =>
    /\ ~Exists(treq[p].id)
    /\ \A q \in People \ {p} : treq[q].id # treq[p].id

RequestsKnow == \A p \in People : Knows(p) /\ Alone(p)

NumbersTaken ==
  /\ \A t \in Tickets : Exists(t) => ticket[t].reference <= counter
  /\ \A p \in People : treq[p].op = "create" =>
       /\ treq[p].copy.reference <= counter
       /\ \A t \in Tickets : Exists(t) => ticket[t].reference # treq[p].copy.reference
       /\ \A q \in People \ {p} : treq[q].op = "create" =>
            treq[q].copy.reference # treq[p].copy.reference

(* What is about to be stored is as honest about whose turn it is as what  *)
(* is stored.                                                              *)
CopiesAnswered ==
  \A p \in People : treq[p].op \in {"create", "update"} => Answered(treq[p].copy)

TicketInv ==
  TicketTypeOK /\ RequestsKnow /\ NumbersTaken /\ CopiesAnswered /\ TicketsSound

(* The invariant holds before the first ticket.                            *)
LEMMA TicketInitOK == TicketInit => TicketInv
<1> SUFFICES ASSUME TicketInit PROVE TicketInv
  OBVIOUS
<1>1. NoRequest \in TicketRequest /\ NoRequest.op = "idle"
  BY DEF NoRequest, TicketRequest
<1>2. TicketTypeOK
  BY <1>1 DEF TicketInit, TicketTypeOK
<1>3. \A t \in Tickets : ~Exists(t)
  BY DEF TicketInit, Exists
<1>4. \A p \in People : treq[p].op = "idle"
  BY <1>1 DEF TicketInit
<1> QED
  BY <1>2, <1>3, <1>4
  DEF TicketInit, TicketInv, RequestsKnow, Knows, Alone, NumbersTaken, CopiesAnswered, TicketsSound,
      ReferencesUnique, WaitingMeansAnswered, RowsHaveTickets

(* What typing says of one request.                                        *)
LEMMA RequestTyped ==
  ASSUME TicketInv, NEW p \in People
  PROVE  /\ treq[p] \in TicketRequest
         /\ treq[p].op \in {"idle", "create", "update", "reply", "respond"}
         /\ treq[p].op \in {"create", "update"} => treq[p].copy \in Ticket
         /\ treq[p].op # "idle" => treq[p].id \in Tickets
         /\ treq[p].op = "reply" => treq[p].msg \in Message
         /\ treq[p].op = "respond" => treq[p].msg \in Message \cup {NoMessage}
         /\ treq[p].op = "idle" => treq[p].id = NoTicket
<1>1. treq[p] \in TicketRequest
  BY DEF TicketInv, TicketTypeOK
<1> QED
  BY <1>1 DEF TicketRequest, NoRequest

(* A request in flight is well-typed.                                      *)
LEMMA InFlightTyped ==
  ASSUME NEW t \in Tickets
  PROVE  /\ \A copy \in Ticket : \A op \in {"create", "update"} :
              [op |-> op, id |-> t, msg |-> NoMessage, copy |-> copy] \in TicketRequest
         /\ \A msg \in Message :
              [op |-> "reply", id |-> t, msg |-> msg, copy |-> NoTicket] \in TicketRequest
         /\ \A msg \in Message \cup {NoMessage}, copy \in Ticket \cup {NoTicket} :
              [op |-> "respond", id |-> t, msg |-> msg, copy |-> copy] \in TicketRequest
  BY DEF TicketRequest

(* A message that is sent gets an id of its own.                           *)
LEMMA NewMessageTyped ==
  ASSUME TicketInv, NEW sender \in Senders, NEW internal \in BOOLEAN,
         Sends(NewMessage(sender, internal))
  PROVE  /\ NewMessage(sender, internal) \in Message
         /\ NewMessage(sender, internal).sender = sender
         /\ NewMessage(sender, internal).internal = internal
         /\ usedMessages' \subseteq Messages
<1>1. usedMessages \subseteq Messages /\ usedMessages # Messages
  BY DEF TicketInv, TicketTypeOK, Sends
<1>2. (CHOOSE m \in Messages : m \notin usedMessages) \in Messages
  BY <1>1
<1> QED
  BY <1>1, <1>2 DEF NewMessage, Message, Sends

(* A message keeps a ticket a ticket, with its number, its messages and an *)
(* honest status.                                                          *)
LEMMA AppendedSound ==
  ASSUME NEW tk \in Ticket, NEW msg \in Message
  PROVE  /\ Appended(tk, msg) \in Ticket
         /\ Appended(tk, msg).reference = tk.reference
         /\ tk.thread \subseteq Appended(tk, msg).thread
         /\ Answered(tk) => Answered(Appended(tk, msg))
<1>1. msg.sender \in {"customer", "support"}
  BY DEF Message, Senders
<1>2. StatusAfter(msg, tk.status) \in Statuses
  BY DEF StatusAfter, Statuses, Ticket
<1>3. Appended(tk, msg) \in Ticket
  BY <1>1, <1>2 DEF Appended, Ticket, Message, Senders
<1>4. Answered(tk) => Answered(Appended(tk, msg))
  BY <1>1 DEF Appended, Answered, StatusAfter, Ticket
<1> QED
  BY <1>3, <1>4 DEF Appended, Ticket

(* Everything the invariant says of requests and tickets, unfolded.        *)
LEMMA TicketFacts ==
  ASSUME TicketInv
  PROVE  /\ counter \in Nat
         /\ ticket \in [Tickets -> Ticket \cup {NoTicket}]
         /\ treq \in [People -> TicketRequest]
         /\ usedMessages \subseteq Messages /\ trail \subseteq Row
         /\ NoTicket \notin Ticket /\ NoTicket \notin Tickets /\ NoMessage \notin Message
         /\ \A t \in Tickets : Exists(t) => ticket[t] \in Ticket /\ ticket[t].reference \in Nat
  BY SupportAssumption DEF TicketInv, TicketTypeOK, Exists, Ticket

(* A request that ends, or goes on to its answer, leaves the rest as it    *)
(* is.                                                                     *)
LEMMA RequestLeaves ==
  ASSUME TicketInv, NEW p \in People, NEW r \in TicketRequest,
         treq' = [treq EXCEPT ![p] = r], UNCHANGED <<counter, ticket>>,
         r.op = "idle" \/ (r.op \in {"reply", "respond"} /\ Exists(r.id)),
         r.op = "idle" => r.id = NoTicket,
         usedMessages' \subseteq Messages, trail' \subseteq Row, RowsHaveTickets'
  PROVE  TicketInv'
<1>1. /\ r.op \notin {"create", "update"}
      /\ \A q \in People : treq'[q] = IF q = p THEN r ELSE treq[q]
      /\ \A t \in Tickets : Exists(t)' <=> Exists(t)
  BY TicketFacts DEF Exists
<1>2. TicketTypeOK'
  BY TicketFacts DEF TicketTypeOK
<1>3. RequestsKnow'
  <2>1. ASSUME NEW q \in People PROVE Knows(q)'
    <3>1. CASE q = p
      BY <1>1, <3>1 DEF Knows, Exists
    <3>2. CASE q # p
      BY <1>1, <3>2 DEF TicketInv, RequestsKnow, Knows, Exists
    <3> QED
      BY <3>1, <3>2
  <2>2. ASSUME NEW q \in People PROVE Alone(q)'
    <3>1. CASE q = p
      BY <1>1, <3>1 DEF Alone
    <3>2. CASE q # p
      <4>1. treq[q].op = "create" => ~Exists(treq[q].id) /\ treq[q].id \in Tickets
        BY RequestTyped DEF TicketInv, RequestsKnow, Alone
      <4>2. treq[q].op = "create" => r.id # treq[q].id
        BY <4>1, TicketFacts
      <4> QED
        BY <1>1, <3>2, <4>1, <4>2 DEF TicketInv, RequestsKnow, Alone, Exists
    <3> QED
      BY <3>1, <3>2
  <2> QED
    BY <2>1, <2>2 DEF RequestsKnow
<1>4. NumbersTaken'
  BY <1>1 DEF TicketInv, NumbersTaken, Exists
<1>5. CopiesAnswered'
  BY <1>1 DEF TicketInv, CopiesAnswered
<1>6. TicketsSound'
  BY <1>1 DEF TicketInv, TicketsSound, ReferencesUnique, WaitingMeansAnswered, Exists
<1> QED
  BY <1>2, <1>3, <1>4, <1>5, <1>6 DEF TicketInv

(* The row and the end of a request, or its death.                         *)
LEMMA RespondOK ==
  ASSUME TicketInv, NEW p \in People, Respond(p) \/ TicketRequestDies(p)
  PROVE  TicketInv'
<1>1. /\ NoRequest \in TicketRequest /\ NoRequest.op = "idle" /\ NoRequest.id = NoTicket
      /\ treq' = [treq EXCEPT ![p] = NoRequest] /\ UNCHANGED <<counter, ticket, usedMessages>>
  BY DEF NoRequest, TicketRequest, Respond, TicketRequestDies, EndRequest
<1>2. trail' \subseteq Row /\ RowsHaveTickets'
  <2>1. CASE UNCHANGED trail
    BY <1>1, <2>1, TicketFacts DEF TicketInv, TicketsSound, RowsHaveTickets, Exists
  <2>2. CASE /\ treq[p].op = "respond" /\ StatusIsEnum(treq[p])
             /\ trail' = trail \cup
                  {[ticket |-> treq[p].id, event |-> EventOf(p, treq[p]), actor |-> p]}
    <3>1. treq[p].id \in Tickets /\ Exists(treq[p].id)
      BY <2>2, RequestTyped DEF TicketInv, RequestsKnow, Knows
    <3>2. EventOf(p, treq[p]) \in Events
      BY DEF EventOf, Events
    <3> DEFINE new == [ticket |-> treq[p].id, event |-> EventOf(p, treq[p]), actor |-> p]
    <3>3. new \in Row /\ new.ticket = treq[p].id
      BY <3>1, <3>2 DEF Row
    <3>4. trail' = trail \cup {new}
      BY <2>2
    <3> HIDE DEF new
    <3> QED
      BY <1>1, <3>1, <3>3, <3>4, TicketFacts
      DEF TicketInv, TicketsSound, RowsHaveTickets, Exists
  <2> QED
    BY <2>1, <2>2 DEF Respond, TicketRequestDies
<1> QED
  BY <1>1, <1>2, RequestLeaves, TicketFacts

(* A customer looks the ticket up before replying.                         *)
LEMMA ReplyScopeOK ==
  ASSUME TicketInv, NEW p \in People, NEW t \in Tickets, ReplyScope(p, t)
  PROVE  TicketInv'
<1> DEFINE msg == NewMessage("customer", FALSE)
<1>1. /\ msg \in Message /\ usedMessages' \subseteq Messages
      /\ Exists(t) /\ UNCHANGED <<counter, ticket, trail>>
  BY NewMessageTyped DEF ReplyScope, Senders
<1> DEFINE r == [op |-> "reply", id |-> t, msg |-> msg, copy |-> NoTicket]
<1>2. r \in TicketRequest /\ treq' = [treq EXCEPT ![p] = r]
  BY <1>1, InFlightTyped DEF ReplyScope, InFlight
<1>3. r.op = "reply" /\ r.id = t
  OBVIOUS
<1>4. RowsHaveTickets'
  BY <1>1 DEF TicketInv, TicketsSound, RowsHaveTickets, Exists
<1> HIDE DEF r, msg
<1> QED
  BY <1>1, <1>2, <1>3, <1>4, RequestLeaves, TicketFacts
(* Storing a ticket: the first copy under its number, or another version   *)
(* of a ticket that is there.                                              *)
LEMMA TicketStored ==
  ASSUME TicketInv, NEW p \in People, NEW t \in Tickets, NEW tk \in Ticket,
         NEW r \in TicketRequest, r.op = "respond", r.id = t,
         treq' = [treq EXCEPT ![p] = r], ticket' = [ticket EXCEPT ![t] = tk],
         counter' = counter, trail' = trail, usedMessages' \subseteq Messages,
         \/ Exists(t) /\ tk.reference = ticket[t].reference
         \/ treq[p].op = "create" /\ treq[p].id = t /\ tk = treq[p].copy,
         Answered(tk)
  PROVE  TicketInv'
<1>1. /\ \A q \in People : treq'[q] = IF q = p THEN r ELSE treq[q]
      /\ \A u \in Tickets : ticket'[u] = IF u = t THEN tk ELSE ticket[u]
      /\ \A u \in Tickets : Exists(u)' <=> (u = t \/ Exists(u))
      /\ tk.reference \in Nat
  BY TicketFacts DEF Exists, Ticket
<1>2. \A q \in People \ {p} : treq[q].op = "create" => treq[q].id # t
  BY DEF TicketInv, RequestsKnow, Alone
<1>3. TicketTypeOK'
  BY TicketFacts DEF TicketTypeOK
<1>4. RequestsKnow'
  <2>1. ASSUME NEW q \in People PROVE Knows(q)'
    <3>1. CASE q = p
      BY <1>1, <3>1 DEF Knows
    <3>2. CASE q # p
      <4>1. /\ treq[q].op \in {"update", "reply", "respond"} =>
                 Exists(treq[q].id) /\ treq[q].id \in Tickets
            /\ treq[q].op = "update" =>
                 /\ q \in Operators
                 /\ treq[q].copy.reference = ticket[treq[q].id].reference
        BY RequestTyped DEF TicketInv, RequestsKnow, Knows
      <4>2. treq[p].op = "create" /\ treq[p].id = t => ~Exists(t)
        BY DEF TicketInv, RequestsKnow, Alone
      <4>3. Exists(t) => tk.reference = ticket[t].reference
        BY <4>2
      <4> QED
        BY <1>1, <3>2, <4>1, <4>3 DEF Knows
    <3> QED
      BY <3>1, <3>2
  <2>2. ASSUME NEW q \in People PROVE Alone(q)'
    <3>1. CASE q = p
      BY <1>1, <3>1 DEF Alone
    <3>2. CASE q # p
      <4>1. treq[q].op = "create" =>
              treq[q].id # t /\ treq[q].id \in Tickets /\ ~Exists(treq[q].id)
        BY <1>2, <3>2, RequestTyped DEF TicketInv, RequestsKnow, Alone
      <4> QED
        BY <1>1, <3>2, <4>1 DEF TicketInv, RequestsKnow, Alone
    <3> QED
      BY <3>1, <3>2
  <2> QED
    BY <2>1, <2>2 DEF RequestsKnow
<1>5. NumbersTaken'
  <2>1. tk.reference <= counter
    BY DEF TicketInv, NumbersTaken
  <2>2. \A q \in People \ {p} : treq[q].op = "create" => tk.reference # treq[q].copy.reference
    BY DEF TicketInv, NumbersTaken
  <2> QED
    BY <1>1, <2>1, <2>2 DEF TicketInv, NumbersTaken
<1>6. CopiesAnswered'
  BY <1>1 DEF TicketInv, CopiesAnswered
<1>7. ReferencesUnique'
  <2>1. \A u \in Tickets \ {t} : Exists(u) => tk.reference # ticket[u].reference
    BY DEF TicketInv, NumbersTaken, TicketsSound, ReferencesUnique
  <2> QED
    BY <1>1, <2>1 DEF TicketInv, TicketsSound, ReferencesUnique
<1>8. WaitingMeansAnswered'
  BY <1>1 DEF TicketInv, TicketsSound, WaitingMeansAnswered
<1>9. RowsHaveTickets'
  BY <1>1, TicketFacts DEF TicketInv, TicketsSound, RowsHaveTickets, Row
<1> QED
  BY <1>3, <1>4, <1>5, <1>6, <1>7, <1>8, <1>9 DEF TicketInv, TicketsSound

(* An operator's store, and the end of an opening.                         *)
LEMMA StoreTicketOK ==
  ASSUME TicketInv, NEW p \in People, StoreTicket(p)
  PROVE  TicketInv'
<1> DEFINE t == treq[p].id
           tk == treq[p].copy
           r == [op |-> "respond", id |-> t, msg |-> NoMessage, copy |-> tk]
<1>1. /\ t \in Tickets /\ tk \in Ticket /\ treq[p].op \in {"create", "update"}
      /\ ticket' = [ticket EXCEPT ![t] = tk]
      /\ treq' = [treq EXCEPT ![p] = r] /\ UNCHANGED <<counter, usedMessages, trail>>
  BY RequestTyped DEF StoreTicket, InFlight
<1>2. r \in TicketRequest /\ r.op = "respond" /\ r.id = t
  BY <1>1, InFlightTyped
<1>3. treq[p].op = "update" => Exists(t) /\ tk.reference = ticket[t].reference
  BY DEF TicketInv, RequestsKnow, Knows
<1>4. Answered(tk)
  BY <1>1 DEF TicketInv, CopiesAnswered
<1>5. usedMessages' \subseteq Messages
  BY <1>1, TicketFacts
<1>6. \/ Exists(t) /\ tk.reference = ticket[t].reference
      \/ treq[p].op = "create" /\ treq[p].id = t /\ tk = treq[p].copy
  BY <1>1, <1>3
<1> HIDE DEF r, t, tk
<1> QED
  BY <1>1, <1>2, <1>4, <1>5, <1>6, TicketStored

(* Appending a message, whoever sends it.                                  *)
LEMMA AppendOK ==
  ASSUME TicketInv, NEW p \in People, NEW t \in Tickets, NEW msg \in Message,
         AppendMessage(p, t, msg), counter' = counter, trail' = trail,
         usedMessages' \subseteq Messages
  PROVE  TicketInv'
<1> DEFINE tk == Appended(ticket[t], msg)
           r == [op |-> "respond", id |-> t, msg |-> msg, copy |-> NoTicket]
<1>1. Exists(t) /\ ticket[t] \in Ticket
  BY TicketFacts DEF AppendMessage
<1>2. /\ tk \in Ticket /\ tk.reference = ticket[t].reference
      /\ Answered(ticket[t]) => Answered(tk)
  BY <1>1, AppendedSound
<1>3. ticket' = [ticket EXCEPT ![t] = tk] /\ treq' = [treq EXCEPT ![p] = r]
  BY DEF AppendMessage, InFlight
<1>4. r \in TicketRequest /\ r.op = "respond" /\ r.id = t
  BY InFlightTyped
<1>5. Answered(tk)
  BY <1>1, <1>2 DEF TicketInv, TicketsSound, WaitingMeansAnswered
<1> HIDE DEF r, tk
<1> QED
  BY <1>1, <1>2, <1>3, <1>4, <1>5, TicketStored

(* The append of a customer's reply, and a reply or note of support.       *)
LEMMA RepliesOK ==
  ASSUME TicketInv, NEW p \in People,
         ReplyAppend(p) \/ \E t \in Tickets : SupportReply(p, t)
  PROVE  TicketInv'
<1>1. CASE ReplyAppend(p)
  <2>1. treq[p].id \in Tickets /\ treq[p].msg \in Message
    BY <1>1, RequestTyped DEF ReplyAppend
  <2> QED
    BY <1>1, <2>1, AppendOK, TicketFacts DEF ReplyAppend
<1>2. ASSUME NEW t \in Tickets, SupportReply(p, t) PROVE TicketInv'
  <2>1. PICK internal \in BOOLEAN :
          /\ Sends(NewMessage("support", internal))
          /\ AppendMessage(p, t, NewMessage("support", internal))
    BY <1>2 DEF SupportReply
  <2>2. NewMessage("support", internal) \in Message /\ usedMessages' \subseteq Messages
    BY <2>1, NewMessageTyped DEF Senders
  <2> QED
    BY <1>2, <2>1, <2>2, AppendOK DEF SupportReply
<1> QED
  BY <1>1, <1>2

(* A request that takes a copy: a customer's fresh ticket under the next   *)
(* number, or an operator's edit of one that is there.                     *)
LEMMA CopyTaken ==
  ASSUME TicketInv, NEW p \in People, NEW t \in Tickets, NEW copy \in Ticket,
         NEW op \in {"create", "update"}, Idle(p),
         InFlight(p, op, t, NoMessage, copy), UNCHANGED <<ticket, trail>>,
         usedMessages' \subseteq Messages, counter' \in {counter, NextReference},
         op = "update" =>
           p \in Operators /\ Exists(t) /\ copy.reference = ticket[t].reference,
         op = "create" => /\ ~Exists(t) /\ \A q \in People : treq[q].id # t
                          /\ counter' = NextReference /\ copy.reference = NextReference,
         Answered(copy)
  PROVE  TicketInv'
<1> DEFINE r == [op |-> op, id |-> t, msg |-> NoMessage, copy |-> copy]
<1>1. /\ r \in TicketRequest /\ r.op = op /\ r.id = t /\ r.copy = copy
      /\ treq' = [treq EXCEPT ![p] = r]
  BY InFlightTyped DEF InFlight
<1> HIDE DEF r
<1>2. /\ \A q \in People : treq'[q] = IF q = p THEN r ELSE treq[q]
      /\ \A u \in Tickets : Exists(u)' <=> Exists(u)
      /\ counter' \in Nat /\ counter <= counter' /\ copy.reference \in Nat
  BY <1>1, TicketFacts DEF Exists, NextReference, Ticket
<1>3. TicketTypeOK'
  BY <1>1, <1>2, TicketFacts DEF TicketTypeOK
<1>4. RequestsKnow'
  <2>1. ASSUME NEW q \in People PROVE Knows(q)'
    <3>1. CASE q = p
      BY <1>1, <1>2, <3>1 DEF Knows
    <3>2. CASE q # p
      BY <1>2, <3>2, RequestTyped DEF TicketInv, RequestsKnow, Knows
    <3> QED
      BY <3>1, <3>2
  <2>2. ASSUME NEW q \in People PROVE Alone(q)'
    <3>1. CASE q = p
      BY <1>1, <1>2, <3>1 DEF Alone
    <3>2. CASE q # p
      <4>1. treq[q].op = "create" => ~Exists(treq[q].id) /\ treq[q].id \in Tickets
        BY RequestTyped DEF TicketInv, RequestsKnow, Alone
      <4>2. treq[q].op = "create" => treq[q].id # t
        BY <4>1
      <4> QED
        BY <1>1, <1>2, <3>2, <4>1, <4>2 DEF TicketInv, RequestsKnow, Alone
    <3> QED
      BY <3>1, <3>2
  <2> QED
    BY <2>1, <2>2 DEF RequestsKnow
<1>5. NumbersTaken'
  <2>1. ASSUME NEW u \in Tickets, Exists(u)'
        PROVE  /\ ticket'[u].reference <= counter'
               /\ op = "create" => ticket'[u].reference # copy.reference
    BY <1>2, <2>1, TicketFacts DEF TicketInv, NumbersTaken, NextReference
  <2>2. ASSUME NEW q \in People \ {p}, treq[q].op = "create"
        PROVE  /\ treq[q].copy.reference <= counter'
               /\ op = "create" => treq[q].copy.reference # copy.reference
    <3>1. treq[q].copy.reference \in Nat
      BY <2>2, RequestTyped DEF Ticket
    <3> QED
      BY <1>2, <2>2, <3>1, TicketFacts DEF TicketInv, NumbersTaken, NextReference
  <2>3. op = "create" => copy.reference <= counter'
    BY <1>2
  <2> QED
    BY <1>1, <1>2, <2>1, <2>2, <2>3 DEF TicketInv, NumbersTaken
<1>6. CopiesAnswered'
  BY <1>1, <1>2 DEF TicketInv, CopiesAnswered
<1>7. TicketsSound'
  BY <1>2, TicketFacts
  DEF TicketInv, TicketsSound, ReferencesUnique, WaitingMeansAnswered, RowsHaveTickets, Row
<1> QED
  BY <1>3, <1>4, <1>5, <1>6, <1>7 DEF TicketInv

(* Opening a ticket.                                                       *)
LEMMA OpenNumberOK ==
  ASSUME TicketInv, NEW p \in People, NEW t \in Tickets, OpenNumber(p, t)
  PROVE  TicketInv'
<1> DEFINE msg == NewMessage("customer", FALSE)
           copy == [reference |-> NextReference, status |-> "new", thread |-> {msg},
                    lastPublic |-> "customer", asked |-> FALSE]
<1>1. msg \in Message /\ usedMessages' \subseteq Messages
  BY NewMessageTyped DEF OpenNumber, Senders
<1>2. copy \in Ticket /\ copy.reference = NextReference /\ Answered(copy)
  <2> HIDE DEF msg
  <2>1. NextReference \in Nat /\ {msg} \in SUBSET Message
    BY <1>1, TicketFacts DEF NextReference
  <2>2. copy \in Ticket
    BY <2>1 DEF Ticket, Statuses, Senders
  <2> QED
    BY <2>2 DEF Answered
<1>3. /\ Idle(p) /\ ~Exists(t) /\ \A q \in People : treq[q].id # t
      /\ InFlight(p, "create", t, NoMessage, copy)
      /\ counter' = NextReference /\ UNCHANGED <<ticket, trail>>
  BY DEF OpenNumber
<1> HIDE DEF copy, msg
<1> QED
  BY <1>1, <1>2, <1>3, CopyTaken

(* An operator's read and edits.                                           *)
LEMMA UpdateReadOK ==
  ASSUME TicketInv, NEW p \in People, NEW t \in Tickets, UpdateRead(p, t)
  PROVE  TicketInv'
<1>1. PICK move \in Moves :
        InFlight(p, "update", t, NoMessage,
                 IF move = "keep" THEN ticket[t]
                 ELSE [ticket[t] EXCEPT !.status = move, !.asked = TRUE])
  BY DEF UpdateRead
<1> DEFINE copy == IF move = "keep" THEN ticket[t]
                   ELSE [ticket[t] EXCEPT !.status = move, !.asked = TRUE]
<1>2. /\ p \in Operators /\ Idle(p) /\ Exists(t) /\ ticket[t] \in Ticket
      /\ UNCHANGED <<counter, ticket, usedMessages, trail>>
  BY TicketFacts DEF UpdateRead
<1>3. copy \in Ticket /\ copy.reference = ticket[t].reference
  BY <1>2, SupportAssumption DEF Ticket
<1>4. Answered(copy)
  <2>1. Answered(ticket[t])
    BY <1>2 DEF TicketInv, TicketsSound, WaitingMeansAnswered
  <2> QED
    BY <1>2, <2>1 DEF Answered, Ticket
<1> HIDE DEF copy
<1> QED
  BY <1>1, <1>2, <1>3, <1>4, CopyTaken, TicketFacts DEF copy

(* Every step of the tickets keeps the invariant.                          *)
LEMMA TicketStepOK ==
  ASSUME TicketInv, [TicketNext]_ticketVars
  PROVE  TicketInv'
<1>1. CASE UNCHANGED ticketVars
  BY <1>1
  DEF ticketVars, TicketInv, TicketTypeOK, RequestsKnow, Knows, Alone, NumbersTaken,
      CopiesAnswered, TicketsSound, ReferencesUnique, WaitingMeansAnswered, RowsHaveTickets, Exists
<1>2. ASSUME NEW p \in People, TicketStep(p) PROVE TicketInv'
  BY <1>2, OpenNumberOK, UpdateReadOK, ReplyScopeOK, RepliesOK, StoreTicketOK, RespondOK
  DEF TicketStep
<1> QED
  BY <1>1, <1>2 DEF TicketNext

(* The invariant of the tickets, for any customers, operators and moves.   *)
THEOREM TicketInvariant == TicketSpec => []TicketInv
<1> QED
  BY TicketInitOK, TicketStepOK, PTL DEF TicketSpec

(* Tickets, requests and audit rows keep their types.                      *)
THEOREM TicketsTyped == TicketSpec => []TicketTypeOK
<1>1. TicketInv => TicketTypeOK
  BY DEF TicketInv
<1> QED
  BY <1>1, TicketInvariant, PTL

(* References never collide, a ticket waits for the customer only after    *)
(* support's answer or at an operator's request, and the rows of the trail *)
(* are of stored tickets.  No condition on what operators ask for.         *)
THEOREM TicketsAreSound == TicketSpec => []TicketsSound
<1>1. TicketInv => TicketsSound
  BY DEF TicketInv
<1> QED
  BY <1>1, TicketInvariant, PTL

(* For any number of members, operators and tickets: a stored message goes *)
(* only when an operator's update stores a copy read before it.            *)
THEOREM MessagesOnlyLostToUpdates == TicketSpec => MessagesLostOnlyToUpdates
<1> DEFINE Kept(t) ==
      ~(Thread(ticket[t]) \subseteq Thread(ticket'[t])) =>
         \E p \in Operators : /\ treq[p].op = "update" /\ treq[p].id = t
                              /\ ticket'[t] = treq[p].copy
<1>1. ASSUME TicketInv, TicketNext
      PROVE  \A t \in Tickets : Kept(t)
  <2> USE <1>1
  <2>1. \A u \in Tickets : ticket'[u] = ticket[u] => Kept(u)
    OBVIOUS
  <2>2. ASSUME NEW p \in People, NEW t \in Tickets, NEW msg \in Message, AppendMessage(p, t, msg)
        PROVE  \A u \in Tickets : Kept(u)
    <3>1. /\ ticket[t] \in Ticket
          /\ ticket'[t] = Appended(ticket[t], msg) /\ Appended(ticket[t], msg) \in Ticket
          /\ \A u \in Tickets \ {t} : ticket'[u] = ticket[u]
      BY <2>2, TicketFacts, AppendedSound DEF AppendMessage
    <3>2. Thread(ticket[t]) \subseteq Thread(ticket'[t])
      BY <3>1, TicketFacts, AppendedSound DEF Thread
    <3> QED
      BY <2>1, <3>1, <3>2
  <2>3. ASSUME NEW p \in People, StoreTicket(p)
        PROVE  \A u \in Tickets : Kept(u)
    <3>1. /\ treq[p].id \in Tickets /\ treq[p].op \in {"create", "update"}
          /\ ticket'[treq[p].id] = treq[p].copy
          /\ \A u \in Tickets \ {treq[p].id} : ticket'[u] = ticket[u]
      BY <2>3, RequestTyped, TicketFacts DEF StoreTicket
    <3>2. treq[p].op = "create" => Thread(ticket[treq[p].id]) = {}
      BY DEF TicketInv, RequestsKnow, Alone, Exists, Thread
    <3>3. treq[p].op = "update" => p \in Operators
      BY DEF TicketInv, RequestsKnow, Knows
    <3>4. Kept(treq[p].id)
      BY <3>1, <3>2, <3>3
    <3> QED
      BY <2>1, <3>1, <3>4
  <2>4. ASSUME NEW p \in People, ReplyAppend(p)
        PROVE  \A u \in Tickets : Kept(u)
    <3>1. treq[p].id \in Tickets /\ treq[p].msg \in Message
      BY <2>4, RequestTyped DEF ReplyAppend
    <3> QED
      BY <2>2, <2>4, <3>1 DEF ReplyAppend
  <2>5. ASSUME NEW p \in People, NEW t \in Tickets, SupportReply(p, t)
        PROVE  \A u \in Tickets : Kept(u)
    <3>1. PICK internal \in BOOLEAN :
            /\ Sends(NewMessage("support", internal))
            /\ AppendMessage(p, t, NewMessage("support", internal))
      BY <2>5 DEF SupportReply
    <3>2. NewMessage("support", internal) \in Message
      BY <3>1, NewMessageTyped DEF Senders
    <3> QED
      BY <2>2, <3>1, <3>2
  <2>6. ASSUME UNCHANGED ticket
        PROVE  \A u \in Tickets : Kept(u)
    BY <2>1, <2>6
  <2> HIDE DEF Kept
  <2> QED
    BY <2>3, <2>4, <2>5, <2>6
    DEF TicketNext, TicketStep, OpenNumber, UpdateRead, ReplyScope, Respond, TicketRequestDies
<1>2. TicketInv /\ [TicketNext]_ticketVars =>
        [\A t \in Tickets :
           ~(Thread(ticket[t]) \subseteq Thread(ticket'[t])) =>
             \E p \in Operators : /\ treq[p].op = "update" /\ treq[p].id = t
                                  /\ ticket'[t] = treq[p].copy]_ticketVars
  BY <1>1
<1> HIDE DEF Kept
<1> QED
  BY <1>2, TicketInvariant, PTL DEF TicketSpec, MessagesLostOnlyToUpdates

-----------------------------------------------------------------------------
(* Accounts.  How far a request about a member has come tells what the two *)
(* stores say of that member: of one being created for certain, of any     *)
(* other while nothing went wrong about them.                              *)
StageOK(h, u) ==
  /\ handler[h].next \in {"set_claims", "store_record"} =>
       /\ account[u] # Nobody /\ roster[u] = Nobody /\ handler[h].role # Nobody
       /\ RoleClaim(u) = IF handler[h].next = "set_claims" THEN Nobody ELSE handler[h].role
       /\ \A g \in Handlers \ {h} : handler[g].uid # u
  /\ handler[h].next = "delete_account" => handler[h].by # u
  /\ handler[h].next \in {"store_role", "follow_claims"} => handler[h].role # Nobody
  /\ u \notin torn =>
       /\ handler[h].next \in {"delete_account", "store_role"} =>
            roster[u] # Nobody /\ RoleClaim(u) = roster[u]
       /\ handler[h].next = "strike_record" => account[u] = Nobody
       /\ handler[h].next = "follow_claims" =>
            account[u] # Nobody /\ roster[u] = handler[h].role

Agree(u) ==
  /\ roster[u] = Nobody <=> account[u] = Nobody
  /\ roster[u] = RoleClaim(u)

MemberOK(u) ==
  /\ u \notin usedUids =>
       /\ account[u] = Nobody /\ roster[u] = Nobody
       /\ \A h \in Handlers : handler[h].uid # u
  /\ u \notin torn =>
       \A g, h \in Handlers : handler[g].uid = u /\ handler[h].uid = u => g = h
  /\ \A h \in Handlers : handler[h].uid = u => StageOK(h, u)
  /\ u \notin torn /\ (\A h \in Handlers : handler[h].uid # u) => Agree(u)

AccountsInv == AccountsTypeOK /\ \A u \in Uids : MemberOK(u)

(* The invariant holds in an empty workspace.                              *)
LEMMA AccountsInitOK == AccountsInit => AccountsInv
<1> SUFFICES ASSUME AccountsInit PROVE AccountsInv
  OBVIOUS
<1>1. AccountsTypeOK
  BY DEF AccountsInit, AccountsTypeOK
<1>2. \A h \in Handlers : handler[h].uid = Nobody
  BY DEF AccountsInit, Waits
<1>3. ASSUME NEW u \in Uids PROVE MemberOK(u)
  BY <1>2, AccountsAssumption DEF AccountsInit, MemberOK, Agree, RoleClaim
<1> QED
  BY <1>1, <1>3 DEF AccountsInv

(* What typing says of a request in flight.                                *)
LEMMA HandlerTyped ==
  ASSUME AccountsInv, NEW h \in Handlers, handler[h].next # "nothing"
  PROVE  /\ handler[h].next \in Steps /\ handler[h].uid \in Uids
         /\ handler[h].role \in Roles \cup {Nobody} /\ handler[h].by \in Uids \cup {Nobody}
         /\ handler[h] = [next |-> handler[h].next, uid |-> handler[h].uid,
                          role |-> handler[h].role, by |-> handler[h].by]
         /\ handler[h].uid \in usedUids
<1>1. handler[h] \in {Waits} \cup
        [next : Steps, uid : Uids, role : Roles \cup {Nobody}, by : Uids \cup {Nobody}]
  BY DEF AccountsInv, AccountsTypeOK
<1>2. Waits.next = "nothing"
  BY DEF Waits
<1>3. handler[h] \in
        [next : Steps, uid : Uids, role : Roles \cup {Nobody}, by : Uids \cup {Nobody}]
  BY <1>1, <1>2
<1> QED
  BY <1>3 DEF AccountsInv, MemberOK

(* A request that waits is about nobody.                                   *)
LEMMA FreeIsAboutNobody ==
  ASSUME AccountsInv, NEW h \in Handlers, Free(h)
  PROVE  handler[h].uid = Nobody /\ handler[h].uid \notin Uids
  BY AccountsAssumption DEF Free, Waits

(* A step of one request about one member leaves the other members alone.  *)
LEMMA OneMember ==
  ASSUME AccountsInv, AccountsTypeOK', NEW h \in Handlers, NEW u \in Uids,
         handler[h].uid \in {u, Nobody}, handler'[h].uid \in {u, Nobody},
         \A g \in Handlers \ {h} : handler'[g] = handler[g],
         \A v \in Uids \ {u} : account'[v] = account[v] /\ roster'[v] = roster[v],
         torn' \in {torn, torn \cup {u}}, usedUids' \in {usedUids, usedUids \cup {u}},
         MemberOK(u)'
  PROVE  AccountsInv'
<1>1. ASSUME NEW v \in Uids \ {u} PROVE MemberOK(v)'
  <2>1. /\ \A g \in Handlers : handler'[g].uid = v <=> handler[g].uid = v
        /\ \A g \in Handlers : handler[g].uid = v => handler'[g] = handler[g]
    BY AccountsAssumption
  <2>2. /\ v \in torn' <=> v \in torn
        /\ v \in usedUids' <=> v \in usedUids
        /\ account'[v] = account[v] /\ roster'[v] = roster[v]
    OBVIOUS
  <2>3. RoleClaim(v)' = RoleClaim(v)
    BY <2>2 DEF RoleClaim
  <2>4. \A g \in Handlers : handler[g].uid = v /\ StageOK(g, v) => StageOK(g, v)'
    BY <2>1, <2>2, <2>3 DEF StageOK
  <2>5. MemberOK(v)
    BY DEF AccountsInv
  <2> QED
    BY <2>1, <2>2, <2>3, <2>4, <2>5 DEF MemberOK, Agree
<1> QED
  BY <1>1 DEF AccountsInv

(* A request cut short, or whose last call raised with or without having   *)
(* had its effect.                                                         *)
LEMMA CutShortOK ==
  ASSUME AccountsInv, NEW h \in Handlers, handler[h].next # "nothing",
         Finishes(h), Torn(h), UNCHANGED <<session, usedUids>>,
         account' \in [Uids -> Account \cup {Nobody}],
         roster' \in [Uids -> Roles \cup {Nobody}],
         \A v \in Uids \ {handler[h].uid} : account'[v] = account[v] /\ roster'[v] = roster[v]
  PROVE  AccountsInv'
<1> PICK u \in Uids : u = handler[h].uid
  BY HandlerTyped
<1>1. u \in usedUids
  BY HandlerTyped
<1>2. /\ handler'[h].uid = Nobody /\ handler'[h] = Waits
      /\ \A g \in Handlers \ {h} : handler'[g] = handler[g]
      /\ torn' = torn \cup {u}
  BY DEF Finishes, Torn, Waits, AccountsInv, AccountsTypeOK
<1>3. AccountsTypeOK'
  BY <1>1 DEF AccountsInv, AccountsTypeOK, Finishes, Torn
<1>4. MemberOK(u)'
  <2>1. ASSUME NEW g \in Handlers, handler'[g].uid = u PROVE StageOK(g, u)'
    <3>1. g # h /\ handler'[g] = handler[g]
      BY <1>1, <1>2, <2>1, AccountsAssumption
    <3>2. StageOK(g, u)
      BY <1>1, <2>1, <3>1 DEF AccountsInv, MemberOK
    <3>3. handler[g].next \notin {"set_claims", "store_record"}
      BY <3>1, <3>2 DEF StageOK
    <3> QED
      BY <1>2, <3>1, <3>2, <3>3 DEF StageOK
  <2> QED
    BY <1>1, <1>2, <2>1 DEF MemberOK
<1> QED
  BY <1>1, <1>2, <1>3, <1>4, OneMember

(* Signing up and inviting, up to the account.                             *)
LEMMA CreateAccountOK ==
  ASSUME AccountsInv, NEW h \in Handlers, NEW email \in Emails, NEW role \in Roles,
         CreateAccount(h, email, role)
  PROVE  AccountsInv'
<1>1. NewUid \in Uids /\ NewUid \notin usedUids
  BY DEF CreateAccount, NewUid, AccountsInv, AccountsTypeOK
<1> PICK u \in Uids : u = NewUid
  BY <1>1
<1> DEFINE new == [email |-> email, role |-> Nobody, disabled |-> FALSE]
           asked == [next |-> "set_claims", uid |-> u, role |-> role, by |-> Nobody]
<1>2. new \in Account /\ new.role = Nobody
  BY DEF Account
<1>3. /\ account' = [account EXCEPT ![u] = new]
      /\ handler' = [handler EXCEPT ![h] = asked]
      /\ usedUids' = usedUids \cup {u} /\ UNCHANGED <<roster, session, torn>>
  BY DEF CreateAccount, Goes
<1>4. /\ asked \in [next : Steps, uid : Uids, role : Roles \cup {Nobody}, by : Uids \cup {Nobody}]
      /\ asked.next = "set_claims" /\ asked.uid = u /\ asked.role = role
  BY <1>1 DEF Steps
<1> HIDE DEF new, asked
<1>5. AccountsTypeOK'
  BY <1>1, <1>2, <1>3, <1>4 DEF AccountsInv, AccountsTypeOK
<1>6. /\ account'[u] = new /\ new # Nobody /\ handler'[h] = asked
      /\ \A g \in Handlers \ {h} : handler'[g] = handler[g]
      /\ \A v \in Uids \ {u} : account'[v] = account[v] /\ roster'[v] = roster[v]
  BY <1>1, <1>2, <1>3, AccountsAssumption DEF AccountsInv, AccountsTypeOK
<1>7. roster'[u] = Nobody /\ \A g \in Handlers \ {h} : handler'[g].uid # u
  BY <1>1, <1>3, <1>6 DEF AccountsInv, MemberOK
<1>8. MemberOK(u)'
  <2>1. role # Nobody
    BY AccountsAssumption
  <2>2. StageOK(h, u)'
    BY <1>2, <1>4, <1>6, <1>7, <2>1 DEF StageOK, RoleClaim
  <2> QED
    BY <1>1, <1>3, <1>4, <1>6, <1>7, <2>2 DEF MemberOK
<1>9. handler[h].uid = Nobody
  BY FreeIsAboutNobody DEF CreateAccount
<1> QED
  BY <1>3, <1>4, <1>5, <1>6, <1>8, <1>9, OneMember

(* A request that goes on, or comes to its end, with nothing gone wrong.   *)
LEMMA GoesOnOK ==
  ASSUME AccountsInv, NEW h \in Handlers, handler[h].next # "nothing",
         NEW u \in Uids, u = handler[h].uid, NEW w,
         w \in {Waits} \cup
           [next : Steps, uid : Uids, role : Roles \cup {Nobody}, by : Uids \cup {Nobody}],
         handler' = [handler EXCEPT ![h] = w], UNCHANGED <<session, usedUids, torn>>,
         account' \in [Uids -> Account \cup {Nobody}],
         roster' \in [Uids -> Roles \cup {Nobody}],
         \A v \in Uids \ {u} : account'[v] = account[v] /\ roster'[v] = roster[v],
         \/ w.uid = u /\ StageOK(h, u)'
         \/ w.uid = Nobody /\ (u \notin torn => Agree(u)')
  PROVE  AccountsInv'
<1>1. u \in usedUids
  BY HandlerTyped
<1>2. /\ handler'[h] = w /\ w.uid \in {u, Nobody}
      /\ \A g \in Handlers \ {h} : handler'[g] = handler[g]
  BY DEF AccountsInv, AccountsTypeOK
<1>3. AccountsTypeOK'
  BY DEF AccountsInv, AccountsTypeOK
<1>4. MemberOK(u)'
  <2>1. ASSUME NEW g \in Handlers \ {h}, handler'[g].uid = u PROVE StageOK(g, u)' /\ u \in torn
    <3>1. StageOK(g, u) /\ u \in torn
      BY <1>2, <2>1 DEF AccountsInv, MemberOK
    <3>2. handler[g].next \notin {"set_claims", "store_record"}
      BY <3>1 DEF StageOK
    <3> QED
      BY <1>2, <3>1, <3>2 DEF StageOK
  <2>2. CASE w.uid = u /\ StageOK(h, u)'
    BY <1>1, <1>2, <2>1, <2>2 DEF MemberOK
  <2>3. CASE w.uid = Nobody /\ (u \notin torn => Agree(u)')
    <3>1. u # Nobody
      BY AccountsAssumption
    <3> QED
      BY <1>1, <1>2, <2>1, <2>3, <3>1 DEF MemberOK
  <2> QED
    BY <2>2, <2>3
<1> QED
  BY <1>1, <1>2, <1>3, <1>4, OneMember

(* A request about a member who is there.                                  *)
LEMMA HandlerBeginsOK ==
  ASSUME AccountsInv, NEW h \in Handlers, Free(h), NEW u \in Uids, roster[u] # Nobody,
         NEW role \in Roles \cup {Nobody}, NEW by \in Uids \cup {Nobody}, NEW step,
         \/ step = "delete_account" /\ by # u
         \/ step = "store_role" /\ role # Nobody,
         Goes(h, step, u, role, by), Joins(h, u),
         UNCHANGED <<account, roster, session, usedUids>>
  PROVE  AccountsInv'
<1> DEFINE w == [next |-> step, uid |-> u, role |-> role, by |-> by]
<1>1. /\ w \in [next : Steps, uid : Uids, role : Roles \cup {Nobody}, by : Uids \cup {Nobody}]
      /\ w.next = step /\ w.uid = u /\ w.role = role /\ w.by = by
      /\ handler' = [handler EXCEPT ![h] = w]
  BY DEF Goes, Steps
<1> HIDE DEF w
<1>2. /\ handler'[h] = w /\ \A g \in Handlers \ {h} : handler'[g] = handler[g]
      /\ torn' \in {torn, torn \cup {u}}
  BY <1>1 DEF AccountsInv, AccountsTypeOK, Joins
<1>3. AccountsTypeOK'
  BY <1>1, <1>2 DEF AccountsInv, AccountsTypeOK
<1>4. handler[h].uid = Nobody /\ u # Nobody
  BY FreeIsAboutNobody, AccountsAssumption
<1>5. MemberOK(u)'
  <2>1. u \in usedUids
    BY DEF AccountsInv, MemberOK
  <2>2. ASSUME NEW g \in Handlers \ {h}, handler'[g].uid = u PROVE StageOK(g, u)' /\ u \in torn'
    <3>1. StageOK(g, u) /\ u \in torn'
      BY <1>2, <2>2 DEF AccountsInv, MemberOK, Joins
    <3>2. handler[g].next \notin {"set_claims", "store_record"}
      BY <3>1 DEF StageOK
    <3> QED
      BY <1>2, <3>1, <3>2 DEF StageOK
  <2>3. u \notin torn' => roster[u] = RoleClaim(u)
    BY <1>2, <1>4, <2>2 DEF AccountsInv, MemberOK, Agree
  <2>4. StageOK(h, u)'
    BY <1>1, <1>2, <2>3 DEF StageOK, RoleClaim
  <2> QED
    BY <1>1, <1>2, <2>1, <2>2, <2>4 DEF MemberOK
<1> QED
  BY <1>1, <1>2, <1>3, <1>4, <1>5, OneMember

(* What a write of one member's claims, account or record leaves.          *)
LEMMA MemberWrites ==
  ASSUME AccountsInv, NEW h \in Handlers, handler[h].next # "nothing",
         NEW u \in Uids, u = handler[h].uid
  PROVE  /\ Claimed(h) \in [Uids -> Account \cup {Nobody}]
         /\ \A v \in Uids \ {u} : Claimed(h)[v] = account[v]
         /\ account[u] = Nobody => Claimed(h)[u] = Nobody
         /\ account[u] # Nobody =>
              Claimed(h)[u] # Nobody /\ Claimed(h)[u].role = handler[h].role
         /\ Enrolled(h) \in [Uids -> Roles \cup {Nobody}]
         /\ \A v \in Uids \ {u} : Enrolled(h)[v] = roster[v]
         /\ Enrolled(h)[u] = handler[h].role
<1>1. /\ account \in [Uids -> Account \cup {Nobody}] /\ roster \in [Uids -> Roles \cup {Nobody}]
      /\ handler[h].role \in Roles \cup {Nobody}
  BY HandlerTyped DEF AccountsInv, AccountsTypeOK
<1>2. /\ Enrolled(h) \in [Uids -> Roles \cup {Nobody}]
      /\ \A v \in Uids \ {u} : Enrolled(h)[v] = roster[v]
      /\ Enrolled(h)[u] = handler[h].role
  BY <1>1 DEF Enrolled
<1>3. CASE account[u] = Nobody
  BY <1>1, <1>2, <1>3 DEF Claimed
<1>4. CASE account[u] # Nobody
  <2> DEFINE new == [account[u] EXCEPT !.role = handler[h].role]
  <2>1. account[u] \in Account
    BY <1>1, <1>4
  <2>2. new \in Account /\ new.role = handler[h].role
    BY <1>1, <2>1 DEF Account
  <2>3. Claimed(h) = [account EXCEPT ![u] = new]
    BY <1>4 DEF Claimed
  <2> HIDE DEF new
  <2> QED
    BY <1>1, <1>2, <1>4, <2>2, <2>3, AccountsAssumption
<1> QED
  BY <1>3, <1>4

(* Where a request goes next, or that it ends.                             *)
LEMMA Continues ==
  ASSUME AccountsInv, NEW h \in Handlers, handler[h].next # "nothing"
  PROVE  /\ \A step \in Steps : LET w == [handler[h] EXCEPT !.next = step] IN
              /\ w \in [next : Steps, uid : Uids, role : Roles \cup {Nobody},
                        by : Uids \cup {Nobody}]
              /\ w.next = step /\ w.uid = handler[h].uid
              /\ w.role = handler[h].role /\ w.by = handler[h].by
              /\ Proceeds(h, step) => handler' = [handler EXCEPT ![h] = w] /\ handler'[h] = w
         /\ Finishes(h) => handler' = [handler EXCEPT ![h] = Waits]
         /\ Waits.uid = Nobody
<1>1. handler \in [Handlers -> {Waits} \cup
        [next : Steps, uid : Uids, role : Roles \cup {Nobody}, by : Uids \cup {Nobody}]]
  BY DEF AccountsInv, AccountsTypeOK
<1>2. handler[h] \in [next : Steps, uid : Uids, role : Roles \cup {Nobody},
                      by : Uids \cup {Nobody}]
  BY <1>1 DEF Waits
<1>3. ASSUME NEW step \in Steps
      PROVE  LET w == [handler[h] EXCEPT !.next = step] IN
              /\ w \in [next : Steps, uid : Uids, role : Roles \cup {Nobody},
                        by : Uids \cup {Nobody}]
              /\ w.next = step /\ w.uid = handler[h].uid
              /\ w.role = handler[h].role /\ w.by = handler[h].by
  BY <1>2
<1>4. ASSUME NEW step \in Steps, Proceeds(h, step)
      PROVE  LET w == [handler[h] EXCEPT !.next = step] IN
              handler' = [handler EXCEPT ![h] = w] /\ handler'[h] = w
  BY <1>1, <1>4 DEF Proceeds
<1> QED
  BY <1>3, <1>4 DEF Finishes, Waits

(* The claims, then the record, of somebody new.                           *)
LEMMA EnrolOK ==
  ASSUME AccountsInv, NEW h \in Handlers, SetClaims(h) \/ StoreRecord(h)
  PROVE  AccountsInv'
<1>1. handler[h].next \in {"set_claims", "store_record"}
  BY DEF SetClaims, StoreRecord
<1> PICK u \in Uids : u = handler[h].uid
  BY <1>1, HandlerTyped
<1>2. StageOK(h, u)
  BY DEF AccountsInv, MemberOK
<1>3. account \in [Uids -> Account \cup {Nobody}] /\ roster \in [Uids -> Roles \cup {Nobody}]
  BY DEF AccountsInv, AccountsTypeOK
<1>4. CASE Torn(h) /\ Finishes(h)
  BY <1>1, <1>3, <1>4, CutShortOK, MemberWrites DEF SetClaims, StoreRecord
<1>5. CASE SetClaims(h) /\ account' = Claimed(h) /\ Proceeds(h, "store_record") /\ torn' = torn
  <2> PICK w : w = [handler[h] EXCEPT !.next = "store_record"]
    OBVIOUS
  <2>1. /\ w \in [next : Steps, uid : Uids, role : Roles \cup {Nobody}, by : Uids \cup {Nobody}]
        /\ w.next = "store_record" /\ w.uid = u /\ w.role = handler[h].role
        /\ handler' = [handler EXCEPT ![h] = w] /\ handler'[h] = w
    BY <1>1, <1>5, Continues DEF Steps
  <2>2. /\ UNCHANGED <<roster, session, usedUids, torn>>
        /\ account'[u] # Nobody /\ account'[u].role = handler[h].role
        /\ account' \in [Uids -> Account \cup {Nobody}]
        /\ \A v \in Uids \ {u} : account'[v] = account[v]
    BY <1>1, <1>2, <1>5, MemberWrites DEF SetClaims, StageOK
  <2>3. \A g \in Handlers \ {h} : handler'[g].uid # u
    BY <1>1, <1>2, <2>1 DEF StageOK, AccountsInv, AccountsTypeOK
  <2>4. StageOK(h, u)'
    BY <1>1, <1>2, <2>1, <2>2, <2>3 DEF StageOK, RoleClaim
  <2> QED
    BY <1>1, <1>3, <2>1, <2>2, <2>4, GoesOnOK
<1>6. CASE StoreRecord(h) /\ roster' = Enrolled(h) /\ torn' = torn
  <2>1. /\ UNCHANGED <<account, session, usedUids, torn>>
        /\ roster'[u] = handler[h].role /\ roster' \in [Uids -> Roles \cup {Nobody}]
        /\ \A v \in Uids \ {u} : roster'[v] = roster[v]
        /\ handler' = [handler EXCEPT ![h] = Waits] /\ Waits.uid = Nobody
    BY <1>1, <1>6, MemberWrites, Continues DEF StoreRecord
  <2>2. Agree(u)'
    BY <1>2, <1>6, <2>1 DEF Agree, StageOK, RoleClaim, StoreRecord
  <2> QED
    BY <1>1, <1>3, <2>1, <2>2, GoesOnOK
<1> QED
  BY <1>4, <1>5, <1>6 DEF SetClaims, StoreRecord

(* The account, then the record, of a member who is removed.               *)
LEMMA RemovalOK ==
  ASSUME AccountsInv, NEW h \in Handlers, DeleteAccount(h) \/ StrikeRecord(h)
  PROVE  AccountsInv'
<1>1. handler[h].next \in {"delete_account", "strike_record"}
  BY DEF DeleteAccount, StrikeRecord
<1> PICK u \in Uids : u = handler[h].uid
  BY <1>1, HandlerTyped
<1>2. StageOK(h, u)
  BY DEF AccountsInv, MemberOK
<1>3. account \in [Uids -> Account \cup {Nobody}] /\ roster \in [Uids -> Roles \cup {Nobody}]
  BY DEF AccountsInv, AccountsTypeOK
<1>4. CASE Torn(h) /\ Finishes(h)
  BY <1>1, <1>3, <1>4, CutShortOK DEF DeleteAccount, StrikeRecord
<1>5. CASE /\ handler[h].next = "delete_account" /\ UNCHANGED <<roster, session, usedUids, torn>>
           /\ account' = [account EXCEPT ![u] = Nobody] /\ Proceeds(h, "strike_record")
  <2> PICK w : w = [handler[h] EXCEPT !.next = "strike_record"]
    OBVIOUS
  <2>1. /\ w \in [next : Steps, uid : Uids, role : Roles \cup {Nobody}, by : Uids \cup {Nobody}]
        /\ w.next = "strike_record" /\ w.uid = u
        /\ handler' = [handler EXCEPT ![h] = w] /\ handler'[h] = w
    BY <1>1, <1>5, Continues DEF Steps
  <2>2. /\ account'[u] = Nobody /\ account' \in [Uids -> Account \cup {Nobody}]
        /\ \A v \in Uids \ {u} : account'[v] = account[v]
    BY <1>3, <1>5
  <2>3. StageOK(h, u)'
    BY <2>1, <2>2 DEF StageOK
  <2> QED
    BY <1>1, <1>3, <1>5, <2>1, <2>2, <2>3, GoesOnOK
<1>6. CASE /\ handler[h].next = "delete_account" /\ UNCHANGED <<roster, session, usedUids, torn>>
           /\ RoleClaim(u) = Nobody /\ Finishes(h) /\ account' = account
  <2>1. u \in torn
    BY <1>2, <1>6 DEF StageOK
  <2>2. handler' = [handler EXCEPT ![h] = Waits] /\ Waits.uid = Nobody
    BY <1>1, <1>6, Continues
  <2> QED
    BY <1>1, <1>3, <1>6, <2>1, <2>2, GoesOnOK
<1>7. CASE /\ handler[h].next = "strike_record" /\ UNCHANGED <<account, session, usedUids, torn>>
           /\ roster' = [roster EXCEPT ![u] = Nobody] /\ Finishes(h)
  <2>1. /\ roster'[u] = Nobody /\ roster' \in [Uids -> Roles \cup {Nobody}]
        /\ \A v \in Uids \ {u} : roster'[v] = roster[v]
        /\ handler' = [handler EXCEPT ![h] = Waits] /\ Waits.uid = Nobody
    BY <1>1, <1>3, <1>7, Continues
  <2>2. u \notin torn => Agree(u)'
    BY <1>2, <1>7, <2>1 DEF StageOK, Agree, RoleClaim
  <2> QED
    BY <1>1, <1>3, <1>7, <2>1, <2>2, GoesOnOK
<1> QED
  BY <1>4, <1>5, <1>6, <1>7 DEF DeleteAccount, StrikeRecord

(* An operator's change of role, the record and then the claims.           *)
LEMMA RoleOK ==
  ASSUME AccountsInv, NEW h \in Handlers, StoreRole(h) \/ FollowClaims(h)
  PROVE  AccountsInv'
<1>1. handler[h].next \in {"store_role", "follow_claims"}
  BY DEF StoreRole, FollowClaims
<1> PICK u \in Uids : u = handler[h].uid
  BY <1>1, HandlerTyped
<1>2. StageOK(h, u)
  BY DEF AccountsInv, MemberOK
<1>3. account \in [Uids -> Account \cup {Nobody}] /\ roster \in [Uids -> Roles \cup {Nobody}]
  BY DEF AccountsInv, AccountsTypeOK
<1>4. CASE Torn(h) /\ Finishes(h)
  BY <1>1, <1>3, <1>4, CutShortOK, MemberWrites DEF StoreRole, FollowClaims
<1>5. CASE /\ handler[h].next = "store_role" /\ UNCHANGED <<account, session, usedUids, torn>>
           /\ roster' = Enrolled(h) /\ Proceeds(h, "follow_claims")
  <2> PICK w : w = [handler[h] EXCEPT !.next = "follow_claims"]
    OBVIOUS
  <2>1. /\ w \in [next : Steps, uid : Uids, role : Roles \cup {Nobody}, by : Uids \cup {Nobody}]
        /\ w.next = "follow_claims" /\ w.uid = u /\ w.role = handler[h].role
        /\ handler' = [handler EXCEPT ![h] = w] /\ handler'[h] = w
    BY <1>1, <1>5, Continues DEF Steps
  <2>2. /\ roster'[u] = handler[h].role
        /\ roster' \in [Uids -> Roles \cup {Nobody}]
        /\ \A v \in Uids \ {u} : roster'[v] = roster[v]
    BY <1>1, <1>5, MemberWrites
  <2>4. account' \in [Uids -> Account \cup {Nobody}]
    BY <1>3, <1>5
  <2>3. StageOK(h, u)'
    BY <1>2, <1>5, <2>1, <2>2 DEF StageOK, RoleClaim
  <2>5. /\ UNCHANGED <<session, usedUids, torn>> /\ handler[h].next # "nothing"
        /\ \A v \in Uids \ {u} : account'[v] = account[v] /\ roster'[v] = roster[v]
    BY <1>5, <2>2
  <2> QED
    BY <2>1, <2>2, <2>3, <2>4, <2>5, GoesOnOK
<1>6. CASE /\ handler[h].next = "follow_claims" /\ UNCHANGED <<roster, session, usedUids, torn>>
           /\ account' = Claimed(h) /\ Finishes(h)
  <2>1. /\ account' \in [Uids -> Account \cup {Nobody}]
        /\ \A v \in Uids \ {u} : account'[v] = account[v]
        /\ account[u] # Nobody =>
             account'[u] # Nobody /\ account'[u].role = handler[h].role
        /\ handler' = [handler EXCEPT ![h] = Waits] /\ Waits.uid = Nobody
    BY <1>1, <1>6, MemberWrites, Continues
  <2>2. u \notin torn => Agree(u)'
    BY <1>2, <1>6, <2>1 DEF StageOK, Agree, RoleClaim
  <2> QED
    BY <1>1, <1>3, <1>6, <2>1, <2>2, GoesOnOK
<1> QED
  BY <1>4, <1>5, <1>6 DEF StoreRole, FollowClaims, AfterRole

(* Tokens, and an operator's switch of an account.                         *)
LEMMA MemberStepOK ==
  ASSUME AccountsInv, NEW u \in Uids,
         \/ MintToken(u) \/ TokenExpires(u)
         \/ \E disabled \in BOOLEAN : ChangeStatus(u, disabled)
  PROVE  AccountsInv'
<1>1. account[u] \in Account \cup {Nobody}
  BY DEF AccountsInv, AccountsTypeOK
<1>2. /\ UNCHANGED <<roster, usedUids, handler, torn>>
      /\ account' \in [Uids -> Account \cup {Nobody}]
      /\ session' \in [Uids -> Roles \cup {Nobody}]
      /\ \A v \in Uids : account'[v] = Nobody <=> account[v] = Nobody
      /\ \A v \in Uids : RoleClaim(v)' = RoleClaim(v)
  <2>1. CASE MintToken(u) \/ TokenExpires(u)
    <3>1. MintToken(u) => account[u].role \in Roles \cup {Nobody}
      BY <1>1 DEF MintToken, RoleClaim, Account
    <3> QED
      BY <2>1, <3>1 DEF MintToken, TokenExpires, AccountsInv, AccountsTypeOK, RoleClaim
  <2>2. ASSUME NEW disabled \in BOOLEAN, ChangeStatus(u, disabled)
        PROVE  /\ UNCHANGED <<roster, usedUids, handler, torn, session>>
               /\ account' \in [Uids -> Account \cup {Nobody}]
               /\ \A v \in Uids : account'[v] = Nobody <=> account[v] = Nobody
               /\ \A v \in Uids : RoleClaim(v)' = RoleClaim(v)
    <3> DEFINE new == [account[u] EXCEPT !.disabled = disabled]
    <3>1. account[u] \in Account /\ account[u] # Nobody
      BY <1>1, <2>2 DEF ChangeStatus
    <3>2. new \in Account /\ new.role = account[u].role
      BY <3>1 DEF Account
    <3>3. account' = [account EXCEPT ![u] = new] /\ UNCHANGED <<roster, usedUids, handler, torn, session>>
      BY <2>2 DEF ChangeStatus
    <3> HIDE DEF new
    <3>4. new # Nobody
      BY <3>2, AccountsAssumption
    <3> QED
      BY <3>1, <3>2, <3>3, <3>4 DEF AccountsInv, AccountsTypeOK, RoleClaim
  <2> QED
    BY <2>1, <2>2 DEF AccountsInv, AccountsTypeOK
<1>3. AccountsTypeOK'
  BY <1>2 DEF AccountsInv, AccountsTypeOK
<1>4. \A v \in Uids, h \in Handlers : StageOK(h, v) => StageOK(h, v)'
  BY <1>2 DEF StageOK
<1>5. \A v \in Uids : Agree(v) => Agree(v)'
  BY <1>2 DEF Agree
<1> QED
  BY <1>2, <1>3, <1>4, <1>5 DEF AccountsInv, MemberOK

(* Every step of the accounts keeps the invariant.                         *)
LEMMA AccountsStepOK ==
  ASSUME AccountsInv, [AccountsNext]_accountVars
  PROVE  AccountsInv'
<1>1. CASE UNCHANGED accountVars
  BY <1>1
  DEF accountVars, AccountsInv, AccountsTypeOK, MemberOK, StageOK, Agree, RoleClaim
<1>2. ASSUME NEW h \in Handlers, HandlerStep(h) PROVE AccountsInv'
  <2>1. CASE \E email \in Emails :
               \/ Signup(h, email)
               \/ \E role \in Roles, by \in Uids : Invite(h, email, role, by)
    BY <2>1, CreateAccountOK, AccountsAssumption DEF Signup, Invite
  <2>2. ASSUME NEW u \in Uids, NEW by \in Uids, Remove(h, u, by) PROVE AccountsInv'
    BY <2>2, HandlerBeginsOK DEF Remove, Another
  <2>3. ASSUME NEW u \in Uids, NEW role \in Roles, ChangeRole(h, u, role) PROVE AccountsInv'
    BY <2>3, HandlerBeginsOK, AccountsAssumption DEF ChangeRole
  <2>4. CASE HandlerDies(h)
    <3>1. handler[h].next # "nothing"
      BY <2>4 DEF HandlerDies, Free, AccountsInv, AccountsTypeOK, Steps
    <3> QED
      BY <2>4, <3>1, CutShortOK DEF HandlerDies, AccountsInv, AccountsTypeOK
  <2> QED
    BY <1>2, <2>1, <2>2, <2>3, <2>4, EnrolOK, RemovalOK, RoleOK DEF HandlerStep
<1> QED
  BY <1>1, <1>2, MemberStepOK DEF AccountsNext

(* The invariant of the accounts, for any members and requests.            *)
THEOREM AccountsInvariant == AccountsSpec => []AccountsInv
<1> QED
  BY AccountsInitOK, AccountsStepOK, PTL DEF AccountsSpec

(* Accounts, records, tokens and requests keep their types.                *)
THEOREM AccountsTyped == AccountsSpec => []AccountsTypeOK
<1>1. AccountsInv => AccountsTypeOK
  BY DEF AccountsInv
<1> QED
  BY <1>1, AccountsInvariant, PTL

(* The accounts and the roster agree about every member whom no request is *)
(* about, none left half done and no two touched at once.                  *)
THEOREM StoresAlwaysAgree == AccountsSpec => []StoresAgree
<1>1. AccountsInv => StoresAgree
  BY DEF AccountsInv, MemberOK, Agree, StoresAgree
<1> QED
  BY <1>1, AccountsInvariant, PTL

(* For any number of managers and requests: the last one goes only by an   *)
(* operator's change, or by a removal whose author is no manager any more. *)
THEOREM LastManagerStays == AccountsSpec => LastManagerKept
<1> DEFINE Explained ==
      \E h \in Handlers :
         \/ handler[h].next = "follow_claims"
         \/ handler[h].next = "delete_account" /\ handler[h].by \notin ManagersNow
<1>1. ASSUME AccountsInv, AccountsNext, ManagersNow # {}, ManagersNow' = {}
      PROVE  Explained
  <2> USE <1>1
  <2>1. PICK u \in Uids : RoleClaim(u) \in Managing
    BY DEF ManagersNow
  <2>2. RoleClaim(u) # Nobody /\ account[u] # Nobody /\ account[u].role \in Managing
    BY <2>1, AccountsAssumption DEF RoleClaim
  <2>3. \A v \in Uids : account'[v] = account[v] => RoleClaim(v) \notin Managing
    BY DEF ManagersNow, RoleClaim
  <2>4. account'[u] # account[u]
    BY <2>1, <2>3
  <2>5. ASSUME NEW h \in Handlers, NEW email \in Emails, NEW role \in Roles,
               CreateAccount(h, email, role)
        PROVE  FALSE
    <3>1. NewUid \in Uids /\ NewUid \notin usedUids
      BY <2>5 DEF CreateAccount, NewUid, AccountsInv, AccountsTypeOK
    <3>2. NewUid # u
      BY <2>2, <3>1 DEF AccountsInv, MemberOK
    <3> QED
      BY <2>4, <2>5, <3>2 DEF CreateAccount, AccountsInv, AccountsTypeOK
  <2>6. ASSUME NEW h \in Handlers, SetClaims(h) PROVE FALSE
    <3>1. handler[h].next # "nothing" /\ account' \in {account, Claimed(h)}
      BY <2>6 DEF SetClaims
    <3>2. handler[h].uid \in Uids
      BY <3>1, HandlerTyped
    <3>3. \A v \in Uids \ {handler[h].uid} : Claimed(h)[v] = account[v]
      BY <3>1, <3>2, MemberWrites
    <3>4. handler[h].uid = u
      BY <2>4, <3>1, <3>3
    <3>5. StageOK(h, u)
      BY <3>4 DEF AccountsInv, MemberOK
    <3> QED
      BY <2>2, <2>6, <3>5 DEF StageOK, SetClaims
  <2>7. ASSUME NEW h \in Handlers, DeleteAccount(h) PROVE Explained
    <3>1. handler[h].next = "delete_account" /\ handler[h].uid \in Uids
      BY <2>7, HandlerTyped DEF DeleteAccount
    <3>2. \A v \in Uids \ {handler[h].uid} : account'[v] = account[v]
      BY <2>7 DEF DeleteAccount, AccountsInv, AccountsTypeOK
    <3>3. handler[h].by # handler[h].uid
      BY <3>1 DEF AccountsInv, MemberOK, StageOK
    <3>4. handler[h].by \notin ManagersNow
      BY <2>3, <3>2, <3>3 DEF ManagersNow
    <3> QED
      BY <3>1, <3>4
  <2>8. ASSUME NEW h \in Handlers, FollowClaims(h) PROVE Explained
    BY <2>8 DEF FollowClaims
  <2>9. ASSUME NEW v \in Uids, NEW disabled \in BOOLEAN, ChangeStatus(v, disabled) PROVE FALSE
    <3>1. v = u
      BY <2>4, <2>9 DEF ChangeStatus, AccountsInv, AccountsTypeOK
    <3>2. account[u] \in Account
      BY <2>2 DEF AccountsInv, AccountsTypeOK
    <3>3. account'[u] = [account[u] EXCEPT !.disabled = disabled]
      BY <2>9, <3>1 DEF ChangeStatus, AccountsInv, AccountsTypeOK
    <3>4. account'[u].role = account[u].role /\ account'[u] \in Account
      BY <3>2, <3>3 DEF Account
    <3>5. RoleClaim(u)' \in Managing
      BY <2>2, <3>4, AccountsAssumption DEF RoleClaim
    <3> QED
      BY <3>5 DEF ManagersNow
  <2> HIDE DEF Explained
  <2> QED
    BY <2>4, <2>5, <2>6, <2>7, <2>8, <2>9, AccountsAssumption
    DEF AccountsNext, HandlerStep, MintToken, TokenExpires, Signup, Invite, Remove, StoreRecord,
        StrikeRecord, ChangeRole, StoreRole, HandlerDies
<1>2. AccountsInv /\ [AccountsNext]_accountVars =>
        [ManagersNow # {} /\ ManagersNow' = {} =>
           \E h \in Handlers :
             \/ handler[h].next = "follow_claims"
             \/ handler[h].next = "delete_account" /\ handler[h].by \notin ManagersNow]_accountVars
  BY <1>1
<1> HIDE DEF Explained
<1> QED
  BY <1>2, AccountsInvariant, PTL DEF AccountsSpec, LastManagerKept

-----------------------------------------------------------------------------
(* The seven parts together.  A step of MCServices is a step of one part   *)
(* that leaves the variables of the others alone, so each part behaves as  *)
(* its own specification says and everything above holds of the whole.     *)

LEMMA PartsBegin ==
  ServicesInit => /\ TicketInit /\ LimitInit /\ AccessInit /\ TaskInit
                  /\ RetentionInit /\ AccountsInit /\ AssessmentInit
                  /\ part \in Parts
BY DEF ServicesInit

LEMMA PartsStep ==
  ASSUME [ServicesNext]_servicesVars
  PROVE  /\ [TicketNext]_ticketVars /\ [LimitNext]_limitVars /\ [AccessNext]_accessVars
         /\ [TaskNext]_taskVars /\ [RetentionNext]_retentionVars
         /\ [AccountsNext]_accountVars /\ [AssessmentNext]_assessmentVars
         /\ part' = part
<1>1. CASE ServicesNext
  BY <1>1 DEF ServicesNext
<1>2. CASE UNCHANGED servicesVars
  BY <1>2 DEF servicesVars
<1> QED
  BY <1>1, <1>2

(* Whatever the parts do, each behaves as if it were alone.                *)
THEOREM PartsBehave ==
  ServicesSpec => /\ TicketSpec /\ LimitSpec /\ AccessSpec /\ TaskSpec
                  /\ RetentionSpec /\ AccountsSpec /\ AssessmentSpec
BY PartsBegin, PartsStep, PTL
DEF ServicesSpec, TicketSpec, LimitSpec, AccessSpec, TaskSpec, RetentionSpec,
    AccountsSpec, AssessmentSpec

(* Every record, cache entry, row and request in flight of the seven parts *)
(* stays of its shape.                                                     *)
THEOREM ServicesTyped == ServicesSpec => []ServicesTypeOK
<1>1. ServicesSpec => [](part \in Parts)
  <2>1. part \in Parts /\ [ServicesNext]_servicesVars => (part \in Parts)'
    BY PartsStep DEF Parts
  <2> QED
    BY PartsBegin, <2>1, PTL DEF ServicesSpec
<1>2. (/\ TicketTypeOK /\ LimitTypeOK /\ AccessTypeOK /\ TaskTypeOK
       /\ RetentionTypeOK /\ AccountsTypeOK /\ AssessmentTypeOK
       /\ part \in Parts) => ServicesTypeOK
  BY DEF ServicesTypeOK
<1> QED
  BY <1>1, <1>2, PartsBehave, TicketsTyped, LimitsTyped, AccessTyped, TasksTyped,
     RetentionTyped, AccountsTyped, AssessmentTyped, PTL

(* What each part promises, of the specification the seven share.          *)
THEOREM ServicesKeepPromises ==
  ServicesSpec =>
    /\ [](/\ TicketsSound /\ AdmissionBound /\ LimitPromises /\ AccessSound /\ AnswersBacked
          /\ RetentionHonest /\ StoresAgree /\ AssessmentSound)
    /\ MessagesLostOnlyToUpdates /\ RefusalsStick /\ SettledRowsStay /\ LastManagerKept
BY PartsBehave, TicketsAreSound, BucketBoundsAdmission, LimitersKeepPromises, AccessIsSound,
   AnswersAreBacked, RetentionIsHonest, StoresAlwaysAgree, AssessmentIsSound,
   MessagesOnlyLostToUpdates, RefusalsAreFinal, SettledRowsAreFinal, LastManagerStays, PTL

=============================================================================
