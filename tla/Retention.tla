----------------------------- MODULE Retention -----------------------------
(***************************************************************************)
(* The retention sweep of one workspace: documents older than the policy   *)
(* allows lose their object, then their record, and the deletion is put on *)
(* the trail.  Sweeps may overlap (their scheduler is external), and the   *)
(* pipeline goes on storing the records it has read.                       *)
(*                                                                         *)
(* Every call may raise, with or without having had its effect, and a      *)
(* sweep may die; mishap notes the documents that met that.  Days are      *)
(* ticks of the clock.                                                     *)
(***************************************************************************)
EXTENDS Integers, FiniteSets

CONSTANTS
  Documents,   \* numbers, in the order in which the store lists them
  Sweeps,      \* sweeps that may be under way
  Pipeline,    \* scanner and ingestion steps that store a whole record
  Policies,    \* retention_days anybody might store, 0 for "keep forever"
  Floor,       \* MIN_RETENTION_DAYS
  Limit,       \* MAX_DOCS_PER_TENANT_PER_RUN
  LastDay      \* bound: the last day a run looks at

ASSUME RetentionAssumption ==
  /\ Documents \subseteq Nat
  /\ Policies \subseteq Nat
  /\ Floor \in Nat \ {0} /\ Limit \in Nat /\ LastDay \in Nat

VARIABLES
  today,
  policy,     \* the tenant record's retention_days
  settings,   \* the tenant write in flight: the days it will store, or -1
  uploaded,   \* documents that ever were
  created,    \* their day
  record,     \* documents with a record
  object,     \* documents with an object in the bucket
  sweep,      \* per sweep: where it is, its policy, what is left, the current one
  pipe,       \* per step of the pipeline: the record it read, or -1
  deletions,  \* the document.retention_deleted rows
  mishap      \* documents whose deletion met an error or a death

retentionVars ==
  <<today, policy, settings, uploaded, created, record, object, sweep, pipe, deletions, mishap>>

Rest == [at |-> "idle", days |-> 0, todo |-> {}, doc |-> -1]

RetentionTypeOK ==
  /\ today \in Nat
  /\ policy \in Policies
  /\ settings \in Policies \cup {-1}
  /\ uploaded \subseteq Documents
  /\ created \in [Documents -> Nat]
  /\ record \subseteq uploaded /\ object \subseteq uploaded
  /\ sweep \in [Sweeps -> [at : {"idle", "policy", "listed", "object_gone", "record_gone"},
                           days : Policies \cup {0}, todo : SUBSET Documents,
                           doc : Documents \cup {-1}]]
  /\ \A s \in Sweeps : sweep[s].at \in {"object_gone", "record_gone"} => sweep[s].doc \in uploaded
  /\ \A s \in Sweeps : sweep[s].todo \subseteq uploaded
  /\ pipe \in [Pipeline -> uploaded \cup {-1}]
  /\ deletions \subseteq uploaded /\ mishap \subseteq Documents

RetentionInit ==
  /\ today = 0
  /\ policy \in Policies
  /\ settings = -1
  /\ uploaded = {} /\ record = {} /\ object = {} /\ deletions = {} /\ mishap = {}
  /\ created = [d \in Documents |-> 0]
  /\ sweep = [s \in Sweeps |-> Rest]
  /\ pipe = [w \in Pipeline |-> -1]

DayPasses ==
  /\ today < LastDay
  /\ today' = today + 1
  /\ UNCHANGED <<policy, settings, uploaded, created, record, object, sweep, pipe,
                 deletions, mishap>>

(* An upload, as far as the sweep sees it: nothing before the record.      *)
Upload(d) ==
  /\ d \notin uploaded
  /\ uploaded' = uploaded \cup {d} /\ record' = record \cup {d} /\ object' = object \cup {d}
  /\ created' = [created EXCEPT ![d] = today]
  /\ UNCHANGED <<today, policy, settings, sweep, pipe, deletions, mishap>>

(* put_retention_settings, and the other edits of the tenant record, which *)
(* store the days they read.                                               *)
ReadSettings(days) ==
  /\ settings = -1
  /\ days = policy \/ days = 0 \/ days >= Floor
  /\ settings' = days
  /\ UNCHANGED <<today, policy, uploaded, created, record, object, sweep, pipe, deletions,
                 mishap>>

StoreSettings ==
  /\ settings # -1
  /\ policy' = settings /\ settings' = -1
  /\ UNCHANGED <<today, uploaded, created, record, object, sweep, pipe, deletions, mishap>>

(* The pipeline's read and write of a document record.                     *)
PipeReads(w, d) ==
  /\ pipe[w] = -1 /\ d \in record
  /\ pipe' = [pipe EXCEPT ![w] = d]
  /\ UNCHANGED <<today, policy, settings, uploaded, created, record, object, sweep,
                 deletions, mishap>>

PipeWrites(w) ==
  /\ pipe[w] # -1
  /\ record' = record \cup {pipe[w]}
  /\ pipe' = [pipe EXCEPT ![w] = -1]
  /\ UNCHANGED <<today, policy, settings, uploaded, created, object, sweep, deletions, mishap>>

-----------------------------------------------------------------------------
(* The sweep: the policy with the tenant; then the cutoff and the list.    *)
BeginSweep(s) ==
  /\ sweep[s].at = "idle"
  /\ sweep' = [sweep EXCEPT ![s] = [at |-> "policy", days |-> policy, todo |-> {}, doc |-> -1]]
  /\ UNCHANGED <<today, policy, settings, uploaded, created, record, object, pipe,
                 deletions, mishap>>

(* The limit is applied by the query, the age is looked at afterwards.     *)
FirstFew == {d \in record : Cardinality({e \in record : e < d}) < Limit}

Stale(days) == {d \in FirstFew : created[d] < today - days}

(* Fault: any positive number of days is swept.                            *)
AnyPolicy(days) == days > 0

Sweepable(days) == days > 0 /\ days >= Floor

ListStale(s) ==
  LET days == sweep[s].days
  IN /\ sweep[s].at = "policy"
     /\ sweep' = [sweep EXCEPT ![s] =
          IF Sweepable(days)
          THEN [at |-> "listed", days |-> days, todo |-> Stale(days), doc |-> -1] ELSE Rest]
     /\ UNCHANGED <<today, policy, settings, uploaded, created, record, object, pipe,
                    deletions, mishap>>

(* One document: object, record, row.  What raises leaves the document and *)
(* goes on with the next.                                                  *)
Takes(s, stage, d, doc) ==
  sweep' = [sweep EXCEPT ![s] =
              [at |-> stage, days |-> @.days, todo |-> @.todo \ {d}, doc |-> doc]]

NextDocument(s) == sweep' = [sweep EXCEPT ![s] = [@ EXCEPT !.at = "listed", !.doc = -1]]

DeleteObject(s, d) ==
  /\ sweep[s].at = "listed" /\ d \in sweep[s].todo
  /\ \/ object' = object \ {d} /\ Takes(s, "object_gone", d, d) /\ UNCHANGED mishap
     \/ /\ object' \in {object, object \ {d}}
        /\ Takes(s, "listed", d, -1) /\ mishap' = mishap \cup {d}
  /\ UNCHANGED <<today, policy, settings, uploaded, created, record, pipe, deletions>>

(* Fault: the row is not written when another sweep lists the document too.*)
LeftToOthers(s) ==
  IF \E q \in Sweeps \ {s} : sweep[q].doc = sweep[s].doc THEN "listed" ELSE "record_gone"

AfterDelete(s) == "record_gone"

(* delete_document reads the record first: a second sweep finds none, its  *)
(* call raises, and it leaves the row to the first.                        *)
DeleteRecord(s) ==
  LET d == sweep[s].doc
  IN /\ sweep[s].at = "object_gone"
     /\ \/ /\ d \in record
           /\ record' = record \ {d}
           /\ sweep' = [sweep EXCEPT ![s].at = AfterDelete(s)]
           /\ UNCHANGED mishap
        \/ /\ d \notin record
           /\ NextDocument(s)
           /\ UNCHANGED <<record, mishap>>
        \/ /\ record' \in {record, record \ {d}}
           /\ NextDocument(s) /\ mishap' = mishap \cup {d}
     /\ UNCHANGED <<today, policy, settings, uploaded, created, object, pipe, deletions>>

AuditDeletion(s) ==
  LET d == sweep[s].doc
  IN /\ sweep[s].at = "record_gone"
     /\ \/ deletions' = deletions \cup {d} /\ UNCHANGED mishap
        \/ UNCHANGED deletions /\ mishap' = mishap \cup {d}
     /\ NextDocument(s)
     /\ UNCHANGED <<today, policy, settings, uploaded, created, record, object, pipe>>

SweepEnds(s) ==
  /\ sweep[s].at = "listed" /\ sweep[s].todo = {}
  /\ sweep' = [sweep EXCEPT ![s] = Rest]
  /\ UNCHANGED <<today, policy, settings, uploaded, created, record, object, pipe,
                 deletions, mishap>>

SweepDies(s) ==
  /\ sweep[s].at # "idle"
  /\ sweep' = [sweep EXCEPT ![s] = Rest]
  /\ mishap' = mishap \cup ({sweep[s].doc} \ {-1})
  /\ UNCHANGED <<today, policy, settings, uploaded, created, record, object, pipe, deletions>>

SweepStep(s) ==
  \/ BeginSweep(s) \/ ListStale(s)
  \/ \E d \in Documents : DeleteObject(s, d)
  \/ DeleteRecord(s) \/ AuditDeletion(s) \/ SweepEnds(s) \/ SweepDies(s)

RetentionNext ==
  \/ DayPasses \/ StoreSettings
  \/ \E days \in Policies : ReadSettings(days)
  \/ \E d \in Documents : Upload(d)
  \/ \E w \in Pipeline : PipeWrites(w) \/ \E d \in Documents : PipeReads(w, d)
  \/ \E s \in Sweeps : SweepStep(s)

RetentionSpec == RetentionInit /\ [][RetentionNext]_retentionVars

-----------------------------------------------------------------------------
(* Nothing is ever taken that is not older than the floor, whatever number *)
(* of days got into the tenant record, and however it changed meanwhile.   *)
YoungKept ==
  \A d \in uploaded :
    d \notin record \/ d \notin object => today - created[d] > Floor

(* "Deleting a document never erases the evidence that it existed": a      *)
(* record that is gone is on the trail, or about to be, unless the         *)
(* deletion itself met an error.                                           *)
DeletionsOnRecord ==
  \A d \in uploaded \ record :
    \/ d \in deletions
    \/ \E s \in Sweeps : sweep[s].at = "record_gone" /\ sweep[s].doc = d
    \/ d \in mishap

(* A record without its object is a deletion under way, one that met an    *)
(* error, or a record that the pipeline has stored again.                  *)
OrphansExplained ==
  \A d \in record \ object :
    \/ d \in mishap \cup deletions
    \/ \E s \in Sweeps : sweep[s].at \in {"object_gone", "record_gone"} /\ sweep[s].doc = d

RetentionHonest == YoungKept /\ DeletionsOnRecord /\ OrphansExplained

=============================================================================
