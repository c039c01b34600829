------------------------------ MODULE TaskRows ------------------------------
(***************************************************************************)
(* Task rows: what the orchestrator records of a piece of work it hands    *)
(* out, and what the caller is answered and charged.                       *)
(*                                                                         *)
(* A row is changed by _transition: read it, change the copy's status,     *)
(* store the whole copy.  Inline, one thread does the work and every       *)
(* transition; in the cloud it puts the task on a queue and the row waits  *)
(* for callbacks (external: nothing in the repository sends them).         *)
(*                                                                         *)
(* Every call to the store may raise, with or without having had its       *)
(* effect.  faulted notes that something of the bookkeeping did.            *)
(***************************************************************************)
EXTENDS Naturals

CONSTANTS
  Jobs,       \* task ids, one per request to create_and_dispatch
  Callbacks   \* status callbacks that may be in flight

Modes    == {"inline", "cloud"}           \* CG_DISPATCH_MODE
Kinds    == {"scan", "ingest", "check", "report"}
Handled  == {"ingest", "check"}           \* handlers of the inline dispatcher
RowState == {"none", "queued", "running", "succeeded", "failed"}
TaskRow  == [status : RowState, result : BOOLEAN, error : BOOLEAN]

VARIABLES
  mode,      \* the deployment
  kind,      \* per task: what is asked for
  row,       \* per task: the stored row
  job,       \* per task: where its thread is, and the row it read
  onQueue,   \* tasks Cloud Tasks holds or has delivered
  produced,  \* tasks whose work is stored
  charge,    \* per task: "none", "charged" or "released"
  callback,  \* per callback: the task, the status it brings and the row it read
  faulted    \* tasks with a bookkeeping call that raised, or a dead thread

taskVars == <<mode, kind, row, job, onQueue, produced, charge, callback, faulted>>

Transitions == {"run", "done", "fail", "fail_again"}
Stages == {"new", "created", "dispatch", "working", "worked", "reread", "raising",
           "answered", "refused", "dead"} \cup Transitions

NoRow      == [status |-> "none", result |-> FALSE, error |-> FALSE]
NoCallback == [for |-> "nobody", status |-> "none", copy |-> NoRow]

ASSUME TaskRowsAssumption == "nobody" \notin Jobs

TaskTypeOK ==
  /\ mode \in Modes
  /\ kind \in [Jobs -> Kinds]
  /\ row \in [Jobs -> TaskRow]
  /\ job \in [Jobs -> [at : Stages, holds : BOOLEAN, copy : TaskRow]]
  /\ onQueue \subseteq Jobs /\ produced \subseteq Jobs /\ faulted \subseteq Jobs
  /\ charge \in [Jobs -> {"none", "charged", "released"}]
  /\ callback \in [Callbacks ->
       [for : Jobs \cup {"nobody"}, status : RowState, copy : TaskRow]]

TaskInit ==
  /\ mode \in Modes
  /\ kind \in [Jobs -> Kinds]
  /\ row = [t \in Jobs |-> NoRow]
  /\ job = [t \in Jobs |-> [at |-> "new", holds |-> FALSE, copy |-> NoRow]]
  /\ onQueue = {} /\ produced = {} /\ faulted = {}
  /\ charge = [t \in Jobs |-> IF kind[t] = "check" THEN "charged" ELSE "none"]
  /\ callback = [b \in Callbacks |-> NoCallback]

Goto(t, stage) == job' = [job EXCEPT ![t] = [at |-> stage, holds |-> FALSE, copy |-> NoRow]]

GoesWrong(t) == faulted' = faulted \cup {t}

-----------------------------------------------------------------------------
(* create_and_dispatch: the row, its audit row, the dispatch.              *)
CreateRow(t) ==
  /\ job[t].at = "new"
  /\ \/ /\ row' = [row EXCEPT ![t] = [NoRow EXCEPT !.status = "queued"]]
        /\ Goto(t, "created")
        /\ UNCHANGED faulted
     \/ /\ row' \in {row, [row EXCEPT ![t] = [NoRow EXCEPT !.status = "queued"]]}
        /\ Goto(t, "raising")
        /\ GoesWrong(t)
  /\ UNCHANGED <<mode, kind, onQueue, produced, charge, callback>>

AuditCreated(t) ==
  /\ job[t].at = "created"
  /\ \/ Goto(t, "dispatch") /\ UNCHANGED faulted
     \/ Goto(t, "raising") /\ GoesWrong(t)
  /\ UNCHANGED <<mode, kind, row, onQueue, produced, charge, callback>>

(* A dispatch that raises is terminal: mark_failed, and the exception.     *)
DispatchInline(t) ==
  /\ job[t].at = "dispatch" /\ mode = "inline"
  /\ Goto(t, IF kind[t] \in Handled THEN "run" ELSE "fail_again")
  /\ UNCHANGED <<mode, kind, row, onQueue, produced, charge, callback, faulted>>

DispatchCloud(t) ==
  /\ job[t].at = "dispatch" /\ mode = "cloud"
  /\ \/ onQueue' = onQueue \cup {t} /\ Goto(t, "reread") /\ UNCHANGED faulted
     \/ UNCHANGED onQueue /\ Goto(t, "fail_again") /\ UNCHANGED faulted
     \/ onQueue' = onQueue \cup {t} /\ Goto(t, "fail_again") /\ GoesWrong(t)
  /\ UNCHANGED <<mode, kind, row, produced, charge, callback>>

-----------------------------------------------------------------------------
(* _transition, in the thread of the task: the row is read, then stored    *)
(* with the new status.  mark_succeeded adds a result, mark_failed an      *)
(* error, and neither removes what the copy had.                           *)
Target(stage) ==
  CASE stage = "run"  -> "running"
    [] stage = "done" -> "succeeded"
    [] OTHER          -> "failed"

Changed(copy, status) ==
  [status |-> status,
   result |-> copy.result \/ status = "succeeded",
   error  |-> copy.error  \/ status = "failed"]

(* Fault: a handler whose work failed marks the task and returns.          *)
AfterSwallowing(stage) ==
  CASE stage = "run" -> "working" [] stage = "fail_again" -> "raising" [] OTHER -> "reread"

(* Fault: the failure is marked in a finally, whatever happened.           *)
AfterFinally(stage) ==
  CASE stage = "run" -> "working" [] stage = "fail_again" -> "raising"
    [] stage = "done" -> "fail" [] OTHER -> "reread"

(* Where a thread goes when a transition is through: a handler that marked *)
(* its task failed raises, and so the dispatch fails and marks it again.   *)
AfterMark(stage) ==
  CASE stage = "run"  -> "working"
    [] stage = "done" -> "reread"
    [] stage = "fail" -> "fail_again"
    [] OTHER          -> "raising"

(* ... and when it raised: only mark_succeeded is inside the handler's try.*)
Escape(stage) ==
  CASE stage = "done" -> "fail"
    [] stage \in {"run", "fail"} -> "fail_again"
    [] OTHER -> "raising"

MarkRead(t) ==
  /\ job[t].at \in Transitions /\ ~job[t].holds
  /\ \/ job' = [job EXCEPT ![t] = [at |-> job[t].at, holds |-> TRUE, copy |-> row[t]]]
        /\ UNCHANGED faulted
     \/ Goto(t, Escape(job[t].at)) /\ GoesWrong(t)
  /\ UNCHANGED <<mode, kind, row, onQueue, produced, charge, callback>>

MarkWrite(t) ==
  LET written == [row EXCEPT ![t] = Changed(job[t].copy, Target(job[t].at))]
  IN /\ job[t].at \in Transitions /\ job[t].holds
     /\ \/ row' = written /\ Goto(t, AfterMark(job[t].at)) /\ UNCHANGED faulted
        \/ row' \in {row, written} /\ Goto(t, Escape(job[t].at)) /\ GoesWrong(t)
     /\ UNCHANGED <<mode, kind, onQueue, produced, charge, callback>>

(* The work of an inline handler.  What follows it belongs to the same try *)
(* and may raise beside stored work: the audit row of the ingestion, and   *)
(* after a verdict the notification, whose audit row must be written.      *)
Work(t) ==
  /\ job[t].at = "working"
  /\ \/ produced' = produced \cup {t} /\ Goto(t, "worked")
     \/ UNCHANGED produced /\ Goto(t, "fail")
  /\ UNCHANGED <<mode, kind, row, onQueue, charge, callback, faulted>>

Notify(t) ==
  /\ job[t].at = "worked"
  /\ \/ Goto(t, "done") /\ UNCHANGED faulted
     \/ Goto(t, "fail") /\ GoesWrong(t)
  /\ UNCHANGED <<mode, kind, row, onQueue, produced, charge, callback>>

-----------------------------------------------------------------------------
(* The end of the request: the row is read for the answer, or what was     *)
(* charged is released and the exception goes on.                          *)
Reread(t) ==
  /\ job[t].at = "reread"
  /\ \/ Goto(t, "answered") /\ UNCHANGED faulted
     \/ Goto(t, "raising") /\ GoesWrong(t)
  /\ UNCHANGED <<mode, kind, row, onQueue, produced, charge, callback>>

ReleaseCharge(t) ==
  /\ job[t].at = "raising"
  /\ charge' = [charge EXCEPT ![t] = IF @ = "charged" THEN "released" ELSE @]
  /\ Goto(t, "refused")
  /\ UNCHANGED <<mode, kind, row, onQueue, produced, callback, faulted>>

ThreadDies(t) ==
  /\ job[t].at \notin {"new", "answered", "refused", "dead"}
  /\ Goto(t, "dead") /\ GoesWrong(t)
  /\ UNCHANGED <<mode, kind, row, onQueue, produced, charge, callback>>

-----------------------------------------------------------------------------
(* The cloud: the agent does the work, however often it is delivered, and  *)
(* callbacks bring statuses in any order.                                  *)
AgentWorks(t) ==
  /\ t \in onQueue
  /\ produced' = produced \cup {t}
  /\ UNCHANGED <<mode, kind, row, job, onQueue, charge, callback, faulted>>

CallbackRead(b, t, status) ==
  /\ callback[b] = NoCallback /\ t \in onQueue
  /\ callback' = [callback EXCEPT ![b] = [for |-> t, status |-> status, copy |-> row[t]]]
  /\ UNCHANGED <<mode, kind, row, job, onQueue, produced, charge, faulted>>

CallbackWrite(b) ==
  /\ callback[b] # NoCallback
  /\ row' = [row EXCEPT ![callback[b].for] = Changed(callback[b].copy, callback[b].status)]
  /\ callback' = [callback EXCEPT ![b] = NoCallback]
  /\ UNCHANGED <<mode, kind, job, onQueue, produced, charge, faulted>>

CallbackDies(b) ==
  /\ callback[b] # NoCallback
  /\ callback' = [callback EXCEPT ![b] = NoCallback]
  /\ UNCHANGED <<mode, kind, row, job, onQueue, produced, charge, faulted>>

JobStep(t) ==
  \/ CreateRow(t) \/ AuditCreated(t) \/ DispatchInline(t) \/ DispatchCloud(t)
  \/ MarkRead(t) \/ MarkWrite(t) \/ Work(t) \/ Notify(t)
  \/ Reread(t) \/ ReleaseCharge(t) \/ ThreadDies(t) \/ AgentWorks(t)

CallbackStep(b) ==
  \/ \E t \in Jobs, status \in {"running", "succeeded", "failed"} :
       CallbackRead(b, t, status)
  \/ CallbackWrite(b) \/ CallbackDies(b)

TaskNext ==
  \/ \E t \in Jobs : JobStep(t)
  \/ \E b \in Callbacks : CallbackStep(b)

TaskSpec == TaskInit /\ [][TaskNext]_taskVars

-----------------------------------------------------------------------------
Terminal == {"succeeded", "failed"}

(* An answer means the work is done and recorded, or on the queue; and     *)
(* "nothing was produced, so nothing should have been charged" is true of  *)
(* every release unless the bookkeeping itself failed: then the row says   *)
(* failed and no work is stored.                                           *)
AnswersBacked ==
  \A t \in Jobs :
    /\ job[t].at = "answered" =>
         IF mode = "cloud" THEN t \in onQueue
         ELSE t \in produced /\ row[t].status = "succeeded" /\ row[t].result
    /\ job[t].at = "refused" /\ t \notin faulted =>
         row[t].status = "failed" /\ t \notin produced \cup onQueue

(* A row only moves on, from queued to running to an outcome that stays:   *)
(* a status goes back only by a callback (which stores a row read before), *)
(* and one outcome replaces another only there or after a write that       *)
(* raised although it had been stored.                                     *)
Rank == [none |-> 0, queued |-> 1, running |-> 2, succeeded |-> 3, failed |-> 3]

ByCallback(t) ==
  \E b \in Callbacks :
    /\ callback[b].for = t /\ callback'[b] = NoCallback
    /\ row'[t] = Changed(callback[b].copy, callback[b].status)

SettledRowsStay ==
  [][\A t \in Jobs :
       row'[t].status # row[t].status =>
         \/ Rank[row[t].status] < Rank[row'[t].status]
         \/ {row[t].status, row'[t].status} \subseteq Terminal /\ t \in faulted
         \/ ByCallback(t)]_taskVars
=============================================================================
