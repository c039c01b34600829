---------------------------- MODULE CheckReview ----------------------------
(***************************************************************************)
(* One compliance check document and everybody who writes it: the          *)
(* compliance agent (one worker per delivery of a CHECK task), the         *)
(* reviewers who decide or claim it, the members who comment on it and the *)
(* managers who assign it.                                                 *)
(*                                                                         *)
(* check_id is uuid5(document, ruleset version), so every run of the agent *)
(* for one document and ruleset writes the same Firestore document; checks *)
(* with different ids share nothing, and one of them is enough.            *)
(*                                                                         *)
(* A handler that reads, awaits and writes is one action per step; a       *)
(* Firestore transaction is one action.  A request or a worker may die     *)
(* between any two steps.                                                  *)
(***************************************************************************)
EXTENDS Naturals

CONSTANTS
  Reviewers,   \* members whose role passes require_role("reviewer")
  Commenters,  \* members who comment (any role may)
  Managers,    \* members whose role passes require_role("owner", "admin")
  Assignees,   \* whom a manager's request names: members, or None to unassign
  Agents,      \* concurrent executions of the compliance agent's handler
  Notes,       \* comment ids (uuid4: every request takes a fresh one)
  MaxRuns,     \* bound on the deliveries of CHECK tasks for this check
  None,        \* Python's None
  NoCheck      \* the check document does not exist yet

Members  == Reviewers \cup Commenters \cup Managers
Verdicts == {"escalated", "auto_approved"}
Rulings  == {"auto_approved", "rejected"}    \* approve, reject
Decisions == Verdicts \cup Rulings

ASSUME CheckReviewAssumption ==
  /\ MaxRuns \in Nat
  /\ None \notin Members \cup Decisions
  /\ Assignees \subseteq Members \cup {None}
  /\ NoCheck \notin [decision : Decisions, reviewer : Members \cup {None},
                     assigned : Members \cup {None}, notes : SUBSET Notes,
                     run : 1..MaxRuns]

VARIABLES
  check,     \* the stored ComplianceCheck, or NoCheck
  agent,     \* per agent worker: program counter and the run it executes
  req,       \* per member: the request in flight and its local copy
  audit,     \* the check's compliance.checked, check.approved and
             \* check.rejected rows of audit_logs
  runs,      \* deliveries of CHECK tasks so far
  usedNotes, \* comment ids handed out
  verdicts,  \* history: what the agent concluded in each run that stored one
  commits    \* history: the reviewer decisions that committed

vars == <<check, agent, req, audit, runs, usedNotes, verdicts, commits>>

Check == [decision : Decisions, reviewer : Members \cup {None},
          assigned : Members \cup {None}, notes : SUBSET Notes, run : 1..MaxRuns]
Commit == [run : 1..MaxRuns, by : Members, ruling : Rulings]

IdleAgent   == [at |-> "idle", run |-> 0]
IdleRequest == [op |-> "idle", copy |-> NoCheck, arg |-> None]

Agent   == {IdleAgent} \cup [at : {"evaluating", "stored"}, run : 1..MaxRuns]
Request == {IdleRequest}
  \cup [op : {"decide", "decided"}, copy : {NoCheck}, arg : Rulings]
  \cup [op : {"comment"}, copy : Check, arg : Notes]
  \cup [op : {"assign"}, copy : Check, arg : Members \cup {None}]

TypeOK ==
  /\ check \in Check \cup {NoCheck}
  /\ agent \in [Agents -> Agent]
  /\ req \in [Members -> Request]
  /\ runs \in 0..MaxRuns
  /\ usedNotes \in SUBSET Notes
  /\ verdicts \in [1..MaxRuns -> Verdicts \cup {None}]
  /\ commits \in SUBSET Commit

Init ==
  /\ check = NoCheck
  /\ agent = [a \in Agents |-> IdleAgent]
  /\ req = [m \in Members |-> IdleRequest]
  /\ audit = {}
  /\ runs = 0
  /\ usedNotes = {}
  /\ verdicts = [n \in 1..MaxRuns |-> None]
  /\ commits = {}

-----------------------------------------------------------------------------
(* The audit log.  event_id is a function of actor, action and dedup key,  *)
(* and BigQuery drops a second row with the same insertId while its best-  *)
(* effort window lasts; after the window the row is inserted again.        *)

(* (One dedup key per action here: "{check_id}:{prompt_version}" and       *)
(* "{check_id}:decision".)                                                 *)

Row(actor, action, after) == [actor |-> actor, action |-> action, after |-> after]

SameEvent(r, s) == r.actor = s.actor /\ r.action = s.action

Log(row) ==
  \/ audit' = audit \cup {row}
  \/ (\E r \in audit : SameEvent(r, row)) /\ audit' = audit

-----------------------------------------------------------------------------
(* The compliance agent: POST /internal/check.                             *)

(* Fault: the threshold comparison is lost and no decision is set.         *)
UndecidedCheck(verdict, n) ==
  [decision |-> None, reviewer |-> None, assigned |-> None,
   notes |-> {}, run |-> n]

FreshCheck(verdict, n) ==
  [decision |-> verdict, reviewer |-> None, assigned |-> None,
   notes |-> {}, run |-> n]

(* A delivery (first, retried or repeated by Cloud Tasks, or of a further  *)
(* task: a user triggered the check again, an admin had it reanalyzed)     *)
(* that passes the PROCESSED guard; one that does not is answered 409 and  *)
(* writes nothing.                                                         *)
CheckStart(a) ==
  /\ agent[a].at = "idle" /\ runs < MaxRuns
  /\ runs' = runs + 1
  /\ agent' = [agent EXCEPT ![a] = [at |-> "evaluating", run |-> runs + 1]]
  /\ UNCHANGED <<check, req, audit, usedNotes, verdicts, commits>>

(* The model answered and the score is on one side of the threshold: the   *)
(* whole record is rebuilt and written over whatever is stored.            *)
CheckStore(a) ==
  /\ agent[a].at = "evaluating"
  /\ \E v \in Verdicts :
       /\ check' = FreshCheck(v, agent[a].run)
       /\ verdicts' = [verdicts EXCEPT ![agent[a].run] = v]
  /\ agent' = [agent EXCEPT ![a].at = "stored"]
  /\ UNCHANGED <<req, audit, runs, usedNotes, commits>>

(* compliance.checked is keyed by check_id and prompt version only.        *)
CheckAudit(a) ==
  /\ agent[a].at = "stored"
  /\ Log(Row("compliance-agent", "compliance.checked", verdicts[agent[a].run]))
  /\ agent' = [agent EXCEPT ![a] = IdleAgent]
  /\ UNCHANGED <<check, req, runs, usedNotes, verdicts, commits>>

(* An exception from Gemini, Firestore or the audit log (answered 502), or *)
(* the death of the instance: what was written stays.                      *)
CheckFails(a) ==
  /\ agent[a].at # "idle"
  /\ agent' = [agent EXCEPT ![a] = IdleAgent]
  /\ UNCHANGED <<check, req, audit, runs, usedNotes, verdicts, commits>>

-----------------------------------------------------------------------------
(* The reviewer's decision: a plain read (for the before_state of the      *)
(* audit row, kept out of the model; a missing check is a 404), the        *)
(* transaction, the audit row.                                             *)

(* Faults: the transaction's re-read checks only half of the condition, or *)
(* nothing at all.                                                         *)
UnreviewedOnly(c) == c.reviewer = None
NoGuard(c) == TRUE

AwaitingReview(c) == c.decision = "escalated" /\ c.reviewer = None

Begin(m, op, copy, arg) ==
  /\ req[m].op = "idle" /\ check # NoCheck         \* 404 otherwise
  /\ req' = [req EXCEPT ![m] = [op |-> op, copy |-> copy, arg |-> arg]]
  /\ UNCHANGED <<check, agent, audit, runs, verdicts, commits>>

Finish(m) == req' = [req EXCEPT ![m] = IdleRequest]

DecideRead(m) ==
  /\ m \in Reviewers
  /\ \E ruling \in Rulings : Begin(m, "decide", NoCheck, ruling)
  /\ UNCHANGED usedNotes

(* Fault: the record is rebuilt with default comments instead of copied.   *)
DecideRebuild(m) ==
  /\ req[m].op = "decide"
  /\ check # NoCheck /\ AwaitingReview(check)
  /\ check' = [check EXCEPT !.decision = req[m].arg, !.reviewer = m, !.notes = {}]
  /\ req' = [req EXCEPT ![m].op = "decided"]
  /\ commits' = commits \cup {[run |-> check.run, by |-> m, ruling |-> req[m].arg]}
  /\ UNCHANGED <<agent, audit, runs, usedNotes, verdicts>>

DecideCommit(m) ==
  /\ req[m].op = "decide"
  /\ check # NoCheck /\ AwaitingReview(check)
  /\ check' = [check EXCEPT !.decision = req[m].arg, !.reviewer = m]
  /\ req' = [req EXCEPT ![m].op = "decided"]
  /\ commits' = commits \cup {[run |-> check.run, by |-> m, ruling |-> req[m].arg]}
  /\ UNCHANGED <<agent, audit, runs, usedNotes, verdicts>>

DecideConflict(m) ==                               \* 409 (404)
  /\ req[m].op = "decide"
  /\ check = NoCheck \/ ~AwaitingReview(check)
  /\ Finish(m)
  /\ UNCHANGED <<check, agent, audit, runs, usedNotes, verdicts, commits>>

RulingAction(ruling) ==
  IF ruling = "rejected" THEN "check.rejected" ELSE "check.approved"

(* Fault: the row is written before the transaction has committed.         *)
DecideAuditEarly(m) ==
  /\ req[m].op \in {"decide", "decided"}
  /\ Log(Row(m, RulingAction(req[m].arg), req[m].arg))
  /\ Finish(m)
  /\ UNCHANGED <<check, agent, runs, usedNotes, verdicts, commits>>

DecideAudit(m) ==
  /\ req[m].op = "decided"
  /\ Log(Row(m, RulingAction(req[m].arg), req[m].arg))
  /\ Finish(m)
  /\ UNCHANGED <<check, agent, runs, usedNotes, verdicts, commits>>

-----------------------------------------------------------------------------
(* Comments and assignment: read the check, change one field of the copy,  *)
(* write the whole copy back outside any transaction.  The audit row that  *)
(* follows is the handler's last step and no property reads it.            *)

CommentRead(m) ==
  /\ m \in Commenters
  /\ \E n \in Notes \ usedNotes :
       Begin(m, "comment", check, n) /\ usedNotes' = usedNotes \cup {n}

AssignRead(m) ==
  /\ m \in Managers
  /\ \E assignee \in Assignees : Begin(m, "assign", check, assignee)
  /\ UNCHANGED usedNotes

WriteBack(m, copy) ==
  /\ check' = copy
  /\ Finish(m)
  /\ UNCHANGED <<agent, audit, runs, usedNotes, verdicts, commits>>

CommentWrite(m) ==
  /\ req[m].op = "comment"
  /\ WriteBack(m, [req[m].copy EXCEPT !.notes = @ \cup {req[m].arg}])

(* Fault: the assignee is written to reviewer_id.                          *)
AssignAsReviewer(m) ==
  /\ req[m].op = "assign"
  /\ WriteBack(m, [req[m].copy EXCEPT !.reviewer = req[m].arg])

AssignWrite(m) ==
  /\ req[m].op = "assign"
  /\ WriteBack(m, [req[m].copy EXCEPT !.assigned = req[m].arg])

(* Self-assignment is a transaction on assigned_to; it conflicts (409)     *)
(* without changing anything.                                              *)
(* Fault: the claim does not re-read assigned_to.                          *)
ClaimUnguarded(m) ==
  /\ m \in Reviewers /\ req[m].op = "idle" /\ check # NoCheck
  /\ check' = [check EXCEPT !.assigned = m]
  /\ UNCHANGED <<agent, req, audit, runs, usedNotes, verdicts, commits>>

Claim(m) ==
  /\ m \in Reviewers /\ req[m].op = "idle" /\ check # NoCheck
  /\ check.assigned = None
  /\ check' = [check EXCEPT !.assigned = m]
  /\ UNCHANGED <<agent, req, audit, runs, usedNotes, verdicts, commits>>

(* The gateway instance dies, or the audit write raises AuditWriteError    *)
(* after its attempts: the request ends in an error, what it wrote stays.  *)
RequestDies(m) ==
  /\ req[m].op # "idle"
  /\ Finish(m)
  /\ UNCHANGED <<check, agent, audit, runs, usedNotes, verdicts, commits>>

-----------------------------------------------------------------------------
AgentStep(a) == CheckStart(a) \/ CheckStore(a) \/ CheckAudit(a) \/ CheckFails(a)

MemberStep(m) ==
  \/ DecideRead(m) \/ DecideCommit(m) \/ DecideConflict(m) \/ DecideAudit(m)
  \/ CommentRead(m) \/ CommentWrite(m) \/ AssignRead(m) \/ AssignWrite(m)
  \/ Claim(m) \/ RequestDies(m)

Next ==
  \/ \E a \in Agents : AgentStep(a)
  \/ \E m \in Members : MemberStep(m)

Spec == Init /\ [][Next]_vars

-----------------------------------------------------------------------------
(* Invariants that hold whatever the deliveries and the interleaving.      *)

(* The stored record never names an outcome nobody produced: without a     *)
(* reviewer it carries the agent's verdict of the run that built it, with  *)
(* one it carries the ruling that reviewer committed on that run.          *)
Provenance(c) ==
  IF c.reviewer = None
  THEN c.decision = verdicts[c.run]
  ELSE [run |-> c.run, by |-> c.reviewer, ruling |-> c.decision] \in commits

StoredDecisionWasMade == check # NoCheck => Provenance(check)

(* A human only ever rules on a check the agent escalated: an automatic    *)
(* approval cannot be taken over (apply_reviewer_decision's re-read).      *)
OnlyEscalatedDecided == \A c \in commits : verdicts[c.run] = "escalated"

IsDecisionRow(r) == r.action \in {"check.approved", "check.rejected"}

(* The audit log holds no decision that was not made: every check.approved *)
(* or check.rejected row is that of a committed ruling of its actor.       *)
(* A reviewer who lost the race leaves no row (apply_decision's order).    *)
RowsAreOfCommits ==
  \A r \in audit : IsDecisionRow(r) =>
    \E c \in commits : c.by = r.actor /\ RulingAction(c.ruling) = r.action

(* What the code does to a decision or a comment it should keep: it is     *)
(* only lost to a re-run of the agent or to a handler that writes back a   *)
(* copy it read earlier - never to another reviewer's decision or claim.   *)
BlindWrite ==
  \/ \E a \in Agents, v \in Verdicts :
       agent[a].at = "evaluating" /\ check' = FreshCheck(v, agent[a].run)
  \/ \E m \in Members :
       /\ req[m].op \in {"comment", "assign"}
       /\ check'.decision = req[m].copy.decision
       /\ check'.reviewer = req[m].copy.reviewer
       /\ req[m].copy.notes \subseteq check'.notes

Ruled(c) == c # NoCheck /\ c.reviewer # None

SameRuling(c, d) == c.decision = d.decision /\ c.reviewer = d.reviewer

DecisionLostOnlyBlindly ==
  [][Ruled(check) /\ ~SameRuling(check', check) => BlindWrite]_vars

NotesLostOnlyBlindly ==
  [][check # NoCheck /\ ~(check.notes \subseteq check'.notes) => BlindWrite]_vars

(* A claim never takes an assigned check from its assignee (claim_check's  *)
(* transaction); only the same two kinds of write can.                     *)
ClaimNeverSteals ==
  [][check # NoCheck /\ check.assigned \notin {None, check'.assigned} => BlindWrite]_vars

-----------------------------------------------------------------------------
(* What the code promises of a decision; it holds when the agent runs once *)
(* and nobody comments or assigns (the runs and the README say so).        *)

(* "exactly one transaction commits ... prevents a double-decision write   *)
(* race on one escalation": a ruling, once committed, stays.               *)
DecisionFinal == [][Ruled(check) => SameRuling(check', check)]_vars

(* The promise itself, as a specification of its own.                      *)
Decided == INSTANCE EscalationDecision WITH
  Reviewers <- Members,
  outcome <- IF check = NoCheck THEN "none" ELSE check.decision,
  by <- IF check = NoCheck THEN None ELSE check.reviewer

ImplementsDecision == Decided!Spec

=============================================================================
