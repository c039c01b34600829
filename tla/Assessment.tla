----------------------------- MODULE Assessment -----------------------------
(***************************************************************************)
(* What a compliance check says and what its fix list says of it.  Each    *)
(* run asks the model for verdicts, makes a check of them, stores it, and  *)
(* then asks the model for fixes and stores the plan.  Check and plan have *)
(* ids that every run of the document shares, so runs (redeliveries, a     *)
(* second trigger) overwrite one another.                                  *)
(*                                                                         *)
(* A reply of the model is, per rule, what it claims of it.  cutShort      *)
(* notes the runs that raised or died before their plan was stored, met    *)
(* the runs that were under way together.                                  *)
(***************************************************************************)
EXTENDS Naturals, FiniteSets
LOCAL INSTANCE FiniteSetsExt

CONSTANTS
  Runs,
  CriticalRules, HighRules, MediumRules, LowRules,   \* the ruleset
  CommonRules,  \* those that the jurisdiction a tenant may move to has too
  RawScores,    \* risk scores of a model, clamped to 0..100
  Threshold,    \* RISK_ESCALATION_THRESHOLD
  MaxAttempts,  \* RetryPolicy.max_attempts
  MaxItems,     \* MAX_ITEMS
  Nothing       \* no check, no plan

(* What a reply says of a rule: "garbled" is a status that is none (or     *)
(* "uncertain" itself), "none" that the reply leaves the rule out.         *)
Claims  == {"pass", "fail", "garbled", "none"}
Verdict == {"pass", "fail", "uncertain"}

Rules == CriticalRules \cup HighRules \cup MediumRules \cup LowRules

Severity == [q \in Rules |-> CASE q \in CriticalRules -> "critical"
                              [] q \in HighRules     -> "high"
                              [] q \in MediumRules   -> "medium"
                              [] OTHER               -> "low"]

VARIABLES
  call,      \* per run: where it is, its attempts, the reply, the decision,
             \* the rules its plan is to be about
  check,     \* the stored check
  plan,      \* the stored plan
  planRow,   \* the audit log has a row of the plan
  cutShort,
  met

assessmentVars == <<call, check, plan, planRow, cutShort, met>>

Silent == [q \in Rules |-> "none"]
Asleep == [at |-> "idle", tries |-> 0, said |-> Silent, decision |-> "none", due |-> {}]
Points == {"idle", "ask_verdicts", "store_check", "audit_check", "ask_fixes", "use_fixes",
           "derive", "audit_plan", "done"}

StoredCheck == [said : [Rules -> Claims], verdict : [Rules -> Verdict],
                decision : {"auto_approved", "escalated"}, run : Runs]
StoredPlan  == [of : SUBSET Rules, items : SUBSET Rules, derived : BOOLEAN, run : Runs]

ASSUME AssessmentAssumption ==
  /\ CommonRules \subseteq Rules
  /\ RawScores \subseteq 0..100 /\ Threshold \in Nat
  /\ MaxAttempts \in Nat \ {0} /\ MaxItems \in Nat
  /\ Nothing \notin StoredCheck \cup StoredPlan

Calls == [at : Points, tries : 0..MaxAttempts, said : [Rules -> Claims],
          decision : {"none", "auto_approved", "escalated"}, due : SUBSET Rules]

AssessmentTypeOK ==
  /\ call \in [Runs -> Calls]
  /\ check \in StoredCheck \cup {Nothing}
  /\ plan \in StoredPlan \cup {Nothing}
  /\ planRow \in BOOLEAN
  /\ cutShort \subseteq Runs /\ met \subseteq Runs

AssessmentInit ==
  /\ call = [r \in Runs |-> Asleep]
  /\ check = Nothing /\ plan = Nothing /\ planRow = FALSE
  /\ cutShort = {} /\ met = {}

GoesOn(r, point) == call' = [call EXCEPT ![r].at = point, ![r].tries = 0]
Ends(r)          == call' = [call EXCEPT ![r] = [Asleep EXCEPT !.at = "done"]]
CutsShort(r)     == Ends(r) /\ cutShort' = cutShort \cup {r}

-----------------------------------------------------------------------------
(* From a reply to a check.                                                *)

(* Fault: a rule the model says nothing of passes.                         *)
LetPass(claim) ==
  IF claim = "none" THEN "pass" ELSE IF claim \in Verdict THEN claim ELSE "uncertain"

(* A status that is none is uncertain, and so is a rule left out.          *)
Coerced(claim) == IF claim \in Verdict THEN claim ELSE "uncertain"

Verdicts(said)   == [q \in Rules |-> Coerced(said[q])]
Failing(verdict) == {q \in Rules : verdict[q] # "pass"}

FailFloor      == [critical |-> 80, high |-> 60, medium |-> 40, low |-> 20]
UncertainFloor == [critical |-> 60, high |-> 60, medium |-> 25, low |-> 10]

FloorOf(q, status) ==
  CASE status = "fail"      -> FailFloor[Severity[q]]
    [] status = "uncertain" -> UncertainFloor[Severity[q]]
    [] OTHER                -> 0

(* The score is the highest of the model's and the floors; a check is      *)
(* escalated from the threshold on.                                        *)
Reaches(raw, verdict) ==
  raw >= Threshold \/ \E q \in Rules : FloorOf(q, verdict[q]) >= Threshold

Decided(raw, verdict) == IF Reaches(raw, verdict) THEN "escalated" ELSE "auto_approved"

-----------------------------------------------------------------------------
Begin(r) ==
  LET others == {s \in Runs \ {r} : call[s].at \notin {"idle", "done"}}
  IN /\ call[r].at = "idle"
     /\ GoesOn(r, "ask_verdicts")
     /\ met' = IF others = {} THEN met ELSE met \cup others \cup {r}
     /\ UNCHANGED <<check, plan, planRow, cutShort>>

(* generate_json: a transient error or a reply that is no JSON object is   *)
(* tried again while attempts are left; the call fails on the last, and at *)
(* once on any other error.  What was not understood may be repaired.      *)
TryAgain(r) ==
  /\ call[r].at \in {"ask_verdicts", "ask_fixes"} /\ call[r].tries + 1 < MaxAttempts
  /\ call' = [call EXCEPT ![r].tries = @ + 1]
  /\ UNCHANGED <<check, plan, planRow, cutShort, met>>

CallFails(r) ==
  /\ call[r].at \in {"ask_verdicts", "ask_fixes"}
  /\ IF call[r].at = "ask_verdicts" THEN Ends(r) ELSE GoesOn(r, "derive")
  /\ UNCHANGED <<check, plan, planRow, cutShort, met>>

Judge(r, said, raw) ==
  /\ call[r].at = "ask_verdicts"
  /\ call' = [call EXCEPT ![r] =
       [at |-> "store_check", tries |-> 0, said |-> said,
        decision |-> Decided(raw, Verdicts(said)), due |-> {}]]
  /\ UNCHANGED <<check, plan, planRow, cutShort, met>>

StoreCheck(r) ==
  LET stored == [said |-> call[r].said, verdict |-> Verdicts(call[r].said),
                 decision |-> call[r].decision, run |-> r]
  IN /\ call[r].at = "store_check"
     /\ \/ check' = stored /\ GoesOn(r, "audit_check") /\ UNCHANGED cutShort
        \/ check' \in {check, stored} /\ CutsShort(r)
     /\ UNCHANGED <<plan, planRow, met>>

(* A plan is about the rules that failed or are uncertain.  The tenant and *)
(* its ruleset are read again: a rule the tenant has no longer, having     *)
(* moved to another jurisdiction since the check, is dropped.              *)
Plans(r, ruleset) ==
  LET due == Failing(Verdicts(call[r].said)) \cap ruleset
  IN call' = [call EXCEPT ![r] =
       [Asleep EXCEPT !.at = IF due = {} THEN "derive" ELSE "ask_fixes", !.due = due]]

(* A check whose audit row cannot be written counts as failed, and has no  *)
(* plan made.  The plan begins with reads that may raise.                  *)
AuditCheck(r) ==
  /\ call[r].at = "audit_check"
  /\ \/ \E ruleset \in {Rules, CommonRules} : Plans(r, ruleset) /\ UNCHANGED cutShort
     \/ CutsShort(r)
  /\ UNCHANGED <<check, plan, planRow, met>>

-----------------------------------------------------------------------------
(* From the fixes to a plan.  Of the model's items those count that are    *)
(* about a rule it was asked of, once each and with an action.             *)
Answers(r, cited) ==
  /\ call[r].at = "ask_fixes"
  /\ GoesOn(r, IF cited \cap call[r].due = {} THEN "derive" ELSE "use_fixes")
  /\ UNCHANGED <<check, plan, planRow, cutShort, met>>

SeverityOrder == [critical |-> 0, high |-> 1, medium |-> 2, low |-> 3]

(* A model calls blocking what it likes: its items come in any order, and  *)
(* the list is cut at MAX_ITEMS.                                           *)
AnyOrder(items) ==
  {kept \in SUBSET items : Cardinality(kept) = Min({MaxItems, Cardinality(items)})}

(* Derived items block when they are severe, so that severity alone        *)
(* decides which are first.                                                *)
Shortened(items) ==
  {kept \in AnyOrder(items) :
     \A q \in kept, p \in items \ kept :
       SeverityOrder[Severity[q]] <= SeverityOrder[Severity[p]]}

StorePlan(r) ==
  LET due   == call[r].due
      fixes == IF call[r].at = "derive" THEN Shortened(due)
               ELSE UNION {AnyOrder(cited) : cited \in (SUBSET due) \ {{}}}
      Stored(items) == [of |-> due, items |-> items, run |-> r,
                        derived |-> call[r].at = "derive" /\ due # {}]
  IN /\ call[r].at \in {"derive", "use_fixes"}
     /\ \E items \in fixes :
          \/ plan' = Stored(items) /\ GoesOn(r, "audit_plan") /\ UNCHANGED cutShort
          \/ plan' \in {plan, Stored(items)} /\ CutsShort(r)
     /\ UNCHANGED <<check, planRow, met>>

(* A row that cannot be written is logged and forgotten.                   *)
AuditPlan(r) ==
  /\ call[r].at = "audit_plan"
  /\ planRow' \in {planRow, TRUE}
  /\ Ends(r)
  /\ UNCHANGED <<check, plan, cutShort, met>>

RunDies(r) ==
  /\ call[r].at \notin {"idle", "done"}
  /\ CutsShort(r)
  /\ UNCHANGED <<check, plan, planRow, met>>

RunStep(r) ==
  \/ Begin(r) \/ TryAgain(r) \/ CallFails(r)
  \/ \E said \in [Rules -> Claims], raw \in RawScores : Judge(r, said, raw)
  \/ StoreCheck(r) \/ AuditCheck(r)
  \/ \E cited \in SUBSET Rules : Answers(r, cited)
  \/ StorePlan(r) \/ AuditPlan(r) \/ RunDies(r)

AssessmentNext == \E r \in Runs : RunStep(r)

AssessmentSpec == AssessmentInit /\ [][AssessmentNext]_assessmentVars

-----------------------------------------------------------------------------
(* Nothing slips through: a rule passes only if the model said so, and a   *)
(* check is approved without a person only if every critical or high rule  *)
(* passed, whatever score the model gave ("never silently skip"), as long  *)
(* as the threshold is not set above the 60 it has.                        *)
NothingSlips ==
  check # Nothing =>
    \A q \in Rules :
      /\ check.verdict[q] = "pass" => check.said[q] = "pass"
      /\ Threshold <= 60 /\ check.decision = "auto_approved"
         /\ Severity[q] \in {"critical", "high"}
           => check.verdict[q] = "pass"

(* The plan a customer reads belongs to the check they read, unless a run  *)
(* is about to replace it, failed to, or met another run.                  *)
PlanFollowsCheck ==
  /\ plan # Nothing => check # Nothing
  /\ check # Nothing =>
       \/ plan # Nothing /\ plan.run = check.run
       \/ call[check.run].at # "done"
       \/ check.run \in cutShort \cup met

(* A derived plan leaves out no rule it is about that is worse than one it *)
(* lists, and a row of the audit log means there is a plan.                *)
WorstFirst ==
  /\ planRow => plan # Nothing
  /\ plan # Nothing /\ plan.derived =>
       \A q \in plan.items, p \in plan.of \ plan.items :
         SeverityOrder[Severity[q]] <= SeverityOrder[Severity[p]]

(* What the check and its fix list promise, in one invariant.              *)
AssessmentSound == NothingSlips /\ PlanFollowsCheck /\ WorstFirst

=============================================================================
