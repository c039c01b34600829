------------------------- MODULE Assessment_proofs -------------------------
(***************************************************************************)
(* Theorems about checks and fix lists, for any number of runs of a        *)
(* document, any ruleset and any bound on attempts and items.              *)
(***************************************************************************)
EXTENDS Assessment, TLAPS

Under(r) == call[r].at \notin {"idle", "done"}
Past(r)  == call[r].at \in {"audit_check", "ask_fixes", "use_fixes", "derive", "audit_plan"}

(* A decision about to be stored lets no severe rule slip.                 *)
DecidedWell ==
  \A r \in Runs : call[r].at = "store_check" =>
    \/ call[r].decision = "escalated"
    \/ /\ call[r].decision = "auto_approved"
       /\ Threshold <= 60 =>
            \A q \in Rules : Severity[q] \in {"critical", "high"}
                               => Verdicts(call[r].said)[q] = "pass"

(* Two runs that are under way met.                                        *)
CompanyKnown ==
  \A r, s \in Runs : r # s /\ Under(r) /\ Under(s) => r \in met

(* A run past its check has stored it, and the check there is now is its   *)
(* own unless the two met.                                                 *)
ChecksStored ==
  /\ check # Nothing => call[check.run].at \notin {"idle", "ask_verdicts", "store_check"}
  /\ \A s \in Runs : Past(s) =>
       /\ check # Nothing
       /\ check.run = s \/ check.run \in met

(* A run about to write the plan's row has stored the plan.                *)
PlansStored ==
  \A r \in Runs : call[r].at = "audit_plan" =>
    plan # Nothing /\ (plan.run = r \/ r \in met)

AssessmentInv ==
  /\ AssessmentTypeOK /\ DecidedWell /\ CompanyKnown /\ ChecksStored /\ PlansStored
  /\ NothingSlips /\ PlanFollowsCheck /\ WorstFirst

-----------------------------------------------------------------------------
LEMMA AssessmentInitOK == AssessmentInit => AssessmentInv
<1> SUFFICES ASSUME AssessmentInit PROVE AssessmentInv
  OBVIOUS
<1>1. Silent \in [Rules -> Claims]
  BY DEF Silent, Claims
<1>2. Asleep \in Calls
  BY <1>1, AssessmentAssumption DEF Asleep, Calls, Points
<1>3. AssessmentTypeOK
  BY <1>2 DEF AssessmentInit, AssessmentTypeOK
<1>4. \A r \in Runs : call[r].at = "idle"
  BY DEF AssessmentInit, Asleep
<1> QED
  BY <1>3, <1>4
  DEF AssessmentInit, AssessmentInv, DecidedWell, CompanyKnown, ChecksStored, PlansStored,
      NothingSlips, PlanFollowsCheck, WorstFirst, Under, Past

LEMMA VerdictsTyped ==
  ASSUME NEW said \in [Rules -> Claims]
  PROVE  /\ Verdicts(said) \in [Rules -> Verdict]
         /\ \A q \in Rules : Verdicts(said)[q] = "pass" => said[q] = "pass"
  BY DEF Verdicts, Coerced, Verdict

(* A verdict short of a pass on a critical or high rule sends the check to *)
(* a person.                                                               *)
LEMMA SevereEscalates ==
  ASSUME NEW raw, NEW verdict \in [Rules -> Verdict], NEW q \in Rules,
         Severity[q] \in {"critical", "high"}, verdict[q] # "pass", Threshold <= 60
  PROVE  Decided(raw, verdict) = "escalated"
<1>1. FloorOf(q, verdict[q]) \in {60, 80}
  BY DEF FloorOf, FailFloor, UncertainFloor, Verdict
<1>2. FloorOf(q, verdict[q]) >= Threshold
  BY <1>1, AssessmentAssumption
<1> QED
  BY <1>2 DEF Decided, Reaches

(* What a run's move has to respect when it stores nothing.                *)
LEMMA RunMoves ==
  ASSUME AssessmentInv, NEW r \in Runs, NEW c \in Calls,
         call' = [call EXCEPT ![r] = c],
         UNCHANGED <<check, plan>>,
         planRow' \in BOOLEAN, planRow' => plan # Nothing,
         cutShort \subseteq cutShort', cutShort' \subseteq Runs,
         met \subseteq met', met' \subseteq Runs,
         c.at = "store_check" =>
           \/ c.decision = "escalated"
           \/ /\ c.decision = "auto_approved"
              /\ Threshold <= 60 =>
                   \A q \in Rules : Severity[q] \in {"critical", "high"}
                                      => Verdicts(c.said)[q] = "pass",
         c.at # "audit_plan", c.at # "idle",
         c.at # "done" =>
           \/ Under(r)
           \/ \A s \in Runs \ {r} : Under(s) => r \in met' /\ s \in met',
         c.at \in {"ask_verdicts", "store_check"}
           => call[r].at \in {"idle", "ask_verdicts", "store_check"},
         c.at \in {"audit_check", "ask_fixes", "use_fixes", "derive"}
           => Past(r),
         c.at = "done" /\ check # Nothing /\ check.run = r
           => r \in cutShort' \cup met' \/ (plan # Nothing /\ plan.run = r)
  PROVE  AssessmentInv'
<1>1. AssessmentTypeOK'
  BY DEF AssessmentInv, AssessmentTypeOK
<1>2. \A q \in Runs : call'[q] = IF q = r THEN c ELSE call[q]
  BY DEF AssessmentInv, AssessmentTypeOK
<1>3. check # Nothing => check.run \in Runs
  BY DEF AssessmentInv, AssessmentTypeOK, StoredCheck
<1>4. DecidedWell'
  BY <1>2 DEF AssessmentInv, DecidedWell, Verdicts
<1>5. CompanyKnown'
  BY <1>2 DEF AssessmentInv, CompanyKnown, Under
<1>6. ChecksStored'
  BY <1>2, <1>3 DEF AssessmentInv, ChecksStored, Past
<1>7. PlansStored'
  BY <1>2 DEF AssessmentInv, PlansStored
<1>8. NothingSlips'
  BY DEF AssessmentInv, NothingSlips
<1>9. PlanFollowsCheck'
  BY <1>2, <1>3 DEF AssessmentInv, PlanFollowsCheck
<1>10. WorstFirst'
  BY DEF AssessmentInv, WorstFirst
<1> QED
  BY <1>1, <1>4, <1>5, <1>6, <1>7, <1>8, <1>9, <1>10 DEF AssessmentInv

LEMMA CallTyped ==
  ASSUME AssessmentInv, NEW r \in Runs
  PROVE  /\ call[r] \in Calls
         /\ Verdicts(call[r].said) \in [Rules -> Verdict]
         /\ [Asleep EXCEPT !.at = "done"] \in Calls
         /\ \A point \in Points :
              /\ [call[r] EXCEPT !.at = point, !.tries = 0] \in Calls
              /\ [call[r] EXCEPT !.at = point, !.tries = 0].at = point
              /\ GoesOn(r, point) =>
                   call' = [call EXCEPT ![r] = [call[r] EXCEPT !.at = point, !.tries = 0]]
         /\ cutShort \subseteq Runs /\ met \subseteq Runs /\ planRow \in BOOLEAN
         /\ planRow => plan # Nothing
<1>1. call[r] \in Calls
  BY DEF AssessmentInv, AssessmentTypeOK
<1>2. Silent \in [Rules -> Claims] /\ 0 \in 0..MaxAttempts
  BY AssessmentAssumption DEF Silent, Claims
<1> QED
  BY <1>1, <1>2, VerdictsTyped
  DEF Asleep, Calls, Points, GoesOn, AssessmentInv, AssessmentTypeOK, WorstFirst

(* A run that ends without its plan ends cut short, or before its check.   *)
LEMMA RunEnds ==
  ASSUME AssessmentInv, NEW r \in Runs, CutsShort(r), Under(r),
         UNCHANGED <<check, plan, planRow, met>>
  PROVE  AssessmentInv'
<1> DEFINE c == [Asleep EXCEPT !.at = "done"]
<1>1. c \in Calls /\ c.at = "done" /\ call' = [call EXCEPT ![r] = c]
  BY CallTyped DEF CutsShort, Ends, Asleep
<1>2. cutShort' = cutShort \cup {r}
  BY DEF CutsShort
<1> HIDE DEF c
<1> QED
  BY <1>1, <1>2, CallTyped, RunMoves

LEMMA BeginOK ==
  ASSUME AssessmentInv, NEW r \in Runs, Begin(r)
  PROVE  AssessmentInv'
<1> DEFINE c == [call[r] EXCEPT !.at = "ask_verdicts", !.tries = 0]
<1>1. "ask_verdicts" \in Points
  BY DEF Points
<1>2. c \in Calls /\ call' = [call EXCEPT ![r] = c] /\ c.at = "ask_verdicts"
  BY <1>1, CallTyped DEF Begin
<1>3. /\ met \subseteq met' /\ met' \subseteq Runs
      /\ \A s \in Runs \ {r} : Under(s) => r \in met' /\ s \in met'
  BY CallTyped DEF Begin, Under
<1>4. call[r].at = "idle" /\ UNCHANGED <<check, plan, planRow, cutShort>>
  BY DEF Begin
<1> HIDE DEF c
<1> QED
  BY <1>2, <1>3, <1>4, CallTyped, RunMoves

LEMMA AskingOK ==
  ASSUME AssessmentInv, NEW r \in Runs, TryAgain(r) \/ CallFails(r)
  PROVE  AssessmentInv'
<1>1. CASE TryAgain(r)
  <2> DEFINE c == [call[r] EXCEPT !.tries = @ + 1]
  <2>1. call' = [call EXCEPT ![r] = c]
    BY <1>1 DEF TryAgain
  <2>2. call[r].tries \in 0..MaxAttempts /\ MaxAttempts \in Nat
    BY CallTyped, AssessmentAssumption DEF Calls
  <2>3. call[r].tries + 1 < MaxAttempts
    BY <1>1 DEF TryAgain
  <2>4. call[r].tries + 1 \in 0..MaxAttempts
    BY <2>2, <2>3
  <2>5. c \in Calls /\ c.at = call[r].at /\ c.said = call[r].said
    BY <2>4, CallTyped DEF Calls
  <2> HIDE DEF c
  <2> QED
    BY <1>1, <2>1, <2>5, CallTyped, RunMoves DEF TryAgain, Under, Past
<1>2. CASE CallFails(r) /\ call[r].at = "ask_verdicts"
  <2> DEFINE c == [Asleep EXCEPT !.at = "done"]
  <2>1. c \in Calls /\ c.at = "done" /\ call' = [call EXCEPT ![r] = c]
    BY <1>2, CallTyped DEF CallFails, Ends, Asleep
  <2>2. ~(check # Nothing /\ check.run = r)
    BY <1>2 DEF AssessmentInv, ChecksStored
  <2> HIDE DEF c
  <2> QED
    BY <1>2, <2>1, <2>2, CallTyped, RunMoves DEF CallFails, Under
<1>3. CASE CallFails(r) /\ call[r].at = "ask_fixes"
  <2> DEFINE c == [call[r] EXCEPT !.at = "derive", !.tries = 0]
  <2>0. "derive" \in Points
    BY DEF Points
  <2>1. c \in Calls /\ c.at = "derive" /\ call' = [call EXCEPT ![r] = c]
    BY <1>3, <2>0, CallTyped DEF CallFails
  <2> HIDE DEF c
  <2> QED
    BY <1>3, <2>1, CallTyped, RunMoves DEF CallFails, Under, Past
<1> QED
  BY <1>1, <1>2, <1>3 DEF CallFails

LEMMA JudgeOK ==
  ASSUME AssessmentInv, NEW r \in Runs, NEW said \in [Rules -> Claims], NEW raw \in RawScores,
         Judge(r, said, raw)
  PROVE  AssessmentInv'
<1> DEFINE c == [at |-> "store_check", tries |-> 0, said |-> said,
                 decision |-> Decided(raw, Verdicts(said)), due |-> {}]
<1>1. call' = [call EXCEPT ![r] = c] /\ call[r].at = "ask_verdicts"
  BY DEF Judge
<1>2. c.decision \in {"escalated", "auto_approved"}
  BY DEF Decided
<1>3. c \in Calls /\ c.at = "store_check" /\ c.said = said
  BY <1>2, AssessmentAssumption DEF Calls, Points
<1>4. ASSUME c.decision = "auto_approved", Threshold <= 60, NEW q \in Rules,
             Severity[q] \in {"critical", "high"}
      PROVE  Verdicts(c.said)[q] = "pass"
  BY <1>3, <1>4, VerdictsTyped, SevereEscalates
<1> HIDE DEF c
<1> QED
  BY <1>1, <1>2, <1>3, <1>4, CallTyped, RunMoves DEF Judge, Under

LEMMA AuditCheckOK ==
  ASSUME AssessmentInv, NEW r \in Runs, AuditCheck(r)
  PROVE  AssessmentInv'
<1>1. CASE CutsShort(r)
  BY <1>1, RunEnds DEF AuditCheck, Under
<1>2. ASSUME NEW ruleset, Plans(r, ruleset), UNCHANGED cutShort
      PROVE  AssessmentInv'
  <2> DEFINE due == Failing(Verdicts(call[r].said)) \cap ruleset
             c   == [Asleep EXCEPT !.at = IF due = {} THEN "derive" ELSE "ask_fixes",
                                   !.due = due]
  <2>1. due \in SUBSET Rules
    BY DEF Failing
  <2> HIDE DEF due
  <2>2. /\ c \in Calls /\ c.at \in {"derive", "ask_fixes"}
        /\ call' = [call EXCEPT ![r] = c]
    <3>1. call' = [call EXCEPT ![r] = c]
      BY <1>2 DEF Plans, due
    <3>2. Silent \in [Rules -> Claims] /\ 0 \in 0..MaxAttempts
      BY AssessmentAssumption DEF Silent, Claims
    <3> QED
      BY <2>1, <3>1, <3>2 DEF Asleep, Calls, Points
  <2> HIDE DEF c
  <2> QED
    BY <2>2, <1>2, CallTyped, RunMoves DEF AuditCheck, Under, Past
<1> QED
  BY <1>1, <1>2 DEF AuditCheck

LEMMA AnswersOK ==
  ASSUME AssessmentInv, NEW r \in Runs, NEW cited \in SUBSET Rules, Answers(r, cited)
  PROVE  AssessmentInv'
<1>1. PICK point \in {"derive", "use_fixes"} : GoesOn(r, point)
  BY DEF Answers
<1> DEFINE c == [call[r] EXCEPT !.at = point, !.tries = 0]
<1>2. point \in Points
  BY DEF Points
<1>3. c \in Calls /\ c.at = point /\ call' = [call EXCEPT ![r] = c]
  BY <1>1, <1>2, CallTyped
<1> HIDE DEF c
<1> QED
  BY <1>1, <1>3, CallTyped, RunMoves DEF Answers, Under, Past

LEMMA AuditPlanOK ==
  ASSUME AssessmentInv, NEW r \in Runs, AuditPlan(r)
  PROVE  AssessmentInv'
<1> DEFINE c == [Asleep EXCEPT !.at = "done"]
<1>1. c \in Calls /\ c.at = "done" /\ call' = [call EXCEPT ![r] = c]
  BY CallTyped DEF AuditPlan, Ends, Asleep
<1>2. plan # Nothing /\ (plan.run = r \/ r \in met)
  BY DEF AssessmentInv, PlansStored, AuditPlan
<1> HIDE DEF c
<1> QED
  BY <1>1, <1>2, CallTyped, RunMoves DEF AuditPlan, Under

(* Whatever the attempt to store the check leaves, a check that is there   *)
(* is this run's or the old one.                                           *)
LEMMA StoreCheckOK ==
  ASSUME AssessmentInv, NEW r \in Runs, StoreCheck(r)
  PROVE  AssessmentInv'
<1> DEFINE stored == [said |-> call[r].said, verdict |-> Verdicts(call[r].said),
                      decision |-> call[r].decision, run |-> r]
<1>0. call[r].at = "store_check" /\ UNCHANGED <<plan, planRow, met>>
  BY DEF StoreCheck
<1>1. CASE check' = check /\ CutsShort(r)
  BY <1>0, <1>1, RunEnds DEF Under
<1>2. CASE check' = stored /\ ((GoesOn(r, "audit_check") /\ UNCHANGED cutShort) \/ CutsShort(r))
  <2>1. /\ call[r].said \in [Rules -> Claims]
        /\ call[r].decision \in {"escalated", "auto_approved"}
    BY <1>0, CallTyped DEF Calls, AssessmentInv, DecidedWell
  <2>2. stored \in StoredCheck /\ stored # Nothing
    <3>1. stored \in StoredCheck
      BY <2>1, CallTyped DEF StoredCheck
    <3> QED
      BY <3>1, AssessmentAssumption
  <2>3. /\ check'.run = r /\ check'.decision = call[r].decision
        /\ check'.said = call[r].said /\ check'.verdict = Verdicts(call[r].said)
        /\ check' # Nothing
    BY <1>2, <2>2
  <2>4. PICK c \in Calls : /\ call' = [call EXCEPT ![r] = c]
                           /\ c.at \in {"audit_check", "done"}
                           /\ c.at = "audit_check" => UNCHANGED cutShort
                           /\ c.at = "done" => cutShort' = cutShort \cup {r}
    <3>1. CASE GoesOn(r, "audit_check") /\ UNCHANGED cutShort
      <4>1. "audit_check" \in Points
        BY DEF Points
      <4> QED
        BY <3>1, <4>1, CallTyped
    <3>2. CASE CutsShort(r)
      BY <3>2, CallTyped DEF CutsShort, Ends, Asleep
    <3> QED
      BY <1>2, <3>1, <3>2
  <2>5. \A q \in Runs : call'[q] = IF q = r THEN c ELSE call[q]
    BY <2>4 DEF AssessmentInv, AssessmentTypeOK
  <2>6. AssessmentTypeOK'
    BY <1>0, <1>2, <2>2, <2>4 DEF AssessmentInv, AssessmentTypeOK
  <2>7. DecidedWell' /\ PlansStored'
    BY <1>0, <2>4, <2>5 DEF AssessmentInv, DecidedWell, PlansStored, Verdicts
  <2>8. CompanyKnown'
    BY <1>0, <2>4, <2>5 DEF AssessmentInv, CompanyKnown, Under
  <2>9. ChecksStored'
    <3>1. call'[r].at \notin {"idle", "ask_verdicts", "store_check"}
      BY <2>4, <2>5
    <3>2. \A s \in Runs \ {r} : Past(s)' => r \in met
      BY <1>0, <2>5 DEF AssessmentInv, CompanyKnown, Past, Under
    <3> QED
      BY <1>0, <2>3, <3>1, <3>2 DEF ChecksStored
  <2>10. NothingSlips'
    BY <1>0, <2>1, <2>3, VerdictsTyped
    DEF AssessmentInv, DecidedWell, NothingSlips, Verdicts
  <2>11. PlanFollowsCheck'
    BY <1>0, <2>3, <2>4, <2>5 DEF PlanFollowsCheck
  <2>12. WorstFirst'
    BY <1>0 DEF AssessmentInv, WorstFirst
  <2> QED
    BY <2>6, <2>7, <2>8, <2>9, <2>10, <2>11, <2>12 DEF AssessmentInv
<1> QED
  BY <1>1, <1>2 DEF StoreCheck

(* A plan is stored by a run whose check is there, or which met another.   *)
LEMMA StorePlanOK ==
  ASSUME AssessmentInv, NEW r \in Runs, StorePlan(r)
  PROVE  AssessmentInv'
<1> DEFINE due == call[r].due
           Stored(items) == [of |-> due, items |-> items, run |-> r,
                             derived |-> call[r].at = "derive" /\ due # {}]
<1>0. call[r].at \in {"derive", "use_fixes"} /\ UNCHANGED <<check, planRow, met>>
  BY DEF StorePlan
<1>1. PICK items \in SUBSET Rules :
        /\ call[r].at = "derive" =>
             \A q \in items, p \in due \ items :
               SeverityOrder[Severity[q]] <= SeverityOrder[Severity[p]]
        /\ \/ plan' = Stored(items) /\ GoesOn(r, "audit_plan") /\ UNCHANGED cutShort
           \/ plan' \in {plan, Stored(items)} /\ CutsShort(r)
  <2>1. due \in SUBSET Rules
    BY CallTyped DEF Calls
  <2> QED
    BY <2>1 DEF StorePlan, Shortened, AnyOrder
<1>2. CASE plan' = plan /\ CutsShort(r)
  BY <1>0, <1>2, RunEnds DEF Under
<1>3. CASE plan' = Stored(items)
  <2>1. Stored(items) \in StoredPlan /\ Stored(items) # Nothing
    <3>1. Stored(items) \in StoredPlan
      BY CallTyped DEF StoredPlan, Calls
    <3> QED
      BY <3>1, AssessmentAssumption
  <2>2. /\ plan'.run = r /\ plan'.of = due /\ plan'.items = items
        /\ plan' # Nothing /\ (plan'.derived => call[r].at = "derive")
    BY <1>3, <2>1
  <2>3. PICK c \in Calls : /\ call' = [call EXCEPT ![r] = c]
                           /\ c.at \in {"audit_plan", "done"}
                           /\ c.at = "audit_plan" => UNCHANGED cutShort
                           /\ c.at = "done" => cutShort' = cutShort \cup {r}
    <3>1. CASE GoesOn(r, "audit_plan") /\ UNCHANGED cutShort
      <4>1. "audit_plan" \in Points
        BY DEF Points
      <4> QED
        BY <3>1, <4>1, CallTyped
    <3>2. CASE CutsShort(r)
      BY <3>2, CallTyped DEF CutsShort, Ends, Asleep
    <3> QED
      BY <1>1, <3>1, <3>2
  <2>4. \A q \in Runs : call'[q] = IF q = r THEN c ELSE call[q]
    BY <2>3 DEF AssessmentInv, AssessmentTypeOK
  <2>5. AssessmentTypeOK'
    BY <1>0, <1>3, <2>1, <2>3 DEF AssessmentInv, AssessmentTypeOK
  <2>6. DecidedWell' /\ NothingSlips'
    BY <1>0, <2>3, <2>4 DEF AssessmentInv, DecidedWell, NothingSlips, Verdicts
  <2>7. CompanyKnown'
    BY <1>0, <2>3, <2>4 DEF AssessmentInv, CompanyKnown, Under
  <2>8. check # Nothing /\ check.run \in Runs /\ (check.run = r \/ check.run \in met)
    BY <1>0 DEF AssessmentInv, AssessmentTypeOK, StoredCheck, ChecksStored, Past
  <2>9. ChecksStored'
    BY <1>0, <2>3, <2>4, <2>8 DEF AssessmentInv, ChecksStored, Past
  <2>10. PlansStored'
    <3>1. \A s \in Runs \ {r} : call'[s].at = "audit_plan" => s \in met
      BY <1>0, <2>4 DEF AssessmentInv, CompanyKnown, Under
    <3> QED
      BY <1>0, <2>2, <3>1 DEF PlansStored
  <2>11. PlanFollowsCheck'
    BY <1>0, <2>2, <2>3, <2>8 DEF PlanFollowsCheck
  <2>12. WorstFirst'
    BY <1>1, <2>2 DEF WorstFirst
  <2> QED
    BY <2>5, <2>6, <2>7, <2>9, <2>10, <2>11, <2>12 DEF AssessmentInv
<1> QED
  BY <1>1, <1>2, <1>3

-----------------------------------------------------------------------------
(* The inductive invariant holds throughout.                               *)
THEOREM AssessmentInvariant == AssessmentSpec => []AssessmentInv
<1>1. ASSUME AssessmentInv, [AssessmentNext]_assessmentVars
      PROVE  AssessmentInv'
  <2>1. CASE UNCHANGED assessmentVars
    BY <1>1, <2>1
    DEF assessmentVars, AssessmentInv, AssessmentTypeOK, DecidedWell, CompanyKnown,
        ChecksStored, PlansStored, NothingSlips, PlanFollowsCheck, WorstFirst, Under, Past
  <2>2. ASSUME NEW r \in Runs, RunStep(r)
        PROVE  AssessmentInv'
    <3>1. CASE RunDies(r)
      BY <1>1, <3>1, RunEnds DEF RunDies, Under
    <3> QED
      BY <1>1, <2>2, <3>1, BeginOK, AskingOK, JudgeOK, StoreCheckOK, AuditCheckOK, AnswersOK,
         StorePlanOK, AuditPlanOK
      DEF RunStep
  <2> QED
    BY <1>1, <2>1, <2>2 DEF AssessmentNext
<1> QED
  BY <1>1, AssessmentInitOK, PTL DEF AssessmentSpec

(* Type correctness of checks, plans and the runs that make them.          *)
THEOREM AssessmentTyped == AssessmentSpec => []AssessmentTypeOK
<1>1. AssessmentInv => AssessmentTypeOK
  BY DEF AssessmentInv
<1> QED
  BY <1>1, AssessmentInvariant, PTL

(* Whatever the model answers and however runs overlap or die: no severe   *)
(* rule slips through, the fix list follows its check, the worst is first. *)
THEOREM AssessmentIsSound == AssessmentSpec => []AssessmentSound
<1>1. AssessmentInv => AssessmentSound
  BY DEF AssessmentInv, AssessmentSound
<1> QED
  BY <1>1, AssessmentInvariant, PTL

=============================================================================
