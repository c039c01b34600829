------------------------- MODULE CheckReview_proofs -------------------------
(***************************************************************************)
(* Theorems about CheckReview, for any sets of members, agents, comments   *)
(* and any number of runs.                                                 *)
(***************************************************************************)
EXTENDS CheckReview, TLAPS

-----------------------------------------------------------------------------
(* Type correctness.                                                       *)

LEMMA InitType == Init => TypeOK
<1> SUFFICES ASSUME Init PROVE TypeOK
  OBVIOUS
<1> QED
  BY CheckReviewAssumption
  DEF Init, TypeOK, Agent, Request

LEMMA FreshCheckType ==
  ASSUME NEW v \in Verdicts, NEW n \in 1..MaxRuns
  PROVE  FreshCheck(v, n) \in Check
BY DEF FreshCheck, Check, Decisions

LEMMA AgentType ==
  ASSUME TypeOK, NEW a \in Agents, AgentStep(a)
  PROVE  TypeOK'
<1> USE DEF TypeOK, Agent
<1>1. CASE CheckStart(a)
  <2>1. runs + 1 \in 1..MaxRuns
    BY <1>1, CheckReviewAssumption DEF CheckStart
  <2>2. [at |-> "evaluating", run |-> runs + 1] \in Agent
    BY <2>1
  <2> QED
    BY <1>1, <2>1, <2>2 DEF CheckStart
<1>2. CASE CheckStore(a)
  <2>1. PICK v \in Verdicts :
          /\ check' = FreshCheck(v, agent[a].run)
          /\ verdicts' = [verdicts EXCEPT ![agent[a].run] = v]
    BY <1>2 DEF CheckStore
  <2>2. agent[a] \in [at : {"evaluating", "stored"}, run : 1..MaxRuns]
    BY <1>2 DEF CheckStore, IdleAgent
  <2>3. FreshCheck(v, agent[a].run) \in Check
    BY <2>2, FreshCheckType
  <2>4. [agent[a] EXCEPT !.at = "stored"] \in Agent
    BY <2>2
  <2> QED
    BY <1>2, <2>1, <2>2, <2>3, <2>4 DEF CheckStore
<1>3. CASE CheckAudit(a)
  BY <1>3 DEF CheckAudit
<1>4. CASE CheckFails(a)
  BY <1>4 DEF CheckFails
<1> QED
  BY <1>1, <1>2, <1>3, <1>4 DEF AgentStep

LEMMA MemberType ==
  ASSUME TypeOK, NEW m \in Members, MemberStep(m)
  PROVE  TypeOK'
<1> USE DEF TypeOK
<1>0. ASSUME Finish(m) PROVE req' \in [Members -> Request]
  BY <1>0 DEF Finish, Request
<1>1. CASE DecideRead(m)
  BY <1>1 DEF DecideRead, Begin, Request
<1>2. CASE DecideCommit(m)
  <2>1. req[m] \in [op : {"decide", "decided"}, copy : {NoCheck}, arg : Rulings]
    BY <1>2 DEF DecideCommit, Request, IdleRequest
  <2>2. check' \in Check /\ check \in Check
    BY <1>2, <2>1 DEF DecideCommit, Check, Decisions, AwaitingReview
  <2>3. [run |-> check.run, by |-> m, ruling |-> req[m].arg] \in Commit
    BY <2>1, <2>2 DEF Check, Commit
  <2>4. [req[m] EXCEPT !.op = "decided"] \in Request
    BY <2>1 DEF Request
  <2> QED
    BY <1>2, <2>1, <2>2, <2>3, <2>4 DEF DecideCommit
<1>3. CASE DecideConflict(m)
  BY <1>3, <1>0 DEF DecideConflict
<1>4. CASE DecideAudit(m)
  BY <1>4, <1>0 DEF DecideAudit
<1>5. CASE CommentRead(m)
  <2>1. PICK n \in Notes \ usedNotes :
          Begin(m, "comment", check, n) /\ usedNotes' = usedNotes \cup {n}
    BY <1>5 DEF CommentRead
  <2> QED
    BY <2>1 DEF Begin, Request
<1>6. CASE CommentWrite(m)
  <2>1. req[m] \in [op : {"comment"}, copy : Check, arg : Notes]
    BY <1>6 DEF CommentWrite, Request, IdleRequest
  <2>2. [req[m].copy EXCEPT !.notes = @ \cup {req[m].arg}] \in Check
    BY <2>1 DEF Check
  <2> QED
    BY <1>6, <1>0, <2>2 DEF CommentWrite, WriteBack
<1>7. CASE AssignRead(m)
  <2>1. PICK assignee \in Assignees : Begin(m, "assign", check, assignee)
    BY <1>7 DEF AssignRead
  <2>2. assignee \in Members \cup {None}
    BY CheckReviewAssumption
  <2> QED
    BY <1>7, <2>1, <2>2 DEF AssignRead, Begin, Request
<1>8. CASE AssignWrite(m)
  <2>1. req[m] \in [op : {"assign"}, copy : Check, arg : Members \cup {None}]
    BY <1>8 DEF AssignWrite, Request, IdleRequest
  <2>2. [req[m].copy EXCEPT !.assigned = req[m].arg] \in Check
    BY <2>1 DEF Check
  <2> QED
    BY <1>8, <1>0, <2>2 DEF AssignWrite, WriteBack
<1>9. CASE Claim(m)
  <2>1. [check EXCEPT !.assigned = m] \in Check
    BY <1>9 DEF Claim, Check
  <2> QED
    BY <1>9, <2>1 DEF Claim
<1>10. CASE RequestDies(m)
  BY <1>10, <1>0 DEF RequestDies
<1> QED
  BY <1>1, <1>2, <1>3, <1>4, <1>5, <1>6, <1>7, <1>8, <1>9, <1>10 DEF MemberStep

(* Every variable keeps its type in every behaviour: in particular a       *)
(* stored check always carries a decision and a run that took place.       *)
THEOREM TypeCorrect == Spec => []TypeOK
<1>1. TypeOK /\ [Next]_vars => TypeOK'
  <2> SUFFICES ASSUME TypeOK, [Next]_vars PROVE TypeOK'
    OBVIOUS
  <2>1. CASE Next
    BY <2>1, AgentType, MemberType DEF Next
  <2>2. CASE UNCHANGED vars
    BY <2>2 DEF vars, TypeOK
  <2> QED
    BY <2>1, <2>2
<1> QED
  BY InitType, <1>1, PTL DEF Spec

-----------------------------------------------------------------------------
(* The inductive invariant behind the safety properties.                   *)

(* Runs in progress are numbered apart, and a run whose verdict is not     *)
(* stored yet has none: so no record, copy or ruling can refer to it.      *)
RunsApart ==
  /\ \A a \in Agents : agent[a].run <= runs
  /\ \A a, b \in Agents :
       agent[a].at = "evaluating" /\ agent[b].at = "evaluating"
         /\ agent[a].run = agent[b].run => a = b
  /\ \A a \in Agents : agent[a].at = "evaluating" => verdicts[agent[a].run] = None
  /\ \A n \in 1..MaxRuns : n > runs => verdicts[n] = None

(* The copies in flight are records that were stored once.                 *)
CopiesWereStored ==
  \A m \in Members : req[m].op \in {"comment", "assign"} => Provenance(req[m].copy)

(* A request past its transaction stands for a ruling that committed.      *)
DecidedDidCommit ==
  \A m \in Members : req[m].op = "decided" =>
    \E c \in commits : c.by = m /\ c.ruling = req[m].arg

IInv ==
  /\ TypeOK
  /\ RunsApart
  /\ StoredDecisionWasMade
  /\ CopiesWereStored
  /\ OnlyEscalatedDecided
  /\ DecidedDidCommit
  /\ RowsAreOfCommits

LEMMA InitIInv == Init => IInv
<1> SUFFICES ASSUME Init PROVE IInv
  OBVIOUS
<1>1. TypeOK
  BY InitType
<1>2. RunsApart
  BY CheckReviewAssumption DEF Init, RunsApart, IdleAgent
<1>3. CopiesWereStored /\ DecidedDidCommit
  BY DEF Init, CopiesWereStored, DecidedDidCommit, IdleRequest
<1> QED
  BY <1>1, <1>2, <1>3
  DEF IInv, Init, StoredDecisionWasMade, OnlyEscalatedDecided, RowsAreOfCommits

(* A record that was made is of a run whose verdict is known.              *)
LEMMA ProvenanceHasVerdict ==
  ASSUME TypeOK, NEW c \in Check, Provenance(c), OnlyEscalatedDecided
  PROVE  verdicts[c.run] # None
<1>1. CASE c.reviewer = None
  BY <1>1, CheckReviewAssumption DEF Provenance, Check
<1>2. CASE c.reviewer # None
  BY <1>2, CheckReviewAssumption DEF Provenance, OnlyEscalatedDecided, Decisions, Verdicts
<1> QED
  BY <1>1, <1>2

(* It stays one while verdicts are only filled in and commits only grow.   *)
LEMMA ProvenanceKept ==
  ASSUME TypeOK, NEW c \in Check, Provenance(c), OnlyEscalatedDecided,
         commits \subseteq commits',
         verdicts[c.run] # None => verdicts'[c.run] = verdicts[c.run]
  PROVE  Provenance(c)'
BY ProvenanceHasVerdict DEF Provenance

(* An agent's step leaves the requests and the rulings alone.              *)
LEMMA AgentIInv ==
  ASSUME IInv, NEW a \in Agents, AgentStep(a)
  PROVE  IInv'
<1> USE DEF IInv
<1>0. TypeOK'
  BY AgentType
<1>1. CASE CheckStart(a)
  <2>1. RunsApart'
    <3>1. /\ runs \in Nat /\ runs' = runs + 1 /\ runs + 1 \in 1..MaxRuns
          /\ verdicts' = verdicts
      BY <1>1, CheckReviewAssumption DEF CheckStart, TypeOK
    <3>2. agent'[a] = [at |-> "evaluating", run |-> runs + 1]
      BY <1>1 DEF CheckStart, TypeOK
    <3>3. \A b \in Agents \ {a} : agent'[b] = agent[b]
      BY <1>1 DEF CheckStart, TypeOK
    <3>4. \A b \in Agents : agent[b].run \in Nat /\ agent[b].run <= runs
      BY CheckReviewAssumption DEF RunsApart, TypeOK, Agent, IdleAgent
    <3>5. \A b \in Agents : agent'[b].run <= runs'
      BY <3>1, <3>2, <3>3, <3>4
    <3>6. \A b \in Agents : agent'[b].at = "evaluating" => verdicts'[agent'[b].run] = None
      BY <3>1, <3>2, <3>3 DEF RunsApart
    <3>7. \A b, c \in Agents :
            agent'[b].at = "evaluating" /\ agent'[c].at = "evaluating"
              /\ agent'[b].run = agent'[c].run => b = c
      BY <3>1, <3>2, <3>3, <3>4 DEF RunsApart
    <3>8. \A n \in 1..MaxRuns : n > runs' => verdicts'[n] = None
      BY <3>1 DEF RunsApart
    <3> QED
      BY <3>5, <3>6, <3>7, <3>8 DEF RunsApart
  <2>2. UNCHANGED <<check, req, audit, verdicts, commits>>
    BY <1>1 DEF CheckStart
  <2> QED
    BY <1>0, <2>1, <2>2
    DEF StoredDecisionWasMade, CopiesWereStored, Provenance, OnlyEscalatedDecided,
        DecidedDidCommit, RowsAreOfCommits
<1>2. CASE CheckStore(a)
  <2>1. PICK v \in Verdicts :
          /\ check' = FreshCheck(v, agent[a].run)
          /\ verdicts' = [verdicts EXCEPT ![agent[a].run] = v]
    BY <1>2 DEF CheckStore
  <2>2. agent[a] \in [at : {"evaluating", "stored"}, run : 1..MaxRuns]
    BY <1>2 DEF CheckStore, IdleAgent, TypeOK, Agent
  <2>3. UNCHANGED <<req, audit, runs, commits>>
    BY <1>2 DEF CheckStore
  <2>4. RunsApart'
    BY <1>2, <1>0, <2>1, <2>2, <2>3 DEF RunsApart, CheckStore, TypeOK, Agent, IdleAgent
  <2>5. verdicts[agent[a].run] = None
    BY <1>2 DEF RunsApart, CheckStore
  <2>6. \A n \in 1..MaxRuns : verdicts[n] # None => verdicts'[n] = verdicts[n]
    BY <2>1, <2>2, <2>5 DEF TypeOK
  <2>7. StoredDecisionWasMade'
    <3>1. verdicts'[agent[a].run] = v
      BY <2>1, <2>2 DEF TypeOK
    <3> QED
      BY <2>1, <3>1 DEF StoredDecisionWasMade, Provenance, FreshCheck
  <2>8. CopiesWereStored'
    <3> SUFFICES ASSUME NEW m \in Members, req[m].op \in {"comment", "assign"}
                 PROVE  Provenance(req[m].copy)'
      BY <2>3 DEF CopiesWereStored
    <3>1. req[m].copy \in Check
      BY DEF TypeOK, Request, IdleRequest
    <3>2. req[m].copy.run \in 1..MaxRuns
      BY <3>1 DEF Check
    <3>3. Provenance(req[m].copy)
      BY DEF CopiesWereStored
    <3>4. UNCHANGED req[m].copy
      BY <2>3
    <3> QED
      BY <3>1, <3>2, <3>3, <3>4, <2>3, <2>6, ProvenanceKept DEF Provenance
  <2>9. OnlyEscalatedDecided'
    BY <2>3, <2>6, CheckReviewAssumption DEF OnlyEscalatedDecided, TypeOK, Commit, Decisions, Verdicts
  <2> QED
    BY <1>0, <2>3, <2>4, <2>7, <2>8, <2>9 DEF DecidedDidCommit, RowsAreOfCommits
<1>3. CASE CheckAudit(a)
  <2>1. RunsApart'
    BY <1>3, <1>0 DEF RunsApart, CheckAudit, TypeOK, Agent, IdleAgent
  <2>2. UNCHANGED <<check, req, verdicts, commits>>
    BY <1>3 DEF CheckAudit
  <2>3. \A r \in audit' : IsDecisionRow(r) => r \in audit
    BY <1>3 DEF CheckAudit, Log, IsDecisionRow, Row
  <2> QED
    BY <1>0, <2>1, <2>2, <2>3
    DEF StoredDecisionWasMade, CopiesWereStored, Provenance, OnlyEscalatedDecided,
        DecidedDidCommit, RowsAreOfCommits
<1>4. CASE CheckFails(a)
  <2>1. RunsApart'
    BY <1>4, <1>0 DEF RunsApart, CheckFails, TypeOK, Agent, IdleAgent
  <2>2. UNCHANGED <<check, req, audit, verdicts, commits>>
    BY <1>4 DEF CheckFails
  <2> QED
    BY <1>0, <2>1, <2>2
    DEF StoredDecisionWasMade, CopiesWereStored, Provenance, OnlyEscalatedDecided,
        DecidedDidCommit, RowsAreOfCommits
<1> QED
  BY <1>1, <1>2, <1>3, <1>4 DEF AgentStep

(* A member's step leaves the agents alone and only adds rulings and rows. *)
LEMMA MemberIInv ==
  ASSUME IInv, NEW m \in Members, MemberStep(m)
  PROVE  IInv'
<1> USE DEF IInv
<1>0. TypeOK'
  BY MemberType
<1>1. UNCHANGED <<agent, runs, verdicts>> /\ commits \subseteq commits'
  BY DEF MemberStep, DecideRead, DecideCommit, DecideConflict, DecideAudit, CommentRead,
         CommentWrite, AssignRead, AssignWrite, Claim, RequestDies, Begin, WriteBack
<1>2. RunsApart'
  BY <1>1 DEF RunsApart
<1>3. \A c \in Check : Provenance(c) => Provenance(c)'
  BY <1>1, ProvenanceKept
<1>4. \A n \in Members \ {m} : req'[n] = req[n]
  BY DEF MemberStep, DecideRead, DecideCommit, DecideConflict, DecideAudit, CommentRead,
         CommentWrite, AssignRead, AssignWrite, Claim, RequestDies, Begin, WriteBack,
         Finish, TypeOK
<1>5. \A n \in Members : req[n].op \in {"comment", "assign"} => req[n].copy \in Check
  BY DEF TypeOK, Request, IdleRequest
(* Steps that leave the check, the rulings and the rows alone.             *)
<1>6. ASSUME UNCHANGED <<check, commits, audit>>,
             req'[m].op \in {"comment", "assign"} => req'[m].copy = check /\ check # NoCheck,
             req'[m].op # "decided"
      PROVE  IInv'
  <2>1. StoredDecisionWasMade'
    BY <1>3, <1>6 DEF StoredDecisionWasMade, TypeOK
  <2>2. CopiesWereStored'
    <3> SUFFICES ASSUME NEW n \in Members, req'[n].op \in {"comment", "assign"}
                 PROVE  Provenance(req[n].copy)'
      BY DEF CopiesWereStored
    <3>1. CASE n = m
      BY <3>1, <1>6, <2>1 DEF StoredDecisionWasMade
    <3>2. CASE n # m
      <4>1. req'[n] = req[n]
        BY <3>2, <1>4
      <4>2. req[n].copy \in Check /\ Provenance(req[n].copy)
        BY <4>1, <1>5 DEF CopiesWereStored
      <4> QED
        BY <4>1, <4>2, <1>1, <1>6 DEF Provenance
    <3> QED
      BY <3>1, <3>2
  <2>3. DecidedDidCommit'
    BY <1>4, <1>6 DEF DecidedDidCommit
  <2> QED
    BY <1>0, <1>1, <1>2, <1>6, <2>1, <2>2, <2>3 DEF OnlyEscalatedDecided, RowsAreOfCommits
<1>7. ASSUME Finish(m) PROVE req'[m] = IdleRequest
  BY <1>7 DEF Finish, TypeOK
<1>8. CASE DecideRead(m)
  BY <1>8, <1>6 DEF DecideRead, Begin, TypeOK
<1>9. CASE DecideConflict(m) \/ RequestDies(m)
  BY <1>9, <1>6, <1>7 DEF DecideConflict, RequestDies, IdleRequest
<1>10. CASE CommentRead(m) \/ AssignRead(m)
  BY <1>10, <1>6 DEF CommentRead, AssignRead, Begin, TypeOK
(* Writes that start from a record with the same ruling, run and notes.    *)
<1>11. ASSUME check' \in Check, Provenance(check'),
              UNCHANGED <<commits, audit>>, req' = req \/ req'[m] = IdleRequest
       PROVE  IInv'
  <2>1. StoredDecisionWasMade'
    BY <1>1, <1>11, CheckReviewAssumption DEF StoredDecisionWasMade, Provenance
  <2>2. \A n \in Members : req'[n].op # "idle" => req'[n] = req[n]
    BY <1>4, <1>11 DEF IdleRequest
  <2>3. CopiesWereStored'
    BY <2>2, <1>3, <1>5 DEF CopiesWereStored
  <2>4. DecidedDidCommit'
    BY <2>2, <1>11 DEF DecidedDidCommit
  <2> QED
    BY <1>0, <1>1, <1>2, <1>11, <2>1, <2>3, <2>4 DEF OnlyEscalatedDecided, RowsAreOfCommits
<1>12. CASE CommentWrite(m)
  <2>1. req[m].copy \in Check /\ Provenance(req[m].copy)
    BY <1>12, <1>5 DEF CommentWrite, CopiesWereStored
  <2>2. check' = [req[m].copy EXCEPT !.notes = @ \cup {req[m].arg}]
    BY <1>12 DEF CommentWrite, WriteBack
  <2>3. check'.decision = req[m].copy.decision /\ check'.reviewer = req[m].copy.reviewer
          /\ check'.run = req[m].copy.run
    BY <2>1, <2>2 DEF Check
  <2>4. req[m].arg \in Notes
    BY <1>12 DEF CommentWrite, TypeOK, Request, IdleRequest
  <2>5. check' \in Check
    BY <2>1, <2>2, <2>4 DEF Check
  <2>6. Provenance(check')
    BY <2>1, <2>3 DEF Provenance
  <2> QED
    BY <1>12, <1>7, <1>11, <2>5, <2>6 DEF CommentWrite, WriteBack
<1>13. CASE AssignWrite(m)
  <2>1. req[m].copy \in Check /\ Provenance(req[m].copy)
    BY <1>13, <1>5 DEF AssignWrite, CopiesWereStored
  <2>2. check' = [req[m].copy EXCEPT !.assigned = req[m].arg]
    BY <1>13 DEF AssignWrite, WriteBack
  <2>3. check'.decision = req[m].copy.decision /\ check'.reviewer = req[m].copy.reviewer
          /\ check'.run = req[m].copy.run
    BY <2>1, <2>2 DEF Check
  <2>4. req[m].arg \in Members \cup {None}
    BY <1>13 DEF AssignWrite, TypeOK, Request, IdleRequest
  <2>5. check' \in Check
    BY <2>1, <2>2, <2>4 DEF Check
  <2>6. Provenance(check')
    BY <2>1, <2>3 DEF Provenance
  <2> QED
    BY <1>13, <1>7, <1>11, <2>5, <2>6 DEF AssignWrite, WriteBack
<1>14. CASE Claim(m)
  <2>1. check \in Check /\ Provenance(check)
    BY <1>14 DEF Claim, TypeOK, StoredDecisionWasMade
  <2>2. check' = [check EXCEPT !.assigned = m]
    BY <1>14 DEF Claim
  <2>3. check'.decision = check.decision /\ check'.reviewer = check.reviewer
          /\ check'.run = check.run
    BY <2>1, <2>2 DEF Check
  <2>4. check' \in Check
    BY <2>1, <2>2 DEF Check
  <2>5. Provenance(check')
    BY <2>1, <2>3 DEF Provenance
  <2> QED
    BY <1>14, <1>11, <2>4, <2>5 DEF Claim
(* The ruling: committed, recorded, and of an escalated run.               *)
<1>15. CASE DecideCommit(m)
  <2> DEFINE c == [run |-> check.run, by |-> m, ruling |-> req[m].arg]
  <2>1. check \in Check /\ check.decision = "escalated" /\ check.reviewer = None
    BY <1>15 DEF DecideCommit, AwaitingReview, TypeOK
  <2>2. verdicts[check.run] = "escalated"
    BY <1>15, <2>1 DEF DecideCommit, StoredDecisionWasMade, Provenance
  <2>3. commits' = commits \cup {c} /\ audit' = audit
    BY <1>15 DEF DecideCommit
  <2>4. check' = [check EXCEPT !.decision = req[m].arg, !.reviewer = m]
    BY <1>15 DEF DecideCommit
  <2>5. check'.run = check.run /\ check'.reviewer = m /\ check'.decision = req[m].arg
    BY <2>1, <2>4 DEF Check
  <2>6. req'[m].op = "decided" /\ req'[m].arg = req[m].arg
    BY <1>15 DEF DecideCommit, TypeOK, Request, IdleRequest
  <2>7. StoredDecisionWasMade'
    BY <2>3, <2>5, CheckReviewAssumption DEF StoredDecisionWasMade, Provenance
  <2>8. CopiesWereStored'
    BY <2>6, <1>3, <1>4, <1>5 DEF CopiesWereStored
  <2>9. OnlyEscalatedDecided'
    BY <1>1, <2>2, <2>3 DEF OnlyEscalatedDecided
  <2>10. DecidedDidCommit'
    <3> SUFFICES ASSUME NEW n \in Members, req'[n].op = "decided"
                 PROVE  \E d \in commits' : d.by = n /\ d.ruling = req'[n].arg
      BY DEF DecidedDidCommit
    <3>0. c \in commits' /\ c.by = m /\ c.ruling = req[m].arg
      BY <2>3
    <3>1. CASE n = m
      BY <3>0, <3>1, <2>6
    <3>2. CASE n # m
      <4>1. req'[n] = req[n]
        BY <3>2, <1>4
      <4>2. PICK d \in commits : d.by = n /\ d.ruling = req[n].arg
        BY <4>1 DEF DecidedDidCommit
      <4> QED
        BY <4>1, <4>2, <2>3
    <3> QED
      BY <3>1, <3>2
  <2>11. RowsAreOfCommits'
    BY <2>3 DEF RowsAreOfCommits
  <2> QED
    BY <1>0, <1>2, <2>7, <2>8, <2>9, <2>10, <2>11
(* The row: it is of the ruling the request committed.                     *)
<1>16. CASE DecideAudit(m)
  <2>1. UNCHANGED <<check, commits>> /\ req'[m] = IdleRequest
    BY <1>16, <1>7 DEF DecideAudit
  <2>2. PICK c \in commits : c.by = m /\ c.ruling = req[m].arg
    BY <1>16 DEF DecideAudit, DecidedDidCommit
  <2>3. \A r \in audit' : r \in audit \/
          r = Row(m, RulingAction(req[m].arg), req[m].arg)
    BY <1>16 DEF DecideAudit, Log
  <2>4. RowsAreOfCommits'
    BY <2>1, <2>2, <2>3 DEF RowsAreOfCommits, Row
  <2>5. CopiesWereStored' /\ DecidedDidCommit'
    BY <2>1, <1>3, <1>4, <1>5 DEF CopiesWereStored, DecidedDidCommit, IdleRequest
  <2>6. StoredDecisionWasMade'
    BY <2>1, <1>3 DEF StoredDecisionWasMade, TypeOK
  <2> QED
    BY <1>0, <1>1, <1>2, <2>1, <2>4, <2>5, <2>6 DEF OnlyEscalatedDecided
<1> QED
  BY <1>8, <1>9, <1>10, <1>12, <1>13, <1>14, <1>15, <1>16 DEF MemberStep

LEMMA Inductive == IInv /\ [Next]_vars => IInv'
<1> SUFFICES ASSUME IInv, [Next]_vars PROVE IInv'
  OBVIOUS
<1>1. CASE Next
  BY <1>1, AgentIInv, MemberIInv DEF Next
<1>2. CASE UNCHANGED vars
  BY <1>2
  DEF vars, IInv, TypeOK, RunsApart, StoredDecisionWasMade, Provenance, CopiesWereStored,
      OnlyEscalatedDecided, DecidedDidCommit, RowsAreOfCommits
<1> QED
  BY <1>1, <1>2

LEMMA Invariance == Spec => []IInv
BY InitIInv, Inductive, PTL DEF Spec

(* Whatever is redelivered, retried, interleaved or lost, a stored check   *)
(* shows an outcome its run or its reviewer really produced.               *)
THEOREM StoredDecisionsWereMade == Spec => []StoredDecisionWasMade
<1>1. IInv => StoredDecisionWasMade
  BY DEF IInv
<1> QED
  BY <1>1, Invariance, PTL

(* Nobody ever rules on a check the agent did not escalate.                *)
THEOREM OnlyEscalatedAreDecided == Spec => []OnlyEscalatedDecided
<1>1. IInv => OnlyEscalatedDecided
  BY DEF IInv
<1> QED
  BY <1>1, Invariance, PTL

(* The audit log holds no decision row without a committed decision.       *)
THEOREM NoPhantomRows == Spec => []RowsAreOfCommits
<1>1. IInv => RowsAreOfCommits
  BY DEF IInv
<1> QED
  BY <1>1, Invariance, PTL

-----------------------------------------------------------------------------
(* The promise of a single, final decision, and where it holds: when the   *)
(* agent runs at most once for the check and no handler writes back a copy *)
(* it read outside a transaction.                                          *)

RolesChecked ==
  \A m \in Members : /\ req[m].op = "comment" => m \in Commenters
                     /\ req[m].op = "assign" => m \in Managers

LEMMA RolesInductive == RolesChecked /\ IInv /\ [Next]_vars => RolesChecked'
<1> SUFFICES ASSUME RolesChecked, IInv, [Next]_vars PROVE RolesChecked'
  OBVIOUS
<1> USE DEF RolesChecked
<1>1. CASE UNCHANGED req
  BY <1>1
<1>2. ASSUME NEW m \in Members, MemberStep(m) PROVE RolesChecked'
  <2>1. \A n \in Members \ {m} : req'[n] = req[n]
    BY <1>2
    DEF IInv, MemberStep, DecideRead, DecideCommit, DecideConflict, DecideAudit,
        CommentRead, CommentWrite, AssignRead, AssignWrite, Claim, RequestDies, Begin,
        WriteBack, Finish, TypeOK
  <2>2. /\ req'[m].op = "comment" => m \in Commenters
        /\ req'[m].op = "assign" => m \in Managers
    <3>1. CASE DecideRead(m) \/ CommentRead(m) \/ AssignRead(m)
      BY <3>1 DEF IInv, DecideRead, CommentRead, AssignRead, Begin, TypeOK
    <3>2. CASE DecideCommit(m)
      BY <3>2 DEF IInv, DecideCommit, TypeOK, Request, IdleRequest
    <3>3. CASE DecideConflict(m) \/ DecideAudit(m) \/ CommentWrite(m) \/ AssignWrite(m)
               \/ RequestDies(m)
      BY <3>3
      DEF IInv, DecideConflict, DecideAudit, CommentWrite, AssignWrite, RequestDies,
          WriteBack, Finish, TypeOK, IdleRequest
    <3>4. CASE Claim(m)
      BY <3>4 DEF Claim
    <3> QED
      BY <1>2, <3>1, <3>2, <3>3, <3>4 DEF MemberStep
  <2> QED
    BY <2>1, <2>2
<1>3. ASSUME NEW a \in Agents, AgentStep(a) PROVE UNCHANGED req
  BY <1>3 DEF AgentStep, CheckStart, CheckStore, CheckAudit, CheckFails
<1> QED
  BY <1>1, <1>2, <1>3 DEF Next, vars

LEMMA RolesInvariance == Spec => []RolesChecked
<1>1. Init => RolesChecked
  BY DEF Init, RolesChecked, IdleRequest
<1> QED
  BY <1>1, Invariance, RolesInductive, PTL DEF Spec

SingleWriter == Commenters = {} /\ Managers = {} /\ MaxRuns <= 1

(* With one run, the agent only ever writes a check that is not there yet. *)
LEMMA StoresOnce ==
  ASSUME SingleWriter, IInv, NEW a \in Agents, CheckStore(a)
  PROVE  check = NoCheck /\ \E v \in Verdicts : check' = FreshCheck(v, agent[a].run)
<1>1. agent[a].run \in 1..MaxRuns /\ verdicts[agent[a].run] = None
  BY DEF CheckStore, IInv, RunsApart, TypeOK, Agent, IdleAgent
<1>2. ASSUME check # NoCheck PROVE FALSE
  <2>1. check \in Check /\ Provenance(check)
    BY <1>2 DEF IInv, TypeOK, StoredDecisionWasMade
  <2>2. check.run = agent[a].run
    BY <1>1, <2>1, CheckReviewAssumption DEF SingleWriter, Check
  <2> QED
    BY <1>1, <2>1, <2>2, ProvenanceHasVerdict DEF IInv
<1> QED
  BY <1>2 DEF CheckStore

(* What one step can do to the stored check then.                          *)
LEMMA CheckSteps ==
  ASSUME SingleWriter, IInv, RolesChecked, [Next]_vars
  PROVE  \/ check' = check
         \/ check = NoCheck /\ \E v \in Verdicts, n \in 1..MaxRuns : check' = FreshCheck(v, n)
         \/ check # NoCheck /\ \E m \in Members : check' = [check EXCEPT !.assigned = m]
         \/ /\ check # NoCheck /\ AwaitingReview(check)
            /\ \E m \in Members, ruling \in Rulings :
                 check' = [check EXCEPT !.decision = ruling, !.reviewer = m]
<1>1. CASE UNCHANGED vars
  BY <1>1 DEF vars
<1>2. ASSUME NEW a \in Agents, CheckStore(a)
      PROVE  check = NoCheck /\ \E v \in Verdicts, n \in 1..MaxRuns : check' = FreshCheck(v, n)
  <2>1. agent[a].run \in 1..MaxRuns
    BY <1>2 DEF CheckStore, IInv, TypeOK, Agent, IdleAgent
  <2> QED
    BY <1>2, <2>1, StoresOnce
<1>3. ASSUME NEW a \in Agents, AgentStep(a), ~CheckStore(a) PROVE check' = check
  BY <1>3 DEF AgentStep, CheckStart, CheckAudit, CheckFails
<1>4. ASSUME NEW m \in Members, DecideCommit(m)
      PROVE  /\ check # NoCheck /\ AwaitingReview(check)
             /\ \E ruling \in Rulings :
                  check' = [check EXCEPT !.decision = ruling, !.reviewer = m]
  <2>1. req[m].arg \in Rulings
    BY <1>4 DEF DecideCommit, IInv, TypeOK, Request, IdleRequest
  <2> QED
    BY <1>4, <2>1 DEF DecideCommit
<1>5. ASSUME NEW m \in Members, Claim(m)
      PROVE  check # NoCheck /\ check' = [check EXCEPT !.assigned = m]
  BY <1>5 DEF Claim
<1>6. ASSUME NEW m \in Members, MemberStep(m), ~DecideCommit(m), ~Claim(m)
      PROVE  check' = check
  <2>1. ~CommentWrite(m) /\ ~AssignWrite(m)
    BY DEF SingleWriter, RolesChecked, CommentWrite, AssignWrite
  <2> QED
    BY <1>6, <2>1
    DEF MemberStep, DecideRead, DecideConflict, DecideAudit, CommentRead, AssignRead,
        RequestDies, Begin
<1> QED
  BY <1>1, <1>2, <1>3, <1>4, <1>5, <1>6 DEF Next

(* A committed decision is the last word.                                  *)
THEOREM DecisionIsFinal == SingleWriter /\ Spec => DecisionFinal
<1> SUFFICES ASSUME SingleWriter PROVE Spec => DecisionFinal
  OBVIOUS
<1>1. IInv /\ RolesChecked /\ [Next]_vars
        => [Ruled(check) => SameRuling(check', check)]_vars
  <2> SUFFICES ASSUME IInv, RolesChecked, [Next]_vars, Ruled(check)
               PROVE  SameRuling(check', check)
    OBVIOUS
  <2>1. check \in Check /\ check # NoCheck /\ check.reviewer # None
    BY DEF Ruled, IInv, TypeOK
  <2> QED
    BY <2>1, CheckSteps DEF SameRuling, AwaitingReview, Check
<1> QED
  BY <1>1, Invariance, RolesInvariance, PTL DEF Spec, DecisionFinal

(* CheckReview implements EscalationDecision under the same condition.     *)
THEOREM Implements == SingleWriter /\ Spec => ImplementsDecision
<1> SUFFICES ASSUME SingleWriter PROVE Spec => ImplementsDecision
  OBVIOUS
<1> DEFINE o == IF check = NoCheck THEN "none" ELSE check.decision
           b == IF check = NoCheck THEN None ELSE check.reviewer
<1>1. Init => Decided!Init
  BY DEF Init, Decided!Init
<1>2. IInv /\ RolesChecked /\ [Next]_vars => [Decided!Next]_<<o, b>>
  <2> SUFFICES ASSUME IInv, RolesChecked, [Next]_vars
               PROVE  Decided!Next \/ (o' = o /\ b' = b)
    OBVIOUS
  <2>1. CASE check' = check
    BY <2>1
  <2>2. CASE check = NoCheck /\ \E v \in Verdicts, n \in 1..MaxRuns : check' = FreshCheck(v, n)
    <3>1. PICK v \in Verdicts, n \in 1..MaxRuns : check' = FreshCheck(v, n)
      BY <2>2
    <3>2. check' \in Check
      BY <3>1, FreshCheckType
    <3>3. check' # NoCheck
      BY <3>2, CheckReviewAssumption DEF Check
    <3>4. check'.decision = v /\ check'.reviewer = None
      BY <3>1 DEF FreshCheck
    <3>5. Decided!Conclude
      BY <2>2, <3>3, <3>4 DEF Decided!Conclude, Verdicts
    <3> QED
      BY <3>5 DEF Decided!Next
  <2>3. CASE check # NoCheck /\ \E m \in Members : check' = [check EXCEPT !.assigned = m]
    <3>1. check \in Check
      BY <2>3 DEF IInv, TypeOK
    <3>2. check' \in Check
      BY <2>3, <3>1 DEF Check
    <3>3. check' # NoCheck
      BY <3>2, CheckReviewAssumption DEF Check
    <3>4. check'.decision = check.decision /\ check'.reviewer = check.reviewer
      BY <2>3, <3>1 DEF Check
    <3> QED
      BY <2>3, <3>3, <3>4
  <2>4. CASE /\ check # NoCheck /\ AwaitingReview(check)
             /\ \E m \in Members, ruling \in Rulings :
                  check' = [check EXCEPT !.decision = ruling, !.reviewer = m]
    <3>1. check \in Check
      BY <2>4 DEF IInv, TypeOK
    <3>2. PICK m \in Members, ruling \in Rulings :
            check' = [check EXCEPT !.decision = ruling, !.reviewer = m]
      BY <2>4
    <3>3. check' \in Check
      BY <3>1, <3>2 DEF Check, Decisions
    <3>4. check' # NoCheck
      BY <3>3, CheckReviewAssumption DEF Check
    <3>5. check'.decision = ruling /\ check'.reviewer = m
      BY <3>1, <3>2 DEF Check
    <3>6. Decided!Decide(m)
      BY <2>4, <3>4, <3>5 DEF Decided!Decide, AwaitingReview, Rulings
    <3> QED
      BY <3>6 DEF Decided!Next
  <2> QED
    BY <2>1, <2>2, <2>3, <2>4, CheckSteps
<1> QED
  BY <1>1, <1>2, Invariance, RolesInvariance, PTL
  DEF Spec, ImplementsDecision, Decided!Spec

-----------------------------------------------------------------------------
(* Who can take a decision, a note or an assignment away.                  *)

(* What one step can do to a stored check: a blind write, a claim of a     *)
(* check nobody has, or a ruling on a check that awaits one.               *)
LEMMA WritesToTheCheck ==
  ASSUME IInv, Next, check # NoCheck, check' # check, ~BlindWrite
  PROVE  /\ check \in Check
         /\ \E m \in Members :
              \/ check.assigned = None /\ check' = [check EXCEPT !.assigned = m]
              \/ /\ check.reviewer = None
                 /\ \E ruling \in Rulings :
                      check' = [check EXCEPT !.decision = ruling, !.reviewer = m]
<1>1. check \in Check
  BY DEF IInv, TypeOK
<1>2. ASSUME NEW a \in Agents, AgentStep(a) PROVE FALSE
  BY <1>2 DEF AgentStep, CheckStart, CheckStore, CheckAudit, CheckFails, BlindWrite
<1>3. ASSUME NEW m \in Members, req[m].op \in {"comment", "assign"}
      PROVE  /\ req[m].copy \in Check
             /\ req[m].op = "assign" => req[m].arg \in Members \cup {None}
  BY <1>3 DEF IInv, TypeOK, Request, IdleRequest
<1>4. ASSUME NEW m \in Members, CommentWrite(m) PROVE FALSE
  <2>1. req[m].copy \in Check /\ check' = [req[m].copy EXCEPT !.notes = @ \cup {req[m].arg}]
    BY <1>3, <1>4 DEF CommentWrite, WriteBack
  <2>2. /\ check'.decision = req[m].copy.decision /\ check'.reviewer = req[m].copy.reviewer
        /\ req[m].copy.notes \subseteq check'.notes
    BY <2>1 DEF Check
  <2> QED
    BY <1>4, <2>2 DEF CommentWrite, BlindWrite
<1>5. ASSUME NEW m \in Members, AssignWrite(m) PROVE FALSE
  <2>1. req[m].copy \in Check /\ check' = [req[m].copy EXCEPT !.assigned = req[m].arg]
    BY <1>3, <1>5 DEF AssignWrite, WriteBack
  <2>2. /\ check'.decision = req[m].copy.decision /\ check'.reviewer = req[m].copy.reviewer
        /\ req[m].copy.notes \subseteq check'.notes
    BY <2>1 DEF Check
  <2> QED
    BY <1>5, <2>2 DEF AssignWrite, BlindWrite
<1>6. ASSUME NEW m \in Members, DecideCommit(m)
      PROVE  /\ check.reviewer = None
             /\ \E ruling \in Rulings :
                  check' = [check EXCEPT !.decision = ruling, !.reviewer = m]
  <2>1. req[m].arg \in Rulings
    BY <1>6 DEF DecideCommit, IInv, TypeOK, Request, IdleRequest
  <2> QED
    BY <1>6, <2>1 DEF DecideCommit, AwaitingReview
<1>7. ASSUME NEW m \in Members, MemberStep(m)
      PROVE  DecideCommit(m) \/ Claim(m)
  BY <1>4, <1>5, <1>7
  DEF MemberStep, DecideRead, DecideConflict, DecideAudit, CommentRead, AssignRead,
      RequestDies, Begin
<1> QED
  BY <1>1, <1>2, <1>6, <1>7 DEF Next, Claim

(* A committed decision is lost only to a re-run of the agent or to a copy *)
(* read earlier, never to another reviewer's decision or claim.            *)
THEOREM DecisionsLostOnlyBlindly == Spec => DecisionLostOnlyBlindly
<1>1. IInv /\ [Next]_vars
        => [Ruled(check) /\ ~SameRuling(check', check) => BlindWrite]_vars
  <2> SUFFICES ASSUME IInv, Next, Ruled(check), ~BlindWrite PROVE SameRuling(check', check)
    OBVIOUS
  <2> QED
    BY WritesToTheCheck DEF Ruled, SameRuling, Check
<1> QED
  BY <1>1, Invariance, PTL DEF Spec, DecisionLostOnlyBlindly

(* A comment is lost only in the same two ways.                            *)
THEOREM NotesAreLostOnlyBlindly == Spec => NotesLostOnlyBlindly
<1>1. IInv /\ [Next]_vars
        => [check # NoCheck /\ ~(check.notes \subseteq check'.notes) => BlindWrite]_vars
  <2> SUFFICES ASSUME IInv, Next, check # NoCheck, ~BlindWrite
               PROVE  check.notes \subseteq check'.notes
    OBVIOUS
  <2> QED
    BY WritesToTheCheck DEF Check
<1> QED
  BY <1>1, Invariance, PTL DEF Spec, NotesLostOnlyBlindly

(* A claim only takes what nobody is assigned to.                          *)
THEOREM ClaimsNeverSteal == Spec => ClaimNeverSteals
<1>1. IInv /\ [Next]_vars
        => [check # NoCheck /\ check.assigned \notin {None, check'.assigned} => BlindWrite]_vars
  <2> SUFFICES ASSUME IInv, Next, check # NoCheck, check.assigned # None, ~BlindWrite
               PROVE  check'.assigned = check.assigned
    OBVIOUS
  <2> QED
    BY WritesToTheCheck DEF Check
<1> QED
  BY <1>1, Invariance, PTL DEF Spec, ClaimNeverSteals

=============================================================================
