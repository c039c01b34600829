----------------------------- MODULE MCServices -----------------------------
(***************************************************************************)
(* Seven parts of the system that, as far as they are modelled, neither    *)
(* call each other nor share state: support tickets, rate limits, access   *)
(* to the API, task rows, the retention sweep, the members of a workspace, *)
(* and the making of checks and fix lists.                                 *)
(* A behaviour is one of them at work and the others at rest, so that one  *)
(* run checks each on all of its own behaviours.                           *)
(***************************************************************************)
EXTENDS Support, RateLimit, Access, TaskRows, Retention, Accounts,
        Assessment

CONSTANTS OneManager, OneRequest   \* the two instances of Access

VARIABLE part

servicesVars == <<part, ticketVars, limitVars, accessVars, taskVars, retentionVars, accountVars,
                  assessmentVars>>

Parts == {"support", "limits", "access_cache", "access_edits", "tasks", "retention", "accounts",
          "assessment"}

ServicesInit ==
  /\ part \in Parts
  /\ TicketInit /\ LimitInit /\ AccessInit /\ AccountsInit /\ AssessmentInit
  /\ TaskInit /\ (part # "tasks" => mode = "inline" /\ \A t \in Jobs : kind[t] = "check")
  /\ RetentionInit /\ (part # "retention" => policy = 0)

(* Access twice: two sign-ins and one manager who changes the tenant, with *)
(* no keys; one request and two managers who change anything.              *)
CacheAtWork ==
  /\ change' # change => change' = [change EXCEPT ![OneManager] = change'[OneManager]]
  /\ \A m \in Managers : change'[m].key = NoKey

EditsAtWork ==
  request' # request => request' = [request EXCEPT ![OneRequest] = request'[OneRequest]]

ServicesNext ==
  \/ /\ part = "support" /\ TicketNext
     /\ UNCHANGED <<part, limitVars, accessVars, taskVars, retentionVars, accountVars,
                    assessmentVars>>
  \/ /\ part = "limits" /\ LimitNext
     /\ UNCHANGED <<part, ticketVars, accessVars, taskVars, retentionVars, accountVars,
                    assessmentVars>>
  \/ /\ part = "access_cache" /\ AccessNext /\ CacheAtWork
     /\ UNCHANGED <<part, ticketVars, limitVars, taskVars, retentionVars, accountVars,
                    assessmentVars>>
  \/ /\ part = "access_edits" /\ AccessNext /\ EditsAtWork
     /\ UNCHANGED <<part, ticketVars, limitVars, taskVars, retentionVars, accountVars,
                    assessmentVars>>
  \/ /\ part = "tasks" /\ TaskNext
     /\ UNCHANGED <<part, ticketVars, limitVars, accessVars, retentionVars, accountVars,
                    assessmentVars>>
  \/ /\ part = "retention" /\ RetentionNext
     /\ UNCHANGED <<part, ticketVars, limitVars, accessVars, taskVars, accountVars,
                    assessmentVars>>
  \/ /\ part = "accounts" /\ AccountsNext
     /\ UNCHANGED <<part, ticketVars, limitVars, accessVars, taskVars, retentionVars,
                    assessmentVars>>
  \/ /\ part = "assessment" /\ AssessmentNext
     /\ UNCHANGED <<part, ticketVars, limitVars, accessVars, taskVars, retentionVars, accountVars>>

ServicesSpec == ServicesInit /\ [][ServicesNext]_servicesVars

(* Type invariant of the seven parts: every record, cache entry, row and  *)
(* request in flight stays of its shape.                                   *)
ServicesTypeOK ==
  /\ part \in Parts
  /\ TicketTypeOK /\ LimitTypeOK /\ AccessTypeOK
  /\ TaskTypeOK /\ RetentionTypeOK /\ AccountsTypeOK
  /\ AssessmentTypeOK
=============================================================================
