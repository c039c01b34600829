---------------------------- MODULE Entitlement ----------------------------
(***************************************************************************)
(* One tenant document and everybody who writes it: the requests that      *)
(* spend a report allowance, the payment confirmations that grant some,    *)
(* the settings, jurisdiction and status handlers.                         *)
(*                                                                         *)
(* consume, release and grant are Firestore transactions, one step each.   *)
(* The other handlers read the tenant, change a field of the copy and      *)
(* write the whole copy back (upsert_tenant), two steps each.  A handler   *)
(* may die between any two steps.                                          *)
(*                                                                         *)
(* Of the tenant the model keeps what decides who may run a check; the     *)
(* fields that settings and payments change besides (webhook, retention,   *)
(* jurisdiction, plan tier) are read by nobody here.                       *)
(***************************************************************************)
EXTENDS Naturals, FiniteSets

CONSTANTS
  Customers,      \* POST /api/compliance/checks requests of the tenant's members
  Admins,         \* the same requests from platform admins (is_platform_admin)
  Confirmers,     \* concurrent executions of _apply_payment
  Payments,       \* captured payments, by the provider's reference
  Subscriptions,  \* those of them that bought the subscription plan
  Editors,        \* executions of the settings and jurisdiction handlers
  Operators,      \* executions of the platform's tenant-status handler
  MonthlyReports, \* PRO_MONTHLY_REPORTS
  MaxOpening,     \* bound on the allowance the tenant starts with
  MaxConfirms     \* bound on the confirmations of one payment

Sources  == {"free", "single", "pro"}
Periods  == {"none", "running", "lapsed"}     \* entitlement_expires_at
Statuses == {"active", "suspended"}

Tenant == [granted : Nat, consumed : Nat, source : Sources, period : Periods,
           status : Statuses]

ASSUME EntitlementAssumption ==
  /\ MonthlyReports \in Nat \ {0}
  /\ MaxOpening \in Nat /\ MaxConfirms \in Nat
  /\ Subscriptions \subseteq Payments
  /\ Customers \cap Admins = {}
  /\ IsFiniteSet(Customers)

VARIABLES
  tenant,    \* the stored Tenant
  request,   \* per check request: how far it is
  confirm,   \* per confirmation: progress, payment, copy of the tenant
  edit,      \* per settings or status request: progress and copy
  confirms,  \* per payment: confirmations begun
  grants,    \* history, per payment: grants made for it
  opening,   \* history: reports consumed before the behaviour starts
  drift      \* history: has anything but a charge or its refund changed the count?

vars == <<tenant, request, confirm, edit, confirms, grants, opening, drift>>

Requests == Customers \cup Admins
Writers  == Editors \cup Operators

Progress == {"new", "charged", "bypassed", "dispatched", "releasing", "released",
             "refused", "lost"}

TypeOK ==
  /\ tenant \in Tenant
  /\ request \in [Requests -> Progress]
  /\ confirm \in [Confirmers -> [at : {"idle"}] \cup
       [at : {"read"}, pay : Payments, copy : Tenant] \cup [at : {"paid"}, pay : Payments]]
  /\ edit \in [Writers -> [at : {"new", "done"}] \cup [at : {"read"}, copy : Tenant]]
  /\ confirms \in [Payments -> 0..MaxConfirms]
  /\ grants \in [Payments -> Nat]
  /\ opening \in Nat
  /\ drift \in BOOLEAN

(* Tenants as signup, purchases and earlier checks leave them.             *)
Opening(t) ==
  /\ t.consumed <= t.granted /\ t.granted \in 1..MaxOpening
  /\ t.source = "free" => t.granted = 1 /\ t.period = "none"
  /\ t.source = "pro"  => t.granted >= MonthlyReports /\ t.period # "none"

Init ==
  /\ tenant \in [granted : 0..MaxOpening, consumed : 0..MaxOpening, source : Sources,
                 period : Periods, status : Statuses]
  /\ Opening(tenant)
  /\ request = [r \in Requests |-> "new"]
  /\ confirm = [c \in Confirmers |-> [at |-> "idle"]]
  /\ edit = [w \in Writers |-> [at |-> "new"]]
  /\ confirms = [p \in Payments |-> 0]
  /\ grants = [p \in Payments |-> 0]
  /\ opening = tenant.consumed
  /\ drift = FALSE

-----------------------------------------------------------------------------
(* trigger_check: charge, dispatch the CHECK task, release if that raised. *)

(* A lapsed Pro period is renewed by the request that needs it.            *)
Renewed(t) ==
  IF t.source = "pro" /\ t.period = "lapsed"
  THEN [t EXCEPT !.granted = t.consumed + MonthlyReports, !.period = "running"]
  ELSE t

(* Fault: off by one.                                                      *)
NotOverspent(t) == t.consumed <= t.granted

AllowanceLeft(t) == t.consumed < t.granted

Reach(r, progress) == request' = [request EXCEPT ![r] = progress]

Charge(r) ==
  /\ r \in Customers /\ request[r] = "new"
  /\ AllowanceLeft(Renewed(tenant))
  /\ tenant' = [Renewed(tenant) EXCEPT !.consumed = @ + 1]
  /\ Reach(r, "charged")
  /\ UNCHANGED <<confirm, edit, confirms, grants, opening, drift>>

Refuse(r) ==                  \* 402; the transaction wrote nothing
  /\ r \in Customers /\ request[r] = "new"
  /\ ~AllowanceLeft(Renewed(tenant))
  /\ Reach(r, "refused")
  /\ UNCHANGED <<tenant, confirm, edit, confirms, grants, opening, drift>>

Bypass(r) ==                  \* a platform admin is not charged
  /\ r \in Admins /\ request[r] = "new"
  /\ Reach(r, "bypassed")
  /\ UNCHANGED <<tenant, confirm, edit, confirms, grants, opening, drift>>

Dispatch(r) ==
  /\ request[r] \in {"charged", "bypassed"}
  /\ Reach(r, "dispatched")
  /\ UNCHANGED <<tenant, confirm, edit, confirms, grants, opening, drift>>

(* create_and_dispatch raised - or did so after the task was queued, when  *)
(* its last read of the task failed.                                       *)
DispatchFails(r) ==
  /\ request[r] \in {"charged", "bypassed"}
  /\ Reach(r, "releasing")
  /\ UNCHANGED <<tenant, confirm, edit, confirms, grants, opening, drift>>

Uncharged(r) == drift' = (drift \/ (r \in Admins /\ tenant.consumed > 0))

(* Faults: the clamp at zero is missing; the allowance is given back by    *)
(* two layers of error handling.                                           *)
ReleaseUnclamped(r) ==
  /\ request[r] = "releasing"
  /\ tenant' = [tenant EXCEPT !.consumed = @ - 1]
  /\ Reach(r, "released")
  /\ Uncharged(r)
  /\ UNCHANGED <<confirm, edit, confirms, grants, opening>>

ReleaseTwice(r) ==
  /\ request[r] = "releasing"
  /\ tenant' = [tenant EXCEPT !.consumed = IF @ > 1 THEN @ - 2 ELSE 0]
  /\ Reach(r, "released")
  /\ Uncharged(r)
  /\ UNCHANGED <<confirm, edit, confirms, grants, opening>>

Release(r) ==
  /\ request[r] = "releasing"
  /\ tenant' = [tenant EXCEPT !.consumed = IF @ > 0 THEN @ - 1 ELSE 0]
  /\ Reach(r, "released")
  /\ Uncharged(r)
  /\ UNCHANGED <<confirm, edit, confirms, grants, opening>>

RequestDies(r) ==
  /\ request[r] \in {"charged", "releasing"}
  /\ Reach(r, "lost")
  /\ UNCHANGED <<tenant, confirm, edit, confirms, grants, opening, drift>>

PeriodEnds ==                 \* thirty days have passed
  /\ tenant.period = "running"
  /\ tenant' = [tenant EXCEPT !.period = "lapsed"]
  /\ UNCHANGED <<request, confirm, edit, confirms, grants, opening, drift>>

-----------------------------------------------------------------------------
(* _apply_payment, from the checkout callback, the webhook (which the      *)
(* provider repeats until it is answered 200) or the capture call.         *)

(* A copy with another count than the stored one undoes or redoes charges. *)
WriteBack(copy) ==
  /\ tenant' = copy
  /\ drift' = (drift \/ copy.consumed # tenant.consumed)

ConfirmRead(c) ==
  /\ confirm[c].at = "idle"
  /\ \E p \in Payments :
       /\ confirms[p] < MaxConfirms
       /\ confirms' = [confirms EXCEPT ![p] = @ + 1]
       /\ confirm' = [confirm EXCEPT ![c] = [at |-> "read", pay |-> p, copy |-> tenant]]
  /\ UNCHANGED <<tenant, request, edit, grants, opening, drift>>

ConfirmWrite(c) ==            \* plan_tier, and with it the rest of the copy
  /\ confirm[c].at = "read"
  /\ WriteBack(confirm[c].copy)
  /\ confirm' = [confirm EXCEPT ![c] = [at |-> "paid", pay |-> confirm[c].pay]]
  /\ UNCHANGED <<request, edit, confirms, grants, opening>>

(* Faults: the purchase replaces the allowance, or lifts a suspension.     *)
AbsoluteGrant(t, p) ==
  IF p \in Subscriptions
  THEN [t EXCEPT !.granted = MonthlyReports, !.source = "pro", !.period = "running"]
  ELSE [t EXCEPT !.granted = 1, !.source = "single"]
ReactivatingGrant(t, p) ==
  IF p \in Subscriptions
  THEN [t EXCEPT !.granted = @ + MonthlyReports, !.source = "pro", !.period = "running",
                 !.status = "active"]
  ELSE [t EXCEPT !.granted = @ + 1, !.source = "single", !.status = "active"]

Granted(t, p) ==
  IF p \in Subscriptions
  THEN [t EXCEPT !.granted = @ + MonthlyReports, !.source = "pro", !.period = "running"]
  ELSE [t EXCEPT !.granted = @ + 1, !.source = "single"]

(* The billing row that follows is keyed by the payment and collapses; the *)
(* grant before it does not.                                               *)
Grant(c) ==
  /\ confirm[c].at = "paid"
  /\ tenant' = Granted(tenant, confirm[c].pay)
  /\ grants' = [grants EXCEPT ![confirm[c].pay] = @ + 1]
  /\ confirm' = [confirm EXCEPT ![c] = [at |-> "idle"]]
  /\ UNCHANGED <<request, edit, confirms, opening, drift>>

ConfirmDies(c) ==
  /\ confirm[c].at # "idle"
  /\ confirm' = [confirm EXCEPT ![c] = [at |-> "idle"]]
  /\ UNCHANGED <<tenant, request, edit, confirms, grants, opening, drift>>

-----------------------------------------------------------------------------
(* put_notification_settings, put_retention_settings, the jurisdiction     *)
(* switch (Editors) and the platform's suspend or reactivate (Operators).  *)

EditRead(w) ==
  /\ edit[w].at = "new"
  /\ edit' = [edit EXCEPT ![w] = [at |-> "read", copy |-> tenant]]
  /\ UNCHANGED <<tenant, request, confirm, confirms, grants, opening, drift>>

Edited(w) ==
  IF w \in Operators
  THEN [edit[w].copy EXCEPT !.status = IF @ = "active" THEN "suspended" ELSE "active"]
  ELSE edit[w].copy

EditWrite(w) ==
  /\ edit[w].at = "read"
  /\ WriteBack(Edited(w))
  /\ edit' = [edit EXCEPT ![w] = [at |-> "done"]]
  /\ UNCHANGED <<request, confirm, confirms, grants, opening>>

EditDies(w) ==                \* or returned early: nothing to change, bad value
  /\ edit[w].at = "read"
  /\ edit' = [edit EXCEPT ![w] = [at |-> "done"]]
  /\ UNCHANGED <<tenant, request, confirm, confirms, grants, opening, drift>>

-----------------------------------------------------------------------------
Trigger(r) ==
  \/ Charge(r) \/ Refuse(r) \/ Bypass(r) \/ Dispatch(r) \/ DispatchFails(r)
  \/ Release(r) \/ RequestDies(r)

Confirmation(c) == ConfirmRead(c) \/ ConfirmWrite(c) \/ Grant(c) \/ ConfirmDies(c)

Edit(w) == EditRead(w) \/ EditWrite(w) \/ EditDies(w)

Next ==
  \/ \E r \in Requests : Trigger(r)
  \/ PeriodEnds
  \/ \E c \in Confirmers : Confirmation(c)
  \/ \E w \in Writers : Edit(w)

Spec == Init /\ [][Next]_vars

-----------------------------------------------------------------------------
(* No interleaving spends more than was granted ("Never returns a tenant   *)
(* with consumed > granted"): a stale copy written back is itself balanced.*)
NeverOverspent == tenant.consumed <= tenant.granted

(* Every report counted as consumed is that of a request that was charged  *)
(* and not refunded.                                                       *)
Paying == {r \in Customers : request[r] \in {"charged", "dispatched", "releasing", "lost"}}

ChargesExact == tenant.consumed = opening + Cardinality(Paying)

(* So it is as long as nobody wrote back a copy with another count and no  *)
(* platform admin was refunded what was never charged: no interleaving of  *)
(* charges, renewals, refunds and grants loses or doubles one.             *)
ChargesAccounted == ~drift => ChargesExact

(* One payment buys one allowance, however many paths confirm it.          *)
GrantedOncePerPayment == \A p \in Payments : grants[p] <= 1

(* What a write-back of an earlier copy can do.                            *)
BlindWrite ==
  \/ \E c \in Confirmers : confirm[c].at = "read" /\ tenant' = confirm[c].copy
  \/ \E w \in Writers : edit[w].at = "read" /\ tenant' = Edited(w)

(* A Pro period has begun anew, and its first report is charged.           *)
NewPeriod ==
  /\ tenant.source = "pro" /\ tenant.period = "lapsed" /\ tenant'.period = "running"
  /\ tenant'.granted = tenant.consumed + MonthlyReports
  /\ tenant'.consumed = tenant.consumed + 1

(* A granted allowance shrinks only to such a write, or to the renewal     *)
(* that starts a new Pro period: no purchase takes another one away.       *)
AllowanceLostOnlyBlindly ==
  [][tenant'.granted < tenant.granted => BlindWrite \/ NewPeriod]_vars

(* Paying, being charged or renewing does not lift a suspension.           *)
SuspensionLostOnlyBlindly ==
  [][tenant.status = "suspended" /\ tenant'.status = "active" => BlindWrite]_vars
=============================================================================
