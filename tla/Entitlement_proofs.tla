------------------------- MODULE Entitlement_proofs -------------------------
(***************************************************************************)
(* Theorems about Entitlement, for any sets of requests, payments and      *)
(* writers, any allowance and any number of confirmations.                 *)
(***************************************************************************)
EXTENDS Entitlement, FiniteSetTheorems, TLAPS

Balanced(t) == t.consumed <= t.granted

(* The inductive invariant: the stored tenant and every copy of it in a    *)
(* handler's hands are balanced, so that writing one back is harmless.     *)
CopiesBalanced ==
  /\ \A c \in Confirmers : confirm[c].at = "read" => Balanced(confirm[c].copy)
  /\ \A w \in Writers : edit[w].at = "read" => Balanced(edit[w].copy)

(* Only a platform admin's request goes on without being charged.          *)
MembersCharged == \A r \in Customers : request[r] # "bypassed"

IInv ==
  /\ TypeOK
  /\ NeverOverspent
  /\ CopiesBalanced
  /\ MembersCharged

-----------------------------------------------------------------------------
(* The pure operators keep a tenant well-typed and balanced.               *)

LEMMA RenewedBalanced ==
  ASSUME NEW t \in Tenant, Balanced(t)
  PROVE  Renewed(t) \in Tenant /\ Balanced(Renewed(t))
<1>1. CASE t.source = "pro" /\ t.period = "lapsed"
  <2>1. Renewed(t) = [t EXCEPT !.granted = t.consumed + MonthlyReports, !.period = "running"]
    BY <1>1 DEF Renewed
  <2>2. t.consumed + MonthlyReports \in Nat /\ t.consumed <= t.consumed + MonthlyReports
    BY EntitlementAssumption DEF Tenant
  <2> QED
    BY <2>1, <2>2 DEF Tenant, Balanced, Periods
<1>2. CASE ~(t.source = "pro" /\ t.period = "lapsed")
  BY <1>2 DEF Renewed
<1> QED
  BY <1>1, <1>2

LEMMA GrantedBalanced ==
  ASSUME NEW t \in Tenant, NEW p \in Payments, Balanced(t)
  PROVE  Granted(t, p) \in Tenant /\ Balanced(Granted(t, p))
<1>1. CASE p \in Subscriptions
  <2>1. Granted(t, p) = [t EXCEPT !.granted = t.granted + MonthlyReports, !.source = "pro",
                                  !.period = "running"]
    BY <1>1 DEF Granted, Tenant
  <2>2. t.granted + MonthlyReports \in Nat /\ t.consumed <= t.granted + MonthlyReports
    BY EntitlementAssumption DEF Tenant, Balanced
  <2> QED
    BY <2>1, <2>2 DEF Tenant, Balanced, Periods, Sources
<1>2. CASE p \notin Subscriptions
  <2>1. Granted(t, p) = [t EXCEPT !.granted = t.granted + 1, !.source = "single"]
    BY <1>2 DEF Granted, Tenant
  <2>2. t.granted + 1 \in Nat /\ t.consumed <= t.granted + 1
    BY DEF Tenant, Balanced
  <2> QED
    BY <2>1, <2>2 DEF Tenant, Balanced, Sources
<1> QED
  BY <1>1, <1>2

LEMMA EditedBalanced ==
  ASSUME TypeOK, NEW w \in Writers, edit[w].at = "read", Balanced(edit[w].copy)
  PROVE  Edited(w) \in Tenant /\ Balanced(Edited(w))
<1>1. edit[w].copy \in Tenant
  BY DEF TypeOK
<1> QED
  BY <1>1 DEF Edited, Tenant, Balanced, Statuses

-----------------------------------------------------------------------------
LEMMA InitInv == Init => IInv
<1> SUFFICES ASSUME Init PROVE IInv
  OBVIOUS
<1>1. tenant \in Tenant /\ opening \in Nat
  BY EntitlementAssumption DEF Init, Tenant
<1>2. TypeOK
  <2>1. 0 \in 0..MaxConfirms /\ "new" \in Progress
    BY EntitlementAssumption DEF Progress
  <2>6. drift \in BOOLEAN
    BY DEF Init
  <2>2. request \in [Requests -> Progress]
    BY <2>1 DEF Init
  <2>3. confirm \in [Confirmers -> [at : {"idle"}]]
    BY DEF Init
  <2>4. edit \in [Writers -> [at : {"new", "done"}]]
    BY DEF Init
  <2>5. confirms \in [Payments -> 0..MaxConfirms] /\ grants \in [Payments -> Nat]
    BY <2>1 DEF Init
  <2> QED
    BY <1>1, <2>1, <2>2, <2>3, <2>4, <2>5, <2>6 DEF TypeOK
<1>3. NeverOverspent
  BY DEF Init, Opening, NeverOverspent
<1>4. CopiesBalanced
  BY DEF Init, CopiesBalanced
<1>5. MembersCharged
  BY DEF Init, MembersCharged, Requests
<1> QED
  BY <1>2, <1>3, <1>4, <1>5 DEF IInv

LEMMA TriggerKeeps ==
  ASSUME IInv, NEW r \in Requests, Trigger(r)
  PROVE  IInv'
<1> USE DEF IInv
<1>1. request' \in [Requests -> Progress]
  BY DEF Trigger, Charge, Refuse, Bypass, Dispatch, DispatchFails, Release, RequestDies,
    Reach, TypeOK, Progress
<1>2. UNCHANGED <<confirm, edit, confirms, grants, opening>> /\ drift' \in BOOLEAN
  BY DEF Trigger, Charge, Refuse, Bypass, Dispatch, DispatchFails, Release, RequestDies,
    Uncharged, TypeOK
<1>3. tenant' \in Tenant /\ Balanced(tenant)'
  <2>1. CASE Charge(r)
    <3>1. Renewed(tenant) \in Tenant
      BY RenewedBalanced DEF TypeOK, NeverOverspent, Balanced
    <3>2. Renewed(tenant).consumed < Renewed(tenant).granted
      BY <2>1 DEF Charge, AllowanceLeft
    <3>3. tenant' = [Renewed(tenant) EXCEPT !.consumed = Renewed(tenant).consumed + 1]
      BY <2>1, <3>1 DEF Charge, Tenant
    <3> HIDE DEF IInv
    <3> QED
      BY <3>1, <3>2, <3>3 DEF Tenant, Balanced
  <2>2. CASE Release(r)
    BY <2>2 DEF Release, TypeOK, NeverOverspent, Tenant, Balanced
  <2>3. CASE UNCHANGED tenant
    BY <2>3 DEF TypeOK, NeverOverspent, Balanced
  <2> QED
    BY <2>1, <2>2, <2>3 DEF Trigger, Refuse, Bypass, Dispatch, DispatchFails, RequestDies
<1>4. MembersCharged'
  BY EntitlementAssumption DEF Trigger, Charge, Refuse, Bypass, Dispatch, DispatchFails,
    Release, RequestDies, Reach, MembersCharged, Requests, TypeOK
<1> QED
  BY <1>1, <1>2, <1>3, <1>4 DEF TypeOK, NeverOverspent, CopiesBalanced, Balanced

LEMMA ConfirmationKeeps ==
  ASSUME IInv, NEW c \in Confirmers, Confirmation(c)
  PROVE  IInv'
<1> USE DEF IInv
<1>0. UNCHANGED <<request, edit, opening>> /\ drift' \in BOOLEAN
  BY DEF Confirmation, ConfirmRead, ConfirmWrite, Grant, ConfirmDies, WriteBack, TypeOK
<1>1. CASE ConfirmRead(c)
  <2>1. PICK p \in Payments :
          /\ confirms[p] < MaxConfirms
          /\ confirms' = [confirms EXCEPT ![p] = confirms[p] + 1]
          /\ confirm' = [confirm EXCEPT ![c] = [at |-> "read", pay |-> p, copy |-> tenant]]
    BY <1>1 DEF ConfirmRead, TypeOK
  <2>2. UNCHANGED <<tenant, grants>>
    BY <1>1 DEF ConfirmRead
  <2>3. confirms' \in [Payments -> 0..MaxConfirms]
    BY <2>1, EntitlementAssumption DEF TypeOK
  <2> QED
    BY <1>0, <2>1, <2>2, <2>3 DEF TypeOK, NeverOverspent, CopiesBalanced, Balanced,
    MembersCharged
<1>2. CASE ConfirmWrite(c)
  <2>1. confirm[c] \in [at : {"read"}, pay : Payments, copy : Tenant]
    BY <1>2 DEF ConfirmWrite, TypeOK
  <2>2. tenant' \in Tenant /\ Balanced(tenant')
    BY <1>2, <2>1 DEF ConfirmWrite, WriteBack, CopiesBalanced
  <2> QED
    BY <1>0, <1>2, <2>1, <2>2 DEF ConfirmWrite, WriteBack, TypeOK, NeverOverspent, CopiesBalanced, Balanced,
    MembersCharged
<1>3. CASE Grant(c)
  <2>1. confirm[c] \in [at : {"paid"}, pay : Payments]
    BY <1>3 DEF Grant, TypeOK
  <2>2. tenant' \in Tenant /\ Balanced(tenant')
    BY <1>3, <2>1, GrantedBalanced DEF Grant, TypeOK, NeverOverspent, Balanced
  <2>3. grants' \in [Payments -> Nat]
    BY <1>3, <2>1 DEF Grant, TypeOK
  <2> QED
    BY <1>0, <1>3, <2>2, <2>3 DEF Grant, TypeOK, NeverOverspent, CopiesBalanced, Balanced,
    MembersCharged
<1>4. CASE ConfirmDies(c)
  BY <1>0, <1>4 DEF ConfirmDies, TypeOK, NeverOverspent, CopiesBalanced, Balanced,
    MembersCharged
<1> QED
  BY <1>1, <1>2, <1>3, <1>4 DEF Confirmation

LEMMA EditKeeps ==
  ASSUME IInv, NEW w \in Writers, Edit(w)
  PROVE  IInv'
<1> USE DEF IInv
<1>0. UNCHANGED <<request, confirm, confirms, grants, opening>> /\ drift' \in BOOLEAN
  BY DEF Edit, EditRead, EditWrite, EditDies, WriteBack, TypeOK
<1>1. CASE EditRead(w)
  BY <1>0, <1>1 DEF EditRead, TypeOK, NeverOverspent, CopiesBalanced, Balanced,
    MembersCharged
<1>2. CASE EditWrite(w)
  <2>1. tenant' \in Tenant /\ Balanced(tenant')
    BY <1>2, EditedBalanced DEF EditWrite, WriteBack, CopiesBalanced
  <2> QED
    BY <1>0, <1>2, <2>1 DEF EditWrite, WriteBack, TypeOK, NeverOverspent, CopiesBalanced, Balanced,
    MembersCharged
<1>3. CASE EditDies(w)
  BY <1>0, <1>3 DEF EditDies, TypeOK, NeverOverspent, CopiesBalanced, Balanced,
    MembersCharged
<1> QED
  BY <1>1, <1>2, <1>3 DEF Edit

LEMMA StepKeeps == IInv /\ [Next]_vars => IInv'
<1> SUFFICES ASSUME IInv, [Next]_vars PROVE IInv'
  OBVIOUS
<1>1. CASE PeriodEnds
  BY <1>1 DEF PeriodEnds, IInv, TypeOK, Tenant, Periods, NeverOverspent, CopiesBalanced,
    MembersCharged
<1>2. CASE UNCHANGED vars
  BY <1>2 DEF vars, IInv, TypeOK, NeverOverspent, CopiesBalanced,
    MembersCharged
<1> QED
  BY <1>1, <1>2, TriggerKeeps, ConfirmationKeeps, EditKeeps DEF Next

LEMMA Invariance == Spec => []IInv
BY InitInv, StepKeeps, PTL DEF Spec

(* Every variable keeps its type; a tenant's counters stay natural numbers *)
(* (the release is clamped).                                               *)
THEOREM TypeCorrect == Spec => []TypeOK
<1>1. IInv => TypeOK
  BY DEF IInv
<1> QED
  BY Invariance, <1>1, PTL

(* No tenant ever has more reports consumed than granted, whatever         *)
(* handlers interleave, write stale copies back or die.                    *)
THEOREM ConsumedWithinGranted == Spec => []NeverOverspent
<1>1. IInv => NeverOverspent
  BY DEF IInv
<1> QED
  BY Invariance, <1>1, PTL

-----------------------------------------------------------------------------
(* Only a payment's grant, a charge's renewal, and blind writes touch what *)
(* was granted; the action properties follow from one case analysis.       *)
LEMMA TenantChanges ==
  ASSUME IInv, [Next]_vars
  PROVE  \/ BlindWrite
         \/ UNCHANGED tenant
         \/ \E r \in Requests : Charge(r) \/ Release(r)
         \/ PeriodEnds
         \/ \E c \in Confirmers : Grant(c)
<1>1. CASE \E r \in Requests : Trigger(r)
  BY <1>1 DEF Trigger, Refuse, Bypass, Dispatch, DispatchFails, RequestDies
<1>2. CASE \E c \in Confirmers : Confirmation(c)
  BY <1>2 DEF Confirmation, ConfirmRead, ConfirmWrite, ConfirmDies, WriteBack,
    BlindWrite
<1>3. CASE \E w \in Writers : Edit(w)
  BY <1>3 DEF Edit, EditRead, EditWrite, EditDies, WriteBack, BlindWrite
<1> QED
  BY <1>1, <1>2, <1>3 DEF Next, vars

LEMMA GrantAdds ==
  ASSUME TypeOK, NEW c \in Confirmers, Grant(c)
  PROVE  /\ tenant'.granted >= tenant.granted
         /\ tenant'.consumed = tenant.consumed
         /\ tenant'.status = tenant.status
<1>1. confirm[c].pay \in Payments
  BY DEF Grant, TypeOK
<1>2. tenant' = Granted(tenant, confirm[c].pay) /\ tenant \in Tenant
  BY DEF Grant, TypeOK
<1> QED
  BY <1>1, <1>2, EntitlementAssumption DEF Granted, Tenant

LEMMA ChargeAdds ==
  ASSUME TypeOK, NEW r \in Requests, Charge(r)
  PROVE  /\ tenant'.granted < tenant.granted => NewPeriod
         /\ tenant'.consumed = tenant.consumed + 1
         /\ tenant'.status = tenant.status
<1>1. tenant \in Tenant /\ tenant' = [Renewed(tenant) EXCEPT !.consumed = @ + 1]
  BY DEF Charge, TypeOK
<1>2. CASE tenant.source = "pro" /\ tenant.period = "lapsed"
  <2>1. Renewed(tenant) =
          [tenant EXCEPT !.granted = tenant.consumed + MonthlyReports, !.period = "running"]
    BY <1>2 DEF Renewed
  <2> QED
    BY <1>1, <1>2, <2>1 DEF Tenant, NewPeriod
<1>3. CASE ~(tenant.source = "pro" /\ tenant.period = "lapsed")
  <2>1. Renewed(tenant) = tenant
    BY <1>3 DEF Renewed
  <2> QED
    BY <1>1, <2>1 DEF Tenant
<1> QED
  BY <1>2, <1>3

LEMMA ReleaseTakesOne ==
  ASSUME TypeOK, NEW r \in Requests, Release(r)
  PROVE  /\ tenant'.granted = tenant.granted
         /\ tenant'.status = tenant.status
         /\ tenant'.consumed < tenant.consumed => tenant'.consumed = tenant.consumed - 1
         /\ request[r] = "releasing" /\ request'[r] = "released"
BY DEF Release, Reach, TypeOK, Tenant

LEMMA PeriodOnly ==
  ASSUME TypeOK, PeriodEnds
  PROVE  /\ tenant'.granted = tenant.granted
         /\ tenant'.consumed = tenant.consumed
         /\ tenant'.status = tenant.status
BY DEF PeriodEnds, TypeOK, Tenant

(* A purchase never takes an allowance away: only a stale copy written     *)
(* back, or the start of a new Pro period, lowers what was granted.        *)
THEOREM AllowancesKept == Spec => AllowanceLostOnlyBlindly
<1>1. IInv /\ [Next]_vars
        => [tenant'.granted < tenant.granted => BlindWrite \/ NewPeriod]_vars
  <2> SUFFICES ASSUME IInv, [Next]_vars, tenant'.granted < tenant.granted
               PROVE  BlindWrite \/ NewPeriod
    OBVIOUS
  <2>1. TypeOK /\ tenant.granted \in Nat
    BY DEF IInv, TypeOK, Tenant
  <2>2. ASSUME NEW c \in Confirmers, Grant(c) PROVE FALSE
    <3>1. tenant'.granted \in Nat
      BY StepKeeps DEF IInv, TypeOK, Tenant
    <3> QED
      BY <2>1, <2>2, <3>1, GrantAdds
  <2> QED
    BY <2>1, <2>2, TenantChanges, ChargeAdds, ReleaseTakesOne, PeriodOnly
<1> QED
  BY Invariance, <1>1, PTL DEF Spec, AllowanceLostOnlyBlindly

(* Neither a payment nor a check lifts a suspension.                       *)
THEOREM SuspensionsKept == Spec => SuspensionLostOnlyBlindly
<1>1. IInv /\ [Next]_vars
        => [tenant.status = "suspended" /\ tenant'.status = "active" => BlindWrite]_vars
  <2> SUFFICES ASSUME IInv, [Next]_vars, tenant.status = "suspended", tenant'.status = "active"
               PROVE  BlindWrite
    OBVIOUS
  <2> QED
    BY TenantChanges, ChargeAdds, GrantAdds, ReleaseTakesOne, PeriodOnly DEF IInv
<1> QED
  BY Invariance, <1>1, PTL DEF Spec, SuspensionLostOnlyBlindly

-----------------------------------------------------------------------------
(* The stored count against the requests that paid for it.                 *)

LEMMA PayingFinite == IsFiniteSet(Paying) /\ Cardinality(Paying) \in Nat
<1>1. Paying \subseteq Customers
  BY DEF Paying
<1>2. IsFiniteSet(Paying)
  BY <1>1, EntitlementAssumption, FS_Subset
<1> QED
  BY <1>2, FS_CardinalityType

LEMMA ChargesStep ==
  ASSUME IInv, IInv', ChargesAccounted, [Next]_vars
  PROVE  ChargesAccounted'
<1> USE DEF IInv
<1>0. opening \in Nat /\ tenant.consumed \in Nat /\ tenant'.consumed \in Nat
  BY DEF TypeOK, Tenant
<1>a. ASSUME tenant'.consumed = tenant.consumed, Paying' = Paying,
             UNCHANGED <<opening, drift>>
      PROVE  ChargesAccounted'
  BY <1>a DEF ChargesAccounted, ChargesExact
<1>1. ASSUME NEW r \in Requests, Charge(r) PROVE ChargesAccounted'
  <2>1. Paying' = Paying \cup {r} /\ r \notin Paying
    BY <1>1 DEF Charge, Reach, Paying, Requests, TypeOK
  <2>2. Cardinality(Paying') = Cardinality(Paying) + 1
    BY <2>1, PayingFinite, FS_AddElement
  <2>3. tenant'.consumed = tenant.consumed + 1 /\ UNCHANGED <<opening, drift>>
    BY <1>1, ChargeAdds DEF Charge
  <2> QED
    BY <1>0, <2>2, <2>3, PayingFinite DEF ChargesAccounted, ChargesExact
<1>2. ASSUME NEW r \in Customers, Release(r) PROVE ChargesAccounted'
  <2>1. Paying' = Paying \ {r} /\ r \in Paying
    BY <1>2 DEF Release, Reach, Paying, Requests, TypeOK
  <2>2. Cardinality(Paying') = Cardinality(Paying) - 1 /\ Cardinality(Paying') \in Nat
    <3>1. IsFiniteSet(Paying \ {r}) /\ Cardinality(Paying \ {r}) = Cardinality(Paying) - 1
      BY <2>1, PayingFinite, FS_RemoveElement
    <3> QED
      BY <2>1, <3>1, FS_CardinalityType
  <2>3. opening' = opening /\ drift' = drift
    BY <1>2, EntitlementAssumption DEF Release, Uncharged, TypeOK
  <2>4. SUFFICES ASSUME ~drift PROVE ChargesExact'
    BY <2>3 DEF ChargesAccounted
  <2>5. tenant.consumed = opening + Cardinality(Paying) /\ tenant.consumed > 0
    BY <1>0, <2>2, <2>4, PayingFinite DEF ChargesAccounted, ChargesExact
  <2>6. tenant'.consumed = tenant.consumed - 1
    BY <1>2, <2>5 DEF Release, TypeOK, Tenant
  <2> QED
    BY <1>0, <2>2, <2>3, <2>5, <2>6, PayingFinite DEF ChargesExact
<1>3. ASSUME NEW r \in Admins, Release(r) PROVE ChargesAccounted'
  <2>1. Paying' = Paying
    BY <1>3, EntitlementAssumption DEF Release, Reach, Paying, Requests, TypeOK
  <2>2. tenant.consumed = 0 => tenant'.consumed = tenant.consumed
    BY <1>3 DEF Release, TypeOK, Tenant
  <2>3. opening' = opening /\ (~drift' => ~drift /\ ~(tenant.consumed > 0))
    BY <1>3 DEF Release, Uncharged, TypeOK
  <2> QED
    BY <1>0, <2>1, <2>2, <2>3 DEF ChargesAccounted, ChargesExact
<1>4. ASSUME NEW r \in Requests,
             Refuse(r) \/ Bypass(r) \/ Dispatch(r) \/ DispatchFails(r) \/ RequestDies(r)
      PROVE  ChargesAccounted'
  <2>1. UNCHANGED <<tenant, opening, drift>>
    BY <1>4 DEF Refuse, Bypass, Dispatch, DispatchFails, RequestDies
  <2>2. PICK p \in {"refused", "bypassed", "dispatched", "releasing", "lost"} :
          request' = [request EXCEPT ![r] = p]
    BY <1>4 DEF Refuse, Bypass, Dispatch, DispatchFails, RequestDies, Reach
  <2>3. r \in Customers =>
          /\ p \in {"refused", "bypassed"} => request[r] = "new" /\ p = "refused"
          /\ p \notin {"refused", "bypassed"} => request[r] \in {"charged", "releasing"}
    BY <1>4, <2>2, EntitlementAssumption DEF Refuse, Bypass, Dispatch, DispatchFails,
      RequestDies, Reach, MembersCharged, TypeOK
  <2>4. Paying' = Paying
    BY <2>2, <2>3 DEF Paying, Requests, TypeOK
  <2> QED
    BY <1>a, <2>1, <2>4
<1>5. CASE PeriodEnds
  BY <1>a, <1>5, PeriodOnly DEF PeriodEnds, Paying
<1>6. ASSUME NEW copy \in Tenant, WriteBack(copy), UNCHANGED <<request, opening>>
      PROVE  ChargesAccounted'
  BY <1>6 DEF WriteBack, ChargesAccounted, ChargesExact, Paying, TypeOK
<1>7. ASSUME NEW c \in Confirmers, Confirmation(c) PROVE ChargesAccounted'
  <2>1. UNCHANGED <<request, opening>>
    BY <1>7 DEF Confirmation, ConfirmRead, ConfirmWrite, Grant, ConfirmDies
  <2>2. Paying' = Paying
    BY <2>1 DEF Paying
  <2>3. CASE ConfirmWrite(c)
    BY <1>6, <2>1, <2>3 DEF ConfirmWrite, TypeOK
  <2>4. CASE Grant(c)
    BY <1>a, <2>1, <2>2, <2>4, GrantAdds DEF Grant
  <2>5. CASE ConfirmRead(c) \/ ConfirmDies(c)
    BY <1>a, <2>1, <2>2, <2>5 DEF ConfirmRead, ConfirmDies
  <2> QED
    BY <1>7, <2>3, <2>4, <2>5 DEF Confirmation
<1>8. ASSUME NEW w \in Writers, Edit(w) PROVE ChargesAccounted'
  <2>1. UNCHANGED <<request, opening>>
    BY <1>8 DEF Edit, EditRead, EditWrite, EditDies
  <2>2. CASE EditWrite(w)
    BY <1>6, <2>1, <2>2, EditedBalanced DEF EditWrite, CopiesBalanced
  <2>3. CASE EditRead(w) \/ EditDies(w)
    BY <1>a, <2>1, <2>3 DEF EditRead, EditDies, Paying
  <2> QED
    BY <1>8, <2>2, <2>3 DEF Edit
<1>9. CASE UNCHANGED vars
  BY <1>a, <1>9 DEF vars, Paying
<1> QED
  BY <1>1, <1>2, <1>3, <1>4, <1>5, <1>7, <1>8, <1>9 DEF Next, Trigger, Requests

(* The stored count is exactly the requests charged and not refunded, as   *)
(* long as nobody wrote back a copy with another count and no platform     *)
(* admin was refunded: no interleaving of charges, renewals, refunds and   *)
(* grants spends an allowance twice or gives one back twice.               *)
THEOREM ChargesAreAccounted == Spec => []ChargesAccounted
<1>1. Init => ChargesAccounted
  <2> SUFFICES ASSUME Init PROVE ChargesAccounted
    OBVIOUS
  <2>1. Paying = {}
    BY DEF Init, Paying, Requests
  <2>2. opening = tenant.consumed /\ opening \in Nat
    BY InitInv DEF Init, IInv, TypeOK
  <2> QED
    BY <2>1, <2>2, FS_EmptySet DEF ChargesAccounted, ChargesExact
<1>2. IInv /\ IInv' /\ ChargesAccounted /\ [Next]_vars => ChargesAccounted'
  BY ChargesStep
<1> QED
  BY <1>1, <1>2, Invariance, PTL DEF Spec
(* With customers only, any number of them, nothing drifts: what breaks    *)
(* the count is a platform admin's refund or a copy written back.          *)
OnlyCustomers == Admins = {} /\ Confirmers = {} /\ Writers = {}

THEOREM CustomersChargedExactly == OnlyCustomers /\ Spec => []ChargesExact
<1> SUFFICES ASSUME OnlyCustomers PROVE Spec => []ChargesExact
  OBVIOUS
<1>1. Init => ~drift
  BY DEF Init
<1>2. ~drift /\ [Next]_vars => ~drift'
  BY DEF OnlyCustomers, Next, Requests, Trigger, Charge, Refuse, Bypass, Dispatch,
    DispatchFails, Release, RequestDies, Uncharged, PeriodEnds, vars
<1>3. ~drift /\ ChargesAccounted => ChargesExact
  BY DEF ChargesAccounted
<1> QED
  BY <1>1, <1>2, <1>3, ChargesAreAccounted, PTL DEF Spec

-----------------------------------------------------------------------------
(* The grants made for a payment against its confirmations.                *)

(* The confirmations of p that may still grant.                            *)
Holders(p) == {c \in Confirmers : confirm[c].at # "idle" /\ confirm[c].pay = p}

HoldersCounted ==
  \A p \in Payments :
    /\ IsFiniteSet(Holders(p))
    /\ grants[p] + Cardinality(Holders(p)) <= confirms[p]

(* A step after which fewer may grant p, and which neither grants nor      *)
(* confirms it.                                                            *)
LEMMA FewerHolders ==
  ASSUME IInv, IInv', NEW p \in Payments, IsFiniteSet(Holders(p)),
         grants[p] + Cardinality(Holders(p)) <= confirms[p],
         Holders(p)' \subseteq Holders(p), grants'[p] = grants[p], confirms'[p] = confirms[p]
  PROVE  IsFiniteSet(Holders(p)') /\ grants'[p] + Cardinality(Holders(p)') <= confirms'[p]
<1> DEFINE H == Holders(p)'
<1>1. IsFiniteSet(H) /\ Cardinality(H) <= Cardinality(Holders(p))
  BY FS_Subset
<1>2. Cardinality(H) \in Nat /\ Cardinality(Holders(p)) \in Nat
  BY <1>1, FS_CardinalityType
<1>3. grants[p] \in Nat /\ confirms[p] \in Nat
  BY EntitlementAssumption DEF IInv, TypeOK
<1> HIDE DEF H
<1>4. grants[p] + Cardinality(H) <= confirms[p]
  BY <1>1, <1>2, <1>3
<1> QED
  BY <1>1, <1>4 DEF H

LEMMA HoldersStep ==
  ASSUME IInv, IInv', HoldersCounted, [Next]_vars
  PROVE  HoldersCounted'
<1> SUFFICES ASSUME NEW p \in Payments
             PROVE  /\ IsFiniteSet(Holders(p)')
                    /\ grants'[p] + Cardinality(Holders(p)') <= confirms'[p]
  BY DEF HoldersCounted
<1> USE DEF IInv
<1>0. /\ IsFiniteSet(Holders(p)) /\ Cardinality(Holders(p)) \in Nat
      /\ grants[p] + Cardinality(Holders(p)) <= confirms[p]
      /\ grants[p] \in Nat /\ confirms[p] \in Nat
  BY EntitlementAssumption, FS_CardinalityType DEF HoldersCounted, TypeOK
<1>1. CASE UNCHANGED <<confirm, grants, confirms>>
  <2>1. Holders(p)' = Holders(p)
    BY <1>1 DEF Holders
  <2> QED
    BY <1>0, <1>1, <2>1, FewerHolders
<1>2. ASSUME NEW c \in Confirmers, ConfirmRead(c)
      PROVE  /\ IsFiniteSet(Holders(p)')
             /\ grants'[p] + Cardinality(Holders(p)') <= confirms'[p]
  <2>1. PICK q \in Payments :
          /\ confirms' = [confirms EXCEPT ![q] = confirms[q] + 1]
          /\ confirm' = [confirm EXCEPT ![c] = [at |-> "read", pay |-> q, copy |-> tenant]]
    BY <1>2 DEF ConfirmRead, TypeOK
  <2>2. grants' = grants /\ c \notin Holders(p)
    BY <1>2 DEF ConfirmRead, Holders
  <2>3. CASE p = q
    <3>1. Holders(p)' = Holders(p) \cup {c}
      BY <1>2, <2>1, <2>3 DEF Holders, TypeOK
    <3>2. /\ IsFiniteSet(Holders(p) \cup {c})
          /\ Cardinality(Holders(p) \cup {c}) = Cardinality(Holders(p)) + 1
      BY <1>0, <2>2, FS_AddElement
    <3>3. confirms'[p] = confirms[p] + 1
      BY <2>1, <2>3 DEF TypeOK
    <3>4. grants[p] + Cardinality(Holders(p) \cup {c}) <= confirms[p] + 1
      BY <1>0, <3>2
    <3> QED
      BY <2>2, <3>1, <3>2, <3>3, <3>4
  <2>4. CASE p # q
    <3>1. Holders(p)' \subseteq Holders(p)
      BY <2>1, <2>4 DEF Holders, TypeOK
    <3>2. confirms'[p] = confirms[p]
      BY <2>1, <2>4 DEF TypeOK
    <3> QED
      BY <1>0, <2>2, <3>1, <3>2, FewerHolders
  <2> QED
    BY <2>3, <2>4
<1>3. ASSUME NEW c \in Confirmers, ConfirmWrite(c) \/ ConfirmDies(c)
      PROVE  /\ IsFiniteSet(Holders(p)')
             /\ grants'[p] + Cardinality(Holders(p)') <= confirms'[p]
  <2>1. UNCHANGED <<grants, confirms>>
    BY <1>3 DEF ConfirmWrite, ConfirmDies
  <2>2. Holders(p)' \subseteq Holders(p)
    BY <1>3 DEF ConfirmWrite, ConfirmDies, Holders, TypeOK
  <2> QED
    BY <1>0, <2>1, <2>2, FewerHolders
<1>4. ASSUME NEW c \in Confirmers, Grant(c)
      PROVE  /\ IsFiniteSet(Holders(p)')
             /\ grants'[p] + Cardinality(Holders(p)') <= confirms'[p]
  <2>1. /\ confirm[c].at = "paid" /\ confirm[c].pay \in Payments
        /\ confirm' = [confirm EXCEPT ![c] = [at |-> "idle"]]
        /\ grants' = [grants EXCEPT ![confirm[c].pay] = grants[confirm[c].pay] + 1]
        /\ confirms' = confirms
    BY <1>4 DEF Grant, TypeOK
  <2>2. Holders(p)' = Holders(p) \ {c}
    BY <2>1 DEF Holders, TypeOK
  <2>3. CASE confirm[c].pay = p
    <3>1. c \in Holders(p)
      BY <2>1, <2>3 DEF Holders
    <3>2. /\ IsFiniteSet(Holders(p) \ {c})
          /\ Cardinality(Holders(p) \ {c}) = Cardinality(Holders(p)) - 1
      BY <1>0, <3>1, FS_RemoveElement
    <3>3. grants'[p] = grants[p] + 1
      BY <2>1, <2>3 DEF TypeOK
    <3>4. (grants[p] + 1) + Cardinality(Holders(p) \ {c}) <= confirms[p]
      BY <1>0, <3>2
    <3> QED
      BY <2>1, <2>2, <3>2, <3>3, <3>4
  <2>4. CASE confirm[c].pay # p
    <3>1. grants'[p] = grants[p]
      BY <2>1, <2>4 DEF TypeOK
    <3> QED
      BY <1>0, <2>1, <2>2, <3>1, FewerHolders
  <2> QED
    BY <2>3, <2>4
<1>5. CASE \E r \in Requests : Trigger(r)
  BY <1>1, <1>5 DEF Trigger, Charge, Refuse, Bypass, Dispatch, DispatchFails, Release,
    RequestDies
<1>6. CASE \E w \in Writers : Edit(w)
  BY <1>1, <1>6 DEF Edit, EditRead, EditWrite, EditDies
<1>7. CASE PeriodEnds \/ UNCHANGED vars
  BY <1>1, <1>7 DEF PeriodEnds, vars
<1> QED
  BY <1>2, <1>3, <1>4, <1>5, <1>6, <1>7 DEF Next, Confirmation

(* However many confirmations of a payment overlap, die or are repeated,   *)
(* each makes at most one grant.                                           *)
GrantsWithinConfirmations == \A p \in Payments : grants[p] <= confirms[p]

THEOREM GrantsAreOfConfirmations == Spec => []GrantsWithinConfirmations
<1>1. Init => HoldersCounted
  <2> SUFFICES ASSUME Init, NEW p \in Payments
               PROVE  IsFiniteSet(Holders(p)) /\ grants[p] + Cardinality(Holders(p)) <= confirms[p]
    BY DEF HoldersCounted
  <2>1. Holders(p) = {}
    BY DEF Init, Holders
  <2>2. grants[p] = 0 /\ confirms[p] = 0
    BY DEF Init
  <2> QED
    BY <2>1, <2>2, FS_EmptySet
<1>2. IInv /\ IInv' /\ HoldersCounted /\ [Next]_vars => HoldersCounted'
  BY HoldersStep
<1>3. IInv /\ HoldersCounted => GrantsWithinConfirmations
  <2> SUFFICES ASSUME IInv, HoldersCounted, NEW p \in Payments
               PROVE  grants[p] <= confirms[p]
    BY DEF GrantsWithinConfirmations
  <2>1. Cardinality(Holders(p)) \in Nat /\ grants[p] + Cardinality(Holders(p)) <= confirms[p]
    BY FS_CardinalityType DEF HoldersCounted
  <2>2. grants[p] \in Nat /\ confirms[p] \in Nat
    BY EntitlementAssumption DEF IInv, TypeOK
  <2> QED
    BY <2>1, <2>2
<1> QED
  BY <1>1, <1>2, <1>3, Invariance, PTL DEF Spec

=============================================================================
