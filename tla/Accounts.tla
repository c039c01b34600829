------------------------------ MODULE Accounts ------------------------------
(***************************************************************************)
(* The members of one workspace, kept twice: as Firebase accounts, whose   *)
(* claims every request is judged by, and as records of the roster.        *)
(*                                                                         *)
(* Signing up and inviting create both, removing a member deletes both, an *)
(* operator's change of role writes both, each in two or three calls that  *)
(* can raise (with or without having had their effect) or be cut short:    *)
(* torn notes the members that met that, or whom two requests touched at   *)
(* once.                                                                   *)
(*                                                                         *)
(* The audit row each handler ends with changes nothing here and is left   *)
(* out.  (The row of a signup is never written: the handler builds it from *)
(* a field its request does not have, and answers 500.)                    *)
(***************************************************************************)
EXTENDS Naturals, FiniteSets

CONSTANTS
  Emails,
  Uids,       \* Firebase uids, a fresh one for each account
  Handlers,   \* requests that may be in flight
  Roles,      \* the VALID_ROLES a run hands out
  Nobody      \* no account, no record, no session, no role

Managing == {"owner", "admin"}      \* require_role of invite and remove

Account == [email : Emails, role : Roles \cup {Nobody}, disabled : BOOLEAN]

ASSUME AccountsAssumption ==
  /\ "owner" \in Roles
  /\ Nobody \notin Roles \cup Managing \cup Uids \cup Account

VARIABLES
  account,    \* per uid: e-mail, role claim and disabled flag, or Nobody
  roster,     \* per uid: the role in the record, or Nobody
  session,    \* per uid: the role in its ID token, or Nobody
  usedUids,
  handler,    \* per request: what is left to do, for whom, by whom
  torn

accountVars == <<account, roster, session, usedUids, handler, torn>>

Waits   == [next |-> "nothing", uid |-> Nobody, role |-> Nobody, by |-> Nobody]
Steps   == {"set_claims", "store_record", "delete_account", "strike_record",
            "store_role", "follow_claims"}

AccountsTypeOK ==
  /\ account \in [Uids -> Account \cup {Nobody}]
  /\ roster \in [Uids -> Roles \cup {Nobody}]
  /\ session \in [Uids -> Roles \cup {Nobody}]
  /\ usedUids \subseteq Uids /\ torn \subseteq Uids
  /\ handler \in [Handlers -> {Waits} \cup
       [next : Steps, uid : Uids, role : Roles \cup {Nobody}, by : Uids \cup {Nobody}]]

AccountsInit ==
  /\ account = [u \in Uids |-> Nobody]
  /\ roster = [u \in Uids |-> Nobody]
  /\ session = [u \in Uids |-> Nobody]
  /\ usedUids = {} /\ torn = {}
  /\ handler = [h \in Handlers |-> Waits]

Free(h) == handler[h] = Waits

Goes(h, step, u, role, by) ==
  handler' = [handler EXCEPT ![h] = [next |-> step, uid |-> u, role |-> role, by |-> by]]

Proceeds(h, step) == handler' = [handler EXCEPT ![h].next = step]
Finishes(h)       == handler' = [handler EXCEPT ![h] = Waits]

Torn(h) == torn' = torn \cup {handler[h].uid}

(* Two requests about one member at once.                                  *)
Joins(h, u) ==
  torn' = IF \E g \in Handlers \ {h} : handler[g].uid = u THEN torn \cup {u} ELSE torn

RoleClaim(u) == IF account[u] = Nobody THEN Nobody ELSE account[u].role

MayManage(by) == session[by] \in Managing

-----------------------------------------------------------------------------
(* Sessions: an ID token carries the claims of the moment it was minted,   *)
(* and stays good until it expires.                                        *)
MintToken(u) ==
  /\ RoleClaim(u) # Nobody /\ ~account[u].disabled
  /\ session' = [session EXCEPT ![u] = account[u].role]
  /\ UNCHANGED <<account, roster, usedUids, handler, torn>>

TokenExpires(u) ==
  /\ session[u] # Nobody
  /\ session' = [session EXCEPT ![u] = Nobody]
  /\ UNCHANGED <<account, roster, usedUids, handler, torn>>

-----------------------------------------------------------------------------
(* Signup (the workspace's first member) and invitation: create_user, 409  *)
(* when the address has an account; the claims; the record.                *)
NewUid == CHOOSE u \in Uids : u \notin usedUids

CreateAccount(h, email, role) ==
  /\ Free(h) /\ usedUids # Uids
  /\ \A v \in Uids : account[v] # Nobody => account[v].email # email
  /\ account' = [account EXCEPT ![NewUid] = [email |-> email, role |-> Nobody, disabled |-> FALSE]]
  /\ usedUids' = usedUids \cup {NewUid}
  /\ Goes(h, "set_claims", NewUid, role, Nobody)
  /\ UNCHANGED <<roster, session, torn>>

Signup(h, email) == usedUids = {} /\ CreateAccount(h, email, "owner")

Invite(h, email, role, by) == MayManage(by) /\ CreateAccount(h, email, role)

Claimed(h) ==
  IF account[handler[h].uid] = Nobody THEN account
  ELSE [account EXCEPT ![handler[h].uid].role = handler[h].role]

SetClaims(h) ==
  /\ handler[h].next = "set_claims"
  /\ \/ account' = Claimed(h) /\ Proceeds(h, "store_record") /\ UNCHANGED torn
     \/ account' \in {account, Claimed(h)} /\ Finishes(h) /\ Torn(h)
  /\ UNCHANGED <<roster, session, usedUids>>

Enrolled(h) == [roster EXCEPT ![handler[h].uid] = handler[h].role]

StoreRecord(h) ==
  /\ handler[h].next = "store_record"
  /\ \/ roster' = Enrolled(h) /\ UNCHANGED torn
     \/ roster' \in {roster, Enrolled(h)} /\ Torn(h)
  /\ Finishes(h)
  /\ UNCHANGED <<account, session, usedUids>>

-----------------------------------------------------------------------------
(* Removing a member: not oneself; the record, 404 if there is none; the   *)
(* account, which must carry the workspace's claims; the record again.     *)

(* Fault: the check that nobody removes themselves is missing.             *)
Anyone(u, by) == TRUE

Another(u, by) == u # by

Remove(h, u, by) ==
  /\ Free(h) /\ MayManage(by) /\ Another(u, by)
  /\ roster[u] # Nobody
  /\ Goes(h, "delete_account", u, Nobody, by)
  /\ Joins(h, u)
  /\ UNCHANGED <<account, roster, session, usedUids>>

DeleteAccount(h) ==
  LET u == handler[h].uid
      gone == [account EXCEPT ![u] = Nobody]
  IN /\ handler[h].next = "delete_account"
     /\ \/ /\ RoleClaim(u) # Nobody
           /\ account' = gone /\ Proceeds(h, "strike_record") /\ UNCHANGED torn
        \/ /\ RoleClaim(u) = Nobody                             \* raises, or 404
           /\ Finishes(h) /\ UNCHANGED <<account, torn>>
        \/ account' \in {account, gone} /\ Finishes(h) /\ Torn(h)
     /\ UNCHANGED <<roster, session, usedUids>>

StrikeRecord(h) ==
  LET u == handler[h].uid
      struck == [roster EXCEPT ![u] = Nobody]
  IN /\ handler[h].next = "strike_record"
     /\ \/ roster' = struck /\ UNCHANGED torn
        \/ roster' \in {roster, struck} /\ Torn(h)
     /\ Finishes(h)
     /\ UNCHANGED <<account, session, usedUids>>

-----------------------------------------------------------------------------
(* An operator changes a role: the whole record with the new role, then    *)
(* the claims, whose failure is swallowed.                                 *)
ChangeRole(h, u, role) ==
  /\ Free(h) /\ roster[u] \notin {Nobody, role}
  /\ Goes(h, "store_role", u, role, Nobody)
  /\ Joins(h, u)
  /\ UNCHANGED <<account, roster, session, usedUids>>

(* Fault: the claims are left to the next sign-in.                         *)
NoClaims == "nothing"

AfterRole == "follow_claims"

StoreRole(h) ==
  /\ handler[h].next = "store_role"
  /\ \/ /\ roster' = Enrolled(h)
        /\ IF AfterRole = "nothing" THEN Finishes(h) ELSE Proceeds(h, AfterRole)
        /\ UNCHANGED torn
     \/ roster' \in {roster, Enrolled(h)} /\ Finishes(h) /\ Torn(h)
  /\ UNCHANGED <<account, session, usedUids>>

FollowClaims(h) ==
  /\ handler[h].next = "follow_claims"
  /\ \/ account' = Claimed(h) /\ UNCHANGED torn
     \/ account' \in {account, Claimed(h)} /\ Torn(h)
  /\ Finishes(h)
  /\ UNCHANGED <<roster, session, usedUids>>

(* An operator disables or restores an account; refresh tokens go, the ID  *)
(* token stays good.  An account that is gone makes it raise.              *)
ChangeStatus(u, disabled) ==
  /\ roster[u] # Nobody /\ account[u] # Nobody
  /\ account[u].disabled # disabled
  /\ account' = [account EXCEPT ![u].disabled = disabled]
  /\ UNCHANGED <<roster, session, usedUids, handler, torn>>

HandlerDies(h) ==
  /\ ~Free(h)
  /\ Finishes(h) /\ Torn(h)
  /\ UNCHANGED <<account, roster, session, usedUids>>

HandlerStep(h) ==
  \/ \E email \in Emails :
       \/ Signup(h, email)
       \/ \E role \in Roles, by \in Uids : Invite(h, email, role, by)
  \/ \E u, by \in Uids : Remove(h, u, by)
  \/ \E u \in Uids, role \in Roles : ChangeRole(h, u, role)
  \/ SetClaims(h) \/ StoreRecord(h) \/ DeleteAccount(h) \/ StrikeRecord(h)
  \/ StoreRole(h) \/ FollowClaims(h) \/ HandlerDies(h)

AccountsNext ==
  \/ \E u \in Uids :
       \/ MintToken(u) \/ TokenExpires(u)
       \/ \E disabled \in BOOLEAN : ChangeStatus(u, disabled)
  \/ \E h \in Handlers : HandlerStep(h)

AccountsSpec == AccountsInit /\ [][AccountsNext]_accountVars

-----------------------------------------------------------------------------
(* The two stores agree about every member that no request is about, none  *)
(* was cut short and no two met: of one role in both, or in neither.       *)
StoresAgree ==
  \A u \in Uids :
    u \notin torn /\ (\A h \in Handlers : handler[h].uid # u)
      => /\ roster[u] = Nobody <=> account[u] = Nobody
         /\ roster[u] = RoleClaim(u)

(* A workspace loses its last manager only to an operator, or to a removal *)
(* by somebody whose token has outlived their own role.                    *)
ManagersNow == {u \in Uids : RoleClaim(u) \in Managing}

LastManagerKept ==
  [][ManagersNow # {} /\ ManagersNow' = {} =>
       \E h \in Handlers :
         \/ handler[h].next = "follow_claims"
         \/ handler[h].next = "delete_account" /\ handler[h].by \notin ManagersNow]_accountVars

=============================================================================
