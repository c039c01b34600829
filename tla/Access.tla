------------------------------ MODULE Access ------------------------------
(***************************************************************************)
(* Who is let in: every request is authenticated, by an API key or by a    *)
(* sign-in, and then refused if its workspace is suspended.  Suspension is *)
(* read through a cache of the gateway process, one entry here for the one *)
(* workspace; the processes share nothing but the store.                   *)
(*                                                                         *)
(* Keys are made and revoked by the workspace, suspension is an operator's *)
(* change.  Both store whole records, and so does every other write of the *)
(* tenant record (settings, jurisdiction): the editors.                    *)
(***************************************************************************)
EXTENDS Integers

CONSTANTS
  Requests,   \* threads of one gateway process
  Managers,   \* members and operators who change keys, suspension, settings
  Keys,       \* key ids (uuid4)
  TTL,        \* CG_TENANT_STATUS_TTL_SECONDS
  LastTick,   \* bound: the last tick a run looks at
  NoKey

Standings == {"active", "suspended"}

ASSUME AccessAssumption ==
  TTL \in Nat \ {0} /\ LastTick \in Nat /\ NoKey \notin Keys

VARIABLES
  now,       \* time.monotonic() of the process
  standing,  \* the tenant record's status, and the tick it became that
  entry,     \* the process's cache entry: its stamp and what it holds
  key,       \* per id: "none", "live" or "revoked"
  request,   \* per thread: where it is, the time it read, what it was told
  change,    \* per manager: the request in flight
  held,      \* keys whose plaintext was returned
  keyTrail   \* the api_key.* rows of the audit log

accessVars == <<now, standing, entry, key, request, change, held, keyTrail>>

KeyStates == {"none", "live", "revoked"}
NobodyAsks == [at |-> "idle", key |-> NoKey, start |-> 0, told |-> "active"]
NoChange   == [op |-> "none", key |-> NoKey, copy |-> "active"]
KeyRow     == [key : Keys, event : {"created", "revoked"}]

AccessTypeOK ==
  /\ now \in Nat
  /\ standing \in [value : Standings, since : Nat]
  /\ entry \in [filled : BOOLEAN, stamp : Nat, value : Standings]
  /\ key \in [Keys -> KeyStates]
  /\ request \in [Requests ->
       [at : {"idle", "known", "signed_in", "miss", "read", "allowed", "refused", "blip"},
        key : Keys \cup {NoKey}, start : Nat, told : Standings]]
  /\ change \in [Managers ->
       [op : {"none", "create", "audit_create", "revoke", "audit_revoke", "edit", "switch"},
        key : Keys \cup {NoKey}, copy : Standings]]
  /\ \A m \in Managers :
       change[m].op \in {"create", "audit_create", "revoke", "audit_revoke"}
         => change[m].key \in Keys
  /\ held \subseteq Keys
  /\ keyTrail \subseteq KeyRow

AccessInit ==
  /\ now = 0
  /\ standing = [value |-> "active", since |-> 0]
  /\ entry = [filled |-> FALSE, stamp |-> 0, value |-> "active"]
  /\ key = [k \in Keys |-> "none"]
  /\ request = [r \in Requests |-> NobodyAsks]
  /\ change = [m \in Managers |-> NoChange]
  /\ held = {}
  /\ keyTrail = {}

TimePasses ==
  /\ now < LastTick
  /\ now' = now + 1
  /\ UNCHANGED <<standing, entry, key, request, change, held, keyTrail>>

-----------------------------------------------------------------------------
(* Authentication.  A key is looked up by its hash (a revoked one is no    *)
(* key: 401) and its last use recorded, a field update of the record that  *)
(* leaves the revocation alone.                                            *)
PresentKey(r, k) ==
  /\ request[r].at = "idle" /\ k \in held /\ key[k] = "live"
  /\ request' = [request EXCEPT ![r] =
                   [at |-> "known", key |-> k, start |-> 0, told |-> "active"]]
  /\ UNCHANGED <<now, standing, entry, key, change, held, keyTrail>>

(* Fault: recording the last use stores the record that was looked up.     *)
WholeRecord(k) == [key EXCEPT ![k] = "live"]

Touched(k) == key

TouchKey(r) ==
  /\ request[r].at = "known"
  /\ key' = Touched(request[r].key)
  /\ request' = [request EXCEPT ![r] = [@ EXCEPT !.at = "signed_in", !.key = NoKey]]
  /\ UNCHANGED <<now, standing, entry, change, held, keyTrail>>

SignIn(r) ==
  /\ request[r].at = "idle"
  /\ request' = [request EXCEPT ![r].at = "signed_in"]
  /\ UNCHANGED <<now, standing, entry, key, change, held, keyTrail>>

(* The suspension check: the clock, then the cache, then the store, then   *)
(* the cache again, with the time read before the store was.               *)
Answer(value) == IF value = "active" THEN "allowed" ELSE "refused"

LookInCache(r) ==
  LET fresh == entry.filled /\ now - entry.stamp < TTL
      told  == IF fresh THEN entry.value ELSE "active"
      at    == IF fresh THEN Answer(entry.value) ELSE "miss"
  IN /\ request[r].at = "signed_in"
     /\ request' = [request EXCEPT ![r] =
                      [at |-> at, key |-> NoKey, start |-> now, told |-> told]]
     /\ UNCHANGED <<now, standing, entry, key, change, held, keyTrail>>

ReadStanding(r) ==
  /\ request[r].at = "miss"
  /\ request' = [request EXCEPT ![r].at = "read", ![r].told = standing.value]
  /\ UNCHANGED <<now, standing, entry, key, change, held, keyTrail>>

(* The store cannot be read, or has no such tenant: the check raises and   *)
(* the request is let through ("a blip must not lock every customer out"). *)
ReadFails(r) ==
  /\ request[r].at = "miss"
  /\ request' = [request EXCEPT ![r] = [@ EXCEPT !.at = "blip", !.start = 0]]
  /\ UNCHANGED <<now, standing, entry, key, change, held, keyTrail>>

(* Fault: the entry is stamped with the time it is written.                *)
StampedLate(r) == [filled |-> TRUE, stamp |-> now, value |-> request[r].told]

Filled(r) == [filled |-> TRUE, stamp |-> request[r].start, value |-> request[r].told]

FillCache(r) ==
  /\ request[r].at = "read"
  /\ entry' = Filled(r)
  /\ request' = [request EXCEPT ![r].at = Answer(request[r].told)]
  /\ UNCHANGED <<now, standing, key, change, held, keyTrail>>

RequestEnds(r) ==
  /\ request[r].at \in {"allowed", "refused", "blip"}
  /\ request' = [request EXCEPT ![r] = NobodyAsks]
  /\ UNCHANGED <<now, standing, entry, key, change, held, keyTrail>>

-----------------------------------------------------------------------------
(* Keys: a new one is stored, audited and only then returned.  Revoking    *)
(* reads the record and stores it revoked.                                 *)
Begins(m, op, k, copy) ==
  /\ change[m] = NoChange
  /\ change' = [change EXCEPT ![m] = [op |-> op, key |-> k, copy |-> copy]]
  /\ UNCHANGED <<now, standing, entry, key, request, held, keyTrail>>

MintKey(m, k) ==
  /\ key[k] = "none" /\ \A n \in Managers : change[n].key # k
  /\ Begins(m, "create", k, "active")

ReadKey(m, k) == key[k] # "none" /\ Begins(m, "revoke", k, "active")

StoreKey(m) ==
  /\ change[m].op \in {"create", "revoke"}
  /\ IF change[m].op = "create"
     THEN /\ key' = [key EXCEPT ![change[m].key] = "live"]
          /\ change' = [change EXCEPT ![m].op = "audit_create"]
     ELSE /\ key' = [key EXCEPT ![change[m].key] = "revoked"]
          /\ change' = [change EXCEPT ![m].op = "audit_revoke"]
  /\ UNCHANGED <<now, standing, entry, request, held, keyTrail>>

AuditKey(m) ==
  /\ change[m].op \in {"audit_create", "audit_revoke"}
  /\ IF change[m].op = "audit_create"
     THEN /\ keyTrail' = keyTrail \cup {[key |-> change[m].key, event |-> "created"]}
          /\ held' = held \cup {change[m].key}
     ELSE /\ keyTrail' = keyTrail \cup {[key |-> change[m].key, event |-> "revoked"]}
          /\ UNCHANGED held
  /\ change' = [change EXCEPT ![m] = NoChange]
  /\ UNCHANGED <<now, standing, entry, key, request>>

(* The tenant record: an operator's switch (a no-op when it is already     *)
(* so), a member's edit of something else.  Both store all of what they    *)
(* read, with their change.                                                *)
ReadForSwitch(m, value) ==
  standing.value # value /\ Begins(m, "switch", NoKey, value)

ReadForEdit(m) == Begins(m, "edit", NoKey, standing.value)

StoreTenant(m) ==
  /\ change[m].op \in {"switch", "edit"}
  /\ standing' = IF standing.value = change[m].copy THEN standing
                 ELSE [value |-> change[m].copy, since |-> now]
  /\ change' = [change EXCEPT ![m] = NoChange]
  /\ UNCHANGED <<now, entry, key, request, held, keyTrail>>

(* A manager's request raises or dies between two steps.                   *)
ChangeDies(m) ==
  /\ change[m] # NoChange
  /\ change' = [change EXCEPT ![m] = NoChange]
  /\ UNCHANGED <<now, standing, entry, key, request, held, keyTrail>>

RequestStep(r) ==
  \/ \E k \in Keys : PresentKey(r, k)
  \/ TouchKey(r) \/ SignIn(r) \/ LookInCache(r) \/ ReadStanding(r) \/ ReadFails(r)
  \/ FillCache(r) \/ RequestEnds(r)

ChangeStep(m) ==
  \/ \E k \in Keys : MintKey(m, k) \/ ReadKey(m, k)
  \/ \E value \in Standings : ReadForSwitch(m, value)
  \/ ReadForEdit(m) \/ StoreKey(m) \/ AuditKey(m) \/ StoreTenant(m) \/ ChangeDies(m)

AccessNext ==
  \/ TimePasses
  \/ \E r \in Requests : RequestStep(r)
  \/ \E m \in Managers : ChangeStep(m)

AccessSpec == AccessInit /\ [][AccessNext]_accessVars

-----------------------------------------------------------------------------
(* "A suspension takes up to TTL seconds to bite", and a restored access   *)
(* as long to return: a request that is told something else than what the  *)
(* store says was told so less than TTL after the store changed, counted   *)
(* to the moment its check began.                                          *)
AnswersFresh ==
  \A r \in Requests :
    request[r].at \in {"allowed", "refused"} /\ request[r].told # standing.value
      => request[r].start - standing.since < TTL

(* A key is in somebody's hands only once its creation is on the trail,    *)
(* and what the trail calls revoked is revoked.                            *)
KeysAccounted ==
  /\ \A k \in held : [key |-> k, event |-> "created"] \in keyTrail
  /\ \A k \in Keys : [key |-> k, event |-> "revoked"] \in keyTrail => key[k] = "revoked"

AccessSound == AnswersFresh /\ KeysAccounted

(* A revoked key stays revoked, whatever is recorded of its use meanwhile; *)
(* a suspension is lifted by an operator, or by the edit of a member whose *)
(* copy is older than the suspension.                                      *)
RefusalsStick ==
  [][/\ \A k \in Keys : key[k] = "revoked" => key'[k] = "revoked"
     /\ standing.value = "suspended" /\ standing'.value = "active" =>
          \E m \in Managers : /\ change[m].op \in {"switch", "edit"}
                              /\ change[m].copy = "active"]_accessVars

=============================================================================
