--------------------------- MODULE Access_proofs ---------------------------
(***************************************************************************)
(* Theorems about authentication and suspension, for any number of         *)
(* threads, managers and keys and any lifetime of a cache entry.           *)
(***************************************************************************)
EXTENDS Access, TLAPS

(* Nothing bears a time that is still to come.                             *)
TimesPast ==
  /\ standing.since <= now
  /\ entry.stamp <= now
  /\ \A r \in Requests : request[r].start <= now

(* What was read of the store, in a thread's hands or in the cache, was    *)
(* true at its stamp: if it is wrong now, the store changed since.         *)
ReadingsTrueOnce ==
  /\ entry.filled /\ entry.value # standing.value => standing.since >= entry.stamp
  /\ \A r \in Requests :
       request[r].at = "read" /\ request[r].told # standing.value
         => standing.since >= request[r].start

(* A key being made is nobody else's, and what is about to be written on   *)
(* the trail has been stored.                                              *)
KeysInTransit ==
  /\ \A m, n \in Managers :
       change[m].op = "create" => /\ key[change[m].key] = "none"
                                  /\ change[n].key = change[m].key => n = m
  /\ \A m \in Managers :
       change[m].op = "audit_revoke" => key[change[m].key] = "revoked"

AccessInv ==
  /\ AccessTypeOK /\ TimesPast /\ ReadingsTrueOnce /\ AnswersFresh
  /\ KeysInTransit /\ KeysAccounted

-----------------------------------------------------------------------------
LEMMA AccessInitOK == AccessInit => AccessInv
  BY AccessAssumption
  DEF AccessInit, AccessInv, AccessTypeOK, TimesPast, ReadingsTrueOnce, AnswersFresh,
      KeysInTransit, KeysAccounted, NobodyAsks, NoChange, Standings, KeyStates, KeyRow

(* Time only makes the past longer.                                        *)
LEMMA TimePassesOK ==
  ASSUME AccessInv, TimePasses
  PROVE  AccessInv'
  BY DEF TimePasses, AccessInv, AccessTypeOK, TimesPast, ReadingsTrueOnce, AnswersFresh,
         KeysInTransit, KeysAccounted

(* A request's step leaves the tenant, the trail and the changes alone,    *)
(* and the keys too: recording a use is no change of the key's state.      *)
LEMMA RequestFrame ==
  ASSUME NEW r \in Requests, RequestStep(r)
  PROVE  UNCHANGED <<now, standing, key, change, held, keyTrail>>
  BY DEF RequestStep, PresentKey, TouchKey, SignIn, LookInCache, ReadStanding, ReadFails,
         FillCache, RequestEnds, Touched

(* A thread moves on to a state that says nothing false.                   *)
ThreadState ==
  [at : {"idle", "known", "signed_in", "miss", "read", "allowed", "refused", "blip"},
   key : Keys \cup {NoKey}, start : Nat, told : Standings]

Truthful(t) ==
  /\ t.start <= now
  /\ t.at = "read" /\ t.told # standing.value => standing.since >= t.start
  /\ t.at \in {"allowed", "refused"} /\ t.told # standing.value
       => t.start - standing.since < TTL

LEMMA ThreadMoves ==
  ASSUME AccessInv, NEW r \in Requests, NEW t \in ThreadState, Truthful(t),
         request' = [request EXCEPT ![r] = t],
         UNCHANGED <<now, standing, entry, key, change, held, keyTrail>>
  PROVE  AccessInv'
<1>1. AccessTypeOK'
  BY DEF AccessInv, AccessTypeOK, ThreadState
<1>2. \A q \in Requests : request'[q] = IF q = r THEN t ELSE request[q]
  BY DEF AccessInv, AccessTypeOK
<1>3. TimesPast' /\ ReadingsTrueOnce' /\ AnswersFresh'
  BY <1>2 DEF AccessInv, TimesPast, ReadingsTrueOnce, AnswersFresh, Truthful
<1>4. KeysInTransit' /\ KeysAccounted'
  BY DEF AccessInv, KeysInTransit, KeysAccounted
<1> QED
  BY <1>1, <1>3, <1>4 DEF AccessInv

LEMMA RequestStepOK ==
  ASSUME AccessInv, NEW r \in Requests, RequestStep(r)
  PROVE  AccessInv'
<1>1. UNCHANGED <<now, standing, key, change, held, keyTrail>>
  BY RequestFrame
<1> DEFINE old == request[r]
<1>2. /\ old \in ThreadState
      /\ old.start <= now
      /\ old.at = "read" /\ old.told # standing.value => standing.since >= old.start
  BY DEF AccessInv, AccessTypeOK, TimesPast, ReadingsTrueOnce, ThreadState
<1>3. now \in Nat /\ standing.value \in Standings /\ standing.since \in Nat
  BY DEF AccessInv, AccessTypeOK
<1>4. ASSUME NEW k \in Keys, PresentKey(r, k)
      PROVE  AccessInv'
  <2> DEFINE t == [at |-> "known", key |-> k, start |-> 0, told |-> "active"]
  <2>1. request' = [request EXCEPT ![r] = t] /\ UNCHANGED entry
    BY <1>4 DEF PresentKey
  <2>2. t \in ThreadState /\ Truthful(t)
    BY <1>3 DEF ThreadState, Truthful, Standings
  <2> QED
    BY <1>1, <2>1, <2>2, ThreadMoves
<1>5. CASE TouchKey(r)
  <2> DEFINE t == [old EXCEPT !.at = "signed_in", !.key = NoKey]
  <2>1. request' = [request EXCEPT ![r] = t] /\ UNCHANGED entry
    BY <1>5 DEF TouchKey, AccessInv, AccessTypeOK
  <2>2. t \in ThreadState /\ Truthful(t)
    BY <1>2 DEF ThreadState, Truthful
  <2> QED
    BY <1>1, <2>1, <2>2, ThreadMoves
<1>6. CASE SignIn(r)
  <2> DEFINE t == [old EXCEPT !.at = "signed_in"]
  <2>1. request' = [request EXCEPT ![r] = t] /\ UNCHANGED entry
    BY <1>6 DEF SignIn, AccessInv, AccessTypeOK
  <2>2. t \in ThreadState /\ Truthful(t)
    BY <1>2 DEF ThreadState, Truthful
  <2> QED
    BY <1>1, <2>1, <2>2, ThreadMoves
<1>7. CASE LookInCache(r)
  <2>1. CASE entry.filled /\ now - entry.stamp < TTL
    <3> DEFINE t == [at |-> Answer(entry.value), key |-> NoKey, start |-> now,
                     told |-> entry.value]
    <3>1. request' = [request EXCEPT ![r] = t] /\ UNCHANGED entry
      BY <1>7, <2>1 DEF LookInCache
    <3>2. t \in ThreadState /\ t.at # "read"
      BY <1>3 DEF ThreadState, Answer, AccessInv, AccessTypeOK
    <3>3. Truthful(t)
      BY <1>3, <2>1, <3>2, AccessAssumption
      DEF Truthful, AccessInv, AccessTypeOK, ReadingsTrueOnce
    <3> QED
      BY <1>1, <3>1, <3>2, <3>3, ThreadMoves
  <2>2. CASE ~(entry.filled /\ now - entry.stamp < TTL)
    <3> DEFINE t == [at |-> "miss", key |-> NoKey, start |-> now, told |-> "active"]
    <3>1. request' = [request EXCEPT ![r] = t] /\ UNCHANGED entry
      BY <1>7, <2>2 DEF LookInCache
    <3>2. t \in ThreadState /\ Truthful(t)
      BY <1>3 DEF ThreadState, Truthful, Standings
    <3> QED
      BY <1>1, <3>1, <3>2, ThreadMoves
  <2> QED
    BY <2>1, <2>2
<1>8. CASE ReadStanding(r)
  <2> DEFINE t == [old EXCEPT !.at = "read", !.told = standing.value]
  <2>1. request' = [request EXCEPT ![r] = t] /\ UNCHANGED entry
    BY <1>8 DEF ReadStanding, AccessInv, AccessTypeOK
  <2>2. t \in ThreadState /\ Truthful(t)
    BY <1>2, <1>3 DEF ThreadState, Truthful
  <2> QED
    BY <1>1, <2>1, <2>2, ThreadMoves
<1>9. CASE ReadFails(r)
  <2> DEFINE t == [old EXCEPT !.at = "blip", !.start = 0]
  <2>1. request' = [request EXCEPT ![r] = t] /\ UNCHANGED entry
    BY <1>9 DEF ReadFails, AccessInv, AccessTypeOK
  <2>2. t \in ThreadState /\ t.at = "blip" /\ t.start = 0
    BY <1>2 DEF ThreadState
  <2>3. Truthful(t)
    BY <1>3, <2>2 DEF Truthful
  <2> QED
    BY <1>1, <2>1, <2>2, <2>3, ThreadMoves
<1>10. CASE FillCache(r)
  <2> DEFINE t == [old EXCEPT !.at = Answer(old.told)]
  <2>1. /\ old.at = "read"
        /\ entry' = [filled |-> TRUE, stamp |-> old.start, value |-> old.told]
        /\ request' = [request EXCEPT ![r] = t]
    BY <1>10 DEF FillCache, Filled, AccessInv, AccessTypeOK
  <2>2. t \in ThreadState /\ t.at \in {"allowed", "refused"}
    BY <1>2 DEF ThreadState, Answer
  <2>3. t.told # standing.value => t.start - standing.since < TTL
    BY <1>2, <1>3, <2>1, AccessAssumption DEF ThreadState
  <2>4. AccessTypeOK'
    BY <1>1, <1>2, <2>1, <2>2 DEF AccessInv, AccessTypeOK, ThreadState
  <2>5. \A q \in Requests : request'[q] = IF q = r THEN t ELSE request[q]
    BY <2>1 DEF AccessInv, AccessTypeOK
  <2>6. t.start = old.start /\ t.told = old.told
    BY <1>2 DEF ThreadState
  <2> HIDE DEF t
  <2>7. TimesPast'
    BY <1>1, <1>2, <2>1, <2>5, <2>6 DEF AccessInv, TimesPast
  <2>8. ReadingsTrueOnce'
    BY <1>1, <1>2, <2>1, <2>2, <2>5, <2>6 DEF AccessInv, ReadingsTrueOnce
  <2>9. AnswersFresh'
    BY <1>1, <2>3, <2>5 DEF AccessInv, AnswersFresh
  <2>10. KeysInTransit' /\ KeysAccounted'
    BY <1>1 DEF AccessInv, KeysInTransit, KeysAccounted
  <2> QED
    BY <2>4, <2>7, <2>8, <2>9, <2>10 DEF AccessInv
<1>11. CASE RequestEnds(r)
  <2>1. request' = [request EXCEPT ![r] = NobodyAsks] /\ UNCHANGED entry
    BY <1>11 DEF RequestEnds
  <2>2. NobodyAsks \in ThreadState
    BY DEF ThreadState, NobodyAsks, Standings
  <2>3. Truthful(NobodyAsks)
    BY <1>3 DEF Truthful, NobodyAsks
  <2> QED
    BY <1>1, <2>1, <2>2, <2>3, ThreadMoves
<1> QED
  BY <1>4, <1>5, <1>6, <1>7, <1>8, <1>9, <1>10, <1>11 DEF RequestStep

(* A new tick of the record makes every older reading excusable.           *)
LEMMA StoreTenantOK ==
  ASSUME AccessInv, NEW m \in Managers, StoreTenant(m)
  PROVE  AccessInv'
<1>1. KeysInTransit'
  <2>1. /\ UNCHANGED key
        /\ \A n \in Managers : change'[n] = IF n = m THEN NoChange ELSE change[n]
    BY DEF StoreTenant, AccessInv, AccessTypeOK
  <2> QED
    BY <2>1, AccessAssumption DEF AccessInv, AccessTypeOK, KeysInTransit, NoChange
<1>2. KeysAccounted'
  BY DEF StoreTenant, AccessInv, KeysAccounted
<1>3. standing' \in {standing, [value |-> change[m].copy, since |-> now]}
  BY DEF StoreTenant
<1> QED
  BY <1>1, <1>2, <1>3, AccessAssumption
  DEF StoreTenant, AccessInv, AccessTypeOK, TimesPast, ReadingsTrueOnce, AnswersFresh,
      NoChange, Standings

LEMMA BeginsOK ==
  ASSUME AccessInv, NEW m \in Managers,
         NEW op \in {"create", "revoke", "edit", "switch"}, NEW k \in Keys \cup {NoKey},
         NEW copy \in Standings, Begins(m, op, k, copy),
         op \in {"create", "revoke"} => k \in Keys,
         op = "create" => key[k] = "none" /\ \A n \in Managers : change[n].key # k,
         op = "revoke" => key[k] # "none",
         op \in {"edit", "switch"} => k = NoKey
  PROVE  AccessInv'
<1>1. /\ change' = [change EXCEPT ![m] = [op |-> op, key |-> k, copy |-> copy]]
      /\ UNCHANGED <<now, standing, entry, key, request, held, keyTrail>>
  BY DEF Begins
<1>2. KeysInTransit'
  <2>1. /\ \A n \in Managers : n # m => change'[n] = change[n]
        /\ change'[m] = [op |-> op, key |-> k, copy |-> copy]
    BY <1>1 DEF AccessInv, AccessTypeOK
  <2>2. op = "create" => \A n \in Managers : n # m => change'[n].key # k
    BY <2>1
  <2>3. \A n \in Managers : n # m /\ change[n].op = "create" => change[n].key # k
    BY AccessAssumption DEF AccessInv, AccessTypeOK, KeysInTransit
  <2> QED
    BY <1>1, <2>1, <2>2, <2>3 DEF AccessInv, KeysInTransit
<1>3. AccessTypeOK'
  BY <1>1 DEF AccessInv, AccessTypeOK
<1> QED
  BY <1>1, <1>2, <1>3
  DEF AccessInv, TimesPast, ReadingsTrueOnce, AnswersFresh, KeysAccounted

LEMMA KeyStepOK ==
  ASSUME AccessInv, NEW m \in Managers, StoreKey(m) \/ AuditKey(m) \/ ChangeDies(m)
  PROVE  AccessInv'
<1>1. UNCHANGED <<now, standing, entry, request>>
  BY DEF StoreKey, AuditKey, ChangeDies
<1>2. TimesPast' /\ ReadingsTrueOnce' /\ AnswersFresh'
  BY <1>1 DEF AccessInv, TimesPast, ReadingsTrueOnce, AnswersFresh
<1> DEFINE k == change[m].key
<1>3. ASSUME NEW after \in {"audit_create", "audit_revoke"},
             NEW state \in {"live", "revoked"},
             k \in Keys,
             key' = [key EXCEPT ![k] = state],
             change' = [change EXCEPT ![m].op = after],
             UNCHANGED <<held, keyTrail>>,
             state = "live" => change[m].op = "create" /\ after = "audit_create",
             state = "revoked" => change[m].op = "revoke" /\ after = "audit_revoke"
      PROVE  AccessInv'
  <2>1. AccessTypeOK'
    BY <1>1, <1>3 DEF AccessInv, AccessTypeOK, KeyStates
  <2>2. /\ \A n \in Managers : n # m => change'[n] = change[n]
        /\ change'[m].op = after /\ change'[m].key = k
        /\ \A q \in Keys : key'[q] = IF q = k THEN state ELSE key[q]
    BY <1>3 DEF AccessInv, AccessTypeOK
  <2>3. \A n \in Managers : n # m /\ change[n].op = "create" => change[n].key # k
    BY <1>3 DEF AccessInv, AccessTypeOK, KeysInTransit
  <2>4. state = "live" => key[k] = "none"
    BY <1>3 DEF AccessInv, KeysInTransit
  <2>5. KeysInTransit'
    BY <1>3, <2>2, <2>3, <2>4 DEF AccessInv, AccessTypeOK, KeysInTransit
  <2>6. KeysAccounted'
    BY <1>3, <2>2, <2>4 DEF AccessInv, KeysAccounted
  <2> QED
    BY <1>2, <2>1, <2>5, <2>6 DEF AccessInv
<1>4. CASE StoreKey(m) /\ change[m].op = "create"
  BY <1>3, <1>4 DEF StoreKey, AccessInv, AccessTypeOK
<1>5. CASE StoreKey(m) /\ change[m].op = "revoke"
  BY <1>3, <1>5 DEF StoreKey, AccessInv, AccessTypeOK
<1>6. ASSUME change' = [change EXCEPT ![m] = NoChange], UNCHANGED key,
             held' \subseteq Keys, keyTrail' \subseteq KeyRow, KeysAccounted'
      PROVE  AccessInv'
  <2>1. AccessTypeOK'
    BY <1>1, <1>6 DEF AccessInv, AccessTypeOK, NoChange, Standings
  <2>2. \A n \in Managers : change'[n] = IF n = m THEN NoChange ELSE change[n]
    BY <1>6 DEF AccessInv, AccessTypeOK
  <2>3. KeysInTransit'
    BY <1>6, <2>2, AccessAssumption DEF AccessInv, AccessTypeOK, KeysInTransit, NoChange
  <2> QED
    BY <1>2, <1>6, <2>1, <2>3 DEF AccessInv
<1>7. CASE AuditKey(m) /\ change[m].op = "audit_create"
  <2>1. k \in Keys
    BY <1>7 DEF AccessInv, AccessTypeOK
  <2> QED
    BY <1>6, <1>7, <2>1 DEF AuditKey, AccessInv, AccessTypeOK, KeysAccounted, KeyRow
<1>8. CASE AuditKey(m) /\ change[m].op = "audit_revoke"
  <2>1. k \in Keys /\ key[k] = "revoked"
    BY <1>8 DEF AccessInv, AccessTypeOK, KeysInTransit
  <2> QED
    BY <1>6, <1>8, <2>1 DEF AuditKey, AccessInv, AccessTypeOK, KeysAccounted, KeyRow
<1>9. CASE ChangeDies(m)
  BY <1>6, <1>9 DEF ChangeDies, AccessInv, AccessTypeOK, KeysAccounted
<1> QED
  BY <1>4, <1>5, <1>7, <1>8, <1>9 DEF StoreKey, AuditKey

LEMMA ChangeStepOK ==
  ASSUME AccessInv, NEW m \in Managers, ChangeStep(m)
  PROVE  AccessInv'
<1>1. ASSUME NEW k \in Keys, MintKey(m, k) \/ ReadKey(m, k)
      PROVE  AccessInv'
  BY <1>1, BeginsOK DEF MintKey, ReadKey, Standings
<1>2. ASSUME NEW value \in Standings, ReadForSwitch(m, value)
      PROVE  AccessInv'
  BY <1>2, BeginsOK DEF ReadForSwitch
<1>3. CASE ReadForEdit(m)
  <2>1. standing.value \in Standings
    BY DEF AccessInv, AccessTypeOK
  <2> QED
    BY <1>3, <2>1, BeginsOK DEF ReadForEdit
<1>4. CASE StoreKey(m) \/ AuditKey(m) \/ ChangeDies(m)
  BY <1>4, KeyStepOK
<1>5. CASE StoreTenant(m)
  BY <1>5, StoreTenantOK
<1> QED
  BY <1>1, <1>2, <1>3, <1>4, <1>5 DEF ChangeStep

-----------------------------------------------------------------------------
(* The inductive invariant holds throughout.                               *)
THEOREM AccessInvariant == AccessSpec => []AccessInv
<1>1. AccessInv /\ [AccessNext]_accessVars => AccessInv'
  <2> SUFFICES ASSUME AccessInv, [AccessNext]_accessVars
               PROVE  AccessInv'
    OBVIOUS
  <2>1. CASE TimePasses
    BY <2>1, TimePassesOK
  <2>2. ASSUME NEW r \in Requests, RequestStep(r)
        PROVE  AccessInv'
    BY <2>2, RequestStepOK
  <2>3. ASSUME NEW m \in Managers, ChangeStep(m)
        PROVE  AccessInv'
    BY <2>3, ChangeStepOK
  <2>4. CASE UNCHANGED accessVars
    BY <2>4
    DEF accessVars, AccessInv, AccessTypeOK, TimesPast, ReadingsTrueOnce, AnswersFresh,
        KeysInTransit, KeysAccounted
  <2> QED
    BY <2>1, <2>2, <2>3, <2>4 DEF AccessNext
<1> QED
  BY <1>1, AccessInitOK, PTL DEF AccessSpec

(* The state of authentication is well-typed.                              *)
THEOREM AccessTyped == AccessSpec => []AccessTypeOK
<1>1. AccessInv => AccessTypeOK
  BY DEF AccessInv
<1> QED
  BY <1>1, AccessInvariant, PTL

(* A wrong answer about suspension is younger than a cache entry may get,  *)
(* keys are handed out audited and rows of revocation are true.            *)
THEOREM AccessIsSound == AccessSpec => []AccessSound
<1>1. AccessInv => AccessSound
  BY DEF AccessInv, AccessSound
<1> QED
  BY <1>1, AccessInvariant, PTL

(* Revocation is for good and suspension ends by a stored "active" only.   *)
THEOREM RefusalsAreFinal == AccessSpec => RefusalsStick
<1> DEFINE Sticks ==
      /\ \A k \in Keys : key[k] = "revoked" => key'[k] = "revoked"
      /\ standing.value = "suspended" /\ standing'.value = "active" =>
           \E m \in Managers : /\ change[m].op \in {"switch", "edit"}
                               /\ change[m].copy = "active"
<1>1. AccessInv /\ [AccessNext]_accessVars => [Sticks]_accessVars
  <2> SUFFICES ASSUME AccessInv, AccessNext PROVE Sticks
    OBVIOUS
  <2>1. CASE TimePasses
    BY <2>1 DEF TimePasses
  <2>2. ASSUME NEW r \in Requests, RequestStep(r)
        PROVE  Sticks
    BY <2>2, RequestFrame
  <2>3. ASSUME NEW m \in Managers, ChangeStep(m)
        PROVE  Sticks
    <3>1. CASE StoreTenant(m)
      BY <3>1 DEF StoreTenant
    <3>2. CASE StoreKey(m)
      BY <3>2 DEF StoreKey, AccessInv, AccessTypeOK, KeysInTransit
    <3>3. CASE UNCHANGED <<key, standing>>
      BY <3>3
    <3> QED
      BY <2>3, <3>1, <3>2, <3>3
      DEF ChangeStep, MintKey, ReadKey, ReadForSwitch, ReadForEdit, Begins, AuditKey,
          ChangeDies
  <2> QED
    BY <2>1, <2>2, <2>3 DEF AccessNext
<1> QED
  BY <1>1, AccessInvariant, PTL DEF AccessSpec, RefusalsStick

=============================================================================
