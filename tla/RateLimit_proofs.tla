-------------------------- MODULE RateLimit_proofs --------------------------
(***************************************************************************)
(* Theorems about the limiters, for every number of callers, every size of *)
(* bucket and every cooldown.                                              *)
(***************************************************************************)
EXTENDS RateLimit, TLAPS

(* Nobody has read a time that is still to come, and what waits for the    *)
(* lock has read one of the observer's period.                             *)
ReadingsSound ==
  /\ \A c \in Callers : caller[c].read <= clock
  /\ bucket.last <= clock
  /\ window.from <= clock
  /\ window.spent <= spent
  /\ \A c \in Waiting : window.from <= caller[c].read

(* Tokens are never overdrawn: at worst a stale reading took back a refill *)
(* that the time gone by since will give again.                            *)
NeverOverdrawn == bucket.tokens + (clock - bucket.last) >= 0

(* What the period has handed out is paid for by the burst and by the      *)
(* refills up to the bucket's last reading.                                *)
PaidFor ==
  \/ spent = window.spent
  \/ /\ bucket.known
     /\ bucket.tokens + (spent - window.spent)
          <= Capacity + (bucket.last - window.from)

LimitInv ==
  LimitTypeOK /\ ReadingsSound /\ NeverOverdrawn /\ PaidFor /\ NeverLockedOut

-----------------------------------------------------------------------------
(* A cooldown is a time, and never longer than the longest one.            *)
LEMMA CooldownBound ==
  ASSUME NEW over \in Int
  PROVE  Cooldown(over) \in Nat /\ Cooldown(over) <= Longest
  BY RateLimitAssumption DEF Cooldown

(* Rounding up to whole seconds covers what is missing.                    *)
LEMMA RoundingUp ==
  ASSUME NEW missing \in Nat
  PROVE  /\ (missing \div Second + 1) * Second \in Nat
         /\ (missing \div Second + 1) * Second >= missing
<1>1. Second \in Nat /\ Second > 0
  BY RateLimitAssumption
<1> QED
  BY <1>1

(* A refill gives at most the elapsed time and never more than the burst.  *)
LEMMA RefillBound ==
  ASSUME LimitTypeOK, NEW now \in Nat
  PROVE  /\ Refilled(now) \in Int
         /\ Refilled(now) <= Capacity
         /\ bucket.known => \/ Refilled(now) = Capacity
                            \/ Refilled(now) = bucket.tokens + (now - bucket.last)
         /\ bucket.known => Refilled(now) <= bucket.tokens + (now - bucket.last)
         /\ ~bucket.known => Refilled(now) = Capacity
  BY RateLimitAssumption DEF Refilled, Smaller, LimitTypeOK

(* A move of one thread.                                                   *)
LEMMA MoveFacts ==
  ASSUME LimitTypeOK, NEW c \in Callers, NEW place \in Places \ Timed, Move(c, place)
  PROVE  /\ caller' \in [Callers -> [at : Places, read : Nat]]
         /\ \A d \in Callers : caller'[d].read \in {caller[d].read, 0}
         /\ Waiting' \subseteq Waiting
         /\ \A d \in Waiting' : caller'[d].read = caller[d].read
  BY DEF LimitTypeOK, Move, Waiting, Places, Timed

LEMMA LimitInitOK == LimitInit => LimitInv
  BY RateLimitAssumption
  DEF LimitInit, NoFailures, LimitInv, LimitTypeOK, ReadingsSound, NeverOverdrawn, PaidFor,
      NeverLockedOut, Waiting, Places

LEMMA TickOK ==
  ASSUME LimitInv, Tick
  PROVE  LimitInv'
  BY RateLimitAssumption
  DEF Tick, LimitInv, LimitTypeOK, ReadingsSound, NeverOverdrawn, PaidFor,
      NeverLockedOut, Waiting

LEMMA WatchOK ==
  ASSUME LimitInv, Watch
  PROVE  LimitInv'
<1>1. PICK from \in {clock} \cup {caller[c].read : c \in Waiting} :
        /\ \A c \in Waiting : from <= caller[c].read
        /\ window' = [from |-> from, spent |-> spent]
  BY DEF Watch
<1>2. from \in Nat /\ from <= clock
  BY DEF LimitInv, LimitTypeOK, ReadingsSound, Waiting
<1> QED
  BY <1>1, <1>2
  DEF Watch, LimitInv, LimitTypeOK, ReadingsSound, NeverOverdrawn, PaidFor,
      NeverLockedOut, Waiting

LEMMA ReadClockOK ==
  ASSUME LimitInv, NEW c \in Callers, ReadClock(c)
  PROVE  LimitInv'
<1>1. PICK place \in Timed :
        caller' = [caller EXCEPT ![c] = [at |-> place, read |-> clock]]
  <2>1. PICK hop \in {<<"idle", "bucket">>, <<"admitted", "cooldown">>,
                      <<"working", "failed">>} :
          caller' = [caller EXCEPT ![c] = [at |-> hop[2], read |-> clock]]
    BY DEF ReadClock
  <2>2. hop[2] \in Timed
    BY DEF Timed
  <2> QED
    BY <2>1, <2>2
<1>2. /\ caller' \in [Callers -> [at : Places, read : Nat]]
      /\ \A d \in Callers : caller'[d].read \in {caller[d].read, clock}
      /\ \A d \in Waiting' :
           \/ d \in Waiting /\ caller'[d].read = caller[d].read
           \/ caller'[d].read = clock
  BY <1>1 DEF LimitInv, LimitTypeOK, Waiting, Places, Timed
<1> QED
  BY <1>2
  DEF ReadClock, LimitInv, LimitTypeOK, ReadingsSound, NeverOverdrawn, PaidFor,
      NeverLockedOut, Waiting

LEMMA AllowOK ==
  ASSUME LimitInv, NEW c \in Callers, Allow(c)
  PROVE  LimitInv'
<1> DEFINE now    == caller[c].read
           tokens == Refilled(now)
           enough == tokens >= Cost
<1>1. /\ c \in Waiting
      /\ bucket' = [known |-> TRUE, last |-> now,
                    tokens |-> IF enough THEN tokens - Cost ELSE tokens]
      /\ spent' = IF enough THEN spent + Cost ELSE spent
      /\ Move(c, IF enough THEN "admitted" ELSE "idle")
      /\ UNCHANGED <<clock, backoff, window>>
  BY DEF Allow, Waiting
<1>2. now \in Nat /\ now <= clock /\ window.from <= now
  BY <1>1 DEF LimitInv, LimitTypeOK, ReadingsSound, Waiting
<1>3. /\ tokens \in Int /\ tokens <= Capacity
      /\ bucket.known => tokens = Capacity \/ tokens = bucket.tokens + (now - bucket.last)
      /\ bucket.known => tokens <= bucket.tokens + (now - bucket.last)
      /\ ~bucket.known => tokens = Capacity
  BY <1>2, RefillBound DEF LimitInv
<1>4. /\ caller' \in [Callers -> [at : Places, read : Nat]]
      /\ \A d \in Callers : caller'[d].read \in {caller[d].read, 0}
      /\ \A d \in Waiting' : d \in Waiting /\ caller'[d].read = caller[d].read
  <2>1. PICK place \in Places \ Timed : Move(c, place)
    BY <1>1 DEF Places, Timed
  <2> QED
    BY <2>1, MoveFacts DEF LimitInv
<1> HIDE DEF tokens, now
<1>5. LimitTypeOK'
  BY <1>1, <1>2, <1>3, <1>4, RateLimitAssumption DEF LimitInv, LimitTypeOK
<1>6. ReadingsSound'
  BY <1>1, <1>2, <1>4, RateLimitAssumption DEF LimitInv, LimitTypeOK, ReadingsSound
<1>7. NeverOverdrawn'
  <2>1. tokens + (clock - now) >= 0
    BY <1>2, <1>3, RateLimitAssumption DEF LimitInv, LimitTypeOK, NeverOverdrawn
  <2> QED
    BY <1>1, <1>2, <1>3, <2>1, RateLimitAssumption DEF LimitInv, LimitTypeOK, NeverOverdrawn
<1>8. PaidFor'
  BY <1>1, <1>2, <1>3, RateLimitAssumption
  DEF LimitInv, LimitTypeOK, ReadingsSound, PaidFor
<1>9. NeverLockedOut'
  BY <1>1 DEF LimitInv, NeverLockedOut
<1> QED
  BY <1>5, <1>6, <1>7, <1>8, <1>9 DEF LimitInv

(* A thread is let through or turned away: the limiters stay as they are.  *)
LEMMA BackoffAllowOK ==
  ASSUME LimitInv, NEW c \in Callers, BackoffAllow(c) \/ Unrecorded(c)
  PROVE  LimitInv'
<1>1. PICK place \in Places \ Timed : Move(c, place)
  BY DEF BackoffAllow, Unrecorded, Places, Timed
<1>2. /\ caller' \in [Callers -> [at : Places, read : Nat]]
      /\ \A d \in Callers : caller'[d].read \in {caller[d].read, 0}
      /\ \A d \in Waiting' : d \in Waiting /\ caller'[d].read = caller[d].read
  BY <1>1, MoveFacts DEF LimitInv
<1> QED
  BY <1>2
  DEF BackoffAllow, Unrecorded, LimitInv, LimitTypeOK, ReadingsSound, NeverOverdrawn, PaidFor,
      NeverLockedOut

LEMMA RecordFailureOK ==
  ASSUME LimitInv, NEW c \in Callers, RecordFailure(c)
  PROVE  LimitInv'
<1> DEFINE over == backoff.failures + 1 - FreeAttempts
<1>1. /\ caller' \in [Callers -> [at : Places, read : Nat]]
      /\ \A d \in Callers : caller'[d].read \in {caller[d].read, 0}
      /\ \A d \in Waiting' : d \in Waiting /\ caller'[d].read = caller[d].read
  <2>1. Move(c, "idle") /\ "idle" \in Places \ Timed
    BY DEF RecordFailure, Places, Timed
  <2> QED
    BY <2>1, MoveFacts DEF LimitInv
<1>2. backoff' \in [failures : Nat, until : Nat] /\ backoff'.until <= clock + Longest
  <2>1. over \in Int /\ Cooldown(over) \in Nat /\ Cooldown(over) <= Longest
    BY CooldownBound, RateLimitAssumption DEF LimitInv, LimitTypeOK
  <2>2. caller[c].read \in Nat /\ caller[c].read <= clock
    BY DEF LimitInv, LimitTypeOK, ReadingsSound
  <2>3. backoff' = [failures |-> backoff.failures + 1,
                    until |-> IF over <= 0 THEN backoff.until
                              ELSE caller[c].read + Cooldown(over)]
    BY DEF RecordFailure
  <2> HIDE DEF over
  <2> QED
    BY <2>1, <2>2, <2>3, RateLimitAssumption DEF LimitInv, LimitTypeOK, NeverLockedOut
<1> QED
  BY <1>1, <1>2
  DEF RecordFailure, LimitInv, LimitTypeOK, ReadingsSound, NeverOverdrawn, PaidFor,
      NeverLockedOut

LEMMA RecordSuccessOK ==
  ASSUME LimitInv, NEW c \in Callers, RecordSuccess(c)
  PROVE  LimitInv'
<1>1. Move(c, "idle") /\ "idle" \in Places \ Timed
  BY DEF RecordSuccess, Places, Timed
<1>2. /\ caller' \in [Callers -> [at : Places, read : Nat]]
      /\ \A d \in Callers : caller'[d].read \in {caller[d].read, 0}
      /\ \A d \in Waiting' : d \in Waiting /\ caller'[d].read = caller[d].read
  BY <1>1, MoveFacts DEF LimitInv
<1> QED
  BY <1>2, RateLimitAssumption
  DEF RecordSuccess, NoFailures, LimitInv, LimitTypeOK, ReadingsSound, NeverOverdrawn, PaidFor,
      NeverLockedOut

-----------------------------------------------------------------------------
(* The inductive invariant holds throughout.                               *)
THEOREM LimitInvariant == LimitSpec => []LimitInv
<1>1. LimitInv /\ [LimitNext]_limitVars => LimitInv'
  <2> SUFFICES ASSUME LimitInv, [LimitNext]_limitVars
               PROVE  LimitInv'
    OBVIOUS
  <2>1. CASE Tick
    BY <2>1, TickOK
  <2>2. CASE Watch
    BY <2>2, WatchOK
  <2>3. ASSUME NEW c \in Callers,
               \/ ReadClock(c) \/ Allow(c)
               \/ BackoffAllow(c) \/ RecordFailure(c) \/ RecordSuccess(c) \/ Unrecorded(c)
        PROVE  LimitInv'
    BY <2>3, ReadClockOK, AllowOK, BackoffAllowOK, RecordFailureOK, RecordSuccessOK
  <2>4. CASE UNCHANGED limitVars
    BY <2>4
    DEF limitVars, LimitInv, LimitTypeOK, ReadingsSound, NeverOverdrawn, PaidFor,
        NeverLockedOut, Waiting
  <2> QED
    BY <2>1, <2>2, <2>3, <2>4 DEF LimitNext
<1> QED
  BY <1>1, LimitInitOK, PTL DEF LimitSpec

(* The limiters' state is well-typed.                                      *)
THEOREM LimitsTyped == LimitSpec => []LimitTypeOK
<1>1. LimitInv => LimitTypeOK
  BY DEF LimitInv
<1> QED
  BY <1>1, LimitInvariant, PTL

(* From any tick on, at most the burst plus what the time refills is       *)
(* handed out, in whatever order callers with old readings are served.     *)
THEOREM BucketBoundsAdmission == LimitSpec => []AdmissionBound
<1>1. LimitInv => AdmissionBound
  BY RateLimitAssumption
  DEF LimitInv, LimitTypeOK, ReadingsSound, NeverOverdrawn, PaidFor, AdmissionBound
<1> QED
  BY <1>1, LimitInvariant, PTL

(* Waiting for Retry-After is enough, and no cooldown is a lockout.        *)
THEOREM LimitersKeepPromises == LimitSpec => []LimitPromises
<1>1. LimitInv => LimitPromises
  <2> SUFFICES ASSUME LimitInv PROVE RetryAfterSuffices
    BY DEF LimitInv, LimitPromises
  <2>1. bucket.known => bucket.tokens + (clock + RetryAfter - bucket.last) >= Cost
    <3>1. CASE bucket.tokens >= Cost
      BY <3>1, RateLimitAssumption DEF RetryAfter, LimitInv, LimitTypeOK, ReadingsSound
    <3>2. CASE ~(bucket.tokens >= Cost)
      <4> DEFINE missing == Cost - bucket.tokens
      <4>1. missing \in Nat
        BY <3>2, RateLimitAssumption DEF LimitInv, LimitTypeOK
      <4>2. RetryAfter \in Nat /\ RetryAfter >= missing
        BY <3>2, <4>1, RoundingUp DEF RetryAfter
      <4> QED
        BY <4>1, <4>2, RateLimitAssumption DEF LimitInv, LimitTypeOK, ReadingsSound
    <3> QED
      BY <3>1, <3>2
  <2>2. clock + BackoffRetryAfter >= backoff.until
    <3>1. CASE backoff.until > clock
      <4> DEFINE missing == backoff.until - clock
      <4>1. missing \in Nat
        BY <3>1 DEF LimitInv, LimitTypeOK
      <4>2. BackoffRetryAfter \in Nat /\ BackoffRetryAfter >= missing
        BY <3>1, <4>1, RoundingUp DEF BackoffRetryAfter
      <4> QED
        BY <4>1, <4>2 DEF LimitInv, LimitTypeOK
    <3>2. CASE ~(backoff.until > clock)
      BY <3>2 DEF BackoffRetryAfter, LimitInv, LimitTypeOK
    <3> QED
      BY <3>1, <3>2
  <2> QED
    BY <2>1, <2>2 DEF RetryAfterSuffices
<1> QED
  BY <1>1, LimitInvariant, PTL

=============================================================================
