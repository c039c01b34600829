----------------------------- MODULE RateLimit -----------------------------
(***************************************************************************)
(* The gateway's limiters, as a signup meets them: the token bucket of its *)
(* address, then the backoff of the account it asks for.                   *)
(*                                                                         *)
(* Both limiters read the clock BEFORE they take their lock, so a caller   *)
(* may arrive with a reading older than the one the limiter saw last: time *)
(* runs backwards inside the bucket.                                       *)
(*                                                                         *)
(* One bucket and one account are enough, limiters keep no other state.    *)
(* Time is counted in ticks, tokens in the amount that one tick refills.   *)
(***************************************************************************)
EXTENDS Integers

CONSTANTS
  Callers,      \* request threads
  Capacity,     \* the burst
  Cost,         \* one request
  Second,       \* ticks in a second: the unit of Retry-After
  FreeAttempts, \* failures that cost nothing
  Base, Longest,\* first and longest cooldown
  EndOfTime     \* bound: the last tick a run looks at

ASSUME RateLimitAssumption ==
  /\ Cost \in Nat \ {0} /\ Capacity \in Nat /\ Cost <= Capacity
  /\ Second \in Nat \ {0}
  /\ FreeAttempts \in Nat /\ Base \in Nat \ {0} /\ Longest \in Nat \ {0}
  /\ EndOfTime \in Nat

VARIABLES
  clock,
  bucket,   \* tokens and last_refill; a bucket nobody asked for yet is full
  backoff,  \* failures and blocked_until
  caller,   \* per thread: where it is and the time it read
  spent,    \* observer: tokens handed out
  window    \* observer: a period, from a tick on, and spent when it began

limitVars == <<clock, bucket, backoff, caller, spent, window>>

Smaller(a, b) == IF a < b THEN a ELSE b

Places == {"idle", "bucket", "admitted", "cooldown", "working", "failed"}
Timed  == {"bucket", "cooldown", "failed"}

LimitTypeOK ==
  /\ clock \in Nat
  /\ bucket \in [known : BOOLEAN, tokens : Int, last : Nat]
  /\ backoff \in [failures : Nat, until : Nat]
  /\ caller \in [Callers -> [at : Places, read : Nat]]
  /\ spent \in Nat
  /\ window \in [from : Nat, spent : Nat]

(* A key with no record: it never failed, or has succeeded since.          *)
NoFailures == [failures |-> 0, until |-> 0]

LimitInit ==
  /\ clock = 0
  /\ bucket = [known |-> FALSE, tokens |-> Capacity, last |-> 0]
  /\ backoff = NoFailures
  /\ caller = [c \in Callers |-> [at |-> "idle", read |-> 0]]
  /\ spent = 0
  /\ window = [from |-> 0, spent |-> 0]

Tick ==
  /\ clock < EndOfTime
  /\ clock' = clock + 1
  /\ UNCHANGED <<bucket, backoff, caller, spent, window>>

Move(c, place) == caller' = [caller EXCEPT ![c] = [at |-> place, read |-> 0]]

(* now = time.monotonic(), on the way into allow() or record_failure().    *)
ReadClock(c) ==
  /\ \E hop \in {<<"idle", "bucket">>, <<"admitted", "cooldown">>, <<"working", "failed">>} :
       /\ caller[c].at = hop[1]
       /\ caller' = [caller EXCEPT ![c] = [at |-> hop[2], read |-> clock]]
  /\ UNCHANGED <<clock, bucket, backoff, spent, window>>

-----------------------------------------------------------------------------
(* Fault: the refill is not capped.                                        *)
Overflowing(now) ==
  IF bucket.known THEN bucket.tokens + (now - bucket.last) ELSE Capacity

Refilled(now) ==
  IF bucket.known THEN Smaller(Capacity, bucket.tokens + (now - bucket.last)) ELSE Capacity

(* TokenBucketRateLimiter.allow, under its lock; a refusal is a 429.       *)
Allow(c) ==
  LET tokens == Refilled(caller[c].read)
      enough == tokens >= Cost
  IN /\ caller[c].at = "bucket"
     /\ bucket' = [known  |-> TRUE,
                   tokens |-> IF enough THEN tokens - Cost ELSE tokens,
                   last   |-> caller[c].read]
     /\ spent' = IF enough THEN spent + Cost ELSE spent
     /\ Move(c, IF enough THEN "admitted" ELSE "idle")
     /\ UNCHANGED <<clock, backoff, window>>

(* retry_after_seconds: whole seconds, here in ticks.                      *)
(* Fault: the fraction of a second is dropped.                             *)
HintRoundedDown ==
  IF bucket.tokens >= Cost THEN 0
  ELSE ((Cost - bucket.tokens) \div Second) * Second

RetryAfter ==
  IF bucket.tokens >= Cost THEN 0
  ELSE ((Cost - bucket.tokens) \div Second + 1) * Second

BackoffRetryAfter ==
  IF backoff.until > clock THEN ((backoff.until - clock) \div Second + 1) * Second ELSE 0

-----------------------------------------------------------------------------
(* Fault: the cooldown is not bounded.                                     *)
Doubling(over) == Base * 2 ^ Smaller(over - 1, 32)

Cooldown(over) ==
  LET delay == Base * 2 ^ Smaller(over - 1, 32)
  IN IF delay \in 1..Longest THEN delay ELSE Longest

(* BackoffRateLimiter: allow, record_failure, record_success.              *)
BackoffAllow(c) ==
  /\ caller[c].at = "cooldown"
  /\ Move(c, IF caller[c].read >= backoff.until THEN "working" ELSE "idle")
  /\ UNCHANGED <<clock, bucket, backoff, spent, window>>

RecordFailure(c) ==
  LET over == backoff.failures + 1 - FreeAttempts
  IN /\ caller[c].at = "failed"
     /\ backoff' = [failures |-> backoff.failures + 1,
                    until |-> IF over <= 0 THEN backoff.until
                              ELSE caller[c].read + Cooldown(over)]
     /\ Move(c, "idle")
     /\ UNCHANGED <<clock, bucket, spent, window>>

RecordSuccess(c) ==
  /\ caller[c].at = "working"
  /\ backoff' = NoFailures
  /\ Move(c, "idle")
  /\ UNCHANGED <<clock, bucket, spent, window>>

(* The sign-up raises what its handlers do not know: neither is recorded.  *)
Unrecorded(c) ==
  /\ caller[c].at = "working"
  /\ Move(c, "idle")
  /\ UNCHANGED <<clock, bucket, backoff, spent, window>>

(* The observer starts to count.  Callers that read the clock earlier and  *)
(* have not been served belong to the period: it begins at their reading.  *)
Waiting == {c \in Callers : caller[c].at = "bucket"}

Watch ==
  /\ \E from \in {clock} \cup {caller[c].read : c \in Waiting} :
       /\ \A c \in Waiting : from <= caller[c].read
       /\ window' = [from |-> from, spent |-> spent]
  /\ UNCHANGED <<clock, bucket, backoff, caller, spent>>

LimitNext ==
  \/ Tick \/ Watch
  \/ \E c \in Callers :
       \/ ReadClock(c) \/ Allow(c)
       \/ BackoffAllow(c) \/ RecordFailure(c) \/ RecordSuccess(c) \/ Unrecorded(c)

LimitSpec == LimitInit /\ [][LimitNext]_limitVars

-----------------------------------------------------------------------------
(* The bucket's promise: from any tick on no more than the burst plus what *)
(* the elapsed time refills is handed out, whatever the order in which the *)
(* callers get the lock after reading the clock.                           *)
AdmissionBound == spent - window.spent <= Capacity + (clock - window.from)

(* Retry-After tells the truth: a client that waits that long, if nobody   *)
(* else is served meanwhile, finds enough tokens; and the account's own    *)
(* Retry-After outlasts its cooldown.                                      *)
RetryAfterSuffices ==
  /\ bucket.known => bucket.tokens + (clock + RetryAfter - bucket.last) >= Cost
  /\ clock + BackoffRetryAfter >= backoff.until

(* "Deliberately NOT a lockout": no cooldown ends later than Longest from  *)
(* now, however many failures are recorded at once.                        *)
NeverLockedOut == backoff.until <= clock + Longest

LimitPromises == RetryAfterSuffices /\ NeverLockedOut

=============================================================================
