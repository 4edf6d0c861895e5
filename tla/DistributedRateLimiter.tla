----------------------- MODULE DistributedRateLimiter -----------------------
(***************************************************************************)
(* DistributedRateLimiter (src/engine/rate_limiter.rs:167-438): buckets by *)
(* key in one table, made when a key is first seen and evicted when it is  *)
(* idle.  A request goes through the bucket of its IP, its session, its    *)
(* endpoint and the global one, each under the lock of the table, and the  *)
(* lock is let go in between.                                              *)
(*                                                                         *)
(* Tokens are counted in units of 1/TicksPerSecond, so that a refill of    *)
(* capacity tokens per second is capacity units per tick, without          *)
(* rounding.  burst_allowed and ema_baselines are left out: nothing reads  *)
(* them to decide.  traffic_ema is a mean of the costs, so that only the   *)
(* largest cost is kept, as "peak".                                        *)
(***************************************************************************)
EXTENDS Integers, Sequences, FiniteSets, FiniteSetsExt

CONSTANTS Callers,
          Requests,          \* what check_rate and check_rate_with_scope are called with
          BucketKeys,        \* keys of the table
          KeyPrefix,         \* "ip", "session", "endpoint" or "other" for a key
          ScopedKeys,        \* the keys of the form "<scope>:<key>"
          PerIpLimit, PerSessionLimit, PerEndpointLimit, DefaultRps,
          Thresholds,        \* what set_adaptive_threshold is called with
          TicksPerSecond,
          EvictAfter,        \* 3 * LOCAL_CACHE_TTL_SECS, in ticks
          SweepInterval,     \* BUCKET_CLEANUP_INTERVAL_SECS, in ticks
          LimiterHorizon, MaxRequests, MaxGifts,   \* bounds on the behaviours
          NoBucket, NoCall

\* A bucket is evicted after 3 * LOCAL_CACHE_TTL_SECS, 180 s (:17, :435), longer
\* than the second in which it fills.
ASSUME LimiterAssumption ==
  /\ Requests \subseteq [keys : Seq(BucketKeys), cost : Nat, tidies : BOOLEAN]
  /\ PerIpLimit \in Nat /\ PerSessionLimit \in Nat /\ PerEndpointLimit \in Nat
  /\ DefaultRps \in Nat /\ Thresholds \subseteq Nat
  /\ TicksPerSecond \in Nat \ {0} /\ EvictAfter \in Nat /\ EvictAfter >= TicksPerSecond
  /\ LimiterHorizon \in Nat
  /\ NoBucket \notin [tokens : Nat, capacity : Nat, last_refill : Nat, peak : Nat]

VARIABLES time,
          local_cache,          \* NoBucket for a key not in the table
          adaptive_thresholds,  \* 0 for an IP key without one
          last_sweep,           \* last_cleanup
          call,                 \* what a caller is at, or NoCall
          clearing,             \* clear_all has cleared the first table
          requests,             \* requests so far
          taken,                \* history: units taken from a bucket before a time
          gifts, given          \* history: units given to a bucket by hand, and how often

limiterVars == <<time, local_cache, adaptive_thresholds, last_sweep, call, clearing,
                 requests, taken, gifts, given>>
ledger == <<requests, taken, gifts, given>>

LimiterInit ==
  /\ time = 0
  /\ local_cache = [k \in BucketKeys |-> NoBucket]
  /\ adaptive_thresholds = [k \in BucketKeys |-> 0]
  /\ last_sweep = 0
  /\ call = [c \in Callers |-> NoCall]
  /\ clearing = FALSE
  /\ requests = 0
  /\ taken = [k \in BucketKeys |-> [u \in 0 .. LimiterHorizon + 1 |-> 0]]
  /\ gifts = [k \in BucketKeys |-> 0]
  /\ given = 0

----------------------------------------------------------------------------
(* The buckets.                                                             *)

\* resolve_limits, :378-410, with adaptive_learning; the capacity in whole tokens.
ResolveLimits(k) ==
  LET threshold == adaptive_thresholds[k]
  IN  CASE KeyPrefix[k] = "ip" ->
             Max({PerIpLimit - Min({threshold \div 2, PerIpLimit \div 2}), DefaultRps \div 10})
        [] KeyPrefix[k] = "session" -> PerSessionLimit
        [] KeyPrefix[k] = "endpoint" -> PerEndpointLimit
        [] OTHER -> DefaultRps

NewBucket(k) ==
  [tokens |-> ResolveLimits(k) * TicksPerSecond, capacity |-> ResolveLimits(k),
   last_refill |-> time, peak |-> 0]

Full(b) == b.capacity * TicksPerSecond

\* The units of a bucket if it were refilled now, :359-363.
Refilled(b) == Min({b.tokens + (time - b.last_refill) * b.capacity, Full(b)})

BucketOf(k) == IF local_cache[k] = NoBucket THEN NewBucket(k) ELSE local_cache[k]

----------------------------------------------------------------------------
(* check_rate, :203-242, and check_rate_with_scope, :244-256.               *)

\* A call is the keys it has still to check, in order, and what it has found.
BeginCall(c, request) ==
  /\ call[c] = NoCall /\ requests < MaxRequests
  /\ requests' = requests + 1
  /\ call' = [call EXCEPT ![c] = [todo |-> request.keys, cost |-> request.cost,
                                  tidies |-> request.tidies, refused |-> FALSE]]
  /\ UNCHANGED <<time, clearing, local_cache, adaptive_thresholds, last_sweep, taken, gifts, given>>

\* Units more, from now on.
NoteTaken(k, units) ==
  taken' = [taken EXCEPT ![k] = [u \in DOMAIN @ |-> IF u > time THEN @[u] + units ELSE @[u]]]

\* Faulty variant: the tokens are taken from a copy of the entry.
CheckBucketCopy(c) ==
  /\ call[c] # NoCall /\ call[c].todo # <<>> /\ ~call[c].refused
  /\ LET k == call[c].todo[1]
         cost == call[c].cost * TicksPerSecond
         passes == Refilled(BucketOf(k)) >= cost
     IN  /\ local_cache' = [local_cache EXCEPT ![k] = BucketOf(k)]
         /\ IF passes THEN NoteTaken(k, cost) ELSE UNCHANGED taken
         /\ call' = IF passes THEN [call EXCEPT ![c].todo = Tail(@)]
                              ELSE [call EXCEPT ![c].refused = TRUE]
  /\ UNCHANGED <<time, clearing, adaptive_thresholds, last_sweep, requests, gifts, given>>

\* check_local_bucket, :345-376, for the next key; what earlier keys gave stays spent.
CheckBucket(c) ==
  /\ call[c] # NoCall /\ call[c].todo # <<>> /\ ~call[c].refused
  /\ LET k == call[c].todo[1]
         b == BucketOf(k)
         cost == call[c].cost * TicksPerSecond
         passes == Refilled(b) >= cost
     IN  /\ local_cache' = [local_cache EXCEPT ![k] =
              [b EXCEPT !.tokens = IF passes THEN Refilled(b) - cost ELSE Refilled(b),
                        !.last_refill = time,
                        !.peak = Max({@, call[c].cost})]]
         /\ IF passes THEN NoteTaken(k, cost) ELSE UNCHANGED taken
         /\ call' = IF passes THEN [call EXCEPT ![c].todo = Tail(@)]
                              ELSE [call EXCEPT ![c].refused = TRUE]
  /\ UNCHANGED <<time, clearing, adaptive_thresholds, last_sweep, requests, gifts, given>>

\* :412-423; the bucket may have changed since it refused.
Degradation(k) ==
  IF local_cache[k] = NoBucket THEN {"Dropped"}
  ELSE LET b == local_cache[k]
       IN  IF 5 * b.tokens > Full(b) THEN {"Queued"}
           ELSE IF 2 * b.peak > 3 * b.capacity THEN {"Challenged", "Dropped"}
           ELSE {"Dropped"}

\* The answer is known; check_rate goes on to maybe_cleanup, the other returns.
Answer(c, decision) ==
  call' = [call EXCEPT ![c] = IF @.tidies
                              THEN [todo |-> <<>>, decision |-> decision, sweeps |-> FALSE]
                              ELSE NoCall]

Degrade(c) ==
  /\ call[c] # NoCall /\ call[c].todo # <<>> /\ call[c].refused
  /\ \E decision \in Degradation(call[c].todo[1]) : Answer(c, decision)
  /\ UNCHANGED <<time, clearing, local_cache, adaptive_thresholds, last_sweep, ledger>>

Allow(c) ==
  /\ call[c] # NoCall /\ "refused" \in DOMAIN call[c] /\ call[c].todo = <<>>
  /\ Answer(c, "Allowed")
  /\ UNCHANGED <<time, clearing, local_cache, adaptive_thresholds, last_sweep, ledger>>

Tidying(c) == call[c] # NoCall /\ "decision" \in DOMAIN call[c]

\* :425-431.
MaybeTidy(c) ==
  /\ Tidying(c) /\ ~call[c].sweeps
  /\ \/ /\ time - last_sweep < SweepInterval
        /\ call' = [call EXCEPT ![c] = NoCall]
        /\ UNCHANGED last_sweep
     \/ /\ time - last_sweep >= SweepInterval
        /\ call' = [call EXCEPT ![c].sweeps = TRUE]
        /\ last_sweep' = time
  /\ UNCHANGED <<time, clearing, local_cache, adaptive_thresholds, ledger>>

\* Faulty variant: a bucket idle for less than the time it needs to fill is evicted.
EvictEarly(c) ==
  /\ Tidying(c) /\ call[c].sweeps
  /\ local_cache' = [k \in BucketKeys |->
       IF local_cache[k] # NoBucket /\ time - local_cache[k].last_refill >= 1
       THEN NoBucket ELSE local_cache[k]]
  /\ call' = [call EXCEPT ![c] = NoCall]
  /\ UNCHANGED <<time, clearing, adaptive_thresholds, last_sweep, ledger>>

\* :433-436.
Evict(c) ==
  /\ Tidying(c) /\ call[c].sweeps
  /\ local_cache' = [k \in BucketKeys |->
       IF local_cache[k] # NoBucket /\ time - local_cache[k].last_refill >= EvictAfter
       THEN NoBucket ELSE local_cache[k]]
  /\ call' = [call EXCEPT ![c] = NoCall]
  /\ UNCHANGED <<time, clearing, adaptive_thresholds, last_sweep, ledger>>

----------------------------------------------------------------------------
(* The operations by hand.                                                  *)

Gift(k, units) ==
  /\ given < MaxGifts /\ given' = given + 1
  /\ gifts' = [gifts EXCEPT ![k] = @ + units]

\* refill_bucket, :258-265; the time that had passed is not credited.
RefillBucket(k, units) ==
  /\ k \in ScopedKeys /\ local_cache[k] # NoBucket
  /\ Gift(k, units)
  /\ local_cache' = [local_cache EXCEPT
       ![k].tokens = Min({@ + units, Full(local_cache[k])}), ![k].last_refill = time]
  /\ UNCHANGED <<time, clearing, adaptive_thresholds, last_sweep, call, requests, taken>>

\* :321-327.
ResetBucket(k) ==
  /\ local_cache[k] # NoBucket
  /\ Gift(k, Full(local_cache[k]) - Refilled(local_cache[k]))
  /\ local_cache' = [local_cache EXCEPT
       ![k].tokens = Full(local_cache[k]), ![k].last_refill = time]
  /\ UNCHANGED <<time, clearing, adaptive_thresholds, last_sweep, call, requests, taken>>

\* set_adaptive_threshold, :267-272; a bucket that exists keeps its capacity.
SetAdaptiveThreshold(k, threshold) ==
  /\ KeyPrefix[k] = "ip" /\ given < MaxGifts /\ given' = given + 1
  /\ adaptive_thresholds' = [adaptive_thresholds EXCEPT ![k] = threshold]
  /\ UNCHANGED <<time, clearing, local_cache, last_sweep, call, requests, taken, gifts>>

Deficit(k) == IF local_cache[k] = NoBucket THEN 0
              ELSE Full(local_cache[k]) - Refilled(local_cache[k])

\* clear_all, :329-333: one table after the other, with callers in between.
ClearCache ==
  /\ ~clearing /\ clearing' = TRUE
  /\ given < MaxGifts /\ given' = given + 1
  /\ gifts' = [k \in BucketKeys |-> gifts[k] + Deficit(k)]
  /\ local_cache' = [k \in BucketKeys |-> NoBucket]
  /\ UNCHANGED <<time, adaptive_thresholds, last_sweep, call, requests, taken>>

ClearThresholds ==
  /\ clearing /\ clearing' = FALSE
  /\ adaptive_thresholds' = [k \in BucketKeys |-> 0]
  /\ UNCHANGED <<time, local_cache, last_sweep, call, ledger>>

LimiterTick ==
  /\ time < LimiterHorizon
  /\ time' = time + 1
  /\ UNCHANGED <<clearing, local_cache, adaptive_thresholds, last_sweep, call, ledger>>

CallStep(c) ==
  \/ \E request \in Requests : BeginCall(c, request)
  \/ CheckBucket(c) \/ Degrade(c) \/ Allow(c) \/ MaybeTidy(c) \/ Evict(c)

LimiterNext ==
  \/ \E c \in Callers : CallStep(c)
  \/ \E k \in BucketKeys :
       RefillBucket(k, 1) \/ ResetBucket(k) \/ \E th \in Thresholds : SetAdaptiveThreshold(k, th)
  \/ ClearCache \/ ClearThresholds
  \/ LimiterTick

----------------------------------------------------------------------------
(* Properties.                                                              *)

LargestCapacity(k) ==
  CASE KeyPrefix[k] = "ip" -> Max({PerIpLimit, DefaultRps \div 10})
    [] KeyPrefix[k] = "session" -> PerSessionLimit
    [] KeyPrefix[k] = "endpoint" -> PerEndpointLimit [] OTHER -> DefaultRps

\* Within any second no bucket gives more than twice its capacity and what was
\* given to it by hand, however often it is evicted and made anew, whatever the
\* threshold is set to meanwhile, and with any number of callers between locks.
BucketBudget ==
  \A k \in BucketKeys, s, e \in 0 .. LimiterHorizon + 1 :
    s <= e /\ e <= s + TicksPerSecond =>
      taken[k][e] - taken[k][s] <= 2 * LargestCapacity(k) * TicksPerSecond + gifts[k]

LimiterSpec == LimiterInit /\ [][LimiterNext]_limiterVars

\* Eviction is not to be seen: it forgets only buckets that had filled up again.
\* Credit comes from the time and from the operations by hand alone, and goes to
\* callers alone, but for refill_bucket, which forgets the time since the last check.
CreditConserved ==
  [][\A k \in BucketKeys :
       /\ Deficit(k)' < Deficit(k) => time' # time \/ gifts' # gifts
       /\ Deficit(k)' > Deficit(k) =>
            taken'[k] # taken[k] \/ (k \in ScopedKeys /\ gifts'[k] > gifts[k])]_limiterVars
=============================================================================
