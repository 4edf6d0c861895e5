----------------------------- MODULE RateLimiter -----------------------------
(***************************************************************************)
(* RateLimiter (src/engine/rate_limiter.rs:448-681): token buckets for the *)
(* server, each IP, each session and each endpoint.  check_rate charges    *)
(* them one after the other, each under a lock of its own, so the checks   *)
(* of several requests interleave between two buckets; a check refused by  *)
(* its session or its endpoint gives the global token back.                *)
(*                                                                         *)
(* Tokens are counted in parts of a token, TicksPerSecond to one, so that  *)
(* what a bucket gains in a tick of the clock is a whole number: its limit.*)
(* The rounding of the f64 arithmetic is not modelled.                     *)
(***************************************************************************)
EXTENDS Integers, FiniteSets

CONSTANTS Tasks,              \* requests that can be checked at once
          Ips, Sessions, Endpoints,
          Global,             \* the key of global_bucket
          Operated,           \* keys the operations on one bucket are called with
          DefaultRps, PerIpLimit, PerSessionLimit, PerEndpointLimit,
          BurstMultiplier,    \* DEFAULT_BURST_MULTIPLIER, 5
          TicksPerSecond,     \* granularity of the clock
          MaxClock,           \* bound on the clock
          MaxGift,            \* bound on the parts given by resets and refills
          None, NoBucket

Keys == {Global} \cup Ips \cup Sessions \cup Endpoints

Bucket == [tokens : Nat, capacity : Nat, last_refill : Nat]

ASSUME KeysAssumption ==
  /\ IsFiniteSet(Tasks)
  /\ Global \notin Ips \cup Sessions \cup Endpoints
  /\ Ips \cap Sessions = {} /\ Ips \cap Endpoints = {} /\ Sessions \cap Endpoints = {}
  /\ None \notin Keys /\ NoBucket \notin Bucket
  /\ Operated \subseteq Keys

ASSUME LimitsAssumption ==
  /\ DefaultRps \in Nat /\ PerIpLimit \in Nat
  /\ PerSessionLimit \in Nat /\ PerEndpointLimit \in Nat
  /\ BurstMultiplier \in Nat \ {0} /\ TicksPerSecond \in Nat \ {0}
  /\ MaxClock \in Nat /\ MaxGift \in Nat

VARIABLES clock,      \* Instant::now(), in ticks
          bucket,     \* global_bucket and the three maps
          pc,         \* where the check of each task is
          req,        \* the request each task checks
          admitted,   \* history: requests answered Allowed, for each key
          given       \* history: parts put into each bucket by refill_bucket
                      \* and reset_ip

vars == <<clock, bucket, pc, req, admitted, given>>

Requests == [ip : Ips, session : Sessions \cup {None}, endpoint : Endpoints \cup {None}]

(* "ip", "session", "endpoint"   about to charge that bucket                 *)
(* "refund"      refused by session or endpoint, global token to give back  *)
(* "degrade"     refused by the global bucket, about to read it again       *)
Stages == {"idle", "ip", "session", "endpoint", "refund", "degrade"}

Limit(k) ==
  IF k = Global THEN DefaultRps
  ELSE IF k \in Ips THEN PerIpLimit
  ELSE IF k \in Sessions THEN PerSessionLimit
  ELSE PerEndpointLimit

Cost == TicksPerSecond

\* :50-63; the refill rate is the limit, for good.
NewBucket(k) ==
  [tokens |-> Limit(k) * TicksPerSecond, capacity |-> Limit(k) * TicksPerSecond,
   last_refill |-> clock]

TypeOK ==
  /\ clock \in Nat
  /\ DOMAIN bucket = Keys
  /\ \A k \in Keys : bucket[k] = NoBucket \/
       /\ bucket[k] \in Bucket
       /\ bucket[k].tokens <= BurstMultiplier * bucket[k].capacity
       /\ bucket[k].last_refill <= clock
  /\ bucket[Global] # NoBucket
  /\ pc \in [Tasks -> Stages]
  /\ DOMAIN req = Tasks
  /\ \A t \in Tasks : IF pc[t] = "idle" THEN req[t] = None ELSE req[t] \in Requests
  /\ admitted \in [Keys -> Nat]
  /\ given \in [Keys -> Nat]

Init ==
  /\ clock = 0
  /\ bucket = [k \in Keys |-> IF k = Global THEN NewBucket(k) ELSE NoBucket]
  /\ pc = [t \in Tasks |-> "idle"]
  /\ req = [t \in Tasks |-> None]
  /\ admitted = [k \in Keys |-> 0]
  /\ given = [k \in Keys |-> 0]

----------------------------------------------------------------------------
(* One bucket.                                                              *)

Least(a, b) == IF a <= b THEN a ELSE b

Found(k) == IF bucket[k] = NoBucket THEN NewBucket(k) ELSE bucket[k]

\* Faulty variant: no cap on what an idle bucket gains.
RefillUncapped(b, k) ==
  [tokens |-> b.tokens + (clock - b.last_refill) * Limit(k),
   capacity |-> b.capacity, last_refill |-> clock]

\* :65-83; bursts are never disallowed, so the cap is burst_capacity.
Refill(b, k) ==
  IF clock = b.last_refill THEN b
  ELSE [tokens |-> Least(b.tokens + (clock - b.last_refill) * Limit(k),
                         BurstMultiplier * b.capacity),
        capacity |-> b.capacity, last_refill |-> clock]

Refilled(k) == Refill(Found(k), k)

Affordable(k) == Refilled(k).tokens >= Cost

Put(k, b) == bucket' = [bucket EXCEPT ![k] = b]

WithTokens(b, n) ==
  [tokens |-> n, capacity |-> b.capacity, last_refill |-> b.last_refill]

\* try_consume, :85-99.  A refused charge keeps the refill it made.
Charge(k) == Put(k, WithTokens(Refilled(k), Refilled(k).tokens - Cost))
Refuse(k) == Put(k, Refilled(k))

\* refill_bucket, :137-139: the cap is the capacity, bursts or not.
GiveBack(k, n) ==
  Put(k, WithTokens(bucket[k], Least(bucket[k].tokens + n, bucket[k].capacity)))

----------------------------------------------------------------------------
(* check_rate, :475-539, one step per lock it takes.                        *)

Goto(t, stage) == pc' = [pc EXCEPT ![t] = stage]

Return(t) == Goto(t, "idle") /\ req' = [req EXCEPT ![t] = None]

RequestKeys(r) == ({Global} \cup {r.ip, r.session, r.endpoint}) \ {None}

Admit(ks) == admitted' = [k \in Keys |-> IF k \in ks THEN admitted[k] + 1 ELSE admitted[k]]

\* The bucket to charge after the IP's, and after the session's.
AfterSession(r) == IF r.endpoint # None THEN "endpoint" ELSE "allowed"
AfterIp(r) == IF r.session # None THEN "session" ELSE AfterSession(r)

Proceed(t, stage) ==
  \/ stage = "allowed" /\ Return(t) /\ Admit(RequestKeys(req[t]))
  \/ stage # "allowed" /\ Goto(t, stage) /\ UNCHANGED <<req, admitted>>

\* :483-485.
ChargeGlobal(t, r) ==
  /\ pc[t] = "idle"
  /\ req' = [req EXCEPT ![t] = r]
  /\ \/ Affordable(Global) /\ Charge(Global) /\ Goto(t, "ip")
     \/ ~Affordable(Global) /\ Refuse(Global) /\ Goto(t, "degrade")
  /\ UNCHANGED <<clock, admitted, given>>

\* Faulty variant: a request the global bucket refused gives a token back.
DegradeRefunding(t) ==
  /\ pc[t] = "degrade"
  /\ GiveBack(Global, Cost)
  /\ Return(t)
  /\ UNCHANGED <<clock, admitted, given>>

\* evaluate_global_degradation, :673-680, under a second lock: Queued or
\* Dropped, and nothing changes.
Degrade(t) ==
  /\ pc[t] = "degrade"
  /\ Return(t)
  /\ UNCHANGED <<clock, bucket, admitted, given>>

\* :487-500.  A request its IP may not make keeps the global token.
ChargeIp(t) ==
  /\ pc[t] = "ip"
  /\ LET k == req[t].ip
     IN  \/ Affordable(k) /\ Charge(k) /\ Proceed(t, AfterIp(req[t]))
         \/ ~Affordable(k) /\ Refuse(k) /\ Return(t) /\ UNCHANGED admitted
  /\ UNCHANGED <<clock, given>>

\* :502-518.
ChargeSession(t) ==
  /\ pc[t] = "session"
  /\ LET k == req[t].session
     IN  \/ Affordable(k) /\ Charge(k) /\ Proceed(t, AfterSession(req[t]))
         \/ ~Affordable(k) /\ Refuse(k) /\ Goto(t, "refund") /\ UNCHANGED <<req, admitted>>
  /\ UNCHANGED <<clock, given>>

\* :520-538.
ChargeEndpoint(t) ==
  /\ pc[t] = "endpoint"
  /\ LET k == req[t].endpoint
     IN  \/ Affordable(k) /\ Charge(k) /\ Proceed(t, "allowed")
         \/ ~Affordable(k) /\ Refuse(k) /\ Goto(t, "refund") /\ UNCHANGED <<req, admitted>>
  /\ UNCHANGED <<clock, given>>

\* :515-516, :533-534.
Refund(t) ==
  /\ pc[t] = "refund"
  /\ GiveBack(Global, Cost)
  /\ Return(t)
  /\ UNCHANGED <<clock, admitted, given>>

----------------------------------------------------------------------------
(* The operations on one bucket.                                            *)

\* check_rate_with_scope, :541-605, with the cost of 1.0 the pipeline passes.
CheckScope(k) ==
  /\ \/ Affordable(k) /\ Charge(k) /\ Admit({k})
     \/ ~Affordable(k) /\ Refuse(k) /\ UNCHANGED admitted
  /\ UNCHANGED <<clock, pc, req, given>>

Grant(k, n) ==
  /\ given[k] + n <= MaxGift
  /\ given' = [given EXCEPT ![k] = @ + n]

\* refill_bucket, :607-634, of n whole tokens; an unknown key is left alone.
RefillKey(k, n) ==
  /\ bucket[k] # NoBucket
  /\ Grant(k, n * TicksPerSecond)
  /\ GiveBack(k, n * TicksPerSecond)
  /\ UNCHANGED <<clock, pc, req, admitted>>

\* set_adaptive_threshold, :636-648; the refill rate stays what it was.
SetAdaptiveThreshold(ip, threshold) ==
  /\ bucket[ip] # NoBucket
  /\ threshold < PerIpLimit
  /\ LET capacity == (PerIpLimit - threshold) * TicksPerSecond
     IN  Put(ip, [tokens |-> Least(bucket[ip].tokens, capacity), capacity |-> capacity,
                  last_refill |-> bucket[ip].last_refill])
  /\ UNCHANGED <<clock, pc, req, admitted, given>>

\* reset_ip, :666-671 and :141-145.
ResetIp(ip) ==
  /\ bucket[ip] # NoBucket
  /\ Grant(ip, bucket[ip].capacity)
  /\ Put(ip, [tokens |-> bucket[ip].capacity, capacity |-> bucket[ip].capacity,
              last_refill |-> clock])
  /\ UNCHANGED <<clock, pc, req, admitted>>

Tick ==
  /\ clock < MaxClock
  /\ clock' = clock + 1
  /\ UNCHANGED <<bucket, pc, req, admitted, given>>

----------------------------------------------------------------------------
CheckStep(t) ==
  \/ \E r \in Requests : ChargeGlobal(t, r)
  \/ Degrade(t) \/ ChargeIp(t) \/ ChargeSession(t) \/ ChargeEndpoint(t) \/ Refund(t)

Operation ==
  \/ \E k \in Operated : CheckScope(k) \/ RefillKey(k, 1)
  \/ \E ip \in Ips \cap Operated : ResetIp(ip) \/ \E n \in 0 .. PerIpLimit - 1 : SetAdaptiveThreshold(ip, n)

Next == (\E t \in Tasks : CheckStep(t)) \/ Operation \/ Tick

Spec == Init /\ [][Next]_vars

----------------------------------------------------------------------------
(* Properties.                                                              *)

\* What the bucket of k can have paid for: what it starts with, the limit for
\* every second since the start, and what was put in by hand.
Budget(k) == Limit(k) * TicksPerSecond + Limit(k) * clock + given[k]

\* The requests answered Allowed, over every interleaving of their checks, of
\* refunds and of the other operations, stay within the budget of each bucket
\* that had to agree: rate and one bucketful, however long the idle time saved up.
AdmittedWithinBudget == \A k \in Keys : admitted[k] * TicksPerSecond <= Budget(k)

\* docs/ARCHITECTURE.md:195 caps the level of a bucket at its burst,
\* "tokens = min(tokens + rate * elapsed, burst)".  Giving a token back never
\* leaves the bucket with fewer tokens than it had.
RefundNeverTakes ==
  [][\A t \in Tasks : Refund(t) => bucket'[Global].tokens >= bucket[Global].tokens]_vars
=============================================================================
