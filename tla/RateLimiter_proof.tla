-------------------------- MODULE RateLimiter_proof --------------------------
(***************************************************************************)
(* Proofs about the token buckets, for any number of tasks, keys and ticks *)
(* and any limits.                                                         *)
(***************************************************************************)
EXTENDS RateLimiter, TLAPS, FiniteSetTheorems

----------------------------------------------------------------------------
(* The inductive invariant.  A request is paid for when its bucket is       *)
(* charged and counted when it is answered; in between the charge is held   *)
(* by the task that checks it.  What is left in a bucket, what its requests *)
(* were charged and what the tasks hold never exceed its budget up to the   *)
(* last refill.                                                             *)

\* Task t has charged the bucket of k for a request it may still admit, or it
\* is about to give the token back.
Holds(t, k) ==
  \/ k = Global /\ pc[t] \in {"ip", "session", "endpoint", "refund"}
  \/ pc[t] \in {"session", "endpoint"} /\ k = req[t].ip
  \/ pc[t] = "endpoint" /\ k = req[t].session

Held(k) == {t \in Tasks : Holds(t, k)}

Count(k) == admitted[k] + Cardinality(Held(k))

Paid(k, b, n) ==
  b.tokens + n * TicksPerSecond
    <= Limit(k) * TicksPerSecond + Limit(k) * b.last_refill + given[k]

Ledger(k) ==
  IF bucket[k] = NoBucket THEN Count(k) = 0 ELSE Paid(k, bucket[k], Count(k))

\* The buckets' part of TypeOK.
WithinBurst(b) ==
  b \in Bucket /\ b.tokens <= BurstMultiplier * b.capacity /\ b.last_refill <= clock

BucketsOK ==
  /\ clock \in Nat
  /\ DOMAIN bucket = Keys
  /\ \A k \in Keys : bucket[k] = NoBucket \/ WithinBurst(bucket[k])
  /\ bucket[Global] # NoBucket
  /\ admitted \in [Keys -> Nat]
  /\ given \in [Keys -> Nat]

\* The checks' part of it.  A task is about to charge a session or an endpoint
\* only if its request names one.
ChecksOK ==
  /\ pc \in [Tasks -> Stages]
  /\ DOMAIN req = Tasks
  /\ \A t \in Tasks :
       /\ IF pc[t] = "idle" THEN req[t] = None ELSE req[t] \in Requests
       /\ pc[t] = "session" => req[t].session # None
       /\ pc[t] = "endpoint" => req[t].endpoint # None

LimiterInv == BucketsOK /\ ChecksOK /\ \A k \in Keys : Ledger(k)

USE KeysAssumption, LimitsAssumption

----------------------------------------------------------------------------
(* One bucket.                                                              *)

\* Limits are natural numbers.
LEMMA LimitType == \A k : Limit(k) \in Nat
BY DEF Limit

\* A key's bucket, found or made, is a bucket within its burst.
LEMMA FoundType ==
  ASSUME BucketsOK, NEW k \in Keys
  PROVE  WithinBurst(Found(k))
<1>1. CASE bucket[k] = NoBucket
  <2> DEFINE c == Limit(k) * TicksPerSecond
  <2>1. c \in Nat
    BY LimitType
  <2>2. Found(k) = [tokens |-> c, capacity |-> c, last_refill |-> clock]
    BY <1>1 DEF Found, NewBucket
  <2> HIDE DEF c
  <2>3. c <= BurstMultiplier * c
    BY <2>1
  <2>4. QED
    BY <2>1, <2>2, <2>3 DEF Bucket, BucketsOK, WithinBurst
<1>2. CASE bucket[k] # NoBucket
  BY <1>2 DEF Found, BucketsOK
<1>3. QED
  BY <1>1, <1>2

\* A refill adds at most what the elapsed time is worth.
LEMMA RefilledHolds ==
  ASSUME BucketsOK, NEW k \in Keys
  PROVE  /\ WithinBurst(Refilled(k)) /\ Refilled(k).last_refill = clock
         /\ Refilled(k).tokens
              <= Found(k).tokens + Limit(k) * clock - Limit(k) * Found(k).last_refill
<1> DEFINE b == Found(k)
           l == Limit(k)
           gain == (clock - b.last_refill) * l
           cap == BurstMultiplier * b.capacity
<1>1. /\ b \in Bucket /\ b.tokens <= cap /\ b.last_refill <= clock
      /\ clock \in Nat /\ l \in Nat
  BY FoundType, LimitType DEF BucketsOK, WithinBurst
<1>2. Refilled(k) = IF clock = b.last_refill THEN b
                    ELSE [tokens |-> Least(b.tokens + gain, cap), capacity |-> b.capacity,
                          last_refill |-> clock]
  BY DEF Refilled, Refill
<1> HIDE DEF b, l
<1>3. b.tokens \in Nat /\ b.capacity \in Nat /\ b.last_refill \in Nat
  BY <1>1 DEF Bucket
<1>4. gain \in Nat /\ gain = l * clock - l * b.last_refill
  BY <1>1, <1>3
<1>5. cap \in Nat
  BY <1>3
<1> HIDE DEF gain, cap
<1>6. Least(b.tokens + gain, cap) \in Nat /\ Least(b.tokens + gain, cap) <= cap
      /\ Least(b.tokens + gain, cap) <= b.tokens + gain
  BY <1>3, <1>4, <1>5 DEF Least
<1>7. CASE clock = b.last_refill
  <2>1. Refilled(k) = b /\ b.tokens <= b.tokens + gain
    BY <1>2, <1>3, <1>4, <1>7
  <2>2. b.tokens <= b.tokens + l * clock - l * b.last_refill
    BY <1>3, <1>7, <1>1
  <2>3. QED
    BY <1>1, <1>7, <2>1, <2>2 DEF b, l, cap, WithinBurst
<1>8. CASE clock # b.last_refill
  <2>1. /\ Refilled(k).tokens = Least(b.tokens + gain, cap)
        /\ Refilled(k).capacity = b.capacity /\ Refilled(k).last_refill = clock
        /\ Refilled(k) \in Bucket
    BY <1>1, <1>2, <1>3, <1>6, <1>8 DEF Bucket
  <2>2. Refilled(k).tokens <= b.tokens + l * clock - l * b.last_refill
    BY <1>1, <1>3, <1>4, <1>6, <2>1
  <2>3. b.tokens + gain \in Nat /\ Refilled(k).last_refill <= clock
    BY <1>1, <1>3, <1>4, <2>1
  <2>4. QED
    BY <1>6, <2>1, <2>2, <2>3 DEF b, l, cap, WithinBurst
<1>9. QED
  BY <1>7, <1>8

----------------------------------------------------------------------------
(* Charges, held and counted.                                               *)

\* The counts are natural numbers, before a step and after it.
LEMMA CountType ==
  ASSUME admitted \in [Keys -> Nat], NEW k \in Keys
  PROVE  IsFiniteSet(Held(k)) /\ Cardinality(Held(k)) \in Nat /\ Count(k) \in Nat
<1>1. Held(k) \subseteq Tasks
  BY DEF Held
<1>2. QED
  BY <1>1, FS_Subset, FS_CardinalityType DEF Count

\* The number of the others.
LEMMA Without ==
  ASSUME NEW S, IsFiniteSet(S), NEW x
  PROVE  Cardinality(S \ {x}) = Cardinality(S) - (IF x \in S THEN 1 ELSE 0)
<1>1. Cardinality(S) \in Nat
  BY FS_CardinalityType
<1>2. Cardinality(S \ {x}) = IF x \in S THEN Cardinality(S) - 1 ELSE Cardinality(S)
  BY FS_RemoveElement, Zenon
<1>3. QED
  BY <1>1, <1>2

\* What one task has to do with the count of a key.
Weight(t, k) == admitted[k] + (IF Holds(t, k) THEN 1 ELSE 0)

\* When one task moves, every count moves with the weight of that task.
LEMMA CountStep ==
  ASSUME admitted \in [Keys -> Nat], admitted' \in [Keys -> Nat],
         NEW t \in Tasks, NEW k \in Keys,
         \A u \in Tasks \ {t} : pc'[u] = pc[u] /\ req'[u] = req[u]
  PROVE  Count(k)' \in Nat /\ Count(k)' - Count(k) = Weight(t, k)' - Weight(t, k)
<1>1. IsFiniteSet(Held(k)) /\ Cardinality(Held(k)) \in Nat
  BY CountType
<1>2. Held(k)' \ {t} = Held(k) \ {t}
  BY DEF Held, Holds
<1>3. t \in Held(k) <=> Holds(t, k)
  BY DEF Held
<1>4. t \in Held(k)' <=> Holds(t, k)'
  BY DEF Held
<1>5. IsFiniteSet(Held(k)')
  <2>1. Held(k)' \subseteq Tasks
    BY DEF Held
  <2>2. QED
    BY <2>1, FS_Subset
<1>6. Cardinality(Held(k)') \in Nat
  BY <1>5, FS_CardinalityType
<1>7. Cardinality(Held(k) \ {t}) = Cardinality(Held(k)) - (IF t \in Held(k) THEN 1 ELSE 0)
  BY <1>1, Without
<1>8. Cardinality(Held(k)' \ {t}) = Cardinality(Held(k)') - (IF t \in Held(k)' THEN 1 ELSE 0)
  BY <1>5, Without
<1>9. Cardinality(Held(k)') - (IF t \in Held(k)' THEN 1 ELSE 0)
        = Cardinality(Held(k)) - (IF t \in Held(k) THEN 1 ELSE 0)
  BY <1>2, <1>7, <1>8
<1>10. Cardinality(Held(k))' = Cardinality(Held(k)')
  OBVIOUS
<1>11. admitted[k] \in Nat /\ admitted'[k] \in Nat
  OBVIOUS
<1>12. /\ Count(k) = admitted[k] + Cardinality(Held(k))
       /\ Count(k)' = admitted'[k] + Cardinality(Held(k)')
  BY <1>10 DEF Count
<1>13. /\ Weight(t, k) = admitted[k] + (IF t \in Held(k) THEN 1 ELSE 0)
       /\ Weight(t, k)' = admitted'[k] + (IF t \in Held(k)' THEN 1 ELSE 0)
  BY <1>3, <1>4 DEF Weight
<1>14. QED
  BY <1>1, <1>6, <1>9, <1>11, <1>12, <1>13

\* A bucket that is charged pays for one request more, a refused one for none.
LEMMA ChargePays ==
  ASSUME LimiterInv, NEW k \in Keys
  PROVE  /\ WithinBurst(Refilled(k)) /\ Paid(k, Refilled(k), Count(k))
         /\ Affordable(k) =>
              LET b == WithTokens(Refilled(k), Refilled(k).tokens - Cost)
              IN  WithinBurst(b) /\ Paid(k, b, Count(k) + 1)
<1> DEFINE b == Refilled(k)
           f == Found(k)
           l == Limit(k)
           n == Count(k)
<1>1. /\ l \in Nat /\ n \in Nat /\ given[k] \in Nat /\ clock \in Nat
  BY LimitType, CountType DEF LimiterInv, BucketsOK
<1>2. /\ WithinBurst(b) /\ b.last_refill = clock
      /\ b.tokens <= f.tokens + l * clock - l * f.last_refill
  BY RefilledHolds DEF LimiterInv
<1>3. WithinBurst(f)
  BY FoundType DEF LimiterInv
<1>4. f.tokens + n * TicksPerSecond
        <= l * TicksPerSecond + l * f.last_refill + given[k]
  <2>1. CASE bucket[k] = NoBucket
    <3>1. n = 0
      BY <2>1 DEF LimiterInv, Ledger
    <3>2. f.tokens = l * TicksPerSecond /\ f.last_refill = clock
      BY <2>1 DEF Found, NewBucket
    <3>3. l * clock \in Nat /\ l * TicksPerSecond \in Nat
      BY <1>1
    <3> HIDE DEF f, l, n
    <3>4. QED
      BY <1>1, <3>1, <3>2, <3>3
  <2>2. CASE bucket[k] # NoBucket
    BY <2>2 DEF LimiterInv, Ledger, Paid, Found
  <2>3. QED
    BY <2>1, <2>2
<1>5. /\ b.tokens \in Nat /\ b.capacity \in Nat /\ f.tokens \in Nat /\ f.last_refill \in Nat
  BY <1>2, <1>3 DEF WithinBurst, Bucket
<1> HIDE DEF b, f, l, n
<1>6. b.tokens + n * TicksPerSecond <= l * TicksPerSecond + l * clock + given[k]
  <2> DEFINE x == n * TicksPerSecond
             y == l * TicksPerSecond
             z == l * clock
             w == l * f.last_refill
  <2>1. x \in Nat /\ y \in Nat /\ z \in Nat /\ w \in Nat
    BY <1>1, <1>5
  <2>2. b.tokens <= f.tokens + z - w /\ f.tokens + x <= y + w + given[k]
    BY <1>2, <1>4
  <2> HIDE DEF x, y, z, w
  <2>3. b.tokens + x <= y + z + given[k]
    BY <1>1, <1>5, <2>1, <2>2
  <2>4. QED
    BY <2>3 DEF x, y, z
<1>7. Paid(k, b, n)
  BY <1>2, <1>6 DEF Paid, l
<1>8. ASSUME b.tokens >= Cost
      PROVE  LET c == WithTokens(b, b.tokens - Cost)
             IN  WithinBurst(c) /\ Paid(k, c, n + 1)
  <2> DEFINE c == WithTokens(b, b.tokens - Cost)
  <2>1. /\ c.tokens = b.tokens - TicksPerSecond /\ c.capacity = b.capacity
        /\ c.last_refill = clock /\ c \in Bucket
    BY <1>1, <1>2, <1>5, <1>8 DEF WithTokens, Cost, Bucket
  <2>2. WithinBurst(c)
    <3> DEFINE m == BurstMultiplier * b.capacity
    <3>1. b.tokens <= m /\ m \in Nat
      BY <1>2, <1>5 DEF WithinBurst
    <3> HIDE DEF c, m
    <3>2. c.tokens <= m
      BY <1>5, <2>1, <3>1
    <3>3. c.last_refill <= clock
      BY <1>1, <2>1
    <3>4. QED
      BY <2>1, <3>2, <3>3 DEF WithinBurst, m
  <2>3. (n + 1) * TicksPerSecond = n * TicksPerSecond + TicksPerSecond
    BY <1>1
  <2>4. Paid(k, c, n + 1)
    <3> DEFINE x == n * TicksPerSecond
               y == l * TicksPerSecond + l * clock + given[k]
    <3>1. x \in Nat /\ y \in Nat /\ b.tokens + x <= y
      BY <1>1, <1>6
    <3> HIDE DEF c, x, y
    <3>2. c.tokens + (x + TicksPerSecond) <= y
      BY <1>5, <2>1, <3>1
    <3>3. QED
      BY <2>1, <2>3, <3>2 DEF Paid, x, y, l
  <2>5. QED
    BY <2>2, <2>4
<1>9. QED
  BY <1>2, <1>7, <1>8 DEF Affordable, b, n

----------------------------------------------------------------------------
(* Storing a bucket.                                                        *)

\* Fewer requests cost no more.
LEMMA CostsNoMore ==
  ASSUME NEW m \in Nat, NEW n \in Nat, m <= n
  PROVE  m * TicksPerSecond <= n * TicksPerSecond
<1>1. PICK d \in Nat : n = m + d
  <2>1. n - m \in Nat /\ n = m + (n - m)
    OBVIOUS
  <2>2. QED
    BY <2>1
<1>2. n * TicksPerSecond = m * TicksPerSecond + d * TicksPerSecond
  BY <1>1
<1>3. d * TicksPerSecond \in Nat /\ m * TicksPerSecond \in Nat
  OBVIOUS
<1>4. QED
  BY <1>2, <1>3

\* Storing a bucket that pays for its key keeps the ledger of every key.
LEMMA StoreKeeps ==
  ASSUME LimiterInv, NEW k \in Keys, NEW b, Put(k, b), WithinBurst(b), UNCHANGED clock,
         admitted' \in [Keys -> Nat], given' \in [Keys -> Nat],
         \A j \in Keys : Count(j)' \in Nat,
         \A j \in Keys \ {k} : Count(j)' <= Count(j) /\ given'[j] = given[j],
         b.tokens + Count(k)' * TicksPerSecond
           <= Limit(k) * TicksPerSecond + Limit(k) * b.last_refill + given'[k]
  PROVE  BucketsOK' /\ \A j \in Keys : Ledger(j)'
<1>1. DOMAIN bucket = Keys /\ bucket' = [bucket EXCEPT ![k] = b]
  BY DEF LimiterInv, BucketsOK, Put
<1>2. DOMAIN bucket' = Keys /\ bucket'[k] = b
  BY <1>1
<1>3. \A j \in Keys \ {k} : bucket'[j] = bucket[j]
  BY <1>1
<1>4. b # NoBucket
  BY DEF WithinBurst
<1>5. BucketsOK'
  <2>1. \A j \in Keys : bucket'[j] = NoBucket \/ WithinBurst(bucket'[j])
    BY <1>2, <1>3 DEF LimiterInv, BucketsOK
  <2>2. bucket'[Global] # NoBucket
    <3>1. Global \in Keys /\ bucket[Global] # NoBucket
      BY DEF Keys, LimiterInv, BucketsOK
    <3>2. QED
      BY <1>2, <1>3, <1>4, <3>1
  <2>3. \A j \in Keys : (bucket[j] = NoBucket \/ WithinBurst(bucket[j]))'
    BY <2>1 DEF WithinBurst, Bucket
  <2>4. clock' \in Nat
    BY DEF LimiterInv, BucketsOK
  <2>5. QED
    BY <1>2, <2>2, <2>3, <2>4 DEF BucketsOK
<1>6. Ledger(k)'
  BY <1>2, <1>4 DEF Ledger, Paid, Limit
<1>7. ASSUME NEW j \in Keys \ {k} PROVE Ledger(j)'
  <2>1. Ledger(j) /\ bucket'[j] = bucket[j] /\ given'[j] = given[j]
    BY <1>3 DEF LimiterInv
  <2>2. Count(j) \in Nat /\ Count(j)' \in Nat /\ Count(j)' <= Count(j)
    BY CountType DEF LimiterInv, BucketsOK
  <2>3. CASE bucket[j] = NoBucket
    BY <2>1, <2>2, <2>3 DEF Ledger
  <2>4. CASE bucket[j] # NoBucket
    <3> DEFINE m == Count(j)'
               n == Count(j)
               y == Limit(j) * TicksPerSecond + Limit(j) * bucket[j].last_refill + given[j]
    <3>1. bucket[j].tokens \in Nat /\ bucket[j].last_refill \in Nat /\ y \in Nat
      BY <2>4, LimitType DEF LimiterInv, BucketsOK, WithinBurst, Bucket
    <3>2. bucket[j].tokens + n * TicksPerSecond <= y
      BY <2>1, <2>4 DEF Ledger, Paid
    <3>3. m * TicksPerSecond <= n * TicksPerSecond
      BY <2>2, CostsNoMore
    <3>4. m * TicksPerSecond \in Nat /\ n * TicksPerSecond \in Nat
      BY <2>2
    <3> HIDE DEF m, n, y
    <3>5. bucket[j].tokens + m * TicksPerSecond <= y
      BY <3>1, <3>2, <3>3, <3>4
    <3>6. QED
      BY <2>1, <2>4, <3>5 DEF Ledger, Paid, Limit, m, y
  <2>5. QED
    BY <2>3, <2>4
<1>8. QED
  BY <1>5, <1>6, <1>7

\* A charge or a refusal keeps the ledger of every key, when the key charged
\* gains at most the request that was paid for and no other gains any.
LEMMA ChargeKeeps ==
  ASSUME LimiterInv, NEW k \in Keys, UNCHANGED <<clock, given>>,
         admitted' \in [Keys -> Nat],
         \A j \in Keys : Count(j)' \in Nat,
         \A j \in Keys \ {k} : Count(j)' <= Count(j),
         \/ Affordable(k) /\ Charge(k) /\ Count(k)' <= Count(k) + 1
         \/ Refuse(k) /\ Count(k)' <= Count(k)
  PROVE  BucketsOK' /\ \A j \in Keys : Ledger(j)'
<1> DEFINE y == Limit(k) * TicksPerSecond + Limit(k) * clock + given[k]
<1>1. given' = given /\ given \in [Keys -> Nat] /\ clock \in Nat /\ clock' = clock
  BY DEF LimiterInv, BucketsOK
<1>2. Count(k) \in Nat /\ Count(k)' \in Nat /\ Limit(k) \in Nat
  BY CountType, LimitType DEF LimiterInv, BucketsOK
<1>3. ASSUME NEW n \in Nat, NEW m \in Nat, m <= n, NEW b, Put(k, b),
             WithinBurst(b), Paid(k, b, n), m = Count(k)'
      PROVE  BucketsOK' /\ \A j \in Keys : Ledger(j)'
  <2>1. b.tokens \in Nat /\ b.last_refill \in Nat
    BY <1>3 DEF WithinBurst, Bucket
  <2> DEFINE z == Limit(k) * TicksPerSecond + Limit(k) * b.last_refill + given[k]
             p == n * TicksPerSecond
             q == m * TicksPerSecond
  <2>2. z \in Nat /\ p \in Nat /\ q \in Nat /\ q <= p /\ b.tokens + p <= z
    BY <1>1, <1>2, <1>3, <2>1, CostsNoMore DEF Paid
  <2> HIDE DEF z, p, q
  <2>3. b.tokens + q <= z
    BY <2>1, <2>2
  <2>4. b.tokens + Count(k)' * TicksPerSecond
          <= Limit(k) * TicksPerSecond + Limit(k) * b.last_refill + given'[k]
    BY <1>1, <1>3, <2>3 DEF z, q
  <2>5. QED
    BY <1>1, <1>3, <2>4, StoreKeeps
<1>4. CASE Affordable(k) /\ Charge(k) /\ Count(k)' <= Count(k) + 1
  <2> DEFINE b == WithTokens(Refilled(k), Refilled(k).tokens - Cost)
  <2>1. Put(k, b) /\ WithinBurst(b) /\ Paid(k, b, Count(k) + 1)
    BY <1>4, ChargePays DEF Charge
  <2> HIDE DEF b
  <2>2. QED
    BY <1>2, <1>3, <1>4, <2>1
<1>5. CASE Refuse(k) /\ Count(k)' <= Count(k)
  BY <1>2, <1>3, <1>5, ChargePays DEF Refuse
<1>6. QED
  BY <1>4, <1>5

----------------------------------------------------------------------------
(* The steps of a check.                                                    *)

\* When one task charges a bucket or is refused, and its own weight grows by no
\* more than it paid for, the ledgers hold.
LEMMA MoveKeeps ==
  ASSUME LimiterInv, NEW t \in Tasks, NEW k \in Keys, UNCHANGED <<clock, given>>,
         \A u \in Tasks \ {t} : pc'[u] = pc[u] /\ req'[u] = req[u],
         admitted' \in [Keys -> Nat],
         \/ /\ Affordable(k) /\ Charge(k)
            /\ \A j \in Keys : Weight(t, j)' <= Weight(t, j) + (IF j = k THEN 1 ELSE 0)
         \/ /\ Refuse(k)
            /\ \A j \in Keys : Weight(t, j)' <= Weight(t, j)
  PROVE  BucketsOK' /\ \A j \in Keys : Ledger(j)'
<1>1. admitted \in [Keys -> Nat]
  BY DEF LimiterInv, BucketsOK
<1>2. \A j \in Keys : /\ Count(j) \in Nat /\ Count(j)' \in Nat
                      /\ Count(j)' - Count(j) = Weight(t, j)' - Weight(t, j)
  BY <1>1, CountType, CountStep
<1>3. \A j \in Keys : Weight(t, j) \in Nat /\ Weight(t, j)' \in Nat
  BY <1>1 DEF Weight
<1>4. CASE /\ Affordable(k) /\ Charge(k)
           /\ \A j \in Keys : Weight(t, j)' <= Weight(t, j) + (IF j = k THEN 1 ELSE 0)
  <2>1. Count(k)' <= Count(k) + 1
    BY <1>2, <1>3, <1>4
  <2>2. \A j \in Keys \ {k} : Count(j)' <= Count(j)
    BY <1>2, <1>3, <1>4
  <2>3. QED
    BY <1>2, <1>4, <2>1, <2>2, ChargeKeeps
<1>5. CASE Refuse(k) /\ \A j \in Keys : Weight(t, j)' <= Weight(t, j)
  <2>1. \A j \in Keys : Count(j)' <= Count(j)
    BY <1>2, <1>3, <1>5
  <2>2. QED
    BY <1>2, <1>5, <2>1, ChargeKeeps
<1>6. QED
  BY <1>4, <1>5

\* A task that goes to another stage, or returns, disturbs no other task.
LEMMA GotoHolds ==
  ASSUME ChecksOK, NEW t \in Tasks, NEW stage \in Stages, Goto(t, stage), UNCHANGED req,
         pc[t] # "idle", stage # "idle",
         stage = "session" => req[t].session # None,
         stage = "endpoint" => req[t].endpoint # None
  PROVE  /\ ChecksOK' /\ pc'[t] = stage /\ req'[t] = req[t]
         /\ \A u \in Tasks \ {t} : pc'[u] = pc[u] /\ req'[u] = req[u]
BY DEF ChecksOK, Goto

\* The same of a task that returns.
LEMMA ReturnHolds ==
  ASSUME ChecksOK, NEW t \in Tasks, Return(t)
  PROVE  /\ ChecksOK' /\ pc'[t] = "idle"
         /\ \A u \in Tasks \ {t} : pc'[u] = pc[u] /\ req'[u] = req[u]
BY DEF ChecksOK, Goto, Return, Stages

\* Admitting a request counts it once for each key it names.
LEMMA AdmitHolds ==
  ASSUME BucketsOK, NEW ks, Admit(ks)
  PROVE  /\ admitted' \in [Keys -> Nat]
         /\ \A k \in Keys : admitted'[k] = admitted[k] + (IF k \in ks THEN 1 ELSE 0)
BY DEF BucketsOK, Admit

\* The charge of the global bucket.
LEMMA ChargeGlobalKeeps ==
  ASSUME LimiterInv, NEW t \in Tasks, NEW r \in Requests, ChargeGlobal(t, r)
  PROVE  LimiterInv'
<1>1. /\ pc[t] = "idle" /\ admitted' = admitted /\ given' = given /\ clock' = clock
      /\ req' = [req EXCEPT ![t] = r] /\ admitted \in [Keys -> Nat]
      /\ DOMAIN req = Tasks /\ pc \in [Tasks -> Stages] /\ Global \in Keys
  BY DEF ChargeGlobal, LimiterInv, BucketsOK, ChecksOK, Keys
<1>2. ASSUME NEW stage \in {"ip", "degrade"}, Goto(t, stage)
      PROVE  /\ ChecksOK'
             /\ \A u \in Tasks \ {t} : pc'[u] = pc[u] /\ req'[u] = req[u]
             /\ pc'[t] = stage
  BY <1>1, <1>2 DEF Goto, ChecksOK, Stages, LimiterInv
<1>3. \A j \in Keys : Weight(t, j) = admitted[j]
  BY <1>1 DEF Weight, Holds
<1>4. CASE Affordable(Global) /\ Charge(Global) /\ Goto(t, "ip")
  <2>1. pc'[t] = "ip"
    BY <1>2, <1>4
  <2>2. \A j \in Keys : Weight(t, j)' = admitted[j] + (IF j = Global THEN 1 ELSE 0)
    BY <1>1, <2>1 DEF Weight, Holds
  <2>3. \A j \in Keys : Weight(t, j)' <= Weight(t, j) + (IF j = Global THEN 1 ELSE 0)
    BY <1>1, <1>3, <2>2
  <2>4. QED
    BY <1>1, <1>2, <1>4, <2>3, MoveKeeps DEF LimiterInv
<1>5. CASE Refuse(Global) /\ Goto(t, "degrade")
  <2>1. pc'[t] = "degrade"
    BY <1>2, <1>5
  <2>2. \A j \in Keys : Weight(t, j)' = admitted[j]
    BY <1>1, <2>1 DEF Weight, Holds
  <2>3. \A j \in Keys : Weight(t, j)' <= Weight(t, j)
    BY <1>1, <1>3, <2>2
  <2>4. QED
    BY <1>1, <1>2, <1>5, <2>3, MoveKeeps DEF LimiterInv
<1>6. QED
  BY <1>4, <1>5 DEF ChargeGlobal

\* The keys a task with request r holds at a stage.
HeldAt(stage, r) ==
  CASE stage = "ip" -> {Global}
    [] stage = "session" -> {Global, r.ip}
    [] stage = "endpoint" -> {Global, r.ip, r.session}
    [] stage = "refund" -> {Global}
    [] OTHER -> {}

\* A charge after which the task goes on, or admits its request, keeps the
\* invariant if what it then holds or admits is what it held and the key charged.
LEMMA ProceedKeeps ==
  ASSUME LimiterInv, NEW t \in Tasks, NEW k \in Keys, NEW next \in {"session", "endpoint", "allowed"},
         pc[t] \in {"ip", "session", "endpoint"}, UNCHANGED <<clock, given>>,
         Affordable(k), Charge(k), Proceed(t, next),
         next = "session" => req[t].session # None,
         next = "endpoint" => req[t].endpoint # None,
         \A j \in Keys : j \in (IF next = "allowed" THEN RequestKeys(req[t])
                                                    ELSE HeldAt(next, req[t]))
                           => j \in HeldAt(pc[t], req[t]) \cup {k},
         k \notin HeldAt(pc[t], req[t])
  PROVE  LimiterInv'
<1>1. \A j \in Keys : Weight(t, j) = admitted[j] + (IF j \in HeldAt(pc[t], req[t]) THEN 1 ELSE 0)
  BY DEF Weight, Holds, HeldAt
<1>2. admitted \in [Keys -> Nat] /\ ChecksOK /\ pc[t] # "idle"
  BY DEF LimiterInv, BucketsOK
<1>3. CASE next # "allowed"
  <2>1. Goto(t, next) /\ req' = req /\ admitted' = admitted
    BY <1>3 DEF Proceed
  <2>2. /\ ChecksOK' /\ pc'[t] = next /\ req'[t] = req[t]
        /\ \A u \in Tasks \ {t} : pc'[u] = pc[u] /\ req'[u] = req[u]
    BY <1>2, <1>3, <2>1, GotoHolds DEF Stages
  <2>3. \A j \in Keys : Weight(t, j)' = admitted[j] + (IF j \in HeldAt(next, req[t]) THEN 1 ELSE 0)
    BY <1>3, <2>1, <2>2 DEF Weight, Holds, HeldAt
  <2>4. \A j \in Keys : Weight(t, j)' <= Weight(t, j) + (IF j = k THEN 1 ELSE 0)
    BY <1>1, <1>2, <1>3, <2>3
  <2>5. QED
    BY <1>2, <2>1, <2>2, <2>4, MoveKeeps DEF LimiterInv
<1>4. CASE next = "allowed"
  <2>1. Return(t) /\ Admit(RequestKeys(req[t]))
    BY <1>4 DEF Proceed
  <2>2. /\ ChecksOK' /\ pc'[t] = "idle"
        /\ \A u \in Tasks \ {t} : pc'[u] = pc[u] /\ req'[u] = req[u]
    BY <1>2, <2>1, ReturnHolds
  <2>3. /\ admitted' \in [Keys -> Nat]
        /\ \A j \in Keys : admitted'[j] = admitted[j] + (IF j \in RequestKeys(req[t]) THEN 1 ELSE 0)
    BY <2>1, AdmitHolds DEF LimiterInv
  <2>4. \A j \in Keys : Weight(t, j)' = admitted[j] + (IF j \in RequestKeys(req[t]) THEN 1 ELSE 0)
    BY <1>2, <2>2, <2>3 DEF Weight, Holds
  <2>5. \A j \in Keys : Weight(t, j)' <= Weight(t, j) + (IF j = k THEN 1 ELSE 0)
    BY <1>1, <1>2, <1>4, <2>4
  <2>6. QED
    BY <2>2, <2>3, <2>5, MoveKeeps DEF LimiterInv
<1>5. QED
  BY <1>3, <1>4

\* A refusal after which the task returns or goes to the refund keeps it too.
LEMMA RefusedKeeps ==
  ASSUME LimiterInv, NEW t \in Tasks, NEW k \in Keys, UNCHANGED <<clock, given, admitted>>,
         pc[t] \in {"ip", "session", "endpoint"}, Refuse(k),
         Return(t) \/ (Goto(t, "refund") /\ UNCHANGED req)
  PROVE  LimiterInv'
<1>1. \A j \in Keys : Weight(t, j) = admitted[j] + (IF j \in HeldAt(pc[t], req[t]) THEN 1 ELSE 0)
  BY DEF Weight, Holds, HeldAt
<1>2. admitted \in [Keys -> Nat] /\ ChecksOK /\ pc[t] # "idle"
  BY DEF LimiterInv, BucketsOK
<1>3. CASE Return(t)
  <2>1. /\ ChecksOK' /\ pc'[t] = "idle"
        /\ \A u \in Tasks \ {t} : pc'[u] = pc[u] /\ req'[u] = req[u]
    BY <1>2, <1>3, ReturnHolds
  <2>2. \A j \in Keys : Weight(t, j)' = admitted[j]
    BY <1>2, <2>1 DEF Weight, Holds
  <2>3. \A j \in Keys : Weight(t, j)' <= Weight(t, j)
    BY <1>1, <1>2, <2>2
  <2>4. QED
    BY <1>2, <2>1, <2>3, MoveKeeps DEF LimiterInv
<1>4. CASE Goto(t, "refund") /\ UNCHANGED req
  <2>1. /\ ChecksOK' /\ pc'[t] = "refund"
        /\ \A u \in Tasks \ {t} : pc'[u] = pc[u] /\ req'[u] = req[u]
    BY <1>2, <1>4, GotoHolds DEF Stages
  <2>2. \A j \in Keys : Weight(t, j)' = admitted[j] + (IF j = Global THEN 1 ELSE 0)
    BY <2>1 DEF Weight, Holds
  <2>3. Global \in HeldAt(pc[t], req[t])
    BY DEF HeldAt
  <2>4. \A j \in Keys : Weight(t, j)' <= Weight(t, j)
    BY <1>1, <1>2, <2>2, <2>3
  <2>5. QED
    BY <1>2, <2>1, <2>4, MoveKeeps DEF LimiterInv
<1>5. QED
  BY <1>3, <1>4

\* What a request under check may name.
LEMMA RequestType ==
  ASSUME LimiterInv, NEW t \in Tasks, pc[t] # "idle"
  PROVE  /\ req[t].ip \in Ips /\ req[t].session \in Sessions \cup {None}
         /\ req[t].endpoint \in Endpoints \cup {None}
BY DEF LimiterInv, ChecksOK, Requests

\* The charges of the IP, the session and the endpoint.
LEMMA ChargesKeep ==
  ASSUME LimiterInv, NEW t \in Tasks, ChargeIp(t) \/ ChargeSession(t) \/ ChargeEndpoint(t)
  PROVE  LimiterInv'
<1> DEFINE r == req[t]
<1>1. CASE ChargeIp(t)
  <2>1. /\ pc[t] = "ip" /\ r.ip \in Ips /\ r.ip \in Keys /\ r.ip # Global
        /\ r.session \in Sessions \cup {None} /\ r.endpoint \in Endpoints \cup {None}
    BY <1>1, RequestType DEF ChargeIp, Keys
  <2>2. CASE Affordable(r.ip) /\ Charge(r.ip) /\ Proceed(t, AfterIp(r))
    <3>1. /\ AfterIp(r) \in {"session", "endpoint", "allowed"}
          /\ AfterIp(r) = "session" => r.session # None
          /\ AfterIp(r) = "endpoint" => r.session = None /\ r.endpoint # None
          /\ AfterIp(r) = "allowed" => r.session = None /\ r.endpoint = None
      BY DEF AfterIp, AfterSession
    <3>2. \A j \in Keys : j \in (IF AfterIp(r) = "allowed" THEN RequestKeys(r)
                                                           ELSE HeldAt(AfterIp(r), r))
                            => j \in HeldAt(pc[t], r) \cup {r.ip}
      BY <2>1, <3>1 DEF HeldAt, RequestKeys
    <3>3. r.ip \notin HeldAt(pc[t], r)
      BY <2>1 DEF HeldAt
    <3>4. QED
      BY <1>1, <2>1, <2>2, <3>1, <3>2, <3>3, ProceedKeeps DEF ChargeIp
  <2>3. CASE Refuse(r.ip) /\ Return(t) /\ UNCHANGED admitted
    <3>1. UNCHANGED <<clock, given, admitted>>
      BY <1>1, <2>3 DEF ChargeIp
    <3>2. /\ Refuse(r.ip) /\ r.ip \in Keys /\ pc[t] \in {"ip", "session", "endpoint"}
          /\ Return(t) \/ (Goto(t, "refund") /\ UNCHANGED req)
      BY <2>1, <2>3
    <3>3. QED
      BY <3>1, <3>2, RefusedKeeps, Zenon
  <2>4. QED
    BY <1>1, <2>2, <2>3 DEF ChargeIp
<1>2. CASE ChargeSession(t)
  <2>0. /\ pc[t] = "session" /\ r.session # None
        /\ r.ip \in Ips /\ r.session \in Sessions /\ r.endpoint \in Endpoints \cup {None}
    BY <1>2, RequestType DEF ChargeSession, LimiterInv, ChecksOK
  <2>1. r.session \in Keys /\ r.session # Global /\ r.session # r.ip
    BY <2>0 DEF Keys
  <2>2. CASE Affordable(r.session) /\ Charge(r.session) /\ Proceed(t, AfterSession(r))
    <3>1. /\ AfterSession(r) \in {"endpoint", "allowed"}
          /\ AfterSession(r) = "endpoint" => r.endpoint # None
          /\ AfterSession(r) = "allowed" => r.endpoint = None
      BY DEF AfterSession
    <3>2. \A j \in Keys : j \in (IF AfterSession(r) = "allowed" THEN RequestKeys(r)
                                                                ELSE HeldAt(AfterSession(r), r))
                            => j \in HeldAt(pc[t], r) \cup {r.session}
      BY <2>0, <2>1, <3>1 DEF HeldAt, RequestKeys
    <3>3. r.session \notin HeldAt(pc[t], r)
      BY <2>0, <2>1 DEF HeldAt
    <3>4. QED
      BY <1>2, <2>0, <2>1, <2>2, <3>1, <3>2, <3>3, ProceedKeeps DEF ChargeSession
  <2>3. CASE Refuse(r.session) /\ Goto(t, "refund") /\ UNCHANGED <<req, admitted>>
    BY <1>2, <2>0, <2>1, <2>3, RefusedKeeps DEF ChargeSession
  <2>4. QED
    BY <1>2, <2>2, <2>3 DEF ChargeSession
<1>3. CASE ChargeEndpoint(t)
  <2>0. /\ pc[t] = "endpoint" /\ r.endpoint # None
        /\ r.ip \in Ips /\ r.session \in Sessions \cup {None} /\ r.endpoint \in Endpoints
    BY <1>3, RequestType DEF ChargeEndpoint, LimiterInv, ChecksOK
  <2>1. /\ r.endpoint \in Keys /\ r.endpoint # Global
        /\ r.endpoint # r.ip /\ r.endpoint # r.session
    BY <2>0 DEF Keys
  <2>2. CASE Affordable(r.endpoint) /\ Charge(r.endpoint) /\ Proceed(t, "allowed")
    <3>1. \A j \in Keys : j \in RequestKeys(r) => j \in HeldAt(pc[t], r) \cup {r.endpoint}
      BY <2>0, <2>1 DEF HeldAt, RequestKeys
    <3>2. r.endpoint \notin HeldAt(pc[t], r)
      BY <2>0, <2>1 DEF HeldAt
    <3>3. QED
      BY <1>3, <2>0, <2>1, <2>2, <3>1, <3>2, ProceedKeeps DEF ChargeEndpoint
  <2>3. CASE Refuse(r.endpoint) /\ Goto(t, "refund") /\ UNCHANGED <<req, admitted>>
    BY <1>3, <2>0, <2>1, <2>3, RefusedKeeps DEF ChargeEndpoint
  <2>4. QED
    BY <1>3, <2>2, <2>3 DEF ChargeEndpoint
<1>4. QED
  BY <1>1, <1>2, <1>3

\* A request the global bucket refused held nothing.
LEMMA DegradeKeeps ==
  ASSUME LimiterInv, NEW t \in Tasks, Degrade(t)
  PROVE  LimiterInv'
<1>1. /\ pc[t] = "degrade" /\ Return(t) /\ ChecksOK /\ BucketsOK
      /\ UNCHANGED <<clock, bucket, admitted, given>>
  BY DEF Degrade, LimiterInv
<1>2. /\ ChecksOK' /\ pc'[t] = "idle"
      /\ \A u \in Tasks \ {t} : pc'[u] = pc[u] /\ req'[u] = req[u]
  BY <1>1, ReturnHolds
<1>3. \A j \in Keys : Held(j)' = Held(j)
  BY <1>1, <1>2 DEF Held, Holds
<1>4. \A j \in Keys : Ledger(j)'
  BY <1>1, <1>3 DEF LimiterInv, Ledger, Paid, Count, Limit
<1>5. BucketsOK'
  BY <1>1 DEF BucketsOK, WithinBurst
<1>6. QED
  BY <1>2, <1>4, <1>5 DEF LimiterInv

\* Giving tokens back keeps a bucket within its burst and adds no more than
\* was given.
LEMMA GiveBackHolds ==
  ASSUME LimiterInv, NEW k \in Keys, bucket[k] # NoBucket, NEW n \in Nat, GiveBack(k, n)
  PROVE  \E b : /\ Put(k, b) /\ WithinBurst(b) /\ b.last_refill = bucket[k].last_refill
                /\ b.tokens <= bucket[k].tokens + n
<1> DEFINE a == bucket[k]
           b == WithTokens(a, Least(a.tokens + n, a.capacity))
           cap == BurstMultiplier * a.capacity
<1>1. /\ a.tokens \in Nat /\ a.capacity \in Nat /\ a.last_refill \in Nat
      /\ a.last_refill <= clock
  BY DEF LimiterInv, BucketsOK, WithinBurst, Bucket
<1>2. cap \in Nat /\ a.capacity <= cap
  BY <1>1
<1>3. Put(k, b)
  BY DEF GiveBack
<1> HIDE DEF a, cap
<1>4. /\ Least(a.tokens + n, a.capacity) \in Nat
      /\ Least(a.tokens + n, a.capacity) <= a.capacity
      /\ Least(a.tokens + n, a.capacity) <= a.tokens + n
  BY <1>1 DEF Least
<1>5. /\ b.tokens = Least(a.tokens + n, a.capacity) /\ b.capacity = a.capacity
      /\ b.last_refill = a.last_refill /\ b \in Bucket
  BY <1>1, <1>4 DEF WithTokens, Bucket
<1> HIDE DEF b
<1>6. b.tokens <= cap
  BY <1>1, <1>2, <1>4, <1>5
<1>7. WithinBurst(b)
  BY <1>1, <1>5, <1>6 DEF WithinBurst, cap
<1>8. QED
  BY <1>3, <1>4, <1>5, <1>7 DEF a

\* The refund gives back what the task held.
LEMMA RefundKeeps ==
  ASSUME LimiterInv, NEW t \in Tasks, Refund(t)
  PROVE  LimiterInv'
<1>1. /\ pc[t] = "refund" /\ Return(t) /\ GiveBack(Global, Cost)
      /\ UNCHANGED <<clock, admitted, given>> /\ ChecksOK
      /\ Global \in Keys /\ bucket[Global] # NoBucket /\ Cost \in Nat
      /\ admitted \in [Keys -> Nat] /\ given \in [Keys -> Nat]
  BY DEF Refund, LimiterInv, BucketsOK, Keys, Cost
<1>2. /\ ChecksOK' /\ pc'[t] = "idle"
      /\ \A u \in Tasks \ {t} : pc'[u] = pc[u] /\ req'[u] = req[u]
  BY <1>1, ReturnHolds
<1>3. \A j \in Keys : /\ Count(j) \in Nat /\ Count(j)' \in Nat
                      /\ Count(j)' - Count(j) = Weight(t, j)' - Weight(t, j)
  BY <1>1, <1>2, CountType, CountStep
<1>4. \A j \in Keys : /\ Weight(t, j)' = admitted[j]
                      /\ Weight(t, j) = admitted[j] + (IF j = Global THEN 1 ELSE 0)
  BY <1>1, <1>2 DEF Weight, Holds
<1>5. Count(Global) = Count(Global)' + 1
  BY <1>1, <1>3, <1>4
<1>6. \A j \in Keys \ {Global} : Count(j)' <= Count(j) /\ given'[j] = given[j]
  BY <1>1, <1>3, <1>4
<1>7. PICK b : /\ Put(Global, b) /\ WithinBurst(b)
               /\ b.last_refill = bucket[Global].last_refill
               /\ b.tokens <= bucket[Global].tokens + Cost
  BY <1>1, GiveBackHolds
<1>8. b.tokens + Count(Global)' * TicksPerSecond
        <= Limit(Global) * TicksPerSecond + Limit(Global) * b.last_refill + given'[Global]
  <2> DEFINE m == Count(Global)'
             x == m * TicksPerSecond
             y == Limit(Global) * TicksPerSecond + Limit(Global) * bucket[Global].last_refill
                    + given[Global]
             old == bucket[Global].tokens
  <2>1. m \in Nat /\ Count(Global) = m + 1
    BY <1>1, <1>3, <1>5
  <2>2. old + Count(Global) * TicksPerSecond <= y
    BY <1>1 DEF LimiterInv, Ledger, Paid
  <2>3. old \in Nat /\ bucket[Global].last_refill \in Nat /\ y \in Nat
    BY <1>1, LimitType DEF LimiterInv, BucketsOK, WithinBurst, Bucket
  <2>4. b.tokens \in Nat /\ b.tokens <= old + TicksPerSecond
    BY <1>7 DEF WithinBurst, Bucket, Cost
  <2> HIDE DEF m, y, old
  <2>5. Count(Global) * TicksPerSecond = x + TicksPerSecond /\ x \in Nat
    BY <2>1
  <2> HIDE DEF x
  <2>6. b.tokens + x <= y
    BY <2>2, <2>3, <2>4, <2>5
  <2>7. QED
    BY <1>1, <1>7, <2>6 DEF m, x, y
<1>9. QED
  BY <1>1, <1>2, <1>3, <1>6, <1>7, <1>8, StoreKeeps DEF LimiterInv

----------------------------------------------------------------------------
(* The operations on one bucket.                                            *)

\* They leave the checks alone, and what the tasks hold with them.
LEMMA SameHeld ==
  ASSUME LimiterInv, UNCHANGED <<pc, req>>
  PROVE  ChecksOK' /\ \A j \in Keys : Held(j)' = Held(j)
BY DEF LimiterInv, ChecksOK, Held, Holds

\* A check with a scope counts the one request it charged for.
LEMMA CheckScopeKeeps ==
  ASSUME LimiterInv, NEW k \in Keys, CheckScope(k)
  PROVE  LimiterInv'
<1>1. ChecksOK' /\ (\A j \in Keys : Held(j)' = Held(j)) /\ BucketsOK
  BY SameHeld DEF CheckScope, LimiterInv
<1>2. UNCHANGED <<clock, given>> /\ admitted \in [Keys -> Nat]
  BY DEF CheckScope, LimiterInv, BucketsOK
<1>3. \A j \in Keys : /\ Count(j) \in Nat /\ Cardinality(Held(j)) \in Nat
                      /\ Count(j) = admitted[j] + Cardinality(Held(j))
                      /\ Count(j)' = admitted'[j] + Cardinality(Held(j))
  BY <1>1, <1>2, CountType DEF Count
<1>4. CASE Affordable(k) /\ Charge(k) /\ Admit({k})
  <2>1. /\ admitted' \in [Keys -> Nat]
        /\ \A j \in Keys : admitted'[j] = admitted[j] + (IF j = k THEN 1 ELSE 0)
    BY <1>1, <1>4, AdmitHolds
  <2>2. \A j \in Keys : Count(j)' \in Nat /\ Count(j)' = Count(j) + (IF j = k THEN 1 ELSE 0)
    BY <1>2, <1>3, <2>1
  <2>3. (\A j \in Keys : Count(j)' \in Nat) /\ (\A j \in Keys \ {k} : Count(j)' <= Count(j))
    BY <1>3, <2>2
  <2>4. Count(k)' <= Count(k) + 1
    BY <1>3, <2>2
  <2>5. QED
    BY <1>1, <1>2, <1>4, <2>1, <2>3, <2>4, ChargeKeeps DEF LimiterInv
<1>5. CASE Refuse(k) /\ UNCHANGED admitted
  <2>1. \A j \in Keys : Count(j)' \in Nat /\ Count(j)' <= Count(j)
    BY <1>3, <1>5
  <2>2. QED
    BY <1>1, <1>2, <1>5, <2>1, ChargeKeeps DEF LimiterInv
<1>6. QED
  BY <1>4, <1>5 DEF CheckScope

\* What is put into a bucket by hand is in its budget.
LEMMA GrantKeeps ==
  ASSUME LimiterInv, NEW k \in Keys, bucket[k] # NoBucket, NEW n \in Nat, NEW b,
         Put(k, b), WithinBurst(b), bucket[k].last_refill <= b.last_refill,
         b.tokens <= bucket[k].tokens + n,
         given' = [given EXCEPT ![k] = @ + n], UNCHANGED <<clock, pc, req, admitted>>
  PROVE  LimiterInv'
<1>1. ChecksOK' /\ \A j \in Keys : Held(j)' = Held(j)
  BY SameHeld
<1>2. admitted' = admitted /\ admitted \in [Keys -> Nat] /\ given \in [Keys -> Nat]
  BY DEF LimiterInv, BucketsOK
<1>3. \A j \in Keys : Count(j) \in Nat /\ Count(j)' = Count(j)
  BY <1>1, <1>2, CountType DEF Count
<1>4. /\ given' \in [Keys -> Nat] /\ given'[k] = given[k] + n
      /\ \A j \in Keys \ {k} : given'[j] = given[j]
  BY <1>2
<1>5. b.tokens + Count(k)' * TicksPerSecond
        <= Limit(k) * TicksPerSecond + Limit(k) * b.last_refill + given'[k]
  <2> DEFINE x == Count(k) * TicksPerSecond
             y == Limit(k) * TicksPerSecond
             v == Limit(k) * bucket[k].last_refill
             w == Limit(k) * b.last_refill
             old == bucket[k].tokens
             from == bucket[k].last_refill
             to == b.last_refill
             l == Limit(k)
  <2>1. old \in Nat /\ from \in Nat /\ to \in Nat /\ b.tokens \in Nat /\ l \in Nat
    BY LimitType DEF LimiterInv, BucketsOK, WithinBurst, Bucket
  <2>2. old + x <= y + v + given[k]
    BY DEF LimiterInv, Ledger, Paid
  <2>3. v <= w /\ v \in Nat /\ w \in Nat
    <3>1. from <= to /\ v = l * from /\ w = l * to
      OBVIOUS
    <3> HIDE DEF from, to, l, v, w
    <3>2. to - from \in Nat /\ to = from + (to - from)
      BY <2>1, <3>1
    <3>3. w = v + l * (to - from) /\ l * (to - from) \in Nat /\ v \in Nat
      BY <2>1, <3>1, <3>2
    <3>4. QED
      BY <3>3
  <2>4. x \in Nat /\ y \in Nat /\ given[k] \in Nat /\ b.tokens <= old + n
    BY <1>2, <1>3, <2>1
  <2>5. x = Count(k)' * TicksPerSecond
    BY <1>3
  <2> HIDE DEF x, y, v, w, old
  <2>6. b.tokens + x <= y + w + given'[k]
    BY <1>4, <2>1, <2>2, <2>3, <2>4
  <2>7. QED
    BY <2>5, <2>6 DEF y, w
<1>6. (\A j \in Keys : Count(j)' \in Nat) /\ (\A j \in Keys \ {k} : Count(j)' <= Count(j))
  BY <1>3
<1>7. QED
  BY <1>1, <1>2, <1>4, <1>5, <1>6, StoreKeeps DEF LimiterInv

\* A refill of one key.
LEMMA RefillKeyKeeps ==
  ASSUME LimiterInv, NEW k \in Keys, NEW n \in Nat, RefillKey(k, n)
  PROVE  LimiterInv'
<1>1. n * TicksPerSecond \in Nat
  OBVIOUS
<1>2. /\ bucket[k] # NoBucket /\ GiveBack(k, n * TicksPerSecond)
      /\ given' = [given EXCEPT ![k] = @ + n * TicksPerSecond]
      /\ UNCHANGED <<clock, pc, req, admitted>>
  BY DEF RefillKey, Grant
<1> DEFINE g == n * TicksPerSecond
<1> HIDE DEF g
<1>3. g \in Nat /\ GiveBack(k, g) /\ given' = [given EXCEPT ![k] = @ + g]
  BY <1>1, <1>2 DEF g
<1>4. PICK b : /\ Put(k, b) /\ WithinBurst(b) /\ b.last_refill = bucket[k].last_refill
               /\ b.tokens <= bucket[k].tokens + g
  BY <1>2, <1>3, GiveBackHolds
<1>5. bucket[k].last_refill \in Nat
  BY <1>2 DEF LimiterInv, BucketsOK, WithinBurst, Bucket
<1>6. bucket[k].last_refill <= b.last_refill
  BY <1>4, <1>5
<1>7. QED
  BY <1>2, <1>3, <1>4, <1>6, GrantKeeps

\* A reset of one IP fills its bucket to its capacity.
LEMMA ResetIpKeeps ==
  ASSUME LimiterInv, NEW ip \in Ips, ResetIp(ip)
  PROVE  LimiterInv'
<1> DEFINE a == bucket[ip]
           n == a.capacity
           b == [tokens |-> n, capacity |-> n, last_refill |-> clock]
           cap == BurstMultiplier * n
<1>1. /\ ip \in Keys /\ a # NoBucket /\ Put(ip, b)
      /\ given' = [given EXCEPT ![ip] = @ + n]
      /\ UNCHANGED <<clock, pc, req, admitted>>
  BY DEF ResetIp, Grant, Keys
<1>2. /\ n \in Nat /\ a.tokens \in Nat /\ a.last_refill \in Nat /\ a.last_refill <= clock
      /\ clock \in Nat
  BY <1>1 DEF LimiterInv, BucketsOK, WithinBurst, Bucket
<1> HIDE DEF a, n
<1>3. n <= cap
  BY <1>2
<1>4. b \in Bucket /\ b.tokens = n /\ b.last_refill = clock /\ b.capacity = n
  BY <1>2 DEF Bucket
<1> HIDE DEF b
<1>5. WithinBurst(b)
  BY <1>2, <1>3, <1>4 DEF WithinBurst, cap
<1>6. a.last_refill <= b.last_refill /\ b.tokens <= a.tokens + n
  BY <1>2, <1>4
<1>7. QED
  BY <1>1, <1>2, <1>5, <1>6, GrantKeeps DEF a

\* A new threshold can only take tokens out of the bucket of its IP.
LEMMA SetAdaptiveThresholdKeeps ==
  ASSUME LimiterInv, NEW ip \in Ips, NEW m \in 0 .. PerIpLimit - 1,
         SetAdaptiveThreshold(ip, m)
  PROVE  LimiterInv'
<1> DEFINE a == bucket[ip]
           c == (PerIpLimit - m) * TicksPerSecond
           b == [tokens |-> Least(a.tokens, c), capacity |-> c, last_refill |-> a.last_refill]
           cap == BurstMultiplier * c
<1>1. /\ ip \in Keys /\ a # NoBucket /\ Put(ip, b)
      /\ UNCHANGED <<clock, pc, req, admitted, given>>
  BY DEF SetAdaptiveThreshold, Keys
<1>2. /\ a.tokens \in Nat /\ a.last_refill \in Nat /\ a.last_refill <= clock
      /\ given \in [Keys -> Nat]
  BY <1>1 DEF LimiterInv, BucketsOK, WithinBurst, Bucket
<1>3. c \in Nat
  <2>1. PerIpLimit - m \in Nat
    OBVIOUS
  <2>2. QED
    BY <2>1
<1> HIDE DEF a, c
<1>4. c <= cap /\ cap \in Nat
  BY <1>3
<1>5. Least(a.tokens, c) \in Nat /\ Least(a.tokens, c) <= c /\ Least(a.tokens, c) <= a.tokens
  BY <1>2, <1>3 DEF Least
<1>6. /\ b \in Bucket /\ b.tokens = Least(a.tokens, c) /\ b.capacity = c
      /\ b.last_refill = a.last_refill
  BY <1>2, <1>3, <1>5 DEF Bucket
<1> HIDE DEF b, cap
<1>7. b.tokens <= cap
  BY <1>3, <1>4, <1>5, <1>6
<1>8. WithinBurst(b)
  BY <1>2, <1>6, <1>7 DEF WithinBurst, cap
<1>9. a.last_refill <= b.last_refill /\ b.tokens <= a.tokens + 0
  BY <1>2, <1>5, <1>6
<1>10. given' = [given EXCEPT ![ip] = @ + 0]
  BY <1>1, <1>2
<1>11. QED
  BY <1>1, <1>8, <1>9, <1>10, GrantKeeps DEF a

----------------------------------------------------------------------------
(* The theorems.                                                            *)

\* The limiter starts with full accounts and no request.
LEMMA InitLimiterInv == Init => LimiterInv
<1> SUFFICES ASSUME Init PROVE LimiterInv
  OBVIOUS
<1>1. \A k \in Keys : Held(k) = {}
  BY DEF Init, Held, Holds
<1>2. \A k \in Keys : Count(k) = 0
  <2>1. Cardinality({}) = 0
    BY FS_EmptySet, Zenon
  <2>2. \A k \in Keys : admitted[k] = 0
    BY DEF Init
  <2>3. QED
    BY <1>1, <2>1, <2>2 DEF Count
<1> DEFINE c == Limit(Global) * TicksPerSecond
           b == [tokens |-> c, capacity |-> c, last_refill |-> 0]
           cap == BurstMultiplier * c
<1>3. Global \in Keys /\ bucket[Global] = b /\ \A k \in Keys \ {Global} : bucket[k] = NoBucket
  BY DEF Init, NewBucket, Keys
<1>4. c \in Nat
  BY LimitType
<1> HIDE DEF c
<1>5. b \in Bucket /\ b.tokens = c /\ b.last_refill = 0 /\ b.capacity = c
  BY <1>4 DEF Bucket
<1>6. c <= cap
  BY <1>4
<1> HIDE DEF b
<1>7. WithinBurst(b)
  BY <1>5, <1>6 DEF WithinBurst, cap, Init
<1>8. BucketsOK
  BY <1>3, <1>5, <1>7 DEF BucketsOK, Init
<1>9. ChecksOK
  BY DEF ChecksOK, Init, Stages
<1>10. ASSUME NEW k \in Keys PROVE Ledger(k)
  <2>1. CASE k = Global
    <3>1. given[k] = 0 /\ Limit(k) * 0 = 0 /\ Count(k) * TicksPerSecond = 0
      BY <1>2, LimitType DEF Init
    <3>2. b.tokens + Count(k) * TicksPerSecond
            <= Limit(k) * TicksPerSecond + Limit(k) * b.last_refill + given[k]
      BY <1>4, <1>5, <2>1, <3>1 DEF c
    <3>3. QED
      BY <1>3, <1>5, <2>1, <3>2 DEF Ledger, Paid
  <2>2. CASE k # Global
    BY <1>2, <1>3, <2>2 DEF Ledger
  <2>3. QED
    BY <2>1, <2>2
<1>11. QED
  BY <1>8, <1>9, <1>10 DEF LimiterInv

\* Every step of the limiter keeps the invariant.
LEMMA NextLimiterInv == LimiterInv /\ [Next]_vars => LimiterInv'
<1> SUFFICES ASSUME LimiterInv, [Next]_vars PROVE LimiterInv'
  OBVIOUS
<1>1. ASSUME NEW t \in Tasks, CheckStep(t) PROVE LimiterInv'
  BY <1>1, ChargeGlobalKeeps, DegradeKeeps, ChargesKeep, RefundKeeps DEF CheckStep
<1>2. ASSUME NEW k \in Operated, CheckScope(k) \/ RefillKey(k, 1) PROVE LimiterInv'
  BY <1>2, CheckScopeKeeps, RefillKeyKeeps
<1>3. ASSUME NEW ip \in Ips,
             ResetIp(ip) \/ \E n \in 0 .. PerIpLimit - 1 : SetAdaptiveThreshold(ip, n)
      PROVE  LimiterInv'
  BY <1>3, ResetIpKeeps, SetAdaptiveThresholdKeeps
<1>4. CASE Tick
  <2>1. /\ clock \in Nat /\ clock' = clock + 1
        /\ UNCHANGED <<bucket, pc, req, admitted, given>>
    BY <1>4 DEF Tick, LimiterInv, BucketsOK
  <2>2. \A k \in Keys : Ledger(k)'
    BY <2>1 DEF LimiterInv, Ledger, Paid, Count, Held, Holds, Limit
  <2>3. \A k \in Keys : bucket[k] = NoBucket \/ WithinBurst(bucket[k])'
    BY <2>1 DEF LimiterInv, BucketsOK, WithinBurst, Bucket
  <2>4. BucketsOK'
    BY <2>1, <2>3 DEF LimiterInv, BucketsOK
  <2>5. ChecksOK'
    BY <2>1 DEF LimiterInv, ChecksOK
  <2>6. QED
    BY <2>2, <2>4, <2>5 DEF LimiterInv
<1>5. CASE UNCHANGED vars
  BY <1>5 DEF vars, LimiterInv, BucketsOK, WithinBurst, ChecksOK, Ledger, Paid, Count,
              Held, Holds, Limit
<1>6. QED
  BY <1>1, <1>2, <1>3, <1>4, <1>5 DEF Next, Operation

\* The ledger of every bucket balances, whatever the interleaving of the checks,
\* the refunds and the operations on one bucket.
THEOREM LimiterSafe == Spec => []LimiterInv
BY InitLimiterInv, NextLimiterInv, PTL DEF Spec

\* Buckets stay within their burst and checks name what they charge.
THEOREM LimiterTypeCorrect == Spec => []TypeOK
<1>1. LimiterInv => TypeOK
  BY DEF LimiterInv, BucketsOK, ChecksOK, WithinBurst, TypeOK
<1>2. QED
  BY <1>1, LimiterSafe, PTL

\* What is admitted for a key is paid for.
LEMMA LedgerPays == LimiterInv => AdmittedWithinBudget
<1> SUFFICES ASSUME LimiterInv, NEW k \in Keys
             PROVE  admitted[k] * TicksPerSecond <= Budget(k)
  BY DEF AdmittedWithinBudget
<1> DEFINE x == admitted[k] * TicksPerSecond
           z == Count(k) * TicksPerSecond
           y == Limit(k) * TicksPerSecond
           w == Limit(k) * clock
<1>1. /\ admitted[k] \in Nat /\ given[k] \in Nat /\ Limit(k) \in Nat /\ clock \in Nat
      /\ admitted \in [Keys -> Nat]
  BY LimitType DEF LimiterInv, BucketsOK
<1>2. Count(k) \in Nat /\ admitted[k] <= Count(k)
  <2>1. Count(k) \in Nat /\ Cardinality(Held(k)) \in Nat
    BY <1>1, CountType
  <2>2. QED
    BY <1>1, <2>1 DEF Count
<1>3. x <= z /\ x \in Nat /\ z \in Nat
  BY <1>1, <1>2, CostsNoMore
<1>4. y \in Nat /\ w \in Nat
  BY <1>1
<1>5. z <= y + w + given[k]
  <2>1. CASE bucket[k] = NoBucket
    <3>1. z = 0
      BY <2>1 DEF LimiterInv, Ledger
    <3> HIDE DEF z, y, w
    <3>2. QED
      BY <1>1, <1>4, <3>1
  <2>2. CASE bucket[k] # NoBucket
    <3> DEFINE v == Limit(k) * bucket[k].last_refill
               old == bucket[k].tokens
               from == bucket[k].last_refill
               l == Limit(k)
    <3>1. old + z <= y + v + given[k]
      BY <2>2 DEF LimiterInv, Ledger, Paid
    <3>2. old \in Nat /\ from \in Nat /\ from <= clock /\ l \in Nat
      BY <1>1, <2>2 DEF LimiterInv, BucketsOK, WithinBurst, Bucket
    <3>3. v = l * from /\ w = l * clock
      OBVIOUS
    <3> HIDE DEF v, w, l, from, old, y, z
    <3>4. clock - from \in Nat /\ clock = from + (clock - from)
      BY <1>1, <3>2
    <3>5. w = v + l * (clock - from) /\ l * (clock - from) \in Nat /\ v \in Nat
      BY <3>2, <3>3, <3>4
    <3>6. v <= w
      BY <3>5
    <3>7. QED
      BY <1>1, <1>3, <1>4, <3>1, <3>2, <3>5, <3>6
  <2>3. QED
    BY <2>1, <2>2
<1> HIDE DEF x, y, z, w
<1>6. x <= y + w + given[k]
  BY <1>1, <1>3, <1>4, <1>5
<1>7. QED
  BY <1>6 DEF Budget, x, y, w

\* The requests answered Allowed stay within the budget of every bucket that had
\* to agree.
THEOREM LimiterAdmitsWithinBudget == Spec => []AdmittedWithinBudget
BY LimiterSafe, LedgerPays, PTL
=============================================================================
