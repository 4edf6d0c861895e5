------------------------------ MODULE Edge_proof ------------------------------
(*****************************************************************************)
(* Proofs about the engines a packet or a request meets at the edge, for     *)
(* any tasks, callers, packets, clients and limits. IngressFilter: how       *)
(* many SYNs of an IP pass, and how far the count of its connections may     *)
(* be from its limit and from the table. DistributedRateLimiter: how much    *)
(* a bucket gives in a second, and where its credit comes from and goes      *)
(* to. BotDetector: who is taken for a bot, and whose answer is believed.    *)
(* TrafficBaseline: which samples are reported.                              *)
(*****************************************************************************)
EXTENDS Inspection_proof, IngressFilter, DistributedRateLimiter, BotDetector, TrafficBaseline

----------------------------------------------------------------------------
(* BotDetector: the score.                                                  *)

\* The sum of a sequence, term by term.
LEMMA SumTrail ==
  ASSUME NEW w \in Seq(Int)
  PROVE  \E h \in [0 .. Len(w) -> Int] :
           /\ h[0] = 0
           /\ \A k \in 1 .. Len(w) : h[k] = h[k - 1] + w[k]
           /\ Sum(w) = h[Len(w)]
<1> DEFINE n == Len(w)
           All == Int
           step == [k \in 1 .. n |-> [r \in All |-> r + w[k]]]
<1>1. n \in Nat /\ DOMAIN w = 1 .. n /\ 0 \in All
  OBVIOUS
<1>2. \A r \in All : \A k \in 1 .. n : r + w[k] \in All
  OBVIOUS
<1>3. \A k \in 1 .. n : step[k] \in [All -> All]
  BY <1>2
<1> HIDE DEF step, All, n
<1>4. PICK it \in [SUBSET (1 .. n) -> All] : Unfolds(it, n, 0, step)
  BY <1>1, <1>3, FoldExists
<1>5. it = [s \in SUBSET DOMAIN w |->
              IF s = {} THEN 0 ELSE it[s \ {Max(s)}] + w[Max(s)]]
  <2>1. ASSUME NEW s \in SUBSET (1 .. n), s # {}
        PROVE  step[Max(s)][it[s \ {Max(s)}]] = it[s \ {Max(s)}] + w[Max(s)]
    <3>1. Max(s) \in 1 .. n
      BY <1>1, <2>1, LargestOfUpTo
    <3>2. it[s \ {Max(s)}] \in All
      BY <1>4
    <3>3. QED
      BY <3>1, <3>2 DEF step
  <2>2. QED
    BY <1>1, <1>4, <2>1 DEF Unfolds
<1>6. PICK r : /\ r = [s \in SUBSET DOMAIN w |->
                         IF s = {} THEN 0 ELSE r[s \ {Max(s)}] + w[Max(s)]]
               /\ Sum(w) = r[DOMAIN w]
  BY <1>5 DEF Sum, FoldLeft, MapThenFoldSet
<1> DEFINE h == [k \in 0 .. n |-> r[1 .. k]]
<1>7. h[0] = 0 /\ h[n] = Sum(w)
  BY <1>1, <1>6, InitialSegments
<1>8. ASSUME NEW k \in 1 .. n PROVE h[k] = h[k - 1] + w[k]
  <2>1. h[k] = r[1 .. k] /\ h[k - 1] = r[1 .. k - 1]
    BY <1>1
  <2>2. /\ 1 .. k \in SUBSET DOMAIN w /\ 1 .. k # {}
        /\ Max(1 .. k) = k /\ (1 .. k) \ {k} = 1 .. k - 1
    BY <1>1, InitialSegments
  <2>3. r[1 .. k] = r[(1 .. k) \ {Max(1 .. k)}] + w[Max(1 .. k)]
    BY <1>6, <2>2
  <2> HIDE DEF h
  <2>4. QED
    BY <2>1, <2>2, <2>3
<1> HIDE DEF h
<1>9. \A k \in 0 .. n : h[k] \in All
  <2> DEFINE Kept == {k \in 0 .. n : h[k] \in All}
  <2>1. 0 \in Kept
    BY <1>1, <1>7
  <2>2. ASSUME NEW k \in 1 .. n, k - 1 \in Kept PROVE k \in Kept
    <3>1. h[k - 1] \in All /\ k \in 0 .. n
      BY <1>1, <2>2
    <3>2. h[k] \in All
      BY <1>2, <1>8, <3>1
    <3>3. QED
      BY <3>1, <3>2
  <2> HIDE DEF Kept
  <2>3. \A k \in 0 .. n : k \in Kept
    BY <1>1, <2>1, <2>2, InductionUpTo
  <2>4. QED
    BY <2>3 DEF Kept
<1>10. h \in [0 .. n -> All]
  BY <1>9 DEF h
<1>11. QED
  BY <1>7, <1>8, <1>10 DEF n, All

\* The terms of a sequence, over its length.
LEMMA SeqElements ==
  ASSUME NEW S, NEW w \in Seq(S)
  PROVE  \A n \in Nat : n = Len(w) => \A k \in 1 .. n : w[k] \in S
OBVIOUS

\* The sum of five, from the next after k on.
Five(w, k) == w[k + 1] + w[k + 2] + w[k + 3] + w[k + 4] + w[k + 5]

\* Five steps of a trail at once.
LEMMA FiveSteps ==
  ASSUME NEW w \in [1 .. 15 -> Int], NEW h \in [0 .. 15 -> Int],
         \A k \in 1 .. 15 : h[k] = h[k - 1] + w[k]
  PROVE  \A k \in 0 .. 10 : Five(w, k) \in Int /\ h[k + 5] = h[k] + Five(w, k)
<1>1. ASSUME NEW k \in 0 .. 14 PROVE h[k + 1] = h[k] + w[k + 1]
  <2>1. k + 1 \in 1 .. 15 /\ (k + 1) - 1 = k
    OBVIOUS
  <2>2. h[k + 1] = h[(k + 1) - 1] + w[k + 1]
    BY <2>1
  <2>3. QED
    BY <2>1, <2>2
<1>2. ASSUME NEW k \in 0 .. 10 PROVE Five(w, k) \in Int /\ h[k + 5] = h[k] + Five(w, k)
  <2>1. h[k + 1] = h[k] + w[k + 1]
    BY <1>1
  <2>2. h[k + 2] = h[k + 1] + w[k + 2]
    <3>1. h[(k + 1) + 1] = h[k + 1] + w[(k + 1) + 1]
      BY <1>1
    <3>2. QED
      BY <3>1
  <2>3. h[k + 3] = h[k + 2] + w[k + 3]
    <3>1. h[(k + 2) + 1] = h[k + 2] + w[(k + 2) + 1]
      BY <1>1
    <3>2. QED
      BY <3>1
  <2>4. h[k + 4] = h[k + 3] + w[k + 4]
    <3>1. h[(k + 3) + 1] = h[k + 3] + w[(k + 3) + 1]
      BY <1>1
    <3>2. QED
      BY <3>1
  <2>5. h[k + 5] = h[k + 4] + w[k + 5]
    <3>1. h[(k + 4) + 1] = h[k + 4] + w[(k + 4) + 1]
      BY <1>1
    <3>2. QED
      BY <3>1
  <2>6. /\ w[k + 1] \in Int /\ w[k + 2] \in Int /\ w[k + 3] \in Int
        /\ w[k + 4] \in Int /\ w[k + 5] \in Int
    OBVIOUS
  <2>7. h[k] \in Int
    OBVIOUS
  <2>8. QED
    BY <2>1, <2>2, <2>3, <2>4, <2>5, <2>6, <2>7 DEF Five
<1>3. QED
  BY <1>2

\* A sum of fifteen, five by five.
LEMMA SumOfFifteen ==
  ASSUME NEW w \in [1 .. 15 -> Int]
  PROVE  Sum(w) = Five(w, 0) + Five(w, 5) + Five(w, 10)
<1>1. w \in Seq(Int) /\ Len(w) = 15
  BY FunctionIsSeq
<1>2. PICK h \in [0 .. 15 -> Int] : /\ h[0] = 0 /\ \A k \in 1 .. 15 : h[k] = h[k - 1] + w[k]
                                   /\ Sum(w) = h[15]
  BY <1>1, SumTrail
<1>3. \A k \in 0 .. 10 : Five(w, k) \in Int /\ h[k + 5] = h[k] + Five(w, k)
  BY <1>2, FiveSteps
<1>4. h[0 + 5] = h[0] + Five(w, 0)
  BY <1>3
<1>5. h[5 + 5] = h[5] + Five(w, 5)
  BY <1>3
<1>6. h[10 + 5] = h[10] + Five(w, 10)
  BY <1>3
<1>7. Five(w, 0) \in Int /\ Five(w, 5) \in Int /\ Five(w, 10) \in Int
  BY <1>3
<1>8. QED
  BY <1>2, <1>4, <1>5, <1>6, <1>7

Matches(client, i) == client.ua \cap KnownPatterns[i].names # {}

\* What the code knows of its patterns.
LEMMA TenPatterns ==
  /\ DOMAIN KnownPatterns = 1 .. 10
  /\ \A i \in 1 .. 10 : KnownPatterns[i].confidence \in 15 .. 97
  /\ KnownPatterns[1].confidence = 95 /\ KnownPatterns[2].confidence = 95
  /\ KnownPatterns[3].confidence = 92 /\ KnownPatterns[4].confidence = 97
  /\ KnownPatterns[5].confidence = 97 /\ KnownPatterns[6].confidence = 94
  /\ KnownPatterns[7].confidence = 95 /\ KnownPatterns[8].confidence = 90
  /\ KnownPatterns[9].confidence = 15 /\ KnownPatterns[10].confidence = 70
  /\ KnownPatterns[6].names = {"gemini", "google-extended", "googleother-image", "googleother-video"}
<1>1. DOMAIN KnownPatterns = 1 .. 10
  BY DEF KnownPatterns
<1>2. /\ KnownPatterns[1].confidence = 95 /\ KnownPatterns[2].confidence = 95
  BY DEF KnownPatterns, Pattern
<1>3. /\ KnownPatterns[3].confidence = 92 /\ KnownPatterns[4].confidence = 97
  BY DEF KnownPatterns, Pattern
<1>4. /\ KnownPatterns[5].confidence = 97 /\ KnownPatterns[6].confidence = 94
  BY DEF KnownPatterns, Pattern
<1>5. /\ KnownPatterns[7].confidence = 95 /\ KnownPatterns[8].confidence = 90
  BY DEF KnownPatterns, Pattern
<1>6. /\ KnownPatterns[9].confidence = 15 /\ KnownPatterns[10].confidence = 70
  BY DEF KnownPatterns, Pattern
<1>7. KnownPatterns[6].names = {"gemini", "google-extended", "googleother-image", "googleother-video"}
  BY DEF KnownPatterns, Pattern
<1>8. \A i \in 1 .. 10 : i = 1 \/ i = 2 \/ i = 3 \/ i = 4 \/ i = 5 \/ i = 6 \/ i = 7 \/ i = 8 \/ i = 9 \/ i = 10
  OBVIOUS
<1>9. \A i \in 1 .. 10 : KnownPatterns[i].confidence \in 15 .. 97
  BY <1>2, <1>3, <1>4, <1>5, <1>6, <1>8
<1>10. QED
  BY <1>1, <1>2, <1>3, <1>4, <1>5, <1>6, <1>7, <1>9

\* The score less half of the number of indicators, indicator by indicator.
ExcessOf(weight) == weight - 500 * Points(weight > 0, 1)

FiveExcess(w, k) ==
  ExcessOf(w[k + 1]) + ExcessOf(w[k + 2]) + ExcessOf(w[k + 3]) + ExcessOf(w[k + 4])
    + ExcessOf(w[k + 5])

\* A mean above a half: what the weights exceed a half by, in sum, is above zero.
LEMMA IsBotByExcess ==
  ASSUME NEW client, NEW w \in [1 .. 15 -> Int], Weights(client) = w
  PROVE  IsBot(client) <=> FiveExcess(w, 0) + FiveExcess(w, 5) + FiveExcess(w, 10) > 0
<1> DEFINE f == [i \in DOMAIN w |-> Points(w[i] > 0, 1)]
<1>1. \A i \in 1 .. 15 : w[i] \in Int
  OBVIOUS
<1>2. \A i \in 1 .. 15 : f[i] \in Int /\ ExcessOf(w[i]) = w[i] - 500 * f[i]
  <2>1. \A i \in 1 .. 15 : f[i] = Points(w[i] > 0, 1)
    OBVIOUS
  <2>2. \A i \in 1 .. 15 : Points(w[i] > 0, 1) \in Int
    BY DEF Points
  <2>3. QED
    BY <2>1, <2>2 DEF ExcessOf
<1>3. f \in [1 .. 15 -> Int]
  BY <1>2
<1>4. IsBot(client) <=> Sum(w) > 500 * Sum(f)
  BY DEF IsBot, Found
<1> HIDE DEF f
<1>6. Sum(f) = Five(f, 0) + Five(f, 5) + Five(f, 10)
  BY <1>3, SumOfFifteen
<1>7. Sum(w) = Five(w, 0) + Five(w, 5) + Five(w, 10)
  BY SumOfFifteen
<1>8. ASSUME NEW k \in 0 .. 10
      PROVE  /\ FiveExcess(w, k) = Five(w, k) - 500 * Five(f, k)
             /\ Five(w, k) \in Int /\ Five(f, k) \in Int
  <2>1. /\ w[k + 1] \in Int /\ w[k + 2] \in Int /\ w[k + 3] \in Int
        /\ w[k + 4] \in Int /\ w[k + 5] \in Int
    BY <1>1
  <2>2. /\ f[k + 1] \in Int /\ f[k + 2] \in Int /\ f[k + 3] \in Int
        /\ f[k + 4] \in Int /\ f[k + 5] \in Int
    BY <1>2
  <2>3. /\ ExcessOf(w[k + 1]) = w[k + 1] - 500 * f[k + 1]
        /\ ExcessOf(w[k + 2]) = w[k + 2] - 500 * f[k + 2]
        /\ ExcessOf(w[k + 3]) = w[k + 3] - 500 * f[k + 3]
        /\ ExcessOf(w[k + 4]) = w[k + 4] - 500 * f[k + 4]
        /\ ExcessOf(w[k + 5]) = w[k + 5] - 500 * f[k + 5]
    BY <1>2
  <2>4. QED
    BY <2>1, <2>2, <2>3 DEF Five, FiveExcess
<1>9. 0 \in 0 .. 10 /\ 5 \in 0 .. 10 /\ 10 \in 0 .. 10
  OBVIOUS
<1>10. QED
  BY <1>4, <1>6, <1>7, <1>8, <1>9

\* The numbers of the patterns a client matches, counted.
LEMMA CountStep ==
  ASSUME NEW s, IsFiniteSet(s), NEW n \in Nat, NEW m \in Nat, n = m + 1
  PROVE  /\ Cardinality(s \cap (1 .. n)) = Cardinality(s \cap (1 .. m)) + IF n \in s THEN 1 ELSE 0
         /\ Cardinality(s \cap (1 .. m)) \in Nat
<1>1. IsFiniteSet(s \cap (1 .. m)) /\ Cardinality(s \cap (1 .. m)) \in Nat
  BY FS_Intersection, FS_CardinalityType
<1>2. CASE n \in s
  <2>1. s \cap (1 .. n) = (s \cap (1 .. m)) \cup {n} /\ n \notin s \cap (1 .. m)
    BY <1>2
  <2>2. QED
    BY <1>1, <1>2, <2>1, FS_AddElement
<1>3. CASE n \notin s
  <2>1. s \cap (1 .. n) = s \cap (1 .. m)
    BY <1>3
  <2>2. QED
    BY <1>1, <1>3, <2>1
<1>4. QED
  BY <1>2, <1>3

Excess(c, n) == IF c THEN n - 500 ELSE 0

TotalExcess(client) ==
  (Excess(IsHeadless(client.ua, client.headers), 850) + Excess(IsAiBot(client.ua), 900)
     + Excess(IsTool(client.ua, client.headers), 880)
     + Excess(Inconsistency(client.ua, client.headers) > 500,
              (Inconsistency(client.ua, client.headers) * 6) \div 10)
     + Excess(client.velocity > 600, (client.velocity * 4) \div 10))
  + (Excess(Matches(client, 1), 475) + Excess(Matches(client, 2), 475)
     + Excess(Matches(client, 3), 460) + Excess(Matches(client, 4), 485)
     + Excess(Matches(client, 5), 485))
  + (Excess(Matches(client, 6), 470) + Excess(Matches(client, 7), 475)
     + Excess(Matches(client, 8), 450) + Excess(Matches(client, 9), 75)
     + Excess(Matches(client, 10), 350))

\* The same, weight by weight.
LEMMA IsBotIff ==
  ASSUME NEW client, Inconsistency(client.ua, client.headers) \in 0 .. 1000,
         client.velocity \in 0 .. 1000
  PROVE  IsBot(client) <=> TotalExcess(client) > 0
<1> DEFINE ua == client.ua
           i == Inconsistency(client.ua, client.headers)
           v == client.velocity
           pattern(k) == Points(ua \cap KnownPatterns[k].names # {}, 5 * KnownPatterns[k].confidence)
           p1 == Points(IsHeadless(client.ua, client.headers), 850)
           p2 == Points(IsAiBot(client.ua), 900)
           p3 == Points(IsTool(client.ua, client.headers), 880)
           p4 == Points(i > 500, (i * 6) \div 10)
           p5 == Points(v > 600, (v * 4) \div 10)
           w == <<p1, p2, p3, p4, p5, pattern(1), pattern(2), pattern(3), pattern(4), pattern(5),
                  pattern(6), pattern(7), pattern(8), pattern(9), pattern(10)>>
<1>1. Weights(client) = w
  BY DEF Weights
<1>2. /\ p1 \in Int /\ ExcessOf(p1) = Excess(IsHeadless(client.ua, client.headers), 850)
      /\ p2 \in Int /\ ExcessOf(p2) = Excess(IsAiBot(client.ua), 900)
      /\ p3 \in Int /\ ExcessOf(p3) = Excess(IsTool(client.ua, client.headers), 880)
  BY DEF Excess, Points, ExcessOf
<1>3. /\ p4 \in Int /\ ExcessOf(p4) = Excess(i > 500, (i * 6) \div 10)
      /\ p5 \in Int /\ ExcessOf(p5) = Excess(v > 600, (v * 4) \div 10)
  <2>0. i \in 0 .. 1000 /\ v \in 0 .. 1000
    OBVIOUS
  <2> HIDE DEF i, v
  <2>1. (i > 500 => (i * 6) \div 10 \in Nat \ {0}) /\ (v > 600 => (v * 4) \div 10 \in Nat \ {0})
    BY ONLY <2>0
  <2>2. QED
    BY <2>1 DEF Excess, Points, ExcessOf
<1>4. ASSUME NEW k \in 1 .. 10
      PROVE  /\ pattern(k) \in Int
             /\ ExcessOf(pattern(k)) = Excess(Matches(client, k), 5 * KnownPatterns[k].confidence)
  <2>1. KnownPatterns[k].confidence \in 15 .. 97
    BY TenPatterns
  <2>2. QED
    BY <2>1 DEF Excess, Points, ExcessOf, Matches
<1> HIDE DEF p1, p2, p3, p4, p5, pattern
<1>5. /\ ExcessOf(pattern(1)) = Excess(Matches(client, 1), 475)
      /\ ExcessOf(pattern(2)) = Excess(Matches(client, 2), 475)
      /\ ExcessOf(pattern(3)) = Excess(Matches(client, 3), 460)
      /\ ExcessOf(pattern(4)) = Excess(Matches(client, 4), 485)
      /\ ExcessOf(pattern(5)) = Excess(Matches(client, 5), 485)
  <2>1. /\ 5 * KnownPatterns[1].confidence = 475 /\ 5 * KnownPatterns[2].confidence = 475
        /\ 5 * KnownPatterns[3].confidence = 460 /\ 5 * KnownPatterns[4].confidence = 485
        /\ 5 * KnownPatterns[5].confidence = 485
    BY TenPatterns
  <2>2. QED
    BY <1>4, <2>1
<1>6. /\ ExcessOf(pattern(6)) = Excess(Matches(client, 6), 470)
      /\ ExcessOf(pattern(7)) = Excess(Matches(client, 7), 475)
      /\ ExcessOf(pattern(8)) = Excess(Matches(client, 8), 450)
      /\ ExcessOf(pattern(9)) = Excess(Matches(client, 9), 75)
      /\ ExcessOf(pattern(10)) = Excess(Matches(client, 10), 350)
  <2>1. /\ 5 * KnownPatterns[6].confidence = 470 /\ 5 * KnownPatterns[7].confidence = 475
        /\ 5 * KnownPatterns[8].confidence = 450 /\ 5 * KnownPatterns[9].confidence = 75
        /\ 5 * KnownPatterns[10].confidence = 350
    BY TenPatterns
  <2>2. QED
    BY <1>4, <2>1
<1>7. /\ w \in [1 .. 15 -> Int]
      /\ w[1] = p1 /\ w[2] = p2 /\ w[3] = p3 /\ w[4] = p4 /\ w[5] = p5
      /\ w[6] = pattern(1) /\ w[7] = pattern(2) /\ w[8] = pattern(3) /\ w[9] = pattern(4)
      /\ w[10] = pattern(5) /\ w[11] = pattern(6) /\ w[12] = pattern(7) /\ w[13] = pattern(8)
      /\ w[14] = pattern(9) /\ w[15] = pattern(10)
  <2>1. /\ pattern(1) \in Int /\ pattern(2) \in Int /\ pattern(3) \in Int /\ pattern(4) \in Int
        /\ pattern(5) \in Int /\ pattern(6) \in Int /\ pattern(7) \in Int /\ pattern(8) \in Int
        /\ pattern(9) \in Int /\ pattern(10) \in Int
    BY <1>4
  <2>2. /\ w[1] = p1 /\ w[2] = p2 /\ w[3] = p3 /\ w[4] = p4 /\ w[5] = p5
        /\ w[6] = pattern(1) /\ w[7] = pattern(2) /\ w[8] = pattern(3) /\ w[9] = pattern(4)
        /\ w[10] = pattern(5) /\ w[11] = pattern(6) /\ w[12] = pattern(7) /\ w[13] = pattern(8)
        /\ w[14] = pattern(9) /\ w[15] = pattern(10)
    OBVIOUS
  <2>3. p1 \in Int /\ p2 \in Int /\ p3 \in Int /\ p4 \in Int /\ p5 \in Int
    BY <1>2, <1>3
  <2>4. w \in [1 .. 15 -> Int]
    BY <2>1, <2>3
  <2>5. QED
    BY <2>2, <2>4
<1> HIDE DEF w
<1>8. IsBot(client) <=> FiveExcess(w, 0) + FiveExcess(w, 5) + FiveExcess(w, 10) > 0
  BY <1>1, <1>7, IsBotByExcess
<1>9. FiveExcess(w, 0) =
        Excess(IsHeadless(client.ua, client.headers), 850) + Excess(IsAiBot(client.ua), 900)
          + Excess(IsTool(client.ua, client.headers), 880)
          + Excess(i > 500, (i * 6) \div 10) + Excess(v > 600, (v * 4) \div 10)
  BY <1>2, <1>3, <1>7 DEF FiveExcess
<1>10. FiveExcess(w, 5) =
        Excess(Matches(client, 1), 475) + Excess(Matches(client, 2), 475)
              + Excess(Matches(client, 3), 460) + Excess(Matches(client, 4), 485)
              + Excess(Matches(client, 5), 485)
  BY <1>5, <1>7 DEF FiveExcess
<1>11. FiveExcess(w, 10) =
        Excess(Matches(client, 6), 470) + Excess(Matches(client, 7), 475)
              + Excess(Matches(client, 8), 450) + Excess(Matches(client, 9), 75)
              + Excess(Matches(client, 10), 350)
  BY <1>6, <1>7 DEF FiveExcess
<1>12. QED
  BY <1>8, <1>9, <1>10, <1>11 DEF TotalExcess

\* Browsers are found inconsistent by fifties.
LEMMA InconsistencyByFifties ==
  ASSUME NEW ua, NEW headers
  PROVE  Inconsistency(ua, headers) \in 0 .. 500 \cup 550 .. 1000
BY DEF Inconsistency, Points

\* Four of the first eight patterns at most: the cheapest four cost no more than 145.
LEMMA FourPatterns ==
  ASSUME NEW s \in SUBSET (1 .. 10)
  PROVE  /\ Cardinality(s) \in Nat
         /\ Cardinality(s) <= 4 =>
              (IF 1 \in s THEN 1 ELSE 0) + (IF 2 \in s THEN 1 ELSE 0) + (IF 3 \in s THEN 1 ELSE 0)
                + (IF 4 \in s THEN 1 ELSE 0) + (IF 5 \in s THEN 1 ELSE 0) + (IF 6 \in s THEN 1 ELSE 0)
                + (IF 7 \in s THEN 1 ELSE 0) + (IF 8 \in s THEN 1 ELSE 0) <= 4
<1> DEFINE c(k) == Cardinality(s \cap (1 .. k))
<1>1. IsFiniteSet(s)
  <2>1. \A n \in Nat : IsFiniteSet(1 .. n)
    BY FS_Interval
  <2>2. QED
    BY <2>1, FS_Subset
<1>2. \A m \in Nat : \A n \in Nat : n = m + 1 =>
        c(n) = c(m) + (IF n \in s THEN 1 ELSE 0) /\ c(m) \in Nat
  BY <1>1, CountStep
<1>3. c(0) \in Nat /\ c(10) = Cardinality(s)
  <2>1. s \cap (1 .. 10) = s
    OBVIOUS
  <2>2. c(0) \in Nat
    <3>1. 1 = 0 + 1 /\ 0 \in Nat /\ 1 \in Nat
      OBVIOUS
    <3>2. QED
      BY <1>2, <3>1
  <2>3. QED
    BY <2>1, <2>2
<1> HIDE DEF c
<1>4. /\ c(1) = c(0) + (IF 1 \in s THEN 1 ELSE 0)
      /\ c(2) = c(1) + (IF 2 \in s THEN 1 ELSE 0) /\ c(1) \in Nat
      /\ c(3) = c(2) + (IF 3 \in s THEN 1 ELSE 0) /\ c(2) \in Nat
      /\ c(4) = c(3) + (IF 4 \in s THEN 1 ELSE 0) /\ c(3) \in Nat
      /\ c(5) = c(4) + (IF 5 \in s THEN 1 ELSE 0) /\ c(4) \in Nat
  BY <1>2
<1>5. /\ c(6) = c(5) + (IF 6 \in s THEN 1 ELSE 0) /\ c(5) \in Nat
      /\ c(7) = c(6) + (IF 7 \in s THEN 1 ELSE 0) /\ c(6) \in Nat
      /\ c(8) = c(7) + (IF 8 \in s THEN 1 ELSE 0) /\ c(7) \in Nat
      /\ c(9) = c(8) + (IF 9 \in s THEN 1 ELSE 0) /\ c(8) \in Nat
      /\ c(10) = c(9) + (IF 10 \in s THEN 1 ELSE 0) /\ c(9) \in Nat
  BY <1>2
<1>6. QED
  BY <1>3, <1>4, <1>5

\* What is known of the client just scored.
ClientsKept ==
  \A client \in scored :
    client.ua \in UserAgents /\ client.velocity \in {0, 300, 400, 600, 700, 900, 1000}

\* The velocity is one of seven.
LEMMA VelocityIs ==
  ASSUME NEW times
  PROVE  Velocity(times) \in {0, 300, 400, 600, 700, 900, 1000}
BY DEF Velocity

Matched(client) == {i \in DOMAIN KnownPatterns : client.ua \cap KnownPatterns[i].names # {}}

\* Whoever names an AI bot or a tool exceeds it, outside the exceptions.
LEMMA NamedIsBot ==
  ASSUME NEW client, client.ua \in UserAgents,
         client.velocity \in {0, 300, 400, 600, 700, 900, 1000},
         IsAiBot(client.ua) \/ IsTool(client.ua, client.headers),
         Matched(client) \cap {9, 10} = {},
         ~(client.velocity > 600 /\ (\/ Inconsistency(client.ua, client.headers) > 500
                                     \/ Cardinality(Matched(client)) > 4))
  PROVE  IsBot(client)
<1>1. Matched(client) \in SUBSET (1 .. 10) /\ \A k \in 1 .. 10 : k \in Matched(client) <=> Matches(client, k)
  BY TenPatterns DEF Matched, Matches
<1>2. Cardinality(Matched(client)) \in Nat
  BY <1>1, FourPatterns
<1>3. Inconsistency(client.ua, client.headers) \in 0 .. 500 \cup 550 .. 1000
  BY InconsistencyByFifties
<1>4. client.velocity > 600 =>
        Inconsistency(client.ua, client.headers) <= 500 /\ Cardinality(Matched(client)) <= 4
  BY <1>2, <1>3
<1>5. ~ Matches(client, 9) /\ ~ Matches(client, 10)
  BY <1>1
<1>6. Matches(client, 6) => IsAiBot(client.ua)
  BY TenPatterns, BotAssumption DEF Matches, IsAiBot, AiNames
<1>7. Inconsistency(client.ua, client.headers) \in 0 .. 1000 /\ client.velocity \in 0 .. 1000
  BY <1>3
<1>8. IsBot(client) <=> TotalExcess(client) > 0
  BY ONLY <1>7, IsBotIff
<1> DEFINE v == client.velocity
           i == Inconsistency(client.ua, client.headers)
           h == Excess(IsHeadless(client.ua, client.headers), 850)
           a == Excess(IsAiBot(client.ua), 900)
           t == Excess(IsTool(client.ua, client.headers), 880)
           s == Matched(client)
           x == Excess(i > 500, (i * 6) \div 10)
           y == Excess(v > 600, (v * 4) \div 10)
           e1 == Excess(Matches(client, 1), 475)
           e2 == Excess(Matches(client, 2), 475)
           e3 == Excess(Matches(client, 3), 460)
           e4 == Excess(Matches(client, 4), 485)
           e5 == Excess(Matches(client, 5), 485)
           e6 == Excess(Matches(client, 6), 470)
           e7 == Excess(Matches(client, 7), 475)
           e8 == Excess(Matches(client, 8), 450)
<1>9. s \in SUBSET (1 .. 10) /\ \A k \in 1 .. 10 : k \in s <=> Matches(client, k)
  BY <1>1
<1> HIDE DEF s
<1>10. h \in {0, 350} /\ a \in {0, 400} /\ t \in {0, 380} /\ (a # 0 \/ t # 0)
  BY DEF Excess
<1>11. x \in Int /\ x >= -170 /\ (x # 0 => i > 500)
  <2>1. i \in 0 .. 500 \cup 550 .. 1000
    BY <1>3
  <2> HIDE DEF i
  <2>2. i > 500 => (i * 6) \div 10 >= 330 /\ (i * 6) \div 10 \in Int
    BY <2>1
  <2>3. QED
    BY <2>2 DEF Excess
<1>12. y \in Int /\ y >= -220 /\ (y # 0 => v > 600)
  <2>1. v > 600 => (v * 4) \div 10 >= 280 /\ (v * 4) \div 10 \in Int
    OBVIOUS
  <2>2. QED
    BY <2>1 DEF Excess
<1>13. /\ e1 \in {0, -25} /\ (e1 # 0 <=> 1 \in s)
      /\ e2 \in {0, -25} /\ (e2 # 0 <=> 2 \in s)
      /\ e3 \in {0, -40} /\ (e3 # 0 <=> 3 \in s)
      /\ e4 \in {0, -15} /\ (e4 # 0 <=> 4 \in s)
  BY <1>9 DEF Excess
<1>14. /\ e5 \in {0, -15} /\ (e5 # 0 <=> 5 \in s)
      /\ e6 \in {0, -30} /\ (e6 # 0 <=> 6 \in s)
      /\ e7 \in {0, -25} /\ (e7 # 0 <=> 7 \in s)
      /\ e8 \in {0, -50} /\ (e8 # 0 <=> 8 \in s)
  BY <1>9 DEF Excess
<1>15. e6 # 0 => a # 0
  BY <1>6 DEF Excess
<1>16. Excess(Matches(client, 9), 75) = 0 /\ Excess(Matches(client, 10), 350) = 0
  BY <1>5 DEF Excess
<1>17. IsBot(client) <=> (h + a + t + x + y) + (e1 + e2 + e3 + e4 + e5) + (e6 + e7 + e8 + 0 + 0) > 0
  <2>1. IsBot(client) <=>
          (h + a + t + x + y) + (e1 + e2 + e3 + e4 + e5)
            + (e6 + e7 + e8 + Excess(Matches(client, 9), 75) + Excess(Matches(client, 10), 350)) > 0
    <3>1. TotalExcess(client) =
            (h + a + t + x + y) + (e1 + e2 + e3 + e4 + e5)
              + (e6 + e7 + e8 + Excess(Matches(client, 9), 75) + Excess(Matches(client, 10), 350))
      BY Zenon DEF TotalExcess
    <3> HIDE DEF h, a, t, x, y, e1, e2, e3, e4, e5, e6, e7, e8
    <3>2. QED
      BY <1>8, <3>1
  <2> HIDE DEF h, a, t, x, y, e1, e2, e3, e4, e5, e6, e7, e8
  <2>2. QED
    BY <1>16, <2>1
<1> HIDE DEF v, i, h, a, t, x, y, e1, e2, e3, e4, e5, e6, e7, e8
<1>18. y # 0 => x = 0 /\ Cardinality(s) <= 4
  BY <1>11, <1>12, <1>4 DEF v, i, s
<1>19. Cardinality(s) <= 4 =>
         (IF e1 # 0 THEN 1 ELSE 0) + (IF e2 # 0 THEN 1 ELSE 0) + (IF e3 # 0 THEN 1 ELSE 0)
           + (IF e4 # 0 THEN 1 ELSE 0) + (IF e5 # 0 THEN 1 ELSE 0) + (IF e6 # 0 THEN 1 ELSE 0)
           + (IF e7 # 0 THEN 1 ELSE 0) + (IF e8 # 0 THEN 1 ELSE 0) <= 4
  BY <1>9, <1>13, <1>14, FourPatterns
<1>20. (h + a + t + x + y) + (e1 + e2 + e3 + e4 + e5) + (e6 + e7 + e8 + 0 + 0) > 0
  BY ONLY <1>10, <1>11, <1>12, <1>13, <1>14, <1>15, <1>18, <1>19
<1>21. QED
  BY <1>17, <1>20

\* Whatever else a client names (bot_detector.rs:85-160).
THEOREM BotNamedFound == BotSpec => []NamedBotsFound
<1>1. BotInit => ClientsKept
  BY DEF BotInit, ClientsKept
<1>2. ClientsKept /\ [BotNext]_botVars => ClientsKept'
  <2> SUFFICES ASSUME ClientsKept, [BotNext]_botVars PROVE ClientsKept'
    OBVIOUS
  <2>1. ASSUME NEW ua \in UserAgents, NEW headers \in HeaderSets, CalculateBotScore(ua, headers)
        PROVE  ClientsKept'
    BY <2>1, VelocityIs DEF CalculateBotScore, ClientsKept
  <2>2. ASSUME scored' = {} \/ UNCHANGED scored PROVE ClientsKept'
    BY <2>2 DEF ClientsKept
  <2>3. QED
    BY <2>1, <2>2 DEF BotNext, ClientNext, SessionNext, Pause, GenerateChallenge, TrackCookie, botVars
<1>3. ASSUME ClientsKept PROVE NamedBotsFound
  <2>1. ASSUME NEW client \in scored, IsAiBot(client.ua) \/ IsTool(client.ua, client.headers),
               Matched(client) \cap {9, 10} = {},
               ~(client.velocity > 600 /\ (\/ Inconsistency(client.ua, client.headers) > 500
                                           \/ Cardinality(Matched(client)) > 4))
        PROVE  IsBot(client)
    <3>1. client.ua \in UserAgents /\ client.velocity \in {0, 300, 400, 600, 700, 900, 1000}
      BY <1>3 DEF ClientsKept
    <3>2. QED
      BY <2>1, <3>1, NamedIsBot
  <2>2. QED
    BY <2>1 DEF NamedBotsFound, Matched
<1>4. QED
  BY <1>1, <1>2, <1>3, PTL DEF BotSpec

----------------------------------------------------------------------------
(* BotDetector: the challenges.                                             *)

Challenge == [question : Questions, solution : Int, issued_at : Nat, expires_at : Nat]

BotInv ==
  /\ hour \in Nat
  /\ challenges \in Seq(Challenge)
  /\ \A id \in DOMAIN challenges :
       /\ challenges[id].solution = Solution(challenges[id].question)
       /\ challenges[id].expires_at = challenges[id].issued_at + ChallengeTtl

\* A word holds what is less than its size.
LEMMA WordHolds == ASSUME NEW w \in Nat, NEW x \in Nat, x < w PROVE x % w = x
  OBVIOUS

\* A product of two numbers is a number, and no less than either when the other is not 0.
LEMMA ProductBounds ==
  ASSUME NEW m \in Nat, NEW n \in Nat, NEW c \in Nat \ {0}, m <= n
  PROVE  m * c \in Nat /\ n * c \in Nat /\ m * c <= n * c /\ m <= m * c
<1>1. /\ n * c = m * c + (n - m) * c /\ m * c = m + m * (c - 1)
  OBVIOUS
<1>2. n - m \in Nat /\ c - 1 \in Nat
  OBVIOUS
<1>3. m * c \in Nat /\ (n - m) * c \in Nat /\ m * (c - 1) \in Nat /\ n * c \in Nat
  BY <1>2
<1>4. QED
  BY <1>1, <1>3

\* The solution kept is the value a browser finds, unless that is below zero.
LEMMA SolutionIsValue ==
  ASSUME NEW q \in Questions
  PROVE  Value(q) = Solution(q) <=> ~(q.operation = 3 /\ q.a < q.b)
<1>1. PICK a, b, c, op, w : a = q.a /\ b = q.b /\ c = q.c /\ op = q.operation /\ w = WordSize
  OBVIOUS
<1>2. /\ a \in Nat /\ b \in Nat /\ c \in Nat \ {0} /\ w \in Nat /\ op \in 0 .. 3
      /\ a * b + c < w /\ (a + b) * c < w /\ c <= a * b
  BY <1>1, BotAssumption
<1>3. a * b \in Nat /\ a + b \in Nat /\ (a + b) * c \in Nat /\ a + b <= (a + b) * c
  BY <1>2, ProductBounds
<1>4. CASE op = 0
  <2>1. (a * b) % w = a * b /\ (a * b + c) % w = a * b + c
    BY <1>2, <1>3, WordHolds
  <2>2. QED
    BY <1>1, <1>4, <2>1 DEF Value, Solution
<1>5. CASE op = 1
  <2>1. (a + b) % w = a + b /\ ((a + b) * c) % w = (a + b) * c
    BY <1>2, <1>3, WordHolds
  <2>2. QED
    BY <1>1, <1>5, <2>1 DEF Value, Solution
<1>6. CASE op = 2
  <2>1. (a * b) % w = a * b /\ (a * b - c) % w = a * b - c
    BY <1>2, <1>3, WordHolds
  <2>2. QED
    BY <1>1, <1>6, <2>1 DEF Value, Solution
<1>7. CASE op = 3 /\ a >= b
  <2>1. a - b \in Nat /\ a - b <= a + b /\ a - b < w
    BY <1>2, <1>3, <1>7
  <2>2. (a - b) * c \in Nat /\ (a - b) * c <= (a + b) * c
    BY <1>2, <1>3, <2>1, ProductBounds
  <2>3. (a - b) % w = a - b /\ ((a - b) * c) % w = (a - b) * c
    BY <1>2, <1>3, <2>1, <2>2, WordHolds
  <2>4. QED
    BY <1>1, <1>2, <1>7, <2>3 DEF Value, Solution
<1>8. CASE op = 3 /\ a < b
  <2>1. b - a \in Nat /\ 1 <= b - a
    BY <1>2, <1>8
  <2>2. (b - a) * c \in Nat /\ b - a <= (b - a) * c
    BY <1>2, <2>1, ProductBounds
  <2>3. (a - b) * c = 0 - (b - a) * c
    BY <1>2
  <2>4. (a - b) * c < 0
    BY <2>1, <2>2, <2>3
  <2>5. (((a - b) % w) * c) % w >= 0
    <3>1. w > 0 /\ w \in Nat
      BY <1>2, <1>3
    <3>2. (a - b) % w \in Nat
      BY <1>2, <3>1
    <3>3. ((a - b) % w) * c \in Nat
      BY <1>2, <3>2
    <3>4. QED
      BY <3>1, <3>3
  <2>6. Value(q) = (a - b) * c /\ Solution(q) = (((a - b) % w) * c) % w
    BY <1>1, <1>8 DEF Value, Solution
  <2>7. Value(q) < 0 /\ Solution(q) >= 0
    BY <2>4, <2>5, <2>6
  <2>8. Value(q) # Solution(q)
    <3>1. ASSUME Value(q) = Solution(q) PROVE FALSE
      BY <1>2, <2>4, <2>5, <2>6, <3>1
    <3>2. QED
      BY <3>1
  <2>9. QED
    BY <1>1, <1>8, <2>8
<1>9. QED
  BY <1>2, <1>4, <1>5, <1>6, <1>7, <1>8

\* Every step keeps the challenges with their solutions.
LEMMA BotNextKeeps == ASSUME BotInv, [BotNext]_botVars PROVE BotInv'
<1>1. ASSUME NEW session \in Sessions, NEW q \in Questions, GenerateChallenge(session, q)
      PROVE  BotInv'
  <2> DEFINE new == [question |-> q, solution |-> Solution(q),
                     issued_at |-> hour, expires_at |-> hour + ChallengeTtl]
  <2>1. Solution(q) \in Int
    <3>1. PICK a, b, c, op, w : a = q.a /\ b = q.b /\ c = q.c /\ op = q.operation /\ w = WordSize
      OBVIOUS
    <3>2. /\ a \in Nat /\ b \in Nat /\ c \in Nat \ {0} /\ w \in Nat /\ op \in 0 .. 3
          /\ a * b + c < w
      BY <3>1, BotAssumption
    <3>3. a * b \in Nat /\ w \in Nat \ {0}
      BY <3>2
    <3>4. \A x \in Int : x % w \in Int
      BY <3>3
    <3>5. /\ (((a * b) % w) + c) \in Int /\ (((a + b) % w) * c) \in Int
          /\ (((a * b) % w) - c) \in Int /\ (((a - b) % w) * c) \in Int
      BY <3>2, <3>3, <3>4
    <3>6. /\ (((a * b) % w) + c) % w \in Int /\ (((a + b) % w) * c) % w \in Int
          /\ (((a * b) % w) - c) % w \in Int /\ (((a - b) % w) * c) % w \in Int
      BY <3>4, <3>5
    <3>7. op = 0 \/ op = 1 \/ op = 2 \/ op = 3
      BY <3>2
    <3>8. QED
      BY <3>1, <3>6, <3>7 DEF Solution
  <2>2. new \in Challenge /\ new.solution = Solution(new.question)
        /\ new.expires_at = new.issued_at + ChallengeTtl
    BY <2>1, BotAssumption DEF BotInv, Challenge
  <2> HIDE DEF new
  <2>3. challenges' = Append(challenges, new) /\ hour' = hour
    BY <1>1 DEF GenerateChallenge, new
  <2>4. challenges' \in Seq(Challenge)
    BY <2>2, <2>3 DEF BotInv
  <2>5. \A id \in DOMAIN challenges' :
          \/ id \in DOMAIN challenges /\ challenges'[id] = challenges[id]
          \/ challenges'[id] = new
    BY <2>3 DEF BotInv
  <2>6. QED
    BY <2>2, <2>3, <2>4, <2>5 DEF BotInv
<1>2. ASSUME NEW length \in Pauses, Pause(length) PROVE BotInv'
  BY <1>2, BotAssumption DEF Pause, BotInv
<1>3. ASSUME UNCHANGED <<hour, challenges>> PROVE BotInv'
  BY <1>3 DEF BotInv
<1>4. QED
  BY <1>1, <1>2, <1>3 DEF BotNext, ClientNext, SessionNext, CalculateBotScore, TrackCookie, botVars

\* generate_challenge and validate_challenge: the value of the question is accepted until
\* the challenge expires, except of a difference that wraps around (:213).
THEOREM BotChallengeAnswered == BotSpec => []ChallengeAnswered
<1>1. BotInit => BotInv
  BY DEF BotInit, BotInv
<1>2. BotInv /\ [BotNext]_botVars => BotInv'
  BY BotNextKeeps
<1>3. ASSUME BotInv PROVE ChallengeAnswered
  <2>1. ASSUME NEW id \in DOMAIN challenges
        PROVE  LET q == challenges[id].question
               IN  ValidateChallenge(id, Value(q))
                     <=> hour <= challenges[id].issued_at + ChallengeTtl
                         /\ ~(q.operation = 3 /\ q.a < q.b)
    <3>1. challenges[id].question \in Questions
      <4>1. challenges \in Seq(Challenge) /\ id \in 1 .. Len(challenges)
        BY <1>3, <2>1 DEF BotInv
      <4>2. challenges[id] \in Challenge
        BY <4>1
      <4>3. QED
        BY <4>2 DEF Challenge
    <3>2. challenges[id].solution = Solution(challenges[id].question)
          /\ challenges[id].expires_at = challenges[id].issued_at + ChallengeTtl
      BY <1>3, <2>1 DEF BotInv
    <3>3. QED
      BY <3>1, <3>2, SolutionIsValue DEF ValidateChallenge
  <2>2. QED
    BY <2>1 DEF ChallengeAnswered
<1>4. QED
  BY <1>1, <1>2, <1>3, PTL DEF BotSpec

----------------------------------------------------------------------------
(* TrafficBaseline.                                                         *)

\* The sum of the samples, sample by sample.
LEMMA SumOfTrail ==
  ASSUME NEW w \in Seq(Nat)
  PROVE  \E h \in [0 .. Len(w) -> Nat] :
           /\ h[0] = 0
           /\ \A k \in 1 .. Len(w) : h[k] = h[k - 1] + w[k]
           /\ SumOf(w) = h[Len(w)]
<1> DEFINE n == Len(w)
           All == Nat
           step == [k \in 1 .. n |-> [r \in All |-> r + w[k]]]
<1>1. n \in Nat /\ DOMAIN w = 1 .. n /\ 0 \in All
  OBVIOUS
<1>2. \A r \in All : \A k \in 1 .. n : r + w[k] \in All
  OBVIOUS
<1>3. \A k \in 1 .. n : step[k] \in [All -> All]
  BY <1>2
<1> HIDE DEF step, All, n
<1>4. PICK it \in [SUBSET (1 .. n) -> All] : Unfolds(it, n, 0, step)
  BY <1>1, <1>3, FoldExists
<1>5. it = [s \in SUBSET DOMAIN w |->
              IF s = {} THEN 0 ELSE it[s \ {Max(s)}] + w[Max(s)]]
  <2>1. ASSUME NEW s \in SUBSET (1 .. n), s # {}
        PROVE  step[Max(s)][it[s \ {Max(s)}]] = it[s \ {Max(s)}] + w[Max(s)]
    <3>1. Max(s) \in 1 .. n
      BY <1>1, <2>1, LargestOfUpTo
    <3>2. it[s \ {Max(s)}] \in All
      BY <1>4
    <3>3. QED
      BY <3>1, <3>2 DEF step
  <2>2. QED
    BY <1>1, <1>4, <2>1 DEF Unfolds
<1>6. PICK r : /\ r = [s \in SUBSET DOMAIN w |->
                         IF s = {} THEN 0 ELSE r[s \ {Max(s)}] + w[Max(s)]]
               /\ SumOf(w) = r[DOMAIN w]
  BY <1>5 DEF SumOf, FoldLeft, MapThenFoldSet
<1> DEFINE h == [k \in 0 .. n |-> r[1 .. k]]
<1>7. h[0] = 0 /\ h[n] = SumOf(w)
  BY <1>1, <1>6, InitialSegments
<1>8. ASSUME NEW k \in 1 .. n PROVE h[k] = h[k - 1] + w[k]
  <2>1. h[k] = r[1 .. k] /\ h[k - 1] = r[1 .. k - 1]
    BY <1>1
  <2>2. /\ 1 .. k \in SUBSET DOMAIN w /\ 1 .. k # {}
        /\ Max(1 .. k) = k /\ (1 .. k) \ {k} = 1 .. k - 1
    BY <1>1, InitialSegments
  <2>3. r[1 .. k] = r[(1 .. k) \ {Max(1 .. k)}] + w[Max(1 .. k)]
    BY <1>6, <2>2
  <2> HIDE DEF h
  <2>4. QED
    BY <2>1, <2>2, <2>3
<1> HIDE DEF h
<1>9. \A k \in 0 .. n : h[k] \in All
  <2> DEFINE Kept == {k \in 0 .. n : h[k] \in All}
  <2>1. 0 \in Kept
    BY <1>1, <1>7
  <2>2. ASSUME NEW k \in 1 .. n, k - 1 \in Kept PROVE k \in Kept
    <3>1. h[k - 1] \in All /\ k \in 0 .. n
      BY <1>1, <2>2
    <3>2. h[k] \in All
      BY <1>2, <1>8, <3>1
    <3>3. QED
      BY <3>1, <3>2
  <2> HIDE DEF Kept
  <2>3. \A k \in 0 .. n : k \in Kept
    BY <1>1, <2>1, <2>2, InductionUpTo
  <2>4. QED
    BY <2>3 DEF Kept
<1>10. h \in [0 .. n -> All]
  BY <1>9 DEF h
<1>11. QED
  BY <1>7, <1>8, <1>10 DEF n, All

\* The sum of their squares.
LEMMA SquaresOfTrail ==
  ASSUME NEW w \in Seq(Nat)
  PROVE  \E h \in [0 .. Len(w) -> Nat] :
           /\ h[0] = 0
           /\ \A k \in 1 .. Len(w) : h[k] = h[k - 1] + w[k] * w[k]
           /\ SquaresOf(w) = h[Len(w)]
<1> DEFINE n == Len(w)
           All == Nat
           step == [k \in 1 .. n |-> [r \in All |-> r + w[k] * w[k]]]
<1>1. n \in Nat /\ DOMAIN w = 1 .. n /\ 0 \in All
  OBVIOUS
<1>2. \A r \in All : \A k \in 1 .. n : r + w[k] * w[k] \in All
  OBVIOUS
<1>3. \A k \in 1 .. n : step[k] \in [All -> All]
  BY <1>2
<1> HIDE DEF step, All, n
<1>4. PICK it \in [SUBSET (1 .. n) -> All] : Unfolds(it, n, 0, step)
  BY <1>1, <1>3, FoldExists
<1>5. it = [s \in SUBSET DOMAIN w |->
              IF s = {} THEN 0 ELSE it[s \ {Max(s)}] + w[Max(s)] * w[Max(s)]]
  <2>1. ASSUME NEW s \in SUBSET (1 .. n), s # {}
        PROVE  step[Max(s)][it[s \ {Max(s)}]] = it[s \ {Max(s)}] + w[Max(s)] * w[Max(s)]
    <3>1. Max(s) \in 1 .. n
      BY <1>1, <2>1, LargestOfUpTo
    <3>2. it[s \ {Max(s)}] \in All
      BY <1>4
    <3>3. QED
      BY <3>1, <3>2 DEF step
  <2>2. QED
    BY <1>1, <1>4, <2>1 DEF Unfolds
<1>6. PICK r : /\ r = [s \in SUBSET DOMAIN w |->
                         IF s = {} THEN 0 ELSE r[s \ {Max(s)}] + w[Max(s)] * w[Max(s)]]
               /\ SquaresOf(w) = r[DOMAIN w]
  BY <1>5 DEF SquaresOf, FoldLeft, MapThenFoldSet
<1> DEFINE h == [k \in 0 .. n |-> r[1 .. k]]
<1>7. h[0] = 0 /\ h[n] = SquaresOf(w)
  BY <1>1, <1>6, InitialSegments
<1>8. ASSUME NEW k \in 1 .. n PROVE h[k] = h[k - 1] + w[k] * w[k]
  <2>1. h[k] = r[1 .. k] /\ h[k - 1] = r[1 .. k - 1]
    BY <1>1
  <2>2. /\ 1 .. k \in SUBSET DOMAIN w /\ 1 .. k # {}
        /\ Max(1 .. k) = k /\ (1 .. k) \ {k} = 1 .. k - 1
    BY <1>1, InitialSegments
  <2>3. r[1 .. k] = r[(1 .. k) \ {Max(1 .. k)}] + w[Max(1 .. k)] * w[Max(1 .. k)]
    BY <1>6, <2>2
  <2> HIDE DEF h
  <2>4. QED
    BY <2>1, <2>2, <2>3
<1> HIDE DEF h
<1>9. \A k \in 0 .. n : h[k] \in All
  <2> DEFINE Kept == {k \in 0 .. n : h[k] \in All}
  <2>1. 0 \in Kept
    BY <1>1, <1>7
  <2>2. ASSUME NEW k \in 1 .. n, k - 1 \in Kept PROVE k \in Kept
    <3>1. h[k - 1] \in All /\ k \in 0 .. n
      BY <1>1, <2>2
    <3>2. h[k] \in All
      BY <1>2, <1>8, <3>1
    <3>3. QED
      BY <3>1, <3>2
  <2> HIDE DEF Kept
  <2>3. \A k \in 0 .. n : k \in Kept
    BY <1>1, <2>1, <2>2, InductionUpTo
  <2>4. QED
    BY <2>3 DEF Kept
<1>10. h \in [0 .. n -> All]
  BY <1>9 DEF h
<1>11. QED
  BY <1>7, <1>8, <1>10 DEF n, All

\* Averages as they are kept, and as they are blended.
Averages == [num : Nat, den : Nat \ {0}]

\* A blend of an average and a sample is an average.
LEMMA BlendIs ==
  ASSUME NEW e \in Averages, NEW v \in Nat
  PROVE  /\ Blend(e, v) \in Averages
         /\ Blend(e, v).num = Alpha * v * e.den + (AlphaUnit - Alpha) * e.num
         /\ Blend(e, v).den = AlphaUnit * e.den
<1>1. Alpha \in Nat /\ AlphaUnit \in Nat /\ AlphaUnit > 0 /\ Alpha < AlphaUnit
  BY BaselineAssumption, OutlierAssumption
<1>2. Min({Alpha, AlphaUnit}) = Alpha
  <2>1. \A x \in {Alpha, AlphaUnit} : (\A y \in {Alpha, AlphaUnit} : x <= y) <=> x = Alpha
    BY <1>1
  <2>2. QED
    BY <2>1 DEF Min
<1>3. e.num \in Nat /\ e.den \in Nat /\ e.den > 0
  BY DEF Averages
<1>4. Alpha * v * e.den \in Nat
  <2>1. Alpha * v \in Nat
    BY <1>1
  <2>2. QED
    BY <1>3, <2>1
<1>5. (AlphaUnit - Alpha) * e.num \in Nat
  <2>1. AlphaUnit - Alpha \in Nat
    BY <1>1
  <2>2. QED
    BY <1>3, <2>1
<1>6. AlphaUnit * e.den \in Nat /\ AlphaUnit * e.den > 0
  BY <1>1, <1>3
<1>7. QED
  BY <1>2, <1>4, <1>5, <1>6 DEF Blend, Averages

\* The average, sample by sample after the first.
LEMMA EmaTrail ==
  ASSUME NEW base \in Averages, NEW w \in Seq(Nat)
  PROVE  \E h \in [0 .. Len(w) -> Averages] :
           /\ h[0] = base
           /\ \A k \in 1 .. Len(w) : h[k] = Blend(h[k - 1], w[k])
           /\ FoldLeft(Blend, base, w) = h[Len(w)]
<1> DEFINE n == Len(w)
           All == Averages
           step == [k \in 1 .. n |-> [r \in All |-> Blend(r, w[k])]]
<1>1. n \in Nat /\ DOMAIN w = 1 .. n /\ base \in All
  OBVIOUS
<1>2. \A r \in All : \A k \in 1 .. n : Blend(r, w[k]) \in All
  <2>1. \A k \in 1 .. n : w[k] \in Nat
    OBVIOUS
  <2>2. QED
    BY <2>1, BlendIs
<1>3. \A k \in 1 .. n : step[k] \in [All -> All]
  BY <1>2
<1> HIDE DEF step, All, n
<1>4. PICK it \in [SUBSET (1 .. n) -> All] : Unfolds(it, n, base, step)
  BY <1>1, <1>3, FoldExists
<1>5. it = [s \in SUBSET DOMAIN w |->
              IF s = {} THEN base ELSE Blend(it[s \ {Max(s)}], w[Max(s)])]
  <2>1. ASSUME NEW s \in SUBSET (1 .. n), s # {}
        PROVE  step[Max(s)][it[s \ {Max(s)}]] = Blend(it[s \ {Max(s)}], w[Max(s)])
    <3>1. Max(s) \in 1 .. n
      BY <1>1, <2>1, LargestOfUpTo
    <3>2. it[s \ {Max(s)}] \in All
      BY <1>4
    <3>3. QED
      BY <3>1, <3>2 DEF step
  <2>2. QED
    BY <1>1, <1>4, <2>1 DEF Unfolds
<1>6. PICK r : /\ r = [s \in SUBSET DOMAIN w |->
                         IF s = {} THEN base ELSE Blend(r[s \ {Max(s)}], w[Max(s)])]
               /\ FoldLeft(Blend, base, w) = r[DOMAIN w]
  BY <1>5 DEF FoldLeft, MapThenFoldSet
<1> DEFINE h == [k \in 0 .. n |-> r[1 .. k]]
<1>7. h[0] = base /\ h[n] = FoldLeft(Blend, base, w)
  BY <1>1, <1>6, InitialSegments
<1>8. ASSUME NEW k \in 1 .. n PROVE h[k] = Blend(h[k - 1], w[k])
  <2>1. h[k] = r[1 .. k] /\ h[k - 1] = r[1 .. k - 1]
    BY <1>1
  <2>2. /\ 1 .. k \in SUBSET DOMAIN w /\ 1 .. k # {}
        /\ Max(1 .. k) = k /\ (1 .. k) \ {k} = 1 .. k - 1
    BY <1>1, InitialSegments
  <2>3. r[1 .. k] = Blend(r[(1 .. k) \ {Max(1 .. k)}], w[Max(1 .. k)])
    BY <1>6, <2>2
  <2> HIDE DEF h
  <2>4. QED
    BY <2>1, <2>2, <2>3
<1> HIDE DEF h
<1>9. \A k \in 0 .. n : h[k] \in All
  <2> DEFINE Kept == {k \in 0 .. n : h[k] \in All}
  <2>1. 0 \in Kept
    BY <1>1, <1>7
  <2>2. ASSUME NEW k \in 1 .. n, k - 1 \in Kept PROVE k \in Kept
    <3>1. h[k - 1] \in All /\ k \in 0 .. n
      BY <1>1, <2>2
    <3>2. h[k] \in All
      BY <1>2, <1>8, <3>1
    <3>3. QED
      BY <3>1, <3>2
  <2> HIDE DEF Kept
  <2>3. \A k \in 0 .. n : k \in Kept
    BY <1>1, <2>1, <2>2, InductionUpTo
  <2>4. QED
    BY <2>3 DEF Kept
<1>10. h \in [0 .. n -> All]
  BY <1>9 DEF h
<1>11. QED
  BY <1>7, <1>8, <1>10 DEF n, All

\* One sample more: what the sums are bounded by.
LEMMA MomentStep ==
  ASSUME NEW k \in Nat, NEW s \in Nat, NEW q \in Nat, NEW x \in Nat, NEW top \in Nat, x <= top,
         s <= k * top, q <= top * s, k * q >= s * s
  PROVE  /\ s + x <= (k + 1) * top
         /\ q + x * x <= top * (s + x)
         /\ (k + 1) * (q + x * x) >= (s + x) * (s + x)
         /\ (k + 1) * (q + x * x) = (s + x) * (s + x) => k * q = s * s /\ k * x = s
<1>1. s + x <= (k + 1) * top
  <2>1. (k + 1) * top = k * top + top /\ k * top \in Nat
    OBVIOUS
  <2>2. QED
    BY <2>1
<1>2. q + x * x <= top * (s + x)
  <2>1. top * (s + x) = top * s + top * x /\ top * s \in Nat /\ top * x \in Nat /\ x * x \in Nat
    OBVIOUS
  <2>2. x * x <= top * x
    OBVIOUS
  <2>3. QED
    BY <2>1, <2>2
<1>3. CASE k = 0
  <2>1. s = 0 /\ q = 0
    BY <1>3
  <2>2. QED
    BY <1>1, <1>2, <1>3, <2>1
<1>4. CASE k > 0
  <2> DEFINE d == k * q - s * s
             e == (k + 1) * (q + x * x) - (s + x) * (s + x)
             y == s - k * x
  <2>1. d \in Nat /\ e \in Int /\ y \in Int
    OBVIOUS
  <2>2. k * e = (k + 1) * d + y * y
    OBVIOUS
  <2> HIDE DEF d, e, y
  <2>3. y * y >= 0 /\ (y * y = 0 => y = 0) /\ y * y \in Int
    BY <2>1
  <2>4. (k + 1) * d >= 0 /\ ((k + 1) * d = 0 => d = 0) /\ (k + 1) * d \in Int
    BY <2>1
  <2>5. k * e >= 0
    BY <2>2, <2>3, <2>4
  <2>6. e >= 0
    BY <1>4, <2>1, <2>5
  <2>7. e = 0 => d = 0 /\ y = 0
    BY <2>2, <2>3, <2>4
  <2>8. QED
    BY <1>1, <1>2, <2>6, <2>7 DEF d, e, y
<1>5. QED
  BY <1>3, <1>4

\* One time more.
LEMMA OneTimeMore ==
  ASSUME NEW j \in Nat, NEW x \in Nat
  PROVE  (j + 1) * x = j * x + x
OBVIOUS

\* A factor that is not zero can be left out.
LEMMA CancelFactor ==
  ASSUME NEW j \in Nat, j > 0, NEW x \in Nat, NEW y \in Nat, j * x = j * y
  PROVE  x = y
OBVIOUS

\* The sums of the samples: bounded by the number of samples and the largest of them,
\* and with a variance that is zero of equal samples only.
LEMMA Moments ==
  ASSUME NEW w \in Seq(Nat), NEW top \in Nat, \A i \in 1 .. Len(w) : w[i] <= top
  PROVE  /\ SumOf(w) \in Nat /\ SquaresOf(w) \in Nat
         /\ SumOf(w) <= Len(w) * top
         /\ SquaresOf(w) <= top * SumOf(w)
         /\ Len(w) * SquaresOf(w) >= SumOf(w) * SumOf(w)
         /\ Len(w) * SquaresOf(w) = SumOf(w) * SumOf(w)
              => \A i \in 1 .. Len(w) : Len(w) * w[i] = SumOf(w)
<1> DEFINE n == Len(w)
<1>1. n \in Nat /\ \A k \in 1 .. n : w[k] \in Nat /\ w[k] <= top /\ k - 1 \in 0 .. n /\ k \in 0 .. n
  OBVIOUS
<1>2. PICK h \in [0 .. n -> Nat] :
         h[0] = 0 /\ (\A k \in 1 .. n : h[k] = h[k - 1] + w[k]) /\ SumOf(w) = h[n]
  BY SumOfTrail
<1>3. PICK g \in [0 .. n -> Nat] :
         g[0] = 0 /\ (\A k \in 1 .. n : g[k] = g[k - 1] + w[k] * w[k]) /\ SquaresOf(w) = g[n]
  BY SquaresOfTrail
<1> HIDE DEF n
<1> DEFINE P(k) == /\ h[k] <= k * top /\ g[k] <= top * h[k]
                   /\ k * g[k] >= h[k] * h[k]
                   /\ k * g[k] = h[k] * h[k] => \A i \in 1 .. k : k * w[i] = h[k]
           S == {k \in 0 .. n : P(k)}
<1>4. 0 \in S
  BY <1>1, <1>2, <1>3
<1>5. ASSUME NEW k \in 1 .. n, k - 1 \in S PROVE k \in S
  <2> DEFINE j == k - 1
  <2>1. j \in Nat /\ j \in 0 .. n /\ k = j + 1 /\ P(j)
    BY <1>1, <1>5
  <2>2. h[k] = h[j] + w[k] /\ g[k] = g[j] + w[k] * w[k]
    BY <1>2, <1>3
  <2> HIDE DEF j
  <2>3. h[j] \in Nat /\ g[j] \in Nat /\ w[k] \in Nat /\ w[k] <= top
    BY <1>1, <2>1
  <2>15. h[j] <= j * top /\ g[j] <= top * h[j] /\ j * g[j] >= h[j] * h[j]
    BY <2>1
  <2>4. /\ h[j] + w[k] <= (j + 1) * top
        /\ g[j] + w[k] * w[k] <= top * (h[j] + w[k])
        /\ (j + 1) * (g[j] + w[k] * w[k]) >= (h[j] + w[k]) * (h[j] + w[k])
        /\ (j + 1) * (g[j] + w[k] * w[k]) = (h[j] + w[k]) * (h[j] + w[k])
             => j * g[j] = h[j] * h[j] /\ j * w[k] = h[j]
    <3> DEFINE a == h[j]
               b == g[j]
               x == w[k]
    <3>1. a \in Nat /\ b \in Nat /\ x \in Nat /\ x <= top /\ a <= j * top /\ b <= top * a /\ j * b >= a * a
      BY <2>3, <2>15
    <3> HIDE DEF a, b, x
    <3>2. /\ a + x <= (j + 1) * top
          /\ b + x * x <= top * (a + x)
          /\ (j + 1) * (b + x * x) >= (a + x) * (a + x)
          /\ (j + 1) * (b + x * x) = (a + x) * (a + x) => j * b = a * a /\ j * x = a
      <4>1. j \in Nat /\ top \in Nat
        BY <2>1
      <4>2. QED
        BY ONLY <3>1, <4>1, MomentStep
    <3>3. QED
      BY <3>2 DEF a, b, x
  <2>5. ASSUME k * g[k] = h[k] * h[k], NEW i \in 1 .. k PROVE k * w[i] = h[k]
    <3>1. j * g[j] = h[j] * h[j] /\ j * w[k] = h[j]
      BY <2>1, <2>2, <2>4, <2>5
    <3>2. k * w[k] = h[k]
      <4>1. (j + 1) * w[k] = j * w[k] + w[k]
        BY ONLY <2>1, <2>3, OneTimeMore
      <4>2. QED
        BY <2>1, <2>2, <3>1, <4>1
    <3>3. CASE i \in 1 .. j
      <4>1. j * w[i] = h[j] /\ w[i] \in Nat /\ j > 0
        <5>1. \A m \in 1 .. j : j * w[m] = h[j]
          BY <2>1, <3>1
        <5>2. i \in 1 .. n /\ j > 0
          BY ONLY <1>1, <2>1, <3>3, k \in 1 .. n
        <5>3. QED
          BY <1>1, <3>3, <5>1, <5>2
      <4>2. j * w[i] = j * w[k]
        BY <3>1, <4>1
      <4>3. w[i] = w[k]
        BY ONLY <2>1, <2>3, <4>1, <4>2, CancelFactor
      <4>4. QED
        BY <3>2, <4>3
    <3>4. i = k \/ i \in 1 .. j
      BY <2>1
    <3>5. QED
      BY <3>2, <3>3, <3>4
  <2>6. P(k)
    BY <2>1, <2>2, <2>4, <2>5
  <2>7. QED
    BY <2>6
<1> HIDE DEF S, P
<1>6. n \in S
  <2>1. \A k \in 0 .. n : k \in S
    BY <1>1, <1>4, <1>5, InductionUpTo
  <2>2. QED
    BY <1>1, <2>1
<1>7. P(n) /\ h[n] \in Nat /\ g[n] \in Nat
  BY <1>1, <1>6 DEF S
<1>8. QED
  BY <1>2, <1>3, <1>7 DEF P, n

\* The average lies between the least and the largest of the samples.
LEMMA EmaBounds ==
  ASSUME NEW w \in Seq(Nat), w # <<>>, NEW low \in Nat, NEW top \in Nat,
         \A i \in 1 .. Len(w) : low <= w[i] /\ w[i] <= top
  PROVE  /\ ComputeEma(w) \in Averages
         /\ low * ComputeEma(w).den <= ComputeEma(w).num
         /\ ComputeEma(w).num <= top * ComputeEma(w).den
         /\ (\E i \in 1 .. Len(w) : w[i] > 0) => ComputeEma(w).num > 0
<1> DEFINE t == Tail(w)
           n == Len(t)
           base == [num |-> Head(w), den |-> 1]
<1>1. /\ t \in Seq(Nat) /\ n \in Nat /\ Len(w) = n + 1 /\ Head(w) = w[1] /\ 1 \in 1 .. Len(w)
      /\ \A k \in 1 .. n : t[k] = w[k + 1] /\ k + 1 \in 1 .. Len(w)
      /\ \A i \in 1 .. Len(w) : w[i] \in Nat
  OBVIOUS
<1>2. base \in Averages /\ base.num = w[1] /\ base.den = 1
  BY <1>1 DEF Averages
<1>3. PICK h \in [0 .. n -> Averages] :
         h[0] = base /\ (\A k \in 1 .. n : h[k] = Blend(h[k - 1], t[k])) /\ FoldLeft(Blend, base, t) = h[n]
  BY <1>1, <1>2, EmaTrail
<1>4. ComputeEma(w) = h[n]
  BY <1>3 DEF ComputeEma
<1> HIDE DEF n, t, base
<1> DEFINE P(k) == /\ low * h[k].den <= h[k].num /\ h[k].num <= top * h[k].den
                   /\ (\E i \in 1 .. k + 1 : w[i] > 0) => h[k].num > 0
           S == {k \in 0 .. n : P(k)}
<1>5. 0 \in S
  <2>1. low <= w[1] /\ w[1] <= top /\ w[1] \in Nat
    BY <1>1
  <2>2. h[0].num = w[1] /\ h[0].den = 1 /\ 0 \in 0 .. n
    BY <1>1, <1>2, <1>3
  <2>3. P(0)
    BY <2>1, <2>2
  <2>4. QED
    BY <2>2, <2>3
<1>6. ASSUME NEW k \in 1 .. n, k - 1 \in S PROVE k \in S
  <2> DEFINE j == k - 1
             e == h[j]
             x == w[k + 1]
  <2>1. j \in 0 .. n /\ j + 1 = k /\ k \in 0 .. n /\ P(j)
    BY <1>1, <1>6
  <2>2. h[k] = Blend(e, x) /\ e \in Averages /\ x \in Nat /\ low <= x /\ x <= top
    BY <1>1, <1>3, <2>1
  <2> HIDE DEF j
  <2>3. h[k].num = Alpha * x * e.den + (AlphaUnit - Alpha) * e.num /\ h[k].den = AlphaUnit * e.den
    BY <2>2, BlendIs
  <2>4. Alpha \in Nat /\ AlphaUnit \in Nat /\ AlphaUnit > Alpha /\ Alpha > 0
    BY BaselineAssumption, OutlierAssumption
  <2> DEFINE num == e.num
             den == e.den
             other == AlphaUnit - Alpha
  <2>5. num \in Nat /\ den \in Nat /\ den > 0 /\ other \in Nat /\ other > 0
    BY <2>2, <2>4 DEF Averages
  <2>6. low * den <= num /\ num <= top * den /\ ((\E i \in 1 .. k : w[i] > 0) => num > 0)
    BY <2>1
  <2>7. h[k].num = Alpha * x * den + other * num /\ h[k].den = (Alpha + other) * den
    BY <2>3, <2>4
  <2> HIDE DEF num, den, other, e, x
  <2>8. /\ low * ((Alpha + other) * den) = Alpha * low * den + other * (low * den)
        /\ top * ((Alpha + other) * den) = Alpha * top * den + other * (top * den)
    BY <2>4, <2>5
  <2>9. Alpha * low * den <= Alpha * x * den /\ Alpha * x * den <= Alpha * top * den
    <3>1. Alpha * low <= Alpha * x /\ Alpha * x <= Alpha * top
      BY <2>2, <2>4
    <3>2. Alpha * low \in Nat /\ Alpha * x \in Nat /\ Alpha * top \in Nat
      BY <2>2, <2>4
    <3>3. QED
      BY <2>5, <3>1, <3>2
  <2>10. other * (low * den) <= other * num /\ other * num <= other * (top * den)
    BY <2>5, <2>6
  <2>11. /\ Alpha * low * den \in Nat /\ Alpha * x * den \in Nat /\ Alpha * top * den \in Nat
         /\ other * (low * den) \in Nat /\ other * num \in Nat /\ other * (top * den) \in Nat
    BY <2>2, <2>4, <2>5
  <2>12. low * h[k].den <= h[k].num /\ h[k].num <= top * h[k].den
    BY <2>7, <2>8, <2>9, <2>10, <2>11
  <2>13. ASSUME NEW i \in 1 .. k + 1, w[i] > 0 PROVE h[k].num > 0
    <3>1. CASE i \in 1 .. k
      <4>1. num > 0
        BY <2>6, <2>13, <3>1
      <4>2. other * num > 0
        BY <2>5, <4>1
      <4>3. QED
        BY <2>7, <2>11, <4>2
    <3>2. CASE i = k + 1
      <4>1. x > 0
        BY <2>13, <3>2 DEF x
      <4>2. Alpha * x > 0 /\ Alpha * x \in Nat
        BY <2>2, <2>4, <4>1
      <4>3. Alpha * x * den > 0
        BY <2>5, <4>2
      <4>4. QED
        BY <2>7, <2>11, <4>3
    <3>3. QED
      BY <3>1, <3>2
  <2>14. P(k)
    BY <2>12, <2>13
  <2>15. QED
    BY <2>1, <2>14
<1> HIDE DEF S, P
<1>7. n \in S
  <2>1. \A k \in 0 .. n : k \in S
    BY <1>1, <1>5, <1>6, InductionUpTo
  <2>2. QED
    BY <1>1, <2>1
<1>8. P(n) /\ h[n] \in Averages
  BY <1>1, <1>7 DEF S
<1>9. QED
  BY <1>1, <1>4, <1>8 DEF P

\* The least and the largest of the samples.
LEMMA ExtremesOf ==
  ASSUME NEW w \in Seq(Nat), w # <<>>
  PROVE  /\ Min(ToSet(w)) \in Nat /\ Max(ToSet(w)) \in Nat
         /\ \E i \in 1 .. Len(w) : w[i] = Min(ToSet(w))
         /\ \E i \in 1 .. Len(w) : w[i] = Max(ToSet(w))
         /\ \A i \in 1 .. Len(w) : Min(ToSet(w)) <= w[i] /\ w[i] <= Max(ToSet(w))
<1> DEFINE n == Len(w)
           P(k) == /\ \E i \in 1 .. k : \A j \in 1 .. k : w[i] <= w[j]
                   /\ \E i \in 1 .. k : \A j \in 1 .. k : w[j] <= w[i]
           S == {k \in 0 .. n : k > 0 => P(k)}
<1>1. n \in Nat /\ n > 0 /\ (\A i \in 1 .. n : w[i] \in Nat) /\ ToSet(w) = {w[i] : i \in 1 .. n}
  BY DEF ToSet
<1> HIDE DEF n
<1>2. 0 \in S
  BY <1>1
<1>3. ASSUME NEW k \in 1 .. n, k - 1 \in S PROVE k \in S
  <2>1. CASE k = 1
    BY <1>1, <2>1
  <2>2. CASE k > 1
    <3>1. P(k - 1)
      BY <1>3, <2>2
    <3>2. PICK a \in 1 .. k - 1 : \A j \in 1 .. k - 1 : w[a] <= w[j]
      BY <3>1
    <3>3. PICK b \in 1 .. k - 1 : \A j \in 1 .. k - 1 : w[j] <= w[b]
      BY <3>1
    <3>4. w[a] \in Nat /\ w[b] \in Nat /\ w[k] \in Nat /\ \A j \in 1 .. k : j = k \/ j \in 1 .. k - 1
      BY <1>1
    <3>5. \A j \in 1 .. k : w[j] \in Nat
      BY <1>1
    <3>6. \E i \in 1 .. k : \A j \in 1 .. k : w[i] <= w[j]
      <4>1. CASE w[k] <= w[a]
        <5>1. \A j \in 1 .. k : w[k] <= w[j]
          BY <3>2, <3>4, <3>5, <4>1
        <5>2. QED
          BY <5>1
      <4>2. CASE ~(w[k] <= w[a])
        <5>1. \A j \in 1 .. k : w[a] <= w[j]
          BY <3>2, <3>4, <3>5, <4>2
        <5>2. QED
          BY <5>1
      <4>3. QED
        BY <4>1, <4>2
    <3>7. \E i \in 1 .. k : \A j \in 1 .. k : w[j] <= w[i]
      <4>1. CASE w[b] <= w[k]
        <5>1. \A j \in 1 .. k : w[j] <= w[k]
          BY <3>3, <3>4, <3>5, <4>1
        <5>2. QED
          BY <5>1
      <4>2. CASE ~(w[b] <= w[k])
        <5>1. \A j \in 1 .. k : w[j] <= w[b]
          BY <3>3, <3>4, <3>5, <4>2
        <5>2. QED
          BY <5>1
      <4>3. QED
        BY <4>1, <4>2
    <3>8. P(k) /\ k \in 0 .. n
      <4>1. k \in 0 .. n
        BY <1>1
      <4>2. P(k)
        BY ONLY <3>6, <3>7
      <4>3. QED
        BY <4>1, <4>2
    <3>9. QED
      BY <3>8
  <2>3. QED
    BY <2>1, <2>2
<1> HIDE DEF S, P
<1>4. \A k \in 0 .. n : k \in S
  BY <1>1, <1>2, <1>3, InductionUpTo
<1>5. P(n)
  <2>1. n \in S
    BY <1>1, <1>4
  <2>2. QED
    BY <1>1, <2>1 DEF S
<1>6. PICK a \in 1 .. n : \A j \in 1 .. n : w[a] <= w[j]
  BY <1>5 DEF P
<1>7. PICK b \in 1 .. n : \A j \in 1 .. n : w[j] <= w[b]
  BY <1>5 DEF P
<1>8. Min(ToSet(w)) = w[a]
  <2>1. w[a] \in ToSet(w) /\ \A y \in ToSet(w) : w[a] <= y
    BY <1>1, <1>6
  <2>2. ToSet(w) \subseteq Nat
    BY <1>1
  <2>3. \A x \in ToSet(w) : (\A y \in ToSet(w) : x <= y) => x = w[a]
    BY <2>1, <2>2
  <2>4. QED
    BY <2>1, <2>3 DEF Min
<1>9. Max(ToSet(w)) = w[b]
  <2>1. w[b] \in ToSet(w) /\ \A y \in ToSet(w) : y <= w[b]
    BY <1>1, <1>7
  <2>2. ToSet(w) \subseteq Nat
    BY <1>1
  <2>3. \A x \in ToSet(w) : (\A y \in ToSet(w) : x >= y) => x = w[b]
    BY <2>1, <2>2
  <2>4. \A y \in ToSet(w) : w[b] >= y
    BY <2>1, <2>2
  <2>5. QED
    BY <2>1, <2>3, <2>4 DEF Max
<1>10. QED
  BY <1>1, <1>6, <1>7, <1>8, <1>9 DEF n

\* A share lies between 0 and 100, and is 100 of anything as large as its whole.
LEMMA Normalized ==
  ASSUME NEW a \in Nat, NEW d \in Nat, d > 0
  PROVE  /\ NormalizeScore(a, d) \in 0 .. 100
         /\ a >= d => NormalizeScore(a, d) = 100
         /\ 2 * a <= d => NormalizeScore(a, d) <= 50
<1> DEFINE q == (100 * a) \div d
<1>1. q \in Nat /\ d * q <= 100 * a /\ 100 * a < d * q + d
  OBVIOUS
<1>2. NormalizeScore(a, d) = Min({100, q})
  BY DEF NormalizeScore
<1> HIDE DEF q
<1>3. Min({100, q}) = IF q <= 100 THEN q ELSE 100
  <2>1. Min({100, q}) \in {100, q} /\ \A y \in {100, q} : Min({100, q}) <= y
    <3>1. \E x \in {100, q} : \A y \in {100, q} : x <= y
      BY <1>1
    <3>2. QED
      BY <3>1 DEF Min
  <2>2. QED
    BY <1>1, <2>1
<1>4. a >= d => q >= 100
  <2>1. ASSUME a >= d, q <= 99 PROVE FALSE
    <3>1. d * q <= d * 99
      BY <1>1, <2>1
    <3>2. QED
      BY <1>1, <2>1, <3>1
  <2>2. QED
    BY <1>1, <2>1
<1>5. 2 * a <= d => q <= 50
  <2>1. ASSUME 2 * a <= d, q >= 51 PROVE FALSE
    <3>1. d * q >= d * 51
      BY <1>1, <2>1
    <3>2. QED
      BY <1>1, <2>1, <3>1
  <2>2. QED
    BY <1>1, <2>1
<1>6. QED
  BY <1>1, <1>2, <1>3, <1>4, <1>5

\* Three times the largest sample is three standard deviations from the mean.
LEMMA ThreeDeviations ==
  ASSUME NEW m \in Nat, NEW s \in Nat, s <= m, NEW var \in Int, var <= s * (m - s),
         NEW dev \in Nat, dev >= 3 * m - s
  PROVE  9 * var <= dev * dev
<1> DEFINE x == 3 * m - s
<1>1. x \in Nat /\ dev >= x
  OBVIOUS
<1>2. dev * dev >= x * x /\ dev * dev \in Nat /\ x * x \in Nat
  <2>1. dev * dev >= dev * x /\ dev * x >= x * x
    BY <1>1
  <2>2. QED
    BY <1>1, <2>1
<1>3. 4 * (x * x) = 36 * (s * (m - s)) + (6 * m - 5 * s) * (6 * m - 5 * s) + 15 * (s * s)
  OBVIOUS
<1>4. (6 * m - 5 * s) * (6 * m - 5 * s) >= 0 /\ (6 * m - 5 * s) * (6 * m - 5 * s) \in Int
  <2> DEFINE y == 6 * m - 5 * s
  <2>1. y \in Int
    OBVIOUS
  <2> HIDE DEF y
  <2>2. y * y >= 0 /\ y * y \in Int
    BY <2>1
  <2>3. QED
    BY <2>2 DEF y
<1>5. s * s \in Nat /\ s * (m - s) \in Int
  OBVIOUS
<1> HIDE DEF x
<1>6. 4 * (x * x) >= 36 * (s * (m - s))
  BY <1>3, <1>4, <1>5
<1>7. QED
  BY <1>2, <1>5, <1>6

\* What a baseline tells of n samples between low and top.
Summarises(b, n, low, top) ==
  /\ n \in Nat /\ n > 0 /\ low \in Nat /\ top \in Nat /\ low <= top
  /\ b.sample_count = n /\ b.min = low /\ b.max = top
  /\ b.sum \in Nat /\ b.squares \in Nat
  /\ b.sum <= n * top /\ b.squares <= top * b.sum
  /\ low < top => n * b.squares > b.sum * b.sum
  /\ b.ema \in Averages
  /\ low * b.ema.den <= b.ema.num /\ b.ema.num <= top * b.ema.den
  /\ top > 0 => b.ema.num > 0

\* The baseline of the samples tells it of them.
LEMMA BaselineSummarises ==
  ASSUME NEW w \in Seq(Nat), w # <<>>
  PROVE  Summarises(CalculateBaseline(w), Len(w), Min(ToSet(w)), Max(ToSet(w)))
<1> DEFINE n == Len(w)
           low == Min(ToSet(w))
           top == Max(ToSet(w))
           b == CalculateBaseline(w)
<1>1. n \in Nat /\ n > 0 /\ \A i \in 1 .. n : w[i] \in Nat
  OBVIOUS
<1>2. /\ b.sample_count = n /\ b.min = low /\ b.max = top
      /\ b.sum = SumOf(w) /\ b.squares = SquaresOf(w) /\ b.ema = ComputeEma(w)
  BY Zenon DEF CalculateBaseline
<1>3. /\ low \in Nat /\ top \in Nat
      /\ \E i \in 1 .. n : w[i] = low
      /\ \E i \in 1 .. n : w[i] = top
      /\ \A i \in 1 .. n : low <= w[i] /\ w[i] <= top
  BY ExtremesOf
<1>4. /\ SumOf(w) \in Nat /\ SquaresOf(w) \in Nat
      /\ SumOf(w) <= n * top
      /\ SquaresOf(w) <= top * SumOf(w)
      /\ n * SquaresOf(w) >= SumOf(w) * SumOf(w)
      /\ n * SquaresOf(w) = SumOf(w) * SumOf(w) => \A i \in 1 .. n : n * w[i] = SumOf(w)
  BY <1>3, Moments
<1>5. /\ ComputeEma(w) \in Averages
      /\ low * ComputeEma(w).den <= ComputeEma(w).num
      /\ ComputeEma(w).num <= top * ComputeEma(w).den
      /\ (\E i \in 1 .. n : w[i] > 0) => ComputeEma(w).num > 0
  BY <1>3, EmaBounds
<1>6. top > 0 => \E i \in 1 .. n : w[i] > 0
  BY <1>3
<1> HIDE DEF n, low, top, b
<1>7. low <= top
  BY <1>1, <1>3
<1>8. ASSUME low < top PROVE n * SquaresOf(w) # SumOf(w) * SumOf(w)
  <2>1. SUFFICES ASSUME n * SquaresOf(w) = SumOf(w) * SumOf(w) PROVE FALSE
    OBVIOUS
  <2>2. n * low = SumOf(w) /\ n * top = SumOf(w)
    BY <1>3, <1>4, <2>1
  <2>3. low = top
    BY ONLY <1>1, <1>3, <2>2, CancelFactor
  <2>4. QED
    BY <1>3, <1>8, <2>3
<1>9. low < top => n * SquaresOf(w) > SumOf(w) * SumOf(w)
  <2> DEFINE x == n * SquaresOf(w)
             y == SumOf(w) * SumOf(w)
  <2>1. x \in Nat /\ y \in Nat
    BY <1>1, <1>4
  <2>2. x >= y /\ (low < top => x # y)
    BY <1>4, <1>8
  <2> HIDE DEF x, y
  <2>3. low < top => x > y
    BY <2>1, <2>2
  <2>4. QED
    BY <2>3 DEF x, y
<1>10. Summarises(b, n, low, top)
  BY <1>1, <1>2, <1>3, <1>4, <1>5, <1>6, <1>7, <1>9, Zenon DEF Summarises
<1>11. QED
  BY <1>10 DEF b, n, low, top

\* The distance in standard deviations.
LEMMA ZScoreIs ==
  ASSUME NEW b, NEW n, NEW low, NEW top, Summarises(b, n, low, top), NEW v \in Nat
  PROVE  /\ ZScore(v, b) \in 0 .. 100
         /\ v >= 3 * top /\ low < top /\ n > 3 => ZScore(v, b) = 100
<1> DEFINE variance == n * b.squares - b.sum * b.sum
           deviation == Distance(n * v, b.sum)
           s == {k \in 0 .. 100 : 9 * k * k * variance <= 10000 * deviation * deviation}
<1>1. /\ n \in Nat /\ n > 0 /\ low \in Nat /\ top \in Nat /\ low <= top
      /\ b.sample_count = n /\ b.sum \in Nat /\ b.squares \in Nat
      /\ b.sum <= n * top /\ b.squares <= top * b.sum
      /\ low < top => n * b.squares > b.sum * b.sum
  BY DEF Summarises
<1>2. ZScore(v, b) = IF variance > 0 /\ n > 3 THEN Max(s) ELSE 0
  BY <1>1 DEF ZScore
<1>3. deviation \in Nat /\ (n * v >= b.sum => deviation = n * v - b.sum)
  BY <1>1 DEF Distance
<1>4. variance \in Int /\ (low < top => variance > 0)
  BY <1>1
<1> DEFINE m == n * top
           sum == b.sum
<1>5. m \in Nat /\ sum \in Nat /\ sum <= m
  BY <1>1
<1>6. variance <= sum * (m - sum)
  <2>1. n * b.squares <= n * (top * sum)
    BY <1>1
  <2>2. n * (top * sum) = sum * m
    BY <1>1
  <2>3. sum * (m - sum) = sum * m - sum * sum /\ sum * m \in Int /\ sum * sum \in Int /\ n * b.squares \in Int
    BY <1>1, <1>5
  <2>4. QED
    BY <2>1, <2>2, <2>3
<1>7. v >= 3 * top => deviation >= 3 * m - sum
  <2>1. SUFFICES ASSUME v >= 3 * top PROVE deviation >= 3 * m - sum
    OBVIOUS
  <2>2. n * v >= n * (3 * top) /\ n * (3 * top) = 3 * m /\ n * v \in Int
    BY <1>1, <2>1
  <2>3. QED
    BY <1>3, <1>5, <2>2
<1> HIDE DEF variance, deviation, m, sum
<1>8. v >= 3 * top => 100 \in s
  <2>1. SUFFICES ASSUME v >= 3 * top PROVE 100 \in s
    OBVIOUS
  <2>2. 9 * variance <= deviation * deviation
    BY <1>3, <1>4, <1>5, <1>6, <1>7, <2>1, ThreeDeviations
  <2>3. 9 * 100 * 100 * variance = 10000 * (9 * variance)
    BY <1>4
  <2>4. 10000 * deviation * deviation = 10000 * (deviation * deviation) /\ deviation * deviation \in Int
    BY <1>3
  <2>5. QED
    BY <1>4, <2>2, <2>3, <2>4
<1>9. 0 \in s
  <2>1. 9 * 0 * 0 * variance = 0
    BY <1>4
  <2>2. 10000 * deviation * deviation \in Nat
    BY <1>3
  <2>3. QED
    BY <2>1, <2>2
<1> HIDE DEF s
<1>10. s \in SUBSET (0 .. 100)
  BY DEF s
<1>11. Max(s) \in s /\ \A k \in s : k <= Max(s)
  BY <1>9, <1>10, LargestFromZero
<1>12. Max(s) \in 0 .. 100 /\ (v >= 3 * top => Max(s) = 100)
  <2> DEFINE a == Max(s)
  <2>1. a \in s /\ \A k \in s : k <= a
    BY <1>11
  <2> HIDE DEF a
  <2>2. a \in 0 .. 100 /\ (100 \in s => 100 <= a)
    BY <1>10, <2>1
  <2>3. a \in 0 .. 100 /\ (100 \in s => a = 100)
    BY <2>2
  <2>4. QED
    BY <1>8, <2>3 DEF a
<1>13. QED
  BY <1>1, <1>2, <1>4, <1>12

\* The deviation from the average.
LEMMA EmaDeviationIs ==
  ASSUME NEW b, NEW n, NEW low, NEW top, Summarises(b, n, low, top), NEW v \in Nat
  PROVE  /\ EmaDeviation(v, b) \in 0 .. 100
         /\ v < low => EmaDeviation(v, b) <= 50
         /\ v >= 3 * top /\ top > 0 => EmaDeviation(v, b) = 100
<1> DEFINE num == b.ema.num
           den == b.ema.den
           x == v * den
           d == Distance(x, num)
<1>1. /\ low \in Nat /\ top \in Nat /\ num \in Nat /\ den \in Nat /\ den > 0
      /\ low * den <= num /\ num <= top * den /\ (top > 0 => num > 0)
  BY DEF Summarises, Averages
<1>2. EmaDeviation(v, b) = IF num > 0 THEN NormalizeScore(d, 2 * num) ELSE 0
  BY DEF EmaDeviation
<1> HIDE DEF num, den
<1>3. x \in Nat
  BY <1>1
<1>4. d \in Nat /\ (x > num => d = x - num) /\ (x <= num => d = num - x)
  BY <1>1, <1>3 DEF Distance
<1>5. v < low => x <= num
  <2>1. SUFFICES ASSUME v < low PROVE x <= num
    OBVIOUS
  <2>2. v * den <= low * den
    BY <1>1, <2>1
  <2>3. low * den \in Nat
    BY <1>1
  <2>4. QED
    BY <1>1, <1>3, <2>2, <2>3
<1>6. v >= 3 * top => x >= 3 * num
  <2>1. SUFFICES ASSUME v >= 3 * top PROVE x >= 3 * num
    OBVIOUS
  <2>2. v * den >= (3 * top) * den /\ (3 * top) * den = 3 * (top * den) /\ top * den \in Nat
    BY <1>1, <2>1
  <2>3. QED
    BY <1>1, <1>3, <2>2
<1> HIDE DEF x, d
<1>7. ASSUME num > 0
      PROVE  /\ NormalizeScore(d, 2 * num) \in 0 .. 100
             /\ v < low => NormalizeScore(d, 2 * num) <= 50
             /\ v >= 3 * top => NormalizeScore(d, 2 * num) = 100
  <2> DEFINE c == 2 * num
  <2>1. c \in Nat /\ c > 0
    BY <1>1, <1>7
  <2>2. v < low => 2 * d <= c
    BY <1>1, <1>3, <1>4, <1>5
  <2>3. v >= 3 * top => d >= c
    BY <1>1, <1>3, <1>4, <1>6, <1>7
  <2> HIDE DEF c
  <2>4. /\ NormalizeScore(d, c) \in 0 .. 100
        /\ d >= c => NormalizeScore(d, c) = 100
        /\ 2 * d <= c => NormalizeScore(d, c) <= 50
    BY <1>4, <2>1, Normalized
  <2>5. QED
    BY <2>2, <2>3, <2>4 DEF c
<1>8. QED
  BY <1>1, <1>2, <1>7

\* The distance from the middle of the range.
LEMMA PercentileOutlierIs ==
  ASSUME NEW b, NEW n, NEW low, NEW top, Summarises(b, n, low, top), NEW v \in Nat
  PROVE  /\ PercentileOutlier(v, b) \in 0 .. 100
         /\ n < 6 \/ v \in low .. top => PercentileOutlier(v, b) = 0
         /\ v >= 3 * top /\ low < top /\ n > 5 => PercentileOutlier(v, b) = 100
<1> DEFINE a == 100 * Distance(2 * v, low + top)
           d == 95 * (top - low)
<1>1. n \in Nat /\ low \in Nat /\ top \in Nat /\ low <= top
  BY DEF Summarises
<1>2. PercentileOutlier(v, b) =
        IF top > low /\ n > 5 /\ v \notin low .. top THEN NormalizeScore(a, d) ELSE 0
  BY DEF Summarises, PercentileOutlier
<1>3. a \in Nat /\ (2 * v > low + top => a = 100 * (2 * v - (low + top)))
  BY <1>1 DEF Distance
<1>4. v >= 3 * top /\ low < top => a >= d /\ v \notin low .. top
  BY <1>1, <1>3
<1>5. top > low => d \in Nat /\ d > 0
  BY <1>1
<1> HIDE DEF a, d
<1>6. top > low => NormalizeScore(a, d) \in 0 .. 100 /\ (a >= d => NormalizeScore(a, d) = 100)
  BY <1>3, <1>5, Normalized
<1>7. QED
  BY <1>1, <1>2, <1>4, <1>6

\* What is anomalous lies above the samples, of which there are six; and what lies
\* far enough above them is.
LEMMA AnomalousIs ==
  ASSUME NEW b, NEW n, NEW low, NEW top, Summarises(b, n, low, top), NEW v \in Nat
  PROVE  /\ Anomalous(v, b) => n >= 6 /\ v > top
         /\ n >= 6 /\ low < top /\ v >= 3 * top => Anomalous(v, b)
<1> DEFINE z == ZScore(v, b)
           e == EmaDeviation(v, b)
           p == PercentileOutlier(v, b)
<1>1. n \in Nat /\ low \in Nat /\ top \in Nat /\ low <= top
  BY DEF Summarises
<1>2. z \in 0 .. 100 /\ (v >= 3 * top /\ low < top /\ n > 3 => z = 100)
  BY ZScoreIs
<1>3. e \in 0 .. 100 /\ (v < low => e <= 50) /\ (v >= 3 * top /\ top > 0 => e = 100)
  BY EmaDeviationIs
<1>4. p \in 0 .. 100 /\ (n < 6 \/ v \in low .. top => p = 0) /\ (v >= 3 * top /\ low < top /\ n > 5 => p = 100)
  BY PercentileOutlierIs
<1>5. AnomalyThreshold \in 84 .. 99
  BY OutlierAssumption
<1>6. Anomalous(v, b) <=> z + e + p > 3 * AnomalyThreshold
  BY DEF Anomalous
<1> HIDE DEF z, e, p
<1>7. QED
  BY <1>1, <1>2, <1>3, <1>4, <1>5, <1>6

\* Nothing is anomalous before the first sample.
LEMMA NothingRecordedYet ==
  ASSUME NEW v \in Nat
  PROVE  ~Anomalous(v, DefaultBaseline)
<1>1. ZScore(v, DefaultBaseline) = 0
  BY DEF ZScore, DefaultBaseline
<1>2. EmaDeviation(v, DefaultBaseline) = 0
  BY DEF EmaDeviation, DefaultBaseline
<1>3. PercentileOutlier(v, DefaultBaseline) = 0
  BY DEF PercentileOutlier, DefaultBaseline
<1>4. QED
  BY <1>1, <1>2, <1>3, OutlierAssumption DEF Anomalous

\* The samples of hour h that are recorded, and the recorders that are not done with theirs.
RecordedAt(h) == {i \in DOMAIN recorded : recorded[i].hour = h}
UncountedAt(h) == {r \in Recorders : pending[r] # NoSample /\ pending[r].hour = h}

\* The window holds the newest of the recorded samples.
WindowInv ==
  /\ recorded \in Seq(Samples) /\ samples \in Seq(Nat)
  /\ Len(samples) = IF Len(recorded) < WindowSize THEN Len(recorded) ELSE WindowSize
  /\ \A i \in 1 .. Len(samples) : samples[i] = recorded[Len(recorded) - Len(samples) + i].value
  /\ baseline = CalculateBaseline(samples)

\* An hour counts its samples but those that a recorder has not come to count.
HoursInv ==
  /\ pending \in [Recorders -> Samples \cup {NoSample}]
  /\ hourly \in [0 .. 23 -> [request_count : Nat, total : Nat]]
  /\ \A h \in 0 .. 23 :
       /\ IsFiniteSet(RecordedAt(h)) /\ IsFiniteSet(UncountedAt(h))
       /\ Cardinality(RecordedAt(h)) = Cardinality(UncountedAt(h)) + hourly[h].request_count

\* Both hold of a baseline that has recorded nothing.
LEMMA BaselineInitInv == BaselineInit => WindowInv /\ HoursInv
<1> SUFFICES ASSUME BaselineInit PROVE WindowInv /\ HoursInv
  OBVIOUS
<1>1. recorded = <<>> /\ samples = <<>> /\ Len(samples) = 0 /\ Len(recorded) = 0
  BY DEF BaselineInit
<1>2. WindowInv
  BY <1>1, BaselineAssumption DEF WindowInv, BaselineInit, CalculateBaseline
<1>3. \A h \in 0 .. 23 : RecordedAt(h) = {} /\ UncountedAt(h) = {} /\ hourly[h].request_count = 0
  BY <1>1 DEF BaselineInit, RecordedAt, UncountedAt
<1>4. pending \in [Recorders -> Samples \cup {NoSample}]
  BY DEF BaselineInit
<1>5. hourly \in [0 .. 23 -> [request_count : Nat, total : Nat]]
  BY DEF BaselineInit
<1>6. HoursInv
  <2>1. IsFiniteSet({}) /\ Cardinality({}) = 0
    BY FS_EmptySet
  <2>2. ASSUME NEW h \in 0 .. 23
        PROVE  /\ IsFiniteSet(RecordedAt(h)) /\ IsFiniteSet(UncountedAt(h))
               /\ Cardinality(RecordedAt(h)) = Cardinality(UncountedAt(h)) + hourly[h].request_count
    <3>1. RecordedAt(h) = {} /\ UncountedAt(h) = {} /\ hourly[h].request_count = 0
      BY <1>3
    <3>2. QED
      BY <2>1, <3>1
  <2>3. QED
    BY <1>4, <1>5, <2>2 DEF HoursInv
<1>7. QED
  BY <1>2, <1>6

\* A sample more: the window slides by one.
LEMMA UpdateKeepsWindow ==
  ASSUME NEW r \in Recorders, NEW s \in Samples, WindowInv, UpdateBaseline(r, s)
  PROVE  WindowInv'
<1> DEFINE v == s.value
           more == Append(samples, v)
           m == Len(samples)
           n == Len(recorded)
<1>1. v \in Nat /\ WindowSize \in Nat /\ WindowSize > 0
  BY BaselineAssumption
<1>2. /\ recorded \in Seq(Samples) /\ samples \in Seq(Nat) /\ m \in Nat /\ n \in Nat
      /\ m = IF n < WindowSize THEN n ELSE WindowSize
      /\ \A i \in 1 .. m : samples[i] = recorded[n - m + i].value
  BY DEF WindowInv
<1>3. recorded' = Append(recorded, s) /\ samples' = Slide(more) /\ baseline' = CalculateBaseline(samples')
  BY DEF UpdateBaseline
<1>4. /\ recorded' \in Seq(Samples) /\ Len(recorded') = n + 1
      /\ \A i \in 1 .. n : recorded'[i] = recorded[i]
      /\ recorded'[n + 1] = s
  BY <1>2, <1>3
<1>5. /\ more \in Seq(Nat) /\ Len(more) = m + 1
      /\ \A i \in 1 .. m : more[i] = samples[i]
      /\ more[m + 1] = v
  BY <1>1, <1>2
<1>6. \A i \in 1 .. m + 1 : more[i] = recorded'[n - m + i].value
  <2>1. ASSUME NEW i \in 1 .. m + 1 PROVE more[i] = recorded'[n - m + i].value
    <3>1. CASE i \in 1 .. m
      <4>1. n - m + i \in 1 .. n
        BY <1>2, <3>1
      <4>2. more[i] = samples[i] /\ samples[i] = recorded[n - m + i].value
        BY <1>2, <1>5, <3>1
      <4>3. recorded'[n - m + i] = recorded[n - m + i]
        BY <1>4, <4>1
      <4>4. QED
        BY <4>2, <4>3
    <3>2. CASE i = m + 1
      <4>1. n - m + i = n + 1
        BY <1>2, <3>2
      <4>2. QED
        BY <1>4, <1>5, <3>2, <4>1
    <3>3. QED
      BY <1>2, <3>1, <3>2
  <2>2. QED
    BY <2>1
<1> HIDE DEF more, m, n, v
<1>7. CASE m + 1 > WindowSize
  <2>1. m = WindowSize /\ n >= WindowSize
    BY <1>1, <1>2, <1>7
  <2>2. samples' = Tail(more)
    BY <1>3, <1>5, <1>7 DEF Slide
  <2>3. /\ samples' \in Seq(Nat) /\ Len(samples') = m
        /\ \A i \in 1 .. m : samples'[i] = more[i + 1]
    BY <1>2, <1>5, <2>2
  <2>4. ASSUME NEW i \in 1 .. m PROVE samples'[i] = recorded'[Len(recorded') - Len(samples') + i].value
    <3>1. i + 1 \in 1 .. m + 1 /\ n - m + (i + 1) = Len(recorded') - Len(samples') + i
      <4>1. m \in Nat /\ n \in Nat /\ i \in 1 .. m
        BY <1>2
      <4>2. i + 1 \in 1 .. m + 1 /\ n - m + (i + 1) = (n + 1) - m + i
        BY ONLY <4>1
      <4>3. QED
        BY ONLY <4>2, <1>4, <2>3
    <3>2. samples'[i] = more[i + 1] /\ more[i + 1] = recorded'[n - m + (i + 1)].value
      BY <1>6, <2>3, <3>1
    <3>3. QED
      BY <3>1, <3>2
  <2>5. Len(samples') = IF Len(recorded') < WindowSize THEN Len(recorded') ELSE WindowSize
    BY <1>1, <1>2, <1>4, <2>1, <2>3
  <2>6. \A i \in 1 .. Len(samples') : samples'[i] = recorded'[Len(recorded') - Len(samples') + i].value
    BY <2>3, <2>4
  <2>7. QED
    BY <1>3, <1>4, <2>3, <2>5, <2>6 DEF WindowInv
<1>8. CASE ~(m + 1 > WindowSize)
  <2>1. m = n /\ n < WindowSize
    BY <1>1, <1>2, <1>8
  <2>2. samples' = more
    BY <1>3, <1>5, <1>8 DEF Slide
  <2>3. samples' \in Seq(Nat) /\ Len(samples') = m + 1
    BY <1>5, <2>2
  <2>4. ASSUME NEW i \in 1 .. m + 1 PROVE samples'[i] = recorded'[Len(recorded') - Len(samples') + i].value
    <3>1. n - m + i = Len(recorded') - Len(samples') + i
      <4>1. m \in Nat /\ n \in Nat /\ i \in 1 .. m + 1
        BY <1>2
      <4>2. n - m + i = (n + 1) - (m + 1) + i
        BY ONLY <4>1
      <4>3. QED
        BY ONLY <4>2, <1>4, <2>3
    <3>2. QED
      BY <1>6, <2>2, <3>1
  <2>5. Len(samples') = IF Len(recorded') < WindowSize THEN Len(recorded') ELSE WindowSize
    BY <1>1, <1>2, <1>4, <2>1, <2>3
  <2>6. \A i \in 1 .. Len(samples') : samples'[i] = recorded'[Len(recorded') - Len(samples') + i].value
    BY <2>3, <2>4
  <2>7. QED
    BY <1>3, <1>4, <2>3, <2>5, <2>6 DEF WindowInv
<1>9. QED
  BY <1>7, <1>8

\* A sample more is one more that its hour has to count.
LEMMA UpdateKeepsHours ==
  ASSUME NEW r \in Recorders, NEW s \in Samples, recorded \in Seq(Samples), HoursInv, UpdateBaseline(r, s)
  PROVE  HoursInv'
<1> DEFINE n == Len(recorded)
<1>1. /\ recorded' = Append(recorded, s) /\ hourly' = hourly /\ pending[r] = NoSample
      /\ pending' = [pending EXCEPT ![r] = s]
  BY DEF UpdateBaseline
<1>2. pending \in [Recorders -> Samples \cup {NoSample}] /\ s # NoSample
  BY BaselineAssumption DEF HoursInv
<1>3. /\ n \in Nat /\ DOMAIN recorded = 1 .. n /\ DOMAIN recorded' = 1 .. n + 1
      /\ \A i \in 1 .. n : recorded'[i] = recorded[i]
      /\ recorded'[n + 1] = s
  BY <1>1
<1> HIDE DEF n
<1>4. pending' \in [Recorders -> Samples \cup {NoSample}]
  BY <1>1, <1>2
<1>5. ASSUME NEW h \in 0 .. 23
      PROVE  /\ IsFiniteSet(RecordedAt(h)') /\ IsFiniteSet(UncountedAt(h)')
             /\ Cardinality(RecordedAt(h)') = Cardinality(UncountedAt(h)') + hourly'[h].request_count
  <2>1. /\ IsFiniteSet(RecordedAt(h)) /\ IsFiniteSet(UncountedAt(h))
        /\ Cardinality(RecordedAt(h)) = Cardinality(UncountedAt(h)) + hourly[h].request_count
        /\ hourly[h].request_count \in Nat
    BY DEF HoursInv
  <2>2. CASE s.hour = h
    <3>1. RecordedAt(h)' = RecordedAt(h) \cup {n + 1} /\ n + 1 \notin RecordedAt(h)
      BY <1>3, <2>2 DEF RecordedAt
    <3>2. UncountedAt(h)' = UncountedAt(h) \cup {r} /\ r \notin UncountedAt(h)
      BY <1>1, <1>2, <2>2 DEF UncountedAt
    <3>3. /\ IsFiniteSet(RecordedAt(h)') /\ IsFiniteSet(UncountedAt(h)')
          /\ Cardinality(RecordedAt(h)') = Cardinality(RecordedAt(h)) + 1
          /\ Cardinality(UncountedAt(h)') = Cardinality(UncountedAt(h)) + 1
      BY <2>1, <3>1, <3>2, FS_AddElement
    <3>4. Cardinality(RecordedAt(h)) \in Nat /\ Cardinality(UncountedAt(h)) \in Nat
      BY <2>1, FS_CardinalityType
    <3>5. QED
      <4> DEFINE a == Cardinality(RecordedAt(h))
                 b == Cardinality(UncountedAt(h))
                 c == hourly[h].request_count
      <4>1. a \in Nat /\ b \in Nat /\ c \in Nat /\ a = b + c
        BY <2>1, <3>4
      <4> HIDE DEF a, b, c
      <4>2. a + 1 = b + 1 + c
        BY <4>1
      <4>3. QED
        BY <1>1, <3>3, <4>2 DEF a, b, c
  <2>3. CASE s.hour # h
    <3>1. RecordedAt(h)' = RecordedAt(h)
      BY <1>3, <2>3 DEF RecordedAt
    <3>2. UncountedAt(h)' = UncountedAt(h)
      BY <1>1, <1>2, <2>3 DEF UncountedAt
    <3>3. QED
      BY <1>1, <2>1, <3>1, <3>2
  <2>4. QED
    BY <2>2, <2>3
<1>6. hourly' \in [0 .. 23 -> [request_count : Nat, total : Nat]]
  BY <1>1 DEF HoursInv
<1>7. QED
  BY <1>4, <1>5, <1>6 DEF HoursInv

\* A recorder that counts its sample has none left.
LEMMA CountKeepsHours ==
  ASSUME NEW r \in Recorders, HoursInv, CountHour(r)
  PROVE  HoursInv'
<1> DEFINE s == pending[r]
           at == s.hour
<1>1. /\ s # NoSample
      /\ hourly' = [hourly EXCEPT ![at] = [request_count |-> hourly[at].request_count + 1,
                                           total |-> hourly[at].total + s.value]]
      /\ pending' = [pending EXCEPT ![r] = NoSample]
      /\ recorded' = recorded
  BY DEF CountHour
<1>2. /\ pending \in [Recorders -> Samples \cup {NoSample}]
      /\ hourly \in [0 .. 23 -> [request_count : Nat, total : Nat]]
  BY DEF HoursInv
<1>3. s \in Samples /\ at \in 0 .. 23 /\ s.value \in Nat
  BY <1>1, <1>2, BaselineAssumption
<1>4. pending' \in [Recorders -> Samples \cup {NoSample}]
  BY <1>1, <1>2
<1>5. hourly' \in [0 .. 23 -> [request_count : Nat, total : Nat]]
  <2>1. hourly[at] \in [request_count : Nat, total : Nat]
    BY <1>2, <1>3
  <2>2. [request_count |-> hourly[at].request_count + 1, total |-> hourly[at].total + s.value]
          \in [request_count : Nat, total : Nat]
    BY <1>3, <2>1
  <2> HIDE DEF s, at
  <2>3. QED
    BY <1>1, <1>2, <2>2
<1>6. ASSUME NEW h \in 0 .. 23
      PROVE  /\ IsFiniteSet(RecordedAt(h)') /\ IsFiniteSet(UncountedAt(h)')
             /\ Cardinality(RecordedAt(h)') = Cardinality(UncountedAt(h)') + hourly'[h].request_count
  <2>1. /\ IsFiniteSet(RecordedAt(h)) /\ IsFiniteSet(UncountedAt(h))
        /\ Cardinality(RecordedAt(h)) = Cardinality(UncountedAt(h)) + hourly[h].request_count
        /\ hourly[h].request_count \in Nat
    BY DEF HoursInv
  <2>2. RecordedAt(h)' = RecordedAt(h)
    BY <1>1 DEF RecordedAt
  <2>3. CASE at = h
    <3>1. UncountedAt(h)' = UncountedAt(h) \ {r} /\ r \in UncountedAt(h)
      BY <1>1, <1>2, <2>3 DEF UncountedAt
    <3>2. IsFiniteSet(UncountedAt(h)') /\ Cardinality(UncountedAt(h)') = Cardinality(UncountedAt(h)) - 1
      BY <2>1, <3>1, FS_RemoveElement
    <3>3. Cardinality(RecordedAt(h)) \in Nat /\ Cardinality(UncountedAt(h)) \in Nat
      BY <2>1, FS_CardinalityType
    <3>4. hourly'[h].request_count = hourly[h].request_count + 1
      BY <1>1, <1>2, <2>3
    <3>5. QED
      BY <2>1, <2>2, <3>2, <3>3, <3>4
  <2>4. CASE at # h
    <3>1. UncountedAt(h)' = UncountedAt(h)
      BY <1>1, <1>2, <2>4 DEF UncountedAt
    <3>2. hourly'[h] = hourly[h]
      BY <1>1, <1>2, <2>4
    <3>3. QED
      BY <2>1, <2>2, <3>1, <3>2
  <2>5. QED
    BY <2>3, <2>4
<1>7. QED
  BY <1>4, <1>5, <1>6 DEF HoursInv

\* What the window holds is what the samples are.
LEMMA WindowHoldsSamples ==
  ASSUME WindowInv
  PROVE  /\ InWindow \in Seq(Nat) /\ Len(InWindow) = Len(samples)
         /\ ToSet(InWindow) = ToSet(samples)
<1> DEFINE m == Len(samples)
           n == Len(recorded)
<1>1. /\ m \in Nat /\ n \in Nat /\ m <= n /\ m = (IF n < WindowSize THEN n ELSE WindowSize)
      /\ samples \in Seq(Nat) /\ WindowSize \in Nat
      /\ \A i \in 1 .. m : samples[i] = recorded[n - m + i].value
  <2>1. WindowSize \in Nat
    BY BaselineAssumption
  <2>2. /\ recorded \in Seq(Samples) /\ samples \in Seq(Nat)
        /\ m = (IF n < WindowSize THEN n ELSE WindowSize)
        /\ \A i \in 1 .. m : samples[i] = recorded[n - m + i].value
    BY DEF WindowInv
  <2>3. m \in Nat /\ n \in Nat
    BY <2>2
  <2> HIDE DEF m, n
  <2>4. m <= n
    BY <2>1, <2>2, <2>3
  <2>5. QED
    BY <2>1, <2>2, <2>3, <2>4
<1>2. Min({WindowSize, n}) = m
  <2>1. m \in {WindowSize, n} /\ \A y \in {WindowSize, n} : m <= y
    BY <1>1
  <2>2. \A x \in {WindowSize, n} : (\A y \in {WindowSize, n} : x <= y) => x = m
    BY <1>1, <2>1
  <2>3. QED
    BY <2>1, <2>2 DEF Min
<1>3. InWindow = [i \in 1 .. m |-> recorded[n - i + 1].value]
  BY <1>2 DEF InWindow
<1> HIDE DEF m, n
<1>4. \A i \in 1 .. m : InWindow[i] = samples[m + 1 - i] /\ m + 1 - i \in 1 .. m
  <2>1. ASSUME NEW i \in 1 .. m PROVE InWindow[i] = samples[m + 1 - i] /\ m + 1 - i \in 1 .. m
    <3>1. m + 1 - i \in 1 .. m /\ n - m + (m + 1 - i) = n - i + 1
      BY <1>1
    <3>2. QED
      BY <1>1, <1>3, <3>1
  <2>2. QED
    BY <2>1
<1>5. \A k \in 1 .. m : samples[k] \in Nat
  BY <1>1 DEF m
<1>6. InWindow \in [1 .. m -> Nat]
  BY <1>3, <1>4, <1>5
<1>7. InWindow \in Seq(Nat) /\ Len(InWindow) = m
  BY <1>1, <1>6, FunctionIsSeq
<1>8. ToSet(InWindow) = {InWindow[i] : i \in 1 .. m} /\ ToSet(samples) = {samples[i] : i \in 1 .. m}
  <2>1. DOMAIN InWindow = 1 .. m
    BY <1>3
  <2>2. DOMAIN samples = 1 .. m
    BY <1>1 DEF m
  <2>3. QED
    BY ONLY <2>1, <2>2, Zenon DEF ToSet
<1>9. \A k \in 1 .. m : samples[k] = InWindow[m + 1 - k] /\ m + 1 - k \in 1 .. m
  <2>1. ASSUME NEW k \in 1 .. m PROVE samples[k] = InWindow[m + 1 - k] /\ m + 1 - k \in 1 .. m
    <3>1. m + 1 - k \in 1 .. m /\ m + 1 - (m + 1 - k) = k
      BY <1>1
    <3>2. QED
      BY <1>4, <3>1
  <2>2. QED
    BY <2>1
<1>10. ToSet(InWindow) = ToSet(samples)
  BY <1>4, <1>8, <1>9
<1>11. QED
  BY <1>7, <1>10 DEF m

\* Both say what is reported.
LEMMA ReportedByInv ==
  ASSUME WindowInv, HoursInv
  PROVE  OutliersReported
<1> DEFINE last == ToSet(InWindow)
           m == Len(samples)
           low == Min(ToSet(samples))
           top == Max(ToSet(samples))
<1>1. Len(InWindow) = m /\ last = ToSet(samples) /\ last = {samples[i] : i \in 1 .. m}
  <2>1. Len(InWindow) = m /\ last = ToSet(samples)
    BY WindowHoldsSamples
  <2>2. DOMAIN samples = 1 .. m
    BY DEF WindowInv
  <2>3. ToSet(samples) = {samples[i] : i \in 1 .. m}
    BY ONLY <2>2, Zenon DEF ToSet
  <2>4. QED
    BY <2>1, <2>3
<1>2. baseline = CalculateBaseline(samples) /\ samples \in Seq(Nat) /\ m \in Nat
  BY DEF WindowInv
<1>3. ASSUME NEW v \in Probes
      PROVE  /\ Anomalous(v, baseline) => m >= 6 /\ \A w \in last : v > w
             /\ m >= 6 /\ Cardinality(last) > 1 /\ (\A w \in last : v >= 3 * w) => Anomalous(v, baseline)
  <2>1. v \in Nat
    BY OutlierAssumption
  <2>2. CASE samples = <<>>
    <3>1. baseline = DefaultBaseline /\ m = 0
      BY <1>2, <2>2 DEF CalculateBaseline
    <3>2. QED
      BY <2>1, <3>1, NothingRecordedYet
  <2>3. CASE samples # <<>>
    <3>1. Summarises(baseline, m, low, top)
      BY <1>2, <2>3, BaselineSummarises
    <3>2. /\ Anomalous(v, baseline) => m >= 6 /\ v > top
          /\ m >= 6 /\ low < top /\ v >= 3 * top => Anomalous(v, baseline)
      BY ONLY <2>1, <3>1, AnomalousIs
    <3>3. /\ low \in Nat /\ top \in Nat
          /\ \E i \in 1 .. m : samples[i] = top
          /\ \A i \in 1 .. m : low <= samples[i] /\ samples[i] <= top
      BY <1>2, <2>3, ExtremesOf
    <3>4. \A i \in 1 .. m : samples[i] \in Nat
      BY <1>2
    <3> HIDE DEF low, top, last, m
    <3>5. v > top => \A w \in last : v > w
      BY <1>1, <2>1, <3>3, <3>4
    <3>6. (\A w \in last : v >= 3 * w) => v >= 3 * top
      BY <1>1, <3>3
    <3>7. ASSUME ~(low < top) PROVE Cardinality(last) = 1
      <4>1. \A w \in last : w = top
        BY <1>1, <3>3, <3>4, <3>7
      <4>2. last = {top}
        BY <1>1, <3>3, <4>1
      <4>3. QED
        BY <4>2, FS_Singleton
    <3>8. QED
      BY <3>2, <3>5, <3>6, <3>7
  <2>4. QED
    BY <2>2, <2>3
<1>4. ASSUME NEW h \in 0 .. 23
      PROVE  DetectTemporalAnomaly(h, FALSE) > 0 <=>
               h \in 1 .. 5 /\ Cardinality(RecordedAt(h)) > Cardinality(UncountedAt(h))
  <2>1. /\ IsFiniteSet(RecordedAt(h)) /\ IsFiniteSet(UncountedAt(h))
        /\ Cardinality(RecordedAt(h)) = Cardinality(UncountedAt(h)) + hourly[h].request_count
        /\ hourly[h].request_count \in Nat
    BY DEF HoursInv
  <2>2. Cardinality(UncountedAt(h)) \in Nat
    BY <2>1, FS_CardinalityType
  <2>3. DetectTemporalAnomaly(h, FALSE) =
          IF h \in 1 .. 5 /\ hourly[h].request_count > 0 THEN 7 ELSE 0
    BY DEF DetectTemporalAnomaly
  <2> DEFINE a == Cardinality(RecordedAt(h))
             b == Cardinality(UncountedAt(h))
             c == hourly[h].request_count
             d == DetectTemporalAnomaly(h, FALSE)
  <2>4. a = b + c /\ b \in Nat /\ c \in Nat /\ d = IF h \in 1 .. 5 /\ c > 0 THEN 7 ELSE 0
    BY <2>1, <2>2, <2>3
  <2> HIDE DEF a, b, c, d
  <2>5. d > 0 <=> h \in 1 .. 5 /\ c > 0
    BY <2>4
  <2>6. c > 0 <=> a > b
    BY <2>4
  <2>7. QED
    BY <2>5, <2>6 DEF a, b, c, d
<1> HIDE DEF m
<1>5. QED
  BY <1>1, <1>3, <1>4, Zenon DEF OutliersReported, RecordedAt, UncountedAt

\* Whoever records, in whatever order: what is three times as large as any sample of
\* the window is anomalous, nothing is that is not above them all, and an hour of the
\* night counts once a sample of it is recorded to the end (behavioral_analyzer.rs:100-231).
THEOREM OutliersAreReported == BaselineSpec => []OutliersReported
<1>1. BaselineInit => WindowInv /\ HoursInv
  BY BaselineInitInv
<1>2. WindowInv /\ HoursInv /\ [RecordSample]_baselineVars => (WindowInv /\ HoursInv)'
  <2> SUFFICES ASSUME WindowInv, HoursInv, [RecordSample]_baselineVars PROVE WindowInv' /\ HoursInv'
    OBVIOUS
  <2>1. ASSUME NEW r \in Recorders, CountHour(r) PROVE WindowInv' /\ HoursInv'
    <3>1. HoursInv'
      BY <2>1, CountKeepsHours
    <3>2. samples' = samples /\ baseline' = baseline /\ recorded' = recorded
      BY <2>1 DEF CountHour
    <3>3. WindowInv'
      BY <3>2 DEF WindowInv
    <3>4. QED
      BY <3>1, <3>3
  <2>2. ASSUME NEW r \in Recorders, NEW s \in Samples, UpdateBaseline(r, s) PROVE WindowInv' /\ HoursInv'
    <3>1. WindowInv'
      BY <2>2, UpdateKeepsWindow
    <3>2. HoursInv'
      BY <2>2, UpdateKeepsHours DEF WindowInv
    <3>3. QED
      BY <3>1, <3>2
  <2>3. CASE UNCHANGED baselineVars
    BY <2>3 DEF baselineVars, WindowInv, HoursInv, RecordedAt, UncountedAt
  <2>4. QED
    BY <2>1, <2>2, <2>3 DEF RecordSample
<1>3. WindowInv /\ HoursInv => OutliersReported
  BY ReportedByInv
<1>4. QED
  BY <1>1, <1>2, <1>3, PTL DEF BaselineSpec

----------------------------------------------------------------------------
(* IngressFilter.                                                           *)

Stats == [connection_count : Nat, syn_count : Nat, syn_window_start : Nat]

PacketTimes == 0 .. IngressHorizon + 1

IngressTypeOK ==
  /\ clock \in 0 .. IngressHorizon
  /\ connections = [k \in Keys |-> connections[k]]
  /\ ip_stats \in [Ips -> Stats \cup {NoStats}]
  /\ stage \in [Tasks -> Stages]
  /\ packet = [t \in Tasks |-> packet[t]]
  /\ \A t \in Tasks : IF stage[t] = "idle" THEN packet[t] = NoPacket
                      ELSE packet[t] # NoPacket /\ packet[t].key \in Keys
  /\ synPassed \in [Ips -> [PacketTimes -> Nat]]
  /\ beside \in [Ips -> Nat]

USE IngressAssumption

----------------------------------------------------------------------------
(* The budget of SYNs.  P is how many passed before each time, a the start  *)
(* of the window, n the count in it, now the time.                          *)

PassedTotal(P) == P[IngressHorizon + 1]

\* In the window no more passed than were counted, and no more than the threshold;
\* in what a window's length before it no more than the threshold.
Windowed(P, a, n, now) ==
  /\ a \in 0 .. now
  /\ \A u, v \in PacketTimes : u <= v => P[u] <= P[v]
  /\ \A u \in PacketTimes : u > now \/ u >= a + SynWindow => P[u] = PassedTotal(P)
  /\ PassedTotal(P) - P[a] <= n /\ PassedTotal(P) - P[a] <= SynThreshold
  /\ \A u \in PacketTimes : a - SynWindow <= u /\ u <= a => P[a] - P[u] <= SynThreshold

PassedWithinBudget(P) ==
  \A s, e \in PacketTimes : s <= e /\ e <= s + SynWindow => P[e] - P[s] <= 2 * SynThreshold

OneMore(P, now) == [u \in PacketTimes |-> IF u > now THEN P[u] + 1 ELSE P[u]]

\* An IP never seen has had no SYN; the window of one seen fits what has passed.
SynKept(ip) ==
  /\ IF ip_stats[ip] = NoStats THEN \A u \in PacketTimes : synPassed[ip][u] = 0
     ELSE Windowed(synPassed[ip], ip_stats[ip].syn_window_start, ip_stats[ip].syn_count, clock)
  /\ PassedWithinBudget(synPassed[ip])

SynInv == \A ip \in Ips : SynKept(ip)

\* Nothing has passed: any window that starts now, with nothing counted, fits.
LEMMA NothingPassed ==
  ASSUME NEW P \in [PacketTimes -> Nat], NEW now \in 0 .. IngressHorizon, \A u \in PacketTimes : P[u] = 0
  PROVE  Windowed(P, now, 0, now) /\ PassedWithinBudget(P)
BY DEF Windowed, PassedWithinBudget, PassedTotal, PacketTimes

\* Time passes: the window is as it was.
LEMMA WindowAges ==
  ASSUME NEW P \in [PacketTimes -> Nat], NEW now \in Nat, NEW a, NEW n \in Nat,
         Windowed(P, a, n, now)
  PROVE  Windowed(P, a, n, now + 1)
BY DEF Windowed, PassedTotal, PacketTimes

\* A SYN is counted and dropped: in the window, or as the first of a new one.
LEMMA SynDropped ==
  ASSUME NEW P \in [PacketTimes -> Nat], NEW now \in 0 .. IngressHorizon, NEW a, NEW n \in Nat,
         Windowed(P, a, n, now)
  PROVE  IF now - a >= SynWindow THEN Windowed(P, now, 1, now) ELSE Windowed(P, a, n + 1, now)
<1>1. CASE now - a >= SynWindow
  <2>1. /\ now \in PacketTimes /\ a \in PacketTimes /\ P[now] = PassedTotal(P)
        /\ \A u \in PacketTimes : now - SynWindow <= u => PassedTotal(P) - P[u] <= SynThreshold
    BY <1>1 DEF Windowed, PassedTotal, PacketTimes
  <2>2. QED
    BY <1>1, <2>1 DEF Windowed, PassedTotal, PacketTimes
<1>2. CASE ~(now - a >= SynWindow)
  BY <1>2 DEF Windowed, PassedTotal, PacketTimes
<1>3. QED
  BY <1>1, <1>2

\* A SYN is counted and passes: in the window, or as the first of a new one.
LEMMA SynPasses ==
  ASSUME NEW P \in [PacketTimes -> Nat], NEW now \in 0 .. IngressHorizon, NEW a, NEW n \in Nat,
         Windowed(P, a, n, now), PassedWithinBudget(P),
         (IF now - a >= SynWindow THEN 1 ELSE n + 1) <= SynThreshold
  PROVE  /\ OneMore(P, now) \in [PacketTimes -> Nat]
         /\ PassedWithinBudget(OneMore(P, now))
         /\ IF now - a >= SynWindow THEN Windowed(OneMore(P, now), now, 1, now)
            ELSE Windowed(OneMore(P, now), a, n + 1, now)
<1> DEFINE Q == OneMore(P, now)
<1>1. /\ Q \in [PacketTimes -> Nat]
      /\ now \in PacketTimes /\ a \in PacketTimes /\ IngressHorizon + 1 \in PacketTimes
      /\ \A u \in PacketTimes : Q[u] = IF u > now THEN PassedTotal(P) + 1 ELSE P[u]
      /\ PassedTotal(Q) = PassedTotal(P) + 1 /\ PassedTotal(P) \in Nat
  BY DEF OneMore, Windowed, PassedTotal, PacketTimes
<1> HIDE DEF Q
<1>2. \A u \in PacketTimes : u <= now /\ now - SynWindow < u => PassedTotal(P) + 1 - P[u] <= 2 * SynThreshold
  <2> SUFFICES ASSUME NEW u \in PacketTimes, u <= now, now - SynWindow < u
               PROVE  PassedTotal(P) + 1 - P[u] <= 2 * SynThreshold
    OBVIOUS
  <2>0. PassedTotal(P) \in Nat /\ P[u] \in Nat /\ P[a] \in Nat
    BY <1>1 DEF PassedTotal
  <2>1. CASE now - a >= SynWindow
    <3>1. PassedTotal(P) - P[a] <= SynThreshold /\ P[a] <= P[u]
      BY <2>1, <1>1 DEF Windowed, PacketTimes
    <3>2. QED
      BY <3>1, <2>1, <2>0
  <2>2. CASE ~(now - a >= SynWindow)
    <3>1. PassedTotal(P) + 1 - P[a] <= SynThreshold
      BY <2>2, <2>0 DEF Windowed
    <3>2. CASE u >= a
      <4>1. P[a] <= P[u]
        BY <3>2, <1>1 DEF Windowed
      <4>2. QED
        BY <3>1, <4>1, <2>0
    <3>3. CASE u < a
      <4>1. P[a] - P[u] <= SynThreshold
        BY <3>3, <1>1, <2>2 DEF Windowed, PacketTimes
      <4>2. QED
        BY <3>1, <4>1, <2>0
    <3>4. QED
      BY <3>2, <3>3, <1>1 DEF PacketTimes
  <2>3. QED
    BY <2>1, <2>2
<1>3. PassedWithinBudget(Q)
  <2> SUFFICES ASSUME NEW s \in PacketTimes, NEW e \in PacketTimes, s <= e, e <= s + SynWindow
               PROVE  Q[e] - Q[s] <= 2 * SynThreshold
    BY DEF PassedWithinBudget
  <2>1. CASE s <= now /\ now < e
    <3>1. Q[e] = PassedTotal(P) + 1 /\ Q[s] = P[s] /\ now - SynWindow < s
      BY <2>1, <1>1 DEF PacketTimes
    <3>2. PassedTotal(P) + 1 - P[s] <= 2 * SynThreshold
      BY <2>1, <3>1, <1>2
    <3>3. QED
      BY <1>1, <3>1, <3>2
  <2>2. CASE s > now
    <3>1. Q[e] = PassedTotal(P) + 1 /\ Q[s] = PassedTotal(P) + 1
      BY <2>2, <1>1 DEF PacketTimes
    <3>2. QED
      BY <3>1, <1>1
  <2>3. CASE e <= now
    <3>1. Q[e] = P[e] /\ Q[s] = P[s]
      BY <2>3, <1>1 DEF PacketTimes
    <3>2. P[e] - P[s] <= 2 * SynThreshold
      BY DEF PassedWithinBudget
    <3>3. QED
      BY <3>1, <3>2
  <2>4. s \in Int /\ e \in Int /\ now \in Int
    BY DEF PacketTimes
  <2>5. QED
    BY <2>1, <2>2, <2>3, <2>4
<1>4. \A u, v \in PacketTimes : u <= v => Q[u] <= Q[v]
  <2>1. \A u \in PacketTimes : P[u] <= PassedTotal(P) /\ P[u] \in Nat /\ PassedTotal(P) \in Nat
    BY DEF Windowed, PassedTotal, PacketTimes
  <2>2. QED
    <3> SUFFICES ASSUME NEW u \in PacketTimes, NEW v \in PacketTimes, u <= v PROVE Q[u] <= Q[v]
      OBVIOUS
    <3>1. P[u] <= P[v]
      BY DEF Windowed
    <3>2. u \in Int /\ v \in Int
      BY DEF PacketTimes
    <3>3. QED
      BY <1>1, <2>1, <3>1, <3>2
<1>5. CASE now - a >= SynWindow
  <2>1. \A u \in PacketTimes : now - SynWindow <= u => PassedTotal(P) - P[u] <= SynThreshold
    BY <1>5, <1>1 DEF Windowed, PassedTotal, PacketTimes
  <2>2. P[now] = PassedTotal(P) /\ PassedTotal(P) \in Nat
    BY <1>5, <1>1 DEF Windowed, PassedTotal
  <2>3. 1 <= SynThreshold
    BY <1>5
  <2>4. \A u \in PacketTimes : u >= now + SynWindow => Q[u] = PassedTotal(Q)
    BY <1>1 DEF PacketTimes
  <2>5. QED
    BY <1>1, <1>3, <1>4, <1>5, <2>1, <2>2, <2>3, <2>4 DEF Windowed, PacketTimes, Q
<1>6. CASE ~(now - a >= SynWindow)
  <2>1. a <= now /\ now < a + SynWindow /\ P[a] \in Nat /\ PassedTotal(P) \in Nat
    BY <1>6, <1>1 DEF Windowed, PacketTimes, PassedTotal
  <2>2. Q[a] = P[a] /\ \A u \in PacketTimes : u <= a => Q[u] = P[u]
    BY <1>1, <2>1 DEF PacketTimes
  <2>3. \A u \in PacketTimes : u >= a + SynWindow => Q[u] = PassedTotal(Q)
    BY <1>1, <2>1 DEF PacketTimes
  <2>4. PassedTotal(P) - P[a] <= n /\ \A u \in PacketTimes : a - SynWindow <= u /\ u <= a => P[a] - P[u] <= SynThreshold
    BY DEF Windowed
  <2>5. n + 1 <= SynThreshold
    BY <1>6
  <2>6. a \in 0 .. now
    BY DEF Windowed
  <2>7. PassedTotal(Q) - Q[a] <= n + 1 /\ PassedTotal(Q) - Q[a] <= SynThreshold
    BY <1>1, <2>1, <2>2, <2>4, <2>5
  <2>8. \A u \in PacketTimes : u > now => Q[u] = PassedTotal(Q)
    BY <1>1 DEF PacketTimes
  <2>9. \A u \in PacketTimes : a - SynWindow <= u /\ u <= a => Q[a] - Q[u] <= SynThreshold
    BY <2>2, <2>4
  <2>10. QED
    BY <1>1, <1>3, <1>4, <1>6, <2>3, <2>6, <2>7, <2>8, <2>9 DEF Windowed, Q
<1>7. QED
  BY <1>3, <1>5, <1>6, <1>1 DEF Q

----------------------------------------------------------------------------
(* Types.                                                                   *)

\* The statistics of an IP seen or not are a record of counters.
LEMMA StatsOfType ==
  ASSUME IngressTypeOK, NEW ip \in Ips
  PROVE  /\ StatsOf(ip) \in Stats
         /\ ip_stats[ip] = NoStats => StatsOf(ip) = [connection_count |-> 0, syn_count |-> 0,
                                                     syn_window_start |-> clock]
         /\ ip_stats[ip] # NoStats => StatsOf(ip) = ip_stats[ip]
BY DEF IngressTypeOK, StatsOf, Stats

\* Counting a SYN leaves the count of connections as it is.
LEMMA SynCountedIs ==
  ASSUME IngressTypeOK, NEW r \in Stats
  PROVE  /\ SynCounted(r) \in Stats
         /\ SynCounted(r).connection_count = r.connection_count
         /\ SynCounted(r).syn_count =
              IF clock - r.syn_window_start >= SynWindow THEN 1 ELSE r.syn_count + 1
         /\ SynCounted(r).syn_window_start =
              IF clock - r.syn_window_start >= SynWindow THEN clock ELSE r.syn_window_start
<1> DEFINE count == IF WindowOver(r) THEN 1 ELSE r.syn_count + 1
           start == IF WindowOver(r) THEN clock ELSE r.syn_window_start
<1>1. clock \in Nat /\ count \in Nat /\ start \in Nat
  BY DEF IngressTypeOK, Stats
<1>2. SynCounted(r) = [r EXCEPT !.syn_count = count, !.syn_window_start = start]
  BY DEF SynCounted
<1>3. WindowOver(r) <=> clock - r.syn_window_start >= SynWindow
  BY DEF WindowOver
<1> HIDE DEF count, start
<1>4. /\ SynCounted(r) \in Stats
      /\ SynCounted(r).connection_count = r.connection_count
      /\ SynCounted(r).syn_count = count /\ SynCounted(r).syn_window_start = start
  BY <1>1, <1>2 DEF Stats
<1>5. QED
  BY <1>3, <1>4 DEF count, start

\* A packet on its way came from an IP.
LEMMA SourceType ==
  ASSUME IngressTypeOK, NEW t \in Tasks, stage[t] # "idle"
  PROVE  packet[t] # NoPacket /\ packet[t].key \in Keys /\ SourceOf(t) \in Ips
BY DEF IngressTypeOK, SourceOf

\* NoStats is no record of counters.
LEMMA NoStatsOutside == NoStats \notin Stats
BY DEF Stats

\* The larger of two.
LEMMA MaxOfTwo ==
  ASSUME NEW m \in Int, NEW n \in Int
  PROVE  Max({m, n}) = IF m >= n THEN m ELSE n
<1>1. PICK x \in {m, n} : \A y \in {m, n} : x >= y
  OBVIOUS
<1>2. \A x1, x2 \in {m, n} : (\A y \in {m, n} : x1 >= y) /\ (\A y \in {m, n} : x2 >= y) => x1 = x2
  OBVIOUS
<1>3. Max({m, n}) \in {m, n} /\ \A y \in {m, n} : Max({m, n}) >= y
  BY <1>1 DEF Max
<1>4. QED
  BY <1>3

\* The count of an IP seen falls by one, down to 0, and the count of SYNs stays.
LEMMA LoweredIs ==
  ASSUME NEW r \in Stats
  PROVE  /\ Lowered(r) \in Stats
         /\ Lowered(r).connection_count =
              IF r.connection_count >= 1 THEN r.connection_count - 1 ELSE 0
         /\ Lowered(r).syn_count = r.syn_count
         /\ Lowered(r).syn_window_start = r.syn_window_start
<1> DEFINE count == Max({r.connection_count - 1, 0})
<1>1. count \in Nat /\ count = IF r.connection_count >= 1 THEN r.connection_count - 1 ELSE 0
  BY MaxOfTwo DEF Stats
<1>2. Lowered(r) = [r EXCEPT !.connection_count = count]
  BY NoStatsOutside DEF Lowered
<1> HIDE DEF count
<1>3. QED
  BY <1>1, <1>2 DEF Stats

\* The next stage of a packet keeps the types of the packets.
LEMMA StageTypes ==
  ASSUME IngressTypeOK, NEW t \in Tasks, stage[t] # "idle",
         Finish(t) \/ \E next \in Stages \ {"idle"} : Advance(t, next)
  PROVE  /\ stage' \in [Tasks -> Stages]
         /\ packet' = [u \in Tasks |-> packet'[u]]
         /\ \A u \in Tasks : IF stage'[u] = "idle" THEN packet'[u] = NoPacket
                             ELSE packet'[u] # NoPacket /\ packet'[u].key \in Keys
<1>1. CASE Finish(t)
  BY <1>1 DEF IngressTypeOK, Finish, Stages
<1>2. CASE \E next \in Stages \ {"idle"} : Advance(t, next)
  BY <1>2 DEF IngressTypeOK, Advance
<1>3. QED
  BY <1>1, <1>2

\* The initial state has the types.
LEMMA InitIngressTypeOK == IngressInit => IngressTypeOK
BY DEF IngressInit, IngressTypeOK, Stages, PacketTimes

\* Every step keeps the types.
LEMMA NextIngressTypeOK == IngressTypeOK /\ [IngressNext]_ingressVars => IngressTypeOK'
<1> SUFFICES ASSUME IngressTypeOK, [IngressNext]_ingressVars PROVE IngressTypeOK'
  OBVIOUS
<1>1. ASSUME NEW t \in Tasks, NEW k \in Keys, NEW p \in Packets, Arrive(t, k, p)
      PROVE  IngressTypeOK'
  <2>1. CASE p.size = "over"
    BY <1>1, <2>1 DEF Arrive, IngressTypeOK, tables
  <2>2. CASE p.size # "over"
    <3> DEFINE r == [key |-> k, flags |-> p.flags, size |-> p.size]
    <3>1. r # NoPacket /\ r.key = k
      OBVIOUS
    <3>2. stage' = [stage EXCEPT ![t] = "syn"] /\ packet' = [packet EXCEPT ![t] = r]
      BY <1>1, <2>2 DEF Arrive
    <3> HIDE DEF r
    <3>3. UNCHANGED <<clock, connections, ip_stats, synPassed, beside>>
      BY <1>1 DEF Arrive, tables
    <3>4. QED
      BY <3>1, <3>2, <3>3 DEF IngressTypeOK, Stages
  <2>3. QED
    BY <2>1, <2>2
<1>2. ASSUME NEW t \in Tasks, CountSyn(t) PROVE IngressTypeOK'
  <2> DEFINE ip == SourceOf(t)
             counted == packet[t].size = "empty" /\ "syn" \in packet[t].flags
                          /\ "ack" \notin packet[t].flags
  <2>1. stage[t] # "idle" /\ (Finish(t) \/ \E next \in Stages \ {"idle"} : Advance(t, next))
    BY <1>2 DEF CountSyn, Stages
  <2>2. ip \in Ips /\ SynCounted(StatsOf(ip)) \in Stats
    BY <2>1, SourceType, StatsOfType, SynCountedIs
  <2>3. ip_stats' \in [Ips -> Stats \cup {NoStats}]
    BY <1>2, <2>2 DEF CountSyn, IngressTypeOK
  <2>4. synPassed' = synPassed \/ NoteSyn(ip)
    BY <1>2 DEF CountSyn
  <2>5. synPassed' \in [Ips -> [PacketTimes -> Nat]]
    BY <2>4 DEF NoteSyn, IngressTypeOK
  <2>6. QED
    BY <1>2, <2>1, <2>3, <2>5, StageTypes DEF CountSyn, IngressTypeOK
<1>3. ASSUME NEW t \in Tasks, CheckLimit(t) PROVE IngressTypeOK'
  <2>1. stage[t] # "idle" /\ (Finish(t) \/ \E next \in Stages \ {"idle"} : Advance(t, next))
    BY <1>3 DEF CheckLimit, Stages
  <2>2. QED
    BY <1>3, <2>1, StageTypes DEF CheckLimit, IngressTypeOK, tables, history
<1>4. ASSUME NEW t \in Tasks, MaybeCleanup(t) PROVE IngressTypeOK'
  <2>1. stage[t] # "idle" /\ (Finish(t) \/ \E next \in Stages \ {"idle"} : Advance(t, next))
    BY <1>4 DEF MaybeCleanup, Stages
  <2>2. QED
    BY <1>4, <2>1, StageTypes DEF MaybeCleanup, IngressTypeOK, tables, history
<1>5. ASSUME NEW t \in Tasks, Sweep(t) PROVE IngressTypeOK'
  <2>1. stage[t] # "idle" /\ (Finish(t) \/ \E next \in Stages \ {"idle"} : Advance(t, next))
    BY <1>5 DEF Sweep, Stages
  <2>2. QED
    BY <1>5, <2>1, StageTypes DEF Sweep, IngressTypeOK, history
<1>6. ASSUME NEW t \in Tasks, CheckReputation(t) PROVE IngressTypeOK'
  <2>1. stage[t] # "idle" /\ (Finish(t) \/ \E next \in Stages \ {"idle"} : Advance(t, next))
    BY <1>6 DEF CheckReputation, Stages
  <2>2. QED
    BY <1>6, <2>1, StageTypes DEF CheckReputation, IngressTypeOK, tables, history
<1>7. ASSUME NEW t \in Tasks, LookUp(t) PROVE IngressTypeOK'
  <2>1. stage[t] # "idle" /\ (Finish(t) \/ \E next \in Stages \ {"idle"} : Advance(t, next))
    BY <1>7 DEF LookUp, Stages
  <2>2. QED
    BY <1>7, <2>1, StageTypes DEF LookUp, IngressTypeOK, tables, history
<1>8. ASSUME NEW t \in Tasks, Admit(t) PROVE IngressTypeOK'
  <2>1. stage[t] # "idle" /\ Finish(t)
    BY <1>8 DEF Admit
  <2>2. SourceOf(t) \in Ips /\ StatsOf(SourceOf(t)) \in Stats
    BY <2>1, SourceType, StatsOfType
  <2>3. [StatsOf(SourceOf(t)) EXCEPT !.connection_count = @ + 1] \in Stats
    BY <2>2 DEF Stats
  <2>4. ip_stats' \in [Ips -> Stats \cup {NoStats}]
    BY <1>8, <2>2, <2>3 DEF Admit, IngressTypeOK
  <2>5. QED
    BY <1>8, <2>1, <2>4, StageTypes DEF Admit, Insert, IngressTypeOK, history
<1>9. ASSUME NEW t \in Tasks, Update(t) PROVE IngressTypeOK'
  <2>1. stage[t] # "idle" /\ Finish(t)
    BY <1>9 DEF Update
  <2>2. QED
    BY <1>9, <2>1, StageTypes DEF Update, IngressTypeOK, history
<1>10. ASSUME NEW k \in Keys, RemoveConnection(k) PROVE IngressTypeOK'
  <2>1. Source[k] \in Ips
    OBVIOUS
  <2>2. \A r \in Stats : Lowered(r) \in Stats
    BY LoweredIs
  <2>3. ip_stats' \in [Ips -> Stats \cup {NoStats}]
    <3>1. Lowered(NoStats) = NoStats
      BY DEF Lowered
    <3>2. QED
      BY <1>10, <2>1, <2>2, <3>1 DEF RemoveConnection, IngressTypeOK
  <2>4. beside' \in [Ips -> Nat]
    BY <1>10, <2>1 DEF RemoveConnection, IngressTypeOK
  <2>5. QED
    BY <1>10, <2>3, <2>4 DEF RemoveConnection, IngressTypeOK
<1>11. ASSUME NEW k \in Keys, NEW p \in Packets, RegisterConnection(k, p.flags) PROVE IngressTypeOK'
  <2>1. beside' \in [Ips -> Nat]
    BY <1>11 DEF RegisterConnection, IngressTypeOK
  <2>2. connections' = [j \in Keys |-> connections'[j]]
    BY <1>11 DEF RegisterConnection, Insert, IngressTypeOK
  <2>3. QED
    BY <1>11, <2>1, <2>2 DEF RegisterConnection, IngressTypeOK
<1>12. ASSUME NEW range, BlockRange(range) PROVE IngressTypeOK'
  BY <1>12 DEF BlockRange, IngressTypeOK, tables, history
<1>13. ASSUME NEW ip \in Ips, UnblockIp(ip) PROVE IngressTypeOK'
  BY <1>13 DEF UnblockIp, IngressTypeOK, tables, history
<1>14. CASE IngressTick
  BY <1>14 DEF IngressTick, IngressTypeOK, tables, history
<1>15. CASE UNCHANGED ingressVars
  BY <1>15 DEF ingressVars, IngressTypeOK, tables, history
<1>16. QED
  BY <1>1, <1>2, <1>3, <1>4, <1>5, <1>6, <1>7, <1>8, <1>9, <1>10, <1>11, <1>12, <1>13, <1>14, <1>15
  DEF IngressNext, PacketStep

----------------------------------------------------------------------------
(* The SYNs that pass.                                                      *)

\* The window of any IP fits, that of an IP never seen being the one that starts now.
LEMMA WindowFits ==
  ASSUME IngressTypeOK, NEW ip \in Ips, SynKept(ip)
  PROVE  Windowed(synPassed[ip], StatsOf(ip).syn_window_start, StatsOf(ip).syn_count, clock)
<1>1. CASE ip_stats[ip] = NoStats
  <2>1. synPassed[ip] \in [PacketTimes -> Nat] /\ clock \in 0 .. IngressHorizon
    BY DEF IngressTypeOK
  <2>2. Windowed(synPassed[ip], clock, 0, clock)
    BY <1>1, <2>1, NothingPassed DEF SynKept
  <2>3. QED
    BY <1>1, <2>2, StatsOfType
<1>2. CASE ip_stats[ip] # NoStats
  BY <1>2, StatsOfType DEF SynKept
<1>3. QED
  BY <1>1, <1>2

\* A step that leaves the window and what has passed alone.
LEMMA SynUntouched ==
  ASSUME IngressTypeOK, NEW ip \in Ips, SynKept(ip),
         clock' = clock, synPassed'[ip] = synPassed[ip],
         \/ ip_stats'[ip] = ip_stats[ip]
         \/ /\ ip_stats'[ip] \in Stats
            /\ ip_stats'[ip].syn_count = StatsOf(ip).syn_count
            /\ ip_stats'[ip].syn_window_start = StatsOf(ip).syn_window_start
  PROVE  SynKept(ip)'
<1>1. CASE ip_stats'[ip] = ip_stats[ip]
  BY <1>1 DEF SynKept
<1>2. CASE ip_stats'[ip] # ip_stats[ip]
  BY <1>2, WindowFits, NoStatsOutside DEF SynKept
<1>3. QED
  BY <1>1, <1>2

\* The initial state fits.
LEMMA InitSynInv == IngressInit => SynInv
<1>1. ASSUME IngressInit, NEW ip \in Ips
      PROVE  SynKept(ip)
  <2>1. /\ synPassed[ip] \in [PacketTimes -> Nat] /\ 0 \in 0 .. IngressHorizon
        /\ \A u \in PacketTimes : synPassed[ip][u] = 0
        /\ ip_stats[ip] = NoStats
    BY <1>1 DEF IngressInit, PacketTimes
  <2>2. PassedWithinBudget(synPassed[ip])
    BY <2>1, NothingPassed
  <2>3. QED
    BY <2>1, <2>2 DEF SynKept
<1>2. QED
  BY <1>1 DEF SynInv

\* Counting a SYN keeps the budget of its IP.
LEMMA CountSynKeeps ==
  ASSUME IngressTypeOK, NEW t \in Tasks, CountSyn(t), NEW ip \in Ips, SynKept(ip)
  PROVE  SynKept(ip)'
<1> DEFINE counted == packet[t].size = "empty" /\ "syn" \in packet[t].flags
                        /\ "ack" \notin packet[t].flags
           r == SynCounted(StatsOf(ip))
           passes == FlagsValid(packet[t].flags) /\ (counted => r.syn_count <= SynThreshold)
<1>1. clock' = clock /\ SourceOf(t) \in Ips /\ clock \in 0 .. IngressHorizon
  BY SourceType DEF CountSyn, IngressTypeOK
<1>2. CASE SourceOf(t) # ip \/ ~counted
  <2>1. ip_stats'[ip] = ip_stats[ip]
    BY <1>1, <1>2 DEF CountSyn, IngressTypeOK
  <2>2. synPassed'[ip] = synPassed[ip]
    BY <1>1, <1>2 DEF CountSyn, NoteSyn, IngressTypeOK
  <2>3. QED
    BY <1>1, <2>1, <2>2, SynUntouched
<1>3. CASE SourceOf(t) = ip /\ counted
  <2> DEFINE P == synPassed[ip]
             a == StatsOf(ip).syn_window_start
             n == StatsOf(ip).syn_count
  <2>1. StatsOf(ip) \in Stats /\ P \in [PacketTimes -> Nat] /\ a \in Nat /\ n \in Nat
    BY StatsOfType DEF IngressTypeOK, Stats
  <2>2. /\ r \in Stats
        /\ r.syn_count = IF clock - a >= SynWindow THEN 1 ELSE n + 1
        /\ r.syn_window_start = IF clock - a >= SynWindow THEN clock ELSE a
    BY <2>1, SynCountedIs
  <2>3. Windowed(P, a, n, clock) /\ PassedWithinBudget(P)
    BY WindowFits DEF SynKept
  <2>4. ip_stats'[ip] = r
    BY <1>3 DEF CountSyn, IngressTypeOK
  <2>5. synPassed'[ip] = IF passes THEN OneMore(P, clock) ELSE P
    <3>1. DOMAIN P = PacketTimes
      BY <2>1
    <3>2. CASE passes
      <4>1. NoteSyn(ip)
        BY <1>3, <3>2 DEF CountSyn
      <4>2. QED
        BY <3>1, <3>2, <4>1 DEF NoteSyn, OneMore, IngressTypeOK
    <3>3. CASE ~passes
      BY <1>3, <3>3 DEF CountSyn
    <3>4. QED
      BY <3>2, <3>3
  <2> HIDE DEF P, a, n, r, counted
  <2>6. CASE passes
    <3>1. (IF clock - a >= SynWindow THEN 1 ELSE n + 1) <= SynThreshold
      BY <1>3, <2>2, <2>6
    <3>2. /\ PassedWithinBudget(OneMore(P, clock))
          /\ IF clock - a >= SynWindow THEN Windowed(OneMore(P, clock), clock, 1, clock)
             ELSE Windowed(OneMore(P, clock), a, n + 1, clock)
      BY <1>1, <2>1, <2>3, <3>1, SynPasses
    <3>3. Windowed(OneMore(P, clock), r.syn_window_start, r.syn_count, clock)
      BY <2>2, <3>2
    <3>4. QED
      BY <1>1, <2>2, <2>4, <2>5, <2>6, <3>2, <3>3, NoStatsOutside DEF SynKept
  <2>7. CASE ~passes
    <3>1. IF clock - a >= SynWindow THEN Windowed(P, clock, 1, clock) ELSE Windowed(P, a, n + 1, clock)
      BY <1>1, <2>1, <2>3, SynDropped
    <3>2. Windowed(P, r.syn_window_start, r.syn_count, clock)
      BY <2>2, <3>1
    <3>3. QED
      BY <1>1, <2>2, <2>3, <2>4, <2>5, <2>7, <3>2, NoStatsOutside DEF SynKept
  <2>8. QED
    BY <2>6, <2>7
<1>4. QED
  BY <1>2, <1>3

\* Every step keeps the budgets.
LEMMA NextSynInv == IngressTypeOK /\ SynInv /\ [IngressNext]_ingressVars => SynInv'
<1> SUFFICES ASSUME IngressTypeOK, SynInv, [IngressNext]_ingressVars, NEW ip \in Ips
             PROVE  SynKept(ip)'
  BY DEF SynInv
<1>0. SynKept(ip)
  BY DEF SynInv
<1>1. CASE clock' = clock /\ synPassed' = synPassed /\ ip_stats' = ip_stats
  BY <1>0, <1>1, SynUntouched
<1>2. ASSUME NEW t \in Tasks, CountSyn(t) PROVE SynKept(ip)'
  BY <1>0, <1>2, CountSynKeeps
<1>3. ASSUME NEW t \in Tasks, Admit(t) PROVE SynKept(ip)'
  <2>1. StatsOf(ip) \in Stats /\ SourceOf(t) \in Ips
    BY <1>3, StatsOfType, SourceType DEF Admit
  <2>2. ip_stats'[ip] = ip_stats[ip]
          \/ ip_stats'[ip] = [StatsOf(ip) EXCEPT !.connection_count = @ + 1]
    BY <1>3, <2>1 DEF Admit, IngressTypeOK
  <2>3. clock' = clock /\ synPassed' = synPassed
    BY <1>3 DEF Admit, history
  <2>4. \/ ip_stats'[ip] = ip_stats[ip]
        \/ /\ ip_stats'[ip] \in Stats
           /\ ip_stats'[ip].syn_count = StatsOf(ip).syn_count
           /\ ip_stats'[ip].syn_window_start = StatsOf(ip).syn_window_start
    BY <2>1, <2>2 DEF Stats
  <2>5. QED
    BY <1>0, <2>3, <2>4, SynUntouched
<1>4. ASSUME NEW k \in Keys, RemoveConnection(k) PROVE SynKept(ip)'
  <2>1. StatsOf(ip) \in Stats /\ (ip_stats[ip] # NoStats => StatsOf(ip) = ip_stats[ip])
    BY StatsOfType
  <2>2. ip_stats'[ip] = ip_stats[ip] \/ ip_stats'[ip] = Lowered(ip_stats[ip])
    BY <1>4 DEF RemoveConnection, IngressTypeOK
  <2>3. clock' = clock /\ synPassed' = synPassed
    BY <1>4 DEF RemoveConnection
  <2>4. \/ ip_stats'[ip] = ip_stats[ip]
        \/ /\ ip_stats'[ip] \in Stats
           /\ ip_stats'[ip].syn_count = StatsOf(ip).syn_count
           /\ ip_stats'[ip].syn_window_start = StatsOf(ip).syn_window_start
    BY <2>1, <2>2, LoweredIs DEF Lowered
  <2>5. QED
    BY <1>0, <2>3, <2>4, SynUntouched
<1>5. CASE IngressTick
  <2>1. clock' = clock + 1 /\ synPassed' = synPassed /\ ip_stats' = ip_stats /\ clock \in Nat
    BY <1>5 DEF IngressTick, IngressTypeOK, tables, history
  <2>2. CASE ip_stats[ip] = NoStats
    BY <1>0, <2>1, <2>2 DEF SynKept
  <2>3. CASE ip_stats[ip] # NoStats
    <3>1. ip_stats[ip].syn_count \in Nat /\ synPassed[ip] \in [PacketTimes -> Nat]
      BY <2>3 DEF IngressTypeOK, Stats
    <3>2. QED
      BY <1>0, <2>1, <2>3, <3>1, WindowAges DEF SynKept
  <2>4. QED
    BY <2>2, <2>3
<1>6. ASSUME NEW t \in Tasks,
             \/ \E k \in Keys, p \in Packets : Arrive(t, k, p)
             \/ CheckLimit(t) \/ MaybeCleanup(t) \/ Sweep(t)
             \/ CheckReputation(t) \/ LookUp(t) \/ Update(t)
      PROVE  clock' = clock /\ synPassed' = synPassed /\ ip_stats' = ip_stats
  BY <1>6 DEF Arrive, CheckLimit, MaybeCleanup, Sweep, CheckReputation, LookUp, Update, tables, history
<1>7. ASSUME \/ \E k \in Keys, p \in Packets : RegisterConnection(k, p.flags)
             \/ \E range \in BlockRanges : BlockRange(range)
             \/ \E i \in Ips : BlockRange(HostRange[i]) \/ UnblockIp(i)
             \/ UNCHANGED ingressVars
      PROVE  clock' = clock /\ synPassed' = synPassed /\ ip_stats' = ip_stats
  BY <1>7 DEF RegisterConnection, BlockRange, UnblockIp, ingressVars, tables, history
<1>8. QED
  BY <1>1, <1>2, <1>3, <1>4, <1>5, <1>6, <1>7 DEF IngressNext, PacketStep

\* What passes fits two windows at every moment, whatever the packets and however they
\* fall on the fixed windows of :162-167.
THEOREM SynsWithinBudget == IngressSpec => []SynBudget
<1>1. IngressInit => IngressTypeOK /\ SynInv
  BY InitIngressTypeOK, InitSynInv
<1>2. IngressTypeOK /\ SynInv /\ [IngressNext]_ingressVars => (IngressTypeOK /\ SynInv)'
  BY NextIngressTypeOK, NextSynInv
<1>3. SynInv => SynBudget
  BY DEF SynInv, SynKept, PassedWithinBudget, SynBudget, PacketTimes
<1>4. QED
  BY <1>1, <1>2, <1>3, PTL DEF IngressSpec

----------------------------------------------------------------------------
(* The count, the limit and the table.                                      *)

Overshoot(ip) == ConnCount(ip) + Cardinality(Admitted(ip)) < ConnectionLimit + Cardinality(Tasks)

Behind(ip) == Cardinality(Live(ip)) <= ConnCount(ip) + beside[ip]

\* A part of a finite set is finite and not larger; one element more or less counts one.
LEMMA Parts ==
  ASSUME NEW A, IsFiniteSet(A), NEW B
  PROVE  /\ Cardinality(A) \in Nat
         /\ B \subseteq A => IsFiniteSet(B) /\ Cardinality(B) \in Nat /\ Cardinality(B) <= Cardinality(A)
         /\ \A x : B \subseteq A \cup {x} => Cardinality(B) <= Cardinality(A) + 1
         /\ \A x \in A : B \subseteq A \ {x} => Cardinality(B) <= Cardinality(A) - 1
<1>1. Cardinality(A) \in Nat
  BY FS_CardinalityType
<1>2. B \subseteq A => IsFiniteSet(B) /\ Cardinality(B) \in Nat /\ Cardinality(B) <= Cardinality(A)
  BY FS_Subset, FS_CardinalityType
<1>3. ASSUME NEW x, B \subseteq A \cup {x} PROVE Cardinality(B) <= Cardinality(A) + 1
  <2>1. /\ IsFiniteSet(A \cup {x})
        /\ Cardinality(A \cup {x}) = IF x \in A THEN Cardinality(A) ELSE Cardinality(A) + 1
    BY FS_AddElement
  <2>2. Cardinality(B) <= Cardinality(A \cup {x}) /\ Cardinality(B) \in Nat
    BY <1>3, <2>1, FS_Subset, FS_CardinalityType
  <2>3. QED
    BY <1>1, <2>1, <2>2
<1>4. ASSUME NEW x \in A, B \subseteq A \ {x} PROVE Cardinality(B) <= Cardinality(A) - 1
  <2>1. IsFiniteSet(A \ {x}) /\ Cardinality(A \ {x}) = Cardinality(A) - 1
    BY FS_RemoveElement
  <2>2. Cardinality(B) <= Cardinality(A \ {x})
    BY <1>4, <2>1, FS_Subset
  <2>3. QED
    BY <2>1, <2>2
<1>5. QED
  BY <1>1, <1>2, <1>3, <1>4

\* What is counted is finite.
LEMMA CountsType ==
  ASSUME IngressTypeOK, NEW ip \in Ips
  PROVE  /\ ConnCount(ip) \in Nat /\ beside[ip] \in Nat
         /\ IsFiniteSet(Admitted(ip)) /\ Cardinality(Admitted(ip)) \in Nat
         /\ Cardinality(Admitted(ip)) <= Cardinality(Tasks) /\ Cardinality(Tasks) \in Nat
         /\ IsFiniteSet(Live(ip)) /\ Cardinality(Live(ip)) \in Nat
<1>1. ConnCount(ip) \in Nat /\ beside[ip] \in Nat
  BY StatsOfType DEF ConnCount, Stats, IngressTypeOK
<1>2. Admitted(ip) \subseteq Tasks /\ Live(ip) \subseteq Keys
  BY DEF Admitted, Live
<1>3. QED
  BY <1>1, <1>2, Parts

\* The count is the one in the statistics, and 0 for an IP never seen.
LEMMA CountIs ==
  ASSUME NEW ip
  PROVE  /\ ConnCount(ip) = IF ip_stats[ip] = NoStats THEN 0 ELSE ip_stats[ip].connection_count
         /\ ConnCount(ip)' = IF ip_stats'[ip] = NoStats THEN 0 ELSE ip_stats'[ip].connection_count
BY DEF ConnCount, StatsOf

\* Admitted tasks after a step of t: only t can be new, and only when it moves on from
\* the limit or before it.
LEMMA AdmittedStep ==
  ASSUME IngressTypeOK, NEW ip \in Ips, NEW t \in Tasks, stage[t] # "idle",
         \/ Finish(t)
         \/ \E next \in Stages : /\ Advance(t, next)
                                 /\ stage[t] \notin {"syn", "limit", "update"}
                                      \/ next \in {"syn", "limit", "update"}
  PROVE  Admitted(ip)' \subseteq Admitted(ip)
<1>1. CASE Finish(t)
  BY <1>1 DEF Admitted, Finish, IngressTypeOK, SourceOf
<1>2. CASE \E next \in Stages : /\ Advance(t, next)
                                /\ stage[t] \notin {"syn", "limit", "update"}
                                     \/ next \in {"syn", "limit", "update"}
  BY <1>2 DEF Admitted, Advance, IngressTypeOK, SourceOf
<1>3. QED
  BY <1>1, <1>2

\* Fewer admitted and no more counted leaves the overshoot within its bound.
LEMMA OvershootFalls ==
  ASSUME IngressTypeOK, IngressTypeOK', NEW ip \in Ips, Overshoot(ip),
         Admitted(ip)' \subseteq Admitted(ip), ConnCount(ip)' <= ConnCount(ip), ConnCount(ip)' \in Nat
  PROVE  Overshoot(ip)'
<1>1. /\ ConnCount(ip) \in Nat /\ IsFiniteSet(Admitted(ip)) /\ Cardinality(Admitted(ip)) \in Nat
      /\ Cardinality(Tasks) \in Nat
  BY CountsType
<1> DEFINE A == Admitted(ip)'
<1>2. Cardinality(A) \in Nat /\ Cardinality(A) <= Cardinality(Admitted(ip))
  BY <1>1, Parts, Zenon
<1>3. Cardinality(Admitted(ip))' = Cardinality(A)
  OBVIOUS
<1>4. QED
  BY <1>1, <1>2, <1>3 DEF Overshoot

\* The table does not outgrow what is counted and what went past the count.
LEMMA BehindFalls ==
  ASSUME IngressTypeOK, NEW ip \in Ips, Behind(ip),
         ConnCount(ip)' \in Nat, beside'[ip] \in Nat,
         \/ /\ Live(ip)' \subseteq Live(ip)
            /\ ConnCount(ip)' + beside'[ip] >= ConnCount(ip) + beside[ip]
         \/ \E k : /\ Live(ip)' \subseteq Live(ip) \cup {k}
                   /\ ConnCount(ip)' + beside'[ip] >= ConnCount(ip) + beside[ip] + 1
         \/ \E k \in Live(ip) : /\ Live(ip)' \subseteq Live(ip) \ {k}
                                /\ ConnCount(ip)' + beside'[ip] >= ConnCount(ip) + beside[ip] - 1
  PROVE  Behind(ip)'
<1>1. /\ ConnCount(ip) \in Nat /\ beside[ip] \in Nat
      /\ IsFiniteSet(Live(ip)) /\ Cardinality(Live(ip)) \in Nat
  BY CountsType
<1> DEFINE L == Live(ip)'
<1>2. Cardinality(Live(ip))' = Cardinality(L)
  OBVIOUS
<1>3. Cardinality(Live(ip)) <= ConnCount(ip) + beside[ip]
  BY DEF Behind
<1>4. L \subseteq Live(ip) \/ \E k : L \subseteq Live(ip) \cup {k}
  OBVIOUS
<1>5. Cardinality(L) \in Nat
  <2>1. PICK k : L \subseteq Live(ip) \cup {k}
    BY <1>4
  <2>2. IsFiniteSet(Live(ip) \cup {k})
    BY <1>1, FS_AddElement
  <2>3. QED
    BY <2>1, <2>2, Parts
<1>6. /\ L \subseteq Live(ip) => Cardinality(L) <= Cardinality(Live(ip))
      /\ \A k : L \subseteq Live(ip) \cup {k} => Cardinality(L) <= Cardinality(Live(ip)) + 1
      /\ \A k \in Live(ip) : L \subseteq Live(ip) \ {k} => Cardinality(L) <= Cardinality(Live(ip)) - 1
  BY <1>1, Parts
<1>7. \/ /\ Cardinality(L) <= Cardinality(Live(ip))
         /\ ConnCount(ip)' + beside'[ip] >= ConnCount(ip) + beside[ip]
      \/ /\ Cardinality(L) <= Cardinality(Live(ip)) + 1
         /\ ConnCount(ip)' + beside'[ip] >= ConnCount(ip) + beside[ip] + 1
      \/ /\ Cardinality(L) <= Cardinality(Live(ip)) - 1
         /\ ConnCount(ip)' + beside'[ip] >= ConnCount(ip) + beside[ip] - 1
  BY <1>6
<1>8. Cardinality(L) <= ConnCount(ip)' + beside'[ip]
  BY <1>1, <1>3, <1>5, <1>7
<1>9. QED
  BY <1>2, <1>8 DEF Behind

\* At first nothing is counted and the table is empty.
LEMMA InitTable == IngressInit => TableWithinLimit
<1>1. ASSUME IngressInit, NEW ip \in Ips PROVE Overshoot(ip) /\ Behind(ip)
  <2>1. Admitted(ip) = {} /\ Live(ip) = {} /\ beside[ip] = 0 /\ ip_stats[ip] = NoStats
    BY <1>1 DEF IngressInit, Admitted, Live
  <2>2. Cardinality({}) = 0 /\ Cardinality(Tasks) \in Nat
    BY FS_EmptySet, FS_CardinalityType
  <2>3. ConnCount(ip) = 0
    BY <2>1, CountIs
  <2>4. QED
    BY <2>1, <2>2, <2>3 DEF Overshoot, Behind
<1>2. QED
  BY <1>1 DEF TableWithinLimit, Overshoot, Behind

\* After a step the counts are numbers still.
LEMMA CountsTypeNext ==
  ASSUME IngressTypeOK, [IngressNext]_ingressVars, NEW ip \in Ips
  PROVE  /\ IngressTypeOK' /\ ConnCount(ip)' \in Nat /\ beside'[ip] \in Nat
         /\ Cardinality(Admitted(ip))' \in Nat /\ Cardinality(Admitted(ip))' <= Cardinality(Tasks)
<1>1. IngressTypeOK'
  BY NextIngressTypeOK
<1>2. ConnCount(ip)' \in Nat /\ beside'[ip] \in Nat
  <2>1. ip_stats'[ip] \in Stats \cup {NoStats} /\ beside'[ip] \in Nat
    BY <1>1, Zenon DEF IngressTypeOK
  <2>2. ip_stats'[ip] # NoStats => ip_stats'[ip].connection_count \in Nat
    BY <2>1 DEF Stats
  <2>3. ConnCount(ip)' \in Nat
    BY <2>2, CountIs
  <2>4. QED
    BY <2>1, <2>3
<1> DEFINE A == Admitted(ip)'
<1>3. A \subseteq Tasks
  BY DEF Admitted
<1>4. Cardinality(A) \in Nat /\ Cardinality(A) <= Cardinality(Tasks)
  BY <1>3, Parts
<1>5. QED
  BY <1>1, <1>2, <1>4

\* Every step keeps the overshoot within its bound.
LEMMA NextOvershoot ==
  ASSUME IngressTypeOK, [IngressNext]_ingressVars, NEW ip \in Ips, Overshoot(ip)
  PROVE  Overshoot(ip)'
<1>0. /\ IngressTypeOK' /\ ConnCount(ip)' \in Nat
      /\ Cardinality(Admitted(ip))' \in Nat /\ Cardinality(Admitted(ip))' <= Cardinality(Tasks)
      /\ ConnCount(ip) \in Nat /\ Cardinality(Tasks) \in Nat
  BY CountsType, CountsTypeNext
<1>1. ASSUME Admitted(ip)' \subseteq Admitted(ip), ConnCount(ip)' <= ConnCount(ip)
      PROVE  Overshoot(ip)'
  BY <1>0, <1>1, OvershootFalls
<1>2. ip_stats' = ip_stats => ConnCount(ip)' <= ConnCount(ip)
  BY <1>0, CountIs
<1>3. UNCHANGED <<stage, packet>> => Admitted(ip)' \subseteq Admitted(ip)
  BY DEF Admitted, SourceOf
<1>4. ASSUME NEW t \in Tasks, NEW k \in Keys, NEW p \in Packets, Arrive(t, k, p)
      PROVE  Overshoot(ip)'
  <2>1. ip_stats' = ip_stats
    BY <1>4 DEF Arrive, tables
  <2>2. Admitted(ip)' \subseteq Admitted(ip)
    BY <1>4 DEF Arrive, Admitted, SourceOf, IngressTypeOK
  <2>3. QED
    BY <1>1, <1>2, <2>1, <2>2
<1>5. ASSUME NEW t \in Tasks, CountSyn(t) PROVE Overshoot(ip)'
  <2>1. Admitted(ip)' \subseteq Admitted(ip)
    BY <1>5, AdmittedStep DEF CountSyn, Stages
  <2>2. ConnCount(ip)' <= ConnCount(ip)
    <3>1. SourceOf(t) \in Ips
      BY <1>5, SourceType DEF CountSyn
    <3>2. ip_stats'[ip] = ip_stats[ip] \/ ip_stats'[ip] = SynCounted(StatsOf(ip))
      BY <1>5, <3>1 DEF CountSyn, IngressTypeOK
    <3>3. StatsOf(ip) \in Stats
      BY StatsOfType
    <3>4. SynCounted(StatsOf(ip)).connection_count = ConnCount(ip) /\ SynCounted(StatsOf(ip)) # NoStats
      BY <3>3, SynCountedIs, NoStatsOutside DEF ConnCount
    <3>5. QED
      BY <1>0, <3>2, <3>4, CountIs
  <2>3. QED
    BY <1>1, <2>1, <2>2
<1>6. ASSUME NEW t \in Tasks, CheckLimit(t) PROVE Overshoot(ip)'
  <2>1. ip_stats' = ip_stats /\ SourceOf(t) \in Ips
    BY <1>6, SourceType DEF CheckLimit, tables
  <2>2. CASE ConnCount(SourceOf(t)) >= ConnectionLimit
    <3>1. Finish(t) /\ stage[t] # "idle"
      BY <1>6, <2>2 DEF CheckLimit
    <3>2. QED
      BY <1>1, <1>2, <2>1, <3>1, AdmittedStep
  <2>3. CASE ~(ConnCount(SourceOf(t)) >= ConnectionLimit)
    <3>1. Advance(t, "cleanup")
      BY <1>6, <2>3 DEF CheckLimit
    <3>2. CASE SourceOf(t) = ip
      <4>1. ConnCount(ip)' = ConnCount(ip) /\ ConnCount(ip) < ConnectionLimit
        BY <1>0, <2>1, <2>3, <3>2, CountIs
      <4>2. QED
        BY <1>0, <4>1 DEF Overshoot
    <3>3. CASE SourceOf(t) # ip
      <4>1. Admitted(ip)' \subseteq Admitted(ip)
        BY <3>1, <3>3 DEF Advance, Admitted, SourceOf, IngressTypeOK
      <4>2. QED
        BY <1>1, <1>2, <2>1, <4>1
    <3>4. QED
      BY <3>2, <3>3
  <2>4. QED
    BY <2>2, <2>3
<1>7. ASSUME NEW t \in Tasks,
             MaybeCleanup(t) \/ Sweep(t) \/ CheckReputation(t) \/ LookUp(t) \/ Update(t)
      PROVE  Overshoot(ip)'
  <2>1. ip_stats' = ip_stats
    BY <1>7 DEF MaybeCleanup, Sweep, CheckReputation, LookUp, Update, tables
  <2>2. /\ stage[t] # "idle"
        /\ \/ Finish(t)
           \/ \E next \in Stages : /\ Advance(t, next)
                                   /\ stage[t] \notin {"syn", "limit", "update"}
                                        \/ next \in {"syn", "limit", "update"}
    BY <1>7 DEF MaybeCleanup, Sweep, CheckReputation, LookUp, Update, Stages
  <2>3. QED
    BY <1>1, <1>2, <2>1, <2>2, AdmittedStep
<1>8. ASSUME NEW t \in Tasks, Admit(t) PROVE Overshoot(ip)'
  <2>1. Finish(t) /\ stage[t] = "admit" /\ SourceOf(t) \in Ips /\ packet[t] # NoPacket
    BY <1>8, SourceType DEF Admit
  <2>2. Admitted(ip)' \subseteq Admitted(ip)
    BY <2>1, AdmittedStep
  <2>3. CASE SourceOf(t) # ip
    <3>1. ip_stats'[ip] = ip_stats[ip]
      BY <1>8, <2>1, <2>3 DEF Admit, IngressTypeOK
    <3>2. QED
      BY <1>0, <1>1, <2>2, <3>1, CountIs
  <2>4. CASE SourceOf(t) = ip
    <3>1. StatsOf(ip) \in Stats
      BY StatsOfType
    <3>2. ip_stats'[ip] = [StatsOf(ip) EXCEPT !.connection_count = @ + 1]
      BY <1>8, <2>4 DEF Admit, IngressTypeOK
    <3>3. ip_stats'[ip].connection_count = ConnCount(ip) + 1 /\ ip_stats'[ip] # NoStats
      BY <3>1, <3>2, NoStatsOutside DEF ConnCount, Stats
    <3>4. ConnCount(ip)' = ConnCount(ip) + 1
      BY <3>3, CountIs
    <3>5. t \in Admitted(ip) /\ IsFiniteSet(Admitted(ip)) /\ Cardinality(Admitted(ip)) \in Nat
      BY <2>1, <2>4, CountsType DEF Admitted
    <3> DEFINE A == Admitted(ip)'
    <3>6. A \subseteq Admitted(ip) \ {t}
      BY <2>1, <2>2 DEF Finish, Admitted, IngressTypeOK
    <3>7. Cardinality(A) <= Cardinality(Admitted(ip)) - 1
      BY <3>5, <3>6, Parts
    <3>8. Cardinality(Admitted(ip))' = Cardinality(A)
      OBVIOUS
    <3>9. QED
      BY <1>0, <3>4, <3>5, <3>7, <3>8 DEF Overshoot
  <2>5. QED
    BY <2>3, <2>4
<1>9. ASSUME NEW k \in Keys, RemoveConnection(k) PROVE Overshoot(ip)'
  <2>1. ip_stats'[ip] = ip_stats[ip] \/ ip_stats'[ip] = Lowered(ip_stats[ip])
    BY <1>9 DEF RemoveConnection, IngressTypeOK
  <2>2. ConnCount(ip)' <= ConnCount(ip)
    <3>1. CASE ip_stats'[ip] = ip_stats[ip]
      BY <1>0, <3>1, CountIs
    <3>2. CASE ip_stats[ip] = NoStats
      BY <1>0, <2>1, <3>2, CountIs DEF Lowered
    <3>3. CASE ip_stats[ip] # NoStats /\ ip_stats'[ip] = Lowered(ip_stats[ip])
      <4>1. ip_stats[ip] \in Stats
        BY <3>3 DEF IngressTypeOK
      <4>2. QED
        BY <1>0, <3>3, <4>1, LoweredIs, NoStatsOutside, CountIs
    <3>4. QED
      BY <2>1, <3>1, <3>2, <3>3
  <2>3. UNCHANGED <<stage, packet>>
    BY <1>9 DEF RemoveConnection
  <2>4. QED
    BY <1>1, <1>3, <2>2, <2>3
<1>10. ASSUME \/ \E k \in Keys, p \in Packets : RegisterConnection(k, p.flags)
              \/ \E range \in BlockRanges : BlockRange(range)
              \/ \E i \in Ips : BlockRange(HostRange[i]) \/ UnblockIp(i)
              \/ IngressTick \/ UNCHANGED ingressVars
       PROVE  Overshoot(ip)'
  <2>1. ip_stats' = ip_stats /\ UNCHANGED <<stage, packet>>
    BY <1>10 DEF RegisterConnection, BlockRange, UnblockIp, IngressTick, ingressVars, tables, history
  <2>2. QED
    BY <1>1, <1>2, <1>3, <2>1
<1>11. QED
  BY <1>4, <1>5, <1>6, <1>7, <1>8, <1>9, <1>10 DEF IngressNext, PacketStep

\* Every step keeps the table within what is counted and what went past the count.
LEMMA NextBehind ==
  ASSUME IngressTypeOK, [IngressNext]_ingressVars, NEW ip \in Ips, Behind(ip)
  PROVE  Behind(ip)'
<1>0. /\ IngressTypeOK' /\ ConnCount(ip)' \in Nat /\ beside'[ip] \in Nat
      /\ ConnCount(ip) \in Nat /\ beside[ip] \in Nat
  BY CountsType, CountsTypeNext
<1>1. ASSUME Live(ip)' \subseteq Live(ip), ConnCount(ip)' >= ConnCount(ip), beside'[ip] = beside[ip]
      PROVE  Behind(ip)'
  BY <1>0, <1>1, BehindFalls
<1>2. ip_stats' = ip_stats => ConnCount(ip)' >= ConnCount(ip)
  BY <1>0, CountIs
<1>3. connections' = connections => Live(ip)' \subseteq Live(ip)
  BY DEF Live
<1>4. ASSUME NEW t \in Tasks,
             \/ \E k \in Keys, p \in Packets : Arrive(t, k, p)
             \/ CheckLimit(t) \/ MaybeCleanup(t) \/ CheckReputation(t) \/ LookUp(t)
      PROVE  UNCHANGED <<connections, ip_stats, beside>>
  BY <1>4 DEF Arrive, CheckLimit, MaybeCleanup, CheckReputation, LookUp, tables, history
<1>5. ASSUME \/ \E range \in BlockRanges : BlockRange(range)
             \/ \E i \in Ips : BlockRange(HostRange[i]) \/ UnblockIp(i)
             \/ IngressTick \/ UNCHANGED ingressVars
      PROVE  UNCHANGED <<connections, ip_stats, beside>>
  BY <1>5 DEF BlockRange, UnblockIp, IngressTick, ingressVars, tables, history
<1>6. UNCHANGED <<connections, ip_stats, beside>> => Behind(ip)'
  BY <1>1, <1>2, <1>3
<1>7. ASSUME NEW t \in Tasks, CountSyn(t) PROVE Behind(ip)'
  <2>1. ConnCount(ip)' >= ConnCount(ip)
    <3>1. SourceOf(t) \in Ips
      BY <1>7, SourceType DEF CountSyn
    <3>2. ip_stats'[ip] = ip_stats[ip] \/ ip_stats'[ip] = SynCounted(StatsOf(ip))
      BY <1>7, <3>1 DEF CountSyn, IngressTypeOK
    <3>3. StatsOf(ip) \in Stats
      BY StatsOfType
    <3>4. SynCounted(StatsOf(ip)).connection_count = ConnCount(ip) /\ SynCounted(StatsOf(ip)) # NoStats
      BY <3>3, SynCountedIs, NoStatsOutside DEF ConnCount
    <3>5. QED
      BY <1>0, <3>2, <3>4, CountIs
  <2>2. connections' = connections /\ beside' = beside
    BY <1>7 DEF CountSyn
  <2>3. QED
    BY <1>1, <1>3, <2>1, <2>2
<1>8. ASSUME NEW t \in Tasks, Sweep(t) \/ Update(t) PROVE Behind(ip)'
  <2>1. ip_stats' = ip_stats /\ beside' = beside
    BY <1>8 DEF Sweep, Update, history
  <2>2. Live(ip)' \subseteq Live(ip)
    BY <1>8 DEF Sweep, Update, Live, IngressTypeOK
  <2>3. QED
    BY <1>1, <1>2, <2>1, <2>2
<1>9. ASSUME NEW t \in Tasks, Admit(t) PROVE Behind(ip)'
  <2>1. SourceOf(t) \in Ips /\ SourceOf(t) = Source[packet[t].key] /\ packet[t].key \in Keys
    BY <1>9, SourceType DEF Admit, SourceOf
  <2>2. beside' = beside
    BY <1>9 DEF Admit, history
  <2>3. CASE SourceOf(t) # ip
    <3>1. ip_stats'[ip] = ip_stats[ip]
      BY <1>9, <2>1, <2>3 DEF Admit, IngressTypeOK
    <3>2. Live(ip)' \subseteq Live(ip)
      BY <1>9, <2>1, <2>3 DEF Admit, Insert, Live, IngressTypeOK
    <3>3. QED
      BY <1>0, <1>1, <2>2, <3>1, <3>2, CountIs
  <2>4. CASE SourceOf(t) = ip
    <3>1. StatsOf(ip) \in Stats
      BY StatsOfType
    <3>2. ip_stats'[ip] = [StatsOf(ip) EXCEPT !.connection_count = @ + 1]
      BY <1>9, <2>4 DEF Admit, IngressTypeOK
    <3>3. ip_stats'[ip].connection_count = ConnCount(ip) + 1 /\ ip_stats'[ip] # NoStats
      BY <3>1, <3>2, NoStatsOutside DEF ConnCount, Stats
    <3>4. ConnCount(ip)' + beside'[ip] >= ConnCount(ip) + beside[ip] + 1
      BY <1>0, <2>2, <3>3, CountIs
    <3>5. Live(ip)' \subseteq Live(ip) \cup {packet[t].key}
      BY <1>9 DEF Admit, Insert, Live, IngressTypeOK
    <3>6. QED
      BY <1>0, <3>4, <3>5, BehindFalls
  <2>5. QED
    BY <2>3, <2>4
<1>10. ASSUME NEW k \in Keys, NEW p \in Packets, RegisterConnection(k, p.flags) PROVE Behind(ip)'
  <2>1. ConnCount(ip)' = ConnCount(ip)
    BY <1>10, CountIs DEF RegisterConnection
  <2>2. CASE Source[k] # ip
    <3>1. Live(ip)' \subseteq Live(ip) /\ beside'[ip] = beside[ip]
      BY <1>10, <2>2 DEF RegisterConnection, Insert, Live, IngressTypeOK
    <3>2. QED
      BY <1>0, <1>1, <2>1, <3>1
  <2>3. CASE Source[k] = ip
    <3>1. Live(ip)' \subseteq Live(ip) \cup {k} /\ beside'[ip] = beside[ip] + 1
      BY <1>10, <2>3 DEF RegisterConnection, Insert, Live, IngressTypeOK
    <3>2. QED
      BY <1>0, <2>1, <3>1, BehindFalls
  <2>4. QED
    BY <2>2, <2>3
<1>11. ASSUME NEW k \in Keys, RemoveConnection(k) PROVE Behind(ip)'
  <2>1. Live(ip)' \subseteq Live(ip) \ {k}
    BY <1>11 DEF RemoveConnection, Live, IngressTypeOK
  <2>2. CASE Source[k] # ip
    <3>1. ip_stats'[ip] = ip_stats[ip] /\ beside'[ip] = beside[ip]
      BY <1>11, <2>2 DEF RemoveConnection, IngressTypeOK
    <3>2. QED
      BY <1>0, <1>1, <2>1, <3>1, CountIs
  <2>3. CASE Source[k] = ip
    <3>1. ConnCount(ip)' >= ConnCount(ip) - 1
      <4>1. ip_stats'[ip] = Lowered(ip_stats[ip])
        BY <1>11, <2>3 DEF RemoveConnection, IngressTypeOK
      <4>2. CASE ip_stats[ip] = NoStats
        BY <1>0, <4>1, <4>2, CountIs DEF Lowered
      <4>3. CASE ip_stats[ip] # NoStats
        <5>1. ip_stats[ip] \in Stats
          BY <4>3 DEF IngressTypeOK
        <5>2. QED
          BY <1>0, <4>1, <4>3, <5>1, LoweredIs, NoStatsOutside, CountIs
      <4>4. QED
        BY <4>2, <4>3
    <3>2. CASE connections[k] = NoConnection
      <4>1. beside'[ip] = beside[ip] + 1
        BY <1>11, <2>3, <3>2 DEF RemoveConnection, IngressTypeOK
      <4>2. QED
        BY <1>0, <2>1, <3>1, <4>1, BehindFalls
    <3>3. CASE connections[k] # NoConnection
      <4>1. beside'[ip] = beside[ip] /\ k \in Live(ip)
        BY <1>11, <2>3, <3>3 DEF RemoveConnection, Live
      <4>2. QED
        BY <1>0, <2>1, <3>1, <4>1, BehindFalls
    <3>4. QED
      BY <3>2, <3>3
  <2>4. QED
    BY <2>2, <2>3
<1>12. QED
  BY <1>4, <1>5, <1>6, <1>7, <1>8, <1>9, <1>10, <1>11 DEF IngressNext, PacketStep

\* The limit of :188, which reads a count under one lock and raises it under another, is
\* overshot by at most the other packets under way, and the count falls behind the table
\* by no more than the calls that bypass it, for any number of tasks and connections.
THEOREM LimitHolds == IngressSpec => []TableWithinLimit
<1> DEFINE Inv == IngressTypeOK /\ \A ip \in Ips : Overshoot(ip) /\ Behind(ip)
<1>1. IngressInit => Inv
  BY InitIngressTypeOK, InitTable DEF TableWithinLimit, Overshoot, Behind
<1>2. Inv /\ [IngressNext]_ingressVars => Inv'
  BY NextIngressTypeOK, NextOvershoot, NextBehind
<1>3. Inv => TableWithinLimit
  BY DEF TableWithinLimit, Overshoot, Behind
<1> HIDE DEF Inv
<1>4. QED
  BY <1>1, <1>2, <1>3, PTL DEF IngressSpec

HIDE IngressAssumption

----------------------------------------------------------------------------
(* DistributedRateLimiter.                                                  *)

Bucket == [tokens : Nat, capacity : Nat, last_refill : Nat, peak : Nat]

Checking == [todo : Seq(BucketKeys), cost : Nat, tidies : BOOLEAN, refused : BOOLEAN]

Answered == [todo : {<<>>}, decision : {"Allowed", "Queued", "Challenged", "Dropped"},
             sweeps : BOOLEAN]

Times == 0 .. LimiterHorizon + 1

\* A bucket of the table holds no more than fits, and no more fits than the largest limit.
Sound(b, k) ==
  /\ b \in Bucket
  /\ b.tokens <= Full(b)
  /\ b.capacity <= LargestCapacity(k)
  /\ b.last_refill <= time

LimiterTypeOK ==
  /\ time \in 0 .. LimiterHorizon
  /\ local_cache = [k \in BucketKeys |-> local_cache[k]]
  /\ \A k \in BucketKeys : local_cache[k] # NoBucket => Sound(local_cache[k], k)
  /\ adaptive_thresholds \in [BucketKeys -> Nat]
  /\ call \in [Callers -> {NoCall} \cup Checking \cup Answered]
  /\ taken \in [BucketKeys -> [Times -> Nat]]
  /\ gifts \in [BucketKeys -> Nat]

USE LimiterAssumption

----------------------------------------------------------------------------
(* Arithmetic.                                                              *)

\* The larger and the smaller of two.
LEMMA MaxMinOfTwo ==
  ASSUME NEW m \in Int, NEW n \in Int
  PROVE  /\ Max({m, n}) = IF m >= n THEN m ELSE n
         /\ Min({m, n}) = IF m <= n THEN m ELSE n
<1>1. PICK x \in {m, n} : \A y \in {m, n} : x >= y
  OBVIOUS
<1>2. PICK z \in {m, n} : \A y \in {m, n} : z <= y
  OBVIOUS
<1>3. Max({m, n}) \in {m, n} /\ \A y \in {m, n} : Max({m, n}) >= y
  BY <1>1 DEF Max
<1>4. Min({m, n}) \in {m, n} /\ \A y \in {m, n} : Min({m, n}) <= y
  BY <1>2 DEF Min
<1>5. QED
  BY <1>3, <1>4

\* More of the same is not less.
LEMMA ProductGrows ==
  ASSUME NEW m \in Nat, NEW n \in Nat, NEW c \in Nat, m <= n
  PROVE  m * c \in Nat /\ n * c \in Nat /\ m * c <= n * c
<1>1. n * c = m * c + (n - m) * c
  OBVIOUS
<1>2. n - m \in Nat
  OBVIOUS
<1>3. m * c \in Nat /\ (n - m) * c \in Nat /\ n * c \in Nat
  BY <1>2
<1>4. QED
  BY <1>1, <1>3

\* The limit of a key is a number, and no more than its largest.
LEMMA LimitType ==
  ASSUME LimiterTypeOK, NEW k \in BucketKeys
  PROVE  /\ ResolveLimits(k) \in Nat /\ LargestCapacity(k) \in Nat
         /\ ResolveLimits(k) <= LargestCapacity(k)
<1>1. CASE KeyPrefix[k] = "ip"
  <2> DEFINE half == adaptive_thresholds[k] \div 2
             most == PerIpLimit \div 2
             least == DefaultRps \div 10
             cut == PerIpLimit - Min({half, most})
  <2>1. half \in Nat /\ most \in Nat /\ least \in Nat /\ most <= PerIpLimit
    BY DEF LimiterTypeOK
  <2>2. ResolveLimits(k) = Max({cut, least}) /\ LargestCapacity(k) = Max({PerIpLimit, least})
    BY <1>1 DEF ResolveLimits, LargestCapacity
  <2> HIDE DEF half, most, least
  <2>3. Min({half, most}) = IF half <= most THEN half ELSE most
    <3>1. half \in Int /\ most \in Int
      BY <2>1
    <3>2. QED
      BY <3>1, MaxMinOfTwo, Zenon
  <2>4. cut \in Nat /\ cut <= PerIpLimit
    BY <2>1, <2>3
  <2> HIDE DEF cut
  <2>5. /\ Max({cut, least}) = IF cut >= least THEN cut ELSE least
        /\ Max({PerIpLimit, least}) = IF PerIpLimit >= least THEN PerIpLimit ELSE least
    BY <2>1, <2>4, MaxMinOfTwo
  <2>6. QED
    BY <2>1, <2>2, <2>4, <2>5
<1>2. CASE KeyPrefix[k] # "ip"
  BY <1>2 DEF ResolveLimits, LargestCapacity
<1>3. QED
  BY <1>1, <1>2

----------------------------------------------------------------------------
(* What a bucket lacks.                                                     *)

\* The units a bucket lacks at a time.
Gap(b, now) == Full(b) - Min({b.tokens + (now - b.last_refill) * b.capacity, Full(b)})

\* The deficit of a key is the gap of its bucket.
LEMMA DeficitIs ==
  ASSUME NEW k
  PROVE  /\ Deficit(k) = IF local_cache[k] = NoBucket THEN 0 ELSE Gap(local_cache[k], time)
         /\ Deficit(k)' = IF local_cache'[k] = NoBucket THEN 0 ELSE Gap(local_cache'[k], time')
BY DEF Deficit, Gap, Refilled, Full

\* A bucket lacks no more than it holds, and a second fills it.
LEMMA GapType ==
  ASSUME NEW b \in Bucket, NEW now \in Nat, b.tokens <= Full(b), b.last_refill <= now
  PROVE  /\ Full(b) \in Nat /\ Gap(b, now) \in Nat /\ Gap(b, now) <= Full(b)
         /\ Gap(b, now) <= Full(b) - b.tokens
         /\ now - b.last_refill >= TicksPerSecond => Gap(b, now) = 0
         /\ Gap(b, now + 1) \in Nat
         /\ Gap(b, now) - b.capacity <= Gap(b, now + 1) /\ Gap(b, now + 1) <= Gap(b, now)
<1> DEFINE c == b.capacity
           d == now - b.last_refill
           full == c * TicksPerSecond
           sum == d * c
<1>1. c \in Nat /\ d \in Nat /\ b.tokens \in Nat
  BY DEF Bucket
<1>2. full \in Nat /\ sum \in Nat /\ (d >= TicksPerSecond => full <= sum)
  BY <1>1, ProductGrows
<1>3. Full(b) = full /\ b.tokens <= full
  BY DEF Full
<1>4. Gap(b, now) = full - Min({b.tokens + sum, full})
  BY DEF Gap, Full
<1>5. ((now + 1) - b.last_refill) * c = sum + c
  <2>1. b.last_refill \in Nat
    BY DEF Bucket
  <2>2. (d + 1) * c = d * c + c
    BY <1>1
  <2>3. (now + 1) - b.last_refill = d + 1
    BY <2>1
  <2>4. QED
    BY <2>2, <2>3
<1>6. Gap(b, now + 1) = full - Min({b.tokens + (sum + c), full})
  <2>1. Gap(b, now + 1) = full - Min({b.tokens + ((now + 1) - b.last_refill) * c, full})
    BY DEF Gap, Full
  <2> HIDE DEF full, sum, c
  <2>2. QED
    BY <1>5, <2>1, Zenon
<1> HIDE DEF full, sum, d, c
<1>7. /\ Gap(b, now) = IF b.tokens + sum <= full THEN full - (b.tokens + sum) ELSE 0
      /\ Gap(b, now + 1) = IF b.tokens + (sum + c) <= full THEN full - (b.tokens + (sum + c)) ELSE 0
  <2>1. b.tokens + sum \in Int /\ b.tokens + (sum + c) \in Int /\ full \in Int
    BY <1>1, <1>2
  <2>2. /\ Min({b.tokens + sum, full}) = IF b.tokens + sum <= full THEN b.tokens + sum ELSE full
        /\ Min({b.tokens + (sum + c), full}) =
             IF b.tokens + (sum + c) <= full THEN b.tokens + (sum + c) ELSE full
    BY <2>1, MaxMinOfTwo, Zenon
  <2>3. QED
    BY <1>1, <1>2, <1>4, <1>6, <2>2
<1>8. /\ Gap(b, now) \in Nat /\ Gap(b, now) <= full /\ Gap(b, now) <= full - b.tokens
      /\ Gap(b, now + 1) \in Nat
      /\ Gap(b, now) - c <= Gap(b, now + 1) /\ Gap(b, now + 1) <= Gap(b, now)
  <2> DEFINE held == b.tokens
             gap == Gap(b, now)
             next == Gap(b, now + 1)
  <2>1. full \in Nat /\ sum \in Nat /\ held \in Nat /\ held <= full /\ c \in Nat
    BY <1>1, <1>2, <1>3
  <2>2. /\ gap = IF held + sum <= full THEN full - (held + sum) ELSE 0
        /\ next = IF held + (sum + c) <= full THEN full - (held + (sum + c)) ELSE 0
    BY <1>7, Zenon
  <2> HIDE DEF held, gap, next
  <2>3. gap \in Nat /\ gap <= full /\ gap <= full - held
    BY <2>1, <2>2
  <2>4. next \in Nat /\ next <= gap
    BY <2>1, <2>2
  <2>5. gap - c <= next
    BY <2>1, <2>2
  <2>6. QED
    BY <2>3, <2>4, <2>5, Zenon DEF held, gap, next
<1>9. d >= TicksPerSecond => Gap(b, now) = 0
  BY <1>1, <1>2, <1>7
<1>10. QED
  BY <1>2, <1>3, <1>8, <1>9 DEF d, c

----------------------------------------------------------------------------
(* Types.                                                                   *)

\* NoBucket is no bucket.
LEMMA NoBucketOutside == NoBucket \notin Bucket
BY DEF Bucket

\* A bucket refilled now holds all but its gap.
LEMMA RefilledIs ==
  ASSUME NEW k \in BucketKeys, NEW b, Sound(b, k), time \in Nat
  PROVE  Refilled(b) = Full(b) - Gap(b, time)
<1> DEFINE x == b.tokens + (time - b.last_refill) * b.capacity
           m == Min({x, Full(b)})
<1>1. x \in Int /\ Full(b) \in Int
  BY DEF Sound, Bucket, Full
<1>2. Gap(b, time) = Full(b) - m /\ Refilled(b) = m
  BY DEF Gap, Refilled
<1> HIDE DEF x
<1>3. m = IF x <= Full(b) THEN x ELSE Full(b)
  BY <1>1, MaxMinOfTwo, Zenon
<1> HIDE DEF m
<1>4. QED
  BY <1>1, <1>2, <1>3

\* The bucket a caller finds, in the table or made now, is sound, and lacks the deficit
\* of its key.
LEMMA BucketOfType ==
  ASSUME LimiterTypeOK, NEW k \in BucketKeys
  PROVE  /\ Sound(BucketOf(k), k) /\ BucketOf(k) # NoBucket
         /\ Gap(BucketOf(k), time) = Deficit(k)
         /\ Deficit(k) \in Nat /\ Deficit(k) <= Full(BucketOf(k))
         /\ Refilled(BucketOf(k)) = Full(BucketOf(k)) - Deficit(k)
<1>1. time \in Nat
  BY DEF LimiterTypeOK
<1>2. ASSUME Sound(BucketOf(k), k)
      PROVE  Refilled(BucketOf(k)) = Full(BucketOf(k)) - Gap(BucketOf(k), time)
  BY <1>1, <1>2, RefilledIs
<1>3. CASE local_cache[k] = NoBucket
  <2> DEFINE c == ResolveLimits(k)
             full == c * TicksPerSecond
  <2>1. c \in Nat /\ c <= LargestCapacity(k) /\ LargestCapacity(k) \in Nat
    BY LimitType
  <2>2. BucketOf(k) = [tokens |-> full, capacity |-> c, last_refill |-> time, peak |-> 0]
    BY <1>3 DEF BucketOf, NewBucket
  <2>3. full \in Nat
    BY <2>1
  <2>4. Full(BucketOf(k)) = full
    BY <2>2 DEF Full
  <2> HIDE DEF c, full
  <2>5. Sound(BucketOf(k), k)
    BY <1>1, <2>1, <2>2, <2>3, <2>4 DEF Sound, Bucket
  <2>6. /\ Gap(BucketOf(k), time) \in Nat
        /\ Gap(BucketOf(k), time) <= Full(BucketOf(k)) - BucketOf(k).tokens
    BY <1>1, <2>5, GapType DEF Sound
  <2>7. Gap(BucketOf(k), time) = 0 /\ Deficit(k) = 0
    BY <1>3, <2>2, <2>3, <2>4, <2>6, DeficitIs
  <2>8. QED
    BY <1>2, <2>3, <2>4, <2>5, <2>7, NoBucketOutside DEF Sound
<1>4. CASE local_cache[k] # NoBucket
  <2>1. BucketOf(k) = local_cache[k]
    BY <1>4 DEF BucketOf
  <2>2. Sound(BucketOf(k), k)
    BY <1>4, <2>1 DEF LimiterTypeOK
  <2>3. Deficit(k) = Gap(BucketOf(k), time)
    BY <1>4, <2>1, DeficitIs
  <2>4. QED
    BY <1>1, <1>2, <1>4, <2>1, <2>2, <2>3, GapType DEF Sound
<1>5. QED
  BY <1>3, <1>4

\* A bucket as it is left by a caller or by hand is sound, and lacks what is missing.
LEMMA LeftBucket ==
  ASSUME NEW k \in BucketKeys, NEW b, Sound(b, k), NEW x \in Nat, x <= Full(b), time \in Nat,
         NEW left \in Bucket, left.tokens = x, left.capacity = b.capacity, left.last_refill = time
  PROVE  Sound(left, k) /\ Full(left) = Full(b) /\ Gap(left, time) = Full(b) - x
<1>1. left \in Bucket
  OBVIOUS
<1>2. Full(left) = Full(b)
  BY <1>1 DEF Full
<1>3. Sound(left, k)
  BY <1>1, <1>2 DEF Sound
<1>4. Gap(left, time) = Full(b) - x
  <2>1. b.capacity \in Nat /\ Full(b) \in Nat
    BY DEF Sound, Bucket, Full
  <2>2. x + (time - time) * b.capacity = x
    BY <2>1
  <2>3. Gap(left, time) = Full(b) - Min({x + (time - time) * b.capacity, Full(b)})
    BY <1>1, <1>2, Zenon DEF Gap
  <2>4. Min({x, Full(b)}) = IF x <= Full(b) THEN x ELSE Full(b)
    <3>1. x \in Int /\ Full(b) \in Int
      BY <2>1
    <3>2. QED
      BY <3>1, MaxMinOfTwo, Zenon
  <2>5. QED
    BY <2>2, <2>3, <2>4
<1>5. QED
  BY <1>1, <1>2, <1>3, <1>4

----------------------------------------------------------------------------
(* What a step does to the credit of a key.                                 *)

\* Units more were taken, from now on.
More(P, units, now) == [u \in Times |-> IF u > now THEN P[u] + units ELSE P[u]]

Still(k) ==
  /\ time' = time /\ taken'[k] = taken[k] /\ gifts'[k] = gifts[k]
  /\ Deficit(k)' = Deficit(k)

\* What a caller takes is missing afterwards, and was there.
Took(k) ==
  /\ time' = time /\ gifts'[k] = gifts[k]
  /\ \E units \in Nat :
       /\ taken'[k] = More(taken[k], units, time)
       /\ Deficit(k)' = Deficit(k) + units
       /\ Deficit(k)' <= LargestCapacity(k) * TicksPerSecond

\* In a tick a bucket gains at most its capacity.
Aged(k) ==
  /\ time' = time + 1 /\ taken'[k] = taken[k] /\ gifts'[k] = gifts[k]
  /\ Deficit(k)' \in Nat
  /\ Deficit(k) - LargestCapacity(k) <= Deficit(k)' /\ Deficit(k)' <= Deficit(k)

\* What is gained by hand is on the list of gifts; only a scoped key can lose by it.
Given(k) ==
  /\ time' = time /\ taken'[k] = taken[k]
  /\ \E units \in Nat :
       /\ gifts'[k] = gifts[k] + units
       /\ Deficit(k)' \in Nat /\ Deficit(k) - units <= Deficit(k)'
       /\ Deficit(k)' > Deficit(k) => k \in ScopedKeys /\ units > 0

Moves(k) == Still(k) \/ Took(k) \/ Aged(k) \/ Given(k)

\* The tables of the buckets are left alone.
LEMMA NothingMoves ==
  ASSUME time' = time, local_cache' = local_cache, taken' = taken, gifts' = gifts, NEW k
  PROVE  Still(k)
BY DeficitIs DEF Still

\* A bucket that fits holds no more than a second of the largest limit.
LEMMA SoundFits ==
  ASSUME LimiterTypeOK, NEW k \in BucketKeys, NEW b, Sound(b, k)
  PROVE  Full(b) \in Nat /\ Full(b) <= LargestCapacity(k) * TicksPerSecond
<1>1. b.capacity \in Nat /\ LargestCapacity(k) \in Nat /\ b.capacity <= LargestCapacity(k)
  BY LimitType DEF Sound, Bucket
<1>2. /\ b.capacity * TicksPerSecond \in Nat
      /\ b.capacity * TicksPerSecond <= LargestCapacity(k) * TicksPerSecond
  BY <1>1, ProductGrows
<1>3. QED
  BY <1>2 DEF Full

\* The records of calls: a call with keys to check has a cost.
LEMMA CallTypes ==
  ASSUME LimiterTypeOK, NEW c \in Callers, call[c] # NoCall
  PROVE  /\ call[c].todo # <<>> => call[c] \in Checking
         /\ Tidying(c) => call[c] \in Answered
         /\ call[c] \in Checking /\ call[c].todo # <<>> =>
              /\ call[c].todo[1] \in BucketKeys
              /\ [call EXCEPT ![c].todo = Tail(@)] \in [Callers -> {NoCall} \cup Checking \cup Answered]
              /\ [call EXCEPT ![c].refused = TRUE] \in [Callers -> {NoCall} \cup Checking \cup Answered]
<1>1. call[c] \in Checking \/ call[c] \in Answered
  BY DEF LimiterTypeOK
<1>2. call[c].todo # <<>> => call[c] \in Checking
  BY <1>1 DEF Answered
<1>3. Tidying(c) => call[c] \in Answered
  BY <1>1 DEF Tidying, Checking
<1>4. ASSUME call[c] \in Checking, call[c].todo # <<>>
      PROVE  /\ call[c].todo[1] \in BucketKeys
             /\ [call EXCEPT ![c].todo = Tail(@)] \in [Callers -> {NoCall} \cup Checking \cup Answered]
             /\ [call EXCEPT ![c].refused = TRUE] \in [Callers -> {NoCall} \cup Checking \cup Answered]
  <2>1. call[c].todo \in Seq(BucketKeys)
    BY <1>4 DEF Checking
  <2>2. call[c].todo[1] \in BucketKeys /\ Tail(call[c].todo) \in Seq(BucketKeys)
    BY <1>4, <2>1
  <2>3. /\ [call[c] EXCEPT !.todo = Tail(@)] \in Checking
        /\ [call[c] EXCEPT !.refused = TRUE] \in Checking
    BY <1>4, <2>2 DEF Checking
  <2>4. QED
    BY <2>2, <2>3 DEF LimiterTypeOK
<1>5. QED
  BY <1>2, <1>3, <1>4

\* The first call checks nothing yet.
LEMMA BeginCallKeeps ==
  ASSUME LimiterTypeOK, NEW c \in Callers, NEW request \in Requests, BeginCall(c, request)
  PROVE  LimiterTypeOK' /\ \A k \in BucketKeys : Moves(k)
<1>1. [todo |-> request.keys, cost |-> request.cost, tidies |-> request.tidies, refused |-> FALSE]
        \in Checking
  BY DEF Checking
<1>2. call' \in [Callers -> {NoCall} \cup Checking \cup Answered]
  BY <1>1 DEF BeginCall, LimiterTypeOK
<1>3. UNCHANGED <<time, local_cache, adaptive_thresholds, taken, gifts>>
  BY DEF BeginCall
<1>4. QED
  BY <1>2, <1>3, NothingMoves DEF LimiterTypeOK, Sound, Moves

\* check_local_bucket takes what it takes from the bucket of the next key alone.
LEMMA CheckBucketKeeps ==
  ASSUME LimiterTypeOK, NEW c \in Callers, CheckBucket(c)
  PROVE  LimiterTypeOK' /\ \A k \in BucketKeys : Moves(k)
<1>0. call[c] # NoCall /\ call[c].todo # <<>>
  BY DEF CheckBucket
<1>key. PICK k \in BucketKeys : k = call[c].todo[1]
  BY <1>0, CallTypes
<1> DEFINE b == BucketOf(k)
           cost == call[c].cost * TicksPerSecond
           passes == Refilled(b) >= cost
           x == IF passes THEN Refilled(b) - cost ELSE Refilled(b)
           y == Max({b.peak, call[c].cost})
<1>1. call[c] \in Checking /\ time \in Nat /\ time' = time /\ gifts' = gifts
      /\ adaptive_thresholds' = adaptive_thresholds
  <2>1. call[c] \in Checking
    BY <1>0, CallTypes
  <2>2. time \in Nat
    BY DEF LimiterTypeOK
  <2>3. time' = time /\ gifts' = gifts /\ adaptive_thresholds' = adaptive_thresholds
    BY <1>key DEF CheckBucket
  <2>4. QED
    BY <2>1, <2>2, <2>3
<1>2. call' \in [Callers -> {NoCall} \cup Checking \cup Answered]
  <2>1. /\ [call EXCEPT ![c].todo = Tail(@)] \in [Callers -> {NoCall} \cup Checking \cup Answered]
        /\ [call EXCEPT ![c].refused = TRUE] \in [Callers -> {NoCall} \cup Checking \cup Answered]
    BY <1>0, CallTypes
  <2>2. call' = IF passes THEN [call EXCEPT ![c].todo = Tail(@)] ELSE [call EXCEPT ![c].refused = TRUE]
    BY <1>key DEF CheckBucket
  <2>3. QED
    BY <2>1, <2>2
<1>3. cost \in Nat /\ call[c].cost \in Nat
  BY <1>1 DEF Checking
<1>4. /\ Sound(b, k) /\ b # NoBucket /\ Deficit(k) \in Nat
      /\ Deficit(k) <= Full(b) /\ Refilled(b) = Full(b) - Deficit(k)
  BY <1>1, BucketOfType
<1>5. Full(b) \in Nat /\ Full(b) <= LargestCapacity(k) * TicksPerSecond
  BY <1>1, <1>4, SoundFits
<1>6. x \in Nat /\ x <= Full(b)
  BY <1>3, <1>4, <1>5
<1>7. y \in Nat
  <2>1. b.peak \in Nat /\ b.peak \in Int /\ call[c].cost \in Int
    BY <1>3, <1>4 DEF Sound, Bucket
  <2>2. y = IF b.peak >= call[c].cost THEN b.peak ELSE call[c].cost
    BY <2>1, MaxMinOfTwo, Zenon
  <2>3. QED
    BY <1>3, <2>1, <2>2
<1>left. PICK left : left = [b EXCEPT !.tokens = x, !.last_refill = time, !.peak = y]
  OBVIOUS
<1>8. local_cache' = [local_cache EXCEPT ![k] = left]
  BY <1>key, <1>left DEF CheckBucket
<1>9. Sound(left, k) /\ Gap(left, time) = Full(b) - x /\ left # NoBucket
  <2> HIDE DEF x, y, b
  <2>0. left \in Bucket /\ left.tokens = x /\ left.capacity = b.capacity /\ left.last_refill = time
    BY <1>1, <1>4, <1>6, <1>7, <1>left DEF Sound, Bucket
  <2>1. Sound(left, k) /\ Gap(left, time) = Full(b) - x
    BY <1>1, <1>4, <1>6, <2>0, LeftBucket
  <2>2. QED
    BY <2>1, NoBucketOutside DEF Sound
<1>10. taken' = IF passes THEN [taken EXCEPT ![k] = More(@, cost, time)] ELSE taken
  <2>1. DOMAIN taken[k] = Times
    BY <1>1 DEF LimiterTypeOK
  <2>2. passes => NoteTaken(k, cost)
    BY <1>key DEF CheckBucket
  <2>3. ~passes => taken' = taken
    BY <1>key DEF CheckBucket
  <2>4. NoteTaken(k, cost) => taken' = [taken EXCEPT ![k] = More(@, cost, time)]
    BY <2>1 DEF NoteTaken, More
  <2>5. QED
    BY <2>2, <2>3, <2>4
<1> HIDE DEF b, cost, y
<1>11. local_cache'[k] = left /\ Deficit(k)' = Full(b) - x
  <2>1. local_cache'[k] = left
    BY <1>1, <1>8 DEF LimiterTypeOK
  <2> HIDE DEF x
  <2>2. Deficit(k)' = IF local_cache'[k] = NoBucket THEN 0 ELSE Gap(local_cache'[k], time')
    BY DeficitIs
  <2>3. QED
    BY <1>1, <1>9, <2>1, <2>2
<1>12. \A q \in BucketKeys : q # k => local_cache'[q] = local_cache[q] /\ taken'[q] = taken[q]
  BY <1>8, <1>10 DEF LimiterTypeOK
<1>13. taken' \in [BucketKeys -> [Times -> Nat]]
  BY <1>1, <1>3, <1>10 DEF More, LimiterTypeOK
<1>14. LimiterTypeOK'
  <2>1. local_cache' = [q \in BucketKeys |-> local_cache'[q]]
    BY <1>8 DEF LimiterTypeOK
  <2>2. \A q \in BucketKeys : local_cache'[q] # NoBucket => Sound(local_cache'[q], q)
    BY <1>9, <1>11, <1>12 DEF LimiterTypeOK
  <2>3. \A q \in BucketKeys : local_cache'[q] # NoBucket => Sound(local_cache[q], q)'
    BY <1>1, <2>2 DEF Sound
  <2>4. QED
    BY <1>1, <1>2, <1>13, <2>1, <2>3 DEF LimiterTypeOK
<1>15. Moves(k)
  <2>1. CASE passes
    <3>1. Deficit(k)' = Deficit(k) + cost /\ Deficit(k)' <= LargestCapacity(k) * TicksPerSecond
      BY <1>3, <1>4, <1>5, <1>6, <1>11, <2>1, LimitType, <1>1
    <3>2. taken'[k] = More(taken[k], cost, time)
      BY <1>1, <1>10, <2>1 DEF LimiterTypeOK
    <3>3. QED
      BY <1>1, <1>3, <3>1, <3>2 DEF Took, Moves
  <2>2. CASE ~passes
    <3>1. Deficit(k)' = Deficit(k)
      BY <1>4, <1>5, <1>11, <2>2
    <3>2. QED
      BY <1>1, <1>10, <2>2, <3>1 DEF Still, Moves
  <2>3. QED
    BY <2>1, <2>2
<1>16. \A q \in BucketKeys : q # k => Moves(q)
  BY <1>1, <1>12, DeficitIs DEF Still, Moves
<1>17. QED
  BY <1>14, <1>15, <1>16

\* What a caller does with its answer moves no credit.
LEMMA AnswerKeeps ==
  ASSUME LimiterTypeOK, NEW c \in Callers, Degrade(c) \/ Allow(c) \/ MaybeTidy(c)
  PROVE  LimiterTypeOK' /\ \A k \in BucketKeys : Moves(k)
<1>1. UNCHANGED <<time, local_cache, adaptive_thresholds, taken, gifts>>
  BY DEF Degrade, Allow, MaybeTidy, ledger
<1>2. ASSUME NEW decision \in {"Allowed", "Queued", "Challenged", "Dropped"}, Answer(c, decision)
      PROVE  call' \in [Callers -> {NoCall} \cup Checking \cup Answered]
  <2>1. [todo |-> <<>>, decision |-> decision, sweeps |-> FALSE] \in Answered
    BY DEF Answered
  <2>2. QED
    BY <1>2, <2>1 DEF Answer, LimiterTypeOK
<1>3. CASE Degrade(c)
  <2>1. \A k : Degradation(k) \subseteq {"Allowed", "Queued", "Challenged", "Dropped"}
    BY DEF Degradation
  <2>2. QED
    BY <1>1, <1>2, <1>3, <2>1, NothingMoves DEF Degrade, LimiterTypeOK, Sound, Moves
<1>4. CASE Allow(c)
  BY <1>1, <1>2, <1>4, NothingMoves DEF Allow, LimiterTypeOK, Sound, Moves
<1>5. CASE MaybeTidy(c)
  <2>1. call[c] \in Answered
    BY <1>5, CallTypes DEF MaybeTidy, Tidying
  <2>2. [call[c] EXCEPT !.sweeps = TRUE] \in Answered
    BY <2>1 DEF Answered
  <2>3. call' \in [Callers -> {NoCall} \cup Checking \cup Answered]
    BY <1>5, <2>2 DEF MaybeTidy, LimiterTypeOK
  <2>4. QED
    BY <1>1, <2>3, NothingMoves DEF LimiterTypeOK, Sound, Moves
<1>6. QED
  BY <1>3, <1>4, <1>5

\* Only buckets that have filled up are evicted.
LEMMA EvictKeeps ==
  ASSUME LimiterTypeOK, NEW c \in Callers, Evict(c)
  PROVE  LimiterTypeOK' /\ \A k \in BucketKeys : Moves(k)
<1>1. /\ UNCHANGED <<time, adaptive_thresholds, taken, gifts>> /\ time \in Nat
      /\ call' \in [Callers -> {NoCall} \cup Checking \cup Answered]
  BY DEF Evict, ledger, LimiterTypeOK
<1>2. /\ local_cache' = [k \in BucketKeys |-> local_cache'[k]]
      /\ \A k \in BucketKeys :
           \/ local_cache'[k] = local_cache[k]
           \/ /\ local_cache[k] # NoBucket /\ local_cache'[k] = NoBucket
              /\ time - local_cache[k].last_refill >= EvictAfter
  BY DEF Evict
<1>3. LimiterTypeOK'
  BY <1>1, <1>2 DEF LimiterTypeOK, Sound
<1>4. ASSUME NEW k \in BucketKeys PROVE Moves(k)
  <2>1. CASE local_cache'[k] = local_cache[k]
    BY <1>1, <2>1, DeficitIs DEF Moves, Still
  <2>2. CASE /\ local_cache[k] # NoBucket /\ local_cache'[k] = NoBucket
             /\ time - local_cache[k].last_refill >= EvictAfter
    <3>1. Sound(local_cache[k], k)
      BY <2>2 DEF LimiterTypeOK
    <3>2. time - local_cache[k].last_refill >= TicksPerSecond
      BY <1>1, <2>2, <3>1 DEF Sound, Bucket
    <3>3. Gap(local_cache[k], time) = 0
      BY <1>1, <3>1, <3>2, GapType DEF Sound
    <3>4. QED
      BY <1>1, <2>2, <3>3, DeficitIs DEF Moves, Still
  <2>3. QED
    BY <1>2, <2>1, <2>2
<1>5. QED
  BY <1>3, <1>4

\* A bucket set by hand: the key gains at most the units noted, the others stay.
LEMMA SetByHand ==
  ASSUME LimiterTypeOK, NEW k \in BucketKeys, NEW b, b = local_cache[k], b # NoBucket,
         NEW x \in Nat, x <= Full(b), NEW units \in Nat,
         NEW left \in Bucket, left.tokens = x, left.capacity = b.capacity, left.last_refill = time,
         local_cache' = [local_cache EXCEPT ![k] = left],
         gifts' = [gifts EXCEPT ![k] = @ + units],
         UNCHANGED <<time, adaptive_thresholds, call, taken>>,
         Deficit(k) - units <= Full(b) - x,
         Full(b) - x > Deficit(k) => k \in ScopedKeys /\ units > 0
  PROVE  LimiterTypeOK' /\ \A q \in BucketKeys : Moves(q)
<1>1. Sound(b, k) /\ time \in Nat
  BY DEF LimiterTypeOK
<1>2. left \in Bucket /\ left.tokens = x /\ left.capacity = b.capacity /\ left.last_refill = time
  OBVIOUS
<1>3. Sound(left, k) /\ Gap(left, time) = Full(b) - x /\ left # NoBucket /\ Full(b) \in Nat
  <2>1. Sound(left, k) /\ Gap(left, time) = Full(b) - x
    BY <1>1, <1>2, LeftBucket
  <2>2. QED
    BY <1>1, <1>2, <2>1, NoBucketOutside, SoundFits
<1>4. local_cache'[k] = left /\ \A q \in BucketKeys : q # k => local_cache'[q] = local_cache[q]
  BY DEF LimiterTypeOK
<1>5. gifts'[k] = gifts[k] + units /\ gifts' \in [BucketKeys -> Nat]
        /\ \A q \in BucketKeys : q # k => gifts'[q] = gifts[q]
  BY DEF LimiterTypeOK
<1>6. LimiterTypeOK'
  <2>1. local_cache' = [q \in BucketKeys |-> local_cache'[q]]
    BY DEF LimiterTypeOK
  <2>2. \A q \in BucketKeys : local_cache'[q] # NoBucket => Sound(local_cache'[q], q)
    BY <1>3, <1>4 DEF LimiterTypeOK
  <2>3. \A q \in BucketKeys : local_cache'[q] # NoBucket => Sound(local_cache[q], q)'
    BY <2>2 DEF Sound
  <2>4. QED
    BY <1>5, <2>1, <2>3 DEF LimiterTypeOK
<1>7. Deficit(k)' = Full(b) - x
  BY <1>3, <1>4, DeficitIs
<1>8. Moves(k)
  BY <1>3, <1>5, <1>7 DEF Given, Moves
<1>9. \A q \in BucketKeys : q # k => Moves(q)
  BY <1>4, <1>5, DeficitIs DEF Still, Moves
<1>10. QED
  BY <1>6, <1>8, <1>9

\* refill_bucket gives the units, less the time that had passed since the last check.
LEMMA RefillBucketKeeps ==
  ASSUME LimiterTypeOK, NEW k \in BucketKeys, RefillBucket(k, 1)
  PROVE  LimiterTypeOK' /\ \A q \in BucketKeys : Moves(q)
<1>1. PICK b : b = local_cache[k]
  OBVIOUS
<1>2. PICK x : x = Min({b.tokens + 1, Full(b)})
  OBVIOUS
<1>3. PICK left : left = [b EXCEPT !.tokens = x, !.last_refill = time]
  OBVIOUS
<1>4. /\ b # NoBucket /\ Sound(b, k) /\ time \in Nat /\ Full(b) \in Nat
      /\ k \in ScopedKeys /\ b.tokens \in Nat /\ b.tokens <= Full(b)
  <2>1. b # NoBucket /\ k \in ScopedKeys
    BY <1>1 DEF RefillBucket
  <2>2. Sound(b, k) /\ time \in Nat
    BY <1>1, <2>1 DEF LimiterTypeOK
  <2>3. QED
    BY <2>1, <2>2, SoundFits DEF Sound, Bucket
<1>5. x = IF b.tokens + 1 <= Full(b) THEN b.tokens + 1 ELSE Full(b)
  <2>1. b.tokens + 1 \in Int /\ Full(b) \in Int
    BY <1>4
  <2>2. QED
    BY <1>2, <2>1, MaxMinOfTwo, Zenon
<1>6. Deficit(k) \in Nat /\ Deficit(k) <= Full(b) - b.tokens
  BY <1>1, <1>4, DeficitIs, GapType DEF Sound
<1>7. x \in Nat /\ x <= Full(b) /\ Deficit(k) - 1 <= Full(b) - x
  BY <1>4, <1>5, <1>6
<1>8. local_cache' = [local_cache EXCEPT ![k] = left]
  BY <1>1, <1>2, <1>3 DEF RefillBucket, LimiterTypeOK
<1>9. /\ gifts' = [gifts EXCEPT ![k] = @ + 1]
      /\ UNCHANGED <<time, adaptive_thresholds, call, taken>>
  BY DEF RefillBucket, Gift
<1>10. left \in Bucket /\ left.tokens = x /\ left.capacity = b.capacity /\ left.last_refill = time
  BY <1>3, <1>4, <1>7 DEF Sound, Bucket
<1>11. Full(b) - x > Deficit(k) => k \in ScopedKeys /\ 1 > 0
  BY <1>4
<1>12. QED
  BY <1>1, <1>4, <1>7, <1>8, <1>9, <1>10, <1>11, SetByHand

\* reset fills the bucket.
LEMMA ResetBucketKeeps ==
  ASSUME LimiterTypeOK, NEW k \in BucketKeys, ResetBucket(k)
  PROVE  LimiterTypeOK' /\ \A q \in BucketKeys : Moves(q)
<1>1. PICK b : b = local_cache[k]
  OBVIOUS
<1>2. PICK left : left = [b EXCEPT !.tokens = Full(b), !.last_refill = time]
  OBVIOUS
<1>3. b # NoBucket /\ Sound(b, k) /\ time \in Nat /\ Full(b) \in Nat
  <2>1. b # NoBucket
    BY <1>1 DEF ResetBucket
  <2>2. Sound(b, k) /\ time \in Nat
    BY <1>1, <2>1 DEF LimiterTypeOK
  <2>3. QED
    BY <2>1, <2>2, SoundFits
<1>4. PICK units : units = Full(b) - Refilled(b)
  OBVIOUS
<1>5. units = Deficit(k) /\ units \in Nat
  <2>1. BucketOf(k) = b
    BY <1>1, <1>3 DEF BucketOf
  <2>2. Deficit(k) \in Nat /\ Refilled(b) = Full(b) - Deficit(k)
    BY <2>1, BucketOfType
  <2>3. QED
    BY <1>3, <1>4, <2>2
<1>6. local_cache' = [local_cache EXCEPT ![k] = left]
  BY <1>1, <1>2 DEF ResetBucket, LimiterTypeOK
<1>7. /\ gifts' = [gifts EXCEPT ![k] = @ + units]
      /\ UNCHANGED <<time, adaptive_thresholds, call, taken>>
  BY <1>1, <1>4 DEF ResetBucket, Gift
<1>8. Full(b) <= Full(b) /\ Deficit(k) - units <= Full(b) - Full(b) /\ ~(Full(b) - Full(b) > Deficit(k))
  BY <1>3, <1>5
<1>9. left \in Bucket /\ left.tokens = Full(b) /\ left.capacity = b.capacity /\ left.last_refill = time
  BY <1>2, <1>3 DEF Sound, Bucket
<1>10. QED
  BY <1>1, <1>3, <1>5, <1>6, <1>7, <1>8, <1>9, SetByHand

\* The thresholds are for buckets yet to be made.
LEMMA ThresholdsKeep ==
  ASSUME LimiterTypeOK,
         ClearThresholds \/ \E k \in BucketKeys, th \in Thresholds : SetAdaptiveThreshold(k, th)
  PROVE  LimiterTypeOK' /\ \A k \in BucketKeys : Moves(k)
<1>1. UNCHANGED <<time, local_cache, call, taken, gifts>>
  BY DEF ClearThresholds, SetAdaptiveThreshold, ledger
<1>2. adaptive_thresholds' \in [BucketKeys -> Nat]
  <2>1. CASE ClearThresholds
    BY <2>1 DEF ClearThresholds
  <2>2. ASSUME NEW k \in BucketKeys, NEW th \in Thresholds, SetAdaptiveThreshold(k, th)
        PROVE  adaptive_thresholds' \in [BucketKeys -> Nat]
    <3>1. th \in Nat
      OBVIOUS
    <3>2. QED
      BY <2>2, <3>1 DEF SetAdaptiveThreshold, LimiterTypeOK
  <2>3. QED
    BY <2>1, <2>2
<1>3. QED
  BY <1>1, <1>2, NothingMoves DEF LimiterTypeOK, Sound, Moves

\* clear_all makes every bucket new: each gains what it lacked.
LEMMA ClearCacheKeeps ==
  ASSUME LimiterTypeOK, ClearCache
  PROVE  LimiterTypeOK' /\ \A k \in BucketKeys : Moves(k)
<1>1. UNCHANGED <<time, adaptive_thresholds, call, taken>>
  BY DEF ClearCache
<1>2. ASSUME NEW k \in BucketKeys
      PROVE  /\ Deficit(k) \in Nat /\ gifts[k] \in Nat
             /\ gifts'[k] = gifts[k] + Deficit(k) /\ local_cache'[k] = NoBucket
  <2>1. Deficit(k) \in Nat
    BY BucketOfType
  <2>2. QED
    BY <2>1 DEF ClearCache, LimiterTypeOK
<1>3. gifts' \in [BucketKeys -> Nat]
  <2>1. gifts' = [k \in BucketKeys |-> gifts'[k]]
    BY DEF ClearCache
  <2>2. \A k \in BucketKeys : gifts'[k] \in Nat
    BY <1>2
  <2>3. QED
    BY <2>1, <2>2
<1>4. LimiterTypeOK'
  BY <1>1, <1>2, <1>3 DEF LimiterTypeOK, ClearCache
<1>5. ASSUME NEW k \in BucketKeys PROVE Given(k)
  <2>1. Deficit(k)' = 0
    BY <1>2, DeficitIs
  <2>2. QED
    BY <1>1, <1>2, <2>1 DEF Given
<1>6. QED
  BY <1>4, <1>5 DEF Moves

\* Time passes.
LEMMA TickKeeps ==
  ASSUME LimiterTypeOK, LimiterTick
  PROVE  LimiterTypeOK' /\ \A k \in BucketKeys : Moves(k)
<1>1. /\ UNCHANGED <<local_cache, adaptive_thresholds, call, taken, gifts>>
      /\ time' = time + 1 /\ time \in Nat /\ time' \in 0 .. LimiterHorizon
  BY DEF LimiterTick, ledger, LimiterTypeOK
<1>2. \A k \in BucketKeys : local_cache'[k] # NoBucket => Sound(local_cache[k], k)'
  BY <1>1 DEF LimiterTypeOK, Sound, Bucket
<1>3. LimiterTypeOK'
  BY <1>1, <1>2 DEF LimiterTypeOK
<1>4. ASSUME NEW k \in BucketKeys PROVE Aged(k)
  <2>1. LargestCapacity(k) \in Nat
    BY LimitType
  <2>2. CASE local_cache[k] = NoBucket
    <3>1. Deficit(k) = 0 /\ Deficit(k)' = 0
      BY <1>1, <2>2, DeficitIs
    <3>2. QED
      BY <1>1, <2>1, <3>1 DEF Aged
  <2>3. CASE local_cache[k] # NoBucket
    <3>1. Sound(local_cache[k], k)
      BY <2>3 DEF LimiterTypeOK
    <3>2. PICK b : b = local_cache[k]
      OBVIOUS
    <3>3. /\ b \in Bucket /\ b.tokens <= Full(b) /\ b.last_refill <= time
          /\ b.capacity \in Nat /\ b.capacity <= LargestCapacity(k)
      BY <3>1, <3>2 DEF Sound, Bucket
    <3>4. /\ Gap(b, time) \in Nat /\ Gap(b, time + 1) \in Nat
          /\ Gap(b, time) - b.capacity <= Gap(b, time + 1) /\ Gap(b, time + 1) <= Gap(b, time)
      BY <1>1, <3>3, GapType
    <3>5. Deficit(k) = Gap(b, time) /\ Deficit(k)' = Gap(b, time + 1)
      BY <1>1, <2>3, <3>2, DeficitIs
    <3>6. QED
      BY <1>1, <2>1, <3>3, <3>4, <3>5 DEF Aged
  <2>4. QED
    BY <2>2, <2>3
<1>5. QED
  BY <1>3, <1>4 DEF Moves

\* The initial state has the types.
LEMMA InitLimiterTypeOK == LimiterInit => LimiterTypeOK
BY DEF LimiterInit, LimiterTypeOK, Times

\* Every step keeps the types, and moves credit in one of the four ways.
LEMMA NextMoves ==
  ASSUME LimiterTypeOK, [LimiterNext]_limiterVars
  PROVE  LimiterTypeOK' /\ \A k \in BucketKeys : Moves(k)
<1>1. CASE UNCHANGED limiterVars
  <2>1. UNCHANGED <<time, local_cache, adaptive_thresholds, call, taken, gifts>>
    BY <1>1 DEF limiterVars
  <2>2. QED
    BY <2>1, NothingMoves DEF LimiterTypeOK, Sound, Moves
<1>2. ASSUME NEW c \in Callers, CallStep(c)
      PROVE  LimiterTypeOK' /\ \A k \in BucketKeys : Moves(k)
  BY <1>2, BeginCallKeeps, CheckBucketKeeps, AnswerKeeps, EvictKeeps DEF CallStep
<1>3. ASSUME NEW k \in BucketKeys,
             RefillBucket(k, 1) \/ ResetBucket(k) \/ \E th \in Thresholds : SetAdaptiveThreshold(k, th)
      PROVE  LimiterTypeOK' /\ \A q \in BucketKeys : Moves(q)
  BY <1>3, RefillBucketKeeps, ResetBucketKeeps, ThresholdsKeep
<1>4. QED
  BY <1>1, <1>2, <1>3, ClearCacheKeeps, ThresholdsKeep, TickKeeps DEF LimiterNext

----------------------------------------------------------------------------
(* Where credit comes from and goes to.                                     *)

\* One step: credit comes from the time and the gifts, and goes to callers.
LEMMA StepConserves ==
  ASSUME LimiterTypeOK, [LimiterNext]_limiterVars, NEW k \in BucketKeys
  PROVE  /\ Deficit(k)' < Deficit(k) => time' # time \/ gifts' # gifts
         /\ Deficit(k)' > Deficit(k) =>
              taken'[k] # taken[k] \/ (k \in ScopedKeys /\ gifts'[k] > gifts[k])
<1>1. Moves(k) /\ LimiterTypeOK'
  BY NextMoves
<1>2. Deficit(k) \in Nat /\ time \in Nat /\ gifts[k] \in Nat
  BY BucketOfType DEF LimiterTypeOK
<1>3. CASE Still(k)
  BY <1>2, <1>3 DEF Still
<1>4. CASE Took(k)
  <2>1. PICK units \in Nat : /\ taken'[k] = More(taken[k], units, time)
                             /\ Deficit(k)' = Deficit(k) + units
    BY <1>4 DEF Took
  <2>2. LimiterHorizon + 1 \in Times /\ LimiterHorizon + 1 > time /\ taken[k][LimiterHorizon + 1] \in Nat
    BY DEF LimiterTypeOK, Times
  <2>3. taken'[k][LimiterHorizon + 1] = taken[k][LimiterHorizon + 1] + units
    BY <2>1, <2>2 DEF More
  <2>4. QED
    BY <1>2, <2>1, <2>2, <2>3
<1>5. CASE Aged(k)
  BY <1>2, <1>5 DEF Aged
<1>6. CASE Given(k)
  BY <1>2, <1>6 DEF Given
<1>7. QED
  BY <1>1, <1>3, <1>4, <1>5, <1>6 DEF Moves

\* Eviction, :433-436, is never seen in the credit of a key, and neither is any operation
\* but those that hand credit out, for any interleaving of callers between the locks.
THEOREM LimiterConservesCredit == LimiterSpec => CreditConserved
<1>1. LimiterInit => LimiterTypeOK
  BY InitLimiterTypeOK
<1>2. LimiterTypeOK /\ [LimiterNext]_limiterVars => LimiterTypeOK'
  BY NextMoves
<1>3. LimiterTypeOK /\ [LimiterNext]_limiterVars =>
        [\A k \in BucketKeys :
           /\ Deficit(k)' < Deficit(k) => time' # time \/ gifts' # gifts
           /\ Deficit(k)' > Deficit(k) =>
                taken'[k] # taken[k] \/ (k \in ScopedKeys /\ gifts'[k] > gifts[k])]_limiterVars
  BY StepConserves
<1>4. QED
  BY <1>1, <1>2, <1>3, PTL DEF LimiterSpec, CreditConserved

----------------------------------------------------------------------------
(* How much a bucket gives.                                                 *)

Total(P) == P[LimiterHorizon + 1]

\* D is the deficit, G the gifts, C the largest capacity: what was taken since a time is
\* missing, has flowed back since at C a tick, or was given.
Balanced(P, D, G, C, now) ==
  /\ \A u \in Times : u > now => P[u] = Total(P)
  /\ \A u \in 0 .. now : Total(P) - P[u] <= D + (now - u) * C + G

WithinBudget(P, G, C) ==
  \A s, e \in Times : s <= e /\ e <= s + TicksPerSecond =>
    P[e] - P[s] <= 2 * C * TicksPerSecond + G

BudgetInv ==
  \A k \in BucketKeys :
    /\ Balanced(taken[k], Deficit(k), gifts[k], LargestCapacity(k), time)
    /\ WithinBudget(taken[k], gifts[k], LargestCapacity(k))

\* Units taken that were there keep the balance, and stay within two seconds' worth.
LEMMA TakingFits ==
  ASSUME NEW P \in [Times -> Nat], NEW D \in Nat, NEW G \in Nat, NEW C \in Nat,
         NEW now \in 0 .. LimiterHorizon, NEW units \in Nat,
         Balanced(P, D, G, C, now), WithinBudget(P, G, C), D + units <= C * TicksPerSecond
  PROVE  /\ Balanced(More(P, units, now), D + units, G, C, now)
         /\ WithinBudget(More(P, units, now), G, C)
<1> DEFINE Q == More(P, units, now)
<1>1. /\ LimiterHorizon + 1 \in Times /\ LimiterHorizon + 1 > now
      /\ Q[LimiterHorizon + 1] = Total(P) + units
      /\ \A u \in Times : Q[u] = IF u > now THEN P[u] + units ELSE P[u]
      /\ Total(P) \in Nat
  BY DEF More, Total, Times
<1> HIDE DEF Q
<1>2. Total(Q) = Total(P) + units
  BY <1>1 DEF Total
<1>3. \A u \in Times : u > now => Q[u] = Total(Q) /\ P[u] = Total(P)
  BY <1>1, <1>2 DEF Balanced
<1>4. ASSUME NEW u \in 0 .. now
      PROVE  /\ u \in Times /\ Q[u] = P[u] /\ P[u] \in Nat /\ (now - u) * C \in Nat
             /\ Total(P) - P[u] <= D + (now - u) * C + G
  <2>1. u \in Times /\ ~(u > now) /\ now - u \in Nat
    BY DEF Times
  <2>2. (now - u) * C \in Nat
    BY <2>1
  <2>3. QED
    BY <1>1, <2>1, <2>2 DEF Balanced
<1>5. ASSUME NEW u \in 0 .. now
      PROVE  Total(Q) - Q[u] <= (D + units) + (now - u) * C + G
  <2> DEFINE flow == (now - u) * C
  <2>1. Q[u] = P[u] /\ P[u] \in Nat /\ flow \in Nat /\ Total(P) - P[u] <= D + flow + G
    BY <1>4
  <2> HIDE DEF flow
  <2>2. Total(Q) - Q[u] <= (D + units) + flow + G
    BY <1>1, <1>2, <2>1
  <2>3. QED
    BY <2>2 DEF flow
<1>6. Balanced(Q, D + units, G, C, now)
  BY <1>3, <1>5 DEF Balanced
<1>7. ASSUME NEW s \in Times, NEW e \in Times, s <= e, e <= s + TicksPerSecond
      PROVE  Q[e] - Q[s] <= 2 * C * TicksPerSecond + G
  <2> DEFINE second == C * TicksPerSecond
  <2>1. second \in Nat /\ 2 * C * TicksPerSecond = 2 * second
    OBVIOUS
  <2>2. s \in Int /\ e \in Int /\ now \in Int /\ P[s] \in Nat /\ P[e] \in Nat
    BY DEF Times
  <2>3. P[e] - P[s] <= 2 * second + G
    BY <1>7, <2>1 DEF WithinBudget
  <2>4. CASE s > now
    <3>1. Q[e] = Total(Q) /\ Q[s] = Total(Q) /\ Total(Q) \in Nat
      BY <1>1, <1>2, <1>3, <1>7, <2>2, <2>4
    <3> HIDE DEF second
    <3>2. QED
      BY <2>1, <3>1
  <2>5. CASE e <= now
    BY <1>1, <2>1, <2>2, <2>3, <2>5
  <2>6. CASE s <= now /\ now < e
    <3> DEFINE flow == (now - s) * C
    <3>1. s \in 0 .. now /\ now - s \in Nat /\ now - s <= TicksPerSecond
      BY <1>7, <2>2, <2>6 DEF Times
    <3>2. flow \in Nat /\ flow <= second
      BY <3>1, ProductGrows
    <3>3. Total(P) - P[s] <= D + flow + G /\ Q[s] = P[s]
      BY <1>4, <3>1
    <3>4. Q[e] = Total(P) + units
      BY <1>2, <1>3, <2>6
    <3>5. D + units <= second
      OBVIOUS
    <3> HIDE DEF flow, second
    <3>6. QED
      BY <1>1, <2>1, <2>2, <3>2, <3>3, <3>4, <3>5
  <2>7. QED
    BY <2>2, <2>4, <2>5, <2>6
<1>8. QED
  BY <1>6, <1>7 DEF WithinBudget, Q

\* A tick, in which at most C flows back, keeps the balance.
LEMMA AgeingFits ==
  ASSUME NEW P \in [Times -> Nat], NEW D \in Nat, NEW E \in Nat, NEW G \in Nat, NEW C \in Nat,
         NEW now \in 0 .. LimiterHorizon, now + 1 <= LimiterHorizon,
         Balanced(P, D, G, C, now), D - C <= E
  PROVE  Balanced(P, E, G, C, now + 1)
<1>1. ASSUME NEW u \in 0 .. now + 1
      PROVE  Total(P) - P[u] <= E + ((now + 1) - u) * C + G
  <2>1. u \in Times /\ P[u] \in Nat /\ Total(P) \in Nat
    BY DEF Times, Total
  <2>2. CASE u = now + 1
    <3>1. P[u] = Total(P)
      BY <2>1, <2>2 DEF Balanced
    <3>2. ((now + 1) - u) * C = 0
      BY <2>2
    <3>3. QED
      BY <2>1, <3>1, <3>2
  <2>3. CASE u # now + 1
    <3> DEFINE flow == (now - u) * C
    <3>1. u \in 0 .. now /\ now - u \in Nat
      BY <2>3
    <3>2. flow \in Nat
      BY <3>1
    <3>3. ((now - u) + 1) * C = flow + C
      BY <3>1
    <3>4. (now + 1) - u = (now - u) + 1
      BY <3>1
    <3>5. Total(P) - P[u] <= D + flow + G
      BY <3>1 DEF Balanced
    <3> HIDE DEF flow
    <3>6. Total(P) - P[u] <= E + (flow + C) + G
      BY <2>1, <3>2, <3>5
    <3>7. QED
      BY <3>3, <3>4, <3>6
  <2>4. QED
    BY <2>2, <2>3
<1>2. \A u \in Times : u > now + 1 => P[u] = Total(P)
  BY DEF Balanced, Times
<1>3. QED
  BY <1>1, <1>2 DEF Balanced

\* What is given pays for what no longer is missing.
LEMMA GivingFits ==
  ASSUME NEW P \in [Times -> Nat], NEW D \in Nat, NEW E \in Nat, NEW G \in Nat, NEW units \in Nat,
         NEW C \in Nat, NEW now \in 0 .. LimiterHorizon,
         Balanced(P, D, G, C, now), WithinBudget(P, G, C), D - units <= E
  PROVE  Balanced(P, E, G + units, C, now) /\ WithinBudget(P, G + units, C)
<1>1. ASSUME NEW u \in 0 .. now
      PROVE  Total(P) - P[u] <= E + (now - u) * C + (G + units)
  <2> DEFINE flow == (now - u) * C
  <2>1. u \in Times /\ P[u] \in Nat /\ Total(P) \in Nat /\ now - u \in Nat
    BY DEF Times, Total
  <2>2. flow \in Nat /\ Total(P) - P[u] <= D + flow + G
    BY <2>1 DEF Balanced
  <2> HIDE DEF flow
  <2>3. Total(P) - P[u] <= E + flow + (G + units)
    BY <2>1, <2>2
  <2>4. QED
    BY <2>3 DEF flow
<1>2. ASSUME NEW s \in Times, NEW e \in Times, s <= e, e <= s + TicksPerSecond
      PROVE  P[e] - P[s] <= 2 * C * TicksPerSecond + (G + units)
  <2> DEFINE most == 2 * C * TicksPerSecond
  <2>1. most \in Nat /\ P[e] \in Nat /\ P[s] \in Nat /\ P[e] - P[s] <= most + G
    BY <1>2 DEF WithinBudget
  <2> HIDE DEF most
  <2>2. P[e] - P[s] <= most + (G + units)
    BY <2>1
  <2>3. QED
    BY <2>2 DEF most
<1>3. QED
  BY <1>1, <1>2 DEF Balanced, WithinBudget

\* At first nothing is taken.
LEMMA InitBudget == LimiterInit => BudgetInv
<1> SUFFICES ASSUME LimiterInit, NEW k \in BucketKeys
             PROVE  /\ Balanced(taken[k], Deficit(k), gifts[k], LargestCapacity(k), time)
                    /\ WithinBudget(taken[k], gifts[k], LargestCapacity(k))
  BY DEF BudgetInv
<1>1. LimiterTypeOK
  BY InitLimiterTypeOK
<1>2. LargestCapacity(k) \in Nat /\ Deficit(k) \in Nat
  BY <1>1, LimitType, BucketOfType
<1>3. gifts[k] = 0 /\ time = 0 /\ Total(taken[k]) = 0 /\ \A u \in Times : taken[k][u] = 0
  BY DEF LimiterInit, Times, Total
<1>4. Balanced(taken[k], Deficit(k), gifts[k], LargestCapacity(k), time)
  <2>1. ASSUME NEW u \in 0 .. time
        PROVE  Total(taken[k]) - taken[k][u] <= Deficit(k) + (time - u) * LargestCapacity(k) + gifts[k]
    <3>1. u = 0 /\ u \in Times
      BY <1>3 DEF Times
    <3>2. (time - u) * LargestCapacity(k) = 0
      BY <1>2, <1>3, <3>1
    <3>3. QED
      BY <1>2, <1>3, <3>1, <3>2
  <2>2. QED
    BY <1>3, <2>1 DEF Balanced
<1>5. WithinBudget(taken[k], gifts[k], LargestCapacity(k))
  <2>1. 2 * LargestCapacity(k) * TicksPerSecond \in Nat
    BY <1>2
  <2>2. QED
    BY <1>3, <2>1 DEF WithinBudget
<1>6. QED
  BY <1>4, <1>5

\* Every step keeps the balance of every key.
LEMMA NextBudget == LimiterTypeOK /\ BudgetInv /\ [LimiterNext]_limiterVars => BudgetInv'
<1> SUFFICES ASSUME LimiterTypeOK, BudgetInv, [LimiterNext]_limiterVars, NEW k \in BucketKeys
             PROVE  /\ Balanced(taken'[k], Deficit(k)', gifts'[k], LargestCapacity(k), time')
                    /\ WithinBudget(taken'[k], gifts'[k], LargestCapacity(k))
  BY DEF BudgetInv
<1>1. Moves(k) /\ LimiterTypeOK'
  BY NextMoves
<1>2. /\ taken[k] \in [Times -> Nat] /\ Deficit(k) \in Nat /\ gifts[k] \in Nat
      /\ LargestCapacity(k) \in Nat /\ time \in 0 .. LimiterHorizon
      /\ Balanced(taken[k], Deficit(k), gifts[k], LargestCapacity(k), time)
      /\ WithinBudget(taken[k], gifts[k], LargestCapacity(k))
  BY LimitType, BucketOfType DEF LimiterTypeOK, BudgetInv
<1>3. CASE Still(k)
  BY <1>2, <1>3 DEF Still
<1>4. CASE Took(k)
  <2>1. PICK units \in Nat : /\ taken'[k] = More(taken[k], units, time)
                             /\ Deficit(k)' = Deficit(k) + units
                             /\ Deficit(k)' <= LargestCapacity(k) * TicksPerSecond
    BY <1>4 DEF Took
  <2>2. Deficit(k) + units <= LargestCapacity(k) * TicksPerSecond
    BY <2>1
  <2>3. /\ Balanced(More(taken[k], units, time), Deficit(k) + units, gifts[k], LargestCapacity(k), time)
        /\ WithinBudget(More(taken[k], units, time), gifts[k], LargestCapacity(k))
    BY <1>2, <2>2, TakingFits
  <2>4. time' = time /\ gifts'[k] = gifts[k]
    BY <1>4 DEF Took
  <2>5. QED
    BY <2>1, <2>3, <2>4
<1>5. CASE Aged(k)
  <2>1. /\ time' = time + 1 /\ taken'[k] = taken[k] /\ gifts'[k] = gifts[k]
        /\ Deficit(k)' \in Nat /\ Deficit(k) - LargestCapacity(k) <= Deficit(k)'
    BY <1>5 DEF Aged
  <2>2. time + 1 <= LimiterHorizon
    BY <1>1, <2>1 DEF LimiterTypeOK
  <2>3. QED
    BY <1>2, <2>1, <2>2, AgeingFits
<1>6. CASE Given(k)
  <2>1. /\ time' = time /\ taken'[k] = taken[k]
    BY <1>6 DEF Given
  <2>2. PICK units \in Nat : /\ gifts'[k] = gifts[k] + units
                             /\ Deficit(k)' \in Nat /\ Deficit(k) - units <= Deficit(k)'
    BY <1>6 DEF Given
  <2>3. /\ Balanced(taken[k], Deficit(k)', gifts[k] + units, LargestCapacity(k), time)
        /\ WithinBudget(taken[k], gifts[k] + units, LargestCapacity(k))
    BY <1>2, <2>2, GivingFits
  <2>4. QED
    BY <2>1, <2>2, <2>3
<1>7. QED
  BY <1>1, <1>3, <1>4, <1>5, <1>6 DEF Moves

\* No bucket gives more than two seconds' worth within a second, beyond what is given to it
\* by hand, however often :345-376 and :433-436 make it anew, for any limits and costs.
THEOREM BucketsWithinBudget == LimiterSpec => []BucketBudget
<1>1. LimiterInit => LimiterTypeOK /\ BudgetInv
  BY InitLimiterTypeOK, InitBudget
<1>2. LimiterTypeOK /\ BudgetInv /\ [LimiterNext]_limiterVars => (LimiterTypeOK /\ BudgetInv)'
  BY NextMoves, NextBudget
<1>3. BudgetInv => BucketBudget
  BY DEF BudgetInv, WithinBudget, BucketBudget, Times
<1>4. QED
  BY <1>1, <1>2, <1>3, PTL DEF LimiterSpec
===============================================================================
