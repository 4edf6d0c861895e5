----------------------- MODULE BehavioralAnalyzer_proof -----------------------
(***************************************************************************)
(* What BehavioralAnalyzer promises for any number of requests and paths   *)
(* and any limits, proved.                                                 *)
(***************************************************************************)
EXTENDS BehavioralAnalyzer, TLAPS

\* What a request that keeps path_sequence has read is still its last path.
PreviousIsLast ==
  \A r \in Requests : pc[r] = "transition" => sequence # <<>> /\ previous[r] = Last(sequence)

Inv == TypeOK /\ PreviousIsLast /\ StepsAreCounted /\ HistoryFollows

----------------------------------------------------------------------------
\* A push ends the sequence with the path and keeps it within its bound.
LEMMA PushBounded ==
  ASSUME TypeOK, NEW p \in Paths, Push(p)
  PROVE  /\ sequence' \in Seq(Paths) /\ Len(sequence') <= MaxSequence
         /\ sequence' # <<>> /\ Last(sequence') = p
<1> DEFINE longer == Append(sequence, p)
<1>1. /\ longer \in Seq(Paths) /\ Len(longer) = Len(sequence) + 1
      /\ longer[Len(longer)] = p
  BY DEF TypeOK
<1>2. Len(sequence) \in Nat /\ Len(sequence) <= MaxSequence
  BY DEF TypeOK
<1>3. CASE Len(longer) > MaxSequence
  <2>1. sequence' = Tail(longer)
    BY <1>3 DEF Push
  <2>2. /\ Tail(longer) \in Seq(Paths) /\ Len(Tail(longer)) = Len(sequence)
    BY <1>1, <1>2
  <2>3. Len(sequence) >= 1
    BY <1>1, <1>2, <1>3, AnalyzerAssumption
  <2>4. Tail(longer)[Len(sequence)] = longer[Len(sequence) + 1]
    BY <1>1, <1>2, <2>3
  <2> QED
    BY <1>1, <1>2, <2>1, <2>2, <2>3, <2>4 DEF Last
<1>4. CASE ~(Len(longer) > MaxSequence)
  <2>1. sequence' = longer
    BY <1>4 DEF Push
  <2> QED
    BY <1>1, <1>2, <1>4, <2>1, AnalyzerAssumption DEF Last
<1> QED
  BY <1>3, <1>4

\* The steps of a pushed sequence are those it had and the one to the new path.
LEMMA PushSteps ==
  ASSUME TypeOK, NEW p \in Paths, Push(p),
         NEW i \in 1 .. Len(sequence') - 1
  PROVE  \/ \E k \in 1 .. Len(sequence) - 1 : /\ sequence'[i] = sequence[k]
                                              /\ sequence'[i + 1] = sequence[k + 1]
         \/ /\ sequence # <<>>
            /\ sequence'[i] = Last(sequence) /\ sequence'[i + 1] = p
<1> DEFINE longer == Append(sequence, p)
<1>1. /\ longer \in Seq(Paths) /\ Len(longer) = Len(sequence) + 1
      /\ longer[Len(longer)] = p
      /\ \A k \in 1 .. Len(sequence) : longer[k] = sequence[k]
  BY DEF TypeOK
<1>2. Len(sequence) \in Nat
  BY DEF TypeOK
<1>3. PICK k \in 1 .. Len(longer) - 1 : /\ sequence'[i] = longer[k]
                                       /\ sequence'[i + 1] = longer[k + 1]
  <2>1. CASE sequence' = longer
    BY <2>1
  <2>2. CASE sequence' = Tail(longer)
    <3>1. /\ Len(Tail(longer)) = Len(longer) - 1
          /\ \A k \in 1 .. Len(longer) - 1 : Tail(longer)[k] = longer[k + 1]
      BY <1>1, <1>2
    <3>2. i + 1 \in 1 .. Len(longer) - 1
      BY <2>2, <3>1, <1>1, <1>2
    <3> QED
      BY <2>2, <3>1, <3>2, <1>1, <1>2
  <2> QED
    BY <2>1, <2>2 DEF Push
<1>4. CASE k = Len(sequence)
  BY <1>1, <1>2, <1>3, <1>4 DEF Last
<1>5. CASE k # Len(sequence)
  BY <1>1, <1>2, <1>3, <1>5
<1> QED
  BY <1>4, <1>5

----------------------------------------------------------------------------
(* HistoryFollows for any history h and any counts t.                       *)

Newest(h, i) == \A j \in DOMAIN h : j > i => ~SamePair(h[j], h[i])

Continued(h, i) ==
  \E j \in DOMAIN h : j > i /\ SamePair(h[j], h[i]) /\ h[j].count = h[i].count + 1

Told(h, t) ==
  \A i \in DOMAIN h :
    Continued(h, i) \/ (Newest(h, i) /\ h[i].count = t[<<h[i].from_path, h[i].to_path>>])

LEMMA HistoryIsTold == HistoryFollows <=> Told(history, transitions)
BY Zenon DEF HistoryFollows, Told, Newest, Continued

\* What is drained are the d oldest records.
LEMMA DrainedOldest ==
  ASSUME NEW h \in Seq(Record), Len(h) <= MaxHistory + 1
  PROVE  /\ Drain(h) \in Seq(Record) /\ Len(Drain(h)) <= MaxHistory
         /\ \E d \in Nat : /\ Len(Drain(h)) = Len(h) - d
                          /\ \A i \in 1 .. Len(h) - d : Drain(h)[i] = h[i + d]
<1>1. Len(h) \in Nat
  OBVIOUS
<1>2. CASE Len(h) > MaxHistory
  <2>1. Drain(h) = SubSeq(h, Drained + 1, Len(h))
    BY <1>2 DEF Drain
  <2>2. Drained \in Nat /\ Drained >= 1 /\ Drained <= MaxHistory /\ MaxHistory \in Nat
    BY AnalyzerAssumption
  <2>3. /\ SubSeq(h, Drained + 1, Len(h)) \in Seq(Record)
        /\ Len(SubSeq(h, Drained + 1, Len(h))) = Len(h) - Drained
        /\ \A i \in 1 .. Len(h) - Drained :
             SubSeq(h, Drained + 1, Len(h))[i] = h[i + Drained]
    BY <1>1, <1>2, <2>2
  <2>4. Len(Drain(h)) = Len(h) - Drained /\ Len(h) - Drained <= MaxHistory
    BY <1>1, <2>1, <2>2, <2>3
  <2>5. \A i \in 1 .. Len(h) - Drained : Drain(h)[i] = h[i + Drained]
    BY <2>1, <2>3
  <2> QED
    BY <2>1, <2>2, <2>3, <2>4, <2>5
<1>3. CASE ~(Len(h) > MaxHistory)
  <2>1. Drain(h) = h
    BY <1>3 DEF Drain
  <2>2. /\ Len(h) = Len(h) - 0
        /\ \A i \in 1 .. Len(h) - 0 : h[i] = h[i + 0]
    BY <1>1
  <2>3. Len(h) <= MaxHistory
    BY <1>1, <1>3, AnalyzerAssumption
  <2> QED
    BY <2>1, <2>2, <2>3
<1> QED
  BY <1>2, <1>3

LEMMA DrainTold ==
  ASSUME NEW h \in Seq(Record), Len(h) <= MaxHistory + 1, NEW t, Told(h, t)
  PROVE  Told(Drain(h), t)
<1> DEFINE g == Drain(h)
<1>1. PICK d \in Nat : /\ Len(g) = Len(h) - d
                       /\ \A i \in 1 .. Len(h) - d : g[i] = h[i + d]
  BY DrainedOldest
<1>2. g \in Seq(Record) /\ Len(g) \in Nat /\ Len(h) \in Nat
  BY DrainedOldest
<1>3. DOMAIN g = 1 .. Len(h) - d /\ DOMAIN h = 1 .. Len(h)
  BY <1>1, <1>2
<1> HIDE DEF g
<1> SUFFICES ASSUME NEW i \in 1 .. Len(h) - d
             PROVE  \/ Continued(g, i)
                    \/ /\ Newest(g, i)
                       /\ g[i].count = t[<<g[i].from_path, g[i].to_path>>]
  BY <1>3 DEF Told, g
<1>4. i + d \in 1 .. Len(h) /\ g[i] = h[i + d]
  BY <1>1, <1>2
<1>5. CASE Continued(h, i + d)
  <2>1. PICK j \in 1 .. Len(h) : /\ j > i + d /\ SamePair(h[j], h[i + d])
                                 /\ h[j].count = h[i + d].count + 1
    BY <1>3, <1>5 DEF Continued
  <2>2. j - d \in 1 .. Len(h) - d /\ j - d > i /\ g[j - d] = h[j]
    BY <1>1, <1>2, <2>1
  <2> QED
    BY <1>3, <1>4, <2>1, <2>2 DEF Continued
<1>6. CASE /\ Newest(h, i + d)
           /\ h[i + d].count = t[<<h[i + d].from_path, h[i + d].to_path>>]
  <2>1. Newest(g, i)
    <3> SUFFICES ASSUME NEW j \in 1 .. Len(h) - d, j > i
                 PROVE  ~SamePair(g[j], g[i])
      BY <1>3 DEF Newest
    <3>1. j + d \in 1 .. Len(h) /\ j + d > i + d /\ g[j] = h[j + d]
      BY <1>1, <1>2
    <3> QED
      BY <1>3, <1>4, <1>6, <3>1 DEF Newest
  <2> QED
    BY <1>4, <1>6, <2>1
<1> QED
  BY <1>3, <1>4, <1>5, <1>6 DEF Told

\* One more transition, counted and recorded, is told.
LEMMA AppendTold ==
  ASSUME NEW h \in Seq(Record), NEW t \in [Paths \X Paths -> Nat], Told(h, t),
         NEW a \in Paths, NEW b \in Paths
  PROVE  Told(Append(h, [from_path |-> a, to_path |-> b, count |-> t[<<a, b>>] + 1]),
              [t EXCEPT ![<<a, b>>] = t[<<a, b>>] + 1])
<1> DEFINE new == [from_path |-> a, to_path |-> b, count |-> t[<<a, b>>] + 1]
           g == Append(h, new)
           u == [t EXCEPT ![<<a, b>>] = t[<<a, b>>] + 1]
           n == Len(h)
<1>1. n \in Nat /\ DOMAIN h = 1 .. n
  OBVIOUS
<1>2. new \in Record
  BY DEF Record
<1>3. /\ DOMAIN g = 1 .. n + 1 /\ g[n + 1] = new
      /\ \A i \in 1 .. n : g[i] = h[i]
  BY <1>1, <1>2
<1>4. \A c, d \in Paths : u[<<c, d>>] = IF c = a /\ d = b THEN t[<<a, b>>] + 1 ELSE t[<<c, d>>]
  OBVIOUS
<1>5. \A i \in 1 .. n : h[i].from_path \in Paths /\ h[i].to_path \in Paths
  <2>1. \A i \in 1 .. n : h[i] \in Record
    BY <1>1
  <2>2. \A x \in Record : x.from_path \in Paths /\ x.to_path \in Paths
    BY DEF Record
  <2> QED
    BY <2>1, <2>2
<1>6. new.from_path = a /\ new.to_path = b /\ new.count = t[<<a, b>>] + 1
  OBVIOUS
<1> HIDE DEF g, u, n, new
<1>7. Newest(g, n + 1) /\ g[n + 1].count = u[<<g[n + 1].from_path, g[n + 1].to_path>>]
  <2>1. \A j \in DOMAIN g : ~(j > n + 1)
    BY <1>1, <1>3
  <2>2. u[<<a, b>>] = new.count
    BY <1>4, <1>6
  <2>3. g[n + 1].from_path = a /\ g[n + 1].to_path = b /\ g[n + 1].count = new.count
    BY <1>3, <1>6
  <2> QED
    BY <2>1, <2>2, <2>3 DEF Newest
<1>8. ASSUME NEW i \in 1 .. n
      PROVE  \/ Continued(g, i)
             \/ /\ Newest(g, i)
                /\ g[i].count = u[<<g[i].from_path, g[i].to_path>>]
  <2>1. g[i] = h[i]
    BY <1>3
  <2>2. CASE Continued(h, i)
    <3>1. PICK j \in 1 .. n : /\ j > i /\ SamePair(h[j], h[i])
                              /\ h[j].count = h[i].count + 1
      BY <1>1, <2>2 DEF Continued
    <3>2. j \in DOMAIN g /\ g[j] = h[j]
      BY <1>1, <1>3
    <3> QED
      BY <2>1, <3>1, <3>2 DEF Continued
  <2>3. CASE Newest(h, i) /\ h[i].count = t[<<h[i].from_path, h[i].to_path>>]
    <3>1. CASE h[i].from_path = a /\ h[i].to_path = b
      <4>1. SamePair(new, h[i]) /\ new.count = h[i].count + 1
        BY <1>6, <2>3, <3>1 DEF SamePair
      <4>2. n + 1 \in DOMAIN g /\ n + 1 > i
        BY <1>1, <1>3
      <4> QED
        BY <1>3, <2>1, <4>1, <4>2 DEF Continued
    <3>2. CASE ~(h[i].from_path = a /\ h[i].to_path = b)
      <4>1. ~SamePair(new, h[i])
        BY <1>6, <3>2 DEF SamePair
      <4>2. Newest(g, i)
        <5> SUFFICES ASSUME NEW j \in 1 .. n + 1, j > i
                     PROVE  ~SamePair(g[j], g[i])
          BY <1>3 DEF Newest
        <5>1. CASE j = n + 1
          BY <1>3, <2>1, <4>1, <5>1
        <5>2. CASE j # n + 1
          <6>1. j \in 1 .. n
            BY <1>1, <5>2
          <6> QED
            BY <1>1, <1>3, <2>1, <2>3, <6>1 DEF Newest
        <5> QED
          BY <5>1, <5>2
      <4>3. u[<<h[i].from_path, h[i].to_path>>] = t[<<h[i].from_path, h[i].to_path>>]
        BY <1>4, <1>5, <3>2
      <4> QED
        BY <2>1, <2>3, <4>2, <4>3
    <3> QED
      BY <3>1, <3>2
  <2> QED
    BY <1>1, <2>2, <2>3 DEF Told
<1>9. \A i \in DOMAIN g : \/ Continued(g, i)
                         \/ /\ Newest(g, i)
                            /\ g[i].count = u[<<g[i].from_path, g[i].to_path>>]
  <2> SUFFICES ASSUME NEW i \in 1 .. n + 1
               PROVE  \/ Continued(g, i)
                      \/ /\ Newest(g, i)
                         /\ g[i].count = u[<<g[i].from_path, g[i].to_path>>]
    BY <1>3
  <2>1. CASE i = n + 1
    BY <1>7, <2>1
  <2>2. CASE i # n + 1
    <3>1. i \in 1 .. n
      BY <1>1, <2>2
    <3> QED
      BY <1>8, <3>1
  <2> QED
    BY <2>1, <2>2
<1>10. Told(g, u)
  BY <1>9 DEF Told
<1> QED
  BY <1>10 DEF g, u, new

----------------------------------------------------------------------------
(* The steps.                                                               *)

\* Counting keeps the types, what is told, and every count that was above zero.
LEMMA CountKeeps ==
  ASSUME TypeOK, HistoryFollows, NEW r \in Requests, pc[r] = "transition", Count(r)
  PROVE  /\ previous[r] \in Paths /\ path[r] \in Paths
         /\ transitions' \in [Paths \X Paths -> Nat]
         /\ history' \in Seq(Record) /\ Len(history') <= MaxHistory
         /\ HistoryFollows'
         /\ transitions'[<<previous[r], path[r]>>] > 0
         /\ \A pair \in Paths \X Paths : transitions[pair] > 0 => transitions'[pair] > 0
<1> DEFINE a == previous[r]
           b == path[r]
           record == [from_path |-> a, to_path |-> b, count |-> transitions[<<a, b>>] + 1]
           h == Append(history, record)
           t == [transitions EXCEPT ![<<a, b>>] = transitions[<<a, b>>] + 1]
<1>1. a \in Paths /\ b \in Paths
  BY DEF TypeOK
<1>2. transitions \in [Paths \X Paths -> Nat] /\ history \in Seq(Record)
      /\ Len(history) \in Nat /\ Len(history) <= MaxHistory
  BY DEF TypeOK
<1>3. transitions' = t /\ history' = Drain(h)
  BY Zenon DEF Count
<1>4. Told(h, t)
  <2>1. Told(history, transitions)
    BY HistoryIsTold
  <2> QED
    BY <1>1, <1>2, <2>1, AppendTold
<1>5. h \in Seq(Record) /\ Len(h) <= MaxHistory + 1
  <2>1. record \in Record
    BY <1>1, <1>2 DEF Record
  <2> HIDE DEF record
  <2> QED
    BY <1>2, <2>1, AnalyzerAssumption
<1>6. t \in [Paths \X Paths -> Nat] /\ t[<<a, b>>] > 0
      /\ \A pair \in Paths \X Paths : transitions[pair] > 0 => t[pair] > 0
  BY <1>1, <1>2
<1> HIDE DEF h, t
<1>7. Drain(h) \in Seq(Record) /\ Len(Drain(h)) <= MaxHistory
  BY <1>5, DrainedOldest
<1>8. Told(Drain(h), t)
  BY <1>4, <1>5, DrainTold
<1>9. HistoryFollows'
  <2>1. Told(history', transitions')
    BY <1>3, <1>8
  <2> QED
    BY <2>1, Zenon DEF HistoryFollows, Told, Newest, Continued
<1> QED
  BY <1>1, <1>3, <1>6, <1>7, <1>9

LEMMA InitInv == Init => Inv
<1> SUFFICES ASSUME Init PROVE Inv
  OBVIOUS
<1>1. sequence = <<>> /\ history = <<>> /\ Len(sequence) = 0 /\ Len(history) = 0
      /\ sequence \in Seq(Paths) /\ history \in Seq(Record)
  BY DEF Init
<1>2. TypeOK
  BY <1>1, AnalyzerAssumption DEF Init, TypeOK, Stages
<1>3. PreviousIsLast
  BY DEF Init, PreviousIsLast
<1>4. StepsAreCounted
  BY <1>1 DEF StepsAreCounted
<1>5. HistoryFollows
  BY <1>1 DEF HistoryFollows
<1> QED
  BY <1>2, <1>3, <1>4, <1>5 DEF Inv

\* A push by a request that has counted its step, or to an empty sequence.
LEMMA PushCounted ==
  ASSUME TypeOK, StepsAreCounted, NEW p \in Paths, Push(p),
         \A pair \in Paths \X Paths : transitions[pair] > 0 => transitions'[pair] > 0,
         sequence # <<>> => transitions'[<<Last(sequence), p>>] > 0
  PROVE  StepsAreCounted'
<1> SUFFICES ASSUME NEW i \in 1 .. Len(sequence') - 1
             PROVE  transitions'[<<sequence'[i], sequence'[i + 1]>>] > 0
  BY DEF StepsAreCounted
<1>1. CASE \E k \in 1 .. Len(sequence) - 1 : /\ sequence'[i] = sequence[k]
                                             /\ sequence'[i + 1] = sequence[k + 1]
  <2>1. PICK k \in 1 .. Len(sequence) - 1 : /\ sequence'[i] = sequence[k]
                                            /\ sequence'[i + 1] = sequence[k + 1]
    BY <1>1
  <2>2. transitions[<<sequence[k], sequence[k + 1]>>] > 0
    BY DEF StepsAreCounted
  <2>3. sequence[k] \in Paths /\ sequence[k + 1] \in Paths
    <3>1. sequence \in Seq(Paths) /\ Len(sequence) \in Nat
      BY DEF TypeOK
    <3>2. k \in 1 .. Len(sequence) /\ k + 1 \in 1 .. Len(sequence)
      BY <3>1
    <3> QED
      BY <3>1, <3>2
  <2> QED
    BY <2>1, <2>2, <2>3
<1>2. CASE sequence # <<>> /\ sequence'[i] = Last(sequence) /\ sequence'[i + 1] = p
  BY <1>2
<1> QED
  BY <1>1, <1>2, PushSteps

LEMMA NextInv ==
  ASSUME Inv, [Next]_vars
  PROVE  Inv'
<1> USE DEF Inv
<1>1. CASE UNCHANGED vars
  BY <1>1 DEF vars, TypeOK, PreviousIsLast, StepsAreCounted, HistoryFollows
<1>2. ASSUME NEW r \in Requests, NEW p \in Paths, Arrive(r, p)
      PROVE  Inv'
  <2>1. TypeOK'
    BY <1>2, AnalyzerAssumption DEF Arrive, Goto, TypeOK, Stages
  <2>2. PreviousIsLast'
    BY <1>2 DEF Arrive, Goto, TypeOK, PreviousIsLast
  <2>3. StepsAreCounted' /\ HistoryFollows'
    BY <1>2 DEF Arrive, StepsAreCounted, HistoryFollows
  <2> QED
    BY <2>1, <2>2, <2>3
<1>3. ASSUME NEW r \in Requests, TrackFirst(r)
      PROVE  Inv'
  <2>1. path[r] \in Paths /\ Push(path[r]) /\ writer = NoRequest /\ sequence = <<>>
    BY <1>3 DEF TrackFirst, TypeOK, SequenceFree
  <2>2. sequence' \in Seq(Paths) /\ Len(sequence') <= MaxSequence
    BY <2>1, PushBounded
  <2>3. TypeOK'
    BY <1>3, <2>2 DEF TrackFirst, Return, Goto, TypeOK, Stages
  <2>4. PreviousIsLast'
    BY <1>3, <2>1, AnalyzerAssumption DEF TrackFirst, Return, Goto, TypeOK, PreviousIsLast
  <2>5. StepsAreCounted'
    <3>1. transitions' = transitions
      BY <1>3 DEF TrackFirst
    <3> QED
      BY <2>1, <3>1, PushCounted
  <2>6. HistoryFollows'
    BY <1>3 DEF TrackFirst, HistoryFollows
  <2> QED
    BY <2>3, <2>4, <2>5, <2>6
<1>4. ASSUME NEW r \in Requests, LockSequence(r)
      PROVE  Inv'
  <2>1. Last(sequence) \in Paths
    <3>1. sequence \in Seq(Paths) /\ sequence # <<>> /\ Len(sequence) \in Nat
      BY <1>4 DEF LockSequence, TypeOK
    <3>2. Len(sequence) \in 1 .. Len(sequence)
      BY <3>1
    <3> QED
      BY <3>1, <3>2 DEF Last
  <2>2. TypeOK'
    BY <1>4, <2>1, AnalyzerAssumption DEF LockSequence, SequenceFree, Goto, TypeOK, Stages
  <2>3. PreviousIsLast'
    BY <1>4, AnalyzerAssumption
    DEF LockSequence, SequenceFree, Goto, TypeOK, PreviousIsLast, Last
  <2>4. StepsAreCounted' /\ HistoryFollows'
    BY <1>4 DEF LockSequence, StepsAreCounted, HistoryFollows
  <2> QED
    BY <2>2, <2>3, <2>4
<1>5. ASSUME NEW r \in Requests, TrackTransition(r)
      PROVE  Inv'
  <2>1. Count(r) /\ Push(path[r]) /\ pc[r] = "transition" /\ writer = r
    BY <1>5 DEF TrackTransition, TypeOK
  <2>2. /\ previous[r] \in Paths /\ path[r] \in Paths
        /\ transitions' \in [Paths \X Paths -> Nat]
        /\ history' \in Seq(Record) /\ Len(history') <= MaxHistory
        /\ HistoryFollows'
        /\ transitions'[<<previous[r], path[r]>>] > 0
        /\ \A pair \in Paths \X Paths : transitions[pair] > 0 => transitions'[pair] > 0
    BY <2>1, CountKeeps
  <2>3. sequence' \in Seq(Paths) /\ Len(sequence') <= MaxSequence
    BY <2>1, <2>2, PushBounded
  <2>4. TypeOK'
    BY <1>5, <2>1, <2>2, <2>3, AnalyzerAssumption DEF TrackTransition, Return, Goto, TypeOK, Stages
  <2>5. PreviousIsLast'
    BY <1>5, <2>1 DEF TrackTransition, Return, Goto, TypeOK, PreviousIsLast
  <2>6. StepsAreCounted'
    <3>1. previous[r] = Last(sequence)
      BY <2>1 DEF PreviousIsLast
    <3> QED
      BY <2>1, <2>2, <3>1, PushCounted
  <2> QED
    BY <2>2, <2>4, <2>5, <2>6
<1>6. ASSUME NEW r \in Requests, Check(r)
      PROVE  Inv'
  <2>1. UNCHANGED <<sequence, transitions, history, writer, path, previous>>
    BY <1>6 DEF Check, CheckRepetition, ReadTransitions, CheckNovelty
  <2>2. TypeOK'
    <3>1. CASE CheckRepetition(r)
      BY <3>1 DEF CheckRepetition, Goto, TypeOK, Stages
    <3>2. CASE ReadTransitions(r)
      BY <3>2 DEF ReadTransitions, Goto, TypeOK, Stages
    <3>3. CASE CheckNovelty(r)
      BY <3>3 DEF CheckNovelty, Goto, TypeOK, Stages
    <3> QED
      BY <1>6, <3>1, <3>2, <3>3 DEF Check
  <2>3. PreviousIsLast'
    <3>1. \A q \in Requests : pc'[q] = "transition" => pc[q] = "transition"
      BY <1>6 DEF Check, CheckRepetition, ReadTransitions, CheckNovelty, Goto, TypeOK
    <3> QED
      BY <2>1, <3>1 DEF PreviousIsLast, Last
  <2>4. StepsAreCounted' /\ HistoryFollows'
    BY <2>1 DEF StepsAreCounted, HistoryFollows
  <2> QED
    BY <2>2, <2>3, <2>4
<1> QED
  BY <1>1, <1>2, <1>3, <1>4, <1>5, <1>6 DEF Next, Track

LEMMA InvHolds == Spec => []Inv
<1>1. Inv /\ [Next]_vars => Inv'
  BY NextInv
<1> QED
  BY InitInv, <1>1, PTL DEF Spec

----------------------------------------------------------------------------
\* The tables stay within their bounds, and path_sequence is locked by exactly
\* the request that waits for path_transitions (behavioral_analyzer.rs:233-305).
THEOREM AnalyzerTypeCorrect == Spec => []TypeOK
<1>1. Inv => TypeOK
  BY DEF Inv
<1> QED
  BY InvHolds, <1>1, PTL

\* However requests interleave, every step of path_sequence is in
\* path_transitions: last_path is still the last path when the new one is pushed
\* (behavioral_analyzer.rs:236-258).
THEOREM AnalyzerCountsSteps == Spec => []StepsAreCounted
<1>1. Inv => StepsAreCounted
  BY DEF Inv
<1> QED
  BY InvHolds, <1>1, PTL

\* The history tells the counts without a gap and ends where path_transitions
\* stands, through any interleaving and any drain (behavioral_analyzer.rs:238-252).
THEOREM AnalyzerHistoryFollows == Spec => []HistoryFollows
<1>1. Inv => HistoryFollows
  BY DEF Inv
<1> QED
  BY InvHolds, <1>1, PTL
=============================================================================
