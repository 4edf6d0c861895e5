--------------------------- MODULE Inspection_proof ---------------------------
(*****************************************************************************)
(* Proofs about Inspection, for any requests and texts: what tells where     *)
(* the body of a request that passes ends, that the two validations agree    *)
(* on it, and that what a client form-encodes is scanned as it was before.   *)
(* First the lemmas on folds that these and the proofs of Edge_proof rest    *)
(* on.                                                                       *)
(*****************************************************************************)
EXTENDS Inspection, Integers, FiniteSets, FiniteSetTheorems, WellFoundedInduction,
        SequenceTheorems, TLAPS

----------------------------------------------------------------------------
(* Folds. FoldLeft is a MapThenFoldSet over the positions of a sequence,    *)
(* and that is a function on sets, chosen to unfold itself. Such a function *)
(* exists, and its values for the sets 1 .. k are the trail the fold        *)
(* leaves, which the lemmas named Trail give for each fold of the modules:  *)
(* it begins with the base, goes on term by term and ends with the result.  *)

\* Induction over a set of numbers, first-order as the provers need it.
LEMMA NatSetInduction ==
  ASSUME NEW S, 0 \in S, \A n \in S \cap Nat : n + 1 \in S
  PROVE  Nat \subseteq S
<1> SUFFICES ASSUME Nat \ S # {} PROVE FALSE
  OBVIOUS
<1>1. PICK least \in Nat \ S : \A g \in Nat \ S : ~(g < least)
  <2>1. PICK least \in Nat \ S : \A g \in Nat \ S : <<g, least>> \notin OpToRel(<, Nat)
    BY NatLessThanWellFounded, WFMin, Zenon
  <2>2. \A g \in Nat \ S : ~(g < least)
    BY <2>1, Zenon DEF OpToRel
  <2>3. QED
    BY <2>2
<1>2. least # 0 /\ least - 1 \in Nat /\ least - 1 < least /\ (least - 1) + 1 = least
  BY <1>1
<1>3. least - 1 \in S
  BY <1>1, <1>2
<1>4. QED
  BY <1>1, <1>2, <1>3

\* The largest of some numbers from one on, as Max chooses it.
LEMMA LargestOfUpTo ==
  ASSUME NEW n \in Nat, NEW s \in SUBSET (1 .. n), s # {}
  PROVE  Max(s) \in s /\ \A k \in s : k <= Max(s)
<1> DEFINE P(m) == \A t \in SUBSET (1 .. m) : t # {} => \E x \in t : \A y \in t : x >= y
           S == {m \in Nat : P(m)}
<1>1. 0 \in S
  <2>1. \A t \in SUBSET (1 .. 0) : t = {}
    OBVIOUS
  <2>2. QED
    BY <2>1
<1>2. ASSUME NEW m \in S \cap Nat PROVE m + 1 \in S
  <2>1. ASSUME NEW t \in SUBSET (1 .. m + 1), t # {}
        PROVE  \E x \in t : \A y \in t : x >= y
    <3>1. CASE m + 1 \in t
      BY <3>1
    <3>2. CASE m + 1 \notin t
      <4>1. t \in SUBSET (1 .. m)
        BY <3>2
      <4>2. QED
        BY <1>2, <2>1, <4>1
    <3>3. QED
      BY <3>1, <3>2
  <2>2. QED
    BY <2>1
<1> HIDE DEF S
<1>3. n \in S
  BY <1>1, <1>2, NatSetInduction
<1>4. \E x \in s : \A y \in s : x >= y
  BY <1>3 DEF S
<1>5. Max(s) \in s /\ \A y \in s : Max(s) >= y
  BY <1>4 DEF Max
<1>6. QED
  BY <1>5

\* The largest of some numbers from zero on.
LEMMA LargestFromZero ==
  ASSUME NEW n \in Nat, NEW s \in SUBSET (0 .. n), s # {}
  PROVE  Max(s) \in s /\ \A k \in s : k <= Max(s)
<1> DEFINE t == s \ {0}
<1>1. CASE t = {}
  <2>1. s = {0}
    BY <1>1
  <2>2. QED
    BY <2>1 DEF Max
<1>2. CASE t # {}
  <2>1. t \in SUBSET (1 .. n)
    OBVIOUS
  <2>2. PICK a \in t : \A k \in t : k <= a
    BY <1>2, <2>1, LargestOfUpTo
  <2>3. a \in s /\ \A k \in s : k \in Nat /\ k <= a
    BY <2>2
  <2> HIDE DEF t
  <2>4. \A x \in s : (\A y \in s : x >= y) => x = a
    BY <2>3
  <2>5. \A y \in s : a >= y
    BY <2>3
  <2>6. Max(s) = a
    BY <2>3, <2>4, <2>5 DEF Max
  <2>7. QED
    BY <2>3, <2>6
<1>3. QED
  BY <1>1, <1>2

\* The smallest of some numbers from one on.
LEMMA LeastFromOne ==
  ASSUME NEW n \in Nat, NEW s \in SUBSET (1 .. n), s # {}
  PROVE  Min(s) \in s /\ \A k \in s : Min(s) <= k
<1> DEFINE t == {n - k : k \in s}
<1>1. t \in SUBSET (0 .. n) /\ t # {}
  <2>1. \A k \in s : n - k \in 0 .. n
    OBVIOUS
  <2>2. PICK x \in s : TRUE
    OBVIOUS
  <2>3. n - x \in t
    OBVIOUS
  <2>4. QED
    BY <2>1, <2>3
<1>2. PICK a \in t : \A k \in t : k <= a
  BY <1>1, LargestFromZero
<1>3. PICK b \in s : a = n - b
  BY <1>2
<1>4. \A k \in s : b <= k
  <2>1. ASSUME NEW k \in s PROVE b <= k
    <3>1. n - k <= n - b
      BY <1>2, <1>3
    <3>2. QED
      BY <3>1
  <2>2. QED
    BY <2>1
<1>5. Min(s) \in s /\ \A k \in s : Min(s) <= k
  BY <1>4 DEF Min
<1>6. QED
  BY <1>5

\* The set of all up to n, without n.
LEMMA TopElement ==
  ASSUME NEW m \in Nat, NEW n \in Nat, n = m + 1, NEW s \in SUBSET (1 .. n), n \in s
  PROVE  /\ s \ {n} \in SUBSET (1 .. m) /\ s \ {n} \in SUBSET (1 .. n)
         /\ Max(s) = n
<1>1. Max(s) \in s /\ \A k \in s : k <= Max(s)
  BY LargestOfUpTo
<1>2. Max(s) \in 1 .. n /\ n <= Max(s)
  BY <1>1
<1>3. Max(s) = n
  BY <1>2
<1>4. s \ {n} \in SUBSET (1 .. m)
  OBVIOUS
<1>5. QED
  BY <1>3, <1>4

\* A function on the sets of numbers up to n unfolds from the largest number down, as
\* MapThenFoldSet does for FoldLeft.
Unfolds(iter, n, base, step) ==
  iter = [s \in SUBSET (1 .. n) |-> IF s = {} THEN base ELSE step[Max(s)][iter[s \ {Max(s)}]]]

\* There is such a function, so that the CHOOSE in MapThenFoldSet finds one.
LEMMA FoldExists ==
  ASSUME NEW n \in Nat, NEW R, NEW base \in R, NEW step, \A k \in 1 .. n : step[k] \in [R -> R]
  PROVE  \E iter \in [SUBSET (1 .. n) -> R] : Unfolds(iter, n, base, step)
<1> DEFINE P(m) == \E iter \in [SUBSET (1 .. m) -> R] : Unfolds(iter, m, base, step)
<1>1. P(0)
  <2>1. SUBSET (1 .. 0) = {{}}
    OBVIOUS
  <2>2. Unfolds([s \in SUBSET (1 .. 0) |-> base], 0, base, step)
    BY <2>1 DEF Unfolds
  <2>3. QED
    BY <2>2
<1>2. ASSUME NEW m \in Nat, m + 1 <= n, P(m) PROVE P(m + 1)
  <2>1. PICK it \in [SUBSET (1 .. m) -> R] : Unfolds(it, m, base, step)
    BY <1>2
  <2> DEFINE new == [s \in SUBSET (1 .. m + 1) |->
                       IF m + 1 \in s THEN step[m + 1][it[s \ {m + 1}]] ELSE it[s]]
  <2>2. ASSUME NEW s \in SUBSET (1 .. m + 1)
        PROVE  /\ new[s] \in R
               /\ new[s] = IF s = {} THEN base ELSE step[Max(s)][new[s \ {Max(s)}]]
    <3>1. CASE m + 1 \in s
      <4>1. s \ {m + 1} \in SUBSET (1 .. m) /\ s \ {m + 1} \in SUBSET (1 .. m + 1)
        BY <3>1, TopElement
      <4>2. Max(s) = m + 1
        BY <3>1, TopElement
      <4>3. new[s \ {m + 1}] = it[s \ {m + 1}] /\ new[s] = step[m + 1][it[s \ {m + 1}]]
        BY <3>1, <4>1
      <4> HIDE DEF new
      <4>4. step[m + 1] \in [R -> R] /\ it[s \ {m + 1}] \in R
        BY <1>2, <4>1
      <4>5. new[s] \in R
        BY <4>3, <4>4
      <4>6. QED
        BY <3>1, <4>2, <4>3, <4>5
    <3>2. CASE m + 1 \notin s
      <4>1. s \in SUBSET (1 .. m)
        BY <3>2
      <4>2. new[s] = it[s] /\ it[s] \in R
        BY <3>2, <4>1
      <4>3. CASE s = {}
        <5>1. it[s] = base
          BY <2>1, <4>1, <4>3 DEF Unfolds
        <5>2. QED
          BY <4>2, <4>3, <5>1
      <4>4. CASE s # {}
        <5>1. Max(s) \in s
          BY <4>1, <4>4, LargestOfUpTo
        <5>2. s \ {Max(s)} \in SUBSET (1 .. m) /\ m + 1 \notin s \ {Max(s)} /\ s \ {Max(s)} \in SUBSET (1 .. m + 1)
          BY <3>2, <4>1
        <5>3. new[s \ {Max(s)}] = it[s \ {Max(s)}]
          BY <5>2
        <5>4. it[s] = step[Max(s)][it[s \ {Max(s)}]]
          BY <2>1, <4>1, <4>4 DEF Unfolds
        <5> HIDE DEF new
        <5>5. QED
          BY <4>2, <4>4, <5>3, <5>4
      <4>5. QED
        BY <4>3, <4>4
    <3>3. QED
      BY <3>1, <3>2
  <2>3. new \in [SUBSET (1 .. m + 1) -> R]
    BY <2>2
  <2>4. new = [s \in SUBSET (1 .. m + 1) |-> new[s]]
    OBVIOUS
  <2> HIDE DEF new
  <2>5. Unfolds(new, m + 1, base, step)
    BY <2>2, <2>4 DEF Unfolds
  <2>6. QED
    BY <2>3, <2>5
<1> DEFINE S == {m \in Nat : m <= n => P(m)}
<1> HIDE DEF P
<1>3. 0 \in S
  BY <1>1
<1>4. ASSUME NEW m \in S \cap Nat PROVE m + 1 \in S
  BY <1>2
<1> HIDE DEF S
<1>5. n \in S
  BY <1>3, <1>4, NatSetInduction
<1>6. P(n)
  BY <1>5 DEF S
<1>7. QED
  BY <1>6 DEF P

\* The numbers up to k, for each k up to n.
LEMMA InitialSegments ==
  ASSUME NEW n \in Nat
  PROVE  /\ 1 .. 0 = {}
         /\ \A k \in 1 .. n : /\ 1 .. k \in SUBSET (1 .. n) /\ 1 .. k # {}
                              /\ Max(1 .. k) = k /\ (1 .. k) \ {k} = 1 .. k - 1
<1>1. ASSUME NEW k \in 1 .. n
      PROVE  /\ 1 .. k \in SUBSET (1 .. n) /\ 1 .. k # {}
             /\ Max(1 .. k) = k /\ (1 .. k) \ {k} = 1 .. k - 1
  <2>1. 1 .. k \in SUBSET (1 .. n) /\ k \in 1 .. k
    OBVIOUS
  <2>2. Max(1 .. k) \in 1 .. k /\ \A j \in 1 .. k : j <= Max(1 .. k)
    BY <2>1, LargestOfUpTo
  <2>3. Max(1 .. k) = k
    BY <2>1, <2>2
  <2>4. QED
    BY <2>1, <2>3
<1>2. 1 .. 0 = {}
  OBVIOUS
<1>3. QED
  BY <1>1, <1>2

\* Induction up to n.
LEMMA InductionUpTo ==
  ASSUME NEW n \in Nat, NEW S, 0 \in S, \A k \in 1 .. n : k - 1 \in S => k \in S
  PROVE  \A k \in 0 .. n : k \in S
<1> DEFINE T == {m \in Nat : m <= n => m \in S}
<1>1. 0 \in T
  OBVIOUS
<1>2. ASSUME NEW m \in T \cap Nat PROVE m + 1 \in T
  <2>1. CASE m + 1 <= n
    <3>1. m + 1 \in 1 .. n /\ (m + 1) - 1 = m /\ m \in S
      BY <1>2, <2>1
    <3>2. m + 1 \in S
      BY <3>1
    <3>3. QED
      BY <3>2
  <2>2. QED
    BY <2>1
<1> HIDE DEF T
<1>3. Nat \subseteq T
  BY <1>1, <1>2, NatSetInduction
<1>4. QED
  BY <1>3 DEF T

\* A function on 1 .. n is a sequence of n.
LEMMA FunctionIsSeq ==
  ASSUME NEW n \in Nat, NEW S, NEW w \in [1 .. n -> S]
  PROVE  w \in Seq(S) /\ Len(w) = n
OBVIOUS

----------------------------------------------------------------------------
(* The validation of a request.                                             *)

\* What is said of a request but for its headers.
OtherErrors ==
  {"MalformedRequest", "IncompleteHeaders", "HeaderTooLarge", "MethodTooLong", "InvalidMethod",
   "UrlTooLong", "InvalidUrl", "DoubleContentLength", "NonStandardEncoding", "InvalidChunkSize",
   "SlowlorisDetected", "TooManyHeaders"}

\* What is said of a request, and the results that say it.
Kinds == HeaderErrors \cup OtherErrors
Entries == Kinds \X {"Warn", "Reject"}
Results ==
  [passed : BOOLEAN, severity : {"Pass", "Warn", "Reject"}, errors : Seq(Entries),
   content_length : SUBSET Nat, is_chunked : BOOLEAN]

\* The refusals that are for a header.
Refusals(r) == {e \in ToSet(r.errors) : e[2] = "Reject" /\ e[1] \in HeaderErrors}

\* s may come of r: what r has refused, s has.
Extends(r, s) ==
  s \in Results /\ (s.passed => r.passed) /\ Refusals(r) \subseteq Refusals(s)

\* And says the same of the body's chunks.
Follows(r, s) == Extends(r, s) /\ s.is_chunked = r.is_chunked

\* s comes of r and says the same of the headers.
Keeps(r, s) ==
  Follows(r, s) /\ s.content_length = r.content_length /\ Refusals(s) = Refusals(r)

\* A result that is passed on as it is.
LEMMA KeptAsItIs == \A r \in Results : Keeps(r, r)
BY DEF Keeps, Follows, Extends

\* One result after the other.
LEMMA KeptInTurn ==
  ASSUME NEW r, NEW s, NEW t
  PROVE  /\ Extends(r, s) /\ Extends(s, t) => Extends(r, t)
         /\ Follows(r, s) /\ Follows(s, t) => Follows(r, t)
         /\ Keeps(r, s) /\ Keeps(s, t) => Keeps(r, t)
BY DEF Keeps, Follows, Extends

\* One entry more.
LEMMA EntryAdded ==
  ASSUME NEW r \in Results, NEW kind \in Kinds, NEW severity \in {"Warn", "Reject"}
  PROVE  /\ AddError(r, kind, severity) \in Results
         /\ AddError(r, kind, severity).passed = (r.passed /\ severity # "Reject")
         /\ AddError(r, kind, severity).content_length = r.content_length
         /\ AddError(r, kind, severity).is_chunked = r.is_chunked
         /\ AddError(r, kind, severity).errors = Append(r.errors, <<kind, severity>>)
<1> DEFINE s == AddError(r, kind, severity)
           p == r.passed /\ severity # "Reject"
           v == IF r.severity = "Reject" THEN "Reject" ELSE severity
           e == Append(r.errors, <<kind, severity>>)
<1>1. s = [r EXCEPT !.passed = p, !.severity = v, !.errors = e]
  BY Zenon DEF AddError
<1>2. p \in BOOLEAN
  OBVIOUS
<1>3. v \in {"Pass", "Warn", "Reject"}
  OBVIOUS
<1>4. e \in Seq(Entries)
  BY DEF Results, Entries
<1> HIDE DEF p, v, e
<1>5. /\ s \in Results /\ s.passed = p /\ s.content_length = r.content_length /\ s.errors = e
      /\ s.is_chunked = r.is_chunked
  BY <1>1, <1>2, <1>3, <1>4, Zenon DEF Results
<1>6. QED
  BY <1>5 DEF p, e

\* The entries are those before and the new one.
LEMMA AppendedTo ==
  ASSUME NEW S, NEW w \in Seq(S), NEW x \in S
  PROVE  ToSet(Append(w, x)) = ToSet(w) \cup {x}
<1>1. DOMAIN w = 1 .. Len(w) /\ DOMAIN Append(w, x) = 1 .. Len(w) + 1
  OBVIOUS
<1>2. \A i \in 1 .. Len(w) : Append(w, x)[i] = w[i]
  OBVIOUS
<1>3. Append(w, x)[Len(w) + 1] = x
  OBVIOUS
<1>4. Len(w) \in Nat
  OBVIOUS
<1> DEFINE y == Append(w, x)
           n == Len(w)
<1> HIDE DEF y, n
<1>5. {y[i] : i \in 1 .. n + 1} = {w[i] : i \in 1 .. n} \cup {x}
  BY <1>2, <1>3, <1>4 DEF y, n
<1>6. QED
  BY <1>1, <1>5 DEF ToSet, y, n

\* A refusal stays, and is for a header only if its kind is.
LEMMA Refused ==
  \A r \in Results : \A kind \in Kinds :
    /\ Follows(r, AddError(r, kind, "Reject"))
    /\ ~AddError(r, kind, "Reject").passed
    /\ AddError(r, kind, "Reject").content_length = r.content_length
    /\ kind \in OtherErrors => Keeps(r, AddError(r, kind, "Reject"))
    /\ kind \in HeaderErrors => Refusals(AddError(r, kind, "Reject")) # {}
<1> SUFFICES ASSUME NEW r \in Results, NEW kind \in Kinds
             PROVE  /\ Follows(r, AddError(r, kind, "Reject"))
                    /\ ~AddError(r, kind, "Reject").passed
                    /\ AddError(r, kind, "Reject").content_length = r.content_length
                    /\ kind \in OtherErrors => Keeps(r, AddError(r, kind, "Reject"))
                    /\ kind \in HeaderErrors => Refusals(AddError(r, kind, "Reject")) # {}
  OBVIOUS
<1> DEFINE s == AddError(r, kind, "Reject")
<1>1. /\ s \in Results /\ s.passed = (r.passed /\ "Reject" # "Reject")
      /\ s.content_length = r.content_length /\ s.is_chunked = r.is_chunked
      /\ s.errors = Append(r.errors, <<kind, "Reject">>)
  BY EntryAdded
<1> HIDE DEF s
<1>2. ~s.passed
  BY <1>1
<1>3. ToSet(s.errors) = ToSet(r.errors) \cup {<<kind, "Reject">>}
  <2>1. r.errors \in Seq(Entries) /\ <<kind, "Reject">> \in Entries
    BY DEF Results, Entries
  <2>2. QED
    BY <1>1, <2>1, AppendedTo
<1>4. kind \in OtherErrors => Refusals(s) = Refusals(r)
  <2>1. kind \in OtherErrors => kind \notin HeaderErrors
    BY DEF OtherErrors, HeaderErrors
  <2>2. QED
    BY <1>3, <2>1 DEF Refusals
<1>5. Refusals(r) \subseteq Refusals(s) /\ (kind \in HeaderErrors => Refusals(s) # {})
  <2>1. Refusals(r) \subseteq Refusals(s)
    BY <1>3 DEF Refusals
  <2>2. ASSUME kind \in HeaderErrors PROVE <<kind, "Reject">> \in Refusals(s)
    BY <1>3, <2>2 DEF Refusals
  <2>3. QED
    BY <2>1, <2>2
<1>6. QED
  BY <1>1, <1>2, <1>4, <1>5 DEF s, Follows, Extends, Keeps

\* A warning says nothing of the headers.
LEMMA Warned ==
  \A r \in Results : \A kind \in Kinds : Keeps(r, AddError(r, kind, "Warn"))
<1> SUFFICES ASSUME NEW r \in Results, NEW kind \in Kinds PROVE Keeps(r, AddError(r, kind, "Warn"))
  OBVIOUS
<1> DEFINE s == AddError(r, kind, "Warn")
<1>1. /\ s \in Results /\ s.passed = (r.passed /\ "Warn" # "Reject")
      /\ s.content_length = r.content_length /\ s.is_chunked = r.is_chunked
      /\ s.errors = Append(r.errors, <<kind, "Warn">>)
  BY EntryAdded
<1> HIDE DEF s
<1>2. s.passed => r.passed
  BY <1>1
<1>3. ToSet(s.errors) = ToSet(r.errors) \cup {<<kind, "Warn">>}
  <2>1. r.errors \in Seq(Entries) /\ <<kind, "Warn">> \in Entries
    BY DEF Results, Entries
  <2>2. QED
    BY <1>1, <2>1, AppendedTo
<1>4. Refusals(s) = Refusals(r)
  BY <1>3 DEF Refusals
<1>5. QED
  BY <1>1, <1>2, <1>4 DEF s, Follows, Extends, Keeps

\* A result that says nothing yet.
LEMMA NothingSaidYet ==
  /\ NewResult \in Results /\ NewResult.content_length = {} /\ ~NewResult.is_chunked
  /\ Refusals(NewResult) = {}
<1>1. /\ NewResult.errors = <<>> /\ <<>> \in Seq(Entries) /\ NewResult.content_length = {}
      /\ NewResult.is_chunked = FALSE
  BY DEF NewResult
<1>2. NewResult \in Results
  BY <1>1 DEF NewResult, Results
<1>3. ToSet(<<>>) = {}
  BY DEF ToSet
<1>4. QED
  BY <1>1, <1>2, <1>3 DEF Refusals

\* A header is fit to be read on: its name and its value are.
Fit(header) == IsValidHeaderName(header.name) /\ IsValidHeaderValue(header.value)

\* What a header's name and value do to the result.
LEMMA HeaderValidated ==
  \A r \in Results : \A header :
    /\ Follows(r, ValidateHeader(r, header))
    /\ ValidateHeader(r, header).content_length = r.content_length
    /\ Fit(header) => ValidateHeader(r, header) = r
    /\ ~Fit(header) => ~ValidateHeader(r, header).passed
<1> SUFFICES ASSUME NEW r \in Results, NEW header
             PROVE  /\ Follows(r, ValidateHeader(r, header))
                    /\ ValidateHeader(r, header).content_length = r.content_length
                    /\ Fit(header) => ValidateHeader(r, header) = r
                    /\ ~Fit(header) => ~ValidateHeader(r, header).passed
  OBVIOUS
<1> DEFINE s == IF IsValidHeaderName(header.name) THEN r ELSE AddError(r, "InvalidHeaderName", "Reject")
           t == IF IsValidHeaderValue(header.value) THEN s ELSE AddError(s, "InvalidHeaderValue", "Reject")
<1>1. ValidateHeader(r, header) = t
  BY Zenon DEF ValidateHeader, RejectIf
<1>2. Follows(r, s) /\ s.content_length = r.content_length /\ (~IsValidHeaderName(header.name) => ~s.passed)
  BY Refused, KeptAsItIs DEF Keeps, Kinds, HeaderErrors
<1>3. s \in Results
  BY <1>2 DEF Follows, Extends
<1>4. /\ Follows(s, t) /\ t.content_length = s.content_length
      /\ ~IsValidHeaderValue(header.value) => ~t.passed
  <2> HIDE DEF s
  <2>1. QED
    BY <1>3, Refused, KeptAsItIs DEF Keeps, Kinds, HeaderErrors
<1>5. Fit(header) => t = r
  BY DEF Fit
<1> HIDE DEF s, t
<1>6. Follows(r, t)
  BY <1>2, <1>4, KeptInTurn
<1>7. ~Fit(header) => ~t.passed
  BY <1>2, <1>4 DEF Fit, Follows, Extends
<1>8. QED
  BY <1>1, <1>2, <1>4, <1>5, <1>6, <1>7

\* What one token of an encoding does to the result: an empty one is refused, chunked
\* is noted.
TokenRead(r, s, token) ==
  /\ Extends(r, s) /\ s.content_length = r.content_length
  /\ s.is_chunked <=> r.is_chunked \/ token = "chunked"
  /\ IF token = "" THEN Refusals(s) # {} ELSE Refusals(s) = Refusals(r)

LEMMA EncodingRead ==
  \A r \in Results : \A token : TokenRead(r, ReadEncoding(r, token), token)
<1> SUFFICES ASSUME NEW r \in Results, NEW token
             PROVE  TokenRead(r, ReadEncoding(r, token), token)
  OBVIOUS
<1> DEFINE t == ReadEncoding(r, token)
<1>1. CASE token = "chunked"
  <2> DEFINE s == [r EXCEPT !.is_chunked = TRUE]
  <2>1. /\ s \in Results /\ s.passed = r.passed /\ s.content_length = r.content_length
        /\ s.errors = r.errors /\ s.is_chunked = TRUE
    BY Zenon DEF Results
  <2>2. t = s
    BY <1>1 DEF ReadEncoding
  <2> HIDE DEF s, t
  <2>3. Extends(r, t) /\ Refusals(t) = Refusals(r)
    BY <2>1, <2>2 DEF Extends, Refusals
  <2>4. QED
    BY <1>1, <2>1, <2>2, <2>3 DEF TokenRead, t
<1>2. CASE token = ""
  <2>1. t = AddError(r, "TransferEncodingInvalid", "Reject")
    BY <1>2 DEF ReadEncoding
  <2>2. /\ Follows(r, t) /\ t.content_length = r.content_length
        /\ Refusals(t) # {}
    BY <2>1, Refused DEF Kinds, HeaderErrors
  <2> HIDE DEF t
  <2>3. QED
    BY <1>2, <2>2 DEF TokenRead, Follows, t
<1>3. CASE token \notin {"chunked", ""}
  <2>1. t \in {r, AddError(r, "NonStandardEncoding", "Warn")}
    BY <1>3 DEF ReadEncoding
  <2>2. Keeps(r, t)
    BY <2>1, Warned, KeptAsItIs DEF Kinds, OtherErrors
  <2> HIDE DEF t
  <2>3. QED
    BY <1>3, <2>2 DEF TokenRead, Keeps, Follows, t
<1>4. QED
  BY <1>1, <1>2, <1>3

\* A header that is not permitted is refused, and of others nothing is said.
LEMMA ForbidRead ==
  \A r \in Results : \A header :
    /\ Follows(r, Forbid(r, header)) /\ Forbid(r, header).content_length = r.content_length
    /\ IF header.name \in InvalidHeaders THEN Refusals(Forbid(r, header)) # {}
       ELSE Refusals(Forbid(r, header)) = Refusals(r)
BY Refused, KeptAsItIs DEF Keeps, Forbid, RejectIf, Kinds, HeaderErrors

\* The headers, one by one.
LEMMA HeadersTrail ==
  ASSUME NEW S, NEW base \in Results, NEW w \in Seq(S)
  PROVE  \E h \in [0 .. Len(w) -> Results] :
           /\ h[0] = base
           /\ \A k \in 1 .. Len(w) : h[k] = ValidateHeader(h[k - 1], w[k])
           /\ FoldLeft(ValidateHeader, base, w) = h[Len(w)]
<1> DEFINE n == Len(w)
           All == Results
           step == [k \in 1 .. n |-> [r \in All |-> ValidateHeader(r, w[k])]]
<1>1. n \in Nat /\ DOMAIN w = 1 .. n /\ base \in All
  OBVIOUS
<1>2. \A r \in All : \A k \in 1 .. n : ValidateHeader(r, w[k]) \in All
  BY HeaderValidated DEF Follows, Extends
<1>3. \A k \in 1 .. n : step[k] \in [All -> All]
  BY <1>2
<1> HIDE DEF step, All, n
<1>4. PICK it \in [SUBSET (1 .. n) -> All] : Unfolds(it, n, base, step)
  BY <1>1, <1>3, FoldExists
<1>5. it = [s \in SUBSET DOMAIN w |->
              IF s = {} THEN base ELSE ValidateHeader(it[s \ {Max(s)}], w[Max(s)])]
  <2>1. ASSUME NEW s \in SUBSET (1 .. n), s # {}
        PROVE  step[Max(s)][it[s \ {Max(s)}]] = ValidateHeader(it[s \ {Max(s)}], w[Max(s)])
    <3>1. Max(s) \in 1 .. n
      BY <1>1, <2>1, LargestOfUpTo
    <3>2. it[s \ {Max(s)}] \in All
      BY <1>4
    <3>3. QED
      BY <3>1, <3>2 DEF step
  <2>2. QED
    BY <1>1, <1>4, <2>1 DEF Unfolds
<1>6. PICK r : /\ r = [s \in SUBSET DOMAIN w |->
                         IF s = {} THEN base ELSE ValidateHeader(r[s \ {Max(s)}], w[Max(s)])]
               /\ FoldLeft(ValidateHeader, base, w) = r[DOMAIN w]
  BY <1>5 DEF FoldLeft, MapThenFoldSet
<1> DEFINE h == [k \in 0 .. n |-> r[1 .. k]]
<1>7. h[0] = base /\ h[n] = FoldLeft(ValidateHeader, base, w)
  BY <1>1, <1>6, InitialSegments
<1>8. ASSUME NEW k \in 1 .. n PROVE h[k] = ValidateHeader(h[k - 1], w[k])
  <2>1. h[k] = r[1 .. k] /\ h[k - 1] = r[1 .. k - 1]
    BY <1>1
  <2>2. /\ 1 .. k \in SUBSET DOMAIN w /\ 1 .. k # {}
        /\ Max(1 .. k) = k /\ (1 .. k) \ {k} = 1 .. k - 1
    BY <1>1, InitialSegments
  <2>3. r[1 .. k] = ValidateHeader(r[(1 .. k) \ {Max(1 .. k)}], w[Max(1 .. k)])
    BY <1>6, <2>2
  <2> HIDE DEF h
  <2>4. QED
    BY <2>1, <2>2, <2>3
<1> HIDE DEF h
<1>9. \A k \in 0 .. n : h[k] \in All
  <2> DEFINE Kept == {k \in 0 .. n : h[k] \in All}
  <2>1. 0 \in Kept
    BY <1>1, <1>7
  <2>2. ASSUME NEW k \in 1 .. n, k - 1 \in Kept PROVE k \in Kept
    <3>1. h[k - 1] \in All /\ k \in 0 .. n
      BY <1>1, <2>2
    <3>2. h[k] \in All
      BY <1>2, <1>8, <3>1
    <3>3. QED
      BY <3>1, <3>2
  <2> HIDE DEF Kept
  <2>3. \A k \in 0 .. n : k \in Kept
    BY <1>1, <2>1, <2>2, InductionUpTo
  <2>4. QED
    BY <2>3 DEF Kept
<1>10. h \in [0 .. n -> All]
  BY <1>9 DEF h
<1>11. QED
  BY <1>7, <1>8, <1>10 DEF n, All

\* The tokens of an encoding, one by one.
LEMMA EncodingsTrail ==
  ASSUME NEW S, NEW base \in Results, NEW w \in Seq(S)
  PROVE  \E h \in [0 .. Len(w) -> Results] :
           /\ h[0] = base
           /\ \A k \in 1 .. Len(w) : h[k] = ReadEncoding(h[k - 1], w[k])
           /\ FoldLeft(ReadEncoding, base, w) = h[Len(w)]
<1> DEFINE n == Len(w)
           All == Results
           step == [k \in 1 .. n |-> [r \in All |-> ReadEncoding(r, w[k])]]
<1>1. n \in Nat /\ DOMAIN w = 1 .. n /\ base \in All
  OBVIOUS
<1>2. \A r \in All : \A k \in 1 .. n : ReadEncoding(r, w[k]) \in All
  BY EncodingRead DEF TokenRead, Extends
<1>3. \A k \in 1 .. n : step[k] \in [All -> All]
  BY <1>2
<1> HIDE DEF step, All, n
<1>4. PICK it \in [SUBSET (1 .. n) -> All] : Unfolds(it, n, base, step)
  BY <1>1, <1>3, FoldExists
<1>5. it = [s \in SUBSET DOMAIN w |->
              IF s = {} THEN base ELSE ReadEncoding(it[s \ {Max(s)}], w[Max(s)])]
  <2>1. ASSUME NEW s \in SUBSET (1 .. n), s # {}
        PROVE  step[Max(s)][it[s \ {Max(s)}]] = ReadEncoding(it[s \ {Max(s)}], w[Max(s)])
    <3>1. Max(s) \in 1 .. n
      BY <1>1, <2>1, LargestOfUpTo
    <3>2. it[s \ {Max(s)}] \in All
      BY <1>4
    <3>3. QED
      BY <3>1, <3>2 DEF step
  <2>2. QED
    BY <1>1, <1>4, <2>1 DEF Unfolds
<1>6. PICK r : /\ r = [s \in SUBSET DOMAIN w |->
                         IF s = {} THEN base ELSE ReadEncoding(r[s \ {Max(s)}], w[Max(s)])]
               /\ FoldLeft(ReadEncoding, base, w) = r[DOMAIN w]
  BY <1>5 DEF FoldLeft, MapThenFoldSet
<1> DEFINE h == [k \in 0 .. n |-> r[1 .. k]]
<1>7. h[0] = base /\ h[n] = FoldLeft(ReadEncoding, base, w)
  BY <1>1, <1>6, InitialSegments
<1>8. ASSUME NEW k \in 1 .. n PROVE h[k] = ReadEncoding(h[k - 1], w[k])
  <2>1. h[k] = r[1 .. k] /\ h[k - 1] = r[1 .. k - 1]
    BY <1>1
  <2>2. /\ 1 .. k \in SUBSET DOMAIN w /\ 1 .. k # {}
        /\ Max(1 .. k) = k /\ (1 .. k) \ {k} = 1 .. k - 1
    BY <1>1, InitialSegments
  <2>3. r[1 .. k] = ReadEncoding(r[(1 .. k) \ {Max(1 .. k)}], w[Max(1 .. k)])
    BY <1>6, <2>2
  <2> HIDE DEF h
  <2>4. QED
    BY <2>1, <2>2, <2>3
<1> HIDE DEF h
<1>9. \A k \in 0 .. n : h[k] \in All
  <2> DEFINE Kept == {k \in 0 .. n : h[k] \in All}
  <2>1. 0 \in Kept
    BY <1>1, <1>7
  <2>2. ASSUME NEW k \in 1 .. n, k - 1 \in Kept PROVE k \in Kept
    <3>1. h[k - 1] \in All /\ k \in 0 .. n
      BY <1>1, <2>2
    <3>2. h[k] \in All
      BY <1>2, <1>8, <3>1
    <3>3. QED
      BY <3>1, <3>2
  <2> HIDE DEF Kept
  <2>3. \A k \in 0 .. n : k \in Kept
    BY <1>1, <2>1, <2>2, InductionUpTo
  <2>4. QED
    BY <2>3 DEF Kept
<1>10. h \in [0 .. n -> All]
  BY <1>9 DEF h
<1>11. QED
  BY <1>7, <1>8, <1>10 DEF n, All

\* The names of the headers, one by one.
LEMMA ForbidTrail ==
  ASSUME NEW S, NEW base \in Results, NEW w \in Seq(S)
  PROVE  \E h \in [0 .. Len(w) -> Results] :
           /\ h[0] = base
           /\ \A k \in 1 .. Len(w) : h[k] = Forbid(h[k - 1], w[k])
           /\ FoldLeft(Forbid, base, w) = h[Len(w)]
<1> DEFINE n == Len(w)
           All == Results
           step == [k \in 1 .. n |-> [r \in All |-> Forbid(r, w[k])]]
<1>1. n \in Nat /\ DOMAIN w = 1 .. n /\ base \in All
  OBVIOUS
<1>2. \A r \in All : \A k \in 1 .. n : Forbid(r, w[k]) \in All
  BY ForbidRead DEF Follows, Extends
<1>3. \A k \in 1 .. n : step[k] \in [All -> All]
  BY <1>2
<1> HIDE DEF step, All, n
<1>4. PICK it \in [SUBSET (1 .. n) -> All] : Unfolds(it, n, base, step)
  BY <1>1, <1>3, FoldExists
<1>5. it = [s \in SUBSET DOMAIN w |->
              IF s = {} THEN base ELSE Forbid(it[s \ {Max(s)}], w[Max(s)])]
  <2>1. ASSUME NEW s \in SUBSET (1 .. n), s # {}
        PROVE  step[Max(s)][it[s \ {Max(s)}]] = Forbid(it[s \ {Max(s)}], w[Max(s)])
    <3>1. Max(s) \in 1 .. n
      BY <1>1, <2>1, LargestOfUpTo
    <3>2. it[s \ {Max(s)}] \in All
      BY <1>4
    <3>3. QED
      BY <3>1, <3>2 DEF step
  <2>2. QED
    BY <1>1, <1>4, <2>1 DEF Unfolds
<1>6. PICK r : /\ r = [s \in SUBSET DOMAIN w |->
                         IF s = {} THEN base ELSE Forbid(r[s \ {Max(s)}], w[Max(s)])]
               /\ FoldLeft(Forbid, base, w) = r[DOMAIN w]
  BY <1>5 DEF FoldLeft, MapThenFoldSet
<1> DEFINE h == [k \in 0 .. n |-> r[1 .. k]]
<1>7. h[0] = base /\ h[n] = FoldLeft(Forbid, base, w)
  BY <1>1, <1>6, InitialSegments
<1>8. ASSUME NEW k \in 1 .. n PROVE h[k] = Forbid(h[k - 1], w[k])
  <2>1. h[k] = r[1 .. k] /\ h[k - 1] = r[1 .. k - 1]
    BY <1>1
  <2>2. /\ 1 .. k \in SUBSET DOMAIN w /\ 1 .. k # {}
        /\ Max(1 .. k) = k /\ (1 .. k) \ {k} = 1 .. k - 1
    BY <1>1, InitialSegments
  <2>3. r[1 .. k] = Forbid(r[(1 .. k) \ {Max(1 .. k)}], w[Max(1 .. k)])
    BY <1>6, <2>2
  <2> HIDE DEF h
  <2>4. QED
    BY <2>1, <2>2, <2>3
<1> HIDE DEF h
<1>9. \A k \in 0 .. n : h[k] \in All
  <2> DEFINE Kept == {k \in 0 .. n : h[k] \in All}
  <2>1. 0 \in Kept
    BY <1>1, <1>7
  <2>2. ASSUME NEW k \in 1 .. n, k - 1 \in Kept PROVE k \in Kept
    <3>1. h[k - 1] \in All /\ k \in 0 .. n
      BY <1>1, <2>2
    <3>2. h[k] \in All
      BY <1>2, <1>8, <3>1
    <3>3. QED
      BY <3>1, <3>2
  <2> HIDE DEF Kept
  <2>3. \A k \in 0 .. n : k \in Kept
    BY <1>1, <2>1, <2>2, InductionUpTo
  <2>4. QED
    BY <2>3 DEF Kept
<1>10. h \in [0 .. n -> All]
  BY <1>9 DEF h
<1>11. QED
  BY <1>7, <1>8, <1>10 DEF n, All


\* All the tokens of an encoding.
LEMMA EncodingsRead ==
  ASSUME NEW S, NEW base \in Results, NEW w \in Seq(S)
  PROVE  LET s == FoldLeft(ReadEncoding, base, w)
         IN  /\ Extends(base, s) /\ s.content_length = base.content_length
             /\ s.is_chunked <=> base.is_chunked \/ \E i \in DOMAIN w : w[i] = "chunked"
             /\ (\E i \in DOMAIN w : w[i] = "") => Refusals(s) # {}
             /\ (\A i \in DOMAIN w : w[i] # "") => Refusals(s) = Refusals(base)
<1> DEFINE n == Len(w)
<1>1. PICK h \in [0 .. n -> Results] :
        /\ h[0] = base
        /\ \A k \in 1 .. n : h[k] = ReadEncoding(h[k - 1], w[k])
        /\ FoldLeft(ReadEncoding, base, w) = h[n]
  BY EncodingsTrail
<1>2. n \in Nat /\ DOMAIN w = 1 .. n
  OBVIOUS
<1> HIDE DEF n
<1> DEFINE P(k) == /\ Extends(base, h[k]) /\ h[k].content_length = base.content_length
                   /\ h[k].is_chunked <=> base.is_chunked \/ \E i \in 1 .. k : w[i] = "chunked"
                   /\ (\E i \in 1 .. k : w[i] = "") => Refusals(h[k]) # {}
                   /\ (\A i \in 1 .. k : w[i] # "") => Refusals(h[k]) = Refusals(base)
           T == {k \in 0 .. n : P(k)}
<1>3. 0 \in T
  <2>1. Extends(base, base)
    BY KeptAsItIs DEF Keeps, Follows
  <2>2. 1 .. 0 = {}
    OBVIOUS
  <2>3. h[0] = base
    BY <1>1
  <2>4. Extends(base, h[0]) /\ h[0].content_length = base.content_length
    BY <2>1, <2>3
  <2>5. h[0].is_chunked <=> base.is_chunked \/ \E i \in 1 .. 0 : w[i] = "chunked"
    BY <2>2, <2>3
  <2>6. /\ (\E i \in 1 .. 0 : w[i] = "") => Refusals(h[0]) # {}
        /\ (\A i \in 1 .. 0 : w[i] # "") => Refusals(h[0]) = Refusals(base)
    BY <2>2, <2>3
  <2>7. P(0)
    BY <2>4, <2>5, <2>6, Zenon
  <2>8. 0 \in 0 .. n
    BY <1>2
  <2> HIDE DEF P
  <2>9. QED
    BY <2>7, <2>8
<1>4. ASSUME NEW k \in 1 .. n, k - 1 \in T PROVE k \in T
  <2>1. /\ k - 1 \in 0 .. n /\ k \in 0 .. n /\ k \in 1 .. k
        /\ \A i \in 1 .. k : i \in 1 .. k - 1 \/ i = k
        /\ \A i \in 1 .. k - 1 : i \in 1 .. k
    BY <1>2
  <2>2. h[k] = ReadEncoding(h[k - 1], w[k]) /\ h[k - 1] \in Results
    BY <1>1, <2>1
  <2>3. TokenRead(h[k - 1], h[k], w[k])
    BY <2>2, EncodingRead
  <2>4. P(k - 1)
    BY <1>4
  <2>5. Extends(base, h[k]) /\ h[k].content_length = base.content_length
    BY <2>3, <2>4, KeptInTurn DEF TokenRead
  <2>6. h[k].is_chunked <=> base.is_chunked \/ \E i \in 1 .. k : w[i] = "chunked"
    <3>1. (\E i \in 1 .. k : w[i] = "chunked")
            <=> w[k] = "chunked" \/ \E i \in 1 .. k - 1 : w[i] = "chunked"
      BY <2>1
    <3>2. h[k - 1].is_chunked <=> base.is_chunked \/ \E i \in 1 .. k - 1 : w[i] = "chunked"
      BY <2>4
    <3>3. h[k].is_chunked <=> h[k - 1].is_chunked \/ w[k] = "chunked"
      BY <2>3 DEF TokenRead
    <3>4. QED
      BY <3>1, <3>2, <3>3
  <2>7. ASSUME NEW i \in 1 .. k, w[i] = "" PROVE Refusals(h[k]) # {}
    <3>1. CASE i = k
      BY <2>3, <2>7, <3>1 DEF TokenRead
    <3>2. CASE i \in 1 .. k - 1
      <4>1. Refusals(h[k - 1]) # {}
        BY <2>4, <2>7, <3>2
      <4>2. QED
        BY <2>3, <4>1 DEF TokenRead, Extends
    <3>3. QED
      BY <2>1, <3>1, <3>2
  <2>8. ASSUME \A i \in 1 .. k : w[i] # "" PROVE Refusals(h[k]) = Refusals(base)
    <3>1. w[k] # "" /\ \A i \in 1 .. k - 1 : w[i] # ""
      BY <2>1, <2>8
    <3>2. QED
      BY <2>3, <2>4, <3>1 DEF TokenRead
  <2>9. P(k)
    BY <2>5, <2>6, <2>7, <2>8
  <2>10. QED
    BY <2>1, <2>9
<1> HIDE DEF T, P
<1>5. \A k \in 0 .. n : k \in T
  BY <1>2, <1>3, <1>4, InductionUpTo
<1>6. n \in T
  BY <1>2, <1>5
<1>7. QED
  BY <1>1, <1>2, <1>6 DEF T, P

\* All the names of the headers.
LEMMA NamesRead ==
  ASSUME NEW S, NEW base \in Results, NEW w \in Seq(S)
  PROVE  LET s == FoldLeft(Forbid, base, w)
         IN  /\ Follows(base, s) /\ s.content_length = base.content_length
             /\ (\E i \in DOMAIN w : w[i].name \in InvalidHeaders) => Refusals(s) # {}
             /\ (\A i \in DOMAIN w : w[i].name \notin InvalidHeaders) => Refusals(s) = Refusals(base)
<1> DEFINE n == Len(w)
<1>1. PICK h \in [0 .. n -> Results] :
        /\ h[0] = base
        /\ \A k \in 1 .. n : h[k] = Forbid(h[k - 1], w[k])
        /\ FoldLeft(Forbid, base, w) = h[n]
  BY ForbidTrail
<1>2. n \in Nat /\ DOMAIN w = 1 .. n
  OBVIOUS
<1> HIDE DEF n
<1> DEFINE P(k) == /\ Follows(base, h[k]) /\ h[k].content_length = base.content_length
                   /\ (\E i \in 1 .. k : w[i].name \in InvalidHeaders) => Refusals(h[k]) # {}
                   /\ (\A i \in 1 .. k : w[i].name \notin InvalidHeaders) =>
                        Refusals(h[k]) = Refusals(base)
           T == {k \in 0 .. n : P(k)}
<1>3. 0 \in T
  <2>1. Extends(base, base) /\ Follows(base, base)
    BY KeptAsItIs DEF Keeps, Follows
  <2>2. QED
    BY <1>1, <1>2, <2>1
<1>4. ASSUME NEW k \in 1 .. n, k - 1 \in T PROVE k \in T
  <2>1. k - 1 \in 0 .. n /\ k \in 0 .. n /\ \A i \in 1 .. k : i \in 1 .. k - 1 \/ i = k
    BY <1>2
  <2>2. h[k] = Forbid(h[k - 1], w[k]) /\ h[k - 1] \in Results
    BY <1>1, <2>1
  <2>3. /\ Follows(h[k - 1], h[k]) /\ h[k].content_length = h[k - 1].content_length
        /\ IF w[k].name \in InvalidHeaders THEN Refusals(h[k]) # {}
           ELSE Refusals(h[k]) = Refusals(h[k - 1])
    BY <2>2, ForbidRead
  <2>4. P(k - 1)
    BY <1>4
  <2>5. Follows(base, h[k]) /\ h[k].content_length = base.content_length
    BY <2>3, <2>4, KeptInTurn
  <2>6. ASSUME NEW i \in 1 .. k, w[i].name \in InvalidHeaders PROVE Refusals(h[k]) # {}
    <3>1. CASE i = k
      BY <2>3, <2>6, <3>1
    <3>2. CASE i \in 1 .. k - 1
      <4>1. Refusals(h[k - 1]) # {}
        BY <2>4, <2>6, <3>2
      <4>2. QED
        BY <2>3, <4>1 DEF Follows, Extends
    <3>3. QED
      BY <2>1, <3>1, <3>2
  <2>7. ASSUME \A i \in 1 .. k : w[i].name \notin InvalidHeaders PROVE Refusals(h[k]) = Refusals(base)
    <3>1. w[k].name \notin InvalidHeaders /\ \A i \in 1 .. k - 1 : w[i].name \notin InvalidHeaders
      BY <1>2, <2>7
    <3>2. QED
      BY <2>3, <2>4, <3>1
  <2>8. P(k)
    BY <2>5, <2>6, <2>7
  <2>9. QED
    BY <2>1, <2>8
<1> HIDE DEF T, P
<1>5. \A k \in 0 .. n : k \in T
  BY <1>2, <1>3, <1>4, InductionUpTo
<1>6. n \in T
  BY <1>2, <1>5
<1>7. QED
  BY <1>1, <1>2, <1>6 DEF T, P

\* All the names and values of the headers: nothing is said of those that are fit.
LEMMA HeadersValidated ==
  ASSUME NEW S, NEW base \in Results, NEW w \in Seq(S)
  PROVE  /\ Follows(base, FoldLeft(ValidateHeader, base, w))
         /\ FoldLeft(ValidateHeader, base, w).content_length = base.content_length
         /\ (\A i \in DOMAIN w : Fit(w[i])) => FoldLeft(ValidateHeader, base, w) = base
<1> DEFINE n == Len(w)
<1>1. PICK h \in [0 .. n -> Results] :
        /\ h[0] = base
        /\ \A k \in 1 .. n : h[k] = ValidateHeader(h[k - 1], w[k])
        /\ FoldLeft(ValidateHeader, base, w) = h[n]
  BY HeadersTrail
<1>2. n \in Nat /\ DOMAIN w = 1 .. n
  OBVIOUS
<1> HIDE DEF n
<1> DEFINE P(k) == /\ Follows(base, h[k]) /\ h[k].content_length = base.content_length
                   /\ (\A i \in 1 .. n : Fit(w[i])) => h[k] = base
           T == {k \in 0 .. n : P(k)}
<1>3. 0 \in T
  <2>1. Follows(base, base)
    BY KeptAsItIs DEF Keeps
  <2>2. QED
    BY <1>1, <1>2, <2>1
<1>4. ASSUME NEW k \in 1 .. n, k - 1 \in T PROVE k \in T
  <2>1. k - 1 \in 0 .. n /\ k \in 0 .. n
    BY <1>2
  <2>2. h[k] = ValidateHeader(h[k - 1], w[k]) /\ h[k - 1] \in Results
    BY <1>1, <2>1
  <2>3. /\ Follows(h[k - 1], h[k]) /\ h[k].content_length = h[k - 1].content_length
        /\ Fit(w[k]) => h[k] = h[k - 1]
    BY <2>2, HeaderValidated
  <2>4. P(k - 1)
    BY <1>4
  <2>5. Follows(base, h[k])
    BY <2>3, <2>4, KeptInTurn
  <2>6. P(k)
    BY <2>3, <2>4, <2>5
  <2>7. QED
    BY <2>1, <2>6
<1> HIDE DEF T
<1>5. \A k \in 0 .. n : k \in T
  BY <1>2, <1>3, <1>4, InductionUpTo
<1>6. n \in T
  BY <1>2, <1>5
<1>7. QED
  BY <1>1, <1>2, <1>6 DEF T

\* A value that is a length.
IsLength(value) == value # Unreadable /\ Text(value) \in DOMAIN Number

\* What a length does to the result.
Lengthened(r, value) == [r EXCEPT !.content_length = {Number[Text(value)]}]

\* It is noted, and nothing else is said.
LEMMA LengthNoted ==
  ASSUME NEW r \in Results, NEW value, IsLength(value)
  PROVE  /\ Follows(r, Lengthened(r, value))
         /\ Refusals(Lengthened(r, value)) = Refusals(r)
         /\ Lengthened(r, value).content_length = {Number[Text(value)]}
<1> DEFINE c == {Number[Text(value)]}
           s == [r EXCEPT !.content_length = c]
<1>1. c \in SUBSET Nat
  BY DEF IsLength, Number
<1> HIDE DEF c
<1>2. /\ s \in Results /\ s.passed = r.passed /\ s.content_length = c /\ s.errors = r.errors
      /\ s.is_chunked = r.is_chunked
  BY <1>1, Zenon DEF Results
<1>3. Lengthened(r, value) = s
  BY DEF Lengthened, c
<1> HIDE DEF s
<1>4. Follows(r, s) /\ Refusals(s) = Refusals(r)
  BY <1>2 DEF Follows, Extends, Refusals
<1>5. QED
  BY <1>2, <1>3, <1>4 DEF c

\* A value is read: as a length, or as an error.
LEMMA LengthRead ==
  ASSUME NEW r \in Results, NEW value
  PROVE  /\ Follows(r, ReadLength(r, value))
         /\ IsLength(value) => ReadLength(r, value) = Lengthened(r, value)
         /\ value = Unreadable => /\ Refusals(ReadLength(r, value)) # {}
                                  /\ ReadLength(r, value).content_length = r.content_length
<1>1. IsLength(value) => ReadLength(r, value) = Lengthened(r, value)
  BY DEF ReadLength, IsLength, Lengthened
<1>2. CASE IsLength(value)
  <2>1. value # Unreadable
    BY <1>2 DEF IsLength
  <2>2. Follows(r, Lengthened(r, value))
    BY <1>2, LengthNoted
  <2>3. QED
    BY <1>1, <1>2, <2>1, <2>2
<1>3. CASE ~IsLength(value)
  <2>1. ReadLength(r, value) \in {AddError(r, "ContentLengthMismatch", "Reject"),
                                  AddError(r, "ContentLengthMismatch", "Warn")}
    BY <1>3 DEF ReadLength, IsLength
  <2>2. Follows(r, AddError(r, "ContentLengthMismatch", "Reject"))
    BY Refused DEF Kinds, HeaderErrors
  <2>3. Follows(r, AddError(r, "ContentLengthMismatch", "Warn"))
    BY Warned DEF Kinds, HeaderErrors, Keeps
  <2>4. value = Unreadable => /\ Refusals(ReadLength(r, value)) # {}
                              /\ ReadLength(r, value).content_length = r.content_length
    BY Refused DEF ReadLength, Kinds, HeaderErrors
  <2>5. QED
    BY <1>1, <1>3, <2>1, <2>2, <2>3, <2>4
<1>4. value = Unreadable => ~IsLength(value)
  BY DEF IsLength
<1>5. QED
  BY <1>2, <1>3, <1>4

\* Lengths that are not all the same are refused.
LEMMA LengthsValidated ==
  ASSUME NEW r \in Results, NEW headers
  PROVE  /\ Follows(r, ValidateContentLength(r, headers))
         /\ ValidateContentLength(r, headers).passed /\ Has(headers, "content-length")
              => AllSame(headers, "content-length")
<1> DEFINE s == IF Cardinality(Positions(headers, "content-length")) > 1
                  THEN AddError(r, "DoubleContentLength", "Warn") ELSE r
           value == FirstValue(headers, "content-length")
           t == ReadLength(s, value)
           u == AddError(r, "ConflictingContentLength", "Reject")
<1>1. ValidateContentLength(r, headers) =
        IF ~Has(headers, "content-length") THEN r
        ELSE IF ~AllSame(headers, "content-length") THEN u ELSE t
  BY Zenon DEF ValidateContentLength, WarnIf
<1>2. Follows(r, r)
  BY KeptAsItIs DEF Keeps
<1>3. Follows(r, u) /\ ~u.passed
  BY Refused DEF Kinds, HeaderErrors
<1>4. Follows(r, s)
  BY <1>2, Warned DEF Kinds, OtherErrors, Keeps
<1> HIDE DEF s, value
<1>5. s \in Results
  BY <1>4 DEF Follows, Extends
<1>6. Follows(s, t)
  BY <1>5, LengthRead
<1> HIDE DEF t, u
<1>7. Follows(r, t)
  BY <1>4, <1>6, KeptInTurn
<1>8. QED
  BY <1>1, <1>2, <1>3, <1>7

\* One length alone is read.
LEMMA LengthAlone ==
  ASSUME NEW r \in Results, NEW S, NEW headers \in Seq(S), NEW i, Positions(headers, "content-length") = {i}
  PROVE  ValidateContentLength(r, headers) = ReadLength(r, headers[i].value)
<1> DEFINE name == "content-length"
           value == FirstValue(headers, name)
<1>1. Min({i}) = i
  <2>1. i \in DOMAIN headers
    BY DEF Positions
  <2>2. Positions(headers, name) \in SUBSET (1 .. Len(headers)) /\ Len(headers) \in Nat
    BY DEF Positions
  <2>3. Min({i}) \in {i}
    BY <2>2, LeastFromOne
  <2>4. QED
    BY <2>3
<1>2. value = headers[i].value
  BY <1>1 DEF FirstValue
<1>3. Has(headers, name) /\ AllSame(headers, name)
  BY <1>2 DEF Has, AllSame
<1>4. Cardinality(Positions(headers, name)) = 1
  BY FS_Singleton
<1>5. ValidateContentLength(r, headers) = ReadLength(r, value)
  BY <1>3, <1>4 DEF ValidateContentLength, WarnIf
<1>6. QED
  BY <1>2, <1>5

\* An encoding beside a length is refused.  By itself it is refused where a token is
\* empty or the value cannot be read, and notes that the body is chunked.
LEMMA EncodingValidated ==
  ASSUME NEW r \in Results, NEW headers,
         headers \in Seq([name : STRING, value : Seq(STRING) \ {<<>>}])
  PROVE  LET s == ValidateTransferEncoding(r, headers)
         IN  /\ Extends(r, s)
             /\ s.passed => ~Has(headers, "content-length") \/ ~Has(headers, "transfer-encoding")
             /\ ~Has(headers, "content-length") \/ ~Has(headers, "transfer-encoding") =>
                  /\ s.content_length = r.content_length
                  /\ s.is_chunked <=> r.is_chunked \/ "chunked" \in Encodings(headers)
                  /\ EncodingMissed(headers) => Refusals(s) # {}
                  /\ ~EncodingMissed(headers) => Refusals(s) = Refusals(r)
<1> DEFINE tokens == FirstValue(headers, "transfer-encoding")
           clash == IF Has(headers, "content-length")
                      THEN AddError(r, "TransferEncodingWithContentLength", "Reject") ELSE r
           inside == Len(tokens) > 1 /\ (\E i \in DOMAIN tokens : tokens[i] = "chunked")
                       /\ Last(tokens) # "chunked"
           read == FoldLeft(ReadEncoding, clash, tokens)
           warned == IF inside THEN AddError(read, "InvalidChunkSize", "Warn") ELSE read
           unread == AddError(r, "TransferEncodingInvalid", "Reject")
           s == ValidateTransferEncoding(r, headers)
<1>1. s = IF ~Has(headers, "transfer-encoding") THEN r
          ELSE IF tokens = Unreadable THEN unread ELSE warned
  BY Zenon DEF ValidateTransferEncoding, RejectIf, WarnIf
<1>2. Keeps(r, r)
  BY KeptAsItIs
<1>3. CASE ~Has(headers, "transfer-encoding")
  <2>1. s = r /\ Encodings(headers) = {} /\ ~EncodingMissed(headers)
    BY <1>1, <1>3 DEF Encodings, EncodingMissed
  <2> HIDE DEF s
  <2>2. QED
    BY <1>2, <1>3, <2>1 DEF Keeps, Follows, s
<1>4. ASSUME Has(headers, "transfer-encoding")
      PROVE  tokens \in Seq(STRING) /\ Encodings(headers) = ToSet(tokens)
  <2> DEFINE p == Positions(headers, "transfer-encoding")
  <2>1. p \in SUBSET (1 .. Len(headers)) /\ p # {} /\ Len(headers) \in Nat
    BY <1>4 DEF Has, Positions
  <2>2. Min(p) \in p
    BY <2>1, LeastFromOne
  <2>3. Min(p) \in DOMAIN headers
    BY <2>2 DEF Positions
  <2>4. headers[Min(p)] \in [name : STRING, value : Seq(STRING) \ {<<>>}]
    <3> DEFINE S == [name : STRING, value : Seq(STRING) \ {<<>>}]
    <3>1. headers \in Seq(S)
      OBVIOUS
    <3> HIDE DEF S, p
    <3>2. headers[Min(p)] \in S
      BY ONLY <2>3, <3>1
    <3>3. QED
      BY <3>2 DEF S
  <2>5. QED
    BY <1>4, <2>4 DEF FirstValue, Encodings
<1> HIDE DEF tokens, clash, s
<1>5. /\ Extends(r, clash) /\ (Has(headers, "content-length") => ~clash.passed)
      /\ ~Has(headers, "content-length") => clash = r
  BY Refused, KeptAsItIs DEF Kinds, HeaderErrors, Keeps, Follows, clash
<1>6. clash \in Results
  BY <1>5 DEF Extends
<1>7. CASE Has(headers, "transfer-encoding") /\ tokens = Unreadable
  <2>1. s = unread
    BY <1>1, <1>7
  <2>2. /\ Follows(r, unread) /\ ~unread.passed /\ unread.content_length = r.content_length
        /\ Refusals(unread) # {}
    BY Refused DEF Kinds, HeaderErrors
  <2>3. EncodingMissed(headers)
    BY <1>7 DEF EncodingMissed, tokens
  <2>4. "chunked" \notin Encodings(headers)
    BY <1>4, <1>7 DEF Unreadable, ToSet
  <2> HIDE DEF unread
  <2>5. QED
    BY <2>1, <2>2, <2>3, <2>4 DEF Follows, s
<1>8. CASE Has(headers, "transfer-encoding") /\ tokens # Unreadable
  <2>1. s = warned
    BY <1>1, <1>8
  <2>2. tokens \in Seq(STRING) /\ Encodings(headers) = ToSet(tokens)
    BY <1>4, <1>8
  <2>3. /\ Extends(clash, read) /\ read.content_length = clash.content_length
        /\ read.is_chunked <=> clash.is_chunked \/ \E i \in DOMAIN tokens : tokens[i] = "chunked"
        /\ (\E i \in DOMAIN tokens : tokens[i] = "") => Refusals(read) # {}
        /\ (\A i \in DOMAIN tokens : tokens[i] # "") => Refusals(read) = Refusals(clash)
    BY <1>6, <2>2, EncodingsRead
  <2> HIDE DEF read, inside
  <2>4. read \in Results
    BY <2>3 DEF Extends
  <2>5. Keeps(read, warned)
    BY <2>4, Warned, KeptAsItIs DEF Kinds, OtherErrors
  <2> HIDE DEF warned
  <2>6. /\ Extends(read, warned) /\ warned.is_chunked = read.is_chunked
        /\ warned.content_length = read.content_length /\ Refusals(warned) = Refusals(read)
    BY <2>5 DEF Keeps, Follows
  <2>7. Extends(clash, warned) /\ Extends(r, warned)
    BY <1>5, <2>3, <2>6, KeptInTurn
  <2>8. Has(headers, "content-length") => ~warned.passed
    BY <1>5, <2>7 DEF Extends
  <2>9. \A x : x \in Encodings(headers) <=> \E i \in DOMAIN tokens : tokens[i] = x
    BY <2>2 DEF ToSet
  <2>10. EncodingMissed(headers) <=> \E i \in DOMAIN tokens : tokens[i] = ""
    BY <1>8, <2>9 DEF EncodingMissed, tokens
  <2>11. ASSUME ~Has(headers, "content-length")
         PROVE  /\ warned.content_length = r.content_length
                /\ warned.is_chunked <=> r.is_chunked \/ "chunked" \in Encodings(headers)
                /\ EncodingMissed(headers) => Refusals(warned) # {}
                /\ ~EncodingMissed(headers) => Refusals(warned) = Refusals(r)
    <3>1. clash = r
      BY <1>5, <2>11
    <3>2. QED
      BY <2>3, <2>6, <2>9, <2>10, <3>1
  <2>12. QED
    BY <1>8, <2>1, <2>7, <2>8, <2>11 DEF s
<1>9. QED
  BY <1>3, <1>7, <1>8

\* The headers httparse makes.
Headers == Seq([name : STRING, value : Seq(STRING) \ {<<>>}])

\* The request line says nothing of the headers.
LEMMA LineKept ==
  ASSUME NEW r \in Results, NEW method, NEW path
  PROVE  Keeps(r, ValidatePath(ValidateMethod(r, method), path))
<1> DEFINE s == ValidateMethod(r, method)
<1>1. Keeps(r, s)
  <2>1. s \in {AddError(r, "MethodTooLong", "Reject"), AddError(r, "InvalidMethod", "Reject"),
               AddError(r, "InvalidMethod", "Warn"), r}
    BY DEF ValidateMethod, WarnIf
  <2>2. Keeps(r, AddError(r, "MethodTooLong", "Reject")) /\ Keeps(r, AddError(r, "InvalidMethod", "Reject"))
    BY Refused DEF Kinds, OtherErrors
  <2>3. Keeps(r, AddError(r, "InvalidMethod", "Warn")) /\ Keeps(r, r)
    BY Warned, KeptAsItIs DEF Kinds, OtherErrors
  <2>4. QED
    BY <2>1, <2>2, <2>3
<1> HIDE DEF s
<1>2. s \in Results
  BY <1>1 DEF Keeps, Follows, Extends
<1> DEFINE a == IF "NUL" \in path.marks THEN AddError(s, "InvalidUrl", "Reject") ELSE s
           b == IF "CRLF" \in path.marks THEN AddError(a, "InvalidUrl", "Reject") ELSE a
           c == IF "//" \in path.marks THEN AddError(b, "InvalidUrl", "Warn") ELSE b
           t == ValidatePath(s, path)
<1>3. Keeps(s, a)
  BY <1>2, Refused, KeptAsItIs DEF Kinds, OtherErrors
<1>4. Keeps(a, b)
  <2>1. a \in Results
    BY <1>3 DEF Keeps, Follows, Extends
  <2> HIDE DEF a
  <2>2. QED
    BY <2>1, Refused, KeptAsItIs DEF Kinds, OtherErrors
<1>5. Keeps(b, c)
  <2>1. b \in Results
    BY <1>4 DEF Keeps, Follows, Extends
  <2> HIDE DEF b
  <2>2. QED
    BY <2>1, Warned, KeptAsItIs DEF Kinds, OtherErrors
<1>6. t \in {AddError(s, "UrlTooLong", "Reject"), AddError(s, "InvalidUrl", "Reject"), c}
  BY DEF ValidatePath, WarnIf, RejectIf
<1>7. Keeps(s, AddError(s, "UrlTooLong", "Reject")) /\ Keeps(s, AddError(s, "InvalidUrl", "Reject"))
  BY <1>2, Refused DEF Kinds, OtherErrors
<1> HIDE DEF a, b, c, t
<1>8. Keeps(s, c)
  <2>1. Keeps(s, b)
    BY <1>3, <1>4, KeptInTurn
  <2>2. QED
    BY <1>5, <2>1, KeptInTurn
<1>9. Keeps(s, t)
  BY <1>6, <1>7, <1>8
<1>10. QED
  BY <1>1, <1>9, KeptInTurn DEF s, t

\* A host is refused where it is missing or bad, and of others nothing is said.
LEMMA HostValidated ==
  ASSUME NEW r \in Results, NEW request
  PROVE  LET t == ValidateHost(r, request)
         IN  /\ Follows(r, t) /\ t.content_length = r.content_length
             /\ HostMissed(request) => Refusals(t) # {}
             /\ ~HostMissed(request) => Refusals(t) = Refusals(r)
<1> DEFINE missing == ~Has(request.headers, "host") /\ request.version = 1
           bad == Has(request.headers, "host") /\ FirstValue(request.headers, "host") \in {<<"">>, <<"too long">>}
           s == IF missing THEN AddError(r, "HostHeaderMissing", "Reject") ELSE r
           t == IF bad THEN AddError(s, "InvalidHost", "Reject") ELSE s
<1>1. ValidateHost(r, request) = t
  BY Zenon DEF ValidateHost, RejectIf
<1>2. HostMissed(request) <=> missing \/ bad
  BY DEF HostMissed
<1> HIDE DEF missing, bad
<1>3. /\ Follows(r, s) /\ s.content_length = r.content_length
      /\ IF missing THEN Refusals(s) # {} ELSE Refusals(s) = Refusals(r)
  BY Refused, KeptAsItIs DEF Keeps, Kinds, HeaderErrors
<1>4. s \in Results
  BY <1>3 DEF Follows, Extends
<1> HIDE DEF s
<1>5. /\ Follows(s, t) /\ t.content_length = s.content_length
      /\ IF bad THEN Refusals(t) # {} ELSE Refusals(t) = Refusals(s)
  BY <1>4, Refused, KeptAsItIs DEF Keeps, Kinds, HeaderErrors
<1> HIDE DEF t
<1>6. Follows(r, t) /\ t.content_length = r.content_length
  BY <1>3, <1>5, KeptInTurn
<1>7. QED
  BY <1>1, <1>2, <1>3, <1>5, <1>6

\* Of the signs of a slow attack only a forbidden name is a refusal.
LEMMA SlowValidated ==
  ASSUME NEW r \in Results, NEW request, request.headers \in Headers
  PROVE  LET u == DetectSlowAttacks(r, request)
             forbidden == \E h \in ToSet(request.headers) : h.name \in InvalidHeaders
         IN  /\ Follows(r, u) /\ u.content_length = r.content_length
             /\ forbidden => Refusals(u) # {}
             /\ ~forbidden => Refusals(u) = Refusals(r)
<1> DEFINE long == request.method \in {"GET", "HEAD"} /\ request.path.length \in {"over 1500", "over 2048"}
           s == FoldLeft(Forbid, r, request.headers)
           t == IF long THEN AddError(s, "SlowlorisDetected", "Warn") ELSE s
           u == IF Len(request.headers) > HighHeaderCount THEN AddError(t, "SlowlorisDetected", "Warn") ELSE t
           forbidden == \E h \in ToSet(request.headers) : h.name \in InvalidHeaders
<1>1. DetectSlowAttacks(r, request) = u
  BY Zenon DEF DetectSlowAttacks, WarnIf
<1>2. forbidden <=> \E i \in DOMAIN request.headers : request.headers[i].name \in InvalidHeaders
  BY DEF ToSet
<1> HIDE DEF forbidden
<1>3. /\ Follows(r, s) /\ s.content_length = r.content_length
      /\ forbidden => Refusals(s) # {}
      /\ ~forbidden => Refusals(s) = Refusals(r)
  BY <1>2, NamesRead DEF Headers
<1> HIDE DEF long, s
<1>4. s \in Results
  BY <1>3 DEF Follows, Extends
<1>5. Keeps(s, t)
  BY <1>4, Warned, KeptAsItIs DEF Kinds, OtherErrors
<1>6. t \in Results
  BY <1>5 DEF Keeps, Follows, Extends
<1> HIDE DEF t
<1>7. Keeps(t, u)
  BY <1>6, Warned, KeptAsItIs DEF Kinds, OtherErrors
<1> HIDE DEF u
<1>8. Keeps(s, u)
  BY <1>5, <1>7, KeptInTurn
<1>9. Follows(r, u) /\ u.content_length = r.content_length /\ Refusals(u) = Refusals(s)
  BY <1>3, <1>8, KeptInTurn DEF Keeps
<1>10. QED
  BY <1>1, <1>3, <1>9 DEF forbidden

\* A parsed request that passes tells the end of its body in one way.
LEMMA ParsedFraming ==
  ASSUME NEW request, request.headers \in Headers, ValidateParsedRequest(request).passed
  PROVE  /\ ~Has(request.headers, "content-length") \/ ~Has(request.headers, "transfer-encoding")
         /\ Has(request.headers, "content-length") => AllSame(request.headers, "content-length")
<1> DEFINE headers == request.headers
           line == ValidatePath(ValidateMethod(NewResult, request.method), request.path)
           each == FoldLeft(ValidateHeader, line, headers)
           length == ValidateContentLength(each, headers)
           framing == ValidateTransferEncoding(length, headers)
           host == ValidateHost(framing, request)
           slow == DetectSlowAttacks(host, request)
<1>1. ValidateParsedRequest(request) = slow
  BY Zenon DEF ValidateParsedRequest
<1>2. line \in Results
  BY NothingSaidYet, LineKept DEF Keeps, Follows, Extends
<1> HIDE DEF line
<1>3. each \in Results
  BY <1>2, HeadersValidated DEF Headers, Follows, Extends
<1> HIDE DEF each
<1>4. length \in Results /\ (length.passed /\ Has(headers, "content-length") => AllSame(headers, "content-length"))
  BY <1>3, LengthsValidated DEF Follows, Extends
<1> HIDE DEF length
<1>5. /\ framing \in Results /\ (framing.passed => length.passed)
      /\ framing.passed => ~Has(headers, "content-length") \/ ~Has(headers, "transfer-encoding")
  BY <1>4, EncodingValidated DEF Extends, Headers
<1> HIDE DEF framing
<1>6. host \in Results /\ (host.passed => framing.passed)
  BY <1>5, HostValidated DEF Follows, Extends
<1> HIDE DEF host
<1>7. slow.passed => host.passed
  BY <1>6, SlowValidated DEF Follows, Extends
<1> HIDE DEF slow
<1>8. framing.passed /\ length.passed
  BY <1>1, <1>5, <1>6, <1>7
<1>9. QED
  BY <1>4, <1>5, <1>8

\* What does not parse does not pass.
LEMMA PassedIsParsed ==
  ASSUME NEW request \in Heads, ValidateHttpRequest(request).passed
  PROVE  request.headers \in Headers /\ ValidateParsedRequest(request).passed
<1>1. /\ request.parse \in {"empty", "error", "partial", "partial, over 8192", "complete"}
      /\ request.headers \in Headers
  BY InspectionAssumption DEF Headers
<1>2. /\ ~AddError(NewResult, "MalformedRequest", "Reject").passed
      /\ ~AddError(NewResult, "IncompleteHeaders", "Reject").passed
      /\ ~AddError(NewResult, "HeaderTooLarge", "Reject").passed
  BY NothingSaidYet, Refused DEF Kinds, OtherErrors
<1>3. ASSUME request.parse # "complete" PROVE ~ValidateHttpRequest(request).passed
  BY <1>1, <1>2, <1>3 DEF ValidateHttpRequest
<1>4. request.parse = "complete"
  BY <1>3
<1>5. ValidateHttpRequest(request) = ValidateParsedRequest(request)
  BY <1>4 DEF ValidateHttpRequest
<1>6. QED
  BY <1>1, <1>5

\* The headers of a name, and where they are.
LEMMA NamedAt ==
  ASSUME NEW request, NEW name
  PROVE  /\ Named(request, name) = {request.headers[i] : i \in Positions(request.headers, name)}
         /\ Named(request, name) = {} <=> ~Has(request.headers, name)
BY DEF Named, Positions, Has, ToSet

\* What is inspected is empty or one of the inputs.
InspectedInv == (\A request \in head : request \in Heads) /\ text \in Seq(Bytes)

\* It is.
LEMMA InspectedOnly == InspectionSpec => []InspectedInv
<1>1. InspectionInit => InspectedInv
  BY DEF InspectionInit, InspectedInv
<1>2. InspectedInv /\ [InspectionNext]_inspectionVars => InspectedInv'
  BY InspectionAssumption DEF InspectedInv, InspectionNext, ValidateNext, ScanNext, inspectionVars
<1>3. QED
  BY <1>1, <1>2, PTL DEF InspectionSpec

\* Whatever the request: the one that passes has a length or an encoding and not both,
\* and no two lengths (protocol_validator.rs:400-532).
THEOREM FramingAccepted == InspectionSpec => []AcceptedFraming
<1>1. InspectedInv => AcceptedFraming
  <2> SUFFICES ASSUME InspectedInv, NEW request \in head, ValidateHttpRequest(request).passed
               PROVE  /\ Named(request, "content-length") = {} \/ Named(request, "transfer-encoding") = {}
                      /\ \A g, h \in Named(request, "content-length") : Text(g.value) = Text(h.value)
    BY Zenon DEF AcceptedFraming
  <2>1. request \in Heads
    BY DEF InspectedInv
  <2>2. request.headers \in Headers /\ ValidateParsedRequest(request).passed
    BY <2>1, PassedIsParsed
  <2>3. /\ ~Has(request.headers, "content-length") \/ ~Has(request.headers, "transfer-encoding")
        /\ Has(request.headers, "content-length") => AllSame(request.headers, "content-length")
    BY <2>2, ParsedFraming
  <2>4. Named(request, "content-length") = {} \/ Named(request, "transfer-encoding") = {}
    BY <2>3, NamedAt
  <2>5. ASSUME NEW g \in Named(request, "content-length"), NEW h \in Named(request, "content-length")
        PROVE  Text(g.value) = Text(h.value)
    <3>1. PICK i \in Positions(request.headers, "content-length") : g = request.headers[i]
      BY NamedAt
    <3>2. PICK j \in Positions(request.headers, "content-length") : h = request.headers[j]
      BY NamedAt
    <3>3. AllSame(request.headers, "content-length")
      BY <2>3, <3>1 DEF Has
    <3>4. QED
      BY <3>1, <3>2, <3>3 DEF AllSame
  <2>6. QED
    BY <2>4, <2>5
<1>2. QED
  BY <1>1, InspectedOnly, PTL

\* A length that comes again.
Again(headers, i) == \E j \in 1 .. i - 1 : headers[j].name = "content-length"

\* What reading one header alone does to the result.
LEMMA LengthHeaderRead ==
  ASSUME NEW r \in Results, NEW headers, NEW i
  PROVE  /\ Follows(r, LengthHeader(r, headers, i))
         /\ LengthHeader(r, headers, i).passed =>
              ~Again(headers, i) /\ (headers[i].value = Unreadable \/ IsLength(headers[i].value))
         /\ IsLength(headers[i].value) =>
              LengthHeader(r, headers, i).content_length = {Number[Text(headers[i].value)]}
         /\ headers[i].value = Unreadable =>
              LengthHeader(r, headers, i).content_length = r.content_length
<1> DEFINE value == headers[i].value
           s == IF Again(headers, i) THEN AddError(r, "DoubleContentLength", "Reject") ELSE r
           e == AddError(s, "ContentLengthMismatch", "Reject")
           t == LengthHeader(r, headers, i)
<1>1. t = IF value = Unreadable THEN s ELSE IF IsLength(value) THEN Lengthened(s, value) ELSE e
  BY DEF LengthHeader, RejectIf, Again, IsLength, Lengthened
<1>2. Follows(r, s) /\ (Again(headers, i) => ~s.passed) /\ s.content_length = r.content_length
  BY Refused, KeptAsItIs DEF Kinds, OtherErrors, Keeps
<1> HIDE DEF s, value, t
<1>3. s \in Results
  BY <1>2 DEF Follows, Extends
<1>4. Follows(s, e) /\ ~e.passed
  BY <1>3, Refused DEF Kinds, HeaderErrors
<1>5. IsLength(value) => /\ Follows(s, Lengthened(s, value))
                         /\ Lengthened(s, value).content_length = {Number[Text(value)]}
  BY <1>3, LengthNoted
<1>6. Follows(s, s)
  BY <1>3, KeptAsItIs DEF Keeps
<1> HIDE DEF e
<1>7. Follows(s, t)
  BY <1>1, <1>4, <1>5, <1>6
<1>8. Follows(r, t)
  BY <1>2, <1>7, KeptInTurn
<1>9. t.passed => s.passed /\ t # e
  BY <1>4, <1>7 DEF Follows, Extends
<1>10. t.passed => ~Again(headers, i)
  BY <1>2, <1>9
<1>11. t.passed => value = Unreadable \/ IsLength(value)
  BY <1>1, <1>9
<1>12. IsLength(value) => value # Unreadable
  BY DEF IsLength
<1>13. IsLength(value) => t.content_length = {Number[Text(value)]}
  BY <1>1, <1>5, <1>12
<1>14. value = Unreadable => t.content_length = r.content_length
  BY <1>1, <1>2
<1>15. QED
  BY <1>8, <1>10, <1>11, <1>13, <1>14 DEF t, value

\* What is asked of the i-th header of some that pass alone.
PassesAlone(headers, i) ==
  /\ Fit(headers[i])
  /\ headers[i].name = "content-length" =>
       ~Again(headers, i) /\ (headers[i].value = Unreadable \/ IsLength(headers[i].value))

\* One header alone.
LEMMA HeaderRead ==
  \A r \in Results : \A headers : \A i :
    /\ Follows(r, ReadHeader(r, headers, i))
    /\ ReadHeader(r, headers, i).passed => PassesAlone(headers, i)
    /\ headers[i].name # "content-length" \/ headers[i].value = Unreadable =>
         ReadHeader(r, headers, i).content_length = r.content_length
    /\ headers[i].name = "content-length" /\ IsLength(headers[i].value) =>
         ReadHeader(r, headers, i).content_length = {Number[Text(headers[i].value)]}
<1> SUFFICES ASSUME NEW r \in Results, NEW headers, NEW i
             PROVE  /\ Follows(r, ReadHeader(r, headers, i))
                    /\ ReadHeader(r, headers, i).passed => PassesAlone(headers, i)
                    /\ headers[i].name # "content-length" \/ headers[i].value = Unreadable =>
                         ReadHeader(r, headers, i).content_length = r.content_length
                    /\ headers[i].name = "content-length" /\ IsLength(headers[i].value) =>
                         ReadHeader(r, headers, i).content_length = {Number[Text(headers[i].value)]}
  OBVIOUS
<1> DEFINE s == ValidateHeader(r, headers[i])
           t == LengthHeader(s, headers, i)
           u == ReadHeader(r, headers, i)
<1>1. u = IF headers[i].name = "content-length" THEN t ELSE s
  BY Zenon DEF ReadHeader
<1>2. /\ Follows(r, s) /\ s.content_length = r.content_length
      /\ ~Fit(headers[i]) => ~s.passed
  BY HeaderValidated
<1> HIDE DEF s, u
<1>3. s \in Results
  BY <1>2 DEF Follows, Extends
<1>4. /\ Follows(s, t)
      /\ t.passed => ~Again(headers, i) /\ (headers[i].value = Unreadable \/ IsLength(headers[i].value))
      /\ IsLength(headers[i].value) => t.content_length = {Number[Text(headers[i].value)]}
      /\ headers[i].value = Unreadable => t.content_length = s.content_length
  BY <1>3, LengthHeaderRead
<1> HIDE DEF t
<1>5. Follows(r, t)
  BY <1>2, <1>4, KeptInTurn
<1>6. Follows(r, u) /\ (u.passed => s.passed)
  BY <1>1, <1>2, <1>4, <1>5 DEF Follows, Extends
<1>7. u.passed => PassesAlone(headers, i)
  BY <1>1, <1>2, <1>4, <1>6 DEF PassesAlone
<1>8. QED
  BY <1>1, <1>2, <1>4, <1>6, <1>7 DEF u

\* The headers alone, at the given positions.
ReadAll(headers, base, positions) ==
  FoldLeft(LAMBDA s, i : ReadHeader(s, headers, i), base, positions)

\* The headers alone, one by one.
LEMMA ReadTrail ==
  ASSUME NEW S, NEW base \in Results, NEW headers, NEW w \in Seq(S)
  PROVE  \E h \in [0 .. Len(w) -> Results] :
           /\ h[0] = base
           /\ \A k \in 1 .. Len(w) : h[k] = ReadHeader(h[k - 1], headers, w[k])
           /\ ReadAll(headers, base, w) = h[Len(w)]
<1> DEFINE n == Len(w)
           All == Results
           step == [k \in 1 .. n |-> [r \in All |-> ReadHeader(r, headers, w[k])]]
<1>1. n \in Nat /\ DOMAIN w = 1 .. n /\ base \in All
  OBVIOUS
<1>2. \A r \in All : \A k \in 1 .. n : ReadHeader(r, headers, w[k]) \in All
  BY HeaderRead DEF Follows, Extends
<1>3. \A k \in 1 .. n : step[k] \in [All -> All]
  BY <1>2
<1> HIDE DEF step, All, n
<1>4. PICK it \in [SUBSET (1 .. n) -> All] : Unfolds(it, n, base, step)
  BY <1>1, <1>3, FoldExists
<1>5. it = [s \in SUBSET DOMAIN w |->
              IF s = {} THEN base ELSE ReadHeader(it[s \ {Max(s)}], headers, w[Max(s)])]
  <2>1. ASSUME NEW s \in SUBSET (1 .. n), s # {}
        PROVE  step[Max(s)][it[s \ {Max(s)}]] = ReadHeader(it[s \ {Max(s)}], headers, w[Max(s)])
    <3>1. Max(s) \in 1 .. n
      BY <1>1, <2>1, LargestOfUpTo
    <3>2. it[s \ {Max(s)}] \in All
      BY <1>4
    <3>3. QED
      BY <3>1, <3>2 DEF step
  <2>2. QED
    BY <1>1, <1>4, <2>1 DEF Unfolds
<1>6. PICK r : /\ r = [s \in SUBSET DOMAIN w |->
                         IF s = {} THEN base ELSE ReadHeader(r[s \ {Max(s)}], headers, w[Max(s)])]
               /\ ReadAll(headers, base, w) = r[DOMAIN w]
  BY <1>5 DEF ReadAll, FoldLeft, MapThenFoldSet
<1> DEFINE h == [k \in 0 .. n |-> r[1 .. k]]
<1>7. h[0] = base /\ h[n] = ReadAll(headers, base, w)
  BY <1>1, <1>6, InitialSegments
<1>8. ASSUME NEW k \in 1 .. n PROVE h[k] = ReadHeader(h[k - 1], headers, w[k])
  <2>1. h[k] = r[1 .. k] /\ h[k - 1] = r[1 .. k - 1]
    BY <1>1
  <2>2. /\ 1 .. k \in SUBSET DOMAIN w /\ 1 .. k # {}
        /\ Max(1 .. k) = k /\ (1 .. k) \ {k} = 1 .. k - 1
    BY <1>1, InitialSegments
  <2>3. r[1 .. k] = ReadHeader(r[(1 .. k) \ {Max(1 .. k)}], headers, w[Max(1 .. k)])
    BY <1>6, <2>2
  <2> HIDE DEF h
  <2>4. QED
    BY <2>1, <2>2, <2>3
<1> HIDE DEF h
<1>9. \A k \in 0 .. n : h[k] \in All
  <2> DEFINE Kept == {k \in 0 .. n : h[k] \in All}
  <2>1. 0 \in Kept
    BY <1>1, <1>7
  <2>2. ASSUME NEW k \in 1 .. n, k - 1 \in Kept PROVE k \in Kept
    <3>1. h[k - 1] \in All /\ k \in 0 .. n
      BY <1>1, <2>2
    <3>2. h[k] \in All
      BY <1>2, <1>8, <3>1
    <3>3. QED
      BY <3>1, <3>2
  <2> HIDE DEF Kept
  <2>3. \A k \in 0 .. n : k \in Kept
    BY <1>1, <2>1, <2>2, InductionUpTo
  <2>4. QED
    BY <2>3 DEF Kept
<1>10. h \in [0 .. n -> All]
  BY <1>9 DEF h
<1>11. QED
  BY <1>7, <1>8, <1>10 DEF n, All


\* The positions of n headers.
UpTo(n) == [i \in 1 .. n |-> i]

\* How the result grows over n headers.
GrowsTo(h, headers, base, n) ==
  /\ h \in [0 .. n -> Results] /\ h[0] = base
  /\ \A k \in 1 .. n : h[k] = ReadHeader(h[k - 1], headers, k)
  /\ ReadAll(headers, base, UpTo(n)) = h[n]

\* All of them.
LEMMA ReadInTurn ==
  ASSUME NEW base \in Results, NEW headers, NEW n \in Nat
  PROVE  \E h : GrowsTo(h, headers, base, n)
<1> DEFINE w == [i \in 1 .. n |-> i]
<1>1. w \in [1 .. n -> 1 .. n] /\ \A k \in 1 .. n : w[k] = k
  OBVIOUS
<1> HIDE DEF w
<1>2. w \in Seq(1 .. n) /\ Len(w) = n
  BY <1>1, FunctionIsSeq
<1>3. PICK h \in [0 .. Len(w) -> Results] :
        /\ h[0] = base
        /\ \A k \in 1 .. Len(w) : h[k] = ReadHeader(h[k - 1], headers, w[k])
        /\ ReadAll(headers, base, w) = h[Len(w)]
  <2>1. w \in Seq(1 .. n)
    BY <1>2
  <2>2. QED
    BY <2>1, ReadTrail
<1>4. h \in [0 .. n -> Results] /\ h[0] = base /\ ReadAll(headers, base, w) = h[n]
  BY <1>2, <1>3
<1>5. \A k \in 1 .. n : h[k] = ReadHeader(h[k - 1], headers, k)
  BY <1>1, <1>2, <1>3
<1>6. QED
  BY <1>4, <1>5 DEF w, UpTo, GrowsTo

\* They make a result, which says nothing of chunks.
LEMMA ReadHeadersIs ==
  ASSUME NEW headers, NEW n \in Nat, DOMAIN headers = 1 .. n, NEW base \in Results
  PROVE  Follows(base, ReadHeaders(base, headers))
<1>1. PICK h : GrowsTo(h, headers, base, n)
  BY ReadInTurn
<1>2. /\ h \in [0 .. n -> Results] /\ h[0] = base /\ n \in 0 .. n /\ 0 \in 0 .. n
      /\ \A k \in 1 .. n : k \in 0 .. n /\ k - 1 \in 0 .. n
      /\ \A k \in 1 .. n : h[k] = ReadHeader(h[k - 1], headers, k)
      /\ ReadAll(headers, base, UpTo(n)) = h[n]
  BY <1>1 DEF GrowsTo
<1>3. ReadHeaders(base, headers) = ReadAll(headers, base, UpTo(n))
  BY Zenon DEF ReadHeaders, ReadAll, UpTo
<1> DEFINE T == {k \in 0 .. n : Follows(base, h[k])}
<1>4. 0 \in T
  BY <1>2, KeptAsItIs DEF Keeps
<1>5. ASSUME NEW k \in 1 .. n, k - 1 \in T PROVE k \in T
  <2>1. Follows(base, h[k - 1]) /\ h[k - 1] \in Results
    BY <1>2, <1>5
  <2>2. Follows(h[k - 1], h[k])
    BY <1>2, <2>1, HeaderRead
  <2>3. Follows(base, h[k])
    BY <2>1, <2>2, KeptInTurn
  <2>4. QED
    BY <1>2, <2>3
<1> HIDE DEF T
<1>6. \A k \in 0 .. n : k \in T
  BY <1>4, <1>5, InductionUpTo
<1>7. QED
  BY <1>2, <1>3, <1>6 DEF T

\* A header that is a length.
Length(header) == header.name = "content-length" /\ IsLength(header.value)

\* All the headers alone: the length noted is the one length there is.
LEMMA HeadersRead ==
  ASSUME NEW headers, NEW n \in Nat, DOMAIN headers = 1 .. n, NEW base \in Results,
         ReadHeaders(base, headers).passed
  PROVE  /\ \A i \in 1 .. n : PassesAlone(headers, i)
         /\ (\A i \in 1 .. n : ~Length(headers[i])) =>
              ReadHeaders(base, headers).content_length = base.content_length
         /\ \A i \in 1 .. n :
              headers[i].name = "content-length" /\ IsLength(headers[i].value) =>
                ReadHeaders(base, headers).content_length = {Number[Text(headers[i].value)]}
<1>1. n \in Nat /\ DOMAIN headers = 1 .. n
  OBVIOUS
<1>3. PICK h : GrowsTo(h, headers, base, n)
  BY ReadInTurn
<1>4. /\ h \in [0 .. n -> Results] /\ h[0] = base
      /\ \A k \in 1 .. n : h[k] = ReadHeader(h[k - 1], headers, k)
      /\ ReadAll(headers, base, UpTo(n)) = h[n]
  BY <1>3 DEF GrowsTo
<1>5. ReadHeaders(base, headers) = h[n]
  BY <1>1, <1>4, Zenon DEF ReadHeaders, ReadAll, UpTo
<1>6. \A k \in 1 .. n : h[k] = ReadHeader(h[k - 1], headers, k)
  BY <1>4
<1> DEFINE P(k) ==
             h[k].passed =>
               /\ \A i \in 1 .. k : PassesAlone(headers, i)
               /\ (\A i \in 1 .. k : ~Length(headers[i])) =>
                    h[k].content_length = base.content_length
               /\ \A i \in 1 .. k :
                    headers[i].name = "content-length" /\ IsLength(headers[i].value) =>
                      h[k].content_length = {Number[Text(headers[i].value)]}
           T == {k \in 0 .. n : P(k)}
<1>7. 0 \in T
  <2>1. 0 \in 0 .. n /\ 1 .. 0 = {}
    BY <1>1
  <2>2. P(0)
    BY <1>4, <2>1
  <2>3. QED
    BY <2>1, <2>2
<1>8. ASSUME NEW k \in 1 .. n, k - 1 \in T PROVE k \in T
  <2> DEFINE j == k - 1
  <2>1. j \in 0 .. n /\ k \in 0 .. n /\ P(j) /\ \A i \in 1 .. k : i \in 1 .. j \/ i = k
    BY <1>1, <1>8
  <2>2. h[k] = ReadHeader(h[j], headers, k) /\ h[j] \in Results
    BY <1>4, <1>6, <2>1
  <2>3. \A i \in 1 .. j : i \in 1 .. k /\ i \in 1 .. k - 1
    OBVIOUS
  <2>10. k \in 1 .. k
    BY <1>1
  <2> HIDE DEF j
  <2>4. /\ h[k].passed => h[j].passed /\ PassesAlone(headers, k)
        /\ headers[k].name # "content-length" \/ headers[k].value = Unreadable =>
             h[k].content_length = h[j].content_length
        /\ headers[k].name = "content-length" /\ IsLength(headers[k].value) =>
             h[k].content_length = {Number[Text(headers[k].value)]}
    <3> DEFINE r == h[j]
    <3>1. r \in Results /\ h[k] = ReadHeader(r, headers, k)
      BY <2>2
    <3> HIDE DEF r
    <3>2. /\ Follows(r, h[k]) /\ (h[k].passed => PassesAlone(headers, k))
          /\ headers[k].name # "content-length" \/ headers[k].value = Unreadable =>
               h[k].content_length = r.content_length
          /\ headers[k].name = "content-length" /\ IsLength(headers[k].value) =>
               h[k].content_length = {Number[Text(headers[k].value)]}
      BY ONLY <3>1, HeaderRead
    <3>3. QED
      BY <3>2 DEF Follows, Extends, r
  <2>5. ASSUME h[k].passed
        PROVE  /\ \A i \in 1 .. k : PassesAlone(headers, i)
               /\ (\A i \in 1 .. k : ~Length(headers[i])) =>
                    h[k].content_length = base.content_length
               /\ \A i \in 1 .. k :
                    headers[i].name = "content-length" /\ IsLength(headers[i].value) =>
                      h[k].content_length = {Number[Text(headers[i].value)]}
    <3>1. /\ \A i \in 1 .. j : PassesAlone(headers, i)
          /\ (\A i \in 1 .. j : ~Length(headers[i])) =>
               h[j].content_length = base.content_length
          /\ \A i \in 1 .. j :
               headers[i].name = "content-length" /\ IsLength(headers[i].value) =>
                 h[j].content_length = {Number[Text(headers[i].value)]}
      BY <2>1, <2>4, <2>5
    <3>2. \A i \in 1 .. k : PassesAlone(headers, i)
      BY <2>1, <2>4, <2>5, <3>1
    <3>3. ASSUME \A i \in 1 .. k : ~Length(headers[i])
          PROVE  h[k].content_length = base.content_length
      <4>1. \A i \in 1 .. j : ~Length(headers[i])
        BY <2>3, <3>3
      <4>2. headers[k].name # "content-length" \/ headers[k].value = Unreadable
        BY <2>4, <2>5, <2>10, <3>3 DEF PassesAlone, Length
      <4>3. QED
        BY <2>4, <3>1, <4>1, <4>2
    <3>4. ASSUME NEW i \in 1 .. k, headers[i].name = "content-length", IsLength(headers[i].value)
          PROVE  h[k].content_length = {Number[Text(headers[i].value)]}
      <4>1. CASE i = k
        BY <2>4, <3>4, <4>1
      <4>2. CASE i \in 1 .. j
        <5>1. headers[k].name # "content-length"
          <6>1. headers[k].name = "content-length" => ~Again(headers, k)
            BY <2>4, <2>5 DEF PassesAlone
          <6>2. Again(headers, k)
            BY <2>3, <3>4, <4>2 DEF Again
          <6>3. QED
            BY <6>1, <6>2
        <5>2. QED
          BY <2>4, <3>1, <3>4, <4>2, <5>1
      <4>3. QED
        BY <2>1, <4>1, <4>2
    <3>5. QED
      BY <3>2, <3>3, <3>4
  <2>6. P(k)
    BY <2>5
  <2>7. QED
    BY <2>1, <2>6
<1> HIDE DEF T, P
<1>9. \A k \in 0 .. n : k \in T
  BY <1>1, <1>7, <1>8, InductionUpTo
<1>10. P(n) /\ h[n] \in Results
  <2>1. n \in 0 .. n
    BY <1>1
  <2>2. n \in T
    BY <1>9, <2>1
  <2>3. QED
    BY <1>4, <2>1, <2>2 DEF T
<1>11. QED
  BY <1>5, <1>10 DEF P

\* One length: where the i-th header is one, no other is.
LEMMA OneLength ==
  ASSUME NEW headers, NEW n \in Nat, DOMAIN headers = 1 .. n,
         \A i \in 1 .. n : PassesAlone(headers, i),
         NEW i \in Positions(headers, "content-length")
  PROVE  Positions(headers, "content-length") = {i}
<1>1. ASSUME NEW a \in Positions(headers, "content-length"),
             NEW b \in Positions(headers, "content-length"), a < b
      PROVE  FALSE
  <2>1. a \in 1 .. n /\ b \in 1 .. n /\ a \in 1 .. b - 1
    BY <1>1 DEF Positions
  <2>2. headers[a].name = "content-length" /\ headers[b].name = "content-length"
    BY DEF Positions
  <2>3. Again(headers, b)
    BY <2>1, <2>2 DEF Again
  <2>4. ~Again(headers, b)
    BY <2>1, <2>2 DEF PassesAlone
  <2>5. QED
    BY <2>3, <2>4
<1>2. ASSUME NEW j \in Positions(headers, "content-length") PROVE j = i
  <2>1. i \in Nat /\ j \in Nat
    BY DEF Positions
  <2>2. ~(i < j) /\ ~(j < i)
    BY <1>1
  <2>3. QED
    BY <2>1, <2>2
<1>3. QED
  BY <1>2

\* What headers that pass alone are: fit, and with a length or an encoding at most.
LEMMA PassedAlone ==
  ASSUME NEW headers \in Headers, ValidateHeaders(headers).passed
  PROVE  /\ \A i \in DOMAIN headers : Fit(headers[i])
         /\ ~Has(headers, "content-length") \/ ~Has(headers, "transfer-encoding")
         /\ ~ValidateHeaders(headers).is_chunked
         /\ ~Has(headers, "content-length") => ValidateHeaders(headers).content_length = {}
         /\ \A i \in Positions(headers, "content-length") :
              /\ Positions(headers, "content-length") = {i}
              /\ headers[i].value = Unreadable \/ IsLength(headers[i].value)
              /\ headers[i].value = Unreadable => ValidateHeaders(headers).content_length = {}
              /\ IsLength(headers[i].value) =>
                   ValidateHeaders(headers).content_length = {Number[Text(headers[i].value)]}
<1> DEFINE n == Len(headers)
           start == IF n > MaxHeadersCount THEN AddError(NewResult, "TooManyHeaders", "Reject") ELSE NewResult
           each == ReadHeaders(start, headers)
           both == Has(headers, "content-length") /\ Has(headers, "transfer-encoding")
           clash == AddError(each, "TransferEncodingWithContentLength", "Reject")
           all == ValidateHeaders(headers)
<1>1. n \in Nat /\ DOMAIN headers = 1 .. n
  BY DEF Headers
<1>2. all = IF both THEN clash ELSE each
  BY Zenon DEF ValidateHeaders, RejectIf
<1>3. start \in Results /\ start.content_length = {} /\ ~start.is_chunked
  <2>1. Follows(NewResult, AddError(NewResult, "TooManyHeaders", "Reject"))
        /\ AddError(NewResult, "TooManyHeaders", "Reject").content_length = NewResult.content_length
    BY NothingSaidYet, Refused DEF Kinds, OtherErrors
  <2>2. QED
    BY <2>1, NothingSaidYet DEF Follows, Extends
<1> HIDE DEF n, start
<1>4. each \in Results /\ ~each.is_chunked
  BY <1>1, <1>3, ReadHeadersIs DEF Follows, Extends
<1> HIDE DEF each
<1>5. ~clash.passed
  BY <1>4, Refused DEF Kinds, HeaderErrors
<1> HIDE DEF clash
<1>6. all.passed /\ all = each /\ ~both
  BY <1>2, <1>5
<1> HIDE DEF all
<1>7. each.passed
  BY <1>6
<1>8. /\ \A i \in 1 .. n : PassesAlone(headers, i)
      /\ (\A i \in 1 .. n : ~Length(headers[i])) => each.content_length = start.content_length
      /\ \A i \in 1 .. n :
           headers[i].name = "content-length" /\ IsLength(headers[i].value) =>
             each.content_length = {Number[Text(headers[i].value)]}
  BY <1>1, <1>3, <1>7, HeadersRead DEF each
<1>9. \A i \in DOMAIN headers : Fit(headers[i])
  BY <1>1, <1>8 DEF PassesAlone
<1>10. ~Has(headers, "content-length") => all.content_length = {}
  BY <1>1, <1>3, <1>6, <1>8 DEF Has, Positions, Length
<1>11. ASSUME NEW i \in Positions(headers, "content-length")
       PROVE  /\ Positions(headers, "content-length") = {i}
              /\ headers[i].value = Unreadable \/ IsLength(headers[i].value)
              /\ headers[i].value = Unreadable => all.content_length = {}
              /\ IsLength(headers[i].value) => all.content_length = {Number[Text(headers[i].value)]}
  <2>1. i \in 1 .. n /\ headers[i].name = "content-length"
    BY <1>1 DEF Positions
  <2>2. headers[i].value = Unreadable \/ IsLength(headers[i].value)
    BY <1>8, <2>1 DEF PassesAlone
  <2>3. Positions(headers, "content-length") = {i}
    BY <1>1, <1>8, OneLength
  <2>4. ASSUME headers[i].value = Unreadable PROVE all.content_length = {}
    <3>1. ASSUME NEW j \in 1 .. n, Length(headers[j]) PROVE FALSE
      <4>1. j \in Positions(headers, "content-length")
        BY <1>1, <3>1 DEF Length, Positions
      <4>2. j = i
        BY <2>3, <4>1
      <4>3. QED
        BY <2>4, <3>1, <4>2 DEF Length, IsLength
    <3>2. QED
      BY <1>3, <1>6, <1>8, <3>1
  <2>5. IsLength(headers[i].value) => all.content_length = {Number[Text(headers[i].value)]}
    BY <1>6, <1>8, <2>1
  <2>6. QED
    BY <2>2, <2>3, <2>4, <2>5
<1>12. QED
  BY <1>4, <1>6, <1>9, <1>10, <1>11 DEF all

\* What passes alone, the whole validation refuses for a header exactly where the first
\* did not look, and it notes the same length.
LEMMA WholeAgrees ==
  ASSUME NEW request, request.headers \in Headers, ValidateHeaders(request.headers).passed
  PROVE  LET whole == ValidateParsedRequest(request)
         IN  /\ Refusals(whole) # {} <=> Missed(request)
             /\ ValidateHeaders(request.headers).content_length = whole.content_length
             /\ ~ValidateHeaders(request.headers).is_chunked
             /\ whole.is_chunked <=> "chunked" \in Encodings(request.headers)
<1> DEFINE headers == request.headers
           line == ValidatePath(ValidateMethod(NewResult, request.method), request.path)
           each == FoldLeft(ValidateHeader, line, headers)
           length == ValidateContentLength(each, headers)
           framing == ValidateTransferEncoding(length, headers)
           host == ValidateHost(framing, request)
           slow == DetectSlowAttacks(host, request)
           noted == ValidateHeaders(headers).content_length
           unread == \E h \in Named(request, "content-length") : h.value = Unreadable
           forbidden == \E h \in ToSet(request.headers) : h.name \in InvalidHeaders
<1>1. ValidateParsedRequest(request) = slow
  BY Zenon DEF ValidateParsedRequest
<1>2. /\ \A i \in DOMAIN headers : Fit(headers[i])
      /\ ~Has(headers, "content-length") \/ ~Has(headers, "transfer-encoding")
      /\ ~ValidateHeaders(headers).is_chunked
      /\ ~Has(headers, "content-length") => noted = {}
      /\ \A i \in Positions(headers, "content-length") :
           /\ Positions(headers, "content-length") = {i}
           /\ headers[i].value = Unreadable \/ IsLength(headers[i].value)
           /\ headers[i].value = Unreadable => noted = {}
           /\ IsLength(headers[i].value) => noted = {Number[Text(headers[i].value)]}
  BY PassedAlone
<1> HIDE DEF noted
<1>3. line \in Results /\ line.content_length = {} /\ Refusals(line) = {} /\ ~line.is_chunked
  BY NothingSaidYet, LineKept DEF Keeps, Follows, Extends
<1> HIDE DEF line
<1>4. each = line
  <2> DEFINE S == [name : STRING, value : Seq(STRING) \ {<<>>}]
  <2>1. headers \in Seq(S)
    BY DEF Headers
  <2>2. \A i \in DOMAIN headers : Fit(headers[i])
    BY <1>2
  <2>3. line \in Results
    BY <1>3
  <2> HIDE DEF S, headers
  <2>4. (\A i \in DOMAIN headers : Fit(headers[i])) => FoldLeft(ValidateHeader, line, headers) = line
    BY ONLY <2>1, <2>3, HeadersValidated
  <2>5. QED
    BY <2>2, <2>4 DEF headers
<1> HIDE DEF each
<1>5. /\ length \in Results /\ length.content_length = noted /\ ~length.is_chunked
      /\ Refusals(length) # {} <=> unread
  <2>1. CASE Has(headers, "content-length")
    <3>1. PICK i \in Positions(headers, "content-length") : TRUE
      BY <2>1 DEF Has
    <3>2. /\ Positions(headers, "content-length") = {i}
          /\ headers[i].value = Unreadable \/ IsLength(headers[i].value)
          /\ headers[i].value = Unreadable => noted = {}
          /\ IsLength(headers[i].value) => noted = {Number[Text(headers[i].value)]}
      BY <1>2, <3>1
    <3>3. length = ReadLength(line, headers[i].value)
      BY <1>3, <1>4, <3>2, LengthAlone DEF Headers
    <3>4. unread <=> headers[i].value = Unreadable
      BY <3>2, NamedAt
    <3> HIDE DEF unread, length
    <3>5. length \in Results /\ length.is_chunked = line.is_chunked
      BY <1>3, <3>3, LengthRead DEF Follows, Extends
    <3>6. CASE headers[i].value = Unreadable
      <4>1. Refusals(length) # {} /\ length.content_length = line.content_length
        BY <1>3, <3>3, <3>6, LengthRead
      <4>2. QED
        BY <1>3, <3>2, <3>4, <3>5, <3>6, <4>1
    <3>7. CASE IsLength(headers[i].value)
      <4>1. length = Lengthened(line, headers[i].value) /\ headers[i].value # Unreadable
        BY <1>3, <3>3, <3>7, LengthRead DEF IsLength
      <4>2. /\ Refusals(Lengthened(line, headers[i].value)) = Refusals(line)
            /\ Lengthened(line, headers[i].value).content_length = {Number[Text(headers[i].value)]}
        BY <1>3, <3>7, LengthNoted
      <4>3. QED
        BY <1>3, <3>2, <3>4, <3>5, <3>7, <4>1, <4>2
    <3>8. QED
      BY <3>2, <3>6, <3>7
  <2>2. CASE ~Has(headers, "content-length")
    <3>1. length = line
      BY <1>4, <2>2 DEF ValidateContentLength
    <3>2. ~unread
      BY <2>2, NamedAt
    <3> HIDE DEF unread, length
    <3>3. QED
      BY <1>2, <1>3, <2>2, <3>1, <3>2
  <2>3. QED
    BY <2>1, <2>2
<1> HIDE DEF length, unread
<1>6. /\ Extends(length, framing) /\ framing.content_length = noted
      /\ framing.is_chunked <=> "chunked" \in Encodings(headers)
      /\ EncodingMissed(headers) => Refusals(framing) # {}
      /\ ~EncodingMissed(headers) => Refusals(framing) = Refusals(length)
  BY <1>2, <1>5, EncodingValidated DEF Headers
<1> HIDE DEF framing
<1>7. /\ framing \in Results
      /\ Refusals(framing) # {} <=> unread \/ EncodingMissed(headers)
  BY <1>5, <1>6 DEF Extends
<1>8. /\ Follows(framing, host) /\ host.content_length = framing.content_length
      /\ HostMissed(request) => Refusals(host) # {}
      /\ ~HostMissed(request) => Refusals(host) = Refusals(framing)
  BY <1>7, HostValidated
<1> HIDE DEF host
<1>9. /\ host \in Results /\ host.is_chunked = framing.is_chunked
      /\ Refusals(host) # {} <=> unread \/ EncodingMissed(headers) \/ HostMissed(request)
  BY <1>7, <1>8 DEF Follows, Extends
<1>10. /\ Follows(host, slow) /\ slow.content_length = host.content_length
       /\ forbidden => Refusals(slow) # {}
       /\ ~forbidden => Refusals(slow) = Refusals(host)
  BY <1>9, SlowValidated
<1> HIDE DEF slow, forbidden
<1>11. /\ slow.is_chunked = host.is_chunked
       /\ Refusals(slow) # {} <=>
            unread \/ EncodingMissed(headers) \/ HostMissed(request) \/ forbidden
  BY <1>9, <1>10 DEF Follows, Extends
<1>12. Missed(request) <=> unread \/ EncodingMissed(headers) \/ HostMissed(request) \/ forbidden
  BY DEF Missed, unread, forbidden
<1>13. QED
  BY <1>1, <1>2, <1>6, <1>8, <1>9, <1>10, <1>11, <1>12 DEF noted

\* Whatever the headers: what validate_headers passes, validate_http_request refuses for
\* a header exactly where validate_headers does not look; both note one length, and the
\* second alone that the body is chunked (protocol_validator.rs:203-642).
THEOREM EntriesAgree == InspectionSpec => []EntryPointsAgree
<1>1. InspectedInv => EntryPointsAgree
  <2> SUFFICES ASSUME InspectedInv, NEW request \in head, ValidateHeaders(request.headers).passed
               PROVE  LET alone == ValidateHeaders(request.headers)
                          whole == ValidateParsedRequest(request)
                      IN  /\ (\E e \in ToSet(whole.errors) : e[2] = "Reject" /\ e[1] \in HeaderErrors)
                               <=> Missed(request)
                          /\ alone.content_length = whole.content_length
                          /\ ~alone.is_chunked
                          /\ whole.is_chunked <=> "chunked" \in Encodings(request.headers)
    BY Zenon DEF EntryPointsAgree
  <2>1. request.headers \in Headers
    BY InspectionAssumption DEF InspectedInv, Headers
  <2>2. \A r : Refusals(r) # {} <=>
              \E e \in ToSet(r.errors) : e[2] = "Reject" /\ e[1] \in HeaderErrors
    BY DEF Refusals
  <2>3. QED
    BY <2>1, <2>2, WholeAgrees
<1>2. QED
  BY <1>1, InspectedOnly, PTL

----------------------------------------------------------------------------
(* Percent-decoding.                                                        *)

\* What a text is made of, and what a URL is besides.
Chars == Bytes \cup {"?"}

\* Sequences of the same terms are the same.
LEMMA SameTerms ==
  ASSUME NEW S, NEW u \in Seq(S), NEW v \in Seq(S), Len(u) = Len(v),
         \A i \in 1 .. Len(u) : u[i] = v[i]
  PROVE  u = v
OBVIOUS

\* The terms of two sequences, one after the other.
LEMMA JoinedTerms ==
  ASSUME NEW S, NEW u \in Seq(S), NEW v \in Seq(S)
  PROVE  /\ u \o v \in Seq(S) /\ Len(u \o v) = Len(u) + Len(v)
         /\ \A i \in 1 .. Len(u) : (u \o v)[i] = u[i]
         /\ \A i \in 1 .. Len(v) : (u \o v)[Len(u) + i] = v[i]
OBVIOUS

\* One term and those behind it.
LEMMA TermAndRest ==
  ASSUME NEW S, NEW t \in Seq(S), NEW k \in 1 .. Len(t)
  PROVE  <<t[k]>> \o SubSeq(t, k + 1, Len(t)) = SubSeq(t, k, Len(t))
OBVIOUS

\* A text over some characters is one over more of them.
LEMMA SmallerAlphabet ==
  ASSUME NEW S, NEW T, S \subseteq T, NEW u \in Seq(S)
  PROVE  u \in Seq(T)
OBVIOUS

\* The code of a character: itself, or an escape of three.
LEMMA CodeIs ==
  ASSUME NEW c \in Bytes
  PROVE  /\ Code(c) \in Seq(Chars)
         /\ c = "%" => Len(Code(c)) = 3 /\ Code(c)[1] = "%" /\ Code(c)[2] = "2" /\ Code(c)[3] = "5"
         /\ c = "+" => Len(Code(c)) = 3 /\ Code(c)[1] = "%" /\ Code(c)[2] = "2" /\ Code(c)[3] = "b"
         /\ c \notin {"%", "+"} => Len(Code(c)) = 1 /\ Code(c)[1] = IF c = " " THEN "+" ELSE c
<1>1. CASE c = "%"
  <2>1. Code(c) = <<"%", "2", "5">>
    BY <1>1 DEF Code
  <2>2. Len(Code(c)) = 3 /\ Code(c)[1] = "%" /\ Code(c)[2] = "2" /\ Code(c)[3] = "5"
    BY <2>1
  <2> DEFINE S == {"%", "2", "5"}
  <2>3. Code(c) \in Seq(S) /\ S \subseteq Chars
    <3>1. S \subseteq Chars
      BY DEF Chars, Bytes
    <3>2. <<"%", "2", "5">> \in Seq(S)
      OBVIOUS
    <3>3. QED
      BY <2>1, <3>1, <3>2
  <2> HIDE DEF S
  <2>4. Code(c) \in Seq(Chars)
    BY <2>3, SmallerAlphabet
  <2>5. QED
    BY <1>1, <2>2, <2>4
<1>2. CASE c = "+"
  <2>1. Code(c) = <<"%", "2", "b">>
    BY <1>2 DEF Code
  <2>2. Len(Code(c)) = 3 /\ Code(c)[1] = "%" /\ Code(c)[2] = "2" /\ Code(c)[3] = "b"
    BY <2>1
  <2> DEFINE S == {"%", "2", "b"}
  <2>3. Code(c) \in Seq(S) /\ S \subseteq Chars
    <3>1. S \subseteq Chars
      BY DEF Chars, Bytes
    <3>2. <<"%", "2", "b">> \in Seq(S)
      OBVIOUS
    <3>3. QED
      BY <2>1, <3>1, <3>2
  <2> HIDE DEF S
  <2>4. Code(c) \in Seq(Chars)
    BY <2>3, SmallerAlphabet
  <2>5. QED
    BY <1>2, <2>2, <2>4
<1>3. CASE c \notin {"%", "+"}
  <2> DEFINE d == IF c = " " THEN "+" ELSE c
  <2>1. Code(c) = <<d>> /\ d \in Chars
    BY <1>3 DEF Code, Chars, Bytes
  <2> HIDE DEF d
  <2>2. Len(Code(c)) = 1 /\ Code(c)[1] = d /\ Code(c) \in Seq(Chars)
    BY <2>1
  <2>3. QED
    BY <1>3, <2>2 DEF d
<1>4. QED
  BY <1>1, <1>2, <1>3

\* The code of a text, character by character.
LEMMA EncodeTrail ==
  ASSUME NEW w \in Seq(Bytes)
  PROVE  \E h \in [0 .. Len(w) -> Seq(Chars)] :
           /\ h[0] = <<>>
           /\ \A k \in 1 .. Len(w) : h[k] = h[k - 1] \o Code(w[k])
           /\ FormEncode(w) = h[Len(w)]
<1> DEFINE n == Len(w)
           All == Seq(Chars)
           step == [k \in 1 .. n |-> [r \in All |-> r \o Code(w[k])]]
<1>1. n \in Nat /\ DOMAIN w = 1 .. n /\ <<>> \in All
  OBVIOUS
<1>2. \A r \in All : \A k \in 1 .. n : r \o Code(w[k]) \in All
  <2>1. \A k \in 1 .. n : w[k] \in Bytes
    BY <1>1
  <2>2. \A k \in 1 .. n : Code(w[k]) \in Seq(Chars)
    BY <2>1, CodeIs
  <2>3. QED
    BY <2>2
<1>3. \A k \in 1 .. n : step[k] \in [All -> All]
  BY <1>2
<1> HIDE DEF step, All, n
<1>4. PICK it \in [SUBSET (1 .. n) -> All] : Unfolds(it, n, <<>>, step)
  BY <1>1, <1>3, FoldExists
<1>5. it = [s \in SUBSET DOMAIN w |->
              IF s = {} THEN <<>> ELSE it[s \ {Max(s)}] \o Code(w[Max(s)])]
  <2>1. ASSUME NEW s \in SUBSET (1 .. n), s # {}
        PROVE  step[Max(s)][it[s \ {Max(s)}]] = it[s \ {Max(s)}] \o Code(w[Max(s)])
    <3>1. Max(s) \in 1 .. n
      BY <1>1, <2>1, LargestOfUpTo
    <3>2. it[s \ {Max(s)}] \in All
      BY <1>4
    <3>3. QED
      BY <3>1, <3>2 DEF step
  <2>2. QED
    BY <1>1, <1>4, <2>1 DEF Unfolds
<1>6. PICK r : /\ r = [s \in SUBSET DOMAIN w |->
                         IF s = {} THEN <<>> ELSE r[s \ {Max(s)}] \o Code(w[Max(s)])]
               /\ FormEncode(w) = r[DOMAIN w]
  BY <1>5 DEF FormEncode, FoldLeft, MapThenFoldSet
<1> DEFINE h == [k \in 0 .. n |-> r[1 .. k]]
<1>7. h[0] = <<>> /\ h[n] = FormEncode(w)
  BY <1>1, <1>6, InitialSegments
<1>8. ASSUME NEW k \in 1 .. n PROVE h[k] = h[k - 1] \o Code(w[k])
  <2>1. h[k] = r[1 .. k] /\ h[k - 1] = r[1 .. k - 1]
    BY <1>1
  <2>2. /\ 1 .. k \in SUBSET DOMAIN w /\ 1 .. k # {}
        /\ Max(1 .. k) = k /\ (1 .. k) \ {k} = 1 .. k - 1
    BY <1>1, InitialSegments
  <2>3. r[1 .. k] = r[(1 .. k) \ {Max(1 .. k)}] \o Code(w[Max(1 .. k)])
    BY <1>6, <2>2
  <2> HIDE DEF h
  <2>4. QED
    BY <2>1, <2>2, <2>3
<1> HIDE DEF h
<1>9. \A k \in 0 .. n : h[k] \in All
  <2> DEFINE Kept == {k \in 0 .. n : h[k] \in All}
  <2>1. 0 \in Kept
    BY <1>1, <1>7
  <2>2. ASSUME NEW k \in 1 .. n, k - 1 \in Kept PROVE k \in Kept
    <3>1. h[k - 1] \in All /\ k \in 0 .. n
      BY <1>1, <2>2
    <3>2. h[k] \in All
      BY <1>2, <1>8, <3>1
    <3>3. QED
      BY <3>1, <3>2
  <2> HIDE DEF Kept
  <2>3. \A k \in 0 .. n : k \in Kept
    BY <1>1, <2>1, <2>2, InductionUpTo
  <2>4. QED
    BY <2>3 DEF Kept
<1>10. h \in [0 .. n -> All]
  BY <1>9 DEF h
<1>11. QED
  BY <1>7, <1>8, <1>10 DEF n, All


\* The text decoded from position i, given what is decoded further on.
Decoded(s, f, i) ==
  IF i > Len(s) THEN <<>>
  ELSE IF s[i] = "%" /\ i + 2 <= Len(s) /\ IsHex(s[i + 1], s[i + 2])
       THEN <<FromHex(s[i + 1], s[i + 2])>> \o f[i + 3]
  ELSE <<IF s[i] = "+" THEN " " ELSE s[i]>> \o f[i + 1]

\* One decoding of the whole.
Decodes(r, s) == \A i \in 1 .. Len(s) + 1 : r[i] = Decoded(s, r, i)

\* It depends on no more than what is one or three further on.
LEMMA DecodedAlike ==
  ASSUME NEW S, NEW s \in Seq(S), NEW f, NEW g, NEW i \in 1 .. Len(s) + 1,
         \A j \in i + 1 .. Len(s) + 1 : f[j] = g[j]
  PROVE  Decoded(s, f, i) = Decoded(s, g, i)
<1>1. i <= Len(s) => f[i + 1] = g[i + 1]
  OBVIOUS
<1>2. i + 2 <= Len(s) => f[i + 3] = g[i + 3]
  OBVIOUS
<1>3. CASE i > Len(s)
  BY <1>3 DEF Decoded
<1>4. CASE ~(i > Len(s))
  <2>1. i <= Len(s)
    BY <1>4
  <2>2. CASE s[i] = "%" /\ i + 2 <= Len(s) /\ IsHex(s[i + 1], s[i + 2])
    BY <1>2, <1>4, <2>2, Zenon DEF Decoded
  <2>3. CASE ~(s[i] = "%" /\ i + 2 <= Len(s) /\ IsHex(s[i + 1], s[i + 2]))
    BY <1>1, <1>4, <2>1, <2>3, Zenon DEF Decoded
  <2>4. QED
    BY <2>2, <2>3
<1>5. QED
  BY <1>3, <1>4

\* So there is such a decoding of the whole.
LEMMA DecodingExists ==
  ASSUME NEW S, NEW s \in Seq(S)
  PROVE  \E f : f = [i \in 1 .. Len(s) + 1 |-> Decoded(s, f, i)]
<1> DEFINE n == Len(s)
           P(k) == \E f : f = [i \in (n + 1) - k .. n + 1 |-> Decoded(s, f, i)]
           T == {k \in 0 .. n : P(k)}
<1>1. n \in Nat
  OBVIOUS
<1>2. 0 \in T
  <2> DEFINE f == [i \in (n + 1) - 0 .. n + 1 |-> <<>>]
  <2>1. \A i \in (n + 1) - 0 .. n + 1 : Decoded(s, f, i) = <<>>
    <3>1. \A i \in (n + 1) - 0 .. n + 1 : i > Len(s)
      BY <1>1
    <3>2. QED
      BY <3>1 DEF Decoded
  <2>2. P(0)
    <3>1. f = [i \in (n + 1) - 0 .. n + 1 |-> Decoded(s, f, i)]
      BY <2>1
    <3> HIDE DEF f
    <3>2. QED
      BY <3>1
  <2>3. QED
    BY <1>1, <2>2
<1>3. ASSUME NEW k \in 1 .. n, k - 1 \in T PROVE k \in T
  <2> DEFINE m == (n + 1) - k
  <2>1. m \in 1 .. n /\ (n + 1) - (k - 1) = m + 1 /\ k \in 0 .. n
    BY <1>1
  <2>2. P(k - 1)
    BY <1>3
  <2>3. PICK f : f = [i \in m + 1 .. n + 1 |-> Decoded(s, f, i)]
    BY <2>1, <2>2
  <2> DEFINE g == [i \in m .. n + 1 |-> IF i = m THEN Decoded(s, f, m) ELSE f[i]]
  <2>4. \A j \in m + 1 .. n + 1 : f[j] = g[j]
    BY <2>1
  <2>5. ASSUME NEW i \in m .. n + 1 PROVE g[i] = Decoded(s, g, i)
    <3>1. i \in 1 .. n + 1 /\ \A j \in i + 1 .. n + 1 : j \in m + 1 .. n + 1
      BY <2>1
    <3>2. \A j \in i + 1 .. n + 1 : f[j] = g[j]
      BY <2>4, <3>1
    <3>3. CASE i = m
      <4>1. g[i] = Decoded(s, f, i)
        BY <3>3
      <4> HIDE DEF g
      <4>2. Decoded(s, f, i) = Decoded(s, g, i)
        BY <3>1, <3>2, DecodedAlike
      <4>3. QED
        BY <4>1, <4>2
    <3>4. CASE i # m
      <4>1. g[i] = f[i] /\ i \in m + 1 .. n + 1
        BY <2>1, <3>4
      <4>2. f[i] = Decoded(s, f, i)
        BY <2>3, <4>1
      <4> HIDE DEF g
      <4>3. Decoded(s, f, i) = Decoded(s, g, i)
        BY <3>1, <3>2, DecodedAlike
      <4>4. QED
        BY <4>1, <4>2, <4>3
    <3>5. QED
      BY <3>3, <3>4
  <2>6. g = [i \in m .. n + 1 |-> g[i]]
    OBVIOUS
  <2> HIDE DEF g
  <2>7. g = [i \in m .. n + 1 |-> Decoded(s, g, i)]
    BY <2>5, <2>6
  <2>8. P(k)
    BY <2>7
  <2>9. QED
    BY <2>1, <2>8
<1> HIDE DEF T, n
<1>4. n \in T
  <2>1. \A k \in 0 .. n : k \in T
    BY <1>1, <1>2, <1>3, InductionUpTo
  <2>2. QED
    BY <1>1, <2>1
<1>5. P(n)
  BY <1>4 DEF T
<1>6. (n + 1) - n = 1
  BY <1>1
<1>7. QED
  BY <1>5, <1>6 DEF n

\* What percent_decode makes of a text is decoded from its first position.
LEMMA PercentDecoded ==
  ASSUME NEW S, NEW s \in Seq(S)
  PROVE  \E r : Decodes(r, s) /\ PercentDecode(s) = r[1]
<1>1. \E f : f = [i \in 1 .. Len(s) + 1 |->
                    IF i > Len(s) THEN <<>>
                    ELSE IF s[i] = "%" /\ i + 2 <= Len(s) /\ IsHex(s[i + 1], s[i + 2])
                         THEN <<FromHex(s[i + 1], s[i + 2])>> \o f[i + 3]
                    ELSE <<IF s[i] = "+" THEN " " ELSE s[i]>> \o f[i + 1]]
  BY DecodingExists, Zenon DEF Decoded
<1>2. PICK r : /\ r = [i \in 1 .. Len(s) + 1 |->
                         IF i > Len(s) THEN <<>>
                         ELSE IF s[i] = "%" /\ i + 2 <= Len(s) /\ IsHex(s[i + 1], s[i + 2])
                              THEN <<FromHex(s[i + 1], s[i + 2])>> \o r[i + 3]
                         ELSE <<IF s[i] = "+" THEN " " ELSE s[i]>> \o r[i + 1]]
               /\ PercentDecode(s) = r[1]
  BY <1>1, Zenon DEF PercentDecode
<1>3. r = [i \in 1 .. Len(s) + 1 |-> Decoded(s, r, i)]
  BY <1>2, Zenon DEF Decoded
<1>4. \A i \in 1 .. Len(s) + 1 : r[i] = Decoded(s, r, i)
  BY <1>3, Zenon
<1>5. QED
  BY <1>2, <1>4 DEF Decodes

\* The two escapes a client writes.
LEMMA Escapes ==
  /\ IsHex("2", "5") /\ FromHex("2", "5") = "%"
  /\ IsHex("2", "b") /\ FromHex("2", "b") = "+"
<1>1. IsHex("2", "5") /\ IsHex("2", "b")
  BY DEF IsHex
<1>2. FromHex("2", "5") = "%"
  BY DEF FromHex
<1>3. FromHex("2", "b") = "+"
  BY DEF FromHex
<1>4. QED
  BY <1>1, <1>2, <1>3

\* What one text begins with.
Begins(u, v) == \A i \in 1 .. Len(u) : v[i] = u[i]

\* What one text goes on with, behind a number of characters.
GoesOn(n, u, v) == \A i \in 1 .. Len(u) : v[n + i] = u[i]

\* Where a text goes on with the code of a character, the character is decoded.
LEMMA OneDecoded ==
  ASSUME NEW s \in Seq(Chars), NEW r, NEW p \in Nat \ {0}, NEW c \in Bytes, Decodes(r, s),
         NEW e, NEW l \in Nat, e = Code(c), l = Len(e), p + l <= Len(s) + 1,
         GoesOn(p - 1, e, s)
  PROVE  r[p] = <<c>> \o r[p + l]
<1> DEFINE n == Len(s)
<1>0. /\ c = "%" => l = 3 /\ e[1] = "%" /\ e[2] = "2" /\ e[3] = "5"
      /\ c = "+" => l = 3 /\ e[1] = "%" /\ e[2] = "2" /\ e[3] = "b"
      /\ c \notin {"%", "+"} => l = 1 /\ e[1] = IF c = " " THEN "+" ELSE c
  BY CodeIs
<1>1. n \in Nat /\ p + l <= n + 1
  OBVIOUS
<1>2. \A i \in 1 .. l : s[(p - 1) + i] = e[i]
  BY DEF GoesOn
<1>3. \A i \in 1 .. n + 1 : r[i] = Decoded(s, r, i)
  BY DEF Decodes
<1>4. CASE c = "%"
  <2>1. l = 3 /\ e[1] = "%" /\ e[2] = "2" /\ e[3] = "5"
    BY <1>4, <1>0
  <2>2. p + 2 <= n /\ ~(p > n) /\ p \in 1 .. n + 1
    BY ONLY <1>1, <2>1, p \in Nat \ {0}
  <2>3. s[(p - 1) + 1] = "%" /\ s[(p - 1) + 2] = "2" /\ s[(p - 1) + 3] = "5"
    BY <1>2, <2>1
  <2>4. s[p] = "%" /\ s[p + 1] = "2" /\ s[p + 2] = "5"
    BY <2>3
  <2>5. r[p] = Decoded(s, r, p)
    BY <1>3, <2>2
  <2>6. Decoded(s, r, p) = <<FromHex(s[p + 1], s[p + 2])>> \o r[p + 3]
    BY <2>2, <2>4, Escapes, Zenon DEF Decoded
  <2>7. FromHex(s[p + 1], s[p + 2]) = c
    BY <1>4, <2>4, Escapes
  <2>8. QED
    BY <2>1, <2>5, <2>6, <2>7
<1>5. CASE c = "+"
  <2>1. l = 3 /\ e[1] = "%" /\ e[2] = "2" /\ e[3] = "b"
    BY <1>5, <1>0
  <2>2. p + 2 <= n /\ ~(p > n) /\ p \in 1 .. n + 1
    BY ONLY <1>1, <2>1, p \in Nat \ {0}
  <2>3. s[(p - 1) + 1] = "%" /\ s[(p - 1) + 2] = "2" /\ s[(p - 1) + 3] = "b"
    BY <1>2, <2>1
  <2>4. s[p] = "%" /\ s[p + 1] = "2" /\ s[p + 2] = "b"
    BY <2>3
  <2>5. r[p] = Decoded(s, r, p)
    BY <1>3, <2>2
  <2>6. Decoded(s, r, p) = <<FromHex(s[p + 1], s[p + 2])>> \o r[p + 3]
    BY <2>2, <2>4, Escapes, Zenon DEF Decoded
  <2>7. FromHex(s[p + 1], s[p + 2]) = c
    BY <1>5, <2>4, Escapes
  <2>8. QED
    BY <2>1, <2>5, <2>6, <2>7
<1>6. CASE c \notin {"%", "+"}
  <2> DEFINE d == IF c = " " THEN "+" ELSE c
  <2>1. l = 1 /\ e[1] = d
    BY <1>0, <1>6
  <2>2. d # "%" /\ (IF d = "+" THEN " " ELSE d) = c
    BY <1>6
  <2> HIDE DEF d, n
  <2>3. l = 1
    BY <2>1
  <2>4. 1 \in 1 .. l /\ (p - 1) + 1 = p
    BY <2>3
  <2>5. s[p] = d
    BY <1>2, <2>1, <2>4
  <2>6. ~(p > n) /\ p \in 1 .. n + 1
    BY ONLY <1>1, <2>3, p \in Nat \ {0}
  <2>7. r[p] = Decoded(s, r, p)
    BY <1>3, <2>6
  <2>8. Decoded(s, r, p) = <<IF d = "+" THEN " " ELSE d>> \o r[p + 1]
    BY <2>2, <2>5, <2>6, Zenon DEF Decoded, n
  <2>9. QED
    BY <2>2, <2>3, <2>7, <2>8
<1>7. QED
  BY <1>4, <1>5, <1>6

\* The code of a text grows character by character.
Encodes(h, t) ==
  /\ h \in [0 .. Len(t) -> Seq(Chars)]
  /\ h[0] = <<>>
  /\ \A k \in 1 .. Len(t) : h[k] = h[k - 1] \o Code(t[k])
  /\ FormEncode(t) = h[Len(t)]

\* There is such a growth.
LEMMA Encoding ==
  ASSUME NEW t \in Seq(Bytes)
  PROVE  \E h : Encodes(h, t)
BY EncodeTrail DEF Encodes

\* Each step adds one code behind what there is.
LEMMA OneEncoded ==
  ASSUME NEW t \in Seq(Bytes), NEW h, Encodes(h, t), NEW k \in 1 .. Len(t)
  PROVE  /\ t[k] \in Bytes /\ h[k - 1] \in Seq(Chars) /\ h[k] \in Seq(Chars)
         /\ Code(t[k]) \in Seq(Chars)
         /\ Len(h[k]) = Len(h[k - 1]) + Len(Code(t[k]))
         /\ Begins(h[k - 1], h[k]) /\ GoesOn(Len(h[k - 1]), Code(t[k]), h[k])
<1>1. Len(t) \in Nat /\ t[k] \in Bytes
  OBVIOUS
<1>2. k - 1 \in 0 .. Len(t) /\ k \in 0 .. Len(t)
  BY <1>1
<1>3. h[k - 1] \in Seq(Chars) /\ h[k] \in Seq(Chars)
  BY <1>2 DEF Encodes
<1>4. Code(t[k]) \in Seq(Chars)
  BY <1>1, CodeIs
<1>5. h[k] = h[k - 1] \o Code(t[k])
  BY DEF Encodes
<1> DEFINE u == h[k - 1]
           v == Code(t[k])
<1>6. u \in Seq(Chars) /\ v \in Seq(Chars) /\ h[k] = u \o v
  BY <1>3, <1>4, <1>5
<1> HIDE DEF u, v
<1>7. /\ Len(u \o v) = Len(u) + Len(v)
      /\ Begins(u, u \o v) /\ GoesOn(Len(u), v, u \o v)
  BY ONLY <1>6, JoinedTerms DEF Begins, GoesOn
<1>8. QED
  BY <1>1, <1>3, <1>4, <1>6, <1>7 DEF u, v

\* So what there is grows, and begins as it did.
LEMMA OneFurther ==
  ASSUME NEW t \in Seq(Bytes), NEW h, Encodes(h, t), NEW k \in 1 .. Len(t)
  PROVE  /\ Len(h[k - 1]) <= Len(h[k])
         /\ Begins(h[k - 1], h[k])
<1>1. /\ h[k - 1] \in Seq(Chars) /\ Code(t[k]) \in Seq(Chars)
      /\ Len(h[k]) = Len(h[k - 1]) + Len(Code(t[k]))
  BY OneEncoded
<1>2. Begins(h[k - 1], h[k])
  BY OneEncoded
<1>3. Len(h[k - 1]) \in Nat /\ Len(Code(t[k])) \in Nat
  BY <1>1
<1> DEFINE a == Len(h[k - 1])
           c == Len(Code(t[k]))
           b == Len(h[k])
<1>4. a \in Nat /\ c \in Nat /\ b = a + c
  BY <1>1, <1>3
<1> HIDE DEF a, b, c
<1>5. a <= b
  BY ONLY <1>4
<1>6. Len(h[k - 1]) <= Len(h[k])
  BY <1>5, Zenon DEF a, b
<1>7. QED
  BY <1>2, <1>6, Zenon

\* What there is at any step, the whole begins with.
LEMMA EncodedFirst ==
  ASSUME NEW t \in Seq(Bytes), NEW h, Encodes(h, t), NEW k \in 0 .. Len(t)
  PROVE  /\ Len(h[k]) <= Len(FormEncode(t))
         /\ Begins(h[k], FormEncode(t))
<1> DEFINE n == Len(t)
           enc == FormEncode(t)
           Q(j) == /\ Len(h[j]) <= Len(enc)
                   /\ Begins(h[j], enc)
           T == {j \in 0 .. n : Q(n - j)}
<1>1. n \in Nat /\ enc = h[n] /\ h \in [0 .. n -> Seq(Chars)]
  BY DEF Encodes
<1>2. \A j \in 0 .. n : h[j] \in Seq(Chars) /\ Len(h[j]) \in Nat
  BY <1>1
<1>3. 0 \in T
  <2>1. n - 0 = n /\ 0 \in 0 .. n /\ n \in 0 .. n
    BY <1>1
  <2>2. Len(h[n]) \in Nat
    BY <1>2, <2>1
  <2>3. Q(n)
    BY <1>1, <2>2 DEF Begins
  <2>4. QED
    BY <2>1, <2>3
<1>4. ASSUME NEW j \in 1 .. n, j - 1 \in T PROVE j \in T
  <2> DEFINE m == n - j
  <2>1. m + 1 \in 1 .. n /\ n - (j - 1) = m + 1 /\ (m + 1) - 1 = m /\ j \in 0 .. n /\ m \in 0 .. n
    BY <1>1
  <2>2. Q(m + 1)
    BY <1>4, <2>1
  <2>4. Len(h[m]) <= Len(h[m + 1]) /\ Begins(h[m], h[m + 1])
    <3> DEFINE a == m + 1
    <3>1. a \in 1 .. Len(t) /\ a - 1 = m
      BY <2>1
    <3> HIDE DEF a
    <3>2. Len(h[a - 1]) <= Len(h[a])
      BY ONLY <3>1, t \in Seq(Bytes), Encodes(h, t), OneFurther
    <3>3. Begins(h[a - 1], h[a])
      BY ONLY <3>1, t \in Seq(Bytes), Encodes(h, t), OneFurther
    <3>4. QED
      BY <3>1, <3>2, <3>3 DEF a
  <2>5. Len(h[m]) \in Nat /\ Len(h[m + 1]) \in Nat /\ Len(enc) \in Nat
    <3>1. m + 1 \in 0 .. n /\ n \in 0 .. n
      BY <1>1, <2>1
    <3>2. QED
      BY <1>1, <1>2, <2>1, <3>1
  <2> HIDE DEF m, enc
  <2>6. Q(m)
    <3>1. Len(h[m]) <= Len(h[m + 1]) /\ Len(h[m]) <= Len(enc)
      BY ONLY <2>2, <2>4, <2>5
    <3>2. ASSUME NEW i \in 1 .. Len(h[m]) PROVE enc[i] = h[m][i]
      <4>1. i \in 1 .. Len(h[m + 1])
        BY <2>5, <3>1
      <4>2. QED
        BY <2>2, <2>4, <4>1 DEF Begins
    <3>3. Begins(h[m], enc)
      BY <3>2 DEF Begins
    <3>4. QED
      BY <3>1, <3>3
  <2>7. Q(n - j)
    BY <2>6 DEF m
  <2>8. QED
    BY <2>1, <2>7
<1> HIDE DEF T, n
<1>5. \A j \in 0 .. n : j \in T
  BY <1>1, <1>3, <1>4, InductionUpTo
<1>6. n - k \in 0 .. n /\ n - (n - k) = k
  BY <1>1 DEF n
<1>7. QED
  BY <1>5, <1>6 DEF T

\* Where the code of a text is placed behind a prefix.
Placed(pre, h, k) == Len(pre) + Len(h[k]) + 1

\* A character is decoded where its code is placed.
DecodedAt(r, pre, h, t, k) ==
  r[Placed(pre, h, k - 1)] = <<t[k]>> \o r[Placed(pre, h, k)]

\* The decoding of a text behind a prefix.
Prefixed(s, pre, t) == s = pre \o FormEncode(t)

\* One character is decoded where its code is placed.
LEMMA PlacedDecoded ==
  ASSUME NEW pre \in Seq(Chars), NEW t \in Seq(Bytes), NEW h, Encodes(h, t),
         NEW s \in Seq(Chars), Prefixed(s, pre, t), NEW r, Decodes(r, s),
         NEW k \in 1 .. Len(t)
  PROVE  DecodedAt(r, pre, h, t, k)
<1> DEFINE a == Len(h[k - 1])
           b == Len(h[k])
           p == Len(pre)
           e == Code(t[k])
           l == Len(e)
           enc == FormEncode(t)
           x == p + a + 1
<1>1. Len(t) \in Nat /\ k \in 0 .. Len(t) /\ Len(t) \in 0 .. Len(t)
  OBVIOUS
<1>2. enc \in Seq(Chars)
  BY <1>1 DEF Encodes
<1>3. /\ t[k] \in Bytes /\ h[k - 1] \in Seq(Chars) /\ h[k] \in Seq(Chars) /\ e \in Seq(Chars)
      /\ b = a + l
  BY OneEncoded
<1>4. GoesOn(a, e, h[k])
  BY OneEncoded
<1>5. b <= Len(enc) /\ Begins(h[k], enc)
  BY <1>1, EncodedFirst
<1>6. a \in Nat /\ b \in Nat /\ l \in Nat /\ p \in Nat /\ Len(enc) \in Nat
  <2> HIDE DEF enc, e
  <2>1. a \in Nat /\ b \in Nat
    BY <1>3
  <2>2. l \in Nat
    BY <1>3
  <2>3. p \in Nat /\ Len(enc) \in Nat
    BY <1>2
  <2>4. QED
    BY <2>1, <2>2, <2>3
<1>7. Len(s) = p + Len(enc) /\ GoesOn(p, enc, s)
  <2> HIDE DEF enc
  <2>1. Len(pre \o enc) = Len(pre) + Len(enc)
    BY ONLY <1>2, pre \in Seq(Chars), JoinedTerms
  <2>2. \A i \in 1 .. Len(enc) : (pre \o enc)[Len(pre) + i] = enc[i]
    BY ONLY <1>2, pre \in Seq(Chars), JoinedTerms
  <2>3. s = pre \o enc
    BY DEF enc, Prefixed
  <2>4. QED
    BY <2>1, <2>2, <2>3 DEF GoesOn
<1> HIDE DEF a, b, l, p, e, enc, x
<1>8. GoesOn(x - 1, e, s)
  <2>1. ASSUME NEW i \in 1 .. Len(e) PROVE s[(x - 1) + i] = e[i]
    <3>1. i \in 1 .. l
      BY DEF l
    <3>2. a + i \in 1 .. b /\ a + i \in 1 .. Len(enc)
      BY ONLY <1>3, <1>5, <1>6, <3>1
    <3>3. h[k][a + i] = e[i]
      BY <1>4 DEF GoesOn
    <3>4. enc[a + i] = h[k][a + i]
      BY <1>5, <3>2 DEF Begins, b
    <3>5. s[p + (a + i)] = enc[a + i]
      BY <1>7, <3>2 DEF GoesOn
    <3>6. p + (a + i) = (x - 1) + i
      BY ONLY <1>6, <3>1 DEF x
    <3>7. QED
      BY <3>3, <3>4, <3>5, <3>6
  <2>2. QED
    BY <2>1 DEF GoesOn
<1>9. x \in Nat \ {0} /\ x + l <= Len(s) + 1
  BY ONLY <1>3, <1>5, <1>6, <1>7 DEF x
<1>10. e = Code(t[k]) /\ l = Len(e)
  BY DEF e, l
<1>11. r[x] = <<t[k]>> \o r[x + l]
  <2> DEFINE c == t[k]
  <2>1. c \in Bytes /\ e = Code(c)
    BY <1>3, <1>10
  <2> HIDE DEF c
  <2>2. r[x] = <<c>> \o r[x + l]
    BY ONLY s \in Seq(Chars), Decodes(r, s), <1>6, <1>8, <1>9, <1>10, <2>1, OneDecoded
  <2>3. QED
    BY <2>2 DEF c
<1>12. x + l = p + b + 1
  BY ONLY <1>3, <1>6 DEF x
<1>13. Placed(pre, h, k - 1) = x /\ Placed(pre, h, k) = p + b + 1
  BY DEF Placed, x, p, a, b
<1>14. QED
  BY <1>11, <1>12, <1>13 DEF DecodedAt

\* Prefixed any prefix that is decoded by itself the text comes out as it was.
LEMMA DecodedBehind ==
  ASSUME NEW pre \in Seq(Chars), NEW t \in Seq(Bytes),
         NEW s \in Seq(Chars), Prefixed(s, pre, t), NEW r, Decodes(r, s)
  PROVE  r[Len(pre) + 1] = t
<1>1. PICK h : Encodes(h, t)
  BY Encoding
<1>0. ASSUME NEW a \in 1 .. Len(t)
      PROVE  DecodedAt(r, pre, h, t, a)
  BY <1>1, PlacedDecoded
<1> DEFINE n == Len(t)
           at(k) == r[Placed(pre, h, k)]
           Q(k) == at(k) = SubSeq(t, k + 1, n)
           T == {j \in 0 .. n : Q(n - j)}
<1>2. n \in Nat /\ n - 0 = n /\ 0 \in 0 .. n /\ n \in 0 .. n
  OBVIOUS
<1>3. 0 \in T
  <2>1. FormEncode(t) = h[n] /\ h[n] \in Seq(Chars)
    BY <1>1, <1>2 DEF Encodes
  <2>2. Len(s) = Len(pre) + Len(FormEncode(t))
    BY ONLY <2>1, pre \in Seq(Chars), Prefixed(s, pre, t), JoinedTerms DEF Prefixed
  <2>3. Placed(pre, h, n) = Len(s) + 1 /\ Len(s) \in Nat
    BY <2>1, <2>2 DEF Placed
  <2>4. at(n) = Decoded(s, r, Len(s) + 1)
    BY <2>3 DEF Decodes
  <2>5. Decoded(s, r, Len(s) + 1) = <<>>
    <3>1. Len(s) + 1 > Len(s)
      BY <2>3
    <3>2. QED
      BY <3>1, Zenon DEF Decoded
  <2>6. SubSeq(t, n + 1, n) = <<>>
    BY <1>2
  <2>7. Q(n)
    BY <2>4, <2>5, <2>6
  <2>8. QED
    BY <1>2, <2>7
<1>4. ASSUME NEW j \in 1 .. n, j - 1 \in T PROVE j \in T
  <2> DEFINE a == (n - j) + 1
  <2>1. /\ a \in 1 .. n /\ n - (j - 1) = a /\ a - 1 = n - j /\ j \in 0 .. n
        /\ (n - j) + 1 = a
    BY <1>2
  <2>2. at(a) = SubSeq(t, a + 1, n)
    BY <1>4, <2>1
  <2> HIDE DEF a
  <2>3. r[Placed(pre, h, a - 1)] = <<t[a]>> \o r[Placed(pre, h, a)]
    <3>1. a \in 1 .. Len(t)
      BY <2>1
    <3>2. QED
      BY <1>0, <3>1, Zenon DEF DecodedAt
  <2>4. <<t[a]>> \o SubSeq(t, a + 1, Len(t)) = SubSeq(t, a, Len(t))
    BY <2>1, TermAndRest
  <2>5. at(a - 1) = SubSeq(t, a, n)
    BY <2>2, <2>3, <2>4
  <2>6. Q(n - j)
    BY <2>1, <2>5
  <2>7. QED
    BY <2>1, <2>6
<1> HIDE DEF T
<1>5. n \in T
  <2> HIDE DEF n
  <2>1. \A j \in 0 .. n : j \in T
    BY <1>2, <1>3, <1>4, InductionUpTo
  <2>2. QED
    BY <1>2, <2>1
<1>6. n - n = 0 /\ 0 + 1 = 1
  BY <1>2
<1>7. at(0) = SubSeq(t, 1, n)
  BY <1>5, <1>6 DEF T
<1>8. SubSeq(t, 1, n) = t
  OBVIOUS
<1>9. Placed(pre, h, 0) = Len(pre) + 1
  BY <1>1 DEF Placed, Encodes
<1>10. QED
  BY <1>7, <1>8, <1>9

\* What a client has to escape is in a text.
Escaped(t) == \E i \in 1 .. Len(t) : t[i] \in {"%", "+"}

\* The code of a text is made of characters of URLs.
LEMMA CodeOfText ==
  ASSUME NEW t \in Seq(Bytes)
  PROVE  FormEncode(t) \in Seq(Chars)
<1>1. PICK h : Encodes(h, t)
  BY Encoding
<1>2. Len(t) \in 0 .. Len(t)
  OBVIOUS
<1>3. QED
  BY <1>1, <1>2 DEF Encodes

\* What is escaped is seen in the code.
LEMMA EscapeSeen ==
  ASSUME NEW t \in Seq(Bytes), Escaped(t)
  PROVE  \E i \in 1 .. Len(FormEncode(t)) : FormEncode(t)[i] = "%"
<1>1. PICK h : Encodes(h, t)
  BY Encoding
<1>2. PICK k \in 1 .. Len(t) : t[k] \in {"%", "+"}
  BY DEF Escaped
<1> DEFINE a == Len(h[k - 1])
           b == Len(h[k])
           l == Len(Code(t[k]))
           enc == FormEncode(t)
<1>3. /\ t[k] \in Bytes /\ h[k - 1] \in Seq(Chars) /\ h[k] \in Seq(Chars)
      /\ b = a + l
  BY <1>1, OneEncoded
<1>4. GoesOn(a, Code(t[k]), h[k])
  BY <1>1, OneEncoded
<1>5. k \in 0 .. Len(t)
  OBVIOUS
<1>6. b <= Len(enc) /\ Begins(h[k], enc)
  BY <1>1, <1>5, EncodedFirst
<1>7. l = 3 /\ Code(t[k])[1] = "%"
  BY <1>2, <1>3, CodeIs
<1>8. a \in Nat /\ Len(enc) \in Nat
  <2> HIDE DEF enc
  <2>1. enc \in Seq(Chars)
    BY CodeOfText DEF enc
  <2>2. a \in Nat
    BY <1>3
  <2>3. QED
    BY <2>1, <2>2
<1> HIDE DEF a, b, enc
<1>9. h[k][a + 1] = "%"
  BY <1>4, <1>7 DEF GoesOn, l
<1> HIDE DEF l
<1>10. a + 1 \in 1 .. b /\ a + 1 \in 1 .. Len(enc)
  BY ONLY <1>3, <1>6, <1>7, <1>8
<1>11. enc[a + 1] = "%"
  BY <1>6, <1>9, <1>10 DEF Begins, b
<1>12. QED
  BY <1>10, <1>11 DEF enc

\* A text without anything to escape is encoded character by character.
LEMMA PlainCode ==
  ASSUME NEW t \in Seq(Bytes), ~Escaped(t)
  PROVE  /\ Len(FormEncode(t)) = Len(t)
         /\ \A i \in 1 .. Len(t) : FormEncode(t)[i] = IF t[i] = " " THEN "+" ELSE t[i]
<1>1. PICK h : Encodes(h, t)
  BY Encoding
<1> DEFINE n == Len(t)
           enc == FormEncode(t)
           d(k) == IF t[k] = " " THEN "+" ELSE t[k]
           T == {k \in 0 .. n : Len(h[k]) = k}
<1>2. n \in Nat /\ \A k \in 1 .. n : t[k] \in Bytes /\ t[k] \notin {"%", "+"}
  BY DEF Escaped
<1>3. \A k \in 1 .. n : Len(Code(t[k])) = 1 /\ Code(t[k])[1] = d(k)
  BY <1>2, CodeIs
<1> HIDE DEF d
<1>4. ASSUME NEW k \in 1 .. n
      PROVE  Len(h[k]) = Len(h[k - 1]) + 1 /\ h[k][Len(h[k - 1]) + 1] = d(k)
  <2>1. Len(h[k]) = Len(h[k - 1]) + Len(Code(t[k])) /\ GoesOn(Len(h[k - 1]), Code(t[k]), h[k])
    BY <1>1, OneEncoded
  <2> DEFINE l == Len(Code(t[k]))
             a == Len(h[k - 1])
  <2>2. l = 1 /\ Code(t[k])[1] = d(k)
    BY <1>3
  <2>3. \A i \in 1 .. l : h[k][a + i] = Code(t[k])[i]
    BY <2>1 DEF GoesOn
  <2>4. Len(h[k]) = a + l
    BY <2>1
  <2> HIDE DEF l, a
  <2>5. h[k][a + 1] = d(k)
    BY <2>2, <2>3
  <2>6. QED
    BY <2>2, <2>4, <2>5 DEF a
<1>5. 0 \in T
  BY <1>1, <1>2 DEF Encodes
<1>6. ASSUME NEW k \in 1 .. n, k - 1 \in T PROVE k \in T
  <2>1. Len(h[k]) = (k - 1) + 1 /\ k \in 0 .. n
    BY <1>2, <1>4, <1>6
  <2>2. (k - 1) + 1 = k
    BY <1>2
  <2>3. QED
    BY <2>1, <2>2
<1>7. \A k \in 0 .. n : Len(h[k]) = k
  <2> HIDE DEF n, T
  <2>1. \A k \in 0 .. n : k \in T
    BY <1>2, <1>5, <1>6, InductionUpTo
  <2>2. QED
    BY <2>1 DEF T
<1>8. enc = h[n] /\ n \in 0 .. n
  BY <1>1, <1>2 DEF Encodes
<1>9. Len(enc) = n
  BY <1>7, <1>8
<1>10. ASSUME NEW k \in 1 .. n PROVE enc[k] = d(k)
  <2>1. k \in 0 .. Len(t) /\ k \in 0 .. n /\ k - 1 \in 0 .. n /\ (k - 1) + 1 = k
    BY <1>2
  <2>2. Begins(h[k], enc)
    BY <1>1, <2>1, EncodedFirst
  <2>3. Len(h[k]) = k /\ Len(h[k - 1]) = k - 1
    BY <1>7, <2>1
  <2>4. h[k][k] = d(k)
    BY <1>4, <2>1, <2>3
  <2>5. k \in 1 .. Len(h[k])
    BY <1>2, <2>3
  <2>6. QED
    BY <2>2, <2>4, <2>5 DEF Begins
<1>11. QED
  BY <1>9, <1>10 DEF d

\* So an escape is seen in the code of a text exactly if something was to escape.
LEMMA EscapeSeenOnly ==
  ASSUME NEW t \in Seq(Bytes)
  PROVE  Contains(FormEncode(t), "%") <=> Escaped(t)
<1>1. CASE Escaped(t)
  BY <1>1, EscapeSeen DEF Contains
<1>2. CASE ~Escaped(t)
  <2>1. \A i \in 1 .. Len(t) : t[i] # "%"
    BY <1>2 DEF Escaped
  <2>2. \A i \in 1 .. Len(FormEncode(t)) : FormEncode(t)[i] # "%"
    BY <1>2, <2>1, PlainCode
  <2>3. QED
    BY <1>2, <2>2 DEF Contains
<1>3. QED
  BY <1>1, <1>2

\* Such a code is another text exactly if there are spaces.
LEMMA PlainOther ==
  ASSUME NEW t \in Seq(Bytes), ~Escaped(t)
  PROVE  FormEncode(t) # t <=> Contains(t, " ")
<1> DEFINE enc == FormEncode(t)
<1>1. Len(enc) = Len(t) /\ \A i \in 1 .. Len(t) : enc[i] = IF t[i] = " " THEN "+" ELSE t[i]
  BY PlainCode
<1>2. enc \in Seq(Chars) /\ t \in Seq(Chars)
  <2>1. Bytes \subseteq Chars
    BY DEF Chars
  <2>2. QED
    BY <2>1, CodeOfText, SmallerAlphabet
<1> HIDE DEF enc
<1>3. CASE Contains(t, " ")
  <2>1. PICK i \in 1 .. Len(t) : t[i] = " "
    BY <1>3 DEF Contains
  <2>2. enc[i] = "+"
    BY <1>1, <2>1
  <2>3. enc # t
    BY <2>1, <2>2
  <2>4. QED
    BY <1>3, <2>3 DEF enc
<1>4. CASE ~Contains(t, " ")
  <2>1. \A i \in 1 .. Len(t) : t[i] # " "
    BY <1>4 DEF Contains
  <2>2. \A i \in 1 .. Len(enc) : enc[i] = t[i]
    BY <1>1, <2>1
  <2>3. enc = t
    BY <1>1, <1>2, <2>2, SameTerms
  <2>4. QED
    BY <1>4, <2>3 DEF enc
<1>5. QED
  BY <1>3, <1>4

\* The two beginnings of a URL, up to its query.
Plain == <<"z", "?">>
Quoted == <<"%", "2", "5", "?">>

\* The first of them, character by character.
LEMMA PlainIs ==
  /\ Plain \in Seq(Chars) /\ Len(Plain) = 2
  /\ Plain[1] = "z" /\ Plain[2] = "?"
<1> DEFINE S == {"z", "?"}
<1>1. Plain \in Seq(S)
  BY DEF Plain
<1>2. S \subseteq Chars
  BY DEF Chars, Bytes
<1>3. Len(Plain) = 2 /\ Plain[1] = "z" /\ Plain[2] = "?"
  BY DEF Plain
<1> HIDE DEF S
<1>4. Plain \in Seq(Chars)
  BY <1>1, <1>2, SmallerAlphabet
<1>5. QED
  BY <1>3, <1>4

\* The second.
LEMMA QuotedIs ==
  /\ Quoted \in Seq(Chars) /\ Len(Quoted) = 4
  /\ Quoted[1] = "%" /\ Quoted[2] = "2" /\ Quoted[3] = "5" /\ Quoted[4] = "?"
<1> DEFINE S == {"%", "2", "5", "?"}
<1>1. Quoted \in Seq(S)
  BY DEF Quoted
<1>2. S \subseteq Chars
  BY DEF Chars, Bytes
<1>3. Len(Quoted) = 4
  BY DEF Quoted
<1>4. Quoted[1] = "%" /\ Quoted[2] = "2" /\ Quoted[3] = "5" /\ Quoted[4] = "?"
  BY DEF Quoted
<1> HIDE DEF S
<1>5. Quoted \in Seq(Chars)
  BY <1>1, <1>2, SmallerAlphabet
<1>6. QED
  BY <1>3, <1>4, <1>5

\* No text holds a byte that is no UTF-8.
LEMMA NothingRaw ==
  ASSUME NEW u \in Seq(Chars)
  PROVE  ~Contains(u, "raw")
<1>1. \A i \in 1 .. Len(u) : u[i] \in Chars
  OBVIOUS
<1>2. "raw" \notin Chars
  BY DEF Chars, Bytes
<1>3. QED
  BY <1>1, <1>2 DEF Contains

\* What is left of a comparison behind a common beginning.
LEMMA SameBehind ==
  ASSUME NEW p \in Seq(Chars), NEW u \in Seq(Chars), NEW v \in Seq(Chars),
         p \o u = p \o v
  PROVE  u = v
<1>1. /\ Len(p \o u) = Len(p) + Len(u) /\ Len(p \o v) = Len(p) + Len(v)
      /\ \A i \in 1 .. Len(u) : (p \o u)[Len(p) + i] = u[i]
      /\ \A i \in 1 .. Len(v) : (p \o v)[Len(p) + i] = v[i]
  BY JoinedTerms
<1>2. Len(p) \in Nat /\ Len(u) \in Nat /\ Len(v) \in Nat
  OBVIOUS
<1>3. Len(u) = Len(v)
  BY ONLY <1>1, <1>2, p \o u = p \o v
<1>4. \A i \in 1 .. Len(u) : u[i] = v[i]
  BY <1>1, <1>3
<1>5. QED
  BY <1>3, <1>4, SameTerms

\* A text that begins as another does, and the rest of that one.
LEMMA SameBeginning ==
  ASSUME NEW u \in Seq(Chars), NEW v \in Seq(Chars), Len(u) >= 1, Len(v) >= 1, u[1] = v[1]
  PROVE  SubSeq(u, 1, 1) \o SubSeq(v, 1 + 1, Len(v)) = v
<1>1. SubSeq(u, 1, 1) = <<v[1]>>
  <2> DEFINE x == SubSeq(u, 1, 1)
             y == <<v[1]>>
  <2>1. x \in Seq(Chars) /\ Len(x) = 1 /\ x[1] = u[1]
    OBVIOUS
  <2>2. y \in Seq(Chars) /\ Len(y) = 1 /\ y[1] = v[1]
    OBVIOUS
  <2> HIDE DEF x, y
  <2>3. \A i \in 1 .. Len(x) : x[i] = y[i]
    BY <2>1, <2>2
  <2>4. x = y
    BY <2>1, <2>2, <2>3, SameTerms
  <2>5. QED
    BY <2>4 DEF x, y
<1>2. <<v[1]>> \o SubSeq(v, 1 + 1, Len(v)) = SubSeq(v, 1, Len(v))
  <2>1. 1 \in 1 .. Len(v)
    OBVIOUS
  <2>2. QED
    BY <2>1, TermAndRest
<1>3. SubSeq(v, 1, Len(v)) = v
  OBVIOUS
<1>4. QED
  BY <1>1, <1>2, <1>3

\* What follows a beginning, by its position.
LEMMA UrlTerms ==
  ASSUME NEW p \in Seq(Chars), NEW u \in Seq(Chars)
  PROVE  /\ p \o u \in Seq(Chars) /\ Len(p \o u) = Len(p) + Len(u)
         /\ \A i \in 1 .. Len(p) : i \in 1 .. Len(p \o u) /\ (p \o u)[i] = p[i]
         /\ \A c : Contains(p \o u, c) <=> Contains(p, c) \/ Contains(u, c)
<1>1. /\ p \o u \in Seq(Chars) /\ Len(p \o u) = Len(p) + Len(u)
      /\ \A i \in 1 .. Len(p) : (p \o u)[i] = p[i]
      /\ \A i \in 1 .. Len(u) : (p \o u)[Len(p) + i] = u[i]
  BY JoinedTerms
<1>2. Len(p) \in Nat /\ Len(u) \in Nat
  OBVIOUS
<1> DEFINE w == p \o u
<1> HIDE DEF w
<1>3. Len(w) = Len(p) + Len(u)
  BY <1>1 DEF w
<1>4. \A i \in 1 .. Len(p) : i \in 1 .. Len(w)
  BY ONLY <1>2, <1>3
<1>5. \A i \in 1 .. Len(u) : Len(p) + i \in 1 .. Len(w)
  BY ONLY <1>2, <1>3
<1>6. \A i \in 1 .. Len(w) : i \in 1 .. Len(p) \/ \E j \in 1 .. Len(u) : i = Len(p) + j
  <2>1. ASSUME NEW i \in 1 .. Len(w), i \notin 1 .. Len(p) PROVE \E j \in 1 .. Len(u) : i = Len(p) + j
    <3>1. i - Len(p) \in 1 .. Len(u) /\ i = Len(p) + (i - Len(p))
      BY ONLY <1>2, <1>3, <2>1
    <3>2. QED
      BY <3>1
  <2>2. QED
    BY <2>1
<1>7. ASSUME NEW c PROVE Contains(w, c) <=> Contains(p, c) \/ Contains(u, c)
  <2>1. ASSUME Contains(p, c) PROVE Contains(w, c)
    BY <1>1, <1>4, <2>1 DEF Contains, w
  <2>2. ASSUME Contains(u, c) PROVE Contains(w, c)
    BY <1>1, <1>5, <2>2 DEF Contains, w
  <2>3. ASSUME Contains(w, c) PROVE Contains(p, c) \/ Contains(u, c)
    <3>1. PICK i \in 1 .. Len(w) : w[i] = c
      BY <2>3 DEF Contains
    <3>2. CASE i \in 1 .. Len(p)
      BY <1>1, <3>1, <3>2 DEF Contains, w
    <3>3. CASE \E j \in 1 .. Len(u) : i = Len(p) + j
      BY <1>1, <3>1, <3>3 DEF Contains, w
    <3>4. QED
      BY <1>6, <3>2, <3>3
  <2>4. QED
    BY <2>1, <2>2, <2>3
<1>8. QED
  BY <1>1, <1>4, <1>7 DEF w

\* The query of a URL begins where the first question mark is.
LEMMA QueryAt ==
  ASSUME NEW w \in Seq(Chars), NEW q \in 1 .. Len(w), w[q] = "?",
         \A i \in 1 .. q - 1 : w[i] # "?"
  PROVE  Contains(w, "?") /\ QueryStart(w) = q - 1
<1> DEFINE s == {i \in 1 .. Len(w) : w[i] = "?"}
<1>1. Len(w) \in Nat /\ q \in s /\ s \in SUBSET (1 .. Len(w))
  OBVIOUS
<1>2. SelectInSeq(w, LAMBDA c : c = "?") = Min(s)
  BY <1>1 DEF SelectInSeq
<1>3. \A i \in s : q <= i /\ i \in Nat
  BY <1>1
<1>4. Min(s) = q
  <2> DEFINE least == CHOOSE x \in s : \A y \in s : x =< y
  <2>1. \E x \in s : \A y \in s : x =< y
    BY <1>1, <1>3
  <2>2. least \in s /\ \A y \in s : least =< y
    BY <2>1
  <2>3. Min(s) = least
    BY Zenon DEF Min
  <2> HIDE DEF least, s
  <2>4. q \in Nat
    BY <1>1, <1>3
  <2>5. least = q
    BY <1>1, <1>3, <2>2, <2>4
  <2>6. QED
    BY <2>3, <2>5
<1>5. Contains(w, "?")
  BY DEF Contains
<1>6. QED
  BY <1>2, <1>4, <1>5 DEF QueryStart

\* What is decoded of the code of a text alone.
LEMMA DecodedAlone ==
  ASSUME NEW t \in Seq(Bytes)
  PROVE  PercentDecode(FormEncode(t)) = t
<1> DEFINE enc == FormEncode(t)
           p == <<>>
<1>1. enc \in Seq(Chars)
  BY CodeOfText
<1>2. p \in Seq(Chars) /\ Len(p) + 1 = 1
  OBVIOUS
<1>3. Prefixed(enc, p, t)
  <2> HIDE DEF enc
  <2>1. p \o enc = enc
    BY <1>1
  <2>2. QED
    BY <2>1 DEF Prefixed, enc
<1> HIDE DEF enc
<1>4. PICK r : Decodes(r, enc) /\ PercentDecode(enc) = r[1]
  BY <1>1, PercentDecoded
<1> HIDE DEF p
<1>5. r[Len(p) + 1] = t
  BY <1>1, <1>2, <1>3, <1>4, DecodedBehind
<1>6. QED
  BY <1>2, <1>4, <1>5 DEF enc

\* A character that is no escape and no plus sign is decoded as itself.
LEMMA KeptDecoded ==
  ASSUME NEW s \in Seq(Chars), NEW r, Decodes(r, s), NEW i \in 1 .. Len(s), s[i] \notin {"%", "+"}
  PROVE  r[i] = <<s[i]>> \o r[i + 1]
<1>1. Len(s) \in Nat /\ i \in 1 .. Len(s) + 1 /\ ~(i > Len(s))
  OBVIOUS
<1>2. r[i] = Decoded(s, r, i)
  BY <1>1 DEF Decodes
<1>3. Decoded(s, r, i) = <<IF s[i] = "+" THEN " " ELSE s[i]>> \o r[i + 1]
  BY <1>1, Zenon DEF Decoded
<1>4. QED
  BY <1>2, <1>3

\* Three terms in a row.
LEMMA TwoBefore ==
  ASSUME NEW t \in Seq(Chars)
  PROVE  /\ <<"z">> \o (<<"?">> \o t) = <<"z", "?">> \o t
         /\ Len(<<"%">> \o (<<"?">> \o t)) = 2 + Len(t)
         /\ <<"%">> \o (<<"?">> \o t) \in Seq(Chars)
<1> DEFINE q == <<"?">>
           z == <<"z">>
           e == <<"%">>
           b == <<"z", "?">>
<1>1. q \in Seq(Chars) /\ z \in Seq(Chars) /\ e \in Seq(Chars)
  <2>1. "?" \in Chars /\ "z" \in Chars /\ "%" \in Chars
    BY DEF Chars, Bytes
  <2>2. q \in Seq(Chars)
    BY <2>1
  <2>3. z \in Seq(Chars)
    BY <2>1
  <2>4. e \in Seq(Chars)
    BY <2>1
  <2>5. QED
    BY <2>2, <2>3, <2>4
<1>2. Len(q) = 1 /\ Len(z) = 1 /\ Len(e) = 1
  OBVIOUS
<1>3. b = z \o q
  OBVIOUS
<1> HIDE DEF q, z, e, b
<1>4. z \o (q \o t) = (z \o q) \o t
  BY <1>1
<1>5. e \o (q \o t) \in Seq(Chars) /\ Len(e \o (q \o t)) = Len(e) + (Len(q) + Len(t)) /\ Len(t) \in Nat
  BY <1>1
<1>6. Len(e \o (q \o t)) = 2 + Len(t)
  BY ONLY <1>2, <1>5
<1>7. QED
  BY <1>3, <1>4, <1>5, <1>6 DEF q, z, e, b

\* The plain URL decoded.
LEMMA PlainDecoded ==
  ASSUME NEW t \in Seq(Bytes), NEW s \in Seq(Chars), Prefixed(s, Plain, t)
  PROVE  PercentDecode(s) = Plain \o t
<1>1. PICK r : Decodes(r, s) /\ PercentDecode(s) = r[1]
  BY PercentDecoded
<1>2. r[Len(Plain) + 1] = t
  <2>1. Plain \in Seq(Chars)
    BY PlainIs
  <2>2. QED
    BY <1>1, <2>1, DecodedBehind
<1>3. Len(Plain) + 1 = 3
  BY PlainIs
<1>4. 1 \in 1 .. Len(s) /\ 2 \in 1 .. Len(s) /\ s[1] = "z" /\ s[2] = "?"
  <2> DEFINE enc == FormEncode(t)
             n == Len(Plain)
  <2>1. enc \in Seq(Chars) /\ s = Plain \o enc
    BY CodeOfText DEF Prefixed
  <2> HIDE DEF enc
  <2>2. \A i \in 1 .. n : i \in 1 .. Len(s) /\ s[i] = Plain[i]
    BY <2>1, PlainIs, UrlTerms
  <2>3. n = 2
    BY PlainIs
  <2> HIDE DEF n
  <2>4. 1 \in 1 .. n /\ 2 \in 1 .. n
    BY <2>3
  <2>5. QED
    BY <2>2, <2>4, PlainIs
<1>5. r[1] = <<s[1]>> \o r[1 + 1]
  BY <1>1, <1>4, KeptDecoded
<1>6. r[2] = <<s[2]>> \o r[2 + 1]
  BY <1>1, <1>4, KeptDecoded
<1>7. r[1] = <<"z">> \o (<<"?">> \o t)
  <2>1. r[3] = t /\ 1 + 1 = 2 /\ 2 + 1 = 3
    BY <1>2, <1>3
  <2>2. r[2] = <<"?">> \o t
    BY <1>4, <1>6, <2>1
  <2>3. r[1] = <<"z">> \o r[2]
    BY <1>4, <1>5, <2>1
  <2>4. QED
    BY <2>2, <2>3
<1>8. t \in Seq(Chars)
  <2>1. Bytes \subseteq Chars
    BY DEF Chars
  <2>2. QED
    BY <2>1, SmallerAlphabet
<1>9. QED
  BY <1>1, <1>7, <1>8, TwoBefore DEF Plain

\* The URL with an escape in its path decoded.
LEMMA QuotedDecoded ==
  ASSUME NEW t \in Seq(Bytes), NEW s \in Seq(Chars), Prefixed(s, Quoted, t)
  PROVE  PercentDecode(s) = <<"%">> \o (<<"?">> \o t)
<1>1. PICK r : Decodes(r, s) /\ PercentDecode(s) = r[1]
  BY PercentDecoded
<1>2. r[Len(Quoted) + 1] = t
  <2>1. Quoted \in Seq(Chars)
    BY QuotedIs
  <2>2. QED
    BY <1>1, <2>1, DecodedBehind
<1>3. Len(Quoted) + 1 = 5
  BY QuotedIs
<1>4. /\ 1 \in 1 .. Len(s) /\ 3 \in 1 .. Len(s) /\ 4 \in 1 .. Len(s)
      /\ s[1] = "%" /\ s[2] = "2" /\ s[3] = "5" /\ s[4] = "?"
  <2> DEFINE enc == FormEncode(t)
             n == Len(Quoted)
  <2>1. enc \in Seq(Chars) /\ s = Quoted \o enc
    BY CodeOfText DEF Prefixed
  <2> HIDE DEF enc
  <2>2. \A i \in 1 .. n : i \in 1 .. Len(s) /\ s[i] = Quoted[i]
    BY <2>1, QuotedIs, UrlTerms
  <2>3. n = 4
    BY QuotedIs
  <2> HIDE DEF n
  <2>4. 1 \in 1 .. n /\ 2 \in 1 .. n /\ 3 \in 1 .. n /\ 4 \in 1 .. n
    BY <2>3
  <2>5. QED
    BY <2>2, <2>4, QuotedIs
<1>5. r[1] = <<FromHex(s[2], s[3])>> \o r[4]
  <2> DEFINE n == Len(s)
  <2>1. n \in Nat /\ 1 \in 1 .. n + 1 /\ ~(1 > n) /\ 1 + 2 <= n
    BY <1>4
  <2>2. r[1] = Decoded(s, r, 1)
    BY <1>1, <2>1 DEF Decodes
  <2>3. 1 + 1 = 2 /\ 1 + 2 = 3 /\ 1 + 3 = 4
    OBVIOUS
  <2>4. s[1 + 1] = s[2] /\ s[1 + 2] = s[3] /\ r[1 + 3] = r[4]
    BY <2>3
  <2>5. IsHex(s[1 + 1], s[1 + 2])
    BY <1>4, <2>4, Escapes
  <2>6. Decoded(s, r, 1) = <<FromHex(s[1 + 1], s[1 + 2])>> \o r[1 + 3]
    BY <1>4, <2>1, <2>5, Zenon DEF Decoded
  <2>7. QED
    BY <2>2, <2>4, <2>6
<1>6. r[4] = <<s[4]>> \o r[4 + 1]
  BY <1>1, <1>4, KeptDecoded
<1>7. FromHex(s[2], s[3]) = "%"
  BY <1>4, Escapes
<1>8. r[1] = <<"%">> \o (<<"?">> \o t)
  <2>1. r[5] = t /\ 4 + 1 = 5
    BY <1>2, <1>3
  <2>2. r[4] = <<"?">> \o t
    BY <1>4, <1>6, <2>1
  <2>3. QED
    BY <1>5, <1>7, <2>2
<1>9. QED
  BY <1>1, <1>8

\* A client's text whose spaces nobody sees.
Unseen(t) == Contains(t, " ") /\ ~Contains(t, "%") /\ ~Contains(t, "+")

\* It has spaces and nothing to escape.
LEMMA UnseenIs ==
  ASSUME NEW t \in Seq(Bytes)
  PROVE  Unseen(t) <=> ~Escaped(t) /\ Contains(t, " ")
BY DEF Unseen, Escaped, Contains

\* A text is decoded as it was, but for spaces nobody sees.
LEMMA TextSeen ==
  ASSUME NEW t \in Seq(Bytes)
  PROVE  MaybeDecode(FormEncode(t)) # t <=> Unseen(t)
<1>1. t \in Seq(Chars)
  <2>1. Bytes \subseteq Chars
    BY DEF Chars
  <2>2. QED
    BY <2>1, SmallerAlphabet
<1>2. CASE Escaped(t)
  <2>1. Contains(FormEncode(t), "%") /\ PercentDecode(FormEncode(t)) = t /\ ~Contains(t, "raw")
    BY <1>1, <1>2, EscapeSeenOnly, DecodedAlone, NothingRaw
  <2>2. MaybeDecode(FormEncode(t)) = t
    BY <2>1, Zenon DEF MaybeDecode
  <2>3. QED
    BY <1>2, <2>2, UnseenIs
<1>3. CASE ~Escaped(t)
  <2>1. ~Contains(FormEncode(t), "%")
    BY <1>3, EscapeSeenOnly
  <2>2. MaybeDecode(FormEncode(t)) = FormEncode(t)
    BY <2>1, Zenon DEF MaybeDecode
  <2>3. QED
    BY <1>3, <2>2, UnseenIs, PlainOther
<1>4. QED
  BY <1>2, <1>3

\* So is the query of a URL, whose position is right and inside the text.
LEMMA PlainSeen ==
  ASSUME NEW t \in Seq(Bytes), NEW s \in Seq(Chars), Prefixed(s, Plain, t)
  PROVE  ~ScanUrlPanics(s) /\ (UrlText(s) # Plain \o t <=> Unseen(t))
<1> DEFINE enc == FormEncode(t)
           md == MaybeDecode(s)
<1>1. t \in Seq(Chars) /\ enc \in Seq(Chars) /\ Plain \in Seq(Chars)
  <2>1. Bytes \subseteq Chars
    BY DEF Chars
  <2>2. QED
    BY <2>1, SmallerAlphabet, CodeOfText, PlainIs
<1>2. s = Plain \o enc
  BY DEF Prefixed
<1> HIDE DEF enc, md
<1>3. ASSUME NEW u \in Seq(Chars)
      PROVE  /\ Plain \o u \in Seq(Chars) /\ Len(Plain \o u) >= 2
             /\ (Plain \o u)[1] = "z" /\ (Plain \o u)[2] = "?"
  <2> DEFINE n == Len(Plain)
             w == Plain \o u
  <2>1. w \in Seq(Chars) /\ Len(w) = n + Len(u) /\ \A i \in 1 .. n : w[i] = Plain[i]
    BY <1>1, UrlTerms
  <2>2. n = 2 /\ Len(u) \in Nat
    BY PlainIs
  <2> HIDE DEF n, w
  <2>3. 1 \in 1 .. n /\ 2 \in 1 .. n
    BY <2>2
  <2>4. w[1] = "z" /\ w[2] = "?"
    BY <2>1, <2>3, PlainIs
  <2>5. Len(w) >= 2
    BY ONLY <2>1, <2>2
  <2>6. QED
    BY <2>1, <2>4, <2>5 DEF w
<1>4. Len(s) >= 2 /\ s[1] = "z" /\ s[2] = "?"
  BY <1>1, <1>2, <1>3
<1>5. Contains(s, "?") /\ QueryStart(s) = 1
  <2>1. 2 \in 1 .. Len(s) /\ 2 - 1 = 1
    BY <1>4
  <2>2. \A i \in 1 .. 2 - 1 : s[i] # "?"
    BY <1>4
  <2>3. QED
    BY <1>4, <2>1, <2>2, QueryAt
<1>6. Contains(s, "%") <=> Escaped(t)
  <2>1. ~Contains(Plain, "%")
    <3>1. \A i \in 1 .. Len(Plain) : i = 1 \/ i = 2
      BY PlainIs
    <3>2. QED
      BY <3>1, PlainIs DEF Contains
  <2>2. Contains(s, "%") <=> Contains(Plain, "%") \/ Contains(enc, "%")
    BY <1>1, <1>2, UrlTerms
  <2>3. QED
    BY <2>1, <2>2, EscapeSeenOnly DEF enc
<1>7. md = Plain \o t \/ md = Plain \o enc
  <2>1. PercentDecode(s) = Plain \o t
    BY PlainDecoded
  <2>2. QED
    BY <1>2, <2>1, Zenon DEF md, MaybeDecode
<1>8. md \in Seq(Chars) /\ Len(md) >= 2 /\ md[1] = "z"
  BY <1>1, <1>3, <1>7
<1>9. ~ScanUrlPanics(s)
  <2>1. ~(1 > Len(md))
    BY <1>8
  <2>2. QED
    BY <1>5, <2>1 DEF ScanUrlPanics, md
<1>10. UrlText(s) = md
  <2>1. Len(s) >= 1 /\ Len(md) >= 1 /\ s[1] = md[1]
    BY <1>4, <1>8
  <2>2. SubSeq(s, 1, 1) \o SubSeq(md, 1 + 1, Len(md)) = md
    BY <1>8, <2>1, SameBeginning
  <2>3. UrlText(s) = SubSeq(s, 1, 1) \o SubSeq(md, 1 + 1, Len(md))
    BY <1>5, Zenon DEF UrlText, md
  <2>4. QED
    BY <2>2, <2>3
<1>11. md # Plain \o t <=> Unseen(t)
  <2>1. CASE Escaped(t)
    <3>1. PercentDecode(s) = Plain \o t
      BY PlainDecoded
    <3>2. ~Contains(Plain \o t, "raw")
      BY <1>1, <1>3, NothingRaw
    <3>3. md = Plain \o t
      BY <1>6, <2>1, <3>1, <3>2, Zenon DEF md, MaybeDecode
    <3>4. QED
      BY <2>1, <3>3, UnseenIs
  <2>2. CASE ~Escaped(t)
    <3>1. md = Plain \o enc
      BY <1>2, <1>6, <2>2, Zenon DEF md, MaybeDecode
    <3>2. Plain \o enc = Plain \o t => enc = t
      BY <1>1, SameBehind
    <3>3. enc # t <=> Contains(t, " ")
      BY <2>2, PlainOther DEF enc
    <3>4. QED
      BY <2>2, <3>1, <3>2, <3>3, UnseenIs
  <2>3. QED
    BY <2>1, <2>2
<1>12. QED
  BY <1>9, <1>10, <1>11

\* With an escape in the path it lies two places to the front.
LEMMA QuotedPanics ==
  ASSUME NEW t \in Seq(Bytes), NEW s \in Seq(Chars), Prefixed(s, Quoted, t)
  PROVE  ScanUrlPanics(s) <=> t = <<>>
<1> DEFINE enc == FormEncode(t)
           md == MaybeDecode(s)
           d == <<"%">> \o (<<"?">> \o t)
<1>1. t \in Seq(Chars) /\ enc \in Seq(Chars) /\ Quoted \in Seq(Chars)
  <2>1. Bytes \subseteq Chars
    BY DEF Chars
  <2>2. QED
    BY <2>1, SmallerAlphabet, CodeOfText, QuotedIs
<1>2. s = Quoted \o enc
  BY DEF Prefixed
<1> HIDE DEF enc
<1>3. d \in Seq(Chars) /\ Len(d) = 2 + Len(t)
  BY <1>1, TwoBefore
<1>4. PercentDecode(s) = d
  BY QuotedDecoded
<1> HIDE DEF d, md
<1>5. Len(s) >= 4 /\ s[1] = "%" /\ s[2] = "2" /\ s[3] = "5" /\ s[4] = "?"
  <2> DEFINE n == Len(Quoted)
  <2>1. Len(s) = n + Len(enc) /\ \A i \in 1 .. n : s[i] = Quoted[i]
    BY <1>1, <1>2, UrlTerms
  <2>2. n = 4 /\ Len(enc) \in Nat
    BY <1>1, QuotedIs
  <2> HIDE DEF n
  <2>3. 1 \in 1 .. n /\ 2 \in 1 .. n /\ 3 \in 1 .. n /\ 4 \in 1 .. n
    BY <2>2
  <2>4. Len(s) >= 4
    BY ONLY <2>1, <2>2
  <2>5. QED
    BY <2>1, <2>3, <2>4, QuotedIs
<1>6. Contains(s, "?") /\ QueryStart(s) = 3
  <2>1. 4 \in 1 .. Len(s) /\ 4 - 1 = 3
    BY <1>5
  <2>2. \A i \in 1 .. 4 - 1 : s[i] # "?"
    <3>1. \A i \in 1 .. 4 - 1 : i = 1 \/ i = 2 \/ i = 3
      OBVIOUS
    <3>2. QED
      BY <1>5, <3>1
  <2>3. QED
    BY <1>5, <2>1, <2>2, QueryAt
<1>7. md = d
  <2>1. Contains(s, "%")
    <3>1. 1 \in 1 .. Len(s)
      BY <1>5
    <3>2. QED
      BY <1>5, <3>1 DEF Contains
  <2>2. ~Contains(d, "raw")
    BY <1>3, NothingRaw
  <2>3. QED
    BY <1>4, <2>1, <2>2, Zenon DEF md, MaybeDecode
<1>8. ScanUrlPanics(s) <=> 3 > Len(md)
  BY <1>6, Zenon DEF ScanUrlPanics, md
<1>9. 3 > Len(md) <=> Len(t) = 0
  <2>1. Len(t) \in Nat
    OBVIOUS
  <2>2. QED
    BY ONLY <1>3, <1>7, <2>1
<1>10. Len(t) = 0 <=> t = <<>>
  OBVIOUS
<1>11. QED
  BY <1>8, <1>9, <1>10

\* Whatever a client form-encodes (dpi_engine.rs:570-584, :697-734).
THEOREM SentIsDecoded == InspectionSpec => []DecodesWhatWasSent
<1>1. InspectedInv => DecodesWhatWasSent
  <2> SUFFICES ASSUME InspectedInv PROVE DecodesWhatWasSent
    OBVIOUS
  <2>1. text \in Seq(Bytes)
    BY DEF InspectedInv
  <2>2. MaybeDecode(FormEncode(text)) # text <=> Unseen(text)
    BY <2>1, TextSeen
  <2>3. FormEncode(text) \in Seq(Chars) /\ Plain \in Seq(Chars) /\ Quoted \in Seq(Chars)
    BY <2>1, CodeOfText, PlainIs, QuotedIs
  <2>4. ~ScanUrlPanics(PlainUrl) /\ (UrlText(PlainUrl) # Plain \o text <=> Unseen(text))
    <3>1. PlainUrl \in Seq(Chars)
      BY <2>3, JoinedTerms DEF PlainUrl, Plain
    <3>2. Prefixed(PlainUrl, Plain, text)
      BY DEF Prefixed, PlainUrl, Plain
    <3>3. QED
      BY <2>1, <3>1, <3>2, PlainSeen
  <2>5. ScanUrlPanics(EscapedUrl) <=> text = <<>>
    <3>1. EscapedUrl \in Seq(Chars)
      BY <2>3, JoinedTerms DEF EscapedUrl, Quoted
    <3>2. Prefixed(EscapedUrl, Quoted, text)
      BY DEF Prefixed, EscapedUrl, Quoted
    <3>3. QED
      BY <2>1, <3>1, <3>2, QuotedPanics
  <2>6. QED
    BY <2>2, <2>4, <2>5, Zenon DEF DecodesWhatWasSent, Unseen, Plain
<1>2. QED
  BY <1>1, InspectedOnly, PTL
===============================================================================
