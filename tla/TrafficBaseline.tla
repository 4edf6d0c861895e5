--------------------------- MODULE TrafficBaseline ---------------------------
(***************************************************************************)
(* The other half of BehavioralAnalyzer (behavioral_analyzer.rs:100-231):   *)
(* the window of samples, the baseline computed of it and the buckets of   *)
(* the hours, which share nothing with the paths of BehavioralAnalyzer.    *)
(*                                                                         *)
(* Samples are whole numbers.  Sums, averages and shares are exact, except *)
(* that a share is rounded down to a hundredth.                            *)
(***************************************************************************)
EXTENDS Integers, FiniteSetsExt, SequencesExt

CONSTANTS Recorders,         \* tasks that call record_sample
          Samples,           \* what they record: [value, hour]
          Probes,            \* values given to score_anomaly
          WindowSize,        \* detection_window_seconds * 100
          Alpha, AlphaUnit,  \* ema_alpha = Alpha / AlphaUnit
          AnomalyThreshold,  \* in hundredths
          MaxRecorded,       \* bound: samples of one behaviour
          NoSample

ASSUME BaselineAssumption ==
  /\ WindowSize \in Nat \ {0} /\ Alpha \in Nat /\ AlphaUnit \in Nat \ {0}
  /\ \A s \in Samples : s.value \in Nat /\ s.hour \in 0 .. 23
  /\ NoSample \notin Samples

\* The defaults, 0.1 and 0.85 (config.rs:385-389), are among these.  With a lower
\* threshold a drop would count as an outlier, with a higher one nothing would.
ASSUME OutlierAssumption ==
  /\ Alpha < AlphaUnit /\ Alpha > 0 /\ AnomalyThreshold \in 84 .. 99 /\ Probes \subseteq Nat

VARIABLES samples,   \* values, the oldest first
          baseline,
          hourly,    \* hourly_patterns: avg_latency is total / request_count
          pending,   \* the sample whose hour a recorder has still to count
          recorded   \* history: every sample, in the order of the baseline

baselineVars == <<samples, baseline, hourly, pending, recorded>>

\* min and max of the default are out of reach: no one reads them of no samples.
DefaultBaseline ==
  [sample_count |-> 0, sum |-> 0, squares |-> 0, min |-> 0, max |-> 0,
   ema |-> [num |-> 0, den |-> 1]]

BaselineInit ==
  /\ samples = <<>> /\ recorded = <<>>
  /\ baseline = DefaultBaseline
  /\ hourly = [h \in 0 .. 23 |-> [request_count |-> 0, total |-> 0]]
  /\ pending = [r \in Recorders |-> NoSample]

Blend(ema, v) ==
  LET alpha == Min({Alpha, AlphaUnit})
  IN  [num |-> alpha * v * ema.den + (AlphaUnit - alpha) * ema.num, den |-> AlphaUnit * ema.den]

ComputeEma(values) == FoldLeft(Blend, [num |-> Head(values), den |-> 1], Tail(values))

SumOf(values) == FoldLeft(LAMBDA x, v : x + v, 0, values)
SquaresOf(values) == FoldLeft(LAMBDA x, v : x + v * v, 0, values)

CalculateBaseline(values) ==
  IF values = <<>> THEN DefaultBaseline
  ELSE [sample_count |-> Len(values),
        sum |-> SumOf(values), squares |-> SquaresOf(values),
        min |-> Min(ToSet(values)), max |-> Max(ToSet(values)),
        ema |-> ComputeEma(values)]

\* Faulty variant: a full window gives up its newest sample.
SlideNewest(values) == IF Len(values) > WindowSize THEN Front(values) ELSE values

Slide(values) == IF Len(values) > WindowSize THEN Tail(values) ELSE values

\* The locks of baseline and samples are held together (:124-125).
UpdateBaseline(r, s) ==
  /\ pending[r] = NoSample /\ Len(recorded) < MaxRecorded
  /\ samples' = Slide(Append(samples, s.value))
  /\ baseline' = CalculateBaseline(samples')
  /\ pending' = [pending EXCEPT ![r] = s]
  /\ recorded' = Append(recorded, s)
  /\ UNCHANGED hourly

CountHour(r) ==
  /\ pending[r] # NoSample
  /\ hourly' = [hourly EXCEPT ![pending[r].hour] =
                  [request_count |-> @.request_count + 1, total |-> @.total + pending[r].value]]
  /\ pending' = [pending EXCEPT ![r] = NoSample]
  /\ UNCHANGED <<samples, baseline, recorded>>

RecordSample == \E r \in Recorders : CountHour(r) \/ \E s \in Samples : UpdateBaseline(r, s)

BaselineSpec == BaselineInit /\ [][RecordSample]_baselineVars

----------------------------------------------------------------------------
(* score_anomaly and detect_temporal_anomaly, which store nothing.          *)

\* normalize_score, of numerator / denominator, in hundredths.
NormalizeScore(numerator, denominator) == Min({100, (100 * numerator) \div denominator})

Distance(x, y) == IF x > y THEN x - y ELSE y - x

\* A third of the distance from the mean in standard deviations: both are square
\* roots of whole numbers, sample_count times too large.
ZScore(v, b) ==
  LET variance == b.sample_count * b.squares - b.sum * b.sum
      deviation == Distance(b.sample_count * v, b.sum)
  IN  IF variance > 0 /\ b.sample_count > 3
        THEN Max({k \in 0 .. 100 : 9 * k * k * variance <= 10000 * deviation * deviation})
        ELSE 0

EmaDeviation(v, b) ==
  IF b.ema.num > 0
    THEN NormalizeScore(Distance(v * b.ema.den, b.ema.num), 2 * b.ema.num)
    ELSE 0

PercentileOutlier(v, b) ==
  IF b.max > b.min /\ b.sample_count > 5 /\ v \notin b.min .. b.max
    THEN NormalizeScore(100 * Distance(2 * v, b.min + b.max), 95 * (b.max - b.min))
    ELSE 0

\* overall > anomaly_threshold
Anomalous(v, b) ==
  ZScore(v, b) + EmaDeviation(v, b) + PercentileOutlier(v, b) > 3 * AnomalyThreshold

\* overall, in hundredths
DetectTemporalAnomaly(h, weekend) ==
  LET off_hours == IF h \in 1 .. 5 /\ hourly[h].request_count > 0 THEN 15 ELSE 0
  IN  (off_hours + (IF weekend THEN 10 ELSE 0)) \div 2

----------------------------------------------------------------------------
\* The samples a full window holds.
InWindow == [i \in 1 .. Min({WindowSize, Len(recorded)}) |->
             recorded[Len(recorded) - i + 1].value]

\* Whoever records, in whatever order: a sample three times as large as any of the
\* last WindowSize is anomalous, once there are six and as long as they are not all
\* the same (steady traffic hides everything, :139, :157).  Nothing else is called
\* anomalous but what is above all of these: not what another task has just
\* recorded, and no drop, however deep, for its three shares stop at 1, 1/2 and 1.
\* An hour counts as night once a sample of it is recorded to the end.
OutliersReported ==
  LET last == ToSet(InWindow)
  IN  /\ \A v \in Probes :
           /\ Anomalous(v, baseline) => Len(InWindow) >= 6 /\ \A w \in last : v > w
           /\ /\ Len(InWindow) >= 6 /\ Cardinality(last) > 1
              /\ \A w \in last : v >= 3 * w
              => Anomalous(v, baseline)
      /\ \A h \in 0 .. 23 :
           DetectTemporalAnomaly(h, FALSE) > 0 <=>
             /\ h \in 1 .. 5
             /\ Cardinality({i \in DOMAIN recorded : recorded[i].hour = h})
                  > Cardinality({r \in Recorders : pending[r] # NoSample /\ pending[r].hour = h})
=============================================================================
