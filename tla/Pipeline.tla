------------------------------- MODULE Pipeline -------------------------------
(***************************************************************************)
(* The request pipeline (src/io/network.rs:273-526): process_request reads *)
(* the body of a request and calls the engines one after the other.  Every *)
(* engine keeps its state under locks of its own, so requests of several   *)
(* connections interleave between any two of the calls.                    *)
(*                                                                         *)
(* The engines that decide are those of their own modules:                 *)
(* ProtocolValidator and DpiEngine are operators; the rate limiter, the    *)
(* behavioural analyzer and the response engine are instances over the     *)
(* state of this module, the analyzer with its locks, in which a request   *)
(* can wait for others.  The bands of the three scores are chosen by the   *)
(* environment; threat intelligence and the bot score wait for nobody      *)
(* here (nothing in src/ changes the feeds or updates them while the       *)
(* server runs).  The decision of the ingress filter is thrown away        *)
(* (:451) and never an error, so nothing of it is left here.  Metrics are  *)
(* left out.                                                               *)
(*                                                                         *)
(* One clock serves both engines, in seconds.  The program is built with   *)
(* panic = "abort" (Cargo.toml), so a panic ends it with every request.    *)
(***************************************************************************)
EXTENDS ProtocolValidator, DpiEngine

CONSTANTS Connections, Ips,
          Bodies,       \* the bodies of requests, as the two engines see them
          Scores,       \* what the three score engines may answer
          PerIpLimit, BurstMultiplier, Global,
          MaxEscalation, Threshold, Window, BlockSeconds, Lag, MaxRecent,
          Paths, MaxSequence, MaxHistory, Drained, NoPath,
          MaxNow,       \* bound on the clock
          MaxRequests,  \* bound on the requests of one behaviour
          NoBucket, NoState, NotBlocked, NoRequest

\* A body matches finitely many signatures, whatever they are.
ASSUME InputsAssumption ==
  /\ IsFiniteSet(Connections)
  /\ \A body \in Bodies : IsFiniteSet(body.text.hits)
  /\ Scores \subseteq [bot : 0 .. 3, threat_intel : 0 .. 2, anomaly : 0 .. 2]
  /\ Global \notin Ips /\ NoRequest \notin Ips \cup {Global}
  /\ NoBucket \notin [tokens : Nat, capacity : Nat, last_refill : Nat]
  /\ NotBlocked \notin Nat

ASSUME AnalysisAssumption ==
  /\ MaxSequence \in Nat \ {0} /\ MaxHistory \in Nat
  /\ Drained \in 1 .. MaxHistory
  /\ NoRequest \notin Connections /\ NoPath \notin Paths

\* AppState builds the response engine with Block as the highest action.
ASSUME SettingsAssumption ==
  /\ PerIpLimit \in Nat /\ BurstMultiplier \in Nat \ {0}
  /\ MaxEscalation = 4 /\ Threshold \in Nat \ {0}
  /\ Window \in Nat /\ BlockSeconds \in Nat /\ Lag \in Nat
  /\ Window + Lag < BlockSeconds
  /\ MaxRecent \in Nat \ {0} /\ MaxNow \in Nat

VARIABLES stage,     \* where the request of a connection is
          request,   \* that request
          found,     \* its DecisionContext, filled by the engines
          answer,    \* the status of the last answer on a connection
          up,        \* the process has not aborted
          now, bucket, admitted,      \* the rate limiter's
          sequence, transitions, history, writer, readers,
          analysis, tracked, previous,  \* the behavioural analyzer's
          states, recent, reply,      \* the response engine's
          received,  \* requests so far
          served     \* history: requests of a client answered 200

Contexts == [dpi_threats : Nat, bot : 0 .. 3, threat_intel : 0 .. 2, anomaly : 0 .. 2,
             rate_limit : 0 .. 1]

Engine == INSTANCE ResponseEngine

Analyzer == INSTANCE BehavioralAnalyzer WITH
  Requests <- Connections, pc <- analysis, path <- tracked

\* check_rate is not called: no task, session or endpoint.
Limiter == INSTANCE RateLimiter WITH
  Tasks <- {}, Sessions <- {}, Endpoints <- {}, Operated <- Ips,
  DefaultRps <- PerIpLimit, PerSessionLimit <- PerIpLimit, PerEndpointLimit <- PerIpLimit,
  TicksPerSecond <- 1, MaxClock <- MaxNow, MaxGift <- 0, None <- NoRequest,
  clock <- now, pc <- [t \in {} |-> "idle"], req <- [t \in {} |-> NoRequest],
  given <- [k \in {Global} \cup Ips |-> 0]

limiterVars == <<bucket, admitted>>
analyzerVars == <<sequence, transitions, history, writer, readers, analysis, tracked, previous>>
engineVars == <<states, recent, reply>>
vars == <<stage, request, found, answer, up, now, limiterVars, analyzerVars, engineVars,
          received, served>>

(* "inspect"  about to be scanned (:473)                                    *)
(* "behave"   in the analyzer (:480-484), at a place of its own             *)
Stages == {"idle", "reading", "rate", "inspect", "behave", "decide"}
Nothing == [dpi_threats |-> 0, bot |-> 0, threat_intel |-> 0, anomaly |-> 0, rate_limit |-> 0]

PipelineInit ==
  /\ Engine!Init
  /\ Limiter!Init
  /\ Analyzer!Init
  /\ stage = [c \in Connections |-> "idle"]
  /\ request = [c \in Connections |-> NoRequest]
  /\ found = [c \in Connections |-> Nothing]
  /\ answer = [c \in Connections |-> 0]
  /\ up = TRUE
  /\ received = 0
  /\ served = [ip \in Ips |-> 0]

----------------------------------------------------------------------------
At(c, s) == up /\ stage[c] = s
Goto(c, s) == stage' = [stage EXCEPT ![c] = s]

\* :285-307, :404-420: the request is over, with an answer or (0) without.
Reply(c, status) ==
  /\ Goto(c, "idle")
  /\ answer' = [answer EXCEPT ![c] = status]
  /\ request' = [request EXCEPT ![c] = NoRequest]
  /\ found' = [found EXCEPT ![c] = Nothing]

\* :325-340, a request whose head hyper has read.
Receive(c, ip, body) ==
  /\ At(c, "idle")
  /\ received < MaxRequests
  /\ received' = received + 1
  /\ request' = [request EXCEPT ![c] = [ip |-> ip, body |-> body]]
  /\ answer' = [answer EXCEPT ![c] = 0]
  /\ Goto(c, "reading")
  /\ UNCHANGED <<found, up, now, limiterVars, analyzerVars, engineVars, served>>

\* :341-343 with an error, or the timeout of the connection (:232), which can
\* only fire here: run_pipeline awaits nothing.
BodyFails(c) ==
  /\ At(c, "reading")
  /\ \E status \in {0, 500} : Reply(c, status)
  /\ UNCHANGED <<up, now, limiterVars, analyzerVars, engineVars, received, served>>

\* :341-343 and :454-461, once the body is there; it is what is validated.
Validate(c) ==
  /\ At(c, "reading")
  /\ \/ /\ ValidateHttpRequest(request[c].body.head).passed
        /\ Goto(c, "rate")
        /\ UNCHANGED <<request, found, answer>>
     \/ /\ ~ValidateHttpRequest(request[c].body.head).passed
        /\ Reply(c, 400)
  /\ UNCHANGED <<up, now, limiterVars, analyzerVars, engineVars, received, served>>

\* Faulty variant: the decision of the limiter is dropped.
CheckRateIgnored(c) ==
  /\ At(c, "rate")
  /\ Limiter!CheckScope(request[c].ip)
  /\ Goto(c, "inspect")
  /\ UNCHANGED <<request, found, answer, up, analyzerVars, engineVars, received, served>>

\* :463-471.
CheckRate(c) ==
  /\ At(c, "rate")
  /\ Limiter!CheckScope(request[c].ip)
  /\ found' = [found EXCEPT ![c].rate_limit =
                 IF Limiter!Affordable(request[c].ip) THEN 0 ELSE 1]
  /\ Goto(c, "inspect")
  /\ UNCHANGED <<request, answer, up, analyzerVars, engineVars, received, served>>

\* :473-481: the scan, and the request arrives in the analyzer with its path.
Inspect(c) ==
  /\ At(c, "inspect")
  /\ ~ScanPanics(request[c].body.text)
  /\ found' = [found EXCEPT ![c].dpi_threats = Cardinality(ScanPayload(request[c].body.text))]
  /\ \E p \in Paths : Analyzer!Arrive(c, p)
  /\ Goto(c, "behave")
  /\ UNCHANGED <<request, answer, up, now, limiterVars, engineVars, received, served>>

\* :480-484: one step of track_request_sequence or check_pattern_deviation.
Behave(c) ==
  /\ At(c, "behave")
  /\ Analyzer!Track(c) \/ Analyzer!Check(c)
  /\ UNCHANGED <<stage, request, found, answer, up, now, limiterVars, engineVars, received, served>>

\* :483-498: both have returned, with the anomaly score; threat intelligence and
\* the bot score follow.
Score(c) ==
  /\ At(c, "behave")
  /\ analysis[c] = "done"
  /\ analysis' = [analysis EXCEPT ![c] = "new"]
  /\ \E s \in Scores :
       found' = [found EXCEPT ![c] =
         [dpi_threats |-> @.dpi_threats, bot |-> s.bot, threat_intel |-> s.threat_intel,
          anomaly |-> s.anomaly, rate_limit |-> @.rate_limit]]
  /\ Goto(c, "decide")
  /\ UNCHANGED <<request, answer, up, now, limiterVars, engineVars, received, served,
                 sequence, transitions, history, writer, readers, tracked, previous>>

\* src/engine/dpi_engine.rs:608.
InspectPanics(c) ==
  /\ At(c, "inspect")
  /\ ScanPanics(request[c].body.text)
  /\ up' = FALSE
  /\ UNCHANGED <<stage, request, found, answer, now, limiterVars, analyzerVars, engineVars, received, served>>

\* Faulty variant: the comparison is strict.
StatusForStrict(action) ==
  IF action > Engine!Block THEN 403 ELSE IF action > Engine!RateLimit THEN 429 ELSE 200

\* :285-307 and :514-526.  A Challenge is answered like an Allow.
StatusFor(action) ==
  IF action >= Engine!Block THEN 403 ELSE IF action >= Engine!RateLimit THEN 429 ELSE 200

\* :500-526.
Decide(c) ==
  /\ At(c, "decide")
  /\ LET ip == request[c].ip
     IN  \E t \in Engine!ClockReadings :
           /\ Engine!EvaluateBlocked(ip, found[c], t) \/ Engine!EvaluateOpen(ip, found[c], t)
           /\ Reply(c, StatusFor(reply'.action))
           /\ served' = [served EXCEPT ![ip] =
                           @ + IF StatusFor(reply'.action) = 200 THEN 1 ELSE 0]
  /\ UNCHANGED <<up, limiterVars, analyzerVars, received>>

Tick ==
  /\ up /\ now < MaxNow
  /\ now' = now + 1
  /\ UNCHANGED <<stage, request, found, answer, up, limiterVars, analyzerVars, engineVars, received, served>>

Handle(c) ==
  \/ BodyFails(c) \/ Validate(c) \/ CheckRate(c)
  \/ Inspect(c) \/ InspectPanics(c) \/ Score(c) \/ Decide(c)

PipelineNext ==
  \/ \E c \in Connections :
       Handle(c) \/ Behave(c) \/ \E ip \in Ips, body \in Bodies : Receive(c, ip, body)
  \/ Tick

\* A request that can go on goes on: the body arrives or the timeout fires, and a
\* lock of the analyzer that is found free again and again is got.  Threads that
\* hold its locks crosswise are lost, and nothing is promised from then on.
PipelineSpec ==
  /\ PipelineInit
  /\ [][PipelineNext]_vars
  /\ \A c \in Connections : /\ WF_vars(~Analyzer!LockCycle /\ Handle(c))
                             /\ SF_vars(~Analyzer!LockCycle /\ Behave(c))

----------------------------------------------------------------------------
(* Properties.                                                              *)

\* Over all engines a client gets no more answers 200 than its bucket allows: a
\* charge the limiter refuses reaches the response engine and comes out as 429 or
\* 403, whatever else was found and whichever requests ran in between.
ServedWithinRate == \A ip \in Ips : served[ip] <= Limiter!Budget(ip)

\* A block reaches the requests that were already past the earlier engines when
\* it was imposed: what is decided while it is in force is answered 403.
BlockReachesAll ==
  [][\A c \in Connections :
       stage[c] = "decide" /\ stage'[c] = "idle" /\ Engine!Blocked(request[c].ip)
         => answer'[c] = 403]_vars

\* Every request is answered, fails or times out, through the locks on its way and
\* whatever other requests hold of them meanwhile.  Two things alone keep it: two
\* requests that hold the analyzer's locks crosswise, and a text that aborts the
\* process, for this request and all others.
AnsweredOrAborted ==
  \A c \in Connections : stage[c] # "idle" ~> stage[c] = "idle" \/ ~up \/ Analyzer!LockCycle

\* tests/compliance_tests/owasp_top10.yaml:33-42 sends a GET with the body "" and
\* says of it "Valid access with token - should not be blocked".  A request
\* without a body is not refused as malformed.
BodilessNotMalformed ==
  [][\A c \in Connections :
       Validate(c) /\ request[c].body.head.parse = "empty" => answer'[c] # 400]_vars
=============================================================================
