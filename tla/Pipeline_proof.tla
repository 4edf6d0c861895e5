---------------------------- MODULE Pipeline_proof ----------------------------
(***************************************************************************)
(* Proofs about the request pipeline, for any connections, clients, bodies *)
(* and scores.  The pipeline works on the state of the rate limiter and of *)
(* the response engine; it is shown to implement the specifications of     *)
(* both, so what is proved about them alone holds inside the pipeline too. *)
(***************************************************************************)
EXTENDS Pipeline, TLAPS, FiniteSetTheorems

\* The theorems about the two engines, over the state of the pipeline.
EngineProof == INSTANCE ResponseEngine_proof

LimiterProof == INSTANCE RateLimiter_proof WITH
  Tasks <- {}, Sessions <- {}, Endpoints <- {}, Operated <- Ips,
  DefaultRps <- PerIpLimit, PerSessionLimit <- PerIpLimit, PerEndpointLimit <- PerIpLimit,
  TicksPerSecond <- 1, MaxClock <- MaxNow, MaxGift <- 0, None <- NoRequest,
  clock <- now, pc <- [t \in {} |-> "idle"], req <- [t \in {} |-> NoRequest],
  given <- [k \in {Global} \cup Ips |-> 0]

----------------------------------------------------------------------------
(* The invariant.  A request that was charged and is not answered yet is in *)
(* flight; with the answers 200 of its client, what is in flight is within  *)
(* what the limiter has admitted.                                           *)

PipelineTypeOK ==
  /\ stage \in [Connections -> Stages]
  /\ DOMAIN request = Connections /\ DOMAIN answer = Connections
  /\ \A c \in Connections : stage[c] # "idle" => request[c] \in [ip : Ips, body : Bodies]
  /\ found \in [Connections -> Contexts]
  /\ served \in [Ips -> Nat]

Charged(c, ip) ==
  stage[c] \in {"inspect", "behave", "decide"} /\ request[c].ip = ip /\ found[c].rate_limit = 0

InFlight(ip) == {c \in Connections : Charged(c, ip)}

PipelineInv ==
  /\ PipelineTypeOK
  /\ admitted \in [{Global} \cup Ips -> Nat]
  /\ \A ip \in Ips : served[ip] + Cardinality(InFlight(ip)) <= admitted[ip]

USE InputsAssumption, SettingsAssumption

----------------------------------------------------------------------------
(* The instances.                                                           *)

\* What the response engine assumes of its constants holds in the pipeline.
LEMMA EngineAssumptionsHold == EngineProof!ContextAssumption /\ EngineProof!EngineAssumption
BY DEF Contexts, EngineProof!Actions, EngineProof!Allow, EngineProof!Redirect

\* What the rate limiter assumes of its constants holds too: no task, session or
\* endpoint, and one tick of the clock in a second.
LEMMA LimiterAssumptionsHold == LimiterProof!KeysAssumption /\ LimiterProof!LimitsAssumption
<1>1. LimiterProof!IsFiniteSet({})
  BY FS_EmptySet, Zenon DEF IsFiniteSet, LimiterProof!IsFiniteSet
<1>2. QED
  BY <1>1 DEF LimiterProof!Keys, LimiterProof!Bucket

\* The response engine the pipeline calls is the one the theorems are about.
LEMMA SameEngine ==
  /\ Engine!Init <=> EngineProof!Init
  /\ Engine!vars = EngineProof!vars
  /\ Engine!ClockReadings = EngineProof!ClockReadings
  /\ Engine!Next <=> EngineProof!Next
BY Zenon DEF Engine!Init, EngineProof!Init, Engine!vars, EngineProof!vars, Engine!Next, EngineProof!Next,
  Engine!ClockReadings, EngineProof!ClockReadings,
  Engine!EvaluateBlocked, EngineProof!EvaluateBlocked, Engine!EvaluateOpen, EngineProof!EvaluateOpen,
  Engine!EscalateBlocked, EngineProof!EscalateBlocked, Engine!EscalateOpen, EngineProof!EscalateOpen,
  Engine!ResetEscalation, EngineProof!ResetEscalation, Engine!Tick, EngineProof!Tick,
  Engine!Entry, EngineProof!Entry, Engine!InForce, EngineProof!InForce, Engine!Lift, EngineProof!Lift,
  Engine!Proposed, EngineProof!Proposed, Engine!Stronger, EngineProof!Stronger,
  Engine!DpiVerdict, EngineProof!DpiVerdict, Engine!BotVerdict, EngineProof!BotVerdict,
  Engine!ScoreVerdict, EngineProof!ScoreVerdict, Engine!RateVerdict, EngineProof!RateVerdict,
  Engine!Reasons, EngineProof!Reasons, Engine!Remember, EngineProof!Remember,
  Engine!RollWindow, EngineProof!RollWindow, Engine!Fresh, EngineProof!Fresh,
  Engine!AtLevel, EngineProof!AtLevel, Engine!Escalated, EngineProof!Escalated,
  Engine!Cap, EngineProof!Cap, Engine!Judge, EngineProof!Judge, Engine!LevelFor, EngineProof!LevelFor,
  Engine!BlockDeadline, EngineProof!BlockDeadline, Engine!Cardinality, EngineProof!Cardinality,
  Engine!SetState, EngineProof!SetState, Engine!Answer, EngineProof!Answer,
  Engine!PushDecision, EngineProof!PushDecision,
  Engine!Allow, Engine!Log, Engine!Challenge, Engine!RateLimit, Engine!Block,
  EngineProof!Allow, EngineProof!Log, EngineProof!Challenge, EngineProof!RateLimit, EngineProof!Block

\* The same of the rate limiter.
LEMMA SameLimiter ==
  /\ Limiter!Init <=> LimiterProof!Init
  /\ Limiter!vars = LimiterProof!vars
  /\ Limiter!Next <=> LimiterProof!Next
  /\ Limiter!AdmittedWithinBudget <=> LimiterProof!AdmittedWithinBudget
BY Zenon DEF Limiter!Init, LimiterProof!Init, Limiter!vars, LimiterProof!vars,
  Limiter!Next, LimiterProof!Next, Limiter!CheckStep, LimiterProof!CheckStep,
  Limiter!Operation, LimiterProof!Operation, Limiter!Tick, LimiterProof!Tick,
  Limiter!ChargeGlobal, LimiterProof!ChargeGlobal, Limiter!Degrade, LimiterProof!Degrade,
  Limiter!ChargeIp, LimiterProof!ChargeIp, Limiter!ChargeSession, LimiterProof!ChargeSession,
  Limiter!ChargeEndpoint, LimiterProof!ChargeEndpoint, Limiter!Refund, LimiterProof!Refund,
  Limiter!CheckScope, LimiterProof!CheckScope, Limiter!RefillKey, LimiterProof!RefillKey,
  Limiter!SetAdaptiveThreshold, LimiterProof!SetAdaptiveThreshold, Limiter!ResetIp, LimiterProof!ResetIp,
  Limiter!Grant, LimiterProof!Grant, Limiter!GiveBack, LimiterProof!GiveBack,
  Limiter!Proceed, LimiterProof!Proceed, Limiter!AfterIp, LimiterProof!AfterIp,
  Limiter!AfterSession, LimiterProof!AfterSession, Limiter!Admit, LimiterProof!Admit,
  Limiter!RequestKeys, LimiterProof!RequestKeys, Limiter!Return, LimiterProof!Return,
  Limiter!Goto, LimiterProof!Goto, Limiter!Charge, LimiterProof!Charge, Limiter!Refuse, LimiterProof!Refuse,
  Limiter!Affordable, LimiterProof!Affordable, Limiter!Put, LimiterProof!Put,
  Limiter!WithTokens, LimiterProof!WithTokens, Limiter!Refilled, LimiterProof!Refilled,
  Limiter!Refill, LimiterProof!Refill, Limiter!Found, LimiterProof!Found, Limiter!Least, LimiterProof!Least,
  Limiter!NewBucket, LimiterProof!NewBucket, Limiter!Limit, LimiterProof!Limit, Limiter!Cost, LimiterProof!Cost,
  Limiter!Keys, LimiterProof!Keys, Limiter!Requests, LimiterProof!Requests,
  Limiter!AdmittedWithinBudget, LimiterProof!AdmittedWithinBudget, Limiter!Budget, LimiterProof!Budget

----------------------------------------------------------------------------
(* Types.                                                                   *)

\* Every pair of a connection and a context makes a well-typed update.
LEMMA ContextType ==
  ASSUME NEW ctx \in Contexts
  PROVE  /\ ctx.rate_limit \in 0 .. 1 /\ ctx.anomaly \in 0 .. 2 /\ ctx.threat_intel \in 0 .. 2
         /\ ctx.bot \in 0 .. 3 /\ ctx.dpi_threats \in Nat
         /\ [ctx EXCEPT !.rate_limit = 0] \in Contexts
         /\ [ctx EXCEPT !.rate_limit = 1] \in Contexts
         /\ [ctx EXCEPT !.rate_limit = 0].rate_limit = 0
         /\ [ctx EXCEPT !.rate_limit = 1].rate_limit = 1
BY DEF Contexts

\* A body matches a natural number of signatures.
LEMMA ThreatCount ==
  ASSUME NEW body \in Bodies
  PROVE  Cardinality(ScanPayload(body.text)) \in Nat
<1>1. IsFiniteSet({PayloadSize})
  BY FS_Singleton
<1>2. IsFiniteSet(body.text.hits \cap Searched)
  BY FS_Subset
<1>3. IsFiniteSet(ScanPayload(body.text))
  BY <1>1, <1>2 DEF ScanPayload, ScanText
<1>4. QED
  BY <1>3, FS_CardinalityType

\* The requests start with no connection in use.
LEMMA InitPipelineTypeOK == PipelineInit => PipelineTypeOK
BY DEF PipelineInit, PipelineTypeOK, Stages, Contexts, Nothing

\* A request that is over leaves its connection idle and its context empty.
LEMMA ReplyKeepsTypes ==
  ASSUME PipelineTypeOK, NEW c \in Connections, NEW status, Reply(c, status),
         served' \in [Ips -> Nat]
  PROVE  PipelineTypeOK'
BY DEF PipelineTypeOK, Reply, Goto, Stages, Contexts, Nothing

\* Each step of a request keeps the types.
LEMMA NextPipelineTypeOK == PipelineTypeOK /\ [PipelineNext]_vars => PipelineTypeOK'
<1> SUFFICES ASSUME PipelineTypeOK, [PipelineNext]_vars PROVE PipelineTypeOK'
  OBVIOUS
<1>1. ASSUME NEW c \in Connections, NEW ip \in Ips, NEW body \in Bodies, Receive(c, ip, body)
      PROVE  PipelineTypeOK'
  BY <1>1 DEF Receive, PipelineTypeOK, Goto, Stages
<1>2. ASSUME NEW c \in Connections, BodyFails(c) PROVE PipelineTypeOK'
  BY <1>2, ReplyKeepsTypes DEF BodyFails, PipelineTypeOK
<1>3. ASSUME NEW c \in Connections, Validate(c) PROVE PipelineTypeOK'
  <2>1. CASE Goto(c, "rate") /\ UNCHANGED <<request, found, answer, served>>
    BY <1>3, <2>1 DEF Validate, At, Goto, PipelineTypeOK, Stages
  <2>2. CASE Reply(c, 400) /\ UNCHANGED served
    BY <2>2, ReplyKeepsTypes DEF PipelineTypeOK
  <2>3. QED
    BY <1>3, <2>1, <2>2 DEF Validate
<1>4. ASSUME NEW c \in Connections, CheckRate(c) PROVE PipelineTypeOK'
  <2>1. found[c] \in Contexts
    BY DEF PipelineTypeOK
  <2>2. /\ [found[c] EXCEPT !.rate_limit = 0] \in Contexts
        /\ [found[c] EXCEPT !.rate_limit = 1] \in Contexts
    BY <2>1, ContextType
  <2>3. found' \in [Connections -> Contexts]
    <3>1. CASE Limiter!Affordable(request[c].ip)
      BY <1>4, <2>2, <3>1 DEF CheckRate, PipelineTypeOK
    <3>2. CASE ~Limiter!Affordable(request[c].ip)
      BY <1>4, <2>2, <3>2 DEF CheckRate, PipelineTypeOK
    <3>3. QED
      BY <3>1, <3>2
  <2>4. QED
    BY <1>4, <2>3 DEF CheckRate, At, Goto, PipelineTypeOK, Stages
<1>5. ASSUME NEW c \in Connections, Inspect(c) PROVE PipelineTypeOK'
  <2>1. request[c].body \in Bodies /\ found[c] \in Contexts
    BY <1>5 DEF Inspect, At, PipelineTypeOK
  <2> DEFINE n == Cardinality(ScanPayload(request[c].body.text))
  <2>2. n \in Nat
    BY <2>1, ThreatCount
  <2> HIDE DEF n
  <2>3. [found[c] EXCEPT !.dpi_threats = n] \in Contexts
    BY <2>1, <2>2 DEF Contexts
  <2>4. found' \in [Connections -> Contexts]
    BY <1>5, <2>3 DEF Inspect, PipelineTypeOK, n
  <2>5. QED
    BY <1>5, <2>4 DEF Inspect, At, Goto, PipelineTypeOK, Stages
<1>6. ASSUME NEW c \in Connections, InspectPanics(c) \/ Behave(c) PROVE PipelineTypeOK'
  BY <1>6 DEF InspectPanics, Behave, PipelineTypeOK
<1>7. ASSUME NEW c \in Connections, Score(c) PROVE PipelineTypeOK'
  <2>1. found[c] \in Contexts
    BY DEF PipelineTypeOK
  <2>2. \A s \in Scores :
          [dpi_threats |-> found[c].dpi_threats, bot |-> s.bot, threat_intel |-> s.threat_intel,
           anomaly |-> s.anomaly, rate_limit |-> found[c].rate_limit] \in Contexts
    BY <2>1, ContextType DEF Contexts
  <2>3. found' \in [Connections -> Contexts]
    BY <1>7, <2>2 DEF Score, PipelineTypeOK
  <2>4. QED
    BY <1>7, <2>3 DEF Score, At, Goto, PipelineTypeOK, Stages
<1>8. ASSUME NEW c \in Connections, Decide(c) PROVE PipelineTypeOK'
  <2>1. PICK n \in {0, 1} : Reply(c, StatusFor(reply'.action))
                            /\ served' = [served EXCEPT ![request[c].ip] = @ + n]
    <3>1. (IF StatusFor(reply'.action) = 200 THEN 1 ELSE 0) \in {0, 1}
      OBVIOUS
    <3>2. QED
      BY <1>8, <3>1 DEF Decide
  <2>2. ASSUME NEW ip \in Ips PROVE served'[ip] \in Nat
    BY <2>1 DEF PipelineTypeOK
  <2>3. DOMAIN served' = Ips /\ served' = [ip \in Ips |-> served'[ip]]
    BY <2>1 DEF PipelineTypeOK
  <2>4. served' \in [Ips -> Nat]
    BY <2>2, <2>3
  <2>5. QED
    BY <2>1, <2>4, ReplyKeepsTypes
<1>9. CASE Tick \/ UNCHANGED vars
  BY <1>9 DEF Tick, vars, PipelineTypeOK
<1>10. QED
  BY <1>1, <1>2, <1>3, <1>4, <1>5, <1>6, <1>7, <1>8, <1>9 DEF PipelineNext, Handle

----------------------------------------------------------------------------
(* What is in flight.                                                       *)

\* The number of the others.
LEMMA Without ==
  ASSUME NEW S, IsFiniteSet(S), NEW x
  PROVE  Cardinality(S \ {x}) = Cardinality(S) - (IF x \in S THEN 1 ELSE 0)
<1>1. Cardinality(S) \in Nat
  BY FS_CardinalityType
<1>2. Cardinality(S \ {x}) = IF x \in S THEN Cardinality(S) - 1 ELSE Cardinality(S)
  BY FS_RemoveElement, Zenon
<1>3. QED
  BY <1>1, <1>2

\* When one connection moves, the requests in flight of every client change by
\* what that connection has to do with them.
LEMMA InFlightStep ==
  ASSUME NEW c \in Connections, NEW ip \in Ips,
         \A d \in Connections \ {c} :
           stage'[d] = stage[d] /\ request'[d] = request[d] /\ found'[d] = found[d]
  PROVE  /\ Cardinality(InFlight(ip)) \in Nat /\ Cardinality(InFlight(ip))' \in Nat
         /\ Cardinality(InFlight(ip))' - (IF Charged(c, ip)' THEN 1 ELSE 0)
              = Cardinality(InFlight(ip)) - (IF Charged(c, ip) THEN 1 ELSE 0)
<1> DEFINE A == InFlight(ip)
           B == InFlight(ip)'
<1>1. A \subseteq Connections /\ B \subseteq Connections
  BY DEF InFlight
<1>2. IsFiniteSet(A) /\ IsFiniteSet(B)
  BY <1>1, FS_Subset
<1>3. A \ {c} = B \ {c}
  BY DEF InFlight, Charged
<1>4. (c \in A <=> Charged(c, ip)) /\ (c \in B <=> Charged(c, ip)')
  BY DEF InFlight
<1>5. Cardinality(InFlight(ip))' = Cardinality(B)
  OBVIOUS
<1> HIDE DEF A, B
<1>6. Cardinality(A) \in Nat /\ Cardinality(B) \in Nat
  BY <1>2, FS_CardinalityType
<1>7. /\ Cardinality(A \ {c}) = Cardinality(A) - (IF c \in A THEN 1 ELSE 0)
      /\ Cardinality(B \ {c}) = Cardinality(B) - (IF c \in B THEN 1 ELSE 0)
  BY <1>2, Without
<1>8. Cardinality(B) - (IF c \in B THEN 1 ELSE 0) = Cardinality(A) - (IF c \in A THEN 1 ELSE 0)
  BY <1>3, <1>7
<1>9. /\ Cardinality(B) - (IF Charged(c, ip)' THEN 1 ELSE 0)
           = Cardinality(A) - (IF Charged(c, ip) THEN 1 ELSE 0)
  BY <1>4, <1>8
<1>10. QED
  BY <1>5, <1>6, <1>9 DEF A

\* Proposed actions rank no lower than the limiter's verdict, and escalation
\* never lowers them.
LEMMA RefusedNotServed ==
  ASSUME NEW ip, NEW ctx \in Contexts, NEW t, ctx.rate_limit = 1,
         Engine!EvaluateBlocked(ip, ctx, t) \/ Engine!EvaluateOpen(ip, ctx, t)
  PROVE  StatusFor(reply'.action) # 200
<1> USE DEF Engine!Allow, Engine!Log, Engine!Challenge, Engine!RateLimit, Engine!Block, Engine!Cap
<1>1. CASE Engine!EvaluateBlocked(ip, ctx, t)
  <2>1. reply'.action = 4
    BY <1>1 DEF Engine!EvaluateBlocked, Engine!Answer
  <2>2. QED
    BY <2>1 DEF StatusFor
<1>2. CASE Engine!EvaluateOpen(ip, ctx, t)
  <2> DEFINE p == Engine!Proposed(ctx)
  <2>1. p \in 3 .. 4
    <3>1. /\ ctx.dpi_threats \in Nat /\ ctx.bot \in 0 .. 3
          /\ ctx.threat_intel \in 0 .. 2 /\ ctx.anomaly \in 0 .. 2
      BY ContextType
    <3>2. Engine!DpiVerdict(ctx.dpi_threats) \in 0 .. 4
      BY <3>1 DEF Engine!DpiVerdict
    <3>3. Engine!BotVerdict(ctx.bot) \in 0 .. 4
      BY <3>1 DEF Engine!BotVerdict
    <3>4. /\ Engine!ScoreVerdict(ctx.threat_intel) \in 0 .. 4
          /\ Engine!ScoreVerdict(ctx.anomaly) \in 0 .. 4
      BY <3>1 DEF Engine!ScoreVerdict
    <3>5. Engine!RateVerdict(ctx.rate_limit) = 3
      BY DEF Engine!RateVerdict
    <3>6. QED
      BY <3>2, <3>3, <3>4, <3>5 DEF Engine!Proposed, Engine!Stronger
  <2>2. PICK n : reply'.action = Engine!Cap(Engine!Escalated(n, p))
    BY <1>2 DEF Engine!EvaluateOpen, Engine!Answer
  <2> HIDE DEF p
  <2>3. Engine!Escalated(n, p) \in 3 .. 4
    BY <2>1 DEF Engine!Escalated, Engine!Stronger
  <2>4. reply'.action \in 3 .. 4
    BY <2>2, <2>3
  <2>5. QED
    BY <2>4 DEF StatusFor
<1>3. QED
  BY <1>1, <1>2

\* A check with a scope admits exactly the requests it charges for.
LEMMA CheckScopeCounts ==
  ASSUME admitted \in [{Global} \cup Ips -> Nat], NEW k \in Ips, Limiter!CheckScope(k)
  PROVE  /\ admitted' \in [{Global} \cup Ips -> Nat]
         /\ \A j \in Ips : admitted'[j] >= admitted[j]
         /\ Limiter!Affordable(k) => admitted'[k] = admitted[k] + 1
<1>1. CASE Limiter!Affordable(k) /\ Limiter!Admit({k})
  BY <1>1 DEF Limiter!Admit, Limiter!Keys
<1>2. CASE ~Limiter!Affordable(k) /\ UNCHANGED admitted
  BY <1>2
<1>3. QED
  BY <1>1, <1>2 DEF Limiter!CheckScope

\* Nothing is in flight at the start.
LEMMA InitPipelineInv == PipelineInit => PipelineInv
<1> SUFFICES ASSUME PipelineInit PROVE PipelineInv
  OBVIOUS
<1>1. admitted = [k \in {Global} \cup Ips |-> 0]
  BY DEF PipelineInit, Limiter!Init, Limiter!Keys
<1>2. \A ip \in Ips : InFlight(ip) = {}
  BY DEF PipelineInit, InFlight, Charged
<1>3. Cardinality({}) = 0
  BY FS_EmptySet
<1>4. ASSUME NEW ip \in Ips PROVE served[ip] + Cardinality(InFlight(ip)) <= admitted[ip]
  <2>1. served[ip] = 0 /\ admitted[ip] = 0
    BY <1>1 DEF PipelineInit
  <2>2. Cardinality(InFlight(ip)) = 0
    BY <1>2, <1>3, Zenon
  <2>3. QED
    BY <2>1, <2>2
<1>5. QED
  BY <1>1, <1>4, InitPipelineTypeOK DEF PipelineInv

\* Requests come into flight when they are admitted and are answered 200 only
\* from there.
LEMMA NextPipelineInv == PipelineInv /\ [PipelineNext]_vars => PipelineInv'
<1> SUFFICES ASSUME PipelineInv, [PipelineNext]_vars PROVE PipelineInv'
  OBVIOUS
<1>1. PipelineTypeOK /\ PipelineTypeOK' /\ admitted \in [{Global} \cup Ips -> Nat]
  BY NextPipelineTypeOK DEF PipelineInv
<1>2. SUFFICES /\ admitted' \in [{Global} \cup Ips -> Nat]
               /\ \A ip \in Ips : served'[ip] + Cardinality(InFlight(ip))' <= admitted'[ip]
  BY <1>1 DEF PipelineInv
<1>3. \A ip \in Ips : /\ served[ip] + Cardinality(InFlight(ip)) <= admitted[ip]
                      /\ served[ip] \in Nat /\ admitted[ip] \in Nat
                      /\ served'[ip] \in Nat
  BY <1>1 DEF PipelineInv, PipelineTypeOK
<1>4. ASSUME NEW c \in Connections, UNCHANGED <<admitted, served>>,
             \A d \in Connections \ {c} :
               stage'[d] = stage[d] /\ request'[d] = request[d] /\ found'[d] = found[d],
             \A ip \in Ips : Charged(c, ip)' => Charged(c, ip)
      PROVE  \A ip \in Ips : served'[ip] + Cardinality(InFlight(ip))' <= admitted'[ip]
  <2> SUFFICES ASSUME NEW ip \in Ips
               PROVE  served'[ip] + Cardinality(InFlight(ip))' <= admitted'[ip]
    OBVIOUS
  <2>1. /\ Cardinality(InFlight(ip)) \in Nat /\ Cardinality(InFlight(ip))' \in Nat
        /\ Cardinality(InFlight(ip))' - (IF Charged(c, ip)' THEN 1 ELSE 0)
             = Cardinality(InFlight(ip)) - (IF Charged(c, ip) THEN 1 ELSE 0)
    BY <1>4, InFlightStep
  <2>2. Cardinality(InFlight(ip))' <= Cardinality(InFlight(ip))
    BY <1>4, <2>1
  <2>3. QED
    BY <1>3, <1>4, <2>1, <2>2
<1>5. ASSUME NEW c \in Connections, NEW ip \in Ips, NEW body \in Bodies, Receive(c, ip, body)
      PROVE  PipelineInv'
  <2>1. \A i \in Ips : ~Charged(c, i)'
    BY <1>1, <1>5 DEF Receive, Goto, Charged, PipelineTypeOK
  <2>2. /\ UNCHANGED <<admitted, served>>
        /\ \A d \in Connections \ {c} :
             stage'[d] = stage[d] /\ request'[d] = request[d] /\ found'[d] = found[d]
    BY <1>1, <1>5 DEF Receive, Goto, limiterVars, PipelineTypeOK
  <2>3. QED
    BY <1>1, <1>3, <1>4, <2>1, <2>2 DEF PipelineInv
<1>6. ASSUME NEW c \in Connections, BodyFails(c) \/ Validate(c)
      PROVE  PipelineInv'
  <2>1. \A i \in Ips : ~Charged(c, i)'
    BY <1>1, <1>6 DEF BodyFails, Validate, Reply, Goto, Charged, PipelineTypeOK
  <2>2. /\ UNCHANGED <<admitted, served>>
        /\ \A d \in Connections \ {c} :
             stage'[d] = stage[d] /\ request'[d] = request[d] /\ found'[d] = found[d]
    BY <1>1, <1>6 DEF BodyFails, Validate, Reply, Goto, limiterVars, PipelineTypeOK
  <2>3. QED
    BY <1>1, <1>3, <1>4, <2>1, <2>2 DEF PipelineInv
<1>7. ASSUME NEW c \in Connections, CheckRate(c) PROVE PipelineInv'
  <2> DEFINE k == request[c].ip
  <2>1. k \in Ips /\ stage[c] = "rate" /\ Limiter!CheckScope(k) /\ served' = served
    BY <1>1, <1>7 DEF CheckRate, At, PipelineTypeOK
  <2>2. /\ admitted' \in [{Global} \cup Ips -> Nat]
        /\ \A j \in Ips : admitted'[j] >= admitted[j]
        /\ Limiter!Affordable(k) => admitted'[k] = admitted[k] + 1
    BY <1>1, <2>1, CheckScopeCounts
  <2>3. \A d \in Connections \ {c} :
          stage'[d] = stage[d] /\ request'[d] = request[d] /\ found'[d] = found[d]
    BY <1>1, <1>7 DEF CheckRate, Goto, PipelineTypeOK
  <2>4. /\ request'[c] = request[c]
        /\ ~Limiter!Affordable(k) => found'[c].rate_limit # 0
    <3>1. ASSUME ~Limiter!Affordable(k) PROVE found'[c].rate_limit = 1
      <4>1. found' = [found EXCEPT ![c].rate_limit = 1]
        BY <1>7, <3>1 DEF CheckRate
      <4>2. found'[c] = [found[c] EXCEPT !.rate_limit = 1]
        BY <1>1, <4>1 DEF PipelineTypeOK
      <4>3. found[c] \in Contexts
        BY <1>1 DEF PipelineTypeOK
      <4>4. QED
        BY <4>2, <4>3, ContextType
    <3>2. QED
      BY <1>7, <3>1 DEF CheckRate
  <2>5. ASSUME NEW ip \in Ips PROVE served'[ip] + Cardinality(InFlight(ip))' <= admitted'[ip]
    <3>1. /\ Cardinality(InFlight(ip)) \in Nat /\ Cardinality(InFlight(ip))' \in Nat
          /\ Cardinality(InFlight(ip))' - (IF Charged(c, ip)' THEN 1 ELSE 0)
               = Cardinality(InFlight(ip)) - (IF Charged(c, ip) THEN 1 ELSE 0)
      BY <2>3, InFlightStep
    <3>2. ~Charged(c, ip)
      BY <2>1 DEF Charged
    <3>3. Charged(c, ip)' => ip = k /\ Limiter!Affordable(k)
      BY <2>4 DEF Charged
    <3>4. admitted'[ip] \in Nat /\ admitted'[ip] >= admitted[ip] + (IF Charged(c, ip)' THEN 1 ELSE 0)
      BY <1>3, <2>2, <3>3
    <3>5. QED
      BY <1>3, <2>1, <3>1, <3>2, <3>4
  <2>6. QED
    BY <1>1, <2>2, <2>5 DEF PipelineInv
<1>8. ASSUME NEW c \in Connections, Inspect(c) \/ Score(c) PROVE PipelineInv'
  <2>1. /\ stage[c] \in {"inspect", "behave"} /\ request' = request
        /\ UNCHANGED <<admitted, served>>
        /\ \A d \in Connections \ {c} :
             stage'[d] = stage[d] /\ request'[d] = request[d] /\ found'[d] = found[d]
    BY <1>1, <1>8 DEF Inspect, Score, At, Goto, limiterVars, PipelineTypeOK
  <2>2. found'[c].rate_limit = found[c].rate_limit
    <3>1. CASE Inspect(c)
      <4>1. found'[c] = [found[c] EXCEPT !.dpi_threats = Cardinality(ScanPayload(request[c].body.text))]
        BY <1>1, <3>1 DEF Inspect, PipelineTypeOK
      <4>2. found[c] \in Contexts
        BY <1>1 DEF PipelineTypeOK
      <4>3. QED
        BY <4>1, <4>2 DEF Contexts
    <3>2. CASE Score(c)
      BY <1>1, <3>2 DEF Score, PipelineTypeOK
    <3>3. QED
      BY <1>8, <3>1, <3>2
  <2>3. \A ip \in Ips : Charged(c, ip)' => Charged(c, ip)
    BY <2>1, <2>2 DEF Charged
  <2>4. QED
    BY <1>1, <1>4, <2>1, <2>3 DEF PipelineInv
<1>9. ASSUME NEW c \in Connections, Decide(c) PROVE PipelineInv'
  <2> DEFINE k == request[c].ip
             n == IF StatusFor(reply'.action) = 200 THEN 1 ELSE 0
  <2>1. /\ stage[c] = "decide" /\ k \in Ips /\ found[c] \in Contexts
        /\ Reply(c, StatusFor(reply'.action)) /\ admitted' = admitted
        /\ served' = [served EXCEPT ![k] = @ + n]
    BY <1>1, <1>9 DEF Decide, At, limiterVars, PipelineTypeOK
  <2>2. n \in {0, 1}
    OBVIOUS
  <2>3. ASSUME found[c].rate_limit = 1 PROVE n = 0
    <3>1. PICK t : Engine!EvaluateBlocked(k, found[c], t) \/ Engine!EvaluateOpen(k, found[c], t)
      BY <1>9 DEF Decide
    <3>2. StatusFor(reply'.action) # 200
      BY <2>1, <2>3, <3>1, RefusedNotServed
    <3>3. QED
      BY <3>2
  <2>4. found[c].rate_limit \in {0, 1}
    BY <2>1 DEF Contexts
  <2>5. \A ip \in Ips : ~Charged(c, ip)'
    BY <1>1, <2>1 DEF Reply, Goto, Charged, PipelineTypeOK
  <2>6. \A d \in Connections \ {c} :
          stage'[d] = stage[d] /\ request'[d] = request[d] /\ found'[d] = found[d]
    BY <1>1, <2>1 DEF Reply, Goto, PipelineTypeOK
  <2> HIDE DEF n
  <2>7. ASSUME NEW ip \in Ips PROVE served'[ip] + Cardinality(InFlight(ip))' <= admitted'[ip]
    <3>1. /\ Cardinality(InFlight(ip)) \in Nat /\ Cardinality(InFlight(ip))' \in Nat
          /\ Cardinality(InFlight(ip))' - (IF Charged(c, ip)' THEN 1 ELSE 0)
               = Cardinality(InFlight(ip)) - (IF Charged(c, ip) THEN 1 ELSE 0)
      BY <2>6, InFlightStep
    <3>2. served'[ip] = served[ip] + (IF ip = k THEN n ELSE 0)
      BY <1>1, <2>1, <2>2 DEF PipelineTypeOK
    <3>3. Charged(c, ip) <=> ip = k /\ found[c].rate_limit = 0
      BY <2>1 DEF Charged
    <3>4. served'[ip] <= served[ip] + (IF Charged(c, ip) THEN 1 ELSE 0)
      BY <1>3, <2>2, <2>3, <2>4, <3>2, <3>3
    <3>5. QED
      BY <1>3, <2>1, <2>5, <3>1, <3>4
  <2>8. QED
    BY <1>1, <2>1, <2>7 DEF PipelineInv
<1>10. ASSUME UNCHANGED <<stage, request, found, admitted, served>> PROVE PipelineInv'
  <2>1. \A ip \in Ips : InFlight(ip)' = InFlight(ip)
    BY <1>10 DEF InFlight, Charged
  <2>2. QED
    BY <1>1, <1>3, <1>10, <2>1 DEF PipelineInv
<1>11. ASSUME NEW c \in Connections, InspectPanics(c) \/ Behave(c) PROVE PipelineInv'
  BY <1>10, <1>11 DEF InspectPanics, Behave, limiterVars
<1>12. CASE Tick \/ UNCHANGED vars
  <2>1. UNCHANGED <<stage, request, found, admitted, served>>
    BY <1>12 DEF Tick, vars, limiterVars
  <2>2. QED
    BY <1>10, <2>1 DEF PipelineInv
<1>13. QED
  BY <1>5, <1>6, <1>7, <1>8, <1>9, <1>11, <1>12 DEF PipelineNext, Handle, PipelineInv

----------------------------------------------------------------------------
(* The theorems.                                                            *)

\* Requests and contexts keep their types, and what is answered 200 or may still
\* be stays within what was admitted.
THEOREM PipelineSafe == PipelineSpec => []PipelineInv
BY InitPipelineInv, NextPipelineInv, PTL DEF PipelineSpec

\* Every step of the pipeline is a step of the response engine or leaves it alone.
LEMMA EngineStep == PipelineInv /\ [PipelineNext]_vars => [Engine!Next]_Engine!vars
<1> SUFFICES ASSUME PipelineInv, [PipelineNext]_vars PROVE [Engine!Next]_Engine!vars
  OBVIOUS
<1>1. PipelineTypeOK
  BY DEF PipelineInv
<1>2. ASSUME NEW c \in Connections, Decide(c) PROVE Engine!Next
  <2>1. request[c].ip \in Ips /\ found[c] \in Contexts
    BY <1>1, <1>2 DEF Decide, At, PipelineTypeOK
  <2>2. PICK t \in Engine!ClockReadings : \/ Engine!EvaluateBlocked(request[c].ip, found[c], t)
                                          \/ Engine!EvaluateOpen(request[c].ip, found[c], t)
    BY <1>2 DEF Decide
  <2>3. QED
    BY <2>1, <2>2 DEF Engine!Next
<1>3. CASE Tick
  BY <1>3 DEF Tick, engineVars, Engine!Next, Engine!Tick
<1>4. ASSUME NEW c \in Connections, CheckRate(c) PROVE UNCHANGED Engine!vars
  BY <1>4 DEF CheckRate, Limiter!CheckScope, engineVars, Engine!vars
<1>5. ASSUME NEW c \in Connections,
             \/ BodyFails(c) \/ Validate(c) \/ Inspect(c) \/ InspectPanics(c)
             \/ Behave(c) \/ Score(c)
             \/ \E ip \in Ips, body \in Bodies : Receive(c, ip, body)
      PROVE  UNCHANGED Engine!vars
  BY <1>5 DEF BodyFails, Validate, Inspect, InspectPanics, Behave, Score, Receive, engineVars, Engine!vars
<1>6. CASE UNCHANGED vars
  BY <1>6 DEF vars, engineVars, Engine!vars
<1>7. QED
  BY <1>2, <1>3, <1>4, <1>5, <1>6 DEF PipelineNext, Handle

\* Every step of the pipeline is a step of the rate limiter or leaves it alone.
LEMMA LimiterStep == PipelineInv /\ [PipelineNext]_vars => [Limiter!Next]_Limiter!vars
<1> SUFFICES ASSUME PipelineInv, [PipelineNext]_vars PROVE [Limiter!Next]_Limiter!vars
  OBVIOUS
<1>1. PipelineTypeOK
  BY DEF PipelineInv
<1>2. ASSUME NEW c \in Connections, CheckRate(c) PROVE Limiter!Next
  <2>1. request[c].ip \in Ips /\ Limiter!CheckScope(request[c].ip)
    BY <1>1, <1>2 DEF CheckRate, At, PipelineTypeOK
  <2>2. QED
    BY <2>1 DEF Limiter!Next, Limiter!Operation
<1>3. CASE Tick
  BY <1>3 DEF Tick, limiterVars, Limiter!Next, Limiter!Tick
<1>4. ASSUME NEW c \in Connections, Decide(c) PROVE UNCHANGED <<now, bucket, admitted>>
  BY <1>4 DEF Decide, Engine!EvaluateBlocked, Engine!EvaluateOpen, limiterVars
<1>5. ASSUME NEW c \in Connections,
             \/ BodyFails(c) \/ Validate(c) \/ Inspect(c) \/ InspectPanics(c)
             \/ Behave(c) \/ Score(c)
             \/ \E ip \in Ips, body \in Bodies : Receive(c, ip, body)
      PROVE  UNCHANGED <<now, bucket, admitted>>
  BY <1>5 DEF BodyFails, Validate, Inspect, InspectPanics, Behave, Score, Receive, limiterVars
<1>6. ASSUME UNCHANGED vars PROVE UNCHANGED <<now, bucket, admitted>>
  BY <1>6 DEF vars, limiterVars
<1>7. UNCHANGED <<now, bucket, admitted>> => UNCHANGED Limiter!vars
  BY DEF Limiter!vars
<1>8. QED
  BY <1>2, <1>3, <1>4, <1>5, <1>6, <1>7 DEF PipelineNext, Handle

\* The pipeline implements the response engine: whatever requests it interleaves,
\* the engine is only used as its own specification says.
THEOREM PipelineImplementsEngine == PipelineSpec => Engine!Spec
<1>1. PipelineInit => Engine!Init
  BY DEF PipelineInit
<1>2. QED
  BY <1>1, PipelineSafe, EngineStep, PTL DEF PipelineSpec, Engine!Spec

\* The pipeline implements the rate limiter, with no check of several buckets.
THEOREM PipelineImplementsLimiter == PipelineSpec => Limiter!Spec
<1>1. PipelineInit => Limiter!Init
  BY DEF PipelineInit
<1>2. QED
  BY <1>1, PipelineSafe, LimiterStep, PTL DEF PipelineSpec, Limiter!Spec

\* What is proved of the response engine alone holds of it in the pipeline.
LEMMA EngineInside == PipelineSpec => []EngineProof!EngineInv
<1>1. Engine!Init => EngineProof!Init
  BY SameEngine
<1>2. [Engine!Next]_Engine!vars => [EngineProof!Next]_EngineProof!vars
  BY SameEngine DEF Engine!vars, EngineProof!vars
<1>3. Engine!Spec => EngineProof!Spec
  BY <1>1, <1>2, PTL DEF Engine!Spec, EngineProof!Spec
<1>4. EngineProof!Spec => []EngineProof!EngineInv
  BY EngineAssumptionsHold, EngineProof!EngineSafe, PTL
<1>5. QED
  BY <1>3, <1>4, PipelineImplementsEngine, PTL

\* And of the rate limiter.
LEMMA LimiterInside == PipelineSpec => []Limiter!AdmittedWithinBudget
<1>1. Limiter!Init => LimiterProof!Init
  BY SameLimiter
<1>2. [Limiter!Next]_Limiter!vars => [LimiterProof!Next]_LimiterProof!vars
  BY SameLimiter DEF Limiter!vars, LimiterProof!vars
<1>3. Limiter!Spec => LimiterProof!Spec
  BY <1>1, <1>2, PTL DEF Limiter!Spec, LimiterProof!Spec
<1>4. LimiterProof!Spec => []LimiterProof!AdmittedWithinBudget
  BY LimiterAssumptionsHold, LimiterProof!LimiterAdmitsWithinBudget, PTL
<1>5. LimiterProof!AdmittedWithinBudget => Limiter!AdmittedWithinBudget
  BY SameLimiter
<1>6. QED
  BY <1>3, <1>4, <1>5, PipelineImplementsLimiter, PTL

\* Over all engines a client gets no more answers 200 than its bucket allows.
THEOREM PipelineServesWithinRate == PipelineSpec => []ServedWithinRate
<1>1. PipelineInv /\ EngineProof!EngineInv /\ Limiter!AdmittedWithinBudget => ServedWithinRate
  <2> SUFFICES ASSUME PipelineInv, EngineProof!EngineInv, Limiter!AdmittedWithinBudget,
                      NEW ip \in Ips
               PROVE  served[ip] <= Limiter!Budget(ip)
    BY DEF ServedWithinRate
  <2>1. Cardinality(InFlight(ip)) \in Nat
    <3>1. InFlight(ip) \subseteq Connections
      BY DEF InFlight
    <3>2. QED
      BY <3>1, FS_Subset, FS_CardinalityType
  <2>2. served[ip] <= admitted[ip] /\ admitted[ip] \in Nat /\ served[ip] \in Nat
    BY <2>1 DEF PipelineInv, PipelineTypeOK
  <2>3. admitted[ip] * 1 <= Limiter!Budget(ip)
    BY DEF Limiter!AdmittedWithinBudget, Limiter!Keys
  <2>4. admitted[ip] * 1 = admitted[ip]
    BY <2>2
  <2>5. served[ip] <= admitted[ip] /\ admitted[ip] <= Limiter!Budget(ip)
    BY <2>2, <2>3, <2>4
  <2>6. Limiter!Budget(ip) \in Int
    BY DEF EngineProof!EngineInv, Limiter!Budget, Limiter!Limit, Limiter!Keys
  <2>7. QED
    BY <2>2, <2>5, <2>6
<1>2. QED
  BY <1>1, PipelineSafe, EngineInside, LimiterInside, PTL

\* While a block is in force every request decided is answered 403, the ones that
\* were past the earlier engines when it was imposed included.
THEOREM PipelineBlockReachesAll == PipelineSpec => BlockReachesAll
<1> DEFINE Reaches(c) ==
      stage[c] = "decide" /\ stage'[c] = "idle" /\ Engine!Blocked(request[c].ip)
        => answer'[c] = 403
<1>1. ASSUME PipelineInv, EngineProof!EngineInv, [PipelineNext]_vars, NEW c \in Connections,
             stage[c] = "decide", stage'[c] = "idle", Engine!Blocked(request[c].ip)
      PROVE  answer'[c] = 403
  <2>1. PipelineTypeOK /\ request[c].ip \in Ips
    BY <1>1 DEF PipelineInv, PipelineTypeOK
  <2>2. Decide(c)
    <3>1. stage'[c] # stage[c]
      BY <1>1
    <3>2. ASSUME NEW d \in Connections,
                 Handle(d) \/ Behave(d) \/ \E ip \in Ips, body \in Bodies : Receive(d, ip, body)
          PROVE  d = c
      BY <2>1, <3>1, <3>2 DEF Handle, BodyFails, Validate, CheckRate, Inspect, InspectPanics, Behave, Score, Decide,
           Receive, Reply, Goto, PipelineTypeOK
    <3>3. ~(Tick \/ UNCHANGED vars)
      BY <3>1 DEF Tick, vars
    <3>4. Handle(c) \/ Behave(c) \/ \E ip \in Ips, body \in Bodies : Receive(c, ip, body)
      BY <1>1, <3>2, <3>3 DEF PipelineNext
    <3>5. QED
      BY <1>1, <3>4 DEF Handle, BodyFails, Validate, CheckRate, Inspect, InspectPanics, Behave, Score, Receive, At, Goto,
           PipelineTypeOK
  <2>3. ASSUME NEW t \in Engine!ClockReadings PROVE Engine!InForce(Engine!Entry(request[c].ip, t), t)
    <3>1. /\ now \in Nat /\ states[request[c].ip] # NoState
          /\ states[request[c].ip].block_until \in Nat
          /\ now < states[request[c].ip].block_until
      BY <1>1, <2>1 DEF Engine!Blocked, Engine!Known, Engine!InForce, EngineProof!EngineInv,
           EngineProof!EntryInv, EngineProof!EntryType, EngineProof!EscalationState
    <3>2. t \in Nat /\ t <= now
      BY <2>3, <3>1 DEF Engine!ClockReadings
    <3>3. QED
      BY <3>1, <3>2 DEF Engine!InForce, Engine!Entry
  <2>4. PICK t \in Engine!ClockReadings : Engine!EvaluateBlocked(request[c].ip, found[c], t)
    BY <2>2, <2>3 DEF Decide, Engine!EvaluateOpen
  <2>5. reply'.action = 4
    BY <2>4 DEF Engine!EvaluateBlocked, Engine!Answer, Engine!Cap, Engine!Block
  <2>6. StatusFor(reply'.action) = 403
    BY <2>5 DEF StatusFor, Engine!Block
  <2>7. QED
    BY <2>1, <2>2, <2>6 DEF Decide, Reply, PipelineTypeOK
<1>2. PipelineInv /\ EngineProof!EngineInv /\ [PipelineNext]_vars
        => [\A c \in Connections : Reaches(c)]_vars
  BY <1>1
<1>3. QED
  BY <1>2, PipelineSafe, EngineInside, PTL DEF PipelineSpec, BlockReachesAll
=============================================================================
