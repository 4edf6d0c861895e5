------------------------ MODULE ResponseEngine_proof ------------------------
(***************************************************************************)
(* Proofs about the escalation of clients, for any clients, contexts,      *)
(* threshold, cap, and any block longer than the window.                   *)
(***************************************************************************)
EXTENDS ResponseEngine, TLAPS, FiniteSetTheorems

----------------------------------------------------------------------------
(* The inductive invariant.  The invariants of the runs are about the state *)
(* of one client at one time, and so is what has to be added to them: a     *)
(* block recorded for a client ends after its window has closed.            *)

EntryType(s, t) ==
  /\ s \in EscalationState
  /\ IsFiniteSet(s.violations)
  /\ s.first_seen <= t

Top(s) == s.current_level = 4 <=> s.block_until # NotBlocked

OutlastsWindow(s) == s.block_until # NotBlocked => s.block_until - s.first_seen > Window

Spent(s, t) ==
  s.block_until = NotBlocked /\ Cardinality(s.violations) >= 3 * Threshold
    => t - s.first_seen > Window

Raised(s, t) ==
  s.block_until = NotBlocked /\ t - s.first_seen <= Window =>
    /\ Cardinality(s.violations) >= Threshold => s.current_level >= Challenge
    /\ Cardinality(s.violations) >= 2 * Threshold => s.current_level >= RateLimit

EntryInv(s, t) == EntryType(s, t) /\ Top(s) /\ OutlastsWindow(s) /\ Spent(s, t) /\ Raised(s, t)

EngineInv ==
  /\ now \in Nat
  /\ DOMAIN states = Ips
  /\ \A ip \in Ips : states[ip] = NoState \/ EntryInv(states[ip], now)
  /\ recent \in Seq(Actions) /\ Len(recent) <= MaxRecent
  /\ reply \in [ip : Ips \cup {NoState}, action : Actions]

USE EngineAssumption DEF Allow, Log, Challenge, RateLimit, Block, Redirect, Actions

----------------------------------------------------------------------------
(* What the pieces of the two operations compute.                           *)

\* Every verdict on a context is an action.
LEMMA ProposedIsAction ==
  ASSUME NEW ctx \in Contexts
  PROVE  Proposed(ctx) \in Actions
<1>1. /\ ctx.dpi_threats \in Nat /\ ctx.bot \in 0..3 /\ ctx.threat_intel \in 0..2
      /\ ctx.anomaly \in 0..2 /\ ctx.rate_limit \in 0..1
  BY ContextAssumption
<1>2. DpiVerdict(ctx.dpi_threats) \in Actions
  BY <1>1 DEF DpiVerdict
<1>3. BotVerdict(ctx.bot) \in Actions
  BY <1>1 DEF BotVerdict
<1>4. ScoreVerdict(ctx.threat_intel) \in Actions /\ ScoreVerdict(ctx.anomaly) \in Actions
  BY <1>1 DEF ScoreVerdict
<1>5. RateVerdict(ctx.rate_limit) \in Actions
  BY DEF RateVerdict
<1>6. QED
  BY <1>2, <1>3, <1>4, <1>5 DEF Proposed, Stronger

\* The reasons of a context are finitely many and of the right kind.
LEMMA ReasonsFinite ==
  ASSUME NEW ctx \in Contexts
  PROVE  Reasons(ctx) \subseteq Reason /\ IsFiniteSet(Reasons(ctx))
<1> DEFINE a == <<"dpi_threats", ctx.dpi_threats>>
           b == <<"bot", ctx.bot>>
           c == <<"threat_intel", ctx.threat_intel>>
           d == <<"anomaly", ctx.anomaly>>
           e == <<"rate_limit", ctx.rate_limit>>
<1>1. IsFiniteSet({} \cup {a} \cup {b} \cup {c} \cup {d} \cup {e})
  <2> HIDE DEF a, b, c, d, e
  <2>1. IsFiniteSet({} \cup {a} \cup {b})
    BY FS_EmptySet, FS_AddElement
  <2>2. IsFiniteSet({} \cup {a} \cup {b} \cup {c} \cup {d})
    BY <2>1, FS_AddElement
  <2>3. QED
    BY <2>2, FS_AddElement
<1>2. Reasons(ctx) \subseteq {} \cup {a} \cup {b} \cup {c} \cup {d} \cup {e}
  BY DEF Reasons
<1>3. a \in Reason /\ b \in Reason /\ c \in Reason /\ d \in Reason /\ e \in Reason
  BY ContextAssumption DEF Reason
<1>4. QED
  <2> HIDE DEF a, b, c, d, e
  <2>1. QED
    BY <1>1, <1>2, <1>3, FS_Subset

\* An entry, found or made, satisfies the invariant.
LEMMA EntryHolds ==
  ASSUME EngineInv, NEW ip \in Ips, NEW t \in ClockReadings
  PROVE  EntryInv(Entry(ip, t), now)
<1>1. CASE states[ip] = NoState
  <2>1. Cardinality({}) = 0 /\ IsFiniteSet({})
    BY FS_EmptySet
  <2>2. QED
    BY <1>1, <2>1 DEF ClockReadings, EngineInv, Entry, Fresh, EntryInv, EntryType, EscalationState, Top,
                      OutlastsWindow, Spent, Raised
<1>2. CASE states[ip] # NoState
  BY <1>2 DEF EngineInv, Entry
<1>3. QED
  BY <1>1, <1>2

\* A time a call may work with is not ahead of the clock, and not far behind.
LEMMA ReadingType ==
  ASSUME EngineInv, NEW t \in ClockReadings
  PROVE  t \in Nat /\ now \in Nat /\ t <= now /\ now <= t + Lag
BY DEF EngineInv, ClockReadings

\* Lifting a block that has run out: the window has closed in the meantime.
LEMMA LiftHolds ==
  ASSUME EngineInv, NEW t \in ClockReadings, NEW s, EntryInv(s, now), ~InForce(s, t)
  PROVE  EntryInv(Lift(s), now) /\ Lift(s).block_until = NotBlocked
<1> USE ReadingType DEF EntryInv, EntryType, EscalationState, Top, OutlastsWindow, Spent, Raised
<1>1. CASE s.block_until = NotBlocked
  BY <1>1 DEF Lift
<1>2. CASE s.block_until # NotBlocked
  <2>1. s.block_until \in Nat /\ s.block_until <= t
    BY <1>2 DEF InForce
  <2>2. now - s.first_seen > Window
    BY <1>2, <2>1
  <2>3. /\ Lift(s) \in EscalationState
        /\ Lift(s).current_level = 0 /\ Lift(s).block_until = NotBlocked
        /\ Lift(s).violations = s.violations /\ Lift(s).first_seen = s.first_seen
    BY <1>2 DEF Lift, AtLevel
  <2>4. QED
    BY <2>2, <2>3
<1>3. QED
  BY <1>1, <1>2

\* Whatever is remembered, judging it restores the invariant.
LEMMA JudgeHolds ==
  ASSUME EngineInv, NEW t \in ClockReadings, NEW s, EntryType(s, now),
         s.block_until = NotBlocked, s.current_level # 4
  PROVE  EntryInv(Judge(s, t), now)
<1> USE ReadingType DEF EntryType, EscalationState
<1> DEFINE n == Cardinality(s.violations)
<1>1. n \in Nat
  BY FS_CardinalityType
<1>2. /\ Judge(s, t).violations = s.violations
      /\ Judge(s, t).first_seen = s.first_seen
      /\ Judge(s, t).current_level = LevelFor(n, s)
      /\ Judge(s, t).block_until = IF n >= 3 * Threshold THEN t + BlockSeconds ELSE NotBlocked
      /\ Judge(s, t) \in EscalationState
  <2> DEFINE l == LevelFor(n, s)
             b == IF n >= 3 * Threshold THEN t + BlockSeconds ELSE NotBlocked
  <2>1. l \in 0..4 /\ b \in Nat \cup {NotBlocked}
    BY <1>1 DEF LevelFor
  <2>2. Judge(s, t) = AtLevel(s, l, b)
    BY DEF Judge, BlockDeadline
  <2> HIDE DEF l, b
  <2>3. /\ Judge(s, t) \in EscalationState
        /\ Judge(s, t).current_level = l /\ Judge(s, t).block_until = b
        /\ Judge(s, t).violations = s.violations /\ Judge(s, t).first_seen = s.first_seen
    BY <2>1, <2>2 DEF AtLevel, EscalationState
  <2>4. QED
    BY <2>3 DEF l, b
<1>3. Top(Judge(s, t))
  BY <1>1, <1>2 DEF Top, LevelFor
<1>4. OutlastsWindow(Judge(s, t))
  BY <1>1, <1>2 DEF OutlastsWindow
<1>5. Spent(Judge(s, t), now) /\ Raised(Judge(s, t), now)
  BY <1>1, <1>2 DEF Spent, Raised, LevelFor
<1>6. QED
  BY <1>2, <1>3, <1>4, <1>5 DEF EntryInv

\* Remembering reasons and rolling the window keep the types.
LEMMA RememberHolds ==
  ASSUME EngineInv, NEW t \in ClockReadings, NEW s, EntryType(s, now), NEW ctx \in Contexts,
         s.block_until = NotBlocked, s.current_level # 4
  PROVE  LET r == RollWindow(Remember(s, Proposed(ctx), Reasons(ctx)), t)
         IN  /\ EntryType(r, now) /\ r.block_until = NotBlocked /\ r.current_level # 4
             /\ t - r.first_seen <= Window
<1> DEFINE m == Remember(s, Proposed(ctx), Reasons(ctx))
<1>1. IsFiniteSet(s.violations \cup Reasons(ctx))
  BY ReasonsFinite, FS_Union DEF EntryType
<1>2. EntryType(m, now) /\ m.block_until = NotBlocked /\ m.current_level # 4
  BY <1>1, ReasonsFinite DEF EntryType, EscalationState, Remember
<1> HIDE DEF m
<1>3. /\ EntryType(RollWindow(m, t), now) /\ RollWindow(m, t).block_until = NotBlocked
      /\ RollWindow(m, t).current_level # 4 /\ t - RollWindow(m, t).first_seen <= Window
  BY <1>2, ReadingType, FS_EmptySet DEF EntryType, EscalationState, RollWindow, Fresh
<1>4. QED
  BY <1>3 DEF m

\* The state evaluate_threat leaves.
LEMMA EvaluateHolds ==
  ASSUME EngineInv, NEW ip \in Ips, NEW ctx \in Contexts, NEW t \in ClockReadings,
         ~InForce(Entry(ip, t), t)
  PROVE  LET r == RollWindow(Remember(Lift(Entry(ip, t)), Proposed(ctx), Reasons(ctx)), t)
         IN  /\ EntryInv(Judge(r, t), now) /\ EntryType(r, now)
             /\ r.block_until = NotBlocked /\ t - r.first_seen <= Window
<1> DEFINE l == Lift(Entry(ip, t))
<1>1. EntryType(l, now) /\ l.block_until = NotBlocked /\ l.current_level # 4
  BY EntryHolds, LiftHolds DEF EntryInv, Top
<1> HIDE DEF l
<1> DEFINE r == RollWindow(Remember(l, Proposed(ctx), Reasons(ctx)), t)
<1>2. /\ EntryType(r, now) /\ r.block_until = NotBlocked /\ r.current_level # 4
      /\ t - r.first_seen <= Window
  BY <1>1, RememberHolds
<1>3. EntryInv(Judge(r, t), now)
  <2> HIDE DEF r
  <2>1. QED
    BY <1>2, JudgeHolds
<1>4. QED
  BY <1>2, <1>3 DEF l

\* The state escalate_response leaves.
LEMMA EscalateHolds ==
  ASSUME EngineInv, NEW ip \in Ips, NEW t \in ClockReadings, ~InForce(Entry(ip, t), t)
  PROVE  LET s == Lift(Entry(ip, t))
             level == s.current_level + 1
         IN  /\ EntryInv(AtLevel(s, level, IF level > 3 THEN BlockDeadline(t)
                                           ELSE s.block_until), now)
             /\ s.block_until = NotBlocked /\ level \in 1..4
<1> DEFINE s == Lift(Entry(ip, t))
           level == s.current_level + 1
           block == IF level > 3 THEN BlockDeadline(t) ELSE s.block_until
           r == AtLevel(s, level, block)
<1>1. t \in Nat /\ now \in Nat /\ t <= now /\ now <= t + Lag
  BY ReadingType
<1>2. EntryInv(s, now) /\ s.block_until = NotBlocked
  BY EntryHolds, LiftHolds
<1> HIDE DEF s
<1>3. s.current_level \in 0..3 /\ level \in 1..4
  BY <1>2 DEF EntryInv, EntryType, EscalationState, Top
<1>4. Cardinality(s.violations) \in Nat
  BY <1>2, FS_CardinalityType DEF EntryInv, EntryType
<1>5. /\ r \in EscalationState
      /\ r.violations = s.violations /\ r.first_seen = s.first_seen
      /\ r.current_level = level
      /\ r.block_until = IF level > 3 THEN t + BlockSeconds ELSE NotBlocked
  <2>1. block \in Nat \cup {NotBlocked}
    BY <1>1, <1>2 DEF BlockDeadline
  <2>2. s \in EscalationState /\ level \in 0..4
    BY <1>2, <1>3 DEF EntryInv, EntryType
  <2> HIDE DEF level, block
  <2>3. /\ r \in EscalationState
        /\ r.violations = s.violations /\ r.first_seen = s.first_seen
        /\ r.current_level = level /\ r.block_until = block
    BY <2>1, <2>2 DEF AtLevel, EscalationState
  <2>4. QED
    BY <1>2, <2>3 DEF block, BlockDeadline
<1> HIDE DEF r
<1>6. EntryInv(r, now)
  BY <1>1, <1>2, <1>3, <1>4, <1>5
  DEF EntryInv, EntryType, EscalationState, Top, OutlastsWindow, Spent, Raised
<1>7. QED
  BY <1>2, <1>3, <1>6 DEF s, r, block

----------------------------------------------------------------------------
(* The invariant is inductive.                                              *)

\* The ring of recent decisions stays within its capacity.
LEMMA PushHolds ==
  ASSUME EngineInv, NEW action \in Actions, PushDecision(action)
  PROVE  recent' \in Seq(Actions) /\ Len(recent') <= MaxRecent
<1> DEFINE longer == Append(recent, action)
<1>1. longer \in Seq(Actions) /\ Len(longer) = Len(recent) + 1
  BY DEF EngineInv
<1>2. recent' = IF Len(longer) > MaxRecent THEN Tail(longer) ELSE longer
  BY DEF PushDecision
<1>3. CASE Len(longer) > MaxRecent
  <2>1. Tail(longer) \in Seq(Actions) /\ Len(Tail(longer)) = Len(longer) - 1
    BY <1>1, <1>3
  <2>2. QED
    BY <1>1, <1>2, <1>3, <2>1 DEF EngineInv
<1>4. CASE Len(longer) <= MaxRecent
  BY <1>1, <1>2, <1>4
<1>5. QED
  BY <1>1, <1>3, <1>4

\* Storing a good entry, with time standing still, keeps every entry good.
LEMMA StoreHolds ==
  ASSUME EngineInv, NEW ip \in Ips, NEW s, EntryInv(s, now) \/ s = NoState,
         SetState(ip, s), UNCHANGED now
  PROVE  /\ now' \in Nat
         /\ DOMAIN states' = Ips
         /\ \A i \in Ips : states'[i] = NoState \/ EntryInv(states'[i], now')
BY DEF EngineInv, SetState

\* No client has an entry at the start.
LEMMA InitEngineInv == Init => EngineInv
<1>1. SUFFICES ASSUME Init PROVE EngineInv
  OBVIOUS
<1>2. <<>> \in Seq(Actions) /\ Len(<<>>) = 0
  OBVIOUS
<1>3. QED
  BY <1>1, <1>2 DEF Init, EngineInv

\* Each operation, and the clock, keeps the invariant.
LEMMA NextEngineInv == EngineInv /\ [Next]_vars => EngineInv'
<1> SUFFICES ASSUME EngineInv, [Next]_vars PROVE EngineInv'
  OBVIOUS
<1>1. ASSUME NEW ip \in Ips, NEW ctx \in Contexts, NEW t \in ClockReadings,
             EvaluateBlocked(ip, ctx, t)
      PROVE  EngineInv'
  <2>1. Cap(Block) \in Actions
    BY DEF Cap
  <2>2. recent' \in Seq(Actions) /\ Len(recent') <= MaxRecent
    BY <1>1, <2>1, PushHolds DEF EvaluateBlocked
  <2>3. QED
    BY <1>1, <2>1, <2>2 DEF EngineInv, EvaluateBlocked, Answer
<1>2. ASSUME NEW ip \in Ips, NEW ctx \in Contexts, NEW t \in ClockReadings,
             EvaluateOpen(ip, ctx, t)
      PROVE  EngineInv'
  <2> DEFINE s == RollWindow(Remember(Lift(Entry(ip, t)), Proposed(ctx), Reasons(ctx)), t)
             action == Cap(Escalated(Cardinality(s.violations), Proposed(ctx)))
  <2>1. EntryInv(Judge(s, t), now)
    BY <1>2, EvaluateHolds DEF EvaluateOpen
  <2>2. action \in Actions
    <3> HIDE DEF s
    <3>1. QED
      BY ProposedIsAction DEF Cap, Escalated, Stronger
  <2>3. /\ SetState(ip, Judge(s, t)) /\ Answer(ip, action) /\ PushDecision(action)
        /\ UNCHANGED now
    BY <1>2 DEF EvaluateOpen
  <2> HIDE DEF s, action
  <2>4. recent' \in Seq(Actions) /\ Len(recent') <= MaxRecent
    BY <2>2, <2>3, PushHolds
  <2>5. reply' \in [ip : Ips \cup {NoState}, action : Actions]
    BY <2>2, <2>3 DEF Answer
  <2>6. QED
    BY <2>1, <2>3, <2>4, <2>5, StoreHolds DEF EngineInv
<1>3. ASSUME NEW ip \in Ips, NEW t \in ClockReadings, EscalateBlocked(ip, t)
      PROVE  EngineInv'
  BY <1>3 DEF EngineInv, EscalateBlocked, Answer
<1>4. ASSUME NEW ip \in Ips, NEW t \in ClockReadings, EscalateOpen(ip, t)
      PROVE  EngineInv'
  <2> DEFINE s == Lift(Entry(ip, t))
             level == s.current_level + 1
             next == AtLevel(s, level, IF level > 3 THEN BlockDeadline(t) ELSE s.block_until)
             action == IF level > 3 THEN Block ELSE level
  <2>1. EntryInv(next, now) /\ level \in 1..4
    BY <1>4, EscalateHolds DEF EscalateOpen
  <2>2. SetState(ip, next) /\ Answer(ip, action) /\ UNCHANGED <<now, recent>>
    BY <1>4 DEF EscalateOpen
  <2>3. action \in Actions
    BY <2>1
  <2> HIDE DEF next, action, level
  <2>4. reply' \in [ip : Ips \cup {NoState}, action : Actions]
    BY <2>2, <2>3 DEF Answer
  <2>5. QED
    BY <2>1, <2>2, <2>4, StoreHolds DEF EngineInv
<1>5. ASSUME NEW ip \in Ips, ResetEscalation(ip)
      PROVE  EngineInv'
  BY <1>5, StoreHolds DEF EngineInv, ResetEscalation
<1>6. CASE Tick
  <2>1. ASSUME NEW ip \in Ips, EntryInv(states[ip], now)
        PROVE  EntryInv(states[ip], now + 1)
    BY <2>1 DEF EngineInv, EntryInv, EntryType, EscalationState, Spent, Raised
  <2>2. QED
    BY <1>6, <2>1 DEF Tick, EngineInv
<1>7. CASE UNCHANGED vars
  BY <1>7 DEF vars, EngineInv
<1>8. QED
  BY <1>1, <1>2, <1>3, <1>4, <1>5, <1>6, <1>7 DEF Next

----------------------------------------------------------------------------
(* The theorems.                                                            *)

\* Whatever calls are made and however time passes, every entry satisfies the
\* invariant.
THEOREM EngineSafe == Spec => []EngineInv
BY InitEngineInv, NextEngineInv, PTL DEF Spec

\* The entries, the ring of recent decisions and the answers keep their types.
THEOREM EngineTypeCorrect == Spec => []TypeOK
<1>1. EngineInv => TypeOK
  BY DEF EngineInv, TypeOK, EntryInv, EntryType, WellFormed
<1>2. QED
  BY <1>1, EngineSafe, PTL

\* A client is at the top level exactly while a block is recorded for it.
THEOREM EngineBlockAtTopLevel == Spec => []BlockAtTopLevel
<1>1. EngineInv => BlockAtTopLevel
  BY DEF EngineInv, BlockAtTopLevel, EntryInv, Top, Known
<1>2. QED
  BY <1>1, EngineSafe, PTL

\* The violations behind a block never lead to a second one, for any block that
\* is longer than the window.
THEOREM EngineSpentViolations == Spec => []SpentViolations
<1>1. EngineInv => SpentViolations
  <2>1. SUFFICES ASSUME EngineInv, NEW ip \in Ips, Known(ip),
                        states[ip].block_until = NotBlocked,
                        Violations(ip) >= 3 * Threshold
                 PROVE  ~WindowOpen(ip)
    BY DEF SpentViolations
  <2>2. EntryType(states[ip], now) /\ Spent(states[ip], now)
    BY <2>1 DEF EngineInv, EntryInv, Known
  <2>3. QED
    BY <2>1, <2>2 DEF EngineInv, Spent, EntryType, EscalationState, Violations, WindowOpen
<1>2. QED
  BY <1>1, EngineSafe, PTL

\* In an open window a client that is not blocked is at the level its distinct
\* violations call for, or above.
THEOREM EngineViolationsRaiseLevel == Spec => []ViolationsRaiseLevel
<1>1. EngineInv => ViolationsRaiseLevel
  BY DEF EngineInv, EntryInv, Raised, ViolationsRaiseLevel, Known, Violations, WindowOpen
<1>2. QED
  BY <1>1, EngineSafe, PTL

\* A block in force stands: no call but a reset touches it, and every answer to
\* its client is Block, or the cap.
THEOREM EngineBlockStands == Spec => BlockStands
<1> DEFINE Stands(ip) ==
      Blocked(ip) =>
        /\ states'[ip] \in {states[ip], NoState}
        /\ reply' # reply /\ reply'.ip = ip => reply'.action \in {Block, Cap(Block)}
<1>1. ASSUME EngineInv, [Next]_vars, NEW ip \in Ips, Blocked(ip) PROVE Stands(ip)
  <2>1. states[ip] # NoState /\ (\A t \in ClockReadings : InForce(Entry(ip, t), t)) /\ DOMAIN states = Ips
    BY <1>1, ReadingType DEF Blocked, Known, Entry, EngineInv, InForce, EntryInv, EntryType, EscalationState
  <2>2. ASSUME NEW i \in Ips, NEW ctx \in Contexts, NEW t \in ClockReadings,
             EvaluateBlocked(i, ctx, t) PROVE Stands(ip)
    BY <2>2 DEF EvaluateBlocked, Answer
  <2>3. ASSUME NEW i \in Ips, NEW ctx \in Contexts, NEW t \in ClockReadings,
             EvaluateOpen(i, ctx, t) PROVE Stands(ip)
    BY <2>1, <2>3 DEF EvaluateOpen, Answer, SetState
  <2>4. ASSUME NEW i \in Ips, NEW t \in ClockReadings, EscalateBlocked(i, t) PROVE Stands(ip)
    BY <2>4 DEF EscalateBlocked, Answer
  <2>5. ASSUME NEW i \in Ips, NEW t \in ClockReadings, EscalateOpen(i, t) PROVE Stands(ip)
    BY <2>1, <2>5 DEF EscalateOpen, Answer, SetState
  <2>6. ASSUME NEW i \in Ips, ResetEscalation(i) PROVE Stands(ip)
    BY <2>1, <2>6 DEF ResetEscalation, SetState
  <2>7. CASE Tick \/ UNCHANGED vars
    BY <2>7 DEF Tick, vars
  <2>8. QED
    BY <1>1, <2>2, <2>3, <2>4, <2>5, <2>6, <2>7 DEF Next
<1>2. EngineInv /\ [Next]_vars => [\A ip \in Ips : Stands(ip)]_vars
  BY <1>1
<1>3. QED
  BY <1>2, EngineSafe, PTL DEF Spec, BlockStands

\* A block is imposed only by the fourth escalation or by enough distinct
\* violations inside one window.
THEOREM EngineBlocksAreEarned == Spec => BlocksAreEarned
<1> DEFINE Earned(ip) ==
      ~Blocked(ip) /\ Blocked(ip)' =>
        \/ Known(ip) /\ states[ip].current_level = 3 /\ states[ip].block_until = NotBlocked
        \/ Violations(ip)' >= 3 * Threshold
           /\ BlockedAt(ip)' - states'[ip].first_seen <= Window
<1>1. ASSUME EngineInv, [Next]_vars, NEW ip \in Ips, ~Blocked(ip), Blocked(ip)' PROVE Earned(ip)
  <2>1. DOMAIN states = Ips /\ now \in Nat
    BY <1>1 DEF EngineInv
  <2>2. ASSUME NEW i \in Ips, NEW ctx \in Contexts, NEW t \in ClockReadings,
             EvaluateBlocked(i, ctx, t) PROVE Earned(ip)
    BY <1>1, <2>2 DEF EvaluateBlocked, Blocked, Known, InForce
  <2>3. ASSUME NEW i \in Ips, NEW ctx \in Contexts, NEW t \in ClockReadings,
             EvaluateOpen(i, ctx, t) PROVE Earned(ip)
    <3> DEFINE s == RollWindow(Remember(Lift(Entry(i, t)), Proposed(ctx), Reasons(ctx)), t)
    <3>1. EntryType(s, now) /\ t - s.first_seen <= Window /\ s.block_until = NotBlocked
      BY <1>1, <2>3, EvaluateHolds DEF EvaluateOpen
    <3>2. states' = [states EXCEPT ![i] = Judge(s, t)] /\ now' = now
      BY <2>3 DEF EvaluateOpen, SetState
    <3> HIDE DEF s
    <3>3. CASE i # ip
      BY <1>1, <2>1, <3>2, <3>3 DEF Blocked, Known, InForce
    <3>4. CASE i = ip
      <4>1. states'[ip] = Judge(s, t)
        BY <2>1, <3>2, <3>4
      <4>2. Judge(s, t).violations = s.violations /\ Judge(s, t).first_seen = s.first_seen
        BY DEF Judge, AtLevel
      <4>3. Judge(s, t).block_until # NotBlocked
        BY <1>1, <4>1 DEF Blocked, InForce
      <4>4. Cardinality(s.violations) >= 3 * Threshold
        BY <3>1, <4>3 DEF Judge, AtLevel
      <4>5. Judge(s, t).block_until = t + BlockSeconds
        BY <4>4 DEF Judge, AtLevel, BlockDeadline
      <4>6. BlockedAt(ip)' = t
        <5> DEFINE j == Judge(s, t)
        <5>1. states'[ip].block_until = t + BlockSeconds
          <6> HIDE DEF j
          <6>1. states'[ip] = j /\ j.block_until = t + BlockSeconds
            BY <4>1, <4>5 DEF j
          <6>2. QED
            BY <6>1
        <5>2. t \in Nat
          BY <1>1, ReadingType
        <5>3. BlockedAt(ip)' = states'[ip].block_until - BlockSeconds
          BY DEF BlockedAt
        <5>4. QED
          BY <5>1, <5>2, <5>3
      <4>7. states'[ip].first_seen = s.first_seen /\ Violations(ip)' = Cardinality(s.violations)
        BY <4>1, <4>2 DEF Violations
      <4>8. Violations(ip)' >= 3 * Threshold /\ BlockedAt(ip)' - states'[ip].first_seen <= Window
        BY <3>1, <4>4, <4>6, <4>7
      <4>9. QED
        BY <4>8
    <3>5. QED
      BY <3>3, <3>4
  <2>4. ASSUME NEW i \in Ips, NEW t \in ClockReadings, EscalateBlocked(i, t) PROVE Earned(ip)
    BY <1>1, <2>4 DEF EscalateBlocked, Blocked, Known, InForce
  <2>5. ASSUME NEW i \in Ips, NEW t \in ClockReadings, EscalateOpen(i, t) PROVE Earned(ip)
    <3> DEFINE s == Lift(Entry(i, t))
               level == s.current_level + 1
               next == AtLevel(s, level, IF level > 3 THEN BlockDeadline(t) ELSE s.block_until)
    <3>1. states' = [states EXCEPT ![i] = next] /\ now' = now
      BY <2>5 DEF EscalateOpen, SetState
    <3>2. s.block_until = NotBlocked /\ level \in 1..4
      BY <1>1, <2>1, <2>5, EscalateHolds DEF EscalateOpen
    <3>3. CASE i # ip
      <4> HIDE DEF next
      <4>1. QED
        BY <1>1, <2>1, <3>1, <3>3 DEF Blocked, Known, InForce
    <3>4. CASE i = ip
      <4>1. states'[ip] = next
        BY <2>1, <3>1, <3>4
      <4>2. next.block_until # NotBlocked
        BY <1>1, <4>1 DEF Blocked, InForce
      <4>3. next.block_until = IF level > 3 THEN BlockDeadline(t) ELSE s.block_until
        BY DEF AtLevel
      <4>4. level > 3
        BY <3>2, <4>2, <4>3
      <4>5. s.current_level # 0
        BY <4>4
      <4>6. s = Entry(ip, t) /\ states[ip] # NoState
        BY <3>4, <4>5 DEF Lift, AtLevel, Entry, Fresh
      <4>7. s = states[ip]
        BY <4>6 DEF Entry
      <4>8. s.current_level = 3
        <5>1. states[ip].current_level \in 0..4
          BY <1>1, <4>6 DEF EngineInv, EntryInv, EntryType, EscalationState
        <5>2. s.current_level \in 0..4 /\ s.current_level + 1 > 3 /\ s.current_level + 1 <= 4
          BY <3>2, <4>4, <4>7, <5>1
        <5> HIDE DEF s
        <5>3. QED
          BY <5>2
      <4>9. QED
        BY <3>2, <4>6, <4>7, <4>8 DEF Known
    <3>5. QED
      BY <3>3, <3>4
  <2>6. ASSUME NEW i \in Ips, ResetEscalation(i) PROVE Earned(ip)
    BY <1>1, <2>1, <2>6 DEF ResetEscalation, SetState, Blocked, Known, InForce
  <2>7. CASE Tick
    <3>1. now' = now + 1 /\ states' = states
      BY <2>7 DEF Tick
    <3>2. states[ip] # NoState
      BY <1>1, <3>1 DEF Blocked, Known
    <3>3. states[ip].block_until \in Nat \cup {NotBlocked}
      BY <1>1, <3>2 DEF EngineInv, EntryInv, EntryType, EscalationState
    <3>4. QED
      BY <1>1, <2>1, <3>1, <3>2, <3>3 DEF Blocked, Known, InForce
  <2>8. CASE UNCHANGED vars
    BY <1>1, <2>8 DEF vars, Blocked, Known, InForce
  <2>9. QED
    BY <1>1, <2>2, <2>3, <2>4, <2>5, <2>6, <2>7, <2>8 DEF Next
<1>2. EngineInv /\ [Next]_vars => [\A ip \in Ips : Earned(ip)]_vars
  BY <1>1
<1>3. QED
  BY <1>2, EngineSafe, PTL DEF Spec, BlocksAreEarned
=============================================================================
