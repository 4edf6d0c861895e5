--------------------------- MODULE ResponseEngine ---------------------------
(***************************************************************************)
(* ResponseEngine (src/engine/response_engine.rs): the verdict on a        *)
(* request and the escalation of clients that keep offending.              *)
(*                                                                         *)
(* Each call handles the state of its client inside one write lock of      *)
(* escalation_states, so a call is a step; it reads the clock before it    *)
(* waits for the lock (:220-221, :277-278), so the time t it works with    *)
(* may be older than what other calls stored in the meantime.  The wall    *)
(* clock, in seconds, is moved by Tick and assumed not to go back.         *)
(* Templates, status codes and headers follow from the action and are left *)
(* out, and so is last_seen, which nothing reads.                          *)
(***************************************************************************)
EXTENDS Naturals, FiniteSets, Sequences

CONSTANTS Ips,            \* clients
          Contexts,       \* what the pipeline found about a request
          MaxEscalation,  \* max_escalation; AppState passes Block
          Threshold,      \* escalation_violation_threshold, 3
          Window,         \* escalation_window_seconds, 300
          BlockSeconds,   \* 3600
          Lag,            \* seconds a call may wait for the lock
          MaxRecent,      \* capacity of recent_decisions, 1000
          MaxNow,         \* bound on the clock
          NoState, NotBlocked

(* ResponseAction, in the order of the derived Ord.                        *)
Allow     == 0
Log       == 1
Challenge == 2
RateLimit == 3
Block     == 4
Redirect  == 5
Actions   == Allow .. Redirect

\* The scores stand for the band the code puts them in: 0 is below every limit.
ASSUME ContextAssumption ==
  Contexts \subseteq [dpi_threats : Nat, bot : 0..3, threat_intel : 0..2,
                      anomaly : 0..2, rate_limit : 0..1]

ASSUME EngineAssumption ==
  /\ MaxEscalation \in Actions
  /\ Threshold \in Nat \ {0}
  /\ Window \in Nat /\ BlockSeconds \in Nat /\ Lag \in Nat
  /\ Window + Lag < BlockSeconds
  /\ MaxRecent \in Nat \ {0}
  /\ MaxNow \in Nat
  /\ NotBlocked \notin Nat

VARIABLES now,      \* Utc::now().timestamp()
          states,   \* escalation_states: NoState for a client not in the map
          recent,   \* the actions of recent_decisions, oldest first
          reply     \* the client and action of the last decision returned

vars == <<now, states, recent, reply>>

Reason == {"dpi_threats", "bot", "threat_intel", "anomaly", "rate_limit"} \X Nat

EscalationState ==
  [current_level : 0..4, violations : SUBSET Reason, first_seen : Nat,
   block_until : Nat \cup {NotBlocked}]

WellFormed(s) == s \in EscalationState /\ IsFiniteSet(s.violations) /\ s.first_seen <= now

TypeOK ==
  /\ now \in Nat
  /\ \A ip \in Ips : states[ip] = NoState \/ WellFormed(states[ip])
  /\ DOMAIN states = Ips
  /\ recent \in Seq(Actions) /\ Len(recent) <= MaxRecent
  /\ reply \in [ip : Ips \cup {NoState}, action : Actions]

Init ==
  /\ now = 0
  /\ states = [ip \in Ips |-> NoState]
  /\ recent = <<>>
  /\ reply = [ip |-> NoState, action |-> Allow]

----------------------------------------------------------------------------
(* The verdict on one request, :107-153.                                    *)

Stronger(a, b) == IF a >= b THEN a ELSE b

DpiVerdict(n) == IF n > 3 THEN Block ELSE IF n > 1 THEN Challenge ELSE n

\* A moderate bot score asks for Log; the other two scores have no such band.
BotVerdict(band) == <<Allow, Log, Challenge, Block>>[band + 1]
ScoreVerdict(band) == <<Allow, Challenge, Block>>[band + 1]
RateVerdict(triggered) == IF triggered = 1 THEN RateLimit ELSE Allow

Proposed(ctx) ==
  Stronger(DpiVerdict(ctx.dpi_threats),
    Stronger(BotVerdict(ctx.bot),
      Stronger(ScoreVerdict(ctx.threat_intel),
        Stronger(ScoreVerdict(ctx.anomaly), RateVerdict(ctx.rate_limit)))))

\* One reason per signal that fired, named by the signal and its band (for
\* dpi_threats its count): the strings the code pushes differ in just these.
Reasons(ctx) ==
  {r \in {<<"dpi_threats", ctx.dpi_threats>>, <<"bot", ctx.bot>>,
          <<"threat_intel", ctx.threat_intel>>, <<"anomaly", ctx.anomaly>>,
          <<"rate_limit", ctx.rate_limit>>} : r[2] > 0}

----------------------------------------------------------------------------
(* Pieces of apply_escalation and escalate_response.                        *)

\* The times a call that gets the lock now may have read.
ClockReadings == {t \in 0 .. now : t + Lag >= now}

\* A window that opens at t, with nothing in it.
Fresh(t, block) ==
  [current_level |-> 0, violations |-> {}, first_seen |-> t, block_until |-> block]

\* :223-232, :280-289: the entry of the client, made if it is not there.
Entry(ip, t) ==
  IF states[ip] = NoState THEN Fresh(t, NotBlocked) ELSE states[ip]

\* :234-236, :291-292.
InForce(s, t) == s.block_until # NotBlocked /\ t < s.block_until

\* The same violations and window, at another level.
AtLevel(s, level, block) ==
  [current_level |-> level, violations |-> s.violations,
   first_seen |-> s.first_seen, block_until |-> block]

\* Faulty variant: the block is lifted and the level stays at the top.
LiftKeepingLevel(s) == AtLevel(s, s.current_level, NotBlocked)

\* :237-240, :303-306: a block that has run out is lifted.
Lift(s) ==
  IF s.block_until = NotBlocked THEN s ELSE AtLevel(s, 0, NotBlocked)

\* :245-251: distinct reasons only, and only for more than a Log.
Remember(s, proposed, reasons) ==
  IF proposed > Log THEN [s EXCEPT !.violations = @ \cup reasons] ELSE s

\* Faulty variant: the window never closes.
RollNever(s, t) == s

\* :253-258: a closed window forgets what it held, this request's included.
RollWindow(s, t) ==
  IF t - s.first_seen > Window THEN Fresh(t, s.block_until) ELSE s

\* Faulty variant: a block no longer than the window.
DeadlineInWindow(t) == t + Window

\* :263, :317.
BlockDeadline(t) == t + BlockSeconds

\* Faulty variant: one violation more than the threshold says.
LevelAbove(n, s) ==
  IF n > 3 * Threshold THEN Block
  ELSE IF n > 2 * Threshold THEN RateLimit
  ELSE IF n > Threshold THEN Challenge
  ELSE s.current_level

\* :260-270, the level n distinct violations lead to.
LevelFor(n, s) ==
  IF n >= 3 * Threshold THEN Block
  ELSE IF n >= 2 * Threshold THEN RateLimit
  ELSE IF n >= Threshold THEN Challenge
  ELSE s.current_level

\* :260-273, what they make of the proposed action.
Escalated(n, proposed) ==
  IF n >= 3 * Threshold THEN Block
  ELSE IF n >= 2 * Threshold THEN Stronger(proposed, RateLimit)
  ELSE IF n >= Threshold THEN Stronger(proposed, Challenge)
  ELSE proposed

Judge(s, t) ==
  LET n == Cardinality(s.violations)
  IN  AtLevel(s, LevelFor(n, s),
              IF n >= 3 * Threshold THEN BlockDeadline(t) ELSE s.block_until)

\* :157-159.
Cap(action) == IF action > MaxEscalation THEN MaxEscalation ELSE action

----------------------------------------------------------------------------
(* The operations.                                                          *)

SetState(ip, s) == states' = [states EXCEPT ![ip] = s]

Answer(ip, action) == reply' = [ip |-> ip, action |-> action]

\* Faulty variant: nothing is popped.
PushUnbounded(action) == recent' = Append(recent, action)

\* :205-209, push_back and pop_front over the capacity.
PushDecision(action) ==
  LET longer == Append(recent, action)
  IN  recent' = IF Len(longer) > MaxRecent THEN Tail(longer) ELSE longer

\* evaluate_threat for a client whose block is in force (:235-236).
EvaluateBlocked(ip, ctx, t) ==
  /\ InForce(Entry(ip, t), t)
  /\ Answer(ip, Cap(Block))
  /\ PushDecision(Cap(Block))
  /\ UNCHANGED <<now, states>>

EvaluateOpen(ip, ctx, t) ==
  /\ ~InForce(Entry(ip, t), t)
  /\ LET s == RollWindow(Remember(Lift(Entry(ip, t)), Proposed(ctx), Reasons(ctx)), t)
         action == Cap(Escalated(Cardinality(s.violations), Proposed(ctx)))
     IN  /\ SetState(ip, Judge(s, t))
         /\ Answer(ip, action)
         /\ PushDecision(action)
  /\ UNCHANGED now

\* Faulty variant: every request of a blocked client starts the block anew.
EscalateExtending(ip, t) ==
  /\ InForce(Entry(ip, t), t)
  /\ SetState(ip, [Entry(ip, t) EXCEPT !.block_until = BlockDeadline(t)])
  /\ Answer(ip, Block)
  /\ UNCHANGED <<now, recent>>

\* escalate_response for a client whose block is in force (:291-302).
EscalateBlocked(ip, t) ==
  /\ InForce(Entry(ip, t), t)
  /\ Answer(ip, Block)
  /\ UNCHANGED <<now, states, recent>>

\* :309-320; max_escalation is not consulted.
EscalateOpen(ip, t) ==
  /\ ~InForce(Entry(ip, t), t)
  /\ LET s == Lift(Entry(ip, t))
         level == s.current_level + 1
     IN  /\ SetState(ip, AtLevel(s, level, IF level > 3 THEN BlockDeadline(t)
                                           ELSE s.block_until))
         /\ Answer(ip, IF level > 3 THEN Block ELSE level)
  /\ UNCHANGED <<now, recent>>

\* :392-394.
ResetEscalation(ip) ==
  /\ SetState(ip, NoState)
  /\ UNCHANGED <<now, recent, reply>>

Tick ==
  /\ now < MaxNow
  /\ now' = now + 1
  /\ UNCHANGED <<states, recent, reply>>

Next ==
  \/ \E ip \in Ips, ctx \in Contexts, t \in ClockReadings :
       EvaluateBlocked(ip, ctx, t) \/ EvaluateOpen(ip, ctx, t)
  \/ \E ip \in Ips, t \in ClockReadings : EscalateBlocked(ip, t) \/ EscalateOpen(ip, t)
  \/ \E ip \in Ips : ResetEscalation(ip)
  \/ Tick

Spec == Init /\ [][Next]_vars

----------------------------------------------------------------------------
(* Properties.                                                              *)

Known(ip) == states[ip] # NoState
Blocked(ip) == Known(ip) /\ InForce(states[ip], now)
Violations(ip) == Cardinality(states[ip].violations)
WindowOpen(ip) == now - states[ip].first_seen <= Window

\* The ladder ends at Block: a client is at level 4 exactly while a block is
\* recorded for it, so escalate_response never counts past the last rung.
BlockAtTopLevel ==
  \A ip \in Ips :
    Known(ip) => (states[ip].current_level = 4 <=> states[ip].block_until # NotBlocked)

\* Violations that have led to a block never lead to a second one: by the time
\* the block is lifted, by whichever call, their window has closed.
SpentViolations ==
  \A ip \in Ips :
    Known(ip) /\ states[ip].block_until = NotBlocked /\ Violations(ip) >= 3 * Threshold
      => ~WindowOpen(ip)

\* While its window is open, a client that is not blocked is at the level its
\* distinct violations call for, or above: escalate_response, resets and blocks
\* in between never leave it lower.
ViolationsRaiseLevel ==
  \A ip \in Ips :
    Known(ip) /\ states[ip].block_until = NotBlocked /\ WindowOpen(ip) =>
      /\ Violations(ip) >= Threshold => states[ip].current_level >= Challenge
      /\ Violations(ip) >= 2 * Threshold => states[ip].current_level >= RateLimit

\* A block in force stands: until it runs out or is reset no call moves or
\* shortens it, and every answer to the client is Block (or the cap).
BlockStands ==
  [][\A ip \in Ips : Blocked(ip) =>
       /\ states'[ip] \in {states[ip], NoState}
       /\ reply' # reply /\ reply'.ip = ip => reply'.action \in {Block, Cap(Block)}]_vars

\* When the block of a client was imposed.
BlockedAt(ip) == states[ip].block_until - BlockSeconds

\* A block is imposed only by the fourth escalation of a client, or by enough
\* distinct violations inside one window; whatever was recorded in an earlier
\* window or before an earlier block does not count.
BlocksAreEarned ==
  [][\A ip \in Ips : ~Blocked(ip) /\ Blocked(ip)' =>
       \/ Known(ip) /\ states[ip].current_level = 3 /\ states[ip].block_until = NotBlocked
       \/ Violations(ip)' >= 3 * Threshold
          /\ BlockedAt(ip)' - states'[ip].first_seen <= Window]_vars
=============================================================================
