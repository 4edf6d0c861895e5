------------------------- MODULE NetworkServer_proof -------------------------
(***************************************************************************)
(* Proofs about the connection tracker and the server around it, for any   *)
(* number of tasks and 5-tuples and any limit.                             *)
(*                                                                         *)
(* The inductive invariant of the tracker is TypeOK (which says that only  *)
(* a task over the limit keeps the lock between steps), CountMatchesActive *)
(* and NoLeakedSlot.  The admission theorem rests on the first two.  The   *)
(* server takes the tracker's steps only, so it inherits all three.        *)
(***************************************************************************)
EXTENDS NetworkServer, TLAPS, FiniteSetTheorems

USE TrackerAssumption

----------------------------------------------------------------------------
(* TypeOK alone is not inductive: that the counter stays a natural number   *)
(* when an entry goes out rests on its being the size of the map.           *)
TrackerInv == TypeOK /\ CountMatchesActive /\ NoLeakedSlot

(* What an insertion and a removal do to the map and its counter.           *)
LEMMA CountAfterInsert ==
  ASSUME CountMatchesActive, NEW c, c \notin active,
         active' = active \cup {c}, count' = count + 1
  PROVE  CountMatchesActive'
BY FS_AddElement DEF CountMatchesActive

\* Removing a tuple that is there takes one off the counter.
LEMMA CountAfterRemove ==
  ASSUME CountMatchesActive, NEW c,
         active' = active \ {c}, count' = IF c \in active THEN count - 1 ELSE count
  PROVE  CountMatchesActive' /\ count' \in Nat
BY FS_RemoveElement, FS_CardinalityType DEF CountMatchesActive

\* No task, no entry.
LEMMA InitTrackerInv == Init => TrackerInv
BY FS_EmptySet DEF Init, TrackerInv, TypeOK, Stages, CountMatchesActive, NoLeakedSlot

\* Each step of a task keeps the tracker's invariant.
LEMMA NextTrackerInv == TrackerInv /\ [Next]_trackerVars => TrackerInv'
<1> SUFFICES ASSUME TrackerInv, [Next]_trackerVars
             PROVE  TrackerInv'
  OBVIOUS
<1> USE DEF TrackerInv, TypeOK, Stages, NoLeakedSlot, Goto, Return
<1>1. ASSUME NEW t \in Tasks, NEW c \in Tuples, Accept(t, c)
      PROVE  TrackerInv'
  BY <1>1 DEF Accept, CountMatchesActive
<1>2. ASSUME NEW t \in Tasks, FiveTupleFails(t) \/ RejectAtCheck(t)
      PROVE  TrackerInv'
  BY <1>2 DEF FiveTupleFails, RejectAtCheck, CountMatchesActive
<1>3. ASSUME NEW t \in Tasks, PassCheck(t) \/ AlreadyTracked(t) \/ Finish(t)
      PROVE  TrackerInv'
  BY <1>3 DEF PassCheck, AlreadyTracked, Finish, CountMatchesActive
<1>4. ASSUME NEW t \in Tasks, TrackNew(t) \/ TrackOverLimit(t)
      PROVE  TrackerInv'
  <2>1. CountMatchesActive'
    BY <1>4, CountAfterInsert DEF TrackNew, TrackOverLimit, Insert
  <2>2. TypeOK'
    BY <1>4 DEF TrackNew, TrackOverLimit, Insert
  <2>3. NoLeakedSlot'
    BY <1>4 DEF TrackNew, TrackOverLimit, Insert
  <2>4. QED
    BY <2>1, <2>2, <2>3
<1>5. ASSUME NEW t \in Tasks, Remove(t)
      PROVE  TrackerInv'
  <2>1. CountMatchesActive' /\ count' \in Nat
    BY <1>5, CountAfterRemove DEF Remove
  <2>2. TypeOK'
    BY <1>5, <2>1 DEF Remove
  <2>3. ASSUME NEW c \in active'
        PROVE  \E u \in Tasks : tuple'[u] = c /\ pc'[u] \in {"serving", "stuck", "remove", "rollback"}
    <3>1. PICK u \in Tasks : tuple[u] = c /\ pc[u] \in {"serving", "stuck", "remove", "rollback"}
      BY <1>5, <2>3 DEF Remove
    <3>2. u # t
      BY <1>5, <2>3, <3>1 DEF Remove
    <3>3. QED
      BY <1>5, <3>1, <3>2 DEF Remove
  <2>4. QED
    BY <2>1, <2>2, <2>3
<1>6. ASSUME NEW t \in Tasks, WaitsBehind(t) \/ \E u \in Tasks : Crosswise(t, u)
      PROVE  TrackerInv'
  <2>1. active' = active /\ count' = count /\ lock' = lock /\ tuple' = tuple
    BY <1>6 DEF WaitsBehind, Crosswise
  <2>2. pc' \in [Tasks -> Stages]
    BY <1>6 DEF WaitsBehind, Crosswise
  <2>3. \A u \in Tasks : pc'[u] = pc[u] \/ (pc[u] = "serving" /\ pc'[u] = "stuck")
    BY <1>6 DEF WaitsBehind, Crosswise
  <2>4. TypeOK'
    BY <2>1, <2>2, <2>3
  <2>5. CountMatchesActive'
    BY <2>1 DEF CountMatchesActive
  <2>6. NoLeakedSlot'
    BY <2>1, <2>3
  <2>7. QED
    BY <2>4, <2>5, <2>6
<1>7. CASE UNCHANGED trackerVars
  BY <1>7 DEF trackerVars, CountMatchesActive
<1>8. QED
  BY <1>1, <1>2, <1>3, <1>4, <1>5, <1>6, <1>7 DEF Next, TaskStep, TryAdd

(* The tracker is type correct, its counter is the size of its map, and     *)
(* every slot belongs to a live task that will give it back.                *)
THEOREM TrackerSafe == Spec => []TrackerInv
BY InitTrackerInv, NextTrackerInv, PTL DEF Spec

----------------------------------------------------------------------------
(* The tracker implements the bounded admission set: insertion within the   *)
(* limit is an Admit, the removal of an entry is a Release, and everything  *)
(* else, the insertion over the limit included, changes nothing.            *)

\* While the lock is free nobody is rolling back.
LEMMA AdmittedAtRest ==
  ASSUME TypeOK, lock = NoTask
  PROVE  Admitted = active
BY DEF Admitted, TypeOK

\* A step of a task admits one connection, releases one, or neither.
LEMMA AdmissionStep ==
  ASSUME TrackerInv, TrackerInv', [Next]_trackerVars
  PROVE  [Admission!Next]_Admitted
<1> USE DEF TrackerInv, TypeOK, Stages, Goto, Return
<1> DEFINE InRollback == {u \in Tasks : pc[u] = "rollback"}
<1>1. ASSUME NEW t \in Tasks,
             \/ \E c \in Tuples : Accept(t, c)
             \/ FiveTupleFails(t) \/ RejectAtCheck(t) \/ PassCheck(t)
             \/ AlreadyTracked(t) \/ Finish(t)
             \/ WaitsBehind(t) \/ \E u \in Tasks : Crosswise(t, u)
      PROVE  Admitted' = Admitted
  <2>1. active' = active /\ InRollback' = InRollback
    BY <1>1 DEF Accept, FiveTupleFails, RejectAtCheck, PassCheck, AlreadyTracked, Finish,
                WaitsBehind, Crosswise
  <2>2. \A u \in InRollback : tuple'[u] = tuple[u]
    BY <1>1 DEF Accept, FiveTupleFails, RejectAtCheck, PassCheck, AlreadyTracked, Finish,
                WaitsBehind, Crosswise
  <2>3. QED
    BY <2>1, <2>2 DEF Admitted
<1>2. ASSUME NEW t \in Tasks, TrackNew(t)
      PROVE  Admission!Admit(tuple[t])
  <2>1. Admitted = active /\ Admitted' = active'
    BY <1>2, AdmittedAtRest DEF TrackNew, Insert, Admitted
  <2>2. Cardinality(active) < MaxConnections
    BY <1>2 DEF TrackNew, LimitExceeded, CountMatchesActive
  <2>3. Admitted' = Admitted \cup {tuple[t]} /\ tuple[t] \notin Admitted
    BY <1>2, <2>1 DEF TrackNew, Insert
  <2>4. Admission!Cardinality(Admitted) = Cardinality(Admitted)
    BY DEF Cardinality, Admission!Cardinality
  <2>5. QED
    BY <2>1, <2>2, <2>3, <2>4 DEF Admission!Admit
<1>3. ASSUME NEW t \in Tasks, TrackOverLimit(t)
      PROVE  Admitted' = Admitted
  <2>1. Admitted = active
    BY <1>3, AdmittedAtRest DEF TrackOverLimit, Insert
  <2>2. InRollback' = {t} /\ tuple' = tuple
    BY <1>3 DEF TrackOverLimit, Insert
  <2>3. QED
    BY <1>3, <2>1, <2>2 DEF TrackOverLimit, Insert, Admitted
<1>4. ASSUME NEW t \in Tasks, Remove(t)
      PROVE  Admission!Release(tuple[t]) \/ Admitted' = Admitted
  <2>1. Admitted = active /\ Admitted' = active'
    BY <1>4, AdmittedAtRest DEF Remove, Admitted
  <2>2. QED
    BY <1>4, <2>1 DEF Remove, Admission!Release
<1>5. CASE UNCHANGED trackerVars
  BY <1>5 DEF trackerVars, Admitted
<1>6. \A t \in Tasks : TrackNew(t) \/ Remove(t) => tuple[t] \in Tuples
  BY DEF TrackNew, Insert, Remove
<1>7. QED
  BY <1>1, <1>2, <1>3, <1>4, <1>5, <1>6 DEF Next, TaskStep, TryAdd, Admission!Next

(* The connections try_add has said yes to never exceed the limit, and come *)
(* and go one at a time.                                                    *)
THEOREM TrackerImplementsAdmission == Spec => ImplementsAdmission
<1>1. Init => Admission!Init
  BY DEF Init, Admission!Init, Admitted
<1>2. QED
  BY <1>1, TrackerSafe, AdmissionStep, PTL DEF Spec, ImplementsAdmission, Admission!Spec

----------------------------------------------------------------------------
(* The server around the tracker takes the tracker's steps and no others.   *)
THEOREM ServerImplementsTracker == ServerSpec => Spec
<1>1. ServerInit => Init
  BY DEF ServerInit
<1>2. [ServerNext]_serverVars => [Next]_trackerVars
  BY DEF ServerNext, serverVars, trackerVars, Next, LoopStep, AcceptConnection, AcceptError,
         BackoffOver, OsSignal, OsSignalMissed, NotifyWaiters
<1>3. QED
  BY <1>1, <1>2, PTL DEF Spec, ServerSpec

(* The atomic counter of the server is the size of its connection map.      *)
THEOREM ServerCountMatchesActive == ServerSpec => []CountMatchesActive
BY ServerImplementsTracker, TrackerSafe, PTL DEF TrackerInv

(* No entry of the map outlives the task that put it there or shares it.    *)
THEOREM ServerLeaksNoSlot == ServerSpec => []NoLeakedSlot
BY ServerImplementsTracker, TrackerSafe, PTL DEF TrackerInv

(* The server admits at most MaxConnections connections at a time.          *)
THEOREM ServerImplementsAdmission == ServerSpec => ImplementsAdmission
BY ServerImplementsTracker, TrackerImplementsAdmission, PTL

(* The server is type correct; in particular a Notified future is           *)
(* registered exactly while the loop is inside select!.                     *)
THEOREM ServerTypeCorrect == ServerSpec => []ServerTypeOK
<1> DEFINE LoopOK == /\ loop \in LoopStages
                     /\ waiters = (loop = "select")
                     /\ notified \in BOOLEAN
                     /\ notified => loop = "select"
                     /\ signalled \in BOOLEAN
<1>1. ServerInit => LoopOK
  BY DEF ServerInit, LoopStages
<1>2. LoopOK /\ [ServerNext]_serverVars => LoopOK'
  BY DEF LoopStages, ServerNext, serverVars, loopVars, LoopStep, AcceptConnection, AcceptError,
         BackoffOver, OsSignal, OsSignalMissed, NotifyWaiters, NewFutures, DropFutures
<1>3. QED
  BY <1>1, <1>2, ServerImplementsTracker, TrackerSafe, PTL
  DEF ServerSpec, ServerTypeOK, TrackerInv

(* The loop never drains and never stops, whatever signals arrive: when     *)
(* notify_waiters is called (:267) select! has dropped the only future that *)
(* is ever registered.                                                      *)
THEOREM DrainNeverBegins == DrainSpec => [](loop \notin {"draining", "stopped"})
<1> DEFINE Unwoken == /\ loop \in {"select", "backoff", "signal"}
                      /\ waiters = (loop = "select")
                      /\ notified = FALSE
<1>1. ServerInit => Unwoken
  BY DEF ServerInit
<1>2. Unwoken /\ [DrainNext]_serverVars => Unwoken'
  BY DEF DrainNext, ServerNext, serverVars, loopVars, LoopStep, AcceptConnection, AcceptError,
         BackoffOver, OsSignal, OsSignalMissed, NotifyWaiters, BeginDrain, Stop,
         NewFutures, DropFutures
<1>3. Unwoken => loop \notin {"draining", "stopped"}
  OBVIOUS
<1>4. QED
  BY <1>1, <1>2, <1>3, PTL DEF DrainSpec
=============================================================================
