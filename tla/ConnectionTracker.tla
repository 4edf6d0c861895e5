-------------------------- MODULE ConnectionTracker --------------------------
(***************************************************************************)
(* ConnectionTracker (src/io/network.rs:66-121) under the tasks that       *)
(* start_server spawns, one per accepted connection (:208-247).  A task    *)
(* calls try_add, serves the connection, and calls remove.                 *)
(*                                                                         *)
(* try_add reads the atomic counter before it takes the write lock of the  *)
(* map, so the steps of two tasks interleave between the two.  A step of   *)
(* this module is what one task does between two points where another task *)
(* can observe or disturb it: the unlocked read of the counter, and one    *)
(* critical section of the (non-reentrant) lock.                           *)
(***************************************************************************)
EXTENDS Naturals, FiniteSets

CONSTANTS Tasks,            \* tasks that can be alive at once
          Tuples,           \* 5-tuples of the connections
          MaxConnections,   \* config.server.max_connections
          NoTask, NoTuple

ASSUME TrackerAssumption ==
  /\ MaxConnections \in Nat
  /\ NoTask \notin Tasks
  /\ NoTuple \notin Tuples

VARIABLES active,   \* keys of the map `active`
          count,    \* the AtomicU64 `count`
          lock,     \* the task inside a critical section of `active`, at rest
          pc,       \* where each task is
          tuple     \* the 5-tuple each task serves

trackerVars == <<active, count, lock, pc, tuple>>

(* "check"     spawned; about to load the counter (:76)                      *)
(* "insert"    passed the check; about to take the write lock (:84)          *)
(* "rollback"  over the limit: inside remove (:101), the lock of :84 held    *)
(* "serving"   inside handle_connection (:233)                               *)
(* "stuck"     inside it for ever, its thread blocked in a lock behind :241  *)
(* "remove"    handler done, socket closed; about to call remove (:246)      *)
Stages == {"idle", "check", "insert", "rollback", "serving", "stuck", "remove"}

TypeOK ==
  /\ active \subseteq Tuples
  /\ count \in Nat
  /\ lock \in Tasks \cup {NoTask}
  /\ pc \in [Tasks -> Stages]
  /\ tuple \in [Tasks -> Tuples \cup {NoTuple}]
  /\ \A t \in Tasks : tuple[t] = NoTuple <=> pc[t] = "idle"
  /\ \A t \in Tasks : pc[t] = "rollback" <=> lock = t

Init ==
  /\ active = {}
  /\ count = 0
  /\ lock = NoTask
  /\ pc = [t \in Tasks |-> "idle"]
  /\ tuple = [t \in Tasks |-> NoTuple]

----------------------------------------------------------------------------
(* The life of a task.                                                      *)

\* No two open sockets have one 5-tuple, but the socket of a task in "remove"
\* is already closed: the client may have come back from the same port.
SocketOpen(c) == \E t \in Tasks : tuple[t] = c /\ pc[t] # "remove"

Accept(t, c) ==
  /\ pc[t] = "idle"
  /\ ~SocketOpen(c)
  /\ pc' = [pc EXCEPT ![t] = "check"]
  /\ tuple' = [tuple EXCEPT ![t] = c]
  /\ UNCHANGED <<active, count, lock>>

Goto(t, stage) == pc' = [pc EXCEPT ![t] = stage]

\* The task returns; its identifier is free for another connection.
Return(t) ==
  /\ Goto(t, "idle")
  /\ tuple' = [tuple EXCEPT ![t] = NoTuple]

\* ConnectionFiveTuple::from_tcp fails: the task ends before try_add.
FiveTupleFails(t) ==
  /\ pc[t] = "check"
  /\ Return(t)
  /\ UNCHANGED <<active, count, lock>>

\* behavioral_analyzer.rs:224-242 takes path_sequence and then
\* path_transitions, :275-283 takes them the other way round.  Two handlers
\* that hold one each and ask for the other's (BehavioralAnalyzer!LockCycle) are
\* blocked with their threads: the timeout of :233 runs on the thread of the
\* handler and cannot end it.
Crosswise(t, u) ==
  /\ t # u
  /\ pc[t] = "serving"
  /\ pc[u] = "serving"
  /\ pc' = [pc EXCEPT ![t] = "stuck", ![u] = "stuck"]
  /\ UNCHANGED <<active, count, lock, tuple>>

HandlersStuck == \E t \in Tasks : pc[t] = "stuck"

\* Every later handler that asks for one of the two locks waits behind them.
WaitsBehind(t) ==
  /\ pc[t] = "serving"
  /\ HandlersStuck
  /\ Goto(t, "stuck")
  /\ UNCHANGED <<active, count, lock, tuple>>

\* Faulty variant: no timeout around a handler whose client stays silent.
FinishUntimed(t) ==
  /\ FALSE
  /\ UNCHANGED trackerVars

\* The handler returns, fails or, at an await, is found to have exceeded
\* request_timeout_ms: all three lead to remove, with the stream dropped.
Finish(t) ==
  /\ pc[t] = "serving"
  /\ Goto(t, "remove")
  /\ UNCHANGED <<active, count, lock, tuple>>

----------------------------------------------------------------------------
(* try_add.                                                                 *)

LimitReached == count >= MaxConnections

\* Faulty variant: no second look at the counter under the lock.
NeverExceeded == FALSE

LimitExceeded == count + 1 > MaxConnections

\* :76-82, the early return.
RejectAtCheck(t) ==
  /\ pc[t] = "check"
  /\ LimitReached
  /\ Return(t)
  /\ UNCHANGED <<active, count, lock>>

PassCheck(t) ==
  /\ pc[t] = "check"
  /\ ~LimitReached
  /\ Goto(t, "insert")
  /\ UNCHANGED <<active, count, lock, tuple>>

\* :85-87: the tuple is there already; try_add answers Ok and tracks nothing.
AlreadyTracked(t) ==
  /\ pc[t] = "insert"
  /\ lock = NoTask
  /\ tuple[t] \in active
  /\ Goto(t, "serving")
  /\ UNCHANGED <<active, count, lock, tuple>>

Insert(t) ==
  /\ pc[t] = "insert"
  /\ lock = NoTask
  /\ tuple[t] \notin active
  /\ active' = active \cup {tuple[t]}
  /\ count' = count + 1

TrackNew(t) ==
  /\ Insert(t)
  /\ ~LimitExceeded
  /\ Goto(t, "serving")
  /\ UNCHANGED <<lock, tuple>>

\* :100-101: remove is called while the guard of :84 is alive, and asks for
\* the same lock.
TrackOverLimit(t) ==
  /\ Insert(t)
  /\ LimitExceeded
  /\ Goto(t, "rollback")
  /\ lock' = t
  /\ UNCHANGED tuple

----------------------------------------------------------------------------
(* remove, called at the end of a task or from the over-limit path.  Both   *)
(* callers then return.                                                     *)

\* Faulty variant: the counter goes down whether or not the entry was there.
RemoveUncounted(t) ==
  /\ pc[t] \in {"remove", "rollback"}
  /\ lock = NoTask
  /\ active' = active \ {tuple[t]}
  /\ count' = count - 1
  /\ Return(t)
  /\ UNCHANGED lock

\* Faulty variant: the task ends without giving its slot back.
RemoveForgets(t) ==
  /\ pc[t] \in {"remove", "rollback"}
  /\ lock = NoTask
  /\ Return(t)
  /\ UNCHANGED <<active, count, lock>>

Remove(t) ==
  /\ pc[t] \in {"remove", "rollback"}
  /\ lock = NoTask
  /\ active' = active \ {tuple[t]}
  /\ count' = IF tuple[t] \in active THEN count - 1 ELSE count
  /\ Return(t)
  /\ UNCHANGED lock

----------------------------------------------------------------------------
TryAdd(t) ==
  RejectAtCheck(t) \/ PassCheck(t) \/ AlreadyTracked(t) \/ TrackNew(t) \/ TrackOverLimit(t)

TaskStep(t) ==
  \/ FiveTupleFails(t) \/ TryAdd(t) \/ Finish(t) \/ Remove(t)
  \/ WaitsBehind(t)
  \/ \E u \in Tasks : Crosswise(t, u)

Next == \E t \in Tasks : TaskStep(t) \/ \E c \in Tuples : Accept(t, c)

Spec == Init /\ [][Next]_trackerVars

----------------------------------------------------------------------------
(* Properties.                                                              *)

\* The atomic counter and the size of the map agree whenever no task is
\* inside a critical section: fetch_add and fetch_sub happen exactly when an
\* entry goes in or out, even when two tasks remove one tuple.
CountMatchesActive ==
  /\ IsFiniteSet(active)
  /\ count = Cardinality(active)

\* No slot outlives its task: every entry of the map belongs to a task that
\* has not returned and has its call of remove still before it, whoever else
\* served or removed the same 5-tuple meanwhile.
NoLeakedSlot ==
  \A c \in active : \E t \in Tasks :
    tuple[t] = c /\ pc[t] \in {"serving", "stuck", "remove", "rollback"}

\* A task that went over the limit waits for the lock it holds itself.
OverLimitDeadlock == \E t \in Tasks : pc[t] = "rollback"

\* The connections try_add has said yes to: an entry still to be rolled back
\* is not one of them.
Admitted == active \ {tuple[t] : t \in {u \in Tasks : pc[u] = "rollback"}}

Admission == INSTANCE ConnectionAdmission WITH admitted <- Admitted

\* The unlocked check, the insertion and the late check of try_add together
\* implement a set that never holds more than MaxConnections connections.
ImplementsAdmission == Admission!Spec
=============================================================================
