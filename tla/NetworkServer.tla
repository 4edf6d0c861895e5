---------------------------- MODULE NetworkServer ----------------------------
(***************************************************************************)
(* The accept loop of NetworkStack::start_server (src/io/network.rs:       *)
(* 178-271) around the connection tracker: accepting, the OS signal, the   *)
(* Notify `shutdown`, and the drain.                                       *)
(*                                                                         *)
(* Every iteration of the loop is a tokio::select! over three fresh        *)
(* futures.  When one completes, the other two are dropped before its      *)
(* branch runs.  Notify::notify_waiters wakes the futures registered at    *)
(* that moment and stores nothing for later ones.                          *)
(***************************************************************************)
EXTENDS ConnectionTracker

VARIABLES loop,       \* where start_server is
          waiters,    \* Notified futures registered with `shutdown`
          notified,   \* the registered future has been woken
          signalled   \* SIGINT or SIGTERM has been delivered to the process

loopVars == <<loop, waiters, notified, signalled>>
serverVars == <<active, count, lock, pc, tuple, loop, waiters, notified, signalled>>

(* "select"    in select!, all three futures alive                          *)
(* "backoff"   the 10 ms sleep after an accept error (:253)                 *)
(* "signal"    wait_for_shutdown_signal completed (:265)                    *)
(* "draining"  waiting for active_count() = 0 (:259)                        *)
(* "stopped"   start_server has returned (:263)                             *)
LoopStages == {"select", "backoff", "signal", "draining", "stopped"}

ServerTypeOK ==
  /\ TypeOK
  /\ loop \in LoopStages
  /\ waiters = (loop = "select")
  /\ notified \in BOOLEAN
  /\ notified => loop = "select"
  /\ signalled \in BOOLEAN

ServerInit ==
  /\ Init
  /\ loop = "select"
  /\ waiters = TRUE
  /\ notified = FALSE
  /\ signalled = FALSE

----------------------------------------------------------------------------
(* One iteration of the select! ends (its futures are dropped), the next    *)
(* one begins (three new futures are polled).                               *)

DropFutures == waiters' = FALSE /\ notified' = FALSE

NewFutures == waiters' = TRUE /\ notified' = FALSE

\* :201-250.  The branch only spawns; the next iteration begins at once.
AcceptConnection(t, c) ==
  /\ loop = "select"
  /\ Accept(t, c)
  /\ NewFutures
  /\ UNCHANGED <<loop, signalled>>

\* :251-254.
AcceptError ==
  /\ loop = "select"
  /\ loop' = "backoff"
  /\ DropFutures
  /\ UNCHANGED <<trackerVars, signalled>>

BackoffOver ==
  /\ loop = "backoff"
  /\ loop' = "select"
  /\ NewFutures
  /\ UNCHANGED <<trackerVars, signalled>>

\* SIGINT or SIGTERM while wait_for_shutdown_signal (:529-552) is being polled.
OsSignal ==
  /\ loop = "select"
  /\ signalled' = TRUE
  /\ loop' = "signal"
  /\ DropFutures
  /\ UNCHANGED trackerVars

\* The same during the backoff: nobody listens, and the listeners of the next
\* iteration see later signals only.
OsSignalMissed ==
  /\ loop = "backoff"
  /\ signalled' = TRUE
  /\ UNCHANGED <<trackerVars, loop, waiters, notified>>

\* :266-267: notify_waiters, then the next iteration.
NotifyWaiters ==
  /\ loop = "signal"
  /\ loop' = "select"
  /\ waiters' = TRUE
  /\ notified' = waiters
  /\ UNCHANGED <<trackerVars, signalled>>

----------------------------------------------------------------------------
(* The drain.  start_server makes the NetworkStack itself and hands it to   *)
(* nobody (:179-198), so the only call of notify_waiters is the one above;  *)
(* no step of ServerNext can wake the loop's own future, and the two steps  *)
(* below are never enabled (DrainNeverBegins, NetworkServer_proof).         *)

\* :257.
BeginDrain ==
  /\ loop = "select"
  /\ notified
  /\ loop' = "draining"
  /\ DropFutures
  /\ UNCHANGED <<trackerVars, signalled>>

\* :259-263, active_count() = 0.
Stop ==
  /\ loop = "draining"
  /\ count = 0
  /\ loop' = "stopped"
  /\ UNCHANGED <<trackerVars, waiters, notified, signalled>>

----------------------------------------------------------------------------
LoopStep ==
  AcceptError \/ BackoffOver \/ OsSignal \/ OsSignalMissed \/ NotifyWaiters

ServerNext ==
  \/ \E t \in Tasks : TaskStep(t) /\ UNCHANGED loopVars
  \/ \E t \in Tasks, c \in Tuples : AcceptConnection(t, c)
  \/ LoopStep

DrainNext == ServerNext \/ BeginDrain \/ Stop

\* A thread blocked in a lock is lost to the runtime, and with it the tasks of
\* its queue and perhaps the I/O and timer driver it was polling: once one is,
\* nothing is promised to anybody.
Running == ~OverLimitDeadlock /\ ~HandlersStuck

\* While it runs, the runtime polls every task that is ready, a handler that
\* waits at an await ends at its timeout at the latest (:233-244), and the loop
\* goes on when its sleep or its branch is over.  Clients, accept errors,
\* signals and failing 5-tuples owe nothing.
Fairness ==
  /\ \A t \in Tasks : WF_serverVars(Running /\ TryAdd(t) /\ UNCHANGED loopVars)
  /\ \A t \in Tasks : WF_serverVars(Running /\ Finish(t) /\ UNCHANGED loopVars)
  /\ \A t \in Tasks : WF_serverVars(Running /\ Remove(t) /\ UNCHANGED loopVars)
  /\ WF_serverVars(Running /\ BackoffOver)
  /\ WF_serverVars(Running /\ NotifyWaiters)

ServerSpec == ServerInit /\ [][ServerNext]_serverVars /\ Fairness

\* The same with the drain, for what the documentation says of it.
DrainSpec ==
  /\ ServerInit
  /\ [][DrainNext]_serverVars
  /\ Fairness
  /\ WF_serverVars(Running /\ BeginDrain)
  /\ WF_serverVars(Running /\ Stop)

----------------------------------------------------------------------------
(* Properties.                                                              *)

\* Every accepted connection is disposed of: its task gets through try_add,
\* serves for at most the request timeout, gives its slot back and returns.
\* Two things alone keep a task for ever, and with it its slot: a task that
\* went over the limit and waits for the lock it holds itself, and handlers
\* blocked crosswise in the analyzer, which the timeout cannot end.
TasksEnd ==
  \A t \in Tasks :
    pc[t] # "idle" ~> pc[t] = "idle" \/ OverLimitDeadlock \/ HandlersStuck

\* docs/CLI_GUIDE.md:230-231: "SIGTERM | Graceful shutdown (wait for drain)",
\* "SIGINT | Graceful shutdown (Ctrl+C)".  A signal the loop has seen leads to
\* the drain, as long as no task is blocked for ever.
SignalStartsDrain ==
  loop = "signal" ~> loop \in {"draining", "stopped"} \/ ~Running

\* A connection refused because it went over the limit is refused: try_add
\* returns its error (:102-105) and the task ends ("Connection rejected", :224).
OverLimitAnswered == \A t \in Tasks : pc[t] = "rollback" ~> pc[t] = "idle"
=============================================================================
