----------------------------- MODULE QuicHandler -----------------------------
(***************************************************************************)
(* QuicHandler (src/io/quic_handler.rs): the accept loop, the limit on     *)
(* handshakes under way, the table of active connections and the shutdown. *)
(*                                                                         *)
(* The loop and one task per connection run in parallel; the counter is    *)
(* atomic and the table has a lock, and every access to either is a step.  *)
(* Streams are left out: their tasks share nothing with the rest.          *)
(***************************************************************************)
EXTENDS Integers, Sequences, FiniteSets

CONSTANTS MaxIncoming,     \* bound on the connections that arrive
          MaxHandshakes,   \* max_handshakes of new
          MaxTracked,      \* bound on the addresses tracked for a connection
          Addresses        \* pairs of source and destination

\* max_handshakes is a usize, and connections are numbered by a u64.
ASSUME QuicAssumption == MaxIncoming \in Nat /\ MaxHandshakes \in Nat

VARIABLES loop,               \* where accept_loop is
          conn_id_seq,
          active_handshakes,
          task,               \* where the task of a connection is
          active_connections, \* the addresses tracked and migrated_count, by id
          endpoint,           \* "open", "closed"
          permit              \* a signal given while nobody waited for it

quicVars == <<loop, conn_id_seq, active_handshakes, task, active_connections, endpoint, permit>>

ConnIds == 1 .. MaxIncoming

(* "select" waits; "acquire" and "full" are in try_acquire; "draining" is in  *)
(* wait_idle; "ended" has returned Ok, and "failed" RateLimitExceeded.        *)
LoopStates == {"select", "acquire", "full", "draining", "ended", "failed"}

(* "handshaking" until release; "opened" has shaken hands and is not in the   *)
(* table yet; "serving" is in the table.                                      *)
TaskStates == {"none", "handshaking", "opened", "serving", "over"}

QuicInit ==
  /\ loop = "select"
  /\ conn_id_seq = 0
  /\ active_handshakes = 0
  /\ task = [c \in ConnIds |-> "none"]
  /\ active_connections = [c \in {} |-> <<>>]
  /\ endpoint = "open"
  /\ permit = FALSE

----------------------------------------------------------------------------
(* accept_loop, :123-190.                                                   *)

\* :127-133.
AcceptIncoming ==
  /\ loop = "select" /\ endpoint = "open" /\ conn_id_seq < MaxIncoming
  /\ loop' = "acquire"
  /\ conn_id_seq' = conn_id_seq + 1
  /\ UNCHANGED <<active_handshakes, task, active_connections, endpoint, permit>>

\* Faulty variant: one handshake too many.
AcquireLate ==
  /\ loop = "acquire"
  /\ active_handshakes' = active_handshakes + 1
  /\ \/ /\ active_handshakes > MaxHandshakes
        /\ loop' = "full" /\ UNCHANGED task
     \/ /\ active_handshakes <= MaxHandshakes
        /\ loop' = "select"
        /\ task' = [task EXCEPT ![conn_id_seq] = "handshaking"]
  /\ UNCHANGED <<conn_id_seq, active_connections, endpoint, permit>>

\* :52-54 and the spawn of :142; the handshake has begun when it is counted.
Acquire ==
  /\ loop = "acquire"
  /\ active_handshakes' = active_handshakes + 1
  /\ \/ /\ active_handshakes >= MaxHandshakes
        /\ loop' = "full" /\ UNCHANGED task
     \/ /\ active_handshakes < MaxHandshakes
        /\ loop' = "select"
        /\ task' = [task EXCEPT ![conn_id_seq] = "handshaking"]
  /\ UNCHANGED <<conn_id_seq, active_connections, endpoint, permit>>

\* :55-58; the ? of :134 leaves the loop, and the endpoint stays open.
GiveUp ==
  /\ loop = "full"
  /\ active_handshakes' = active_handshakes - 1
  /\ loop' = "failed"
  /\ UNCHANGED <<conn_id_seq, task, active_connections, endpoint, permit>>

\* :181-183.
BeginShutdown ==
  /\ loop = "select" /\ permit
  /\ permit' = FALSE
  /\ endpoint' = "closed"
  /\ loop' = "draining"
  /\ UNCHANGED <<conn_id_seq, active_handshakes, task, active_connections>>

\* :184-186; wait_idle returns when the endpoint knows of no open connection.
EndShutdown ==
  /\ loop = "draining"
  /\ loop' = "ended"
  /\ UNCHANGED <<conn_id_seq, active_handshakes, task, active_connections, endpoint, permit>>

\* :175-178; the owner of the endpoint has closed it.
EndpointClosed ==
  /\ loop = "select" /\ endpoint = "closed"
  /\ loop' = "ended"
  /\ UNCHANGED <<conn_id_seq, active_handshakes, task, active_connections, endpoint, permit>>

----------------------------------------------------------------------------
(* The task of a connection, :142-173 and :192-269.                         *)

\* Faulty variant: a handshake that fails or times out is not released.
HandshakeEndsUnreleased(c) ==
  /\ task[c] = "handshaking"
  /\ \/ /\ endpoint = "open"
        /\ task' = [task EXCEPT ![c] = "opened"]
        /\ active_handshakes' = active_handshakes - 1
     \/ task' = [task EXCEPT ![c] = "over"] /\ UNCHANGED active_handshakes
  /\ UNCHANGED <<loop, conn_id_seq, active_connections, endpoint, permit>>

\* :143-172; shaken hands, or failed, or out of time; released in every case.
HandshakeEnds(c) ==
  /\ task[c] = "handshaking"
  /\ active_handshakes' = active_handshakes - 1
  /\ \/ endpoint = "open" /\ task' = [task EXCEPT ![c] = "opened"]
     \/ task' = [task EXCEPT ![c] = "over"]
  /\ UNCHANGED <<loop, conn_id_seq, active_connections, endpoint, permit>>

\* :197-211; also when the endpoint has been closed meanwhile.
EnterTable(c) ==
  /\ task[c] = "opened"
  /\ task' = [task EXCEPT ![c] = "serving"]
  /\ active_connections' =
       [d \in DOMAIN active_connections \cup {c} |->
          IF d = c THEN [ids |-> <<>>, migrated_count |-> 0] ELSE active_connections[d]]
  /\ UNCHANGED <<loop, conn_id_seq, active_handshakes, endpoint, permit>>

\* Faulty variant: the entry of a connection that ends is left behind.
LeaveTableKeeping(c) ==
  /\ task[c] = "serving"
  /\ task' = [task EXCEPT ![c] = "over"]
  /\ UNCHANGED <<loop, conn_id_seq, active_handshakes, active_connections, endpoint, permit>>

\* :226-269; the peer closes the connection, or the endpoint has been closed.
LeaveTable(c) ==
  /\ task[c] = "serving"
  /\ task' = [task EXCEPT ![c] = "over"]
  /\ active_connections' =
       [d \in DOMAIN active_connections \ {c} |-> active_connections[d]]
  /\ UNCHANGED <<loop, conn_id_seq, active_handshakes, endpoint, permit>>

----------------------------------------------------------------------------
(* The other operations.                                                    *)

\* track_connection_id, :326-361; nothing happens for an id not in the table.
TrackConnectionId(c, address) ==
  /\ c \in DOMAIN active_connections
  /\ LET ids == active_connections[c].ids
     IN  /\ Len(ids) < MaxTracked
         /\ active_connections' = [active_connections EXCEPT
              ![c].ids = Append(@, address),
              ![c].migrated_count = IF ids # <<>> /\ ids[Len(ids)] # address THEN @ + 1 ELSE @]
  /\ UNCHANGED <<loop, conn_id_seq, active_handshakes, task, endpoint, permit>>

\* The owner of shutdown_signal calls notify_one, which leaves a permit behind
\* when the loop is not waiting.
SignalShutdown ==
  /\ ~permit
  /\ permit' = TRUE
  /\ UNCHANGED <<loop, conn_id_seq, active_handshakes, task, active_connections, endpoint>>

\* The owner of the endpoint closes it.
CloseEndpoint ==
  /\ endpoint = "open"
  /\ endpoint' = "closed"
  /\ UNCHANGED <<loop, conn_id_seq, active_handshakes, task, active_connections, permit>>

----------------------------------------------------------------------------
LoopStep == AcceptIncoming \/ Acquire \/ GiveUp \/ BeginShutdown \/ EndShutdown \/ EndpointClosed

TaskStep(c) == HandshakeEnds(c) \/ EnterTable(c) \/ LeaveTable(c)

QuicNext ==
  \/ LoopStep
  \/ \E c \in ConnIds : TaskStep(c) \/ \E a \in Addresses : TrackConnectionId(c, a)
  \/ SignalShutdown \/ CloseEndpoint

QuicSpec == QuicInit /\ [][QuicNext]_quicVars

(* The loop and the tasks are polled as long as they can go on, a handshake   *)
(* ends within QUIC_HANDSHAKE_TIMEOUT_MS, and the accept_bi of a connection   *)
(* fails once the endpoint is closed.  No peer has to close its connection.   *)
QuicFairness ==
  /\ WF_quicVars(Acquire \/ GiveUp \/ BeginShutdown \/ EndShutdown \/ EndpointClosed)
  /\ \A c \in ConnIds :
       /\ WF_quicVars(HandshakeEnds(c))
       /\ WF_quicVars(EnterTable(c))
       /\ WF_quicVars(endpoint = "closed" /\ LeaveTable(c))

----------------------------------------------------------------------------
(* Properties.                                                              *)

Handshaking == {c \in ConnIds : task[c] = "handshaking"}

\* No release is missing and none is made twice, whether a handshake succeeds,
\* fails, runs out of time or is refused: the loop finds the counter at the limit
\* only when that many handshakes are really under way, and never lets in more.
HandshakesCounted ==
  /\ active_handshakes = Cardinality(Handshaking) + (IF loop = "full" THEN 1 ELSE 0)
  /\ Cardinality(Handshaking) <= MaxHandshakes

\* Closing the endpoint empties the table in the end: a connection that shakes
\* hands while the endpoint closes enters the table after that, and is removed.
CloseDrains ==
  endpoint = "closed" ~> DOMAIN active_connections = {} /\ active_handshakes = 0
=============================================================================
