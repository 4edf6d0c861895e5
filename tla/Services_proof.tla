---------------------------- MODULE Services_proof ----------------------------
(***************************************************************************)
(* Proofs about the services beside the rate limits, for any number of     *)
(* connections, threads, names, days, feeds and sessions: the count of     *)
(* QuicHandler, the keys and secrets of SecretManager, the events of       *)
(* AuditLogger, the answers of ThreatIntel.                                *)
(***************************************************************************)
EXTENDS QuicHandler, SecretManager, AuditLogger, ThreatIntel,
        FiniteSetTheorems, SequenceTheorems, WellFoundedInduction, TLAPS

----------------------------------------------------------------------------
(* QuicHandler.                                                             *)

QuicTypeOK ==
  /\ loop \in LoopStates
  /\ conn_id_seq \in 0 .. MaxIncoming
  /\ active_handshakes \in Nat
  /\ task \in [ConnIds -> TaskStates]

\* The connection the loop is at, and those still to come, have no task.
TasksToCome ==
  /\ \A c \in ConnIds : c > conn_id_seq => task[c] = "none"
  /\ loop = "acquire" => conn_id_seq \in ConnIds /\ task[conn_id_seq] = "none"

\* The table holds the connections whose tasks are serving.
TableHoldsServing == DOMAIN active_connections = {c \in ConnIds : task[c] = "serving"}

QuicInv == QuicTypeOK /\ TasksToCome /\ HandshakesCounted /\ TableHoldsServing

\* Tasks are as many as connections.
LEMMA HandshakingFinite ==
  ASSUME QuicTypeOK
  PROVE  IsFiniteSet(Handshaking) /\ Cardinality(Handshaking) \in Nat
<1>1. IsFiniteSet(ConnIds)
  BY QuicAssumption, FS_Interval DEF ConnIds
<1>2. Handshaking \in SUBSET ConnIds
  BY DEF Handshaking
<1>3. IsFiniteSet(Handshaking)
  BY <1>1, <1>2, FS_Subset
<1>4. QED
  BY <1>3, FS_CardinalityType

\* No connection has come.
LEMMA QuicInitHolds == ASSUME QuicInit PROVE QuicInv
<1>1. Handshaking = {}
  BY DEF QuicInit, Handshaking
<1>2. Cardinality(Handshaking) = 0
  BY <1>1, FS_EmptySet
<1>3. QuicTypeOK /\ TasksToCome
  BY QuicAssumption DEF QuicInit, QuicTypeOK, TasksToCome, LoopStates, TaskStates, ConnIds
<1>4. TableHoldsServing
  BY DEF QuicInit, TableHoldsServing
<1>5. QED
  BY <1>2, <1>3, <1>4, QuicAssumption DEF QuicInv, HandshakesCounted, QuicInit

\* A step that leaves the tasks alone keeps their count.
LEMMA SameTasks ==
  ASSUME QuicInv, task' = task, active_handshakes' = active_handshakes,
         loop # "full", loop' # "full"
  PROVE  HandshakesCounted'
  BY DEF QuicInv, HandshakesCounted, Handshaking

\* A connection the loop takes up is one handshake more, if there is room for it.
LEMMA AcquireKeeps == ASSUME QuicInv, Acquire PROVE QuicInv'
<1> USE QuicAssumption
<1>1. IsFiniteSet(Handshaking) /\ Cardinality(Handshaking) \in Nat
  BY HandshakingFinite DEF QuicInv
<1>2. QuicTypeOK' /\ TasksToCome'
  BY DEF QuicInv, QuicTypeOK, TasksToCome, Acquire, LoopStates, TaskStates, ConnIds
<1>3. TableHoldsServing'
  BY DEF QuicInv, QuicTypeOK, TasksToCome, TableHoldsServing, Acquire
<1>4. active_handshakes = Cardinality(Handshaking)
  BY <1>1 DEF QuicInv, HandshakesCounted, Acquire
<1>5. HandshakesCounted'
  <2>1. CASE active_handshakes >= MaxHandshakes /\ loop' = "full" /\ UNCHANGED task
    BY <1>1, <1>4, <2>1 DEF Acquire, QuicInv, QuicTypeOK, HandshakesCounted, Handshaking
  <2>2. CASE /\ active_handshakes < MaxHandshakes
             /\ loop' = "select"
             /\ task' = [task EXCEPT ![conn_id_seq] = "handshaking"]
    <3>1. conn_id_seq \in ConnIds /\ conn_id_seq \notin Handshaking
      BY DEF QuicInv, TasksToCome, Acquire, Handshaking
    <3>2. Handshaking' = Handshaking \cup {conn_id_seq}
      BY <2>2, <3>1 DEF QuicInv, QuicTypeOK, Handshaking
    <3>3. Cardinality(Handshaking') = Cardinality(Handshaking) + 1
      BY <1>1, <3>1, <3>2, FS_AddElement
    <3>4. QED
      BY <1>1, <1>4, <2>2, <3>3 DEF Acquire, HandshakesCounted, QuicInv, QuicTypeOK
  <2>3. QED
    BY <2>1, <2>2 DEF Acquire
<1>6. QED
  BY <1>2, <1>3, <1>5 DEF QuicInv

\* A handshake that ends, in whichever way, is released once.
LEMMA HandshakeEndsKeeps ==
  ASSUME QuicInv, NEW c \in ConnIds, HandshakeEnds(c)
  PROVE  QuicInv'
<1> USE QuicAssumption
<1>1. IsFiniteSet(Handshaking) /\ Cardinality(Handshaking) \in Nat
  BY HandshakingFinite DEF QuicInv
<1>2. c \in Handshaking
  BY DEF HandshakeEnds, Handshaking
<1>3. Handshaking' = Handshaking \ {c}
  BY DEF HandshakeEnds, Handshaking, QuicInv, QuicTypeOK
<1>4. Cardinality(Handshaking') = Cardinality(Handshaking) - 1 /\ Cardinality(Handshaking) >= 1
  <2>1. Cardinality(Handshaking \ {c}) = Cardinality(Handshaking) - 1
    BY <1>1, <1>2, FS_RemoveElement
  <2>2. Cardinality(Handshaking \ {c}) \in Nat
    BY <1>1, FS_RemoveElement, FS_CardinalityType
  <2>3. QED
    BY <1>1, <1>3, <2>1, <2>2
<1>5. HandshakesCounted'
  BY <1>1, <1>4 DEF QuicInv, QuicTypeOK, HandshakesCounted, HandshakeEnds
<1>6. QuicTypeOK'
  BY <1>1, <1>4 DEF QuicInv, QuicTypeOK, HandshakesCounted, HandshakeEnds, TaskStates
<1>7. TasksToCome' /\ TableHoldsServing'
  BY DEF QuicInv, QuicTypeOK, TasksToCome, TableHoldsServing, HandshakeEnds
<1>8. QED
  BY <1>5, <1>6, <1>7 DEF QuicInv

\* Every step keeps the count of the handshakes.
LEMMA QuicNextKeeps == ASSUME QuicInv, [QuicNext]_quicVars PROVE QuicInv'
<1> USE QuicAssumption
<1>1. CASE AcceptIncoming
  <2>1. HandshakesCounted'
    BY <1>1, SameTasks DEF AcceptIncoming
  <2>2. QuicTypeOK' /\ TasksToCome' /\ TableHoldsServing'
    BY <1>1 DEF AcceptIncoming, QuicInv, QuicTypeOK, TasksToCome, TableHoldsServing, LoopStates,
                ConnIds
  <2>3. QED
    BY <2>1, <2>2 DEF QuicInv
<1>2. CASE Acquire
  BY <1>2, AcquireKeeps
<1>3. CASE GiveUp
  <2>1. Cardinality(Handshaking) \in Nat
    BY HandshakingFinite DEF QuicInv
  <2>2. HandshakesCounted' /\ QuicTypeOK'
    BY <1>3, <2>1 DEF GiveUp, QuicInv, QuicTypeOK, HandshakesCounted, Handshaking, LoopStates
  <2>3. TasksToCome' /\ TableHoldsServing'
    BY <1>3 DEF GiveUp, QuicInv, TasksToCome, TableHoldsServing
  <2>4. QED
    BY <2>2, <2>3 DEF QuicInv
<1>4. CASE BeginShutdown \/ EndShutdown \/ EndpointClosed
  <2>1. HandshakesCounted'
    BY <1>4, SameTasks DEF BeginShutdown, EndShutdown, EndpointClosed
  <2>2. QuicTypeOK' /\ TasksToCome' /\ TableHoldsServing'
    BY <1>4 DEF BeginShutdown, EndShutdown, EndpointClosed, QuicInv, QuicTypeOK, TasksToCome,
                TableHoldsServing, LoopStates
  <2>3. QED
    BY <2>1, <2>2 DEF QuicInv
<1>5. ASSUME NEW c \in ConnIds, TaskStep(c) PROVE QuicInv'
  <2>1. CASE HandshakeEnds(c)
    BY <2>1, HandshakeEndsKeeps
  <2>2. CASE EnterTable(c) \/ LeaveTable(c)
    <3>1. Handshaking' = Handshaking
      BY <2>2 DEF EnterTable, LeaveTable, Handshaking, QuicInv, QuicTypeOK
    <3>2. HandshakesCounted'
      BY <2>2, <3>1 DEF EnterTable, LeaveTable, QuicInv, HandshakesCounted
    <3>3. QuicTypeOK' /\ TasksToCome'
      BY <2>2 DEF EnterTable, LeaveTable, QuicInv, QuicTypeOK, TasksToCome, TaskStates
    <3>4. TableHoldsServing'
      BY <2>2 DEF EnterTable, LeaveTable, QuicInv, QuicTypeOK, TableHoldsServing
    <3>5. QED
      BY <3>2, <3>3, <3>4 DEF QuicInv
  <2>3. QED
    BY <1>5, <2>1, <2>2 DEF TaskStep
<1>6. ASSUME NEW c \in ConnIds, NEW a \in Addresses, TrackConnectionId(c, a) PROVE QuicInv'
  <2>1. DOMAIN active_connections' = DOMAIN active_connections
    BY <1>6 DEF TrackConnectionId
  <2>2. UNCHANGED <<loop, conn_id_seq, active_handshakes, task>>
    BY <1>6 DEF TrackConnectionId
  <2>3. QED
    BY <2>1, <2>2 DEF QuicInv, QuicTypeOK, TasksToCome, HandshakesCounted, Handshaking,
                      TableHoldsServing
<1>7. CASE SignalShutdown \/ CloseEndpoint \/ UNCHANGED quicVars
  BY <1>7 DEF SignalShutdown, CloseEndpoint, quicVars, QuicInv, QuicTypeOK, TasksToCome,
              HandshakesCounted, Handshaking, TableHoldsServing
<1>8. QED
  BY <1>1, <1>2, <1>3, <1>4, <1>5, <1>6, <1>7 DEF QuicNext, LoopStep

\* accept_loop: the counter is the number of handshakes under way, and one more while a
\* connection is refused; there are never more of them than max_handshakes.
THEOREM QuicHandshakesCounted == QuicSpec => []HandshakesCounted
<1>1. QuicInit => QuicInv
  BY QuicInitHolds
<1>2. QuicInv /\ [QuicNext]_quicVars => QuicInv'
  BY QuicNextKeeps
<1>3. QuicInv => HandshakesCounted
  BY DEF QuicInv
<1>4. QED
  BY <1>1, <1>2, <1>3, PTL DEF QuicSpec

\* The table of active connections holds exactly the connections being served: no entry
\* is left behind by a task that is over, and none is missing for one that serves.
THEOREM QuicTableExact == QuicSpec => []TableHoldsServing
<1>1. QuicInit => QuicInv
  BY QuicInitHolds
<1>2. QuicInv /\ [QuicNext]_quicVars => QuicInv'
  BY QuicNextKeeps
<1>3. QuicInv => TableHoldsServing
  BY DEF QuicInv
<1>4. QED
  BY <1>1, <1>2, <1>3, PTL DEF QuicSpec
----------------------------------------------------------------------------
(* SecretManager.                                                           *)

Keys == [version : Nat, maker : Threads \cup {"environment"}]

\* Every secret is labelled version 1, whichever key it is encrypted with.
Labelled == [key : Keys, version : {1}]

Calls == [op : {"none", "load", "store", "remove", "rotate", "age"},
          at : {"idle", "begun", "insert", "find", "decrypt", "master", "versions", "secrets",
                "re-encrypt"},
          name : Names \cup {NoSecret}, key : Keys, version : Nat]

Locks == {"master_key", "key_versions", "secrets"} \X {"read", "write"}

Latest == Max(DOMAIN key_versions)

\* The versions have no gaps, and the first is the key of the environment.
SecretTypeOK ==
  /\ master_key \in Keys
  /\ Latest \in Nat /\ Latest >= 1
  /\ key_versions \in [1 .. Latest -> Keys]
  /\ key_versions[1] = FirstKey
  /\ secrets \in [Names -> {NoSecret} \cup Labelled]
  /\ thread \in [Threads -> Calls]
  /\ holds \in [Threads -> SUBSET Locks]
  /\ overlapped \in BOOLEAN

HasKey(t) == At(t, "rotate", "master") \/ At(t, "rotate", "versions")

\* A rotation keeps the lock of the versions from its insertion to its end.
KeysHeld ==
  \A t \in Threads :
    At(t, "rotate", "secrets") \/ At(t, "rotate", "re-encrypt") =>
      <<"key_versions", "write">> \in holds[t]

\* The number a rotation has drawn is not the first, and leaves no gap.
Drawn ==
  \A t \in Threads :
    HasKey(t) => thread[t].version \in 2 .. Latest + 1

\* While no two rotations meet, the key that is new in master_key is the next version.
OneRotation ==
  ~overlapped =>
    /\ \A t, u \in Rotating : t = u
    /\ \A t \in Threads : HasKey(t) => thread[t].version = Latest + 1
    /\ \A t \in Threads : At(t, "rotate", "versions") => master_key = thread[t].key
    /\ (\A t \in Threads : ~At(t, "rotate", "versions")) => master_key = key_versions[Latest]

SecretInv == SecretTypeOK /\ KeysHeld /\ Drawn /\ OneRotation

\* The largest of the first numbers is the last.
LEMMA LastIsLargest == ASSUME NEW m \in Nat, m >= 1 PROVE Max(1 .. m) = m
<1>1. m \in 1 .. m /\ \A n \in 1 .. m : m >= n
  OBVIOUS
<1>2. Max(1 .. m) \in 1 .. m /\ \A n \in 1 .. m : Max(1 .. m) >= n
  BY <1>1 DEF Max
<1>3. QED
  BY <1>1, <1>2

\* A thread at rest is in no rotation.
LEMMA RestingType == Resting \in Calls /\ Resting.op = "none"
  BY DEF Resting, Calls, Keys, FirstKey, Key

\* There is the first key, and no secret.
LEMMA SecretInitHolds == ASSUME SecretInit PROVE SecretInv
<1>1. DOMAIN key_versions = 1 .. 1 /\ Latest = 1
  <2>1. DOMAIN key_versions = {1} /\ {1} = 1 .. 1
    BY DEF SecretInit
  <2>2. 1 \in Nat /\ 1 >= 1
    OBVIOUS
  <2>3. Max(1 .. 1) = 1
    BY <2>2, LastIsLargest, Zenon
  <2>4. QED
    BY <2>1, <2>3 DEF Latest
<1>2. FirstKey \in Keys
  BY DEF FirstKey, Key, Keys
<1>3. SecretTypeOK
  <2>1. key_versions \in [1 .. Latest -> Keys] /\ key_versions[1] = FirstKey
    BY <1>1, <1>2 DEF SecretInit
  <2>2. thread \in [Threads -> Calls]
    BY RestingType DEF SecretInit
  <2>3. holds \in [Threads -> SUBSET Locks]
    BY DEF SecretInit
  <2>4. secrets \in [Names -> {NoSecret} \cup Labelled] /\ master_key \in Keys
    BY <1>2 DEF SecretInit
  <2>5. Latest \in Nat /\ Latest >= 1
    BY <1>1
  <2>6. overlapped \in BOOLEAN
    BY Zenon DEF SecretInit
  <2>7. QED
    BY <2>1, <2>2, <2>3, <2>4, <2>5, <2>6 DEF SecretTypeOK
<1>4. \A t \in Threads : thread[t].op # "rotate"
  BY RestingType DEF SecretInit
<1>5. KeysHeld /\ Drawn /\ OneRotation
  BY <1>1, <1>4 DEF SecretInit, KeysHeld, Drawn, OneRotation, HasKey, At, Rotating
<1>6. QED
  BY <1>3, <1>5 DEF SecretInv

\* A call that returns lets go of its locks, and is in no rotation any more.
LEMMA LeaveKeeps ==
  ASSUME SecretInv, NEW t \in Threads, Leave(t), ~At(t, "rotate", "versions"),
         UNCHANGED <<master_key, key_versions, overlapped>>,
         secrets' \in [Names -> {NoSecret} \cup Labelled]
  PROVE  SecretInv'
<1>1. SecretTypeOK'
  BY RestingType DEF Leave, SecretInv, SecretTypeOK, Latest
<1>2. \A u \in Threads : IF u = t THEN thread'[u].op = "none"
                         ELSE thread'[u] = thread[u] /\ holds'[u] = holds[u]
  BY RestingType DEF Leave, SecretInv, SecretTypeOK
<1>3. KeysHeld' /\ Drawn'
  BY <1>2 DEF SecretInv, KeysHeld, Drawn, HasKey, At, Latest
<1>4. OneRotation'
  BY <1>2 DEF SecretInv, OneRotation, HasKey, At, Latest, Rotating
<1>5. QED
  BY <1>1, <1>3, <1>4 DEF SecretInv
\* A step that takes a lock for a thread that has no new key, and moves it on, changes
\* nothing else.
LEMMA LockKeeps ==
  ASSUME SecretInv, NEW t \in Threads, NEW at, NEW lock \in Locks,
         thread' = [thread EXCEPT ![t].at = at],
         at \in {"insert", "find", "decrypt"}, thread[t].op # "rotate",
         holds' = [holds EXCEPT ![t] = @ \cup {lock}],
         UNCHANGED <<master_key, key_versions, secrets, overlapped>>
  PROVE  SecretInv'
<1>1. /\ thread' \in [Threads -> Calls]
      /\ \A u \in Threads : thread'[u].op = thread[u].op /\ (u # t => thread'[u] = thread[u])
  BY DEF SecretInv, SecretTypeOK, Calls
<1>2. /\ holds' \in [Threads -> SUBSET Locks]
      /\ \A u \in Threads : holds[u] \subseteq holds'[u]
  BY DEF SecretInv, SecretTypeOK
<1>3. SecretTypeOK'
  BY <1>1, <1>2 DEF SecretInv, SecretTypeOK, Latest
<1>4. KeysHeld' /\ Drawn' /\ OneRotation'
  BY <1>1, <1>2 DEF SecretInv, KeysHeld, Drawn, OneRotation, HasKey, At, Latest, Rotating
<1>5. QED
  BY <1>3, <1>4 DEF SecretInv

\* A new call: a rotation that begins while another is under way is noted.
LEMMA BeginKeeps ==
  ASSUME SecretInv, NEW t \in Threads, NEW op, NEW name, Begin(t, op, name),
         op \in {"load", "store", "remove", "rotate", "age"}, name \in Names \cup {NoSecret}
  PROVE  SecretInv'
<1>1. /\ thread' \in [Threads -> Calls]
      /\ \A u \in Threads : u # t => thread'[u] = thread[u]
      /\ thread'[t].op = op /\ thread'[t].at = "begun"
  <2>1. thread \in [Threads -> Calls] /\ thread[t] \in Calls
    BY DEF SecretInv, SecretTypeOK
  <2> DEFINE begun == [thread[t] EXCEPT !.op = op, !.at = "begun", !.name = name]
  <2>2. begun \in Calls /\ begun.op = op /\ begun.at = "begun"
    BY <2>1 DEF Calls
  <2>3. thread' = [thread EXCEPT ![t] = begun]
    BY <2>1 DEF Begin
  <2> HIDE DEF begun
  <2>4. QED
    BY <2>1, <2>2, <2>3
<1>2. overlapped' \in BOOLEAN
  BY DEF Begin, SecretInv, SecretTypeOK
<1>3. SecretTypeOK'
  BY <1>1, <1>2 DEF Begin, SecretInv, SecretTypeOK, Latest
<1>4. KeysHeld' /\ Drawn'
  BY <1>1 DEF Begin, SecretInv, KeysHeld, Drawn, HasKey, At, Latest
<1>5. ~overlapped' => ~overlapped /\ (op = "rotate" => Rotating = {})
  BY DEF Begin
<1>6. thread[t].op = "none"
  BY DEF Begin, At
<1>7. OneRotation'
  BY <1>1, <1>5, <1>6 DEF Begin, SecretInv, OneRotation, HasKey, At, Latest, Rotating
<1>8. QED
  BY <1>3, <1>4, <1>7 DEF SecretInv

\* The number drawn is the next one.
LEMMA ReadVersionKeeps ==
  ASSUME SecretInv, NEW t \in Threads, ReadVersion(t)
  PROVE  SecretInv'
<1>1. Latest + 1 \in Nat /\ Latest + 1 >= 2
  BY DEF SecretInv, SecretTypeOK
<1>2. Key(Latest + 1, t) \in Keys
  BY <1>1 DEF Key, Keys
<1>3. thread' = [thread EXCEPT ![t].at = "master", ![t].version = Latest + 1,
                               ![t].key = Key(Latest + 1, t)]
  BY DEF ReadVersion, Latest
<1>4. /\ thread' \in [Threads -> Calls]
      /\ \A u \in Threads : u # t => thread'[u] = thread[u]
      /\ thread'[t].op = "rotate" /\ thread'[t].at = "master"
      /\ thread'[t].version = Latest + 1
  <2>1. thread \in [Threads -> Calls] /\ thread[t] \in Calls
    BY DEF SecretInv, SecretTypeOK
  <2> DEFINE drawn == [thread[t] EXCEPT !.at = "master", !.version = Latest + 1,
                                        !.key = Key(Latest + 1, t)]
  <2>2. drawn \in Calls /\ drawn.op = "rotate" /\ drawn.at = "master"
        /\ drawn.version = Latest + 1
    BY <1>1, <1>2, <2>1 DEF Calls, ReadVersion, At
  <2>3. thread' = [thread EXCEPT ![t] = drawn]
    BY <1>3, <2>1
  <2> HIDE DEF drawn
  <2>4. QED
    BY <2>1, <2>2, <2>3
<1>5. SecretTypeOK'
  BY <1>4 DEF ReadVersion, SecretInv, SecretTypeOK, Latest
<1>6. KeysHeld' /\ Drawn'
  BY <1>1, <1>4 DEF ReadVersion, SecretInv, KeysHeld, Drawn, HasKey, At, Latest
<1>7. OneRotation'
  BY <1>4 DEF ReadVersion, SecretInv, OneRotation, HasKey, At, Latest, Rotating
<1>8. QED
  BY <1>5, <1>6, <1>7 DEF SecretInv

\* The new key becomes the master key.
LEMMA ReplaceMasterKeeps ==
  ASSUME SecretInv, NEW t \in Threads, ReplaceMaster(t)
  PROVE  SecretInv'
<1>1. /\ thread' \in [Threads -> Calls]
      /\ \A u \in Threads : u # t => thread'[u] = thread[u]
      /\ thread'[t].op = "rotate" /\ thread'[t].at = "versions"
      /\ thread'[t].version = thread[t].version /\ thread'[t].key = thread[t].key
      /\ thread[t].key \in Keys
  BY DEF ReplaceMaster, Move, At, SecretInv, SecretTypeOK, Calls
<1>2. SecretTypeOK'
  BY <1>1 DEF ReplaceMaster, SecretInv, SecretTypeOK, Latest
<1>3. KeysHeld' /\ Drawn'
  BY <1>1 DEF ReplaceMaster, SecretInv, KeysHeld, Drawn, HasKey, At, Latest
<1>4. OneRotation'
  BY <1>1 DEF ReplaceMaster, SecretInv, OneRotation, HasKey, At, Latest, Rotating
<1>5. QED
  BY <1>2, <1>3, <1>4 DEF SecretInv

\* The new key is inserted: as the last version, or in the place of one that another
\* rotation has inserted under the number both have drawn.
LEMMA InsertVersionKeeps ==
  ASSUME SecretInv, NEW t \in Threads, InsertVersion(t)
  PROVE  SecretInv'
<1> DEFINE number == thread[t].version
           fresh == thread[t].key
<1>1. number \in 2 .. Latest + 1 /\ fresh \in Keys /\ Latest \in Nat /\ Latest >= 1
  BY DEF SecretInv, SecretTypeOK, Drawn, HasKey, InsertVersion, Calls
<1>2. DOMAIN key_versions = 1 .. Latest
  BY DEF SecretInv, SecretTypeOK
<1>3. PICK last \in Nat : last = IF number = Latest + 1 THEN Latest + 1 ELSE Latest
  BY <1>1
<1>4. 1 .. Latest \cup {number} = 1 .. last /\ last >= 1 /\ Latest <= last
  BY <1>1, <1>3
<1>5. key_versions' = [v \in 1 .. last |-> IF v = number THEN fresh ELSE key_versions[v]]
  BY <1>2, <1>4 DEF InsertVersion
<1>6. DOMAIN key_versions' = 1 .. last
  BY <1>5
<1>7. Latest' = last
  BY <1>4, <1>6, LastIsLargest DEF Latest
<1>8. key_versions' \in [1 .. last -> Keys]
  <2>1. \A v \in 1 .. last : v # number => v \in 1 .. Latest
    BY <1>1, <1>3
  <2>2. \A v \in 1 .. Latest : key_versions[v] \in Keys
    BY DEF SecretInv, SecretTypeOK
  <2>3. QED
    BY <1>1, <1>5, <2>1, <2>2
<1>9. key_versions'[1] = FirstKey
  BY <1>1, <1>4, <1>5 DEF SecretInv, SecretTypeOK
<1>10. /\ thread' \in [Threads -> Calls]
       /\ \A u \in Threads : u # t => thread'[u] = thread[u]
       /\ thread'[t].op = "rotate" /\ thread'[t].at = "secrets"
       /\ thread[t].op = "rotate" /\ thread[t].at = "versions"
  BY DEF InsertVersion, Move, At, SecretInv, SecretTypeOK, Calls
<1>11. /\ holds' \in [Threads -> SUBSET Locks]
       /\ \A u \in Threads : holds[u] \subseteq holds'[u]
       /\ <<"key_versions", "write">> \in holds'[t]
  BY DEF InsertVersion, Take, SecretInv, SecretTypeOK, Locks
<1>12. SecretTypeOK'
  BY <1>1, <1>4, <1>7, <1>8, <1>9, <1>10, <1>11 DEF InsertVersion, SecretInv, SecretTypeOK
<1>13. KeysHeld'
  BY <1>10, <1>11 DEF SecretInv, KeysHeld, At
<1>14. Drawn'
  <2>1. ASSUME NEW u \in Threads, HasKey(u)' PROVE thread'[u].version \in 2 .. last + 1
    <3>1. u # t /\ thread'[u] = thread[u]
      BY <1>10, <2>1 DEF HasKey, At
    <3>2. thread[u].version \in 2 .. Latest + 1
      BY <2>1, <3>1 DEF SecretInv, Drawn, HasKey, At
    <3>3. QED
      BY <1>1, <1>3, <1>4, <3>1, <3>2
  <2>2. QED
    BY <1>7, <2>1 DEF Drawn
<1>15. OneRotation'
  <2>1. SUFFICES ASSUME ~overlapped' PROVE OneRotation'
    BY DEF OneRotation
  <2>2. ~overlapped
    BY <2>1 DEF InsertVersion
  <2>3. t \in Rotating /\ Rotating' = Rotating
    BY <1>10 DEF Rotating
  <2>4. \A u \in Threads : u # t => thread[u].op # "rotate"
    BY <2>2, <2>3 DEF SecretInv, OneRotation, Rotating
  <2>5. \A u \in Threads : ~HasKey(u)'
    BY <1>10, <2>4 DEF HasKey, At
  <2>6. number = Latest + 1 /\ master_key = fresh
    BY <1>10, <2>2 DEF SecretInv, OneRotation, HasKey, At
  <2>7. last = number /\ key_versions'[last] = fresh
    BY <1>1, <1>3, <1>4, <1>5, <2>6
  <2>8. master_key' = key_versions'[Latest']
    BY <1>7, <2>6, <2>7 DEF InsertVersion
  <2>9. \A u \in Threads : ~At(u, "rotate", "versions")'
    BY <2>5 DEF HasKey
  <2>10. QED
    BY <2>2, <2>3, <2>5, <2>8, <2>9 DEF SecretInv, OneRotation
<1>16. QED
  BY <1>12, <1>13, <1>14, <1>15 DEF SecretInv

\* The lock of the secrets is taken as well.
LEMMA LockSecretsKeeps ==
  ASSUME SecretInv, NEW t \in Threads, LockSecrets(t)
  PROVE  SecretInv'
<1>1. /\ thread' \in [Threads -> Calls]
      /\ \A u \in Threads : u # t => thread'[u] = thread[u]
      /\ thread'[t].op = "rotate" /\ thread'[t].at = "re-encrypt"
      /\ thread[t].op = "rotate" /\ thread[t].at = "secrets"
  BY DEF LockSecrets, Move, At, SecretInv, SecretTypeOK, Calls
<1>2. /\ holds' \in [Threads -> SUBSET Locks]
      /\ \A u \in Threads : holds[u] \subseteq holds'[u]
  BY DEF LockSecrets, Take, SecretInv, SecretTypeOK, Locks
<1>3. SecretTypeOK'
  BY <1>1, <1>2 DEF LockSecrets, SecretInv, SecretTypeOK, Latest
<1>4. KeysHeld' /\ Drawn' /\ OneRotation'
  BY <1>1, <1>2 DEF LockSecrets, SecretInv, KeysHeld, Drawn, OneRotation, HasKey, At, Latest,
                    Rotating
<1>5. QED
  BY <1>3, <1>4 DEF SecretInv

\* rotate_secrets, :234-259, gets past the secrets only if there are none: the first
\* would ask for the lock this rotation holds.
LEMMA ReEncryptsNothing ==
  ASSUME SecretInv, NEW t \in Threads, ReEncrypt(t)
  PROVE  Stored = {}
<1>1. <<"key_versions", "write">> \in holds[t]
  BY DEF SecretInv, KeysHeld, ReEncrypt
<1>2. ~CanRead("key_versions")
  BY <1>1 DEF CanRead
<1>3. QED
  BY <1>2 DEF ReEncrypt

\* So it leaves the secrets as they are.
LEMMA ReEncryptKeeps ==
  ASSUME SecretInv, NEW t \in Threads, ReEncrypt(t)
  PROVE  SecretInv'
<1>1. secrets' \in [Names -> {NoSecret} \cup Labelled]
  BY ReEncryptsNothing DEF ReEncrypt, SecretInv, SecretTypeOK
<1>2. ~At(t, "rotate", "versions")
  BY DEF ReEncrypt, At
<1>3. QED
  BY <1>1, <1>2, LeaveKeeps DEF ReEncrypt

\* Every step keeps the versions whole and the master key the latest.
LEMMA SecretNextKeeps == ASSUME SecretInv, [SecretNext]_secretVars PROVE SecretInv'
<1>1. CASE UNCHANGED secretVars
  BY <1>1 DEF secretVars, SecretInv, SecretTypeOK, KeysHeld, Drawn, OneRotation, HasKey, At,
              Latest, Rotating
<1>2. ASSUME NEW t \in Threads, ThreadStep(t) PROVE SecretInv'
  <2>1. CASE LockMaster(t)
    <3>1. PICK at \in {"insert", "find"} : thread' = [thread EXCEPT ![t].at = at]
      BY <2>1 DEF LockMaster, Move
    <3>2. <<"master_key", "read">> \in Locks
      BY DEF Locks
    <3>3. QED
      BY <2>1, <3>1, <3>2, LockKeeps DEF LockMaster, Take
  <2>2. CASE InsertSecret(t)
    <3>1. Encrypted \in Labelled
      BY DEF Encrypted, Labelled, SecretInv, SecretTypeOK
    <3>2. secrets' \in [Names -> {NoSecret} \cup Labelled]
      BY <2>2, <3>1 DEF InsertSecret, SecretInv, SecretTypeOK
    <3>3. ~At(t, "rotate", "versions")
      BY <2>2 DEF InsertSecret, At
    <3>4. QED
      BY <2>2, <3>2, <3>3, LeaveKeeps DEF InsertSecret
  <2>3. CASE FindSecret(t)
    <3>1. secrets' \in [Names -> {NoSecret} \cup Labelled]
      BY <2>3 DEF FindSecret, SecretInv, SecretTypeOK
    <3>2. CASE Leave(t)
      BY <2>3, <3>1, <3>2, LeaveKeeps DEF FindSecret, At
    <3>3. CASE Take(t, "secrets", "read") /\ Move(t, "decrypt")
      <4>1. <<"secrets", "read">> \in Locks
        BY DEF Locks
      <4>2. QED
        BY <2>3, <3>3, <4>1, LockKeeps DEF FindSecret, Take, Move, At
    <3>4. QED
      BY <2>3, <3>2, <3>3 DEF FindSecret
  <2>4. CASE DecryptFound(t) \/ SecretsAge(t)
    <3>1. secrets' \in [Names -> {NoSecret} \cup Labelled]
      BY <2>4 DEF DecryptFound, SecretsAge, SecretInv, SecretTypeOK
    <3>2. QED
      BY <2>4, <3>1, LeaveKeeps DEF DecryptFound, SecretsAge, At
  <2>5. CASE RemoveSecret(t)
    <3>1. secrets' \in [Names -> {NoSecret} \cup Labelled]
      BY <2>5 DEF RemoveSecret, SecretInv, SecretTypeOK
    <3>2. QED
      BY <2>5, <3>1, LeaveKeeps DEF RemoveSecret, At
  <2>6. CASE ReadVersion(t)
    BY <2>6, ReadVersionKeeps
  <2>7. CASE ReplaceMaster(t)
    BY <2>7, ReplaceMasterKeeps
  <2>8. CASE InsertVersion(t)
    BY <2>8, InsertVersionKeeps
  <2>9. CASE LockSecrets(t)
    BY <2>9, LockSecretsKeeps
  <2>10. CASE ReEncrypt(t)
    BY <2>10, ReEncryptKeeps
  <2>11. QED
    BY <1>2, <2>1, <2>2, <2>3, <2>4, <2>5, <2>6, <2>7, <2>8, <2>9, <2>10 DEF ThreadStep
<1>3. ASSUME NEW t \in Threads, NEW op, NEW name, Begin(t, op, name),
             op \in {"load", "store", "remove", "rotate", "age"}, name \in Names \cup {NoSecret}
      PROVE  SecretInv'
  BY <1>3, BeginKeeps
<1>4. QED
  BY <1>1, <1>2, <1>3 DEF SecretNext

\* load_secret and rotate_secrets: what is stored under the first key stays readable
\* through every rotation, what is stored under a later one never is.
THEOREM SecretsStayReadable == SecretSpec => []SecretsReadable
<1>1. SecretInit => SecretInv
  BY SecretInitHolds
<1>2. SecretInv /\ [SecretNext]_secretVars => SecretInv'
  BY SecretNextKeeps
<1>3. ASSUME SecretInv PROVE SecretsReadable
  <2>1. ASSUME NEW n \in Stored PROVE Readable(secrets[n]) <=> secrets[n].key = FirstKey
    <3>1. secrets[n].version = 1
      BY <1>3, <2>1 DEF SecretInv, SecretTypeOK, Stored, Labelled
    <3>2. 1 \in DOMAIN key_versions /\ key_versions[1] = FirstKey
      BY <1>3 DEF SecretInv, SecretTypeOK
    <3>3. QED
      BY <3>1, <3>2 DEF Readable
  <2>2. QED
    BY <2>1 DEF SecretsReadable
<1>4. QED
  BY <1>1, <1>2, <1>3, PTL DEF SecretSpec

\* rotate_secrets: unless two rotations overlap, the master key is the latest version
\* whenever none is under way.
THEOREM MasterKeyIsLatest == SecretSpec => []MasterIsLatest
<1>1. SecretInit => SecretInv
  BY SecretInitHolds
<1>2. SecretInv /\ [SecretNext]_secretVars => SecretInv'
  BY SecretNextKeeps
<1>3. SecretInv => MasterIsLatest
  BY DEF SecretInv, OneRotation, MasterIsLatest, Rotating, At, Latest
<1>4. QED
  BY <1>1, <1>2, <1>3, PTL DEF SecretSpec

\* A rotation that returns has met no secret.
ReturnsFromEmptyStore ==
  [][\A t \in Threads : At(t, "rotate", "re-encrypt") /\ thread'[t].op = "none" => Stored = {}]_secretVars

\* rotate_secrets never re-encrypts a secret: it comes back only from an empty store, as
\* the first secret asks for the lock of the versions that the rotation holds (:238).
THEOREM RotationReEncryptsNothing == SecretSpec => ReturnsFromEmptyStore
<1>1. SecretInit => SecretInv
  BY SecretInitHolds
<1>2. SecretInv /\ [SecretNext]_secretVars => SecretInv'
  BY SecretNextKeeps
<1>3. SecretInv /\ [SecretNext]_secretVars =>
        [\A t \in Threads : At(t, "rotate", "re-encrypt") /\ thread'[t].op = "none"
                            => Stored = {}]_secretVars
  <2>1. SUFFICES ASSUME SecretInv, SecretNext,
                        NEW t \in Threads, At(t, "rotate", "re-encrypt"), thread'[t].op = "none"
                 PROVE  Stored = {}
    OBVIOUS
  <2>2. ASSUME NEW u \in Threads, ThreadStep(u), u # t PROVE thread'[t] = thread[t]
    <3>1. thread \in [Threads -> Calls]
      BY <2>1 DEF SecretInv, SecretTypeOK
    <3>2. ASSUME NEW at, Move(u, at) PROVE thread'[t] = thread[t]
      BY <2>2, <3>1, <3>2 DEF Move
    <3>3. CASE Leave(u)
      BY <2>2, <3>1, <3>3 DEF Leave
    <3>4. CASE ReadVersion(u)
      BY <2>2, <3>1, <3>4 DEF ReadVersion
    <3>5. QED
      BY <2>2, <3>2, <3>3, <3>4 DEF ThreadStep, LockMaster, InsertSecret, FindSecret, DecryptFound,
           RemoveSecret, SecretsAge, ReplaceMaster, InsertVersion, LockSecrets, ReEncrypt
  <2>3. ASSUME NEW u \in Threads, NEW op, NEW name, Begin(u, op, name)
        PROVE  thread'[t] = thread[t]
    BY <2>1, <2>3 DEF Begin, At, SecretInv, SecretTypeOK
  <2>4. thread'[t] # thread[t]
    BY <2>1 DEF At
  <2>5. ThreadStep(t)
    BY <2>1, <2>2, <2>3, <2>4 DEF SecretNext
  <2>6. ReEncrypt(t)
    BY <2>1, <2>5 DEF ThreadStep, LockMaster, InsertSecret, FindSecret, DecryptFound,
                      RemoveSecret, SecretsAge, ReadVersion, ReplaceMaster, InsertVersion,
                      LockSecrets, At
  <2>7. QED
    BY <2>1, <2>6, ReEncryptsNothing
<1>4. QED
  BY <1>1, <1>2, <1>3, PTL DEF SecretSpec, ReturnsFromEmptyStore

----------------------------------------------------------------------------
(* AuditLogger.                                                             *)

Lines == Seq(Seq(Int) \ {<<>>})
File == [lines : Lines, modified : Days]
Logging == [at : {"idle", "drawn", "ready", "text"}, id : Nat, torn : BOOLEAN]

AuditTypeOK ==
  /\ today \in Days
  /\ files \in [Days -> {NoFile} \cup File]
  /\ ended \in SUBSET Days
  /\ current \in [day : Days, named : BOOLEAN]
  /\ event_counter \in Nat
  /\ logger \in [Loggers -> Logging]
  /\ acked \in SUBSET [id : Nat, day : Days, torn : BOOLEAN]

\* Line i of the file of day d is the event x and nothing else.
HoldsIn(fs, d, i, x) ==
  /\ fs[d] # NoFile
  /\ i \in 1 .. Len(fs[d].lines)
  /\ fs[d].lines[i] = <<x>>
Holds(d, i, x) == HoldsIn(files, d, i, x)

\* It stands before any line of the file that cannot be read.
SeesIn(fs, d, i, x) ==
  HoldsIn(fs, d, i, x) /\ \A j \in 1 .. i : ~Unreadable(fs[d].lines[j])
Sees(d, i, x) == SeesIn(files, d, i, x)

Pending(t) == logger[t].at \in {"drawn", "ready"}

\* The file that is open is there, if it has its name; so is a line not ended.
OpenThere ==
  /\ current.named => files[current.day] # NoFile
  /\ \A d \in Days : d \notin ended => files[d] # NoFile /\ Len(files[d].lines) >= 1

\* An event that is seen has one place, its number is not beyond the counter, and the
\* numbers drawn and not yet written are apart from it and from one another.
NumbersApart ==
  /\ \A d, e \in Days, i, j \in Nat, x \in Nat :
       x # Half /\ Sees(d, i, x) /\ Sees(e, j, x) => d = e /\ i = j
  /\ \A d \in Days, i \in Nat, x \in Nat : Sees(d, i, x) => x <= event_counter
  /\ \A t \in Loggers : Pending(t) =>
       /\ logger[t].id <= event_counter
       /\ \A d \in Days, i \in Nat : ~Sees(d, i, logger[t].id)
       /\ \A u \in Loggers : u # t /\ Pending(u) => logger[u].id # logger[t].id

\* A number drawn is not Half.
NumbersDrawn == \A t \in Loggers : logger[t].at # "idle" => logger[t].id # Half

\* The text of an event is the last line until that line is ended.
TextLast ==
  \A t \in Loggers :
    logger[t].at = "text" /\ ~logger[t].torn /\ current.named =>
      Holds(current.day, Len(files[current.day].lines), logger[t].id)

\* An event its caller was told of has a line that is ended.
AckedEnded ==
  \A e \in acked :
    /\ e.id # Half
    /\ ~e.torn =>
         \E i \in Nat : /\ Holds(e.day, i, e.id)
                        /\ e.day \in ended \/ i < Len(files[e.day].lines)

AuditInv ==
  AuditTypeOK /\ OpenThere /\ NumbersApart /\ NumbersDrawn /\ TextLast /\ AckedEnded

\* A bounded set of numbers has a largest one.
LEMMA LargestExists ==
  ASSUME NEW S \in SUBSET Nat, S # {}, NEW n \in Nat, \A s \in S : s <= n
  PROVE  Max(S) \in S /\ \A s \in S : s <= Max(S)
<1> DEFINE gaps == {n - s : s \in S}
<1>1. gaps \subseteq Nat /\ gaps # {}
  <2>1. ASSUME NEW s \in S PROVE n - s \in Nat
    <3>1. s \in Nat /\ s <= n
      OBVIOUS
    <3>2. QED
      BY <3>1
  <2>2. gaps \subseteq Nat
    BY <2>1
  <2>3. QED
    BY <2>2
<1>2. PICK least \in gaps : \A g \in gaps : <<g, least>> \notin OpToRel(<, Nat)
  BY <1>1, NatLessThanWellFounded, WFMin, Zenon
<1>3. \A g \in gaps : ~(g < least)
  BY <1>1, <1>2, Zenon DEF OpToRel
<1>4. PICK m \in S : least = n - m
  OBVIOUS
<1>5. ASSUME NEW s \in S PROVE s <= m
  <2>1. ~(n - s < n - m)
    BY <1>3, <1>4
  <2>2. s \in Nat /\ m \in Nat
    OBVIOUS
  <2>3. QED
    BY <2>1, <2>2
<1>6. \E x \in S : \A y \in S : x >= y
  BY <1>5
<1>7. Max(S) \in S /\ \A y \in S : Max(S) >= y
  BY <1>6 DEF Max
<1>8. QED
  BY <1>7

\* A file is no missing file.
LEMMA FileThere == ASSUME NEW f \in File PROVE f # NoFile
<1>1. File \subseteq [lines : Seq(Seq(Int)), modified : Nat]
  BY AuditAssumption DEF File, Lines, Days
<1>2. QED
  BY <1>1, AuditAssumption

\* The events on some lines of a file.
LEMMA EventsOnLines ==
  ASSUME AuditTypeOK, NEW d \in Present, NEW numbers \in SUBSET LinesOf(d), NEW x
  PROVE  x \in EventsOn(d, numbers) <=>
           x # Half /\ x \in Nat /\ \E i \in numbers : Holds(d, i, x)
<1>1. files[d] # NoFile /\ files[d].lines \in Lines /\ LinesOf(d) = 1 .. Len(files[d].lines)
  BY DEF Present, AuditTypeOK, File, Lines, LinesOf
<1>2. ASSUME NEW i \in numbers PROVE Parses(files[d].lines[i]) /\ x = files[d].lines[i][1]
                                      <=> x # Half /\ x \in Nat /\ Holds(d, i, x)
  <2> DEFINE line == files[d].lines[i]
  <2>1. i \in 1 .. Len(files[d].lines) /\ line \in Seq(Int)
    BY <1>1, <1>2 DEF Lines
  <2> HIDE DEF line
  <2>2. ASSUME Parses(line), x = line[1] PROVE x # Half /\ x \in Nat /\ line = <<x>>
    <3>1. Len(line) = 1 /\ line[1] > 0
      BY <2>2 DEF Parses
    <3>2. x \in Int /\ x > 0
      BY <2>1, <2>2, <3>1
    <3>3. <<x>> \in Seq(Int) /\ Len(<<x>>) = 1 /\ <<x>>[1] = x
      BY <3>2
    <3>4. line = <<x>>
      BY <2>1, <2>2, <3>1, <3>3
    <3>5. QED
      BY <3>2, <3>4 DEF Half
  <2>3. ASSUME x # Half, x \in Nat, line = <<x>> PROVE Parses(line) /\ x = line[1]
    BY <2>3 DEF Parses, Half
  <2>4. Holds(d, i, x) <=> line = <<x>>
    BY <1>1, <2>1 DEF Holds, HoldsIn, line
  <2>5. QED
    BY <2>2, <2>3, <2>4 DEF line
<1>3. QED
  BY <1>2 DEF EventsOn

\* query_logs finds the events that have a line to themselves.
LEMMA FoundHolds ==
  ASSUME AuditTypeOK, NEW x
  PROVE  x \in Found <=> x # Half /\ x \in Nat /\ \E d \in Days, i \in Nat : Holds(d, i, x)
<1>1. \A d \in Present : d \in Days /\ LinesOf(d) \subseteq Nat
  BY DEF Present, AuditTypeOK, File, Lines, LinesOf
<1>2. \A d \in Present : x \in EventsOn(d, LinesOf(d)) <=>
        x # Half /\ x \in Nat /\ \E i \in LinesOf(d) : Holds(d, i, x)
  BY EventsOnLines
<1>3. \A d \in Days, i \in Nat : Holds(d, i, x) => d \in Present /\ i \in LinesOf(d)
  BY DEF Holds, HoldsIn, Present, LinesOf, AuditTypeOK, File, Lines
<1>4. x \in Found <=> \E d \in Present : x \in EventsOn(d, LinesOf(d))
  BY DEF Found
<1>5. QED
  BY <1>1, <1>2, <1>3, <1>4

\* load_last_event_id sees those of them that stand before any line that cannot be read.
LEMMA SeenSees ==
  ASSUME AuditTypeOK, NEW x
  PROVE  x \in Seen <=> x # Half /\ x \in Nat /\ \E d \in Days, i \in Nat : Sees(d, i, x)
<1>1. \A d \in Present : d \in Days /\ LinesOf(d) \subseteq Nat /\ Before(d) \subseteq LinesOf(d)
  BY DEF Present, AuditTypeOK, File, Lines, LinesOf, Before
<1>2. \A d \in Present : x \in EventsOn(d, Before(d)) <=>
        x # Half /\ x \in Nat /\ \E i \in Before(d) : Holds(d, i, x)
  BY <1>1, EventsOnLines
<1>3. \A d \in Days, i \in Nat : Holds(d, i, x) => d \in Present /\ i \in LinesOf(d)
  BY DEF Holds, HoldsIn, Present, LinesOf, AuditTypeOK, File, Lines
<1>4. \A d \in Days, i \in Nat : Sees(d, i, x) <=>
        d \in Present /\ i \in Before(d) /\ Holds(d, i, x)
  BY <1>3 DEF Sees, SeesIn, Holds, Before
<1>5. x \in Seen <=> \E d \in Present : x \in EventsOn(d, Before(d))
  BY DEF Seen
<1>6. QED
  BY <1>1, <1>2, <1>4, <1>5

\* load_last_event_id: no event that is seen has a larger number.
LEMMA LastEventIdLargest ==
  ASSUME AuditInv
  PROVE  /\ LastEventId \in Nat
         /\ \A d \in Days, i \in Nat, x \in Nat : Sees(d, i, x) => x <= LastEventId
<1> DEFINE S == {0} \cup Seen
<1>1. S \in SUBSET Nat /\ S # {}
  BY SeenSees DEF AuditInv
<1>2. event_counter \in Nat /\ \A s \in S : s <= event_counter
  BY SeenSees DEF AuditInv, AuditTypeOK, NumbersApart
<1>3. Max(S) \in S /\ \A s \in S : s <= Max(S)
  BY <1>1, <1>2, LargestExists
<1>4. ASSUME NEW d \in Days, NEW i \in Nat, NEW x \in Nat, Sees(d, i, x) PROVE x \in S
  BY <1>4, SeenSees DEF AuditInv, Half
<1>5. QED
  BY <1>1, <1>3, <1>4 DEF LastEventId

\* open_current_log changes no line.
LEMMA OpenedType ==
  ASSUME AuditTypeOK, NEW d \in Days
  PROVE  /\ Opened(d) \in [Days -> {NoFile} \cup File]
         /\ Opened(d)[d] # NoFile
         /\ \A e \in Days : files[e] # NoFile => Opened(d)[e] = files[e]
         /\ \A e \in Days, i \in Nat, x \in Nat : HoldsIn(Opened(d), e, i, x) <=> Holds(e, i, x)
         /\ \A e \in Days, i \in Nat, x \in Nat : SeesIn(Opened(d), e, i, x) <=> Sees(e, i, x)
<1> DEFINE new == [lines |-> <<>>, modified |-> today]
<1>1. new \in File
  BY DEF File, Lines, AuditTypeOK
<1>2. new # NoFile
  BY <1>1, FileThere
<1>3. Len(new.lines) = 0
  OBVIOUS
<1> HIDE DEF new
<1>4. Opened(d) = IF files[d] = NoFile THEN [files EXCEPT ![d] = new] ELSE files
  BY DEF Opened, new
<1>5. /\ Opened(d) \in [Days -> {NoFile} \cup File]
      /\ Opened(d)[d] # NoFile
      /\ \A e \in Days : files[e] # NoFile => Opened(d)[e] = files[e]
      /\ \A e \in Days, i \in Nat, x \in Nat : HoldsIn(Opened(d), e, i, x) <=> Holds(e, i, x)
  BY <1>1, <1>2, <1>3, <1>4 DEF AuditTypeOK, Holds, HoldsIn
<1>6. ASSUME NEW e \in Days, NEW i \in Nat, NEW x \in Nat
      PROVE  SeesIn(Opened(d), e, i, x) <=> Sees(e, i, x)
  <2>1. CASE files[e] = NoFile
    BY <1>5, <2>1 DEF Sees, SeesIn, Holds, HoldsIn
  <2>2. CASE files[e] # NoFile
    BY <1>5, <2>2 DEF Sees, SeesIn, Holds
  <2>3. QED
    BY <2>1, <2>2
<1>7. QED
  BY <1>5, <1>6

\* A line that grows is no event any more, and the others stay.
LEMMA LengthenedType ==
  ASSUME NEW lines \in Lines, Len(lines) >= 1, NEW what \in Int
  PROVE  /\ Lengthened(lines, what) \in Lines
         /\ Len(Lengthened(lines, what)) = Len(lines)
         /\ \A i \in 1 .. Len(lines) - 1 : Lengthened(lines, what)[i] = lines[i]
         /\ \A x : Lengthened(lines, what)[Len(lines)] # <<x>>
         /\ Unreadable(lines[Len(lines)]) => Unreadable(Lengthened(lines, what)[Len(lines)])
<1> DEFINE line == lines[Len(lines)]
           longer == Append(line, what)
<1>1. Len(lines) \in Nat /\ Len(lines) \in 1 .. Len(lines)
  BY DEF Lines
<1>2. line \in Seq(Int) /\ line # <<>>
  BY <1>1 DEF Lines
<1>3. Len(line) \in Nat /\ Len(line) >= 1
  BY <1>2
<1>4. longer \in Seq(Int) /\ Len(longer) >= 2
  BY <1>2, <1>3
<1>5. longer # <<>> /\ \A x : longer # <<x>>
  BY <1>4
<1>0. Unreadable(line) => Unreadable(longer)
  <2>1. \A k \in DOMAIN line : k \in DOMAIN longer /\ longer[k] = line[k]
    BY <1>2
  <2>2. QED
    BY <2>1 DEF Unreadable, ToSet
<1> HIDE DEF line, longer
<1>6. Lengthened(lines, what) = [lines EXCEPT ![Len(lines)] = longer]
  BY DEF Lengthened, line, longer
<1>7. longer \in Seq(Int) \ {<<>>}
  BY <1>4, <1>5
<1>8. /\ [lines EXCEPT ![Len(lines)] = longer] \in Lines
      /\ Len([lines EXCEPT ![Len(lines)] = longer]) = Len(lines)
      /\ \A j \in 1 .. Len(lines) : [lines EXCEPT ![Len(lines)] = longer][j] =
                                      IF j = Len(lines) THEN longer ELSE lines[j]
  BY <1>1, <1>7, ExceptSeq DEF Lines
<1>9. \A j \in 1 .. Len(lines) - 1 : j \in 1 .. Len(lines) /\ j # Len(lines)
  BY <1>1
<1>10. QED
  BY <1>0, <1>1, <1>5, <1>6, <1>8, <1>9 DEF line

\* What is written is a line of its own if the last line is ended, and no event if not;
\* the lines that are ended stay.
LEMMA WrittenType ==
  ASSUME AuditTypeOK, OpenThere, NEW what \in Int
  PROVE  /\ Written(what) \in [Days -> {NoFile} \cup File]
         /\ \A d \in Days : files[d] # NoFile =>
              /\ Written(what)[d] # NoFile
              /\ Len(Written(what)[d].lines) >= Len(files[d].lines)
         /\ ~current.named => Written(what) = files
         /\ current.named => Len(Written(what)[current.day].lines) >= 1
         /\ \A d \in Days, i \in Nat, x \in Nat : HoldsIn(Written(what), d, i, x) =>
              \/ Holds(d, i, x)
              \/ /\ x = what /\ d = current.day
                 /\ current.named /\ current.day \in ended
                 /\ i = Len(files[d].lines) + 1
         /\ \A d \in Days, i \in Nat, x \in Nat :
              Holds(d, i, x) /\ (d \in ended \/ i < Len(files[d].lines)) =>
                /\ HoldsIn(Written(what), d, i, x)
                /\ d \in ended \ {current.day} \/ ~current.named \/ i < Len(Written(what)[d].lines)
         /\ current.named /\ current.day \in ended =>
              HoldsIn(Written(what), current.day, Len(Written(what)[current.day].lines), what)
         /\ \A d \in Days : files[d] # NoFile =>
              \A j \in 1 .. Len(files[d].lines) :
                Unreadable(files[d].lines[j]) => Unreadable(Written(what)[d].lines[j])
<1> DEFINE day == current.day
           lines == files[day].lines
           grown == IF day \in ended THEN Append(lines, <<what>>) ELSE Lengthened(lines, what)
           file == [lines |-> grown, modified |-> today]
<1>1. day \in Days /\ current.named \in BOOLEAN
  BY DEF AuditTypeOK
<1>2. CASE ~current.named
  <2>1. Written(what) = files
    BY <1>2 DEF Written
  <2>2. \A d \in Days : files[d] # NoFile => Len(files[d].lines) \in Nat
    BY DEF AuditTypeOK, File, Lines
  <2>3. QED
    BY <1>1, <1>2, <2>1, <2>2 DEF AuditTypeOK, Holds
<1>3. CASE current.named
  <2>1. files[day] # NoFile /\ files[day] \in File /\ lines \in Lines
    BY <1>1, <1>3 DEF AuditTypeOK, OpenThere, File
  <2>2. <<what>> \in Seq(Int) \ {<<>>} /\ Len(lines) \in Nat
    BY <2>1 DEF Lines
  <2>3. grown \in Lines /\ Len(grown) \in Nat /\ Len(grown) >= Len(lines) /\ Len(grown) >= 1
    <3>1. CASE day \in ended
      BY <2>1, <2>2, <3>1 DEF Lines
    <3>2. CASE day \notin ended
      <4>1. Len(lines) >= 1
        BY <1>1, <3>2 DEF OpenThere
      <4>2. QED
        BY <2>1, <2>2, <3>2, <4>1, LengthenedType
    <3>3. QED
      BY <3>1, <3>2
  <2>4. ASSUME NEW i \in 1 .. Len(grown), NEW x \in Nat, grown[i] = <<x>>
        PROVE  \/ i \in 1 .. Len(lines) /\ lines[i] = <<x>>
               \/ x = what /\ day \in ended /\ i = Len(lines) + 1
    <3>1. CASE day \in ended
      <4>1. CASE i = Len(lines) + 1
        <5>1. <<x>> = <<what>>
          BY <2>1, <2>2, <2>4, <3>1, <4>1 DEF Lines
        <5>2. <<x>>[1] = <<what>>[1]
          BY <5>1
        <5>3. QED
          BY <3>1, <4>1, <5>2
      <4>2. CASE i # Len(lines) + 1
        <5>1. Len(grown) = Len(lines) + 1
          BY <2>1, <2>2, <3>1 DEF Lines
        <5>2. i \in 1 .. Len(lines)
          BY <2>2, <4>2, <5>1
        <5>3. grown[i] = lines[i]
          BY <2>1, <2>2, <3>1, <5>2 DEF Lines
        <5>4. QED
          BY <2>4, <5>2, <5>3
      <4>3. QED
        BY <4>1, <4>2
    <3>2. CASE day \notin ended
      <4>1. Len(lines) >= 1
        BY <1>1, <3>2 DEF OpenThere
      <4>2. /\ Len(grown) = Len(lines) /\ grown[Len(lines)] # <<x>>
            /\ \A k \in 1 .. Len(lines) - 1 : grown[k] = lines[k]
        BY <2>1, <3>2, <4>1, LengthenedType
      <4> HIDE DEF grown, lines
      <4>3. i \in 1 .. Len(lines) /\ i # Len(lines)
        BY <2>4, <4>2
      <4>4. i \in 1 .. Len(lines) - 1
        BY <2>2, <4>3
      <4>5. grown[i] = lines[i]
        BY <4>2, <4>4
      <4>6. QED
        BY <2>4, <4>3, <4>5
    <3>3. QED
      BY <3>1, <3>2
  <2>5. ASSUME NEW i \in 1 .. Len(lines), day \in ended \/ i < Len(lines)
        PROVE  grown[i] = lines[i] /\ i < Len(grown)
    <3>1. CASE day \in ended
      BY <2>1, <2>2, <3>1 DEF Lines
    <3>2. CASE day \notin ended
      <4>1. Len(lines) >= 1
        BY <1>1, <3>2 DEF OpenThere
      <4>2. /\ Len(grown) = Len(lines)
            /\ \A k \in 1 .. Len(lines) - 1 : grown[k] = lines[k]
        BY <2>1, <3>2, <4>1, LengthenedType
      <4> HIDE DEF grown, lines
      <4>3. i \in 1 .. Len(lines) - 1 /\ i < Len(lines)
        BY <2>2, <2>5, <3>2
      <4>4. QED
        BY <4>2, <4>3
    <3>3. QED
      BY <3>1, <3>2
  <2>6. day \in ended => grown[Len(grown)] = <<what>>
    BY <2>1, <2>2 DEF Lines
  <2>0. ASSUME NEW i \in 1 .. Len(lines), Unreadable(lines[i]) PROVE Unreadable(grown[i])
    <3>1. CASE day \in ended \/ i < Len(lines)
      BY <2>0, <2>5, <3>1
    <3>2. CASE day \notin ended /\ ~(i < Len(lines))
      <4>1. i = Len(lines) /\ Len(lines) >= 1
        BY <2>2, <3>2
      <4>2. QED
        BY <2>0, <2>1, <3>2, <4>1, LengthenedType
    <3>3. QED
      BY <3>1, <3>2
  <2> HIDE DEF grown
  <2>7. file \in File /\ file.lines = grown
    BY <2>3 DEF File, AuditTypeOK
  <2>8. file # NoFile
    BY <2>7, FileThere
  <2>9. Written(what) = [files EXCEPT ![day] = file]
    BY <1>3 DEF Written, grown
  <2> HIDE DEF file
  <2>10. /\ Written(what) \in [Days -> {NoFile} \cup File]
         /\ Written(what)[day] = file
         /\ \A d \in Days : d # day => Written(what)[d] = files[d]
    BY <1>1, <2>7, <2>9 DEF AuditTypeOK
  <2>11. \A d \in Days : files[d] # NoFile =>
              /\ Written(what)[d] # NoFile
              /\ Len(Written(what)[d].lines) >= Len(files[d].lines)
    <3>1. \A d \in Days : files[d] # NoFile => Len(files[d].lines) \in Nat
      BY DEF AuditTypeOK, File, Lines
    <3>2. QED
      BY <2>3, <2>7, <2>8, <2>10, <3>1
  <2>12. Len(Written(what)[day].lines) >= 1
    BY <2>3, <2>7, <2>10
  <2>13. ASSUME NEW d \in Days, NEW i \in Nat, NEW x \in Nat, HoldsIn(Written(what), d, i, x)
         PROVE  \/ Holds(d, i, x)
                \/ x = what /\ d = day /\ day \in ended /\ i = Len(files[d].lines) + 1
    <3>1. CASE d # day
      BY <2>10, <2>13, <3>1 DEF Holds, HoldsIn
    <3>2. CASE d = day
      BY <2>1, <2>4, <2>7, <2>10, <2>13, <3>2 DEF Holds, HoldsIn
    <3>3. QED
      BY <3>1, <3>2
  <2>14. ASSUME NEW d \in Days, NEW i \in Nat, NEW x \in Nat, Holds(d, i, x),
                d \in ended \/ i < Len(files[d].lines)
         PROVE  /\ HoldsIn(Written(what), d, i, x)
                /\ d \in ended \ {day} \/ i < Len(Written(what)[d].lines)
    <3>1. CASE d # day
      BY <2>10, <2>14, <3>1 DEF Holds, HoldsIn
    <3>2. CASE d = day
      BY <2>3, <2>5, <2>7, <2>8, <2>10, <2>14, <3>2 DEF Holds, HoldsIn
    <3>3. QED
      BY <3>1, <3>2
  <2>15. day \in ended => HoldsIn(Written(what), day, Len(Written(what)[day].lines), what)
    BY <2>3, <2>6, <2>7, <2>8, <2>10 DEF HoldsIn
  <2>16. ASSUME NEW d \in Days, files[d] # NoFile
         PROVE  \A j \in 1 .. Len(files[d].lines) :
                  Unreadable(files[d].lines[j]) => Unreadable(Written(what)[d].lines[j])
    BY <2>0, <2>7, <2>10
  <2>17. QED
    BY <1>3, <2>10, <2>11, <2>12, <2>13, <2>14, <2>15, <2>16
<1>4. QED
  BY <1>1, <1>2, <1>3

\* There is one file, without a line.
LEMMA AuditInitHolds == ASSUME AuditInit PROVE AuditInv
<1> DEFINE new == [lines |-> <<>>, modified |-> 0]
<1>1. 0 \in Days
  BY AuditAssumption DEF Days
<1>2. new \in File /\ Len(new.lines) = 0
  BY <1>1 DEF File, Lines
<1>3. new # NoFile
  BY <1>2, FileThere
<1> HIDE DEF new
<1>4. files = [d \in Days |-> IF d = 0 THEN new ELSE NoFile]
  BY DEF AuditInit, new
<1>5. files \in [Days -> {NoFile} \cup File]
  BY <1>2, <1>4
<1>6. logger = [t \in Loggers |-> Ready] /\ Ready.at = "idle"
      /\ Ready \in Logging
  BY DEF AuditInit, Ready, Logging
<1>7. current \in [day : Days, named : BOOLEAN] /\ current.day = 0 /\ current.named
  BY <1>1 DEF AuditInit
<1>8. AuditTypeOK
  BY <1>1, <1>5, <1>6, <1>7 DEF AuditInit, AuditTypeOK
<1>9. \A d \in Days, i \in Nat : \A x : ~Sees(d, i, x)
  BY <1>2, <1>4 DEF Sees, SeesIn, HoldsIn
<1>10. \A t \in Loggers : logger[t].at = "idle"
  BY <1>6
<1>11. OpenThere
  BY <1>1, <1>3, <1>4, <1>7 DEF AuditInit, OpenThere
<1>12. NumbersApart /\ NumbersDrawn /\ TextLast
  BY <1>9, <1>10 DEF NumbersApart, NumbersDrawn, TextLast, Pending
<1>13. AckedEnded
  BY DEF AuditInit, AckedEnded
<1>14. QED
  BY <1>8, <1>11, <1>12, <1>13 DEF AuditInv

\* :252: the number drawn is beyond every other.
LEMMA DrawIdKeeps == ASSUME AuditInv, NEW t \in Loggers, DrawId(t) PROVE AuditInv'
<1> DEFINE new == [at |-> "drawn", id |-> event_counter + 1, torn |-> FALSE]
<1>1. event_counter \in Nat /\ event_counter' = event_counter + 1
  BY DEF DrawId, AuditInv, AuditTypeOK
<1>2. new \in Logging
      /\ new.at = "drawn" /\ new.id = event_counter + 1
  BY <1>1 DEF Logging
<1> HIDE DEF new
<1>3. logger' = [logger EXCEPT ![t] = new]
  BY DEF DrawId, new
<1>4. /\ logger' \in [Loggers -> Logging]
      /\ logger'[t] = new
      /\ \A u \in Loggers : u # t => logger'[u] = logger[u]
  BY <1>2, <1>3 DEF AuditInv, AuditTypeOK
<1>5. \A u \in Loggers : logger[u].id \in Nat
  BY DEF AuditInv, AuditTypeOK, Logging
<1>6. files' = files
  BY DEF DrawId
<1>7. AuditTypeOK'
  BY <1>1, <1>4 DEF DrawId, AuditInv, AuditTypeOK
<1>8. OpenThere' /\ AckedEnded'
  BY <1>6 DEF DrawId, AuditInv, OpenThere, AckedEnded, Holds
<1>9. NumbersDrawn' /\ TextLast'
  BY <1>1, <1>2, <1>4, <1>6 DEF DrawId, AuditInv, NumbersDrawn, TextLast, Half, Holds
<1>10. NumbersApart'
  <2>1. \A d, e \in Days, i, j \in Nat, x \in Nat :
          x # Half /\ SeesIn(files', d, i, x) /\ SeesIn(files', e, j, x) => d = e /\ i = j
    BY <1>6 DEF AuditInv, NumbersApart, Sees
  <2>2. \A d \in Days, i \in Nat, x \in Nat : SeesIn(files', d, i, x) => x <= event_counter
    BY <1>6 DEF AuditInv, NumbersApart, Sees
  <2>3. \A d \in Days, i \in Nat, x \in Nat : SeesIn(files', d, i, x) => x <= event_counter'
    BY <1>1, <2>2
  <2>4. \A d \in Days, i \in Nat : ~SeesIn(files', d, i, new.id)
    BY <1>1, <1>2, <2>2
  <2>5. \A u \in Loggers : u # t /\ Pending(u)' => /\ logger'[u].id <= event_counter
                                                   /\ \A d \in Days, i \in Nat : ~SeesIn(files', d, i, logger'[u].id)
    BY <1>4, <1>6 DEF AuditInv, NumbersApart, Pending, Sees
  <2>6. \A u, v \in Loggers : u # v /\ Pending(u)' /\ Pending(v)' => logger'[u].id # logger'[v].id
    <3>1. SUFFICES ASSUME NEW u \in Loggers, NEW v \in Loggers, u # v, Pending(u)', Pending(v)'
                   PROVE  logger'[u].id # logger'[v].id
      OBVIOUS
    <3>2. CASE u = t
      BY <1>1, <1>2, <1>4, <1>5, <2>5, <3>1, <3>2
    <3>3. CASE v = t
      BY <1>1, <1>2, <1>4, <1>5, <2>5, <3>1, <3>3
    <3>4. CASE u # t /\ v # t
      BY <1>4, <3>1, <3>4 DEF AuditInv, NumbersApart, Pending, Sees
    <3>5. QED
      BY <3>2, <3>3, <3>4
  <2>7. ASSUME NEW u \in Loggers, Pending(u)'
        PROVE  /\ logger'[u].id <= event_counter'
               /\ \A d \in Days, i \in Nat : ~SeesIn(files', d, i, logger'[u].id)
    BY <1>1, <1>2, <1>4, <1>5, <2>4, <2>5, <2>7
  <2>8. QED
    BY <2>1, <2>3, <2>6, <2>7 DEF NumbersApart, Sees
<1>11. QED
  BY <1>7, <1>8, <1>9, <1>10 DEF AuditInv

\* A write: of the text of an event, or of half of it.
LEMMA WriteKeeps ==
  ASSUME AuditInv, NEW t \in Loggers, logger[t].at = "ready", LockFree,
         NEW what \in Int, files' = Written(what),
         ended' = IF current.named THEN ended \ {current.day} ELSE ended,
         UNCHANGED <<today, current, event_counter, acked>>,
         logger' \in [Loggers -> Logging],
         \A u \in Loggers : u # t => logger'[u] = logger[u],
         \/ what \in {Half, Broken} /\ logger'[t].at = "idle"
         \/ /\ what = logger[t].id /\ logger'[t].at = "text"
            /\ logger'[t].id = logger[t].id
            /\ logger'[t].torn = (current.named /\ current.day \notin ended)
  PROVE  AuditInv'
<1>1. AuditTypeOK /\ OpenThere
  BY DEF AuditInv
<1>2. /\ files' \in [Days -> {NoFile} \cup File]
      /\ \A d \in Days : files[d] # NoFile =>
           /\ files'[d] # NoFile
           /\ Len(files'[d].lines) >= Len(files[d].lines)
      /\ ~current.named => files' = files
      /\ current.named => Len(files'[current.day].lines) >= 1
  BY <1>1, WrittenType
<1>3. \A d \in Days, i \in Nat, x \in Nat : HoldsIn(files', d, i, x) =>
        \/ Holds(d, i, x)
        \/ /\ x = what /\ d = current.day
           /\ current.named /\ current.day \in ended
           /\ i = Len(files[d].lines) + 1
  BY <1>1, WrittenType
<1>4. \A d \in Days, i \in Nat, x \in Nat :
        Holds(d, i, x) /\ (d \in ended \/ i < Len(files[d].lines)) =>
          /\ HoldsIn(files', d, i, x)
          /\ d \in ended \ {current.day} \/ ~current.named \/ i < Len(files'[d].lines)
  BY <1>1, WrittenType
<1>5. current.named /\ current.day \in ended =>
        HoldsIn(files', current.day, Len(files'[current.day].lines), what)
  BY <1>1, WrittenType
<1>6. /\ current.day \in Days /\ event_counter \in Nat /\ acked' = acked
      /\ current' = current /\ event_counter' = event_counter
  BY <1>1 DEF AuditTypeOK
<1>7. AuditTypeOK'
  BY <1>1, <1>2 DEF AuditTypeOK
<1>8. OpenThere'
  <2>1. ASSUME NEW d \in Days, d \notin ended' PROVE files'[d] # NoFile /\ Len(files'[d].lines) >= 1
    <3>1. CASE d \notin ended
      <4>1. files[d] # NoFile /\ Len(files[d].lines) >= 1
        BY <1>1, <3>1 DEF OpenThere
      <4>2. Len(files[d].lines) \in Nat /\ Len(files'[d].lines) \in Nat /\ files'[d] # NoFile
        <5>1. files'[d] # NoFile
          BY <1>2, <4>1
        <5>2. files[d] \in File /\ files'[d] \in File
          BY <1>1, <1>2, <4>1, <5>1 DEF AuditTypeOK
        <5>3. QED
          BY <5>1, <5>2 DEF File, Lines
      <4>3. QED
        BY <1>2, <4>1, <4>2
    <3>2. CASE d \in ended
      <4>1. d = current.day /\ current.named
        BY <2>1, <3>2
      <4>2. QED
        BY <1>1, <1>2, <4>1 DEF OpenThere
    <3>3. QED
      BY <3>1, <3>2
  <2>2. current.named => files'[current.day] # NoFile
    BY <1>1, <1>2, <1>6 DEF OpenThere
  <2>3. QED
    BY <1>1, <1>6, <2>1, <2>2 DEF OpenThere
<1>9. NumbersDrawn'
  BY DEF AuditInv, NumbersDrawn
<1>10. TextLast'
  <2>1. ASSUME NEW u \in Loggers, logger'[u].at = "text", ~logger'[u].torn, current.named
        PROVE  HoldsIn(files', current.day, Len(files'[current.day].lines), logger'[u].id)
    <3>1. u = t
      BY <2>1 DEF LockFree
    <3>2. current.day \in ended /\ what = logger'[t].id
      BY <1>6, <2>1, <3>1
    <3>3. QED
      BY <1>5, <2>1, <3>1, <3>2
  <2>2. QED
    BY <1>6, <2>1 DEF TextLast, Holds
<1>11. AckedEnded'
  <2>1. ASSUME NEW e \in acked, ~e.torn
        PROVE  \E i \in Nat : HoldsIn(files', e.day, i, e.id) /\ (e.day \in ended' \/ i < Len(files'[e.day].lines))
    <3>1. PICK i \in Nat : Holds(e.day, i, e.id) /\ (e.day \in ended \/ i < Len(files[e.day].lines))
      BY <2>1 DEF AuditInv, AckedEnded
    <3>2. e.day \in Days /\ e.id \in Nat
      BY <1>1 DEF AuditTypeOK
    <3>3. /\ HoldsIn(files', e.day, i, e.id)
          /\ e.day \in ended \ {current.day} \/ ~current.named \/ i < Len(files'[e.day].lines)
      BY <1>4, <3>1, <3>2
    <3>4. e.day \in ended' \/ i < Len(files'[e.day].lines)
      BY <1>2, <3>1, <3>3
    <3>5. QED
      BY <3>3, <3>4
  <2>2. QED
    BY <1>6, <2>1 DEF AuditInv, AckedEnded, Holds
<1>0. \A d \in Days, i \in Nat, x \in Nat : SeesIn(files', d, i, x) =>
        \/ Sees(d, i, x)
        \/ /\ x = what /\ d = current.day
           /\ current.named /\ current.day \in ended
           /\ i = Len(files[d].lines) + 1
  <2>1. ASSUME NEW d \in Days, NEW i \in Nat, NEW x \in Nat, SeesIn(files', d, i, x), Holds(d, i, x)
        PROVE  Sees(d, i, x)
    <3>1. files[d] # NoFile /\ i \in 1 .. Len(files[d].lines) /\ Len(files[d].lines) \in Nat
      BY <1>1, <2>1 DEF Holds, HoldsIn, AuditTypeOK, File, Lines
    <3>2. \A j \in 1 .. i : j \in 1 .. Len(files[d].lines)
      BY <3>1
    <3>3. \A j \in 1 .. Len(files[d].lines) :
            Unreadable(files[d].lines[j]) => Unreadable(files'[d].lines[j])
      BY <1>1, <3>1, WrittenType
    <3>4. QED
      BY <2>1, <3>2, <3>3 DEF Sees, SeesIn, Holds
  <2>2. QED
    BY <1>3, <2>1 DEF SeesIn
<1>12. NumbersApart'
  <2>1. /\ Pending(t) /\ logger[t].id <= event_counter
        /\ \A d \in Days, i \in Nat : ~Sees(d, i, logger[t].id)
    BY DEF AuditInv, NumbersApart, Pending
  <2>2. what \notin {Half, Broken} => \A d \in Days, i \in Nat : ~Sees(d, i, what)
    BY <2>1
  <2>3. \A d, e \in Days, i, j \in Nat, x \in Nat :
          x # Half /\ Sees(d, i, x) /\ Sees(e, j, x) => d = e /\ i = j
    BY DEF AuditInv, NumbersApart
  <2>4. ASSUME NEW d \in Days, NEW e \in Days, NEW i \in Nat, NEW j \in Nat, NEW x \in Nat,
               x # Half, SeesIn(files', d, i, x), SeesIn(files', e, j, x)
        PROVE  d = e /\ i = j
    <3>1. CASE x = what
      <4>1. ~Sees(d, i, x) /\ ~Sees(e, j, x)
        BY <2>2, <2>4, <3>1 DEF Broken
      <4>2. QED
        BY <1>0, <2>4, <4>1
    <3>2. CASE x # what
      <4>1. Sees(d, i, x) /\ Sees(e, j, x)
        BY <1>0, <2>4, <3>2
      <4>2. QED
        BY <2>3, <2>4, <4>1
    <3>3. QED
      BY <3>1, <3>2
  <2>5. what <= event_counter
    BY <1>6, <2>1 DEF Half, Broken
  <2>6. \A d \in Days, i \in Nat, x \in Nat : SeesIn(files', d, i, x) => x <= event_counter
    BY <1>0, <2>5 DEF AuditInv, NumbersApart
  <2>7. ASSUME NEW u \in Loggers, Pending(u)'
        PROVE  /\ u # t /\ Pending(u) /\ logger'[u] = logger[u]
               /\ logger[u].id <= event_counter
               /\ \A d \in Days, i \in Nat : ~SeesIn(files', d, i, logger[u].id)
    <3>1. u # t
      BY <2>7 DEF Pending
    <3>2. Pending(u) /\ logger'[u] = logger[u]
      BY <2>7, <3>1 DEF Pending
    <3>3. /\ logger[u].id <= event_counter /\ logger[u].id \in Nat
          /\ \A d \in Days, i \in Nat : ~Sees(d, i, logger[u].id)
          /\ logger[u].id # logger[t].id
      BY <1>1, <2>1, <3>1, <3>2 DEF AuditInv, NumbersApart, AuditTypeOK, Logging
    <3>4. logger[u].id # Half
      BY <3>2 DEF AuditInv, NumbersDrawn, Pending
    <3>5. logger[u].id # what
      BY <3>3, <3>4 DEF Broken
    <3>6. QED
      BY <1>0, <3>1, <3>2, <3>3, <3>5
  <2>8. \A u, v \in Loggers : u # v /\ Pending(u) /\ Pending(v) => logger[u].id # logger[v].id
    BY DEF AuditInv, NumbersApart
  <2>9. QED
    BY <1>6, <2>4, <2>6, <2>7, <2>8 DEF NumbersApart, Sees
<1>13. QED
  BY <1>7, <1>8, <1>9, <1>10, <1>11, <1>12 DEF AuditInv

\* :199-211: the file that is opened is there already.
LEMMA RotateIfNeededKeeps ==
  ASSUME AuditInv, NEW t \in Loggers, RotateIfNeeded(t)
  PROVE  AuditInv'
<1>1. AuditTypeOK /\ today \in Days
  BY DEF AuditInv, AuditTypeOK
<1>2. /\ logger' \in [Loggers -> Logging]
      /\ \A u \in Loggers : logger'[u].id = logger[u].id /\ logger'[u].torn = logger[u].torn
      /\ \A u \in Loggers : logger'[u].at = IF u = t THEN "ready" ELSE logger[u].at
      /\ logger[t].at = "drawn"
  BY <1>1 DEF RotateIfNeeded, AuditTypeOK, Logging
<1>3. files' = files
  <2>1. CASE NeedsRotation
    BY <2>1 DEF RotateIfNeeded, NeedsRotation, Opened
  <2>2. CASE ~NeedsRotation
    BY <2>2 DEF RotateIfNeeded
  <2>3. QED
    BY <2>1, <2>2
<1>4. \/ current' = current
      \/ /\ current' = [day |-> today, named |-> TRUE]
         /\ files[today] # NoFile /\ LockFree
  BY DEF RotateIfNeeded, NeedsRotation
<1>5. AuditTypeOK'
  <2>1. current' \in [day : Days, named : BOOLEAN]
    <3>1. /\ [day |-> today, named |-> TRUE] \in [day : Days, named : BOOLEAN]
          /\ current \in [day : Days, named : BOOLEAN]
      BY <1>1 DEF AuditTypeOK
    <3>2. QED
      BY <1>4, <3>1, Zenon
  <2>2. UNCHANGED <<today, files, ended, event_counter, acked>>
    BY <1>3 DEF RotateIfNeeded
  <2>3. QED
    BY <1>1, <1>2, <2>1, <2>2 DEF AuditTypeOK
<1>6. OpenThere' /\ AckedEnded'
  BY <1>3, <1>4 DEF RotateIfNeeded, AuditInv, OpenThere, AckedEnded, Holds
<1>7. NumbersDrawn'
  BY <1>2 DEF AuditInv, NumbersDrawn
<1>8. TextLast'
  <2>1. CASE current' = current
    BY <1>2, <1>3, <2>1 DEF RotateIfNeeded, AuditInv, TextLast, Holds
  <2>2. CASE LockFree
    BY <1>2, <2>2 DEF LockFree, TextLast
  <2>3. QED
    BY <1>4, <2>1, <2>2
<1>9. \A u \in Loggers : Pending(u)' <=> Pending(u)
  BY <1>2 DEF Pending
<1>10. NumbersApart'
  BY <1>2, <1>3, <1>9 DEF RotateIfNeeded, AuditInv, NumbersApart, Sees
<1>11. QED
  BY <1>5, <1>6, <1>7, <1>8, <1>10 DEF AuditInv

\* A thread that is done, whether the line was ended or not, leaves the files alone.
LEMMA DoneType ==
  ASSUME AuditTypeOK, NEW t \in Loggers, logger' = [logger EXCEPT ![t] = Ready]
  PROVE  /\ logger' \in [Loggers -> Logging]
         /\ logger'[t].at = "idle"
         /\ \A u \in Loggers : u # t => logger'[u] = logger[u]
<1>1. Ready \in Logging
      /\ Ready.at = "idle"
  BY DEF Ready, Logging
<1>2. QED
  BY <1>1 DEF AuditTypeOK

\* :235-243: the line of the event is ended before the caller is told.
LEMMA EndLineKeeps ==
  ASSUME AuditInv, NEW t \in Loggers, EndLine(t)
  PROVE  AuditInv'
<1> DEFINE told == [id |-> logger[t].id, day |-> current.day, torn |-> logger[t].torn]
<1>1. AuditTypeOK /\ logger[t].at = "text"
  BY DEF AuditInv, EndLine
<1>2. /\ logger' \in [Loggers -> Logging]
      /\ logger'[t].at = "idle"
      /\ \A u \in Loggers : u # t => logger'[u] = logger[u]
  BY <1>1, DoneType DEF EndLine
<1>3. ended' = (IF current.named THEN ended \cup {current.day} ELSE ended) /\ ended \subseteq ended'
  BY DEF EndLine
<1>4. /\ told \in [id : Nat, day : Days, torn : BOOLEAN]
      /\ told.id = logger[t].id /\ told.day = current.day /\ told.torn = logger[t].torn
  BY <1>1 DEF AuditTypeOK, Logging
<1>5. acked' = IF current.named THEN acked \cup {told} ELSE acked
  BY DEF EndLine
<1> HIDE DEF told
<1>6. AuditTypeOK'
  <2>1. ended' \in SUBSET Days
    BY <1>1, <1>3 DEF AuditTypeOK
  <2>2. acked' \in SUBSET [id : Nat, day : Days, torn : BOOLEAN]
    BY <1>1, <1>4, <1>5 DEF AuditTypeOK
  <2>3. UNCHANGED <<today, files, current, event_counter>>
    BY DEF EndLine
  <2>4. QED
    BY <1>1, <1>2, <2>1, <2>2, <2>3 DEF AuditTypeOK
<1>7. OpenThere'
  BY <1>3 DEF EndLine, AuditInv, OpenThere
<1>8. NumbersDrawn' /\ TextLast'
  BY <1>2 DEF EndLine, AuditInv, NumbersDrawn, TextLast, Holds
<1>9. NumbersApart'
  BY <1>2 DEF EndLine, AuditInv, NumbersApart, Pending, Sees
<1>10. AckedEnded'
  <2>1. ASSUME NEW e \in acked
        PROVE  /\ e.id # Half
               /\ ~e.torn =>
                    \E i \in Nat : Holds(e.day, i, e.id) /\ (e.day \in ended' \/ i < Len(files[e.day].lines))
    BY <1>3 DEF AuditInv, AckedEnded
  <2>2. told.id # Half
    BY <1>1, <1>4 DEF AuditInv, NumbersDrawn
  <2>3. ASSUME ~told.torn, current.named
        PROVE  \E i \in Nat : Holds(told.day, i, told.id) /\ told.day \in ended'
    <3>1. Holds(current.day, Len(files[current.day].lines), logger[t].id)
      BY <1>1, <1>4, <2>3 DEF AuditInv, TextLast
    <3>2. Len(files[current.day].lines) \in Nat
      BY <1>1, <3>1 DEF AuditTypeOK, Holds, HoldsIn, File, Lines
    <3>3. QED
      BY <1>3, <1>4, <2>3, <3>1, <3>2
  <2>4. QED
    BY <1>5, <2>1, <2>2, <2>3 DEF EndLine, AckedEnded, Holds
<1>11. QED
  BY <1>6, <1>7, <1>8, <1>9, <1>10 DEF AuditInv

\* :382: what a removed file held is gone.
LEMMA RemoveFileKeeps ==
  ASSUME AuditInv, NEW d \in Days, RemoveFile(d)
  PROVE  AuditInv'
<1>1. AuditTypeOK
  BY DEF AuditInv
<1>2. /\ files' \in [Days -> {NoFile} \cup File]
      /\ \A e \in Days : e # d => files'[e] = files[e]
      /\ files'[d] = NoFile
  BY <1>1 DEF RemoveFile, AuditTypeOK
<1>3. \A e \in Days : \A i, x : HoldsIn(files', e, i, x) <=> e # d /\ Holds(e, i, x)
  BY <1>2 DEF Holds, HoldsIn
<1>4. /\ current' \in [day : Days, named : BOOLEAN] /\ current'.day = current.day
      /\ current'.named = (current.named /\ current.day # d)
  BY <1>1 DEF RemoveFile, AuditTypeOK
<1>5. ended' = ended \cup {d} /\ acked' = {e \in acked : e.day # d}
  BY DEF RemoveFile
<1>6. AuditTypeOK'
  BY <1>1, <1>2, <1>4, <1>5 DEF RemoveFile, AuditTypeOK
<1>7. OpenThere'
  <2>1. current'.named => files'[current'.day] # NoFile
    BY <1>1, <1>2, <1>4 DEF AuditInv, OpenThere, AuditTypeOK
  <2>2. \A e \in Days : e \notin ended' => files'[e] # NoFile /\ Len(files'[e].lines) >= 1
    BY <1>2, <1>5 DEF AuditInv, OpenThere
  <2>3. QED
    BY <2>1, <2>2 DEF OpenThere
<1>8. NumbersDrawn'
  BY DEF RemoveFile, AuditInv, NumbersDrawn
<1>9. TextLast'
  <2>1. ASSUME NEW t \in Loggers, logger[t].at = "text", ~logger[t].torn, current'.named
        PROVE  HoldsIn(files', current.day, Len(files'[current.day].lines), logger[t].id)
    <3>1. current.day # d /\ current.day \in Days /\ current.named
      BY <1>1, <1>4, <2>1 DEF AuditTypeOK
    <3>2. Holds(current.day, Len(files[current.day].lines), logger[t].id)
      BY <2>1, <3>1 DEF AuditInv, TextLast
    <3>3. QED
      BY <1>2, <1>3, <3>1, <3>2
  <2>2. QED
    BY <1>4, <2>1 DEF RemoveFile, TextLast, Holds
<1>10. AckedEnded'
  <2>1. ASSUME NEW e \in acked, ~e.torn, e.day # d
        PROVE  \E i \in Nat : /\ HoldsIn(files', e.day, i, e.id)
                              /\ e.day \in ended' \/ i < Len(files'[e.day].lines)
    <3>1. e.day \in Days
      BY <1>1, <2>1 DEF AuditTypeOK
    <3>2. PICK i \in Nat : Holds(e.day, i, e.id) /\ (e.day \in ended \/ i < Len(files[e.day].lines))
      BY <2>1, <3>1 DEF AuditInv, AckedEnded
    <3>3. HoldsIn(files', e.day, i, e.id) /\ files'[e.day] = files[e.day]
      BY <1>2, <1>3, <2>1, <3>1, <3>2
    <3>4. QED
      BY <1>5, <3>2, <3>3
  <2>2. QED
    BY <1>5, <2>1 DEF AuditInv, AckedEnded, Holds
<1>11. NumbersApart'
  <2>1. UNCHANGED <<logger, event_counter>>
    BY DEF RemoveFile
  <2>2. \A e \in Days : \A i, x : SeesIn(files', e, i, x) => Sees(e, i, x)
    BY <1>2, <1>3 DEF Sees, SeesIn, Holds
  <2>3. QED
    BY <2>1, <2>2 DEF AuditInv, NumbersApart, Pending, Sees
<1>12. QED
  BY <1>6, <1>7, <1>8, <1>9, <1>10, <1>11 DEF AuditInv

\* new, :103-130: the counter starts from the largest number that is found.
LEMMA RestartKeeps == ASSUME AuditInv, Restart PROVE AuditInv'
<1>1. AuditTypeOK /\ today \in Days
  BY DEF AuditInv, AuditTypeOK
<1>2. /\ files' \in [Days -> {NoFile} \cup File]
      /\ files'[today] # NoFile
      /\ \A e \in Days : files[e] # NoFile => files'[e] = files[e]
      /\ \A e \in Days, i \in Nat, x \in Nat : HoldsIn(files', e, i, x) <=> Holds(e, i, x)
      /\ \A e \in Days, i \in Nat, x \in Nat : SeesIn(files', e, i, x) <=> Sees(e, i, x)
  BY <1>1, OpenedType DEF Restart
<1>3. /\ event_counter' \in Nat
      /\ \A d \in Days, i \in Nat, x \in Nat : Sees(d, i, x) => x <= event_counter'
  BY LastEventIdLargest DEF Restart
<1>4. /\ logger' \in [Loggers -> Logging]
      /\ \A t \in Loggers : logger'[t].at = "idle"
  BY DEF Restart, Ready, Logging
<1>5. /\ current' = [day |-> today, named |-> TRUE]
      /\ UNCHANGED <<today, ended, acked>>
  BY DEF Restart
<1>6. AuditTypeOK'
  BY <1>1, <1>2, <1>3, <1>4, <1>5 DEF AuditTypeOK
<1>7. OpenThere'
  BY <1>2, <1>5 DEF AuditInv, OpenThere
<1>8. NumbersDrawn' /\ TextLast'
  BY <1>4 DEF NumbersDrawn, TextLast
<1>9. NumbersApart'
  <2>1. \A t \in Loggers : ~Pending(t)'
    BY <1>4 DEF Pending
  <2>2. \A d, e \in Days, i, j \in Nat, x \in Nat :
          x # Half /\ Sees(d, i, x) /\ Sees(e, j, x) => d = e /\ i = j
    BY DEF AuditInv, NumbersApart
  <2>3. \A d, e \in Days, i, j \in Nat, x \in Nat :
          x # Half /\ Sees(d, i, x)' /\ Sees(e, j, x)' => d = e /\ i = j
    BY <1>2, <2>2 DEF Sees
  <2>4. \A d \in Days, i \in Nat, x \in Nat : Sees(d, i, x)' => x <= event_counter'
    BY <1>2, <1>3 DEF Sees
  <2>5. QED
    BY <2>1, <2>3, <2>4 DEF NumbersApart
<1>10. AckedEnded'
  <2>1. ASSUME NEW e \in acked, ~e.torn
        PROVE  \E i \in Nat : /\ HoldsIn(files', e.day, i, e.id)
                              /\ e.day \in ended \/ i < Len(files'[e.day].lines)
    <3>1. e.day \in Days /\ e.id \in Nat
      BY <1>1, <2>1 DEF AuditTypeOK
    <3>2. PICK i \in Nat : Holds(e.day, i, e.id) /\ (e.day \in ended \/ i < Len(files[e.day].lines))
      BY <2>1 DEF AuditInv, AckedEnded
    <3>3. files'[e.day] = files[e.day]
      BY <1>2, <3>1, <3>2 DEF Holds, HoldsIn
    <3>4. HoldsIn(files', e.day, i, e.id)
      BY <1>2, <3>1, <3>2
    <3>5. QED
      BY <3>2, <3>3, <3>4
  <2>2. QED
    BY <1>5, <2>1 DEF AuditInv, AckedEnded, Holds
<1>11. QED
  BY <1>6, <1>7, <1>8, <1>9, <1>10 DEF AuditInv

\* A thread that gives up leaves everything else as it is.
LEMMA IdleKeeps ==
  ASSUME AuditInv, NEW t \in Loggers,
         UNCHANGED <<today, files, ended, current, event_counter, acked>>,
         logger' \in [Loggers -> Logging], logger'[t].at = "idle",
         \A u \in Loggers : u # t => logger'[u] = logger[u]
  PROVE  AuditInv'
<1>1. AuditTypeOK' /\ OpenThere' /\ AckedEnded'
  BY DEF AuditInv, AuditTypeOK, OpenThere, AckedEnded, Holds
<1>2. NumbersApart' /\ NumbersDrawn' /\ TextLast'
  BY DEF AuditInv, NumbersApart, NumbersDrawn, TextLast, Pending, Holds, Sees
<1>3. QED
  BY <1>1, <1>2 DEF AuditInv

\* Every step keeps the events apart and in their places.
LEMMA AuditNextKeeps == ASSUME AuditInv, [AuditNext]_auditVars PROVE AuditInv'
<1>1. ASSUME NEW t \in Loggers, DrawId(t) PROVE AuditInv'
  BY <1>1, DrawIdKeeps
<1>2. ASSUME NEW t \in Loggers, RotateIfNeeded(t) PROVE AuditInv'
  BY <1>2, RotateIfNeededKeeps
<1>3. ASSUME NEW t \in Loggers, WriteText(t) PROVE AuditInv'
  <2>1. AuditTypeOK /\ logger[t].id \in Nat /\ logger[t] \in Logging
    BY DEF AuditInv, AuditTypeOK, Logging
  <2> DEFINE torn == current.named /\ current.day \notin ended
             new == [logger[t] EXCEPT !.at = "text", !.torn = torn]
  <2>2. new \in Logging
        /\ new.at = "text" /\ new.id = logger[t].id /\ new.torn = torn
    BY <2>1 DEF Logging
  <2>3. logger' = [logger EXCEPT ![t] = new]
    BY <1>3, <2>1 DEF WriteText, AuditTypeOK
  <2> HIDE DEF new
  <2>4. logger' \in [Loggers -> Logging]
        /\ logger'[t] = new /\ \A u \in Loggers : u # t => logger'[u] = logger[u]
    BY <2>1, <2>2, <2>3 DEF AuditTypeOK
  <2>5. QED
    BY <1>3, <2>1, <2>2, <2>4, WriteKeeps DEF WriteText
<1>4. ASSUME NEW t \in Loggers, WriteFails(t) PROVE AuditInv'
  <2>1. /\ logger' \in [Loggers -> Logging]
        /\ logger'[t].at = "idle"
        /\ \A u \in Loggers : u # t => logger'[u] = logger[u]
    BY <1>4, DoneType DEF WriteFails, AuditInv
  <2>2. CASE UNCHANGED <<files, ended>>
    <3>1. UNCHANGED <<today, files, ended, current, event_counter, acked>>
      BY <1>4, <2>2 DEF WriteFails
    <3>2. QED
      BY <2>1, <3>1, IdleKeeps
  <2>3. ASSUME NEW what \in {Half, Broken}, files' = Written(what),
               ended' = IF current.named THEN ended \ {current.day} ELSE ended
        PROVE  AuditInv'
    <3>1. what \in Int
      BY <2>3 DEF Half, Broken
    <3>2. QED
      BY <1>4, <2>1, <2>3, <3>1, WriteKeeps DEF WriteFails
  <2>4. QED
    BY <1>4, <2>2, <2>3 DEF WriteFails
<1>5. ASSUME NEW t \in Loggers, EndLine(t) PROVE AuditInv'
  BY <1>5, EndLineKeeps
<1>6. ASSUME NEW t \in Loggers, LineEndFails(t) PROVE AuditInv'
  <2>1. /\ logger' \in [Loggers -> Logging]
        /\ logger'[t].at = "idle"
        /\ \A u \in Loggers : u # t => logger'[u] = logger[u]
    BY <1>6, DoneType DEF LineEndFails, AuditInv
  <2>2. UNCHANGED <<today, files, ended, current, event_counter, acked>>
    BY <1>6 DEF LineEndFails
  <2>3. QED
    BY <2>1, <2>2, IdleKeeps
<1>7. ASSUME NEW d \in Days, Condemn(d) PROVE AuditInv'
  BY <1>7 DEF Condemn, AuditInv, AuditTypeOK, OpenThere, NumbersApart, NumbersDrawn, TextLast,
              AckedEnded, Holds, Sees, Pending
<1>8. ASSUME NEW d \in Days, RemoveFile(d) PROVE AuditInv'
  BY <1>8, RemoveFileKeeps
<1>9. CASE Restart
  BY <1>9, RestartKeeps
<1>10. CASE Midnight
  <2>1. today' \in Days
    BY <1>10, AuditAssumption DEF Midnight, AuditInv, AuditTypeOK, Days
  <2>2. QED
    BY <1>10, <2>1 DEF Midnight, AuditInv, AuditTypeOK, OpenThere, NumbersApart, NumbersDrawn,
                       TextLast, AckedEnded, Holds, Sees, Pending
<1>11. CASE UNCHANGED auditVars
  BY <1>11 DEF auditVars, AuditInv, AuditTypeOK, OpenThere, NumbersApart, NumbersDrawn, TextLast,
               AckedEnded, Holds, Sees, Pending
<1>12. QED
  BY <1>1, <1>2, <1>3, <1>4, <1>5, <1>6, <1>7, <1>8, <1>9, <1>10, <1>11 DEF AuditNext

\* log_event and query_logs: an event its caller was told of is found as long as its file
\* keeps its name, unless a part of a line came before it, by every query that does not
\* fail, whatever else fails and wherever the process ends.
THEOREM AuditEventsKept == AuditSpec => []EventsKept
<1>1. AuditInit => AuditInv
  BY AuditInitHolds
<1>2. AuditInv /\ [AuditNext]_auditVars => AuditInv'
  BY AuditNextKeeps
<1>3. ASSUME AuditInv PROVE EventsKept
  <2>1. ASSUME NEW e \in acked, ~e.torn PROVE e.id \in Found
    <3>1. e.id # Half /\ \E i \in Nat : Holds(e.day, i, e.id)
      BY <1>3, <2>1 DEF AuditInv, AckedEnded
    <3>2. e.id \in Nat /\ e.day \in Days /\ AuditTypeOK
      BY <1>3, <2>1 DEF AuditInv, AuditTypeOK
    <3>3. QED
      BY <3>1, <3>2, FoundHolds
  <2>2. QED
    BY <2>1 DEF EventsKept
<1>4. QED
  BY <1>1, <1>2, <1>3, PTL DEF AuditSpec

\* next_event_id and load_last_event_id: of the events that a restart can see, and so of
\* those that a query that does not fail returns, no two have one number, across
\* restarts, days and removals.
THEOREM AuditNumbersUnique == AuditSpec => []NumbersUnique
<1>1. AuditInit => AuditInv
  BY AuditInitHolds
<1>2. AuditInv /\ [AuditNext]_auditVars => AuditInv'
  BY AuditNextKeeps
<1>3. ASSUME AuditInv PROVE NumbersUnique
  <2>1. ASSUME NEW id \in Seen PROVE Cardinality(Occurrences(id)) = 1
    <3>1. AuditTypeOK
      BY <1>3 DEF AuditInv
    <3>2. /\ id # Half /\ id \in Nat
          /\ \E d \in Days, i \in Nat : Sees(d, i, id)
      BY <2>1, <3>1, SeenSees
    <3>3. PICK d \in Days, i \in Nat : Sees(d, i, id)
      BY <3>2
    <3>4. ASSUME NEW e \in Days, NEW j \in Nat, Sees(e, j, id) PROVE e = d /\ j = i
      BY <1>3, <3>2, <3>3, <3>4 DEF AuditInv, NumbersApart
    <3>5. \A e \in Present : /\ e \in Days
                             /\ {j \in Before(e) : files[e].lines[j] = <<id>>} =
                                  {j \in Nat : Sees(e, j, id)}
      <4>1. \A e \in Present : e \in Days /\ files[e] # NoFile /\ files[e] \in File
        BY <3>1 DEF Present, AuditTypeOK
      <4>2. \A e \in Present : LinesOf(e) = 1 .. Len(files[e].lines) /\ LinesOf(e) \subseteq Nat
        BY <4>1 DEF File, Lines, LinesOf
      <4>3. QED
        BY <4>1, <4>2 DEF Before, Sees, SeesIn, HoldsIn
    <3>6. d \in Present
      BY <3>3 DEF Sees, SeesIn, HoldsIn, Present
    <3>7. Occurrences(id) = {<<d, i>>}
      BY <3>3, <3>4, <3>5, <3>6 DEF Occurrences
    <3>8. QED
      BY <3>7, FS_Singleton
  <2>2. QED
    BY <2>1 DEF NumbersUnique
<1>4. QED
  BY <1>1, <1>2, <1>3, PTL DEF AuditSpec

----------------------------------------------------------------------------
(* ThreatIntel.                                                             *)

Seconds == 0 .. ThreatHorizon

\* A check that is under way knows its subject and whether it makes a rule.
Underway(ck) ==
  /\ ck = [at |-> ck.at, subject |-> ck.subject, makesRule |-> ck.makesRule, score |-> ck.score]
  /\ ck.at \in {"cache", "feeds", "store", "rules"}
  /\ ck.subject \in Subjects
  /\ ck.makesRule \in BOOLEAN

Noting(m) == m = [u \in Seconds |-> [s \in Subjects |-> m[u][s]]]

ThreatTypeOK ==
  /\ second \in Seconds
  /\ check = [c \in Checkers |-> check[c]]
  /\ \A c \in Checkers : check[c] # NoCheck => Underway(check[c])
  /\ score_cache = [s \in Subjects |-> score_cache[s]]
  /\ Noting(means)

\* What the feeds say now is noted, and so is what was put into the cache when it was.
SaidNow == \A s \in Subjects : Means(feeds, s) \subseteq means[second][s]

CacheSaid ==
  \A s \in Subjects : score_cache[s] # NoScore =>
    /\ score_cache[s].cached_at \in 0 .. second
    /\ score_cache[s].score \in means[score_cache[s].cached_at][s]

\* A check that has a score to store has it from the feeds as they are, which no update
\* has locked.
StoreHeld ==
  \A c \in Checkers : check[c] # NoCheck /\ check[c].at = "store" =>
    /\ check[c].score \in Means(feeds, check[c].subject)
    /\ ~Writing

ThreatInv == ThreatTypeOK /\ SaidNow /\ CacheSaid /\ StoreHeld /\ AnswersFresh

\* A note adds what some feeds say, and loses nothing.
LEMMA NotedType ==
  ASSUME NEW fs, NEW time \in Seconds, Noting(means)
  PROVE  /\ Noting(Noted(fs, time))
         /\ \A u \in Seconds, s \in Subjects : means[u][s] \subseteq Noted(fs, time)[u][s]
         /\ \A s \in Subjects : Means(fs, s) \subseteq Noted(fs, time)[time][s]
<1> DEFINE row == [s \in Subjects |-> means[time][s] \cup Means(fs, s)]
<1>1. /\ row = [s \in Subjects |-> row[s]]
      /\ \A s \in Subjects : means[time][s] \subseteq row[s] /\ Means(fs, s) \subseteq row[s]
  OBVIOUS
<1>2. Noted(fs, time) = [means EXCEPT ![time] = row]
  BY DEF Noted
<1> HIDE DEF row
<1>3. \A u \in Seconds : Noted(fs, time)[u] = IF u = time THEN row ELSE means[u]
  BY <1>2 DEF Noting
<1>4. DOMAIN Noted(fs, time) = Seconds
  BY <1>2 DEF Noting
<1>5. \A u \in Seconds : means[u] = [s \in Subjects |-> means[u][s]]
  BY DEF Noting
<1>6. Noting(Noted(fs, time))
  <2> DEFINE n == Noted(fs, time)
  <2>1. n = [u \in Seconds |-> n[u]]
    BY <1>2, <1>4 DEF Noting
  <2>2. \A u \in Seconds : n[u] = [s \in Subjects |-> n[u][s]]
    BY <1>1, <1>3, <1>5
  <2> HIDE DEF n
  <2>3. [u \in Seconds |-> n[u]] = [u \in Seconds |-> [s \in Subjects |-> n[u][s]]]
    BY <2>2
  <2>4. n = [u \in Seconds |-> [s \in Subjects |-> n[u][s]]]
    BY <2>1, <2>3
  <2>5. QED
    BY <2>4 DEF Noting, n
<1>7. QED
  BY <1>1, <1>3, <1>6

\* The feeds are empty, and say nothing.
LEMMA ThreatInitHolds == ASSUME ThreatInit PROVE ThreatInv
<1>1. \A s \in Subjects : Means(feeds, s) = {}
  BY DEF ThreatInit, Means, Knowing
<1>2. 0 \in Seconds
  BY ThreatAssumption DEF Seconds
<1>3. ThreatTypeOK
  BY <1>2 DEF ThreatInit, ThreatTypeOK, Noting, Seconds
<1>4. SaidNow /\ CacheSaid /\ StoreHeld /\ AnswersFresh
  BY <1>1 DEF ThreatInit, SaidNow, CacheSaid, StoreHeld, AnswersFresh
<1>5. QED
  BY <1>3, <1>4 DEF ThreatInv

\* A step of the feeds while no check is storing: what they say is noted at once.
LEMMA FeedsKeep ==
  ASSUME ThreatInv, UNCHANGED <<second, score_cache, check>>, answered' = {},
         means' = Noted(feeds', second),
         \A c \in Checkers : check[c] # NoCheck => check[c].at # "store"
  PROVE  ThreatInv'
<1>1. ThreatTypeOK /\ second \in Seconds
  BY DEF ThreatInv, ThreatTypeOK
<1>2. PICK fs : fs = feeds'
  OBVIOUS
<1>3. means' = Noted(fs, second)
  BY <1>2
<1>4. /\ Noting(means')
      /\ \A u \in Seconds, s \in Subjects : means[u][s] \subseteq means'[u][s]
      /\ \A s \in Subjects : Means(fs, s) \subseteq means'[second][s]
  BY <1>1, <1>3, NotedType DEF ThreatTypeOK
<1>5. ThreatTypeOK'
  BY <1>1, <1>4 DEF ThreatTypeOK
<1>6. SaidNow'
  BY <1>2, <1>4 DEF SaidNow
<1>7. CacheSaid'
  <2>1. 0 .. second \subseteq Seconds
    BY <1>1, ThreatAssumption DEF Seconds
  <2>2. QED
    BY <1>4, <2>1 DEF ThreatInv, CacheSaid
<1>8. StoreHeld' /\ AnswersFresh'
  BY DEF StoreHeld, AnswersFresh
<1>9. QED
  BY <1>5, <1>6, <1>7, <1>8 DEF ThreatInv

\* A check concludes with a score that is fresh, or with none.
LEMMA ReturnKeeps ==
  ASSUME ThreatInv, NEW c \in Checkers, check[c] # NoCheck, NEW score, Return(c, score),
         UNCHANGED <<second, feeds, means, update>>,
         score_cache' = [s \in Subjects |-> score_cache'[s]], CacheSaid',
         score # NoScore => \E u \in 0 .. second :
           second - u < CacheTtl /\ score \in means[u][check[c].subject]
  PROVE  ThreatInv'
<1>1. ThreatTypeOK /\ Underway(check[c])
  BY DEF ThreatInv, ThreatTypeOK
<1>2. check' = [check EXCEPT ![c] = Concluded(check[c], score)]
  BY DEF Return
<1>3. Concluded(check[c], score) # NoCheck =>
        Underway(Concluded(check[c], score)) /\ Concluded(check[c], score).at = "rules"
  <2> DEFINE ck == check[c]
             rules == [ck EXCEPT !.at = "rules", !.score = score]
  <2>1. PICK at, subject, makesRule, old :
          ck = [at |-> at, subject |-> subject, makesRule |-> makesRule, score |-> old]
    BY <1>1 DEF Underway
  <2>2. subject \in Subjects /\ makesRule \in BOOLEAN
    BY <1>1, <2>1 DEF Underway
  <2>3. Underway(rules) /\ rules.at = "rules"
    <3>1. PICK old_ck, moved : old_ck = check[c] /\ moved = [old_ck EXCEPT !.at = "rules"]
      OBVIOUS
    <3>2. moved = [at |-> "rules", subject |-> subject, makesRule |-> makesRule, score |-> old]
      BY <2>1, <3>1
    <3>3. rules = [moved EXCEPT !.score = score]
      BY <3>1
    <3>4. rules = [at |-> "rules", subject |-> subject, makesRule |-> makesRule, score |-> score]
      BY <3>2, <3>3
    <3>5. QED
      BY <2>2, <3>4 DEF Underway
  <2>4. QED
    BY <2>3 DEF Concluded
<1>4. /\ check' = [d \in Checkers |-> check'[d]]
      /\ \A d \in Checkers : check'[d] = IF d = c THEN Concluded(check[c], score) ELSE check[d]
  BY <1>1, <1>2 DEF ThreatTypeOK
<1>5. ThreatTypeOK'
  <2>1. \A d \in Checkers : check'[d] # NoCheck => Underway(check'[d])
    BY <1>1, <1>3, <1>4 DEF ThreatTypeOK
  <2>2. QED
    BY <1>1, <1>4, <2>1 DEF ThreatTypeOK
<1>6. StoreHeld'
  BY <1>3, <1>4 DEF ThreatInv, StoreHeld, Writing
<1>7. SaidNow' /\ AnswersFresh'
  BY DEF ThreatInv, SaidNow, AnswersFresh, Return
<1>8. QED
  BY <1>5, <1>6, <1>7 DEF ThreatInv

\* A check begins, moves on or ends without an answer.
LEMMA CheckKeeps ==
  ASSUME ThreatInv, NEW c \in Checkers, NEW ck, check' = [check EXCEPT ![c] = ck],
         ck # NoCheck =>
           /\ Underway(ck)
           /\ ck.at = "store" => ck.score \in Means(feeds, ck.subject) /\ ~Writing,
         UNCHANGED <<second, feeds, score_cache, means, update>>, answered' = {}
  PROVE  ThreatInv'
<1>1. ThreatTypeOK
  BY DEF ThreatInv
<1>2. /\ check' = [d \in Checkers |-> check'[d]]
      /\ \A d \in Checkers : check'[d] = IF d = c THEN ck ELSE check[d]
  BY <1>1 DEF ThreatTypeOK
<1>3. ThreatTypeOK'
  <2>1. \A d \in Checkers : check'[d] # NoCheck => Underway(check'[d])
    BY <1>1, <1>2 DEF ThreatTypeOK
  <2>2. QED
    BY <1>1, <1>2, <2>1 DEF ThreatTypeOK
<1>4. StoreHeld'
  BY <1>2 DEF ThreatInv, StoreHeld, Writing
<1>5. SaidNow' /\ CacheSaid' /\ AnswersFresh'
  BY DEF ThreatInv, SaidNow, CacheSaid, AnswersFresh
<1>6. QED
  BY <1>3, <1>4, <1>5 DEF ThreatInv

\* :184-192: what is in the cache was said when it was put there.
LEMMA ReadCacheKeeps == ASSUME ThreatInv, NEW c \in Checkers, ReadCache(c) PROVE ThreatInv'
<1> DEFINE ck == check[c]
           entry == score_cache[check[c].subject]
<1>1. ThreatTypeOK /\ check[c] # NoCheck /\ Underway(check[c])
  BY DEF ThreatInv, ThreatTypeOK, ReadCache
<1>2. UNCHANGED <<second, feeds, score_cache, means, update>>
  BY DEF ReadCache
<1>3. CASE entry # NoScore /\ Fresh(entry) /\ Return(c, entry.score)
  <2>1. entry.cached_at \in 0 .. second /\ entry.score \in means[entry.cached_at][check[c].subject]
    BY <1>1, <1>3 DEF ThreatInv, CacheSaid, Underway
  <2>2. second - entry.cached_at < CacheTtl
    BY <1>3 DEF Fresh
  <2>3. score_cache' = [s \in Subjects |-> score_cache'[s]] /\ CacheSaid'
    BY <1>1, <1>2 DEF ThreatTypeOK, ThreatInv, CacheSaid
  <2>4. \E u \in 0 .. second :
          second - u < CacheTtl /\ entry.score \in means[u][check[c].subject]
    BY <2>1, <2>2
  <2> HIDE DEF entry
  <2>5. PICK score : score = entry.score
    OBVIOUS
  <2>6. Return(c, score)
    BY <1>3, <2>5
  <2>7. QED
    BY <1>1, <1>2, <2>3, <2>4, <2>5, <2>6, ReturnKeeps
<1>4. CASE check' = [check EXCEPT ![c].at = "feeds"] /\ answered' = {}
  <2>1. PICK at, subject, makesRule, old :
          ck = [at |-> at, subject |-> subject, makesRule |-> makesRule, score |-> old]
    BY <1>1 DEF Underway
  <2>2. subject \in Subjects /\ makesRule \in BOOLEAN
    BY <1>1, <2>1 DEF Underway
  <2>3. PICK new :
          new = [at |-> "feeds", subject |-> subject, makesRule |-> makesRule, score |-> old]
    OBVIOUS
  <2>4. check' = [check EXCEPT ![c] = new]
    <3>1. PICK old_ck : old_ck = check[c]
      OBVIOUS
    <3>2. new = [old_ck EXCEPT !.at = "feeds"]
      BY <2>1, <2>3, <3>1
    <3>3. [check EXCEPT ![c].at = "feeds"] = [check EXCEPT ![c] = [old_ck EXCEPT !.at = "feeds"]]
      BY <1>1, <3>1 DEF ThreatTypeOK
    <3>4. QED
      BY <1>4, <3>2, <3>3
  <2>5. Underway(new) /\ new.at # "store"
    BY <2>2, <2>3 DEF Underway
  <2>6. QED
    BY <1>2, <1>4, <2>4, <2>5, CheckKeeps
<1>5. QED
  BY <1>3, <1>4 DEF ReadCache

\* :194-215: the score is one the feeds give now.
LEMMA ReadFeedsKeeps == ASSUME ThreatInv, NEW c \in Checkers, ReadFeeds(c) PROVE ThreatInv'
<1> DEFINE ck == check[c]
<1>1. ThreatTypeOK /\ check[c] # NoCheck /\ Underway(check[c]) /\ ~Writing
  BY DEF ThreatInv, ThreatTypeOK, ReadFeeds
<1>2. UNCHANGED <<second, feeds, score_cache, means, update>>
  BY DEF ReadFeeds
<1>3. CASE Return(c, NoScore)
  <2>1. score_cache' = [s \in Subjects |-> score_cache'[s]] /\ CacheSaid'
    BY <1>1, <1>2 DEF ThreatTypeOK, ThreatInv, CacheSaid
  <2>2. QED
    BY <1>1, <1>2, <1>3, <2>1, ReturnKeeps
<1>4. ASSUME NEW score \in Means(feeds, check[c].subject), answered' = {},
             check' = [check EXCEPT ![c].at = "store", ![c].score = score]
      PROVE  ThreatInv'
  <2>1. PICK at, subject, makesRule, old :
          ck = [at |-> at, subject |-> subject, makesRule |-> makesRule, score |-> old]
    BY <1>1 DEF Underway
  <2>2. subject \in Subjects /\ makesRule \in BOOLEAN /\ check[c].subject = subject
    BY <1>1, <2>1 DEF Underway
  <2>3. PICK new :
          new = [at |-> "store", subject |-> subject, makesRule |-> makesRule, score |-> score]
    OBVIOUS
  <2>4. check' = [check EXCEPT ![c] = new]
    <3>1. PICK old_ck, moved : old_ck = check[c] /\ moved = [old_ck EXCEPT !.at = "store"]
      OBVIOUS
    <3>2. moved = [at |-> "store", subject |-> subject, makesRule |-> makesRule, score |-> old]
      BY <2>1, <3>1
    <3>3. new = [moved EXCEPT !.score = score]
      BY <2>3, <3>2
    <3>4. [old_ck EXCEPT !.at = "store", !.score = score] = [moved EXCEPT !.score = score]
      BY <3>1
    <3>5. [check EXCEPT ![c].at = "store", ![c].score = score] =
            [check EXCEPT ![c] = [old_ck EXCEPT !.at = "store", !.score = score]]
      BY <1>1, <3>1 DEF ThreatTypeOK
    <3>6. QED
      BY <1>4, <3>3, <3>4, <3>5
  <2>5. Underway(new) /\ new.score = score /\ new.subject = subject
    BY <2>2, <2>3 DEF Underway
  <2>6. QED
    BY <1>1, <1>2, <1>4, <2>2, <2>4, <2>5, CheckKeeps
<1>5. QED
  BY <1>3, <1>4 DEF ReadFeeds

\* :228-238: the feeds still say what goes into the cache.
LEMMA StoreScoreKeeps == ASSUME ThreatInv, NEW c \in Checkers, StoreScore(c) PROVE ThreatInv'
<1>1. ThreatTypeOK /\ check[c] # NoCheck /\ Underway(check[c]) /\ second \in Nat
  BY DEF ThreatInv, ThreatTypeOK, StoreScore, Seconds
<1>2. UNCHANGED <<second, feeds, means, update>>
  BY DEF StoreScore
<1>3. PICK score, subject : score = check[c].score /\ subject = check[c].subject
  OBVIOUS
<1>4. subject \in Subjects /\ score \in means[second][subject]
  BY <1>1, <1>3 DEF ThreatInv, StoreHeld, SaidNow, StoreScore, Underway
<1>5. PICK entry : entry = [score |-> score, cached_at |-> second]
  OBVIOUS
<1>6. score_cache' = [score_cache EXCEPT ![subject] = entry]
  BY <1>3, <1>5 DEF StoreScore
<1>7. score_cache' = [s \in Subjects |-> score_cache'[s]]
      /\ \A s \in Subjects : score_cache'[s] = IF s = subject THEN entry ELSE score_cache[s]
  BY <1>1, <1>6 DEF ThreatTypeOK
<1>8. second \in 0 .. second
  BY <1>1
<1>9. CacheSaid'
  BY <1>2, <1>4, <1>5, <1>7, <1>8 DEF ThreatInv, CacheSaid
<1>10. second - second < CacheTtl
  BY <1>1, ThreatAssumption
<1>11. Return(c, score)
  BY <1>3 DEF StoreScore
<1>12. \E u \in 0 .. second :
         second - u < CacheTtl /\ score \in means[u][check[c].subject]
  BY <1>3, <1>4, <1>8, <1>10
<1>13. QED
  BY <1>1, <1>2, <1>7, <1>9, <1>11, <1>12, ReturnKeeps

\* Time passes: what the feeds say is noted for the next second, and no answer is awaited.
LEMMA ThreatTickKeeps == ASSUME ThreatInv, ThreatTick PROVE ThreatInv'
<1>1. /\ ThreatTypeOK /\ second \in Nat /\ second' = second + 1 /\ second' \in Seconds
      /\ second \in Seconds
  BY ThreatAssumption DEF ThreatInv, ThreatTypeOK, ThreatTick, Seconds
<1>2. PICK next : next = second + 1
  OBVIOUS
<1>3. PICK fs : fs = feeds
  OBVIOUS
<1>4. means' = Noted(fs, next) /\ next \in Seconds
  BY <1>1, <1>2, <1>3 DEF ThreatTick
<1>5. /\ Noting(means')
      /\ \A u \in Seconds, s \in Subjects : means[u][s] \subseteq means'[u][s]
      /\ \A s \in Subjects : Means(fs, s) \subseteq means'[next][s]
  BY <1>1, <1>4, NotedType DEF ThreatTypeOK
<1>6. UNCHANGED <<feeds, score_cache, check, update>> /\ answered' = {}
  BY DEF ThreatTick
<1>7. ThreatTypeOK'
  BY <1>1, <1>5, <1>6 DEF ThreatTypeOK
<1>8. SaidNow'
  BY <1>1, <1>2, <1>3, <1>5, <1>6 DEF SaidNow
<1>9. CacheSaid'
  <2>1. 0 .. second \subseteq Seconds /\ 0 .. second \subseteq 0 .. second'
    BY <1>1, ThreatAssumption DEF Seconds
  <2>2. QED
    BY <1>5, <1>6, <2>1 DEF ThreatInv, CacheSaid
<1>10. StoreHeld' /\ AnswersFresh'
  BY <1>6 DEF ThreatInv, StoreHeld, AnswersFresh, Writing
<1>11. QED
  BY <1>7, <1>8, <1>9, <1>10 DEF ThreatInv

\* Every step keeps the cache and the answers to what the feeds have said.
LEMMA ThreatNextKeeps == ASSUME ThreatInv, [ThreatNext]_threatVars PROVE ThreatInv'
<1>1. CASE UNCHANGED threatVars
  BY <1>1 DEF threatVars, ThreatInv, ThreatTypeOK, SaidNow, CacheSaid, StoreHeld, AnswersFresh,
              Writing
<1>2. ASSUME NEW c \in Checkers, CheckStep(c) PROVE ThreatInv'
  <2>1. CASE MakeRule(c)
    <3>1. PICK ck : ck = NoCheck
      OBVIOUS
    <3>2. check' = [check EXCEPT ![c] = ck] /\ ck = NoCheck
      BY <2>1, <3>1 DEF MakeRule
    <3>3. UNCHANGED <<second, feeds, score_cache, means, update>> /\ answered' = {}
      BY <2>1 DEF MakeRule
    <3>4. QED
      BY <3>2, <3>3, CheckKeeps
  <2>2. QED
    BY <1>2, <2>1, ReadCacheKeeps, ReadFeedsKeeps, StoreScoreKeeps DEF CheckStep
<1>3. ASSUME NEW c \in Checkers, NEW s \in Subjects, NEW r \in BOOLEAN, BeginCheck(c, s, r)
      PROVE  ThreatInv'
  <2>1. PICK ck : ck = [at |-> "cache", subject |-> s, makesRule |-> r, score |-> NoScore]
    OBVIOUS
  <2>2. Underway(ck) /\ ck.at # "store"
    BY <2>1 DEF Underway
  <2>3. /\ check' = [check EXCEPT ![c] = ck] /\ answered' = {}
        /\ UNCHANGED <<second, feeds, score_cache, means, update>>
    BY <1>3, <2>1 DEF BeginCheck
  <2>4. QED
    BY <2>2, <2>3, CheckKeeps
<1>4. ASSUME NEW f \in Feeds, FetchSync(f) \/ JoinFetch(f) PROVE ThreatInv'
  <2>1. Writing
    BY <1>4 DEF FetchSync, JoinFetch, Writing
  <2>2. \A c \in Checkers : check[c] # NoCheck => check[c].at # "store"
    BY <2>1 DEF ThreatInv, StoreHeld
  <2>3. /\ UNCHANGED <<second, score_cache, check>> /\ answered' = {}
        /\ means' = Noted(feeds', second)
    BY <1>4 DEF FetchSync, JoinFetch
  <2>4. QED
    BY <2>2, <2>3, FeedsKeep
<1>5. ASSUME NEW f \in Feeds, FetchAsync(f) PROVE ThreatInv'
  <2>1. Writing
    BY <1>5 DEF FetchAsync, Writing
  <2>2. \A c \in Checkers : check[c] # NoCheck => check[c].at # "store"
    BY <2>1 DEF ThreatInv, StoreHeld
  <2>3. UNCHANGED <<second, feeds, score_cache, check, means>> /\ answered' = {}
    BY <1>5 DEF FetchAsync
  <2>4. QED
    BY <2>2, <2>3 DEF ThreatInv, ThreatTypeOK, SaidNow, CacheSaid, StoreHeld, AnswersFresh
<1>6. ASSUME BeginUpdateAsync \/ \E w \in Writers : BeginUpdate(w) PROVE ThreatInv'
  <2>1. \A c \in Checkers : check[c] # NoCheck => check[c].at # "store"
    BY <1>6 DEF BeginUpdateAsync, BeginUpdate, Granted, FeedsFree, Readers
  <2>2. UNCHANGED <<second, feeds, score_cache, check, means>> /\ answered' = {}
    BY <1>6 DEF BeginUpdateAsync, BeginUpdate, Granted
  <2>3. QED
    BY <2>1, <2>2 DEF ThreatInv, ThreatTypeOK, SaidNow, CacheSaid, StoreHeld, AnswersFresh
<1>7. CASE EndUpdate
  <2>1. UNCHANGED <<second, feeds, score_cache, check, means>> /\ answered' = {}
    BY <1>7 DEF EndUpdate
  <2>2. ~Writing'
    BY <1>7 DEF EndUpdate, Writing, Idle
  <2>3. QED
    BY <2>1, <2>2 DEF ThreatInv, ThreatTypeOK, SaidNow, CacheSaid, StoreHeld, AnswersFresh
<1>8. ASSUME NEW w \in Writers, NEW request, NEW f \in Feeds, NEW content,
             ChangeFeed(w, request, f, content)
      PROVE  ThreatInv'
  <2>1. \A c \in Checkers : check[c] # NoCheck => check[c].at # "store"
    BY <1>8 DEF ChangeFeed, Granted, FeedsFree, Readers
  <2>2. /\ UNCHANGED <<second, score_cache, check>> /\ answered' = {}
        /\ means' = Noted(feeds', second)
    BY <1>8 DEF ChangeFeed, Granted
  <2>3. QED
    BY <2>1, <2>2, FeedsKeep
<1>9. CASE ClearScores
  <2>1. /\ score_cache' = [s \in Subjects |-> NoScore] /\ answered' = {}
        /\ UNCHANGED <<second, feeds, check, means, update>>
    BY <1>9 DEF ClearScores
  <2>2. QED
    BY <2>1 DEF ThreatInv, ThreatTypeOK, SaidNow, CacheSaid, StoreHeld, AnswersFresh, Writing
<1>10. CASE ThreatTick
  BY <1>10, ThreatTickKeeps
<1>11. ASSUME NEW w \in Writers, NEW request, BeginWrite(w, request) PROVE ThreatInv'
  <2>1. UNCHANGED <<second, feeds, score_cache, check, means, update>> /\ answered' = {}
    BY <1>11 DEF BeginWrite
  <2>2. QED
    BY <2>1 DEF ThreatInv, ThreatTypeOK, SaidNow, CacheSaid, StoreHeld, AnswersFresh, Writing
<1>12. ASSUME NEW w \in Writers, WriterStep(w) PROVE ThreatInv'
  <2>1. ASSUME NEW f \in Feeds, AddFeed(w, f) \/ RemoveFeed(w, f) PROVE ThreatInv'
    BY <1>8, <2>1 DEF AddFeed, RemoveFeed
  <2>2. QED
    BY <1>6, <1>11, <1>12, <2>1 DEF WriterStep
<1>13. QED
  BY <1>1, <1>2, <1>3, <1>4, <1>5, <1>6, <1>7, <1>9, <1>10, <1>12
     DEF ThreatNext, SomeFetched, UpdateStep

\* check_ip and check_domain: a score that is answered is one the feeds gave in the last
\* DEFAULT_CACHE_TTL seconds, however checks, updates and removals of feeds fall.
THEOREM ThreatAnswersFresh == ThreatSpec => []AnswersFresh
<1>1. ThreatInit => ThreatInv
  BY ThreatInitHolds
<1>2. ThreatInv /\ [ThreatNext]_threatVars => ThreatInv'
  BY ThreatNextKeeps
<1>3. ThreatInv => AnswersFresh
  BY DEF ThreatInv
<1>4. QED
  BY <1>1, <1>2, <1>3, PTL DEF ThreatSpec
=============================================================================
