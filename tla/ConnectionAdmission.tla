------------------------- MODULE ConnectionAdmission -------------------------
(***************************************************************************)
(* What the connection tracker promises its callers: at any time a set of  *)
(* at most MaxConnections admitted connections, each admitted and released *)
(* one at a time.  How the counter, the map and the lock bring this about  *)
(* is ConnectionTracker's affair.                                          *)
(***************************************************************************)
EXTENDS Naturals, FiniteSets

CONSTANTS Tuples,           \* the 5-tuples a connection can have
          MaxConnections    \* config.server.max_connections

VARIABLE admitted

Init == admitted = {}

Admit(c) ==
  /\ c \notin admitted
  /\ Cardinality(admitted) < MaxConnections
  /\ admitted' = admitted \cup {c}

Release(c) ==
  /\ c \in admitted
  /\ admitted' = admitted \ {c}

Next == \E c \in Tuples : Admit(c) \/ Release(c)

Spec == Init /\ [][Next]_admitted
=============================================================================
