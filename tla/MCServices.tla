------------------------------ MODULE MCServices ------------------------------
(***************************************************************************)
(* A finite instance of the services that share nothing with one another:  *)
(* each is explored by itself, from one of the initial states.             *)
(***************************************************************************)
EXTENDS QuicHandler, ThreatIntel, SecretManager, AuditLogger

CONSTANTS k1, k2, v1, v2, s1, d1, p1, n1, n2, f1, l1, l2

VARIABLE part   \* the component whose steps are explored

\* An address and a domain with a parent; a document says nothing of them, or gives
\* the domain two scores, of which the larger is cut to 100.
MCParent == (s1 :> NoEntry) @@ (d1 :> p1)
MCUrlScheme == (f1 :> "file")
Line(entry, score) == [entry |-> entry, score |-> score]
MCDocuments ==
  {<<>>, <<Line(s1, 40), Line(p1, Unparsed), Line(d1, 120)>>, <<Line(s1, 40), Line(s1, 75)>>}

servicesVars == <<part, quicVars, threatVars, secretVars, auditVars>>

ServicesInit ==
  /\ part \in {"quic", "threat", "secrets", "audit"}
  /\ QuicInit /\ ThreatInit /\ SecretInit /\ AuditInit

ServicesNext ==
  /\ UNCHANGED part
  /\ \/ part = "quic" /\ QuicNext /\ UNCHANGED <<threatVars, secretVars, auditVars>>
     \/ part = "threat" /\ ThreatNext /\ UNCHANGED <<quicVars, secretVars, auditVars>>
     \/ part = "secrets" /\ SecretNext /\ UNCHANGED <<quicVars, threatVars, auditVars>>
     \/ part = "audit" /\ AuditNext /\ UNCHANGED <<quicVars, threatVars, secretVars>>

\* No fair action is enabled in the initial state of a component, where the
\* components that are not explored stay.
ServicesSpec ==
  ServicesInit /\ [][ServicesNext]_servicesVars
  /\ QuicFairness /\ ThreatFairness /\ SecretFairness
=============================================================================
