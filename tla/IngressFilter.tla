---------------------------- MODULE IngressFilter ----------------------------
(***************************************************************************)
(* IngressFilter (src/engine/ingress_filter.rs): the SYN counter, the      *)
(* limit on connections per IP, the table of connections with their TCP    *)
(* states, and the blocked ranges.                                         *)
(*                                                                         *)
(* A task sends each packet through validate_packet and, when that allows  *)
(* it, through is_connection_allowed.  Every lock taken is a step, with    *)
(* steps of other tasks in between; the two locks that are held together   *)
(* (:239-264) are one step.  Allowed ranges, packet and byte counts and    *)
(* blocked_count are left out: no decision reads them.  Packets are TCP.   *)
(***************************************************************************)
EXTENDS Integers, FiniteSets, FiniteSetsExt

CONSTANTS Tasks, Ips,
          Keys,             \* connection keys
          Source,           \* the src_ip of a key
          BlockRanges,      \* the ranges add_blocked_range is called with
          HostRange,        \* what "{ip}/32" stands for, :348
          Packets,          \* tcp_flags and size ("empty", "fits", "over") of packets
          SynThreshold,     \* 100
          SynWindow,        \* 5 s
          ConnectionLimit,  \* 1000
          Expiry,           \* 300 s
          CleanupInterval,  \* 60 s
          IngressHorizon, MaxPackets, MaxBlocks, MaxRegisters,  \* bounds on the behaviours
          NoConnection, NoStats, NoPacket

ASSUME IngressAssumption ==
  /\ IsFiniteSet(Tasks) /\ IsFiniteSet(Keys)
  /\ Source \in [Keys -> Ips]
  /\ SynThreshold \in Nat /\ SynWindow \in Nat \ {0} /\ ConnectionLimit \in Nat \ {0}
  /\ IngressHorizon \in Nat
  /\ NoStats \notin [connection_count : Nat, syn_count : Nat, syn_window_start : Nat]
  /\ \A k \in Keys, p \in Packets : NoPacket # [key |-> k, flags |-> p.flags, size |-> p.size]

VARIABLES clock,
          connections,  \* NoConnection for a key not in the table
          ip_stats,     \* NoStats for an IP never seen
          blocked_ips,
          last_cleanup,
          stage,        \* where the packet of a task is
          packet,       \* [key, flags, size] or NoPacket
          packets,      \* packets so far
          synPassed,    \* history: SYNs let through for an IP before a time
          beside        \* history: calls for an IP that part the count from the table

tables == <<connections, ip_stats>>
history == <<packets, synPassed, beside>>
ingressVars == <<clock, tables, blocked_ips, last_cleanup, stage, packet, history>>

\* CloseWait and LastAck are never entered: the table sees one side only.
TcpStates == {"SynSent", "SynReceived", "Established", "FinWait1", "FinWait2", "Closing",
              "TimeWait", "Closed"}

(* "syn", "limit", "cleanup", "sweep" in validate_packet,                   *)
(* "reputation", "look", "admit", "update" in is_connection_allowed         *)
Stages == {"idle", "syn", "limit", "cleanup", "sweep", "reputation", "look", "admit", "update"}

IngressInit ==
  /\ clock = 0
  /\ connections = [k \in Keys |-> NoConnection]
  /\ ip_stats = [ip \in Ips |-> NoStats]
  /\ blocked_ips = {}
  /\ last_cleanup = 0
  /\ stage = [t \in Tasks |-> "idle"]
  /\ packet = [t \in Tasks |-> NoPacket]
  /\ packets = 0
  /\ synPassed = [ip \in Ips |-> [u \in 0 .. IngressHorizon + 1 |-> 0]]
  /\ beside = [ip \in Ips |-> 0]

----------------------------------------------------------------------------
Advance(t, next) == stage' = [stage EXCEPT ![t] = next] /\ UNCHANGED packet

\* The packet is dropped, or handled to the end.
Finish(t) ==
  /\ stage' = [stage EXCEPT ![t] = "idle"]
  /\ packet' = [packet EXCEPT ![t] = NoPacket]

SourceOf(t) == Source[packet[t].key]

\* PerIpStats::new, :87-97, and entry(ip).or_insert_with.
StatsOf(ip) ==
  IF ip_stats[ip] = NoStats
  THEN [connection_count |-> 0, syn_count |-> 0, syn_window_start |-> clock]
  ELSE ip_stats[ip]

ConnCount(ip) == StatsOf(ip).connection_count

\* tcp_flags_are_valid, :375-389.
FlagsValid(flags) ==
  /\ flags # {}
  /\ ~{"fin", "rst"} \subseteq flags
  /\ "syn" \in flags => flags \cap {"ack", "rst", "fin"} = {}

\* transition_tcp_state, :391-413.
Transition(current, flags) ==
  LET syn == "syn" \in flags
      ack == "ack" \in flags
      fin == "fin" \in flags
      moves == {m \in {<<"SynSent", syn /\ ack, "SynReceived">>,
                       <<"SynReceived", ack /\ ~syn /\ ~fin, "Established">>,
                       <<"SynSent", ack /\ ~syn, "Established">>,
                       <<"Established", fin /\ ack, "FinWait1">>,
                       <<"FinWait1", fin /\ ack, "Closing">>,
                       <<"FinWait1", ack /\ ~fin, "FinWait2">>,
                       <<"FinWait2", fin, "TimeWait">>,
                       <<"Closing", ack /\ ~fin, "TimeWait">>} : m[1] = current /\ m[2]}
  IN  IF "rst" \in flags THEN "Closed"
      ELSE IF moves = {} THEN current ELSE (CHOOSE m \in moves : TRUE)[3]

\* :241-258, :292-309.
Opened(flags) ==
  [tcp_state |-> IF "syn" \in flags THEN "SynSent" ELSE "Established", last_seen |-> clock]

----------------------------------------------------------------------------
(* validate_packet, :150-199.                                               *)

\* A packet arrives; one that is too large goes no further, :151-153.
Arrive(t, k, p) ==
  /\ stage[t] = "idle" /\ packets < MaxPackets
  /\ packets' = packets + 1
  /\ \/ p.size = "over" /\ UNCHANGED <<stage, packet>>
     \/ /\ p.size # "over"
        /\ stage' = [stage EXCEPT ![t] = "syn"]
        /\ packet' = [packet EXCEPT ![t] = [key |-> k, flags |-> p.flags, size |-> p.size]]
  /\ UNCHANGED <<clock, tables, blocked_ips, last_cleanup, synPassed, beside>>

WindowOver(s) == clock - s.syn_window_start >= SynWindow

\* Faulty variant: the comparison with the window is the wrong way round.
SynCountedInverted(s) ==
  [s EXCEPT !.syn_count = IF WindowOver(s) THEN @ + 1 ELSE 1,
            !.syn_window_start = IF WindowOver(s) THEN @ ELSE clock]

\* :162-167.
SynCounted(s) ==
  [s EXCEPT !.syn_count = IF WindowOver(s) THEN 1 ELSE @ + 1,
            !.syn_window_start = IF WindowOver(s) THEN clock ELSE @]

\* One more, from now on.
NoteSyn(ip) ==
  synPassed' = [synPassed EXCEPT ![ip] = [u \in DOMAIN @ |-> IF u > clock THEN @[u] + 1 ELSE @[u]]]

\* :155-182; only a SYN that carries nothing is counted.
CountSyn(t) ==
  /\ stage[t] = "syn"
  /\ LET ip == SourceOf(t)
         flags == packet[t].flags
         counted == packet[t].size = "empty" /\ "syn" \in flags /\ "ack" \notin flags
         stats == SynCounted(StatsOf(ip))
         passes == FlagsValid(flags) /\ (counted => stats.syn_count <= SynThreshold)
     IN  /\ ip_stats' = IF counted THEN [ip_stats EXCEPT ![ip] = stats] ELSE ip_stats
         /\ IF counted /\ passes THEN NoteSyn(ip) ELSE UNCHANGED synPassed
         /\ IF passes THEN Advance(t, "limit") ELSE Finish(t)
  /\ UNCHANGED <<clock, connections, blocked_ips, last_cleanup, packets, beside>>

\* Faulty variant: an IP at the limit may open one more.
CheckLimitLate(t) ==
  /\ stage[t] = "limit"
  /\ IF ConnCount(SourceOf(t)) > ConnectionLimit THEN Finish(t) ELSE Advance(t, "cleanup")
  /\ UNCHANGED <<clock, tables, blocked_ips, last_cleanup, history>>

\* :184-194.
CheckLimit(t) ==
  /\ stage[t] = "limit"
  /\ IF ConnCount(SourceOf(t)) >= ConnectionLimit THEN Finish(t) ELSE Advance(t, "cleanup")
  /\ UNCHANGED <<clock, tables, blocked_ips, last_cleanup, history>>

\* :415-421.
MaybeCleanup(t) ==
  /\ stage[t] = "cleanup"
  /\ \/ clock - last_cleanup < CleanupInterval
        /\ Advance(t, "reputation") /\ UNCHANGED last_cleanup
     \/ clock - last_cleanup >= CleanupInterval
        /\ Advance(t, "sweep") /\ last_cleanup' = clock
  /\ UNCHANGED <<clock, tables, blocked_ips, history>>

\* :423-432; the counts of the IPs are left as they are.
Sweep(t) ==
  /\ stage[t] = "sweep"
  /\ connections' = [k \in Keys |->
       IF connections[k] # NoConnection /\ clock - connections[k].last_seen >= Expiry
       THEN NoConnection ELSE connections[k]]
  /\ Advance(t, "reputation")
  /\ UNCHANGED <<clock, ip_stats, blocked_ips, last_cleanup, history>>

----------------------------------------------------------------------------
(* is_connection_allowed, :219-279.                                         *)

\* :201-223.
CheckReputation(t) ==
  /\ stage[t] = "reputation"
  /\ IF \E range \in blocked_ips : SourceOf(t) \in range THEN Finish(t) ELSE Advance(t, "look")
  /\ UNCHANGED <<clock, tables, blocked_ips, last_cleanup, history>>

\* :233-236.
LookUp(t) ==
  /\ stage[t] = "look"
  /\ Advance(t, IF connections[packet[t].key] = NoConnection THEN "admit" ELSE "update")
  /\ UNCHANGED <<clock, tables, blocked_ips, last_cleanup, history>>

Insert(k, flags) ==
  connections' = [connections EXCEPT ![k] = IF @ = NoConnection THEN Opened(flags) ELSE @]

\* :239-264; counted also when another task has inserted the key meanwhile.
Admit(t) ==
  /\ stage[t] = "admit"
  /\ Insert(packet[t].key, packet[t].flags)
  /\ LET ip == SourceOf(t)
     IN  ip_stats' = [ip_stats EXCEPT ![ip] =
                        [StatsOf(ip) EXCEPT !.connection_count = @ + 1]]
  /\ Finish(t)
  /\ UNCHANGED <<clock, blocked_ips, last_cleanup, history>>

\* :266-275; a key that has gone meanwhile is not put back.
Update(t) ==
  /\ stage[t] = "update"
  /\ LET k == packet[t].key
     IN  connections' = [connections EXCEPT ![k] =
           IF @ = NoConnection THEN @
           ELSE [tcp_state |-> Transition(@.tcp_state, packet[t].flags), last_seen |-> clock]]
  /\ Finish(t)
  /\ UNCHANGED <<clock, ip_stats, blocked_ips, last_cleanup, history>>

----------------------------------------------------------------------------
(* The other operations, each in one critical section.                      *)

\* :281-311; the count is not told.
RegisterConnection(k, flags) ==
  /\ connections[k] = NoConnection
  /\ beside[Source[k]] < MaxRegisters
  /\ Insert(k, flags)
  /\ beside' = [beside EXCEPT ![Source[k]] = @ + 1]
  /\ UNCHANGED <<clock, ip_stats, blocked_ips, last_cleanup, stage, packet, packets, synPassed>>

\* The count never falls below 0.
Lowered(stats) ==
  IF stats = NoStats THEN stats ELSE [stats EXCEPT !.connection_count = Max({@ - 1, 0})]

\* :313-329; the count falls for a key that is not there as well.
RemoveConnection(k) ==
  /\ connections[k] # NoConnection \/ beside[Source[k]] < MaxRegisters
  /\ connections' = [connections EXCEPT ![k] = NoConnection]
  /\ LET ip == Source[k]
     IN  /\ ip_stats' = [ip_stats EXCEPT ![ip] = Lowered(@)]
         /\ beside' = IF connections[k] = NoConnection
                      THEN [beside EXCEPT ![ip] = @ + 1] ELSE beside
  /\ UNCHANGED <<clock, blocked_ips, last_cleanup, stage, packet, packets, synPassed>>

\* add_blocked_range, :331-337, and block_ip, :347-355.
BlockRange(range) ==
  /\ range \notin blocked_ips /\ Cardinality(blocked_ips) < MaxBlocks
  /\ blocked_ips' = blocked_ips \cup {range}
  /\ UNCHANGED <<clock, tables, last_cleanup, stage, packet, history>>

\* :357-364.
UnblockIp(ip) ==
  /\ \E range \in blocked_ips : ip \in range
  /\ blocked_ips' = {range \in blocked_ips : ip \notin range}
  /\ UNCHANGED <<clock, tables, last_cleanup, stage, packet, history>>

IngressTick ==
  /\ clock < IngressHorizon
  /\ clock' = clock + 1
  /\ UNCHANGED <<tables, blocked_ips, last_cleanup, stage, packet, history>>

PacketStep(t) ==
  \/ \E k \in Keys, p \in Packets : Arrive(t, k, p)
  \/ CountSyn(t) \/ CheckLimit(t) \/ MaybeCleanup(t) \/ Sweep(t)
  \/ CheckReputation(t) \/ LookUp(t) \/ Admit(t) \/ Update(t)

IngressNext ==
  \/ \E t \in Tasks : PacketStep(t)
  \/ \E k \in Keys : RemoveConnection(k) \/ \E p \in Packets : RegisterConnection(k, p.flags)
  \/ \E range \in BlockRanges : BlockRange(range)
  \/ \E ip \in Ips : BlockRange(HostRange[ip]) \/ UnblockIp(ip)
  \/ IngressTick

----------------------------------------------------------------------------
(* Properties.                                                              *)

\* However the packets fall on the fixed windows, no stretch of time as long as
\* a window lets more SYNs of one IP through than two windows may hold.
SynBudget ==
  \A ip \in Ips, s, e \in 0 .. IngressHorizon + 1 :
    s <= e /\ e <= s + SynWindow => synPassed[ip][e] - synPassed[ip][s] <= 2 * SynThreshold

IngressSpec == IngressInit /\ [][IngressNext]_ingressVars

Live(ip) == {k \in Keys : Source[k] = ip /\ connections[k] # NoConnection}

\* The tasks that passed the limit and have not been counted yet.
Admitted(ip) == {t \in Tasks : packet[t] # NoPacket /\ SourceOf(t) = ip
                                 /\ stage[t] \notin {"syn", "limit", "update"}}

\* The limit reads a count and not the table, at :188, and the count is raised at
\* :263 with no lock over both.  An IP overshoots the limit by at most the other
\* packets under way, and the count never falls behind the table by more than the
\* calls that bypass it: a registration, and the removal of a key not there.
TableWithinLimit ==
  \A ip \in Ips :
    /\ ConnCount(ip) + Cardinality(Admitted(ip)) < ConnectionLimit + Cardinality(Tasks)
    /\ Cardinality(Live(ip)) <= ConnCount(ip) + beside[ip]
=============================================================================
