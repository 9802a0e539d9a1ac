--------------------------- MODULE DpPortsProofs ---------------------------
(***************************************************************************)
(* Ports are found by their number, live as configured and counted with    *)
(* their queues, for any size of the array of ports, any devices, any      *)
(* port-mods and any number of queues.                                     *)
(***************************************************************************)
EXTENDS DpPorts, FiniteSetTheorems, TLAPS

\* A leaf is for SMT alone; those that it does not find name Zenon.
USE SMTT(30)

\* How many ports have a number.
Numbered == IF LOCAL_PORT \in ports THEN ports_num - 1 ELSE ports_num

\* The numbers in use are the first ones, and the local port comes last.
NoGap ==
    /\ Numbered \in 0 .. DP_MAX_PORTS - 1
    /\ ports \ {LOCAL_PORT} = 1 .. Numbered
    /\ Starting => LOCAL_PORT \notin ports

\* A place that no port has taken is as it was at the start.
FreshUntouched == \A p \in PortNos \ ports : p \notin link_down /\ conf[p] = {}

QueuesCounted == \A p \in PortNos : num_queues[p] = Cardinality(queues[p])

PInv == PortsTypeOK /\ NoGap /\ FreshUntouched /\ LiveAgrees /\ QueuesCounted

\* A number is found by dp_ports_lookup when it is one of the first.
LEMMA LookupByCount ==
    ASSUME PortsTypeOK, NoGap
    PROVE  LookupFindsPorts
<1>1. ASSUME NEW p \in PortNos \cup {DP_MAX_PORTS} PROVE dp_ports_lookup(p) <=> p \in ports
  <2>1. CASE p = LOCAL_PORT
    BY <2>1, PortsAssumption DEF dp_ports_lookup, NoGap, Numbered, PortsTypeOK
  <2>2. CASE p # LOCAL_PORT
    BY <2>2, PortsAssumption DEF dp_ports_lookup, NoGap, Numbered, PortsTypeOK, PortNos, Numbers
  <2> QED BY <2>1, <2>2
<1> QED BY <1>1 DEF LookupFindsPorts

\* The queues of a port are finitely many.
LEMMA QueuesFinite ==
    ASSUME PortsTypeOK, NEW p \in PortNos
    PROVE  IsFiniteSet(queues[p]) /\ Cardinality(queues[p]) \in Nat
<1>1. IsFiniteSet(QueueIds)
  BY FS_Interval, PortsAssumption DEF QueueIds
<1>2. queues[p] \subseteq QueueIds
  BY DEF PortsTypeOK
<1>3. IsFiniteSet(queues[p])
  BY <1>1, <1>2, FS_Subset
<1> QED BY <1>3, FS_CardinalityType

LEMMA InitPInv == PortsInit => PInv
<1> SUFFICES ASSUME PortsInit PROVE PInv
  OBVIOUS
<1>1. PortsTypeOK
  BY PortsAssumption DEF PortsInit, PortsTypeOK
<1>2. NoGap
  BY PortsAssumption DEF PortsInit, NoGap, Numbered
<1>3. FreshUntouched /\ LiveAgrees
  BY DEF PortsInit, FreshUntouched, LiveAgrees
<1>4. QueuesCounted
  BY FS_EmptySet DEF PortsInit, QueuesCounted
<1> QED BY <1>1, <1>2, <1>3, <1>4 DEF PInv

\* Before the local port is added, the ports are the numbers up to their count.
LEMMA BeforeLocal ==
    ASSUME NoGap, LOCAL_PORT \notin ports
    PROVE  ports_num \in Nat /\ ports_num <= DP_MAX_PORTS - 1 /\ ports = 1 .. ports_num
<1>1. Numbered = ports_num /\ ports \ {LOCAL_PORT} = ports
  BY DEF Numbered
<1>2. ports_num \in 0 .. DP_MAX_PORTS - 1 /\ ports = 1 .. ports_num
  BY ZenonT(60), <1>1 DEF NoGap
<1>3. DP_MAX_PORTS \in Nat
  BY PortsAssumption
<1> QED BY <1>2, <1>3

\* A device takes the first number that is free, the local port none: there is
\* no gap, whichever devices could not be opened.
LEMMA NewPortPInv ==
    ASSUME PInv, NEW p \in PortNos, p \notin ports, LOCAL_PORT \notin ports,
           \/ p = LOCAL_PORT /\ phase' = "running"
           \/ p \in Numbers /\ (\A q \in Numbers \ ports : p <= q) /\ phase' = phase,
           new_port(p), waiting' \subseteq waiting
    PROVE  PInv'
<1> USE DEF PInv, new_port
<1>0. ports_num \in Nat /\ ports_num <= DP_MAX_PORTS - 1 /\ ports = 1 .. ports_num
  BY BeforeLocal
<1>1. CASE p = LOCAL_PORT
  <2>1. ports' = (1 .. ports_num) \cup {LOCAL_PORT} /\ ports_num' = ports_num + 1
    BY <1>0, <1>1
  <2>2. NoGap'
    BY <1>0, <1>1, <2>1, PortsAssumption DEF NoGap, Numbered, Starting, Numbers
  <2>3. PortsTypeOK'
    BY <1>0, <2>1, PortsAssumption DEF PortsTypeOK
  <2> QED BY <1>1, <2>2, <2>3 DEF FreshUntouched, LiveAgrees, QueuesCounted
<1>2. CASE p # LOCAL_PORT
  <2>1. p = ports_num + 1 /\ p \in Numbers
    BY <1>0, <1>2, PortsAssumption DEF Numbers
  <2>2. ports' = 1 .. ports_num + 1 /\ ports_num' = ports_num + 1 /\ LOCAL_PORT \notin ports'
    BY <1>0, <2>1, <1>2
  <2>3. NoGap'
    BY <1>0, <2>1, <2>2, PortsAssumption DEF NoGap, Numbered, Numbers, Starting
  <2>4. PortsTypeOK'
    BY <1>0, <2>1, <2>2, PortsAssumption DEF PortsTypeOK, Numbers
  <2> QED BY <2>3, <2>4 DEF FreshUntouched, LiveAgrees, QueuesCounted
<1> QED BY <1>1, <1>2

\* The flag OFPPS_LIVE follows the link and the configuration of a port.
LEMMA LiveUpdatePInv ==
    ASSUME PInv, NEW p \in ports, NEW flags \in SUBSET Flags, NEW down \in SUBSET PortNos,
           down \in {link_down, link_down \cup {p}, link_down \ {p}},
           conf' = [conf EXCEPT ![p] = flags], link_down' = down,
           live' = dp_port_live_update(p, flags, down),
           UNCHANGED <<openedVars, link, queueVars>>
    PROVE  PInv'
<1> USE DEF PInv
<1>1. p \in PortNos
  BY DEF PortsTypeOK
<1>2. PortsTypeOK'
  BY <1>1 DEF PortsTypeOK, dp_port_live_update, openedVars, queueVars
<1>3. NoGap' /\ QueuesCounted'
  BY DEF NoGap, Numbered, Starting, QueuesCounted, openedVars, queueVars
<1>4. FreshUntouched'
  BY DEF FreshUntouched, openedVars, PortsTypeOK
<1>5. LiveAgrees'
  BY <1>1 DEF LiveAgrees, dp_port_live_update, openedVars, PortsTypeOK
<1> QED BY <1>2, <1>3, <1>4, <1>5

\* Queues come and go one by one, and are counted.
LEMMA QueuePInv ==
    ASSUME PInv, NEW p \in PortNos, NEW q \in QueueIds,
           \/ q \notin queues[p] /\ port_add_queue(p, q)
           \/ q \in queues[p] /\ port_delete_queue(p, q),
           UNCHANGED <<openedVars, stateVars, link>>
    PROVE  PInv'
<1> USE DEF PInv
<1>1. IsFiniteSet(queues[p]) /\ Cardinality(queues[p]) \in Nat
  BY QueuesFinite
<1>2. /\ queues' \in [PortNos -> SUBSET QueueIds]
      /\ \A o \in PortNos \ {p} : queues'[o] = queues[o] /\ num_queues'[o] = num_queues[o]
      /\ DOMAIN num_queues' = PortNos
      /\ num_queues' = [o \in PortNos |-> num_queues'[o]]
  BY DEF PortsTypeOK, port_add_queue, port_delete_queue
<1>3. num_queues'[p] = Cardinality(queues'[p])
  <2>1. CASE q \notin queues[p] /\ port_add_queue(p, q)
    <3>1. queues'[p] = queues[p] \cup {q} /\ num_queues'[p] = num_queues[p] + 1
      BY <2>1 DEF port_add_queue, PortsTypeOK
    <3>2. Cardinality(queues[p] \cup {q}) = Cardinality(queues[p]) + 1
      BY ZenonT(60), <1>1, <2>1, FS_AddElement
    <3> QED BY <3>1, <3>2 DEF QueuesCounted
  <2>2. CASE q \in queues[p] /\ port_delete_queue(p, q)
    <3>1. queues'[p] = queues[p] \ {q} /\ num_queues'[p] = num_queues[p] - 1
      BY <2>2 DEF port_delete_queue, PortsTypeOK
    <3>2. Cardinality(queues[p] \ {q}) = Cardinality(queues[p]) - 1
      BY ZenonT(60), <1>1, <2>2, FS_RemoveElement
    <3> QED BY <3>1, <3>2 DEF QueuesCounted
  <2> QED BY <2>1, <2>2
<1>4. QueuesCounted'
  BY <1>2, <1>3 DEF QueuesCounted
<1>5. num_queues' \in [PortNos -> Nat]
  <2>1. IsFiniteSet(QueueIds)
    BY FS_Interval, PortsAssumption DEF QueueIds
  <2>2. IsFiniteSet(queues'[p])
    BY <1>2, <2>1, FS_Subset
  <2>3. num_queues'[p] \in Nat
    BY <2>2, <1>3, FS_CardinalityType
  <2> QED BY <1>2, <2>3 DEF PortsTypeOK
<1>6. PortsTypeOK'
  BY <1>2, <1>5 DEF PortsTypeOK, openedVars, stateVars
<1> QED
  BY <1>4, <1>6 DEF NoGap, Numbered, Starting, FreshUntouched, LiveAgrees, openedVars, stateVars

LEMMA StepPInv == PInv /\ [PortsNext]_portsVars => PInv'
<1> SUFFICES ASSUME PInv, [PortsNext]_portsVars PROVE PInv'
  OBVIOUS
<1>1. LookupFindsPorts
  BY LookupByCount DEF PInv
<1>2. ASSUME NEW name \in Names, dp_ports_add(name) PROVE PInv'
  <2>1. CASE UNCHANGED <<ports, ports_num, stateVars, link, queueVars>>
    BY <1>2, <2>1 DEF dp_ports_add, PInv, PortsTypeOK, NoGap, Numbered, Starting, FreshUntouched,
                      LiveAgrees, QueuesCounted, stateVars, queueVars
  <2>2. CASE /\ Numbers \ ports # {}
             /\ new_port(CHOOSE p \in Numbers \ ports : \A q \in Numbers \ ports : p <= q)
    <3> DEFINE p == CHOOSE p \in Numbers \ ports : \A q \in Numbers \ ports : p <= q
    <3>1. LOCAL_PORT \notin ports /\ ports = 1 .. ports_num /\ ports_num \in Nat
      BY <1>2, BeforeLocal DEF dp_ports_add, NoGap, PInv
    <3>2. \E n \in Numbers \ ports : \A q \in Numbers \ ports : n <= q
      <4>1. ports_num + 1 \in Numbers \ ports
        BY <3>1, <2>2, PortsAssumption DEF Numbers
      <4>2. \A q \in Numbers \ ports : ports_num + 1 <= q
        BY <3>1, PortsAssumption DEF Numbers
      <4> QED BY <4>1, <4>2
    <3>3. p \in Numbers \ ports /\ \A q \in Numbers \ ports : p <= q
      BY <3>2
    <3>4. waiting' \subseteq waiting /\ phase' = phase
      BY <1>2 DEF dp_ports_add
    <3> QED BY <2>2, <3>1, <3>3, <3>4, NewPortPInv DEF PortNos
  <2> QED BY <1>2, <2>1, <2>2 DEF dp_ports_add
<1>3. CASE dp_ports_add_local
  <2>1. LOCAL_PORT \notin ports /\ phase' = "running" /\ waiting' = waiting
    BY <1>3 DEF dp_ports_add_local, PInv, NoGap
  <2>2. CASE new_port(LOCAL_PORT)
    BY <2>1, <2>2, NewPortPInv DEF PortNos
  <2>3. CASE UNCHANGED <<ports, ports_num, stateVars, link, queueVars>>
    BY <2>1, <2>3 DEF PInv, PortsTypeOK, NoGap, Numbered, Starting, FreshUntouched,
                      LiveAgrees, QueuesCounted, stateVars, queueVars
  <2> QED BY <1>3, <2>2, <2>3 DEF dp_ports_add_local
<1>4. ASSUME NEW p \in PortNos, LinkChanges(p) PROVE PInv'
  BY <1>4 DEF LinkChanges, PInv, PortsTypeOK, NoGap, Numbered, Starting, FreshUntouched, LiveAgrees,
              QueuesCounted, openedVars, stateVars, queueVars
<1>5. ASSUME NEW p \in PortNos, dp_ports_run(p) PROVE PInv'
  <2>1. /\ link_down' \in SUBSET PortNos
        /\ link_down' \in {link_down, link_down \cup {p}, link_down \ {p}}
        /\ conf' = [conf EXCEPT ![p] = conf[p]] /\ conf[p] \in SUBSET Flags
        /\ p \in ports /\ live' = dp_port_live_update(p, conf[p], link_down')
        /\ UNCHANGED <<openedVars, link, queueVars>>
    BY <1>5 DEF dp_ports_run, PInv, PortsTypeOK
  <2> QED BY ZenonT(60), <2>1, LiveUpdatePInv
<1>6. ASSUME NEW p \in PortNos, NEW m \in PortMods, dp_ports_handle_port_mod(p, m[1], m[2])
      PROVE  PInv'
  <2>1. p \in ports
    BY <1>1, <1>6 DEF dp_ports_handle_port_mod, LookupFindsPorts
  <2>2. /\ conf' = [conf EXCEPT ![p] = (conf[p] \ m[1]) \cup (m[2] \cap m[1])]
        /\ UNCHANGED <<openedVars, link, link_down, queueVars>>
    BY <1>6 DEF dp_ports_handle_port_mod
  <2>3. (conf[p] \ m[1]) \cup (m[2] \cap m[1]) \in SUBSET Flags
    BY PortsAssumption DEF PInv, PortsTypeOK
  <2>4. CASE m[1] = {}
    <3>1. live' = live
      BY <1>6, <2>4 DEF dp_ports_handle_port_mod
    <3>2. (conf[p] \ m[1]) \cup (m[2] \cap m[1]) = conf[p]
      BY <2>4
    <3>3. conf' = conf
      BY <2>2, <3>2 DEF PInv, PortsTypeOK
    <3> QED BY <2>2, <3>1, <3>3 DEF PInv, PortsTypeOK, NoGap, Numbered, Starting, FreshUntouched,
                                     LiveAgrees, QueuesCounted, openedVars, queueVars
  <2>5. CASE m[1] # {}
    <3>1. live' = dp_port_live_update(p, (conf[p] \ m[1]) \cup (m[2] \cap m[1]), link_down)
      BY <1>6, <2>2, <2>5 DEF dp_ports_handle_port_mod, PInv, PortsTypeOK
    <3>2. link_down \in SUBSET PortNos
      BY DEF PInv, PortsTypeOK
    <3> QED BY ZenonT(60), <2>1, <2>2, <2>3, <3>1, <3>2, LiveUpdatePInv
  <2> QED BY <2>4, <2>5
<1>7. ASSUME NEW p \in PortNos, NEW q \in QueueIds,
             dp_ports_handle_queue_modify(p, q) \/ dp_ports_handle_queue_delete(p, q)
      PROVE  PInv'
  BY <1>7, QueuePInv DEF dp_ports_handle_queue_modify, dp_ports_handle_queue_delete,
                         dp_ports_lookup_queue
<1>8. CASE UNCHANGED portsVars
  BY <1>8 DEF portsVars, PInv, PortsTypeOK, NoGap, Numbered, Starting, FreshUntouched, LiveAgrees,
              QueuesCounted
<1> QED
  BY <1>2, <1>3, <1>4, <1>5, <1>6, <1>7, <1>8 DEF PortsNext

\* The numbers of the ports have no gap, their flags and their counts agree: this
\* is inductive.
THEOREM PortsInductive == PortsSpec => []PInv
  BY InitPInv, StepPInv, PTL DEF PortsSpec

\* dp_ports_lookup finds exactly the ports there are.
THEOREM LookupHolds == PortsSpec => []LookupFindsPorts
<1>1. PInv => LookupFindsPorts
  BY LookupByCount DEF PInv
<1> QED BY <1>1, PortsInductive, PTL

\* A port is live exactly when its link and its configuration are up.
THEOREM LiveHolds == PortsSpec => []LiveAgrees
<1>1. PInv => LiveAgrees
  BY DEF PInv
<1> QED BY <1>1, PortsInductive, PTL

\* The ports are as many as are counted.
LEMMA PortsCounted ==
    ASSUME PortsTypeOK, NoGap
    PROVE  ports_num = Cardinality(ports)
<1>1. Numbered \in Nat /\ ports \ {LOCAL_PORT} = 1 .. Numbered
  BY PortsAssumption DEF NoGap
<1>2. IsFiniteSet(1 .. Numbered) /\ Cardinality(1 .. Numbered) = Numbered
  BY <1>1, FS_Interval
<1>3. CASE LOCAL_PORT \in ports
  <2>1. ports = (1 .. Numbered) \cup {LOCAL_PORT} /\ LOCAL_PORT \notin 1 .. Numbered
    BY <1>1, <1>3
  <2>2. Cardinality(ports) = Numbered + 1
    BY ZenonT(60), <1>2, <2>1, FS_AddElement
  <2> QED BY <1>1, <1>3, <2>2, PortsAssumption DEF Numbered, PortsTypeOK
<1>4. CASE LOCAL_PORT \notin ports
  <2>1. ports = 1 .. Numbered
    BY ZenonT(60), <1>1, <1>4
  <2> QED BY <1>2, <1>4, <2>1 DEF Numbered
<1> QED BY <1>3, <1>4

\* What is put into the reply about some queue of port p has room there.
LEMMA QueueReplyFits ==
    ASSUME PInv, NEW p \in PortNos, NEW q \in QueueIds
    PROVE  Cardinality(queues[p] \cap {q}) = IF q \in queues[p] THEN 1 ELSE 0
<1>1. CASE q \in queues[p]
  <2>1. queues[p] \cap {q} = {q}
    BY <1>1
  <2> QED BY <1>1, <2>1, FS_Singleton
<1>2. CASE q \notin queues[p]
  <2>1. queues[p] \cap {q} = {}
    BY <1>2
  <2> QED BY <1>2, <2>1, FS_EmptySet
<1> QED BY <1>1, <1>2

\* The replies to the requests about ports and queues have room for what is put
\* into them, and no place is left unwritten.
THEOREM RepliesFitHolds == PortsSpec => []RepliesFit
<1>1. PInv => RepliesFit
  <2> SUFFICES ASSUME PInv PROVE RepliesFit
    OBVIOUS
  <2>1. ports_num = Cardinality(ports)
    BY PortsCounted DEF PInv
  <2>2. Fits(dp_ports_handle_port_desc_request)
    BY <2>1 DEF Fits, dp_ports_handle_port_desc_request
  <2>3. LookupFindsPorts
    BY LookupByCount DEF PInv
  <2>4. ASSUME NEW port \in ports \cup {OFPP_ANY}
        PROVE  Fits(dp_ports_handle_stats_request_port(port))
    <3>1. CASE port = OFPP_ANY
      BY <3>1, <2>1 DEF Fits, dp_ports_handle_stats_request_port, PortsAsked
    <3>2. CASE port # OFPP_ANY
      <4>1. dp_ports_lookup(port)
        BY <2>3, <3>2 DEF LookupFindsPorts, PInv, PortsTypeOK
      <4>2. Cardinality({port}) = 1
        BY FS_Singleton
      <4> QED BY <3>2, <4>1, <4>2 DEF Fits, dp_ports_handle_stats_request_port, PortsAsked
    <3> QED BY <3>1, <3>2
  <2>5. ASSUME NEW port \in ports \cup {OFPP_ANY}, NEW p \in PortsAsked(port)
        PROVE  p \in PortNos /\ num_queues[p] = Cardinality(queues[p])
    BY <2>5 DEF PortsAsked, PInv, PortsTypeOK, QueuesCounted
  <2>6. ASSUME NEW port \in ports \cup {OFPP_ANY}, NEW p \in PortsAsked(port)
        PROVE  Fits(dp_ports_handle_queue_get_config_request(port)[p])
    BY <2>5, <2>6 DEF Fits, dp_ports_handle_queue_get_config_request
  <2>7. ASSUME NEW port \in ports \cup {OFPP_ANY}, NEW p \in PortsAsked(port),
               NEW q \in QueueIds \cup {OFPQ_ALL}
        PROVE  Fits(dp_ports_handle_stats_request_queue(port, q)[p])
    <3>1. CASE q = OFPQ_ALL
      BY <2>5, <2>7, <3>1 DEF Fits, dp_ports_handle_stats_request_queue
    <3>2. CASE q # OFPQ_ALL
      <4>1. Cardinality(queues[p] \cap {q}) = IF q \in queues[p] THEN 1 ELSE 0
        BY <2>5, <2>7, <3>2, QueueReplyFits
      <4> QED BY <2>7, <3>2, <4>1 DEF Fits, dp_ports_handle_stats_request_queue,
                                      dp_ports_lookup_queue
    <3> QED BY <3>1, <3>2
  <2> QED BY <2>2, <2>4, <2>6, <2>7 DEF RepliesFit
<1> QED BY <1>1, PortsInductive, PTL
=============================================================================
