-------------------------------- MODULE Stp --------------------------------
(***************************************************************************)
(* lib/stp.c: the spanning tree protocol of a bridge (IEEE 802.1D), and a  *)
(* LAN of such bridges.  A bridge is a record, its handlers are operators  *)
(* of the C names on it, and stp_send_bpdu appends to bridge.out.  A timer  *)
(* is its value, Off when it is not active.                                *)
(*                                                                         *)
(* All bridges have the default times of stp_create, so the times that     *)
(* BPDUs carry are constants here.  The flags of a config BPDU are a byte  *)
(* into which the code stores htons(flag): only a big-endian machine sends  *)
(* or sees them.                                                           *)
(***************************************************************************)
EXTENDS Integers, Sequences, SequencesExt, FiniteSets

CONSTANTS Bridges,      \* bridge identifiers
          Ports,        \* port numbers 1..n of every bridge
          Cable,        \* <<bridge, port>> -> the end at the other side, for ends with a link
          MaxAge, HelloTime, ForwardDelay, HoldTime, AgeIncrement,
          Costs,        \* path costs of ports, from their speeds
          SpareIds,     \* identifiers a bridge may change to
          BigEndian,
          MaxEvents     \* bound: ports removed and added, changes of cost or identifier

ASSUME StpConstants ==
    /\ Bridges \subseteq Nat
    /\ Ports = 1..Cardinality(Ports) /\ Costs \subseteq Nat \ {0}
    /\ SpareIds \subseteq Nat /\ SpareIds \cap Bridges = {}
    /\ DOMAIN Cable \subseteq Bridges \X Ports
    /\ \A e \in DOMAIN Cable : Cable[e] \in DOMAIN Cable /\ Cable[Cable[e]] = e /\ Cable[e] # e
    \* stp_update_bridge_timers
    /\ MaxAge >= 2 * (HelloTime + HoldTime) /\ 2 * (ForwardDelay - HoldTime) >= MaxAge

VARIABLES bridges, \* bridge -> its state
          lan,     \* end -> BPDUs that have arrived there
          events,  \* changes so far
          quiet    \* history: ticks since the last change, counted up to Settle

stpVars == <<bridges, lan, events, quiet>>

Off == -1

\* Ticks after a change by which the tree must stand.
Settle == MaxAge + 2 * ForwardDelay
PortsInOrder == [i \in 1..Cardinality(Ports) |-> i]

\* FOR_EACH_ENABLED_PORT: Op(b, i) for the enabled ports in order.
ForEachEnabledPort(b, Op(_, _)) ==
    FoldLeft(LAMBDA c, i : IF c.p[i].state = "DISABLED" THEN c ELSE Op(c, i), b, PortsInOrder)

stp_is_root_bridge(b) == b.id = b.root
stp_is_designated_port(b, i) == b.p[i].bridge = b.id /\ b.p[i].port = i

-----------------------------------------------------------------------------
(* BPDUs.                                                                  *)

\* Bits of a byte that was set to htons(flag).
Carried(flags) == IF BigEndian THEN flags ELSE {}

stp_send_bpdu(b, i, bpdu) == [b EXCEPT !.out = Append(@, [port |-> i, bpdu |-> bpdu])]

stp_transmit_config(b, i) ==
    LET root == stp_is_root_bridge(b)
        age == IF root THEN 0 ELSE b.p[b.root_port].message_age + AgeIncrement
        config == [type |-> "CONFIG", root |-> b.root, cost |-> b.cost, bridge |-> b.id, port |-> i,
                   age |-> age,
                   flags |-> Carried({f \in {"ACK", "TC"} : IF f = "ACK" THEN b.p[i].ack ELSE b.tc})]
    IN  CASE ~root /\ b.root_port = 0 -> b
          [] b.p[i].hold # Off -> [b EXCEPT !.p[i].pending = TRUE]
          [] age < MaxAge /\ b.p[i].hold = Off ->
                stp_send_bpdu([b EXCEPT !.p[i].ack = FALSE, !.p[i].pending = FALSE, !.p[i].hold = 0],
                              i, config)
          [] OTHER -> b

stp_config_bpdu_generation(b) ==
    ForEachEnabledPort(b, LAMBDA c, i :
        IF stp_is_designated_port(c, i) THEN stp_transmit_config(c, i) ELSE c)

stp_transmit_tcn(b) ==
    IF b.root_port = 0 THEN b ELSE stp_send_bpdu(b, b.root_port, [type |-> "TCN"])

-----------------------------------------------------------------------------
(* Who is root, which port leads to it, and which ports forward.           *)

\* Lexicographic comparison of equally long sequences of numbers.
Below(s, t) == \E k \in 1..Len(s) : s[k] < t[k] /\ \A j \in 1..(k - 1) : s[j] = t[j]

stp_supersedes_port_info(b, i, config) ==
    LET new == <<config.root, config.cost, config.bridge>>
        old == <<b.p[i].root, b.p[i].cost, b.p[i].bridge>>
    IN  \/ Below(new, old)
        \/ new = old /\ (config.bridge # b.id \/ config.port <= b.p[i].port)

stp_record_config_information(b, i, config) ==
    [b EXCEPT !.p[i] = [@ EXCEPT !.root = config.root, !.cost = config.cost,
                                 !.bridge = config.bridge, !.port = config.port,
                                 !.message_age = config.age]]

stp_become_designated_port(b, i) ==
    [b EXCEPT !.p[i] = [@ EXCEPT !.root = b.root, !.cost = b.cost, !.bridge = b.id, !.port = i]]

CostVia(b, i) == b.p[i].cost + b.p[i].path_cost

\* stp_supersedes_root(r, i): port i is the better way to the root.
stp_supersedes_root(b, r, i) ==
    Below(<<b.p[i].root, CostVia(b, i), b.p[i].bridge, b.p[i].port, i>>,
          <<b.p[r].root, CostVia(b, r), b.p[r].bridge, b.p[r].port, r>>)

stp_root_selection(b) ==
    LET ways == {i \in Ports : /\ b.p[i].state # "DISABLED"
                               /\ ~stp_is_designated_port(b, i) /\ b.p[i].root < b.id}
        best == CHOOSE i \in ways : \A j \in ways : i = j \/ stp_supersedes_root(b, j, i)
    IN  IF ways = {} THEN [b EXCEPT !.root_port = 0, !.root = b.id, !.cost = 0]
        ELSE [b EXCEPT !.root_port = best, !.root = b.p[best].root, !.cost = CostVia(b, best)]

stp_designated_port_selection(b) ==
    ForEachEnabledPort(b, LAMBDA c, i :
        IF \/ stp_is_designated_port(c, i) \/ c.p[i].root # c.root
           \/ Below(<<c.cost, c.id>>, <<c.p[i].cost, c.p[i].bridge>>)
           \/ c.cost = c.p[i].cost /\ c.id = c.p[i].bridge /\ i <= c.p[i].port
        THEN stp_become_designated_port(c, i) ELSE c)

stp_configuration_update(b) == stp_designated_port_selection(stp_root_selection(b))

stp_topology_change_detection(b) ==
    LET told == CASE stp_is_root_bridge(b) -> [b EXCEPT !.tc = TRUE, !.tc_timer = 0]
                  [] ~stp_is_root_bridge(b) /\ ~b.detected -> [stp_transmit_tcn(b) EXCEPT !.tcn_timer = 0]
                  [] OTHER -> b
    IN  [told EXCEPT !.detected = TRUE]

\* Mutant: a port that does not listen and learn first.
ForwardAtOnce(b, i) == [b EXCEPT !.p[i].state = "FORWARDING"]

stp_make_forwarding(b, i) ==
    IF b.p[i].state = "BLOCKING"
    THEN [b EXCEPT !.p[i].state = "LISTENING", !.p[i].forward_delay = 0] ELSE b

\* change_detection_enabled is true from stp_initialize_port on.
stp_make_blocking(b, i) ==
    IF b.p[i].state \in {"DISABLED", "BLOCKING"} THEN b
    ELSE [(IF b.p[i].state \in {"FORWARDING", "LEARNING"}
           THEN stp_topology_change_detection(b) ELSE b)
          EXCEPT !.p[i].state = "BLOCKING", !.p[i].forward_delay = Off]

stp_port_state_selection(b) ==
    ForEachEnabledPort(b, LAMBDA c, i :
        LET hushed == [c EXCEPT !.p[i].pending = FALSE, !.p[i].ack = FALSE]
        IN  CASE i = c.root_port -> stp_make_forwarding(hushed, i)
              [] i # c.root_port /\ stp_is_designated_port(c, i) ->
                    stp_make_forwarding([c EXCEPT !.p[i].message_age = Off], i)
              [] OTHER -> stp_make_blocking(hushed, i))

Reselect(b) == stp_port_state_selection(stp_configuration_update(b))

\* stp_become_root_bridge, and the same lines in stp_message_age_timer_expiry.
stp_become_root_bridge(b) ==
    [stp_config_bpdu_generation([stp_topology_change_detection(b) EXCEPT !.tcn_timer = Off])
     EXCEPT !.hello = 0]

RootAfter(b, old) ==
    IF stp_is_root_bridge(b) /\ ~stp_is_root_bridge(old) THEN stp_become_root_bridge(b) ELSE b

-----------------------------------------------------------------------------
(* Received BPDUs.                                                         *)

stp_received_config_bpdu(b, i, config) ==
    LET updated == Reselect(stp_record_config_information(b, i, config))
        dethroned ==
            IF stp_is_root_bridge(b) /\ ~stp_is_root_bridge(updated)
            THEN IF updated.detected
                 THEN [stp_transmit_tcn([updated EXCEPT !.hello = Off, !.tc_timer = Off])
                       EXCEPT !.tcn_timer = 0]
                 ELSE [updated EXCEPT !.hello = Off]
            ELSE updated
        passed_on == stp_config_bpdu_generation([dethroned EXCEPT !.tc = "TC" \in Carried(config.flags)])
        acked == "ACK" \in Carried(config.flags)
    IN  CASE config.age >= MaxAge -> b
          [] config.age < MaxAge /\ stp_supersedes_port_info(b, i, config) ->
                IF i # updated.root_port THEN dethroned
                ELSE IF acked THEN [passed_on EXCEPT !.detected = FALSE, !.tcn_timer = Off]
                ELSE passed_on
          [] config.age < MaxAge /\ ~stp_supersedes_port_info(b, i, config)
                /\ stp_is_designated_port(b, i) -> stp_transmit_config(b, i)
          [] OTHER -> b

stp_received_tcn_bpdu(b, i) ==
    IF stp_is_designated_port(b, i)
    THEN LET c == stp_topology_change_detection(b)
         IN  stp_transmit_config([c EXCEPT !.p[i].ack = TRUE], i)
    ELSE b

stp_received_bpdu(b, i, bpdu) ==
    CASE b.p[i].state = "DISABLED" -> b
      [] b.p[i].state # "DISABLED" /\ bpdu.type = "CONFIG" -> stp_received_config_bpdu(b, i, bpdu)
      [] OTHER -> stp_received_tcn_bpdu(b, i)

-----------------------------------------------------------------------------
(* Timers.                                                                 *)

\* stp_timer_expired after one unit of time: the timer that is left, and
\* whether it has expired.
Ticked(t, timeout) == IF t = Off \/ t + 1 >= timeout THEN Off ELSE t + 1
Expires(t, timeout) == t # Off /\ t + 1 >= timeout

HelloTick(b) ==
    LET c == [b EXCEPT !.hello = Ticked(@, HelloTime)]
    IN  IF Expires(b.hello, HelloTime) THEN [stp_config_bpdu_generation(c) EXCEPT !.hello = 0] ELSE c

TcnTick(b) ==
    LET c == [b EXCEPT !.tcn_timer = Ticked(@, HelloTime)]
    IN  IF Expires(b.tcn_timer, HelloTime) THEN [stp_transmit_tcn(c) EXCEPT !.tcn_timer = 0] ELSE c

TopologyChangeTick(b) ==
    LET c == [b EXCEPT !.tc_timer = Ticked(@, MaxAge + ForwardDelay)]
    IN  IF Expires(b.tc_timer, MaxAge + ForwardDelay) THEN [c EXCEPT !.detected = FALSE, !.tc = FALSE] ELSE c

\* stp_message_age_timer_expiry.
MessageAgeTick(b, i) ==
    LET c == [b EXCEPT !.p[i].message_age = Ticked(@, MaxAge)]
    IN  IF Expires(b.p[i].message_age, MaxAge)
        THEN RootAfter(Reselect(stp_become_designated_port(c, i)), c) ELSE c

stp_is_designated_for_some_port(b) ==
    \E i \in Ports : b.p[i].state # "DISABLED" /\ b.p[i].bridge = b.id

\* stp_forward_delay_timer_expiry.
ForwardDelayTick(b, i) ==
    LET c == [b EXCEPT !.p[i].forward_delay = Ticked(@, ForwardDelay)]
        forwarding == [c EXCEPT !.p[i].state = "FORWARDING"]
    IN  CASE ~Expires(b.p[i].forward_delay, ForwardDelay) -> c
          [] Expires(b.p[i].forward_delay, ForwardDelay) /\ b.p[i].state = "LISTENING" ->
                [c EXCEPT !.p[i].state = "LEARNING", !.p[i].forward_delay = 0]
          [] Expires(b.p[i].forward_delay, ForwardDelay) /\ b.p[i].state = "LEARNING" ->
                IF stp_is_designated_for_some_port(forwarding)
                THEN stp_topology_change_detection(forwarding) ELSE forwarding
          [] OTHER -> c

\* stp_hold_timer_expiry.
HoldTick(b, i) ==
    LET c == [b EXCEPT !.p[i].hold = Ticked(@, HoldTime)]
    IN  IF Expires(b.p[i].hold, HoldTime) /\ c.p[i].pending THEN stp_transmit_config(c, i) ELSE c

stp_tick(b) ==
    LET aged == ForEachEnabledPort(TopologyChangeTick(TcnTick(HelloTick(b))), MessageAgeTick)
    IN  ForEachEnabledPort(aged, LAMBDA c, i : HoldTick(ForwardDelayTick(c, i), i))

-----------------------------------------------------------------------------
(* Ports come and go (stp_port_changed_cb of secchan/stp-secchan.c).       *)

stp_initialize_port(b, i, state) ==
    LET c == stp_become_designated_port(b, i)
    IN  [c EXCEPT !.p[i] = [@ EXCEPT !.state = state, !.ack = FALSE, !.pending = FALSE,
                                     !.message_age = Off, !.forward_delay = Off, !.hold = Off]]

stp_port_enable(b, i) ==
    IF b.p[i].state = "DISABLED"
    THEN stp_port_state_selection(stp_initialize_port(b, i, "BLOCKING")) ELSE b

stp_port_disable(b, i) ==
    IF b.p[i].state = "DISABLED" THEN b
    ELSE LET c == stp_become_designated_port(b, i)
             off == [c EXCEPT !.p[i] = [@ EXCEPT !.state = "DISABLED", !.ack = FALSE, !.pending = FALSE,
                                                 !.message_age = Off, !.forward_delay = Off]]
         IN  RootAfter(Reselect(off), b)

stp_port_set_path_cost(b, i, cost) ==
    IF b.p[i].path_cost = cost THEN b ELSE Reselect([b EXCEPT !.p[i].path_cost = cost])

\* The address of the local port is known (stp_local_port_changed_cb).
set_bridge_id(b, id) ==
    LET c == ForEachEnabledPort(b, LAMBDA d, i :
                IF stp_is_designated_port(d, i) THEN [d EXCEPT !.p[i].bridge = id] ELSE d)
    IN  IF id = b.id THEN b ELSE RootAfter(Reselect([c EXCEPT !.id = id]), b)

NewPort(cost) ==
           [state |-> "DISABLED", path_cost |-> cost, root |-> 0, cost |-> 0, bridge |-> 0, port |-> 0, ack |-> FALSE,
            pending |-> FALSE, message_age |-> Off, forward_delay |-> Off, hold |-> Off]

stp_create(id, cost) ==
    LET b == [id |-> id, root |-> id, cost |-> 0, root_port |-> 0, detected |-> FALSE, tc |-> FALSE,
              hello |-> 0, tcn_timer |-> Off, tc_timer |-> Off, out |-> <<>>,
              p |-> [i \in Ports |-> NewPort(cost)]]
    IN  FoldLeft(LAMBDA c, i : stp_initialize_port(c, i, "DISABLED"), b, PortsInOrder)

-----------------------------------------------------------------------------
(* The LAN.                                                                *)

\* The bridges run handlers, and what each sent arrives at the other ends.
Handled(new, left) ==
    LET To(e) == SelectSeq(new[Cable[e][1]].out, LAMBDA o : o.port = Cable[e][2])
    IN  /\ bridges' = [x \in Bridges |-> [new[x] EXCEPT !.out = <<>>]]
        /\ lan' = [e \in DOMAIN Cable |->
                      left[e] \o [n \in 1..Len(To(e)) |-> To(e)[n].bpdu]]

Enabled(e) == bridges[e[1]].p[e[2]].state # "DISABLED"

\* All bridges start with the ports that have a link enabled, but for the
\* ports of a link that may be added later.
StpInit ==
  \E late \in {{}} \cup {{e, Cable[e]} : e \in DOMAIN Cable} :
    /\ bridges = [x \in Bridges |->
          FoldLeft(LAMBDA b, i : IF <<x, i>> \in DOMAIN Cable \ late THEN stp_port_enable(b, i) ELSE b,
                   stp_create(x, CHOOSE c \in Costs : \A d \in Costs : c <= d), PortsInOrder)]
    /\ lan = [e \in DOMAIN Cable |-> <<>>]
    /\ events = 0 /\ quiet = 0

Receive(e) ==
    /\ lan[e] # <<>>
    /\ Handled([bridges EXCEPT ![e[1]] = stp_received_bpdu(@, e[2], Head(lan[e]))],
               [lan EXCEPT ![e] = Tail(@)])
    /\ UNCHANGED <<events, quiet>>

\* Time passes when the LAN has delivered: a BPDU takes less than a tick.
StpTick ==
    /\ \A e \in DOMAIN Cable : lan[e] = <<>>
    /\ Handled([x \in Bridges |-> stp_tick(bridges[x])], lan)
    /\ quiet' = IF quiet = Settle THEN quiet ELSE quiet + 1
    /\ UNCHANGED events

\* The two ports of a link are removed, or added again.
LinkChange(e) ==
    /\ events < MaxEvents /\ events' = events + 1 /\ quiet' = 0
    /\ LET f == Cable[e]
           Change(b, i) == IF b.p[i].state = "DISABLED" THEN stp_port_enable(b, i) ELSE stp_port_disable(b, i)
           one == [bridges EXCEPT ![e[1]] = Change(@, e[2])]
       IN  /\ Enabled(e) = Enabled(f)
           /\ Handled([one EXCEPT ![f[1]] = Change(@, f[2])], [lan EXCEPT ![e] = <<>>, ![f] = <<>>])

\* The speed of a port, or the address of the local port, changes.
SettingChange(x) ==
    /\ events < MaxEvents /\ events' = events + 1 /\ quiet' = 0
    /\ \E b \in {stp_port_set_path_cost(bridges[x], i, c) : i \in Ports, c \in Costs}
                \cup {set_bridge_id(bridges[x], id) : id \in SpareIds \ {bridges[y].id : y \in Bridges}} :
          Handled([bridges EXCEPT ![x] = b], lan)

StpNext == \/ StpTick
           \/ \E e \in DOMAIN Cable : Receive(e) \/ LinkChange(e)
           \/ \E x \in Bridges : SettingChange(x)

StpSpec == StpInit /\ [][StpNext]_stpVars

-----------------------------------------------------------------------------
(* Properties.                                                             *)

Forwards(e) == bridges[e[1]].p[e[2]].state = "FORWARDING"
ForwardingLinks == {{e, Cable[e]} : e \in {x \in DOMAIN Cable : Forwards(x) /\ Forwards(Cable[x])}}
UpLinks == {{e, Cable[e]} : e \in {x \in DOMAIN Cable : Enabled(x) /\ Enabled(Cable[x])}}

\* The bridges that links of L join to x.
Joined(L, x) ==
    LET Grow(S) == S \cup {y \in Bridges : \E l \in L : {e[1] : e \in l} \cap S # {} /\ y \in {e[1] : e \in l}}
    IN  FoldLeft(LAMBDA S, i : Grow(S), {x}, [i \in 1..Cardinality(Bridges) |-> i])

\* Links form a forest: without any one of them its two ends are apart.
IsForest(L) == \A l \in L : LET e == CHOOSE x \in l : TRUE
                            IN  Cable[e][1] \notin Joined(L \ {l}, e[1])

\* No frame can circle, at any time: the links both of whose ports forward
\* never close a cycle, while bridges elect roots and ports come and go.
NoBridgeLoop == IsForest(ForwardingLinks)

\* The tree stands Settle ticks after the last change: the bridges that links
\* join agree on the least identifier among them as the root, and forwarding
\* links join them all.
TreeStands ==
    quiet = Settle =>
        \A x \in Bridges :
            /\ Joined(ForwardingLinks, x) = Joined(UpLinks, x)
            /\ \A y \in Joined(UpLinks, x) : bridges[x].root <= bridges[y].id
            /\ \E y \in Joined(UpLinks, x) : bridges[x].root = bridges[y].id

=============================================================================
