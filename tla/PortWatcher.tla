----------------------------- MODULE PortWatcher -----------------------------
(***************************************************************************)
(* The ports as the secure channel knows them (secchan/port-watcher.c),    *)
(* kept in a three-level trie (lib/port-array.c), and what follows them:   *)
(* the names watched for changes of the network devices, and the ports of  *)
(* the spanning tree (secchan/stp-secchan.c).                              *)
(*                                                                         *)
(* The watcher asks the datapath once for its features and its ports.      *)
(* Ports come and go in the datapath, their devices change, the connection *)
(* to the datapath breaks, and the controller modifies ports meanwhile.    *)
(* A port stands for its device's name.  The objects that the watcher      *)
(* allocates have numbers, so that a pointer to a freed one is seen.       *)
(***************************************************************************)
EXTENDS Integers, Sequences, FiniteSets

CONSTANTS
    L1Size, L2Size, L3Size,   \* 32, 32, 64: sizes of the levels of the trie
    SwitchPorts,              \* numbers that ports of the datapath may have
    LocalPort,                \* OFPP_LOCAL
    StpMaxPorts,              \* STP_MAX_PORTS
    MaxObjects,               \* bound on the live objects
    MaxWaiting,               \* bound on the messages on their way
    MaxChanges                \* bound on the changes in the datapath

ASSUME PortWatcherConstants ==
    /\ {L1Size, L2Size, L3Size, LocalPort, MaxObjects, MaxWaiting, MaxChanges} \subseteq Nat \ {0}
    /\ SwitchPorts \subseteq Nat /\ LocalPort \in SwitchPorts /\ StpMaxPorts \in Nat

VARIABLES
    pw,       \* the port watcher
    stp_on,   \* ports that the spanning tree has enabled
    dp,       \* the datapath: its ports with the flags of their devices, messages
    changes   \* changes in the datapath so far

watcherVars == <<pw, stp_on, dp, changes>>

Absent == [obj |-> 0]

-----------------------------------------------------------------------------
(* lib/port-array.c *)

PortArraySize == L1Size * L2Size * L3Size

L1(i) == i \div (L2Size * L3Size)
L2(i) == (i \div L3Size) % L2Size
L3(i) == i % L3Size

\* An index is 16 bits wide.
Truncated(i) == i % PortArraySize

\* A level that points to its sentinel is an empty function.
port_array_init == [i \in 0..(L1Size - 1) |-> <<>>]

port_array_get(pa, idx) ==
    LET i == Truncated(idx)
        l2 == pa[L1(i)]
    IN  IF l2 = <<>> THEN Absent ELSE IF l2[L2(i)] = <<>> THEN Absent ELSE l2[L2(i)][L3(i)]

port_array_set(pa, idx, p) ==
    LET i == Truncated(idx)
        l2 == IF pa[L1(i)] = <<>> THEN [j \in 0..(L2Size - 1) |-> <<>>] ELSE pa[L1(i)]
        l3 == IF l2[L2(i)] = <<>> THEN [j \in 0..(L3Size - 1) |-> Absent] ELSE l2[L2(i)]
    IN  [pa EXCEPT ![L1(i)] = [l2 EXCEPT ![L2(i)] = [l3 EXCEPT ![L3(i)] = p]]]

\* The first element at <<a, b, c>> or after it, level by level: an index behind
\* the end of a level continues at the start of the next entry one level up.
RECURSIVE next(_, _, _, _)
next(pa, a, b, c) ==
    IF a >= L1Size THEN PortArraySize
    ELSE IF pa[a] = <<>> \/ b >= L2Size THEN next(pa, a + 1, 0, 0)
    ELSE IF pa[a][b] = <<>> \/ c >= L3Size THEN next(pa, a, b + 1, 0)
    ELSE IF pa[a][b][c] # Absent THEN (a * L2Size + b) * L3Size + c
    ELSE next(pa, a, b, c + 1)

port_array_next(pa, idx) == next(pa, L1(idx + 1), L2(idx + 1), L3(idx + 1))

port_array_first(pa) == next(pa, 0, 0, 0)

RECURSIVE IndexesFrom(_, _)
IndexesFrom(pa, idx) ==
    IF idx = PortArraySize THEN <<>> ELSE <<idx>> \o IndexesFrom(pa, port_array_next(pa, idx))

PortIndexes(pa) == IndexesFrom(pa, port_array_first(pa))

-----------------------------------------------------------------------------
(* port-watcher.c *)

Flags == [down : BOOLEAN, link : BOOLEAN]

NoFlags == [down |-> FALSE, link |-> TRUE]

port_watcher_start ==
    /\ pw = [ports |-> port_array_init, got_feature_reply |-> FALSE, due |-> TRUE, n_txq |-> 0,
             names |-> {}, local |-> "not told", crashed |-> FALSE]
    /\ stp_on = {}
    /\ dp = [ports |-> [p \in SwitchPorts |-> NoFlags], up |-> TRUE, requests |-> <<>>,
             replies |-> <<>>, news |-> {}, overflow |-> FALSE]
    /\ changes = 0

lookup_port(w, p) == port_array_get(w.ports, p)

LiveObjects(w) == {lookup_port(w, i).obj : i \in 0..(PortArraySize - 1)} \ {0}

NewObject(w) == CHOOSE o \in 1..MaxObjects : o \notin LiveObjects(w)
                                             /\ \A q \in 1..(o - 1) : q \in LiveObjects(w)

stp_is_port_supported(p) == p < StpMaxPorts

\* Mutant: a port that goes away stays in the spanning tree.
TreeKeepsPort(on, p, exists) ==
    IF stp_is_port_supported(p) THEN on \cup {p} ELSE on

\* The callback of the spanning tree.
stp_port_changed_cb(on, p, exists) ==
    IF ~stp_is_port_supported(p) THEN on ELSE IF exists THEN on \cup {p} ELSE on \ {p}

\* The spanning tree is the module that registered for changes of ports.
call_port_changed_callbacks(on, p, exists) == stp_port_changed_cb(on, p, exists)

\* w and on: the watcher and the spanning tree.  "modify" adds or overwrites.
update_phy_port(x, p, flags, reason) ==
    LET old == lookup_port(x.w, p)
    IN  CASE reason = "delete" /\ old # Absent ->
               [w |-> [x.w EXCEPT !.ports = port_array_set(@, p, Absent)],
                on |-> call_port_changed_callbacks(x.on, p, FALSE)]
          [] reason = "modify" ->
               [w |-> [x.w EXCEPT !.ports = port_array_set(@, p,
                         [obj |-> IF old = Absent THEN NewObject(x.w) ELSE old.obj,
                          down |-> flags.down, link |-> flags.link])],
                on |-> call_port_changed_callbacks(x.on, p, TRUE)]
          [] OTHER -> x

\* The names are those of the ports that are in the array now.
update_netdev_monitor_devices(w) ==
    [w EXCEPT !.names = {[name |-> i, obj |-> lookup_port(w, i).obj] :
                         i \in {PortIndexes(w.ports)[n] : n \in DOMAIN PortIndexes(w.ports)}}]

call_local_port_changed_callbacks(w) ==
    [w EXCEPT !.local = IF lookup_port(w, LocalPort) = Absent THEN "none" ELSE "port"]

RECURSIVE UpdateAll(_, _, _)
UpdateAll(x, listed, todo) ==
    IF todo = {} THEN x
    ELSE LET p == CHOOSE q \in todo : \A r \in todo : q <= r
         IN  UpdateAll(update_phy_port(x, p, listed[p], "modify"), listed, todo \ {p})

RECURSIVE DeleteUnseen(_, _, _)
DeleteUnseen(x, seen, idx) ==
    IF idx = PortArraySize THEN x
    ELSE LET y == IF idx \in seen THEN x ELSE update_phy_port(x, idx, NoFlags, "delete")
         IN  DeleteUnseen(y, seen, port_array_next(y.w.ports, idx))

\* A reply with the datapath's ports: numbers beyond the array are skipped.
PortDescReply(x, listed) ==
    LET seen == {p \in DOMAIN listed : p <= PortArraySize - 1}
        y == UpdateAll(x, listed, seen)
        z == DeleteUnseen(y, seen, port_array_first(y.w.ports))
    IN  [z EXCEPT !.w = call_local_port_changed_callbacks(update_netdev_monitor_devices(@))]

\* The hook for messages from the datapath.
port_watcher_local_packet_cb ==
    /\ ~pw.crashed /\ dp.replies # <<>>
    /\ LET m == Head(dp.replies)
           x == IF m.type = "features"
                THEN [w |-> [pw EXCEPT !.got_feature_reply = TRUE], on |-> stp_on]
                ELSE PortDescReply([w |-> pw, on |-> stp_on], m.ports)
       IN  pw' = x.w /\ stp_on' = x.on
    /\ dp' = [dp EXCEPT !.replies = Tail(@)]
    /\ UNCHANGED changes

\* The device of the port follows its configuration, unless it cannot be opened.
bring_netdev_up_or_down(p, down) ==
    \/ /\ p \in DOMAIN dp.ports
       /\ dp' = [dp EXCEPT !.ports[p].down = down,
                           !.news = IF dp.ports[p].down = down THEN @ ELSE @ \cup {p}]
    \/ UNCHANGED dp

\* The hook for messages from the controller.  The port is not tested: there is no
\* object behind it when it is not in the array.
port_watcher_remote_packet_cb(p, down) ==
    /\ ~pw.crashed /\ changes < MaxChanges
    /\ LET old == lookup_port(pw, p)
           new == [pw EXCEPT !.ports = port_array_set(@, p, [old EXCEPT !.down = down])]
       IN  IF old = Absent THEN pw' = [pw EXCEPT !.crashed = TRUE] /\ UNCHANGED <<stp_on, dp>>
           ELSE /\ pw' = IF p = LocalPort THEN call_local_port_changed_callbacks(new) ELSE new
                /\ stp_on' = call_port_changed_callbacks(stp_on, p, TRUE)
                /\ bring_netdev_up_or_down(p, down)
    /\ changes' = changes + 1

\* Both requests count against the same limit of one message in the queue; sent
\* tells whether the first one leaves at once.
AskDatapath(w, d, sent) ==
    IF w.got_feature_reply \/ ~w.due \/ ~d.up THEN [w |-> w, d |-> d]
    ELSE [w |-> [w EXCEPT !.due = FALSE, !.n_txq = IF sent THEN 0 ELSE 1],
          d |-> [d EXCEPT !.requests = @ \o
                   IF w.n_txq # 0 THEN <<>> ELSE IF sent THEN <<"features", "ports">>
                   ELSE <<"features">>]]

\* One device that the monitor reports: the flags of its port are brought up to
\* date, and the other modules told.
NetdevChanged(x, d, p) ==
    LET old == lookup_port(x.w, p)
        new == update_phy_port(x, p, d.ports[p], "modify")
    IN  IF p \notin DOMAIN d.ports THEN x
        ELSE IF [down |-> old.down, link |-> old.link] = d.ports[p] THEN x
        ELSE IF p = LocalPort THEN [new EXCEPT !.w = call_local_port_changed_callbacks(@)]
        ELSE new

\* lib/netdev.c: a name that is not watched is skipped; when messages were lost,
\* every name that is watched may have changed.
lookup_netdev(w, p) == \E n \in w.names : n.name = p

all_netdevs_changed(w) == {n.name : n \in w.names}

\* The names that the monitor returns until it has no more.
netdev_monitor_poll(w, d) ==
    IF d.overflow THEN all_netdevs_changed(w) ELSE {p \in d.news : lookup_netdev(w, p)}

RECURSIVE PollMonitor(_, _, _)
PollMonitor(x, d, todo) ==
    IF todo = {} THEN x
    ELSE LET p == CHOOSE q \in todo : TRUE IN PollMonitor(NetdevChanged(x, d, p), d, todo \ {p})

port_watcher_periodic_cb ==
    /\ ~pw.crashed
    /\ \E sent \in BOOLEAN :
         LET a == AskDatapath(pw, dp, sent)
             x == PollMonitor([w |-> a.w, on |-> stp_on], a.d, netdev_monitor_poll(a.w, a.d))
         IN  pw' = x.w /\ stp_on' = x.on /\ dp' = [a.d EXCEPT !.news = {}, !.overflow = FALSE]
    /\ UNCHANGED changes

-----------------------------------------------------------------------------
(* What happens around the watcher. *)

\* What was queued leaves, the datapath answers its oldest request.
DatapathAnswers ==
    /\ ~pw.crashed /\ dp.requests # <<>>
    /\ dp' = [dp EXCEPT !.requests = Tail(@),
                        !.replies = Append(@, [type |-> Head(dp.requests), ports |-> dp.ports])]
    /\ pw' = [pw EXCEPT !.n_txq = 0]
    /\ UNCHANGED <<stp_on, changes>>

\* The controller asks for the ports as well: the reply passes the watcher.
ControllerAsks ==
    /\ ~pw.crashed /\ dp.up /\ changes < MaxChanges /\ Len(dp.requests) < MaxWaiting
    /\ dp' = [dp EXCEPT !.requests = Append(@, "ports")] /\ changes' = changes + 1
    /\ UNCHANGED <<pw, stp_on>>

PortRemoved(p) ==
    /\ ~pw.crashed /\ changes < MaxChanges /\ p \in DOMAIN dp.ports
    /\ dp' = [dp EXCEPT !.ports = [q \in DOMAIN @ \ {p} |-> @[q]]] /\ changes' = changes + 1
    /\ UNCHANGED <<pw, stp_on>>

PortAdded(p) ==
    /\ ~pw.crashed /\ changes < MaxChanges /\ p \notin DOMAIN dp.ports
    /\ dp' = [dp EXCEPT !.ports = [q \in DOMAIN @ \cup {p} |-> IF q = p THEN NoFlags ELSE @[q]]]
    /\ changes' = changes + 1 /\ UNCHANGED <<pw, stp_on>>

DeviceChanges(p) ==
    /\ ~pw.crashed /\ changes < MaxChanges /\ p \in DOMAIN dp.ports
    /\ \E f \in Flags \ {dp.ports[p]} :
         dp' = [dp EXCEPT !.ports[p] = f, !.news = @ \cup {p}]
    /\ changes' = changes + 1 /\ UNCHANGED <<pw, stp_on>>

\* The socket of the monitor had no room for the messages.
NewsLost ==
    /\ ~pw.crashed /\ dp.news # {} /\ ~dp.overflow
    /\ dp' = [dp EXCEPT !.news = {}, !.overflow = TRUE] /\ UNCHANGED <<pw, stp_on, changes>>

LocalReconnects ==
    /\ ~pw.crashed /\ changes < MaxChanges
    /\ dp' = [dp EXCEPT !.up = ~@, !.requests = <<>>, !.replies = <<>>]
    /\ pw' = [pw EXCEPT !.n_txq = 0] /\ changes' = changes + 1 /\ UNCHANGED stp_on

\* Five seconds since the last request, which may still wait for its answer.
WatcherTick ==
    /\ ~pw.crashed /\ ~pw.due /\ Len(dp.requests \o dp.replies) < MaxWaiting
    /\ pw' = [pw EXCEPT !.due = TRUE]
    /\ UNCHANGED <<stp_on, dp, changes>>

WatcherNext ==
    \/ port_watcher_local_packet_cb
    \/ \E p \in SwitchPorts, down \in BOOLEAN : port_watcher_remote_packet_cb(p, down)
    \/ port_watcher_periodic_cb
    \/ DatapathAnswers
    \/ ControllerAsks
    \/ \E p \in SwitchPorts : PortRemoved(p) \/ PortAdded(p) \/ DeviceChanges(p)
    \/ NewsLost
    \/ LocalReconnects
    \/ WatcherTick

WatcherSpec == port_watcher_start /\ [][WatcherNext]_watcherVars

-----------------------------------------------------------------------------
(* Properties. *)

\* Every entry of port_by_name points to the object of a port that is in the array
\* now, and every port in the array has an entry: no name leads to a port that was
\* freed, and the enumeration of the trie misses none.
NamesAreLive ==
    pw.names = {[name |-> i, obj |-> lookup_port(pw, i).obj] :
                i \in {j \in 0..(PortArraySize - 1) : lookup_port(pw, j) # Absent}}

\* The spanning tree runs on exactly the ports that the watcher knows, as far as
\* it supports their numbers.
SpanningTreeFollows ==
    stp_on = {p \in 0..(PortArraySize - 1) : lookup_port(pw, p) # Absent
                                             /\ stp_is_port_supported(p)}

\* "Pass the local port to the callbacks, if it exists.  Pass a null pointer if
\* there is no local port." (port-watcher.c, call_local_port_changed_callbacks):
\* when the datapath's ports never changed, its local port is passed.
LocalPortPassed == changes = 0 => pw.local # "none"
=============================================================================
