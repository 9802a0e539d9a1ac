----------------------------- MODULE DpRemotes -----------------------------
(***************************************************************************)
(* The controllers of a datapath: udatapath/datapath.c and the role checks *)
(* of the handlers in dp_control.c.  A remote is one accepted connection   *)
(* with a role, an asynchronous configuration and a count of the messages  *)
(* queued for it.  Roles are arbitrated by a generation id, an unsigned    *)
(* number that is compared as if it were signed.                           *)
(*                                                                         *)
(* A remote has one connection (no --multiconn).  The connection is the    *)
(* unreliable rconn of lib/rconn.c, which ends in S_VOID: what the network *)
(* takes, and when it fails, is a free choice.                             *)
(***************************************************************************)
EXTENDS Integers, FiniteSets

CONSTANTS
    Remotes,       \* the connections that controllers may make
    GenModulus,    \* the number of generation ids: 2^64 in the code
    TXQ_LIMIT,     \* messages queued for a remote before more are refused
    AsyncConfigs   \* the configurations controllers may ask for

PacketInReasons    == {"NO_MATCH", "ACTION", "INVALID_TTL"}
PortStatusReasons  == {"ADD", "DELETE", "MODIFY"}
FlowRemovedReasons == {"IDLE_TIMEOUT", "HARD_TIMEOUT", "DELETE", "GROUP_DELETE", "METER_DELETE"}

\* struct ofl_async_config.  Of the two masks of a kind the first is for
\* masters and equals, the second for slaves; nobody reads the second ones for
\* packet-ins and removed flows.
AsyncConfig ==
    [packet_in : SUBSET PacketInReasons,
     port_status : SUBSET PortStatusReasons,
     port_status_slave : SUBSET PortStatusReasons,
     flow_removed : SUBSET FlowRemovedReasons]

Roles == {"EQUAL", "MASTER", "SLAVE"}

GenIds == 0 .. GenModulus - 1

ASSUME RemotesAssumption ==
    /\ GenModulus \in Nat /\ GenModulus > 1 /\ GenModulus % 2 = 0
    /\ TXQ_LIMIT \in Nat \ {0}
    /\ AsyncConfigs \subseteq AsyncConfig

VARIABLES
    remotes,        \* dp->remotes: the connections that have a remote
    role, config,   \* of every remote
    conn,           \* the state of its rconn, "ACTIVE" or "VOID"
    n_txq,          \* and the messages queued there
    generation_id,
    dpconfig,       \* dp->config.flags: FRAG_NORMAL or FRAG_DROP
    running         \* FALSE once a buffer was destroyed twice

remotesVars == <<remotes, role, config, conn, n_txq, generation_id, dpconfig, running>>

Everything ==
    [packet_in |-> PacketInReasons, port_status |-> PortStatusReasons,
     port_status_slave |-> PortStatusReasons, flow_removed |-> FlowRemovedReasons]

\* dp_new.  The generation id -1 is the largest of its type.
RemotesInit ==
    /\ remotes = {}
    /\ role = [r \in Remotes |-> "EQUAL"]
    /\ config = [r \in Remotes |-> Everything]
    /\ conn = [r \in Remotes |-> "VOID"]
    /\ n_txq = [r \in Remotes |-> 0]
    /\ generation_id = GenModulus - 1
    /\ dpconfig = "FRAG_NORMAL"
    /\ running = TRUE

-----------------------------------------------------------------------------
(* Sending.                                                                *)

\* What the network does with a message: takes it, has no room, fails.
Outcomes == {"sent", "EAGAIN", "error"}

\* rconn_send_with_limit returns an error and has destroyed the message.
Refused(r) == n_txq[r] >= TXQ_LIMIT \/ conn[r] = "VOID"

\* rconn_send and try_send: the network is asked only when the queue was empty;
\* what it does not take stays queued, also when the connection is given up.
QueuedAfter(r, outcome) ==
    IF Refused(r) \/ (n_txq[r] = 0 /\ outcome = "sent") THEN n_txq[r] ELSE n_txq[r] + 1

ConnAfter(r, outcome) ==
    IF ~Refused(r) /\ n_txq[r] = 0 /\ outcome = "error" THEN "VOID" ELSE conn[r]

\* dp_send_message to the sender of a request.  When the message is refused
\* dp_send_message destroys it once more.
ReplyTo(r) ==
    \E outcome \in Outcomes :
        /\ n_txq' = [n_txq EXCEPT ![r] = QueuedAfter(r, outcome)]
        /\ conn' = [conn EXCEPT ![r] = ConnAfter(r, outcome)]
        /\ running' = ~Refused(r)

\* Does the configuration of remote r let an asynchronous message through?  In
\* the case of a port status send_openflow_buffer falls through to the test of a
\* removed flow and takes a byte of the port number for its reason: 0, which is
\* OFPRR_IDLE_TIMEOUT, unless it is the local port.
Wants(r, type, reason, local) ==
    IF role[r] # "SLAVE"
    THEN CASE type = "PACKET_IN" -> reason \in config[r].packet_in
           [] type = "PORT_STATUS" ->
                /\ reason \in config[r].port_status
                /\ local \/ "IDLE_TIMEOUT" \in config[r].flow_removed
           [] type = "FLOW_REMOVED" -> reason \in config[r].flow_removed
    ELSE type = "PORT_STATUS" /\ reason \in config[r].port_status_slave

Receivers(type, reason, local) == {r \in remotes : Wants(r, type, reason, local)}

\* dp_send_message to all remotes that want the message.
Broadcast(type, reason, local) ==
    \E outcome \in [Receivers(type, reason, local) -> Outcomes] :
        /\ n_txq' = [r \in Remotes |-> IF r \in DOMAIN outcome
                                       THEN QueuedAfter(r, outcome[r]) ELSE n_txq[r]]
        /\ conn' = [r \in Remotes |-> IF r \in DOMAIN outcome
                                      THEN ConnAfter(r, outcome[r]) ELSE conn[r]]
        /\ running' = running

-----------------------------------------------------------------------------
(* Connections.                                                            *)

\* dp_run accepts a connection: remote_create.
remote_create(r) ==
    /\ running
    /\ r \notin remotes
    /\ remotes' = remotes \cup {r}
    /\ role' = [role EXCEPT ![r] = "EQUAL"]
    /\ config' = [config EXCEPT ![r] = Everything]
    /\ conn' = [conn EXCEPT ![r] = "ACTIVE"]
    /\ n_txq' = [n_txq EXCEPT ![r] = 0]
    /\ UNCHANGED <<generation_id, dpconfig, running>>

\* rconn_run: some of the queue is sent, or the connection is given up; or
\* rconn_recv finds it closed.
rconn_run(r) ==
    /\ running
    /\ r \in remotes /\ conn[r] = "ACTIVE"
    /\ \/ n_txq' \in {[n_txq EXCEPT ![r] = n] : n \in 0 .. n_txq[r] - 1} /\ conn' = conn
       \/ conn' = [conn EXCEPT ![r] = "VOID"] /\ n_txq' = n_txq
    /\ UNCHANGED <<remotes, role, config, generation_id, dpconfig, running>>

\* Mutant: the queue has to be empty first.
DestroyedWhenFlushed(r) ==
    /\ n_txq[r] = 0
    /\ running
    /\ r \in remotes /\ conn[r] = "VOID"
    /\ remotes' = remotes \ {r}
    /\ UNCHANGED <<role, config, conn, n_txq, generation_id, dpconfig, running>>

\* remote_run finds the connection given up: remote_destroy.
remote_destroy(r) ==
    /\ running
    /\ r \in remotes /\ conn[r] = "VOID"
    /\ remotes' = remotes \ {r}
    /\ role' = [role EXCEPT ![r] = "EQUAL"]
    /\ config' = [config EXCEPT ![r] = Everything]
    /\ n_txq' = [n_txq EXCEPT ![r] = 0]
    /\ UNCHANGED <<conn, generation_id, dpconfig, running>>

-----------------------------------------------------------------------------
(* Messages from the controller of remote r: handle_control_msg.           *)

Receives(r) == running /\ r \in remotes /\ conn[r] = "ACTIVE"

\* The test of dp_check_generation_id: generation_id >= 0 is true of every
\* unsigned number, and the difference is negative as a signed number.
Stale(gid) == (gid - generation_id) % GenModulus >= GenModulus \div 2

\* Mutant: the old master is not demoted.
MasterBesides(r) == [role EXCEPT ![r] = "MASTER"]

\* The roles after r has become master.
MasterIs(r) ==
    [s \in Remotes |-> IF s = r THEN "MASTER"
                       ELSE IF s \in remotes /\ role[s] = "MASTER" THEN "SLAVE"
                       ELSE role[s]]

\* The generation id of the other requests is not looked at.
RoleRequests ==
    ({"MASTER", "SLAVE"} \X GenIds) \cup ({"EQUAL", "NOCHANGE", "UNKNOWN"} \X {0})

dp_handle_role_request(r, asked, gid) ==
    /\ Receives(r)
    /\ \/ /\ asked = "NOCHANGE" \/ asked = "UNKNOWN" \/ (asked # "EQUAL" /\ Stale(gid))
          /\ UNCHANGED <<role, generation_id>>
       \/ /\ asked = "EQUAL"
          /\ role' = [role EXCEPT ![r] = "EQUAL"]
          /\ UNCHANGED generation_id
       \/ /\ asked = "MASTER" /\ ~Stale(gid)
          /\ generation_id' = gid
          /\ role' = MasterIs(r)
       \/ /\ asked = "SLAVE" /\ ~Stale(gid)
          /\ generation_id' = gid
          /\ role' = [role EXCEPT ![r] = "SLAVE"]
    /\ ReplyTo(r)
    /\ UNCHANGED <<remotes, config, dpconfig>>

dp_handle_async_request(r, cfg) ==
    /\ Receives(r)
    /\ config' = [config EXCEPT ![r] = cfg]
    /\ UNCHANGED <<remotes, role, conn, n_txq, generation_id, dpconfig, running>>

\* OFPT_SET_CONFIG: carried out for every role, a slave's too.
handle_control_set_config(r, flags) ==
    /\ Receives(r)
    /\ dpconfig' = flags
    /\ UNCHANGED <<remotes, role, config, conn, n_txq, generation_id, running>>

\* The test that the handlers of packet-out, flow-mod, table-mod, group-mod,
\* port-mod and meter-mod begin with.
IsSlave(r) == role[r] = "SLAVE"

\* A port-mod, which all who want to know are told of, or the error message.
handle_control_port_mod(r, local) ==
    /\ Receives(r)
    /\ IF IsSlave(r) THEN ReplyTo(r) ELSE Broadcast("PORT_STATUS", "MODIFY", local)
    /\ UNCHANGED <<remotes, role, config, generation_id, dpconfig>>

\* What else a message that changes the datapath may cause to be sent: a
\* packet-out may go to the controllers, flows may go with what is deleted.
SideEffects ==
    {<< "PACKET_IN", "ACTION" >>, << "FLOW_REMOVED", "DELETE" >>,
     << "FLOW_REMOVED", "GROUP_DELETE" >>, << "FLOW_REMOVED", "METER_DELETE" >>}

\* The other messages that change the datapath are refused with an error message
\* or carried out, with or without messages to others.  A queue-mod, a
\* description and table features are carried out for a slave too.
handle_control_mod(r) ==
    /\ Receives(r)
    /\ \/ ReplyTo(r)
       \/ ~IsSlave(r) /\ \E m \in SideEffects : Broadcast(m[1], m[2], FALSE)
       \/ UNCHANGED <<conn, n_txq, running>>
    /\ UNCHANGED <<remotes, role, config, generation_id, dpconfig>>

\* A request that is only answered: echo, features, barrier, statistics.
handle_control_request(r) ==
    /\ Receives(r)
    /\ ReplyTo(r)
    /\ UNCHANGED <<remotes, role, config, generation_id, dpconfig>>

\* The pipeline sends a packet to the controllers, a flow entry times out.
AsyncMessage(type, reason) ==
    /\ running
    /\ Broadcast(type, reason, FALSE)
    /\ UNCHANGED <<remotes, role, config, generation_id, dpconfig>>

RemotesNext ==
    \/ \E r \in Remotes :
          \/ remote_create(r)
          \/ rconn_run(r)
          \/ remote_destroy(r)
          \/ \E req \in RoleRequests : dp_handle_role_request(r, req[1], req[2])
          \/ \E cfg \in AsyncConfigs : dp_handle_async_request(r, cfg)
          \/ \E flags \in {"FRAG_NORMAL", "FRAG_DROP"} : handle_control_set_config(r, flags)
          \/ \E local \in BOOLEAN : handle_control_port_mod(r, local)
          \/ handle_control_mod(r)
          \/ handle_control_request(r)
    \/ \E reason \in PacketInReasons : AsyncMessage("PACKET_IN", reason)
    \/ \E reason \in {"IDLE_TIMEOUT", "HARD_TIMEOUT"} : AsyncMessage("FLOW_REMOVED", reason)

RemotesSpec == RemotesInit /\ [][RemotesNext]_remotesVars

\* Every pass of dp_run runs every remote, and destroys the one whose connection
\* was given up.
RemotesFairSpec == RemotesSpec /\ \A r \in Remotes : WF_remotesVars(remote_destroy(r))

-----------------------------------------------------------------------------
(* Properties.                                                             *)

\* The state is of its type; no more than TXQ_LIMIT messages are queued.
RemotesTypeOK ==
    /\ remotes \subseteq Remotes
    /\ role \in [Remotes -> Roles]
    /\ config \in [Remotes -> AsyncConfig]
    /\ conn \in [Remotes -> {"ACTIVE", "VOID"}]
    /\ n_txq \in [Remotes -> 0 .. TXQ_LIMIT]
    /\ generation_id \in GenIds
    /\ dpconfig \in {"FRAG_NORMAL", "FRAG_DROP"}
    /\ running \in BOOLEAN

\* There is at most one master, whatever connections come and go and whatever
\* roles their controllers ask for (dp_handle_role_request).
AtMostOneMaster ==
    \A r, s \in remotes : role[r] = "MASTER" /\ role[s] = "MASTER" => r = s

\* A master that is made a slave, by its own request or by another's, gives way
\* to a generation that is not older: a controller with an old view never
\* takes the datapath from one with a newer view (dp_check_generation_id).
MasterYieldsToNewer ==
    [][\A r \in Remotes :
          role[r] = "MASTER" /\ role'[r] = "SLAVE"
              => (generation_id' - generation_id) % GenModulus < GenModulus \div 2]_remotesVars

\* A master whose connection was given up, with messages queued or not, does not
\* stay master (remote_run).
DeadMasterGoes ==
    \A r \in Remotes :
        r \in remotes /\ role[r] = "MASTER" /\ conn[r] = "VOID" /\ running
            ~> r \notin remotes \/ role[r] # "MASTER" \/ ~running

\* The comment on rconn_send_with_limit (lib/rconn.c:571): whatever it returns
\* the message is destroyed.  So nobody destroys it again.
BufferDestroyedOnce == running
=============================================================================
