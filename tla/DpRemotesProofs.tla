-------------------------- MODULE DpRemotesProofs --------------------------
(***************************************************************************)
(* At most one controller is master, and masters only give way to          *)
(* generations that are not older, for any number of connections, any      *)
(* width of the generation id and any length of the queues.                *)
(***************************************************************************)
EXTENDS DpRemotes, TLAPS

\* A leaf is for SMT alone; those that it does not find name Zenon.
USE SMTT(30)

\* What the proofs need of the types.
RolesTyped ==
    /\ remotes \subseteq Remotes
    /\ role \in [Remotes -> Roles]
    /\ generation_id \in GenIds

IInv == RolesTyped /\ AtMostOneMaster

\* The actions other than a role request, a new and a lost connection leave the
\* remotes, their roles and the generation id alone.
LEMMA OthersKeepRoles ==
    ASSUME NEW r \in Remotes,
           \/ rconn_run(r)
           \/ \E cfg \in AsyncConfigs : dp_handle_async_request(r, cfg)
           \/ \E flags \in {"FRAG_NORMAL", "FRAG_DROP"} : handle_control_set_config(r, flags)
           \/ \E local \in BOOLEAN : handle_control_port_mod(r, local)
           \/ handle_control_mod(r)
           \/ handle_control_request(r)
    PROVE  UNCHANGED <<remotes, role, generation_id>>
  BY ZenonT(60) DEF rconn_run, dp_handle_async_request, handle_control_set_config,
         handle_control_port_mod, handle_control_mod, handle_control_request

\* A role request that changes a role: it makes its sender equal, the only
\* master, or a slave; and the generation id never goes back.
LEMMA RoleRequest ==
    ASSUME RolesTyped, NEW r \in Remotes,
           NEW asked \in Roles \cup {"NOCHANGE", "UNKNOWN"}, NEW gid \in GenIds,
           dp_handle_role_request(r, asked, gid)
    PROVE  /\ remotes' = remotes /\ r \in remotes
           /\ \/ role' = role /\ generation_id' = generation_id
              \/ role' = [role EXCEPT ![r] = "EQUAL"] /\ generation_id' = generation_id
              \/ role' = MasterIs(r) /\ generation_id' = gid /\ ~Stale(gid)
              \/ role' = [role EXCEPT ![r] = "SLAVE"] /\ generation_id' = gid /\ ~Stale(gid)
  BY DEF dp_handle_role_request, Receives

\* Requests name a role and a generation id.
LEMMA RequestsTyped ==
    \A req \in RoleRequests :
        req[1] \in Roles \cup {"NOCHANGE", "UNKNOWN"} /\ req[2] \in GenIds
  BY RemotesAssumption DEF RoleRequests, Roles, GenIds

\* The roles and the generation keep their types, and no step makes a second
\* master: a request demotes the old one, a new connection begins as equal.
LEMMA StepKeepsOneMaster == IInv /\ [RemotesNext]_remotesVars => IInv'
<1> SUFFICES ASSUME IInv, [RemotesNext]_remotesVars PROVE IInv'
  OBVIOUS
<1> USE DEF IInv
<1>1. CASE UNCHANGED <<remotes, role, generation_id>>
  BY <1>1 DEF RolesTyped, AtMostOneMaster
<1>2. ASSUME NEW r \in Remotes, remote_create(r) PROVE IInv'
  BY <1>2 DEF remote_create, RolesTyped, AtMostOneMaster, Roles
<1>3. ASSUME NEW r \in Remotes, remote_destroy(r) PROVE IInv'
  BY <1>3 DEF remote_destroy, RolesTyped, AtMostOneMaster, Roles
<1>4. ASSUME NEW r \in Remotes, NEW asked \in Roles \cup {"NOCHANGE", "UNKNOWN"},
             NEW gid \in GenIds, dp_handle_role_request(r, asked, gid)
      PROVE  IInv'
  <2>1. remotes' = remotes /\ r \in remotes
    BY <1>4, RoleRequest
  <2>2. CASE role' = role /\ generation_id' = generation_id
    BY <1>1, <2>1, <2>2
  <2>3. CASE role' = [role EXCEPT ![r] = "EQUAL"] /\ generation_id' = generation_id
    BY <2>1, <2>3 DEF RolesTyped, AtMostOneMaster, Roles
  <2>4. CASE role' = MasterIs(r) /\ generation_id' = gid
    BY <2>1, <2>4 DEF RolesTyped, AtMostOneMaster, Roles, MasterIs
  <2>5. CASE role' = [role EXCEPT ![r] = "SLAVE"] /\ generation_id' = gid
    BY <2>1, <2>5 DEF RolesTyped, AtMostOneMaster, Roles
  <2> QED
    BY <1>4, <2>2, <2>3, <2>4, <2>5, RoleRequest
<1>5. ASSUME NEW type, NEW reason, AsyncMessage(type, reason) PROVE IInv'
  BY <1>1, <1>5 DEF AsyncMessage
<1>6. CASE UNCHANGED remotesVars
  BY <1>1, <1>6 DEF remotesVars
<1> QED
  BY <1>1, <1>2, <1>3, <1>4, <1>5, <1>6, OthersKeepRoles, RequestsTyped DEF RemotesNext

LEMMA InitOneMaster == RemotesInit => IInv
  BY RemotesAssumption DEF RemotesInit, IInv, RolesTyped, AtMostOneMaster, Roles, GenIds

\* There is never more than one master (dp_handle_role_request).
THEOREM OneMasterHolds == RemotesSpec => []AtMostOneMaster
<1>1. IInv => AtMostOneMaster
  BY DEF IInv
<1> QED
  BY <1>1, InitOneMaster, StepKeepsOneMaster, PTL DEF RemotesSpec

\* In one step a master becomes a slave only when the generation id moves
\* forward by less than half of its range, or stays.
LEMMA YieldStep ==
    ASSUME RolesTyped, [RemotesNext]_remotesVars, NEW r \in Remotes,
           role[r] = "MASTER", role'[r] = "SLAVE"
    PROVE  (generation_id' - generation_id) % GenModulus < GenModulus \div 2
<1>1. CASE UNCHANGED <<remotes, role, generation_id>>
  BY <1>1
<1>2. ASSUME NEW s \in Remotes, remote_create(s) \/ remote_destroy(s) PROVE FALSE
  BY <1>2 DEF remote_create, remote_destroy, RolesTyped
<1>3. ASSUME NEW s \in Remotes, NEW asked \in Roles \cup {"NOCHANGE", "UNKNOWN"},
             NEW gid \in GenIds, dp_handle_role_request(s, asked, gid)
      PROVE  (generation_id' - generation_id) % GenModulus < GenModulus \div 2
  <2>1. role' # role /\ role' # [role EXCEPT ![s] = "EQUAL"]
    BY DEF RolesTyped
  <2>2. generation_id' = gid /\ ~Stale(gid)
    BY <1>3, <2>1, RoleRequest
  <2> QED
    BY <2>2, RemotesAssumption DEF Stale, RolesTyped, GenIds
<1>4. ASSUME NEW type, NEW reason, AsyncMessage(type, reason)
      PROVE  UNCHANGED <<remotes, role, generation_id>>
  BY <1>4 DEF AsyncMessage
<1>5. CASE UNCHANGED remotesVars
  BY <1>1, <1>5 DEF remotesVars
<1> QED
  BY <1>1, <1>2, <1>3, <1>4, <1>5, OthersKeepRoles, RequestsTyped DEF RemotesNext

\* A controller with an old view of who is master never takes the datapath from
\* one with a newer view (dp_check_generation_id).
THEOREM YieldsToNewerHolds == RemotesSpec => MasterYieldsToNewer
<1>1. IInv /\ [RemotesNext]_remotesVars
        => [\A r \in Remotes :
              role[r] = "MASTER" /\ role'[r] = "SLAVE"
                => (generation_id' - generation_id) % GenModulus < GenModulus \div 2]_remotesVars
  BY YieldStep DEF IInv
<1> QED
  BY <1>1, InitOneMaster, StepKeepsOneMaster, PTL DEF RemotesSpec, MasterYieldsToNewer

-----------------------------------------------------------------------------
(* Types, and with them the limit of the transmit queues.                  *)

\* The part of the type that sending a message can disturb.
SendTyped ==
    /\ conn \in [Remotes -> {"ACTIVE", "VOID"}]
    /\ n_txq \in [Remotes -> 0 .. TXQ_LIMIT]
    /\ running \in BOOLEAN

\* What is not refused finds room in the queue (rconn_send_with_limit).
LEMMA QueueHasRoom ==
    ASSUME SendTyped, NEW r \in Remotes, NEW outcome
    PROVE  /\ QueuedAfter(r, outcome) \in 0 .. TXQ_LIMIT
           /\ ConnAfter(r, outcome) \in {"ACTIVE", "VOID"}
  BY RemotesAssumption DEF SendTyped, QueuedAfter, ConnAfter, Refused

\* An answer keeps the types.
LEMMA ReplyTyped ==
    ASSUME SendTyped, NEW r \in Remotes, ReplyTo(r)
    PROVE  SendTyped'
<1>1. PICK outcome \in Outcomes :
        /\ n_txq' = [n_txq EXCEPT ![r] = QueuedAfter(r, outcome)]
        /\ conn' = [conn EXCEPT ![r] = ConnAfter(r, outcome)]
        /\ running' = ~Refused(r)
  BY ZenonT(60) DEF ReplyTo
<1>2. running' \in BOOLEAN
  BY <1>1
<1>3. /\ QueuedAfter(r, outcome) \in 0 .. TXQ_LIMIT
      /\ ConnAfter(r, outcome) \in {"ACTIVE", "VOID"}
  BY QueueHasRoom
<1> QED BY <1>1, <1>2, <1>3 DEF SendTyped

\* A message to all who want it keeps the types.
LEMMA BroadcastTyped ==
    ASSUME SendTyped, NEW type, NEW reason, NEW local, Broadcast(type, reason, local)
    PROVE  SendTyped'
<1>1. PICK outcome \in [Receivers(type, reason, local) -> Outcomes] :
        /\ n_txq' = [r \in Remotes |-> IF r \in DOMAIN outcome
                                       THEN QueuedAfter(r, outcome[r]) ELSE n_txq[r]]
        /\ conn' = [r \in Remotes |-> IF r \in DOMAIN outcome
                                      THEN ConnAfter(r, outcome[r]) ELSE conn[r]]
        /\ running' = running
  BY DEF Broadcast
<1>2. \A r \in Remotes : /\ QueuedAfter(r, outcome[r]) \in 0 .. TXQ_LIMIT
                          /\ ConnAfter(r, outcome[r]) \in {"ACTIVE", "VOID"}
  BY QueueHasRoom
<1>3. n_txq' \in [Remotes -> 0 .. TXQ_LIMIT]
  BY <1>1, <1>2 DEF SendTyped
<1>4. conn' \in [Remotes -> {"ACTIVE", "VOID"}]
  BY <1>1, <1>2 DEF SendTyped
<1> QED BY <1>1, <1>3, <1>4 DEF SendTyped

\* The rest of the type.
OtherTyped ==
    /\ config \in [Remotes -> AsyncConfig]
    /\ dpconfig \in {"FRAG_NORMAL", "FRAG_DROP"}

TInv == IInv /\ SendTyped /\ OtherTyped

LEMMA EverythingTyped == Everything \in AsyncConfig
  BY DEF Everything, AsyncConfig

LEMMA StepKeepsTypes == TInv /\ [RemotesNext]_remotesVars => TInv'
<1> SUFFICES ASSUME TInv, [RemotesNext]_remotesVars PROVE SendTyped' /\ OtherTyped'
  BY StepKeepsOneMaster DEF TInv
<1>0. SendTyped /\ OtherTyped
  BY DEF TInv
<1>1. ASSUME NEW r \in Remotes, remote_create(r) PROVE SendTyped' /\ OtherTyped'
  BY <1>0, <1>1, EverythingTyped, RemotesAssumption DEF remote_create, SendTyped, OtherTyped
<1>2. ASSUME NEW r \in Remotes, remote_destroy(r) PROVE SendTyped' /\ OtherTyped'
  BY <1>0, <1>2, EverythingTyped, RemotesAssumption DEF remote_destroy, SendTyped, OtherTyped
<1>3. ASSUME NEW r \in Remotes, rconn_run(r) PROVE SendTyped' /\ OtherTyped'
  BY <1>0, <1>3, RemotesAssumption DEF rconn_run, SendTyped, OtherTyped
<1>4. ASSUME NEW r \in Remotes, NEW asked, NEW gid, dp_handle_role_request(r, asked, gid)
      PROVE  SendTyped' /\ OtherTyped'
  BY <1>0, <1>4, ReplyTyped DEF dp_handle_role_request, OtherTyped
<1>5. ASSUME NEW r \in Remotes, NEW cfg \in AsyncConfigs, dp_handle_async_request(r, cfg)
      PROVE  SendTyped' /\ OtherTyped'
  BY <1>0, <1>5, RemotesAssumption DEF dp_handle_async_request, SendTyped, OtherTyped
<1>6. ASSUME NEW r \in Remotes, NEW flags \in {"FRAG_NORMAL", "FRAG_DROP"},
             handle_control_set_config(r, flags)
      PROVE  SendTyped' /\ OtherTyped'
  BY <1>0, <1>6 DEF handle_control_set_config, SendTyped, OtherTyped
<1>7. ASSUME NEW r \in Remotes, NEW local \in BOOLEAN, handle_control_port_mod(r, local)
      PROVE  SendTyped' /\ OtherTyped'
  BY <1>0, <1>7, ReplyTyped, BroadcastTyped DEF handle_control_port_mod, OtherTyped
<1>8. ASSUME NEW r \in Remotes, handle_control_mod(r) PROVE SendTyped' /\ OtherTyped'
  <2>1. SendTyped'
    BY ZenonT(60), <1>0, <1>8, ReplyTyped, BroadcastTyped DEF handle_control_mod, SendTyped
  <2> QED BY <1>0, <1>8, <2>1 DEF handle_control_mod, OtherTyped
<1>9. ASSUME NEW r \in Remotes, handle_control_request(r) PROVE SendTyped' /\ OtherTyped'
  BY <1>0, <1>9, ReplyTyped DEF handle_control_request, OtherTyped
<1>10. ASSUME NEW type, NEW reason, AsyncMessage(type, reason) PROVE SendTyped' /\ OtherTyped'
  BY ZenonT(60), <1>0, <1>10, BroadcastTyped DEF AsyncMessage, OtherTyped
<1>11. CASE UNCHANGED remotesVars
  BY <1>0, <1>11 DEF remotesVars, SendTyped, OtherTyped
<1> QED
  BY <1>1, <1>2, <1>3, <1>4, <1>5, <1>6, <1>7, <1>8, <1>9, <1>10, <1>11 DEF RemotesNext

\* The state keeps its types; in particular no queue ever holds more than
\* TXQ_LIMIT messages, whatever mix of answers and events is sent
\* (rconn_send_with_limit).
THEOREM RemotesTyped == RemotesSpec => []RemotesTypeOK
<1>1. RemotesInit => TInv
  <2> SUFFICES ASSUME RemotesInit PROVE TInv
    OBVIOUS
  <2>1. SendTyped
    BY RemotesAssumption DEF RemotesInit, SendTyped
  <2>2. OtherTyped
    BY EverythingTyped DEF RemotesInit, OtherTyped
  <2> QED BY <2>1, <2>2, InitOneMaster DEF TInv
<1>2. TInv => RemotesTypeOK
  BY DEF TInv, IInv, RolesTyped, SendTyped, OtherTyped, RemotesTypeOK
<1> QED
  BY <1>1, <1>2, StepKeepsTypes, PTL DEF RemotesSpec
=============================================================================
