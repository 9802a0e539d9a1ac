---------------------------- MODULE TableFeatures ----------------------------
(***************************************************************************)
(* The table features request (udatapath/pipeline.c): a controller changes *)
(* which tables the pipeline has, with a request that may come in several  *)
(* messages, and is told the tables there are in an answer of several      *)
(* messages.                                                               *)
(*                                                                         *)
(* A struct ofl_table_features is [table_id, fits, parts]: fits says that  *)
(* max_entries is not above FLOW_TABLE_MAX_ENTRIES; parts names the        *)
(* allocated blocks it points to (properties and name).  Copies of a       *)
(* struct share them.                                                      *)
(***************************************************************************)
EXTENDS Integers, Sequences, FiniteSets

CONSTANTS
    Controllers,       \* the remotes
    SlaveControllers,  \* those with the role OFPCR_ROLE_SLAVE
    PipelineTables,    \* PIPELINE_TABLES
    TablesPerReply,    \* 8 in the code
    Xids,              \* transaction ids
    Bodies,            \* bodies of requests: sequences of [table_id, fits]
    MaxRequests        \* bound on the messages of a behaviour

ASSUME TableFeaturesConstants ==
    /\ SlaveControllers \subseteq Controllers
    /\ {PipelineTables, TablesPerReply, MaxRequests} \subseteq Nat \ {0}
    /\ \A b \in Bodies : \A i \in DOMAIN b : b[i].table_id \in Nat /\ b[i].fits \in BOOLEAN

VARIABLES
    pl_tables,   \* pl->tables: [disabled, parts]
    mp_req,      \* remote->mp_req_msg and mp_req_xid: <<>> is NULL
    blocks,      \* the blocks that are allocated
    freed_twice, \* has a block been freed twice?  (Undefined behaviour: the end.)
    answer,      \* what the last message was answered with
    named,       \* tables named by the messages of each unfinished request
    requests     \* messages so far

featureVars == <<pl_tables, mp_req, blocks, freed_twice, answer, named, requests>>

TableIds == 0..(PipelineTables - 1)

TableOrder == [i \in 1..PipelineTables |-> i - 1]

NoAnswer(r) == [to |-> r, error |-> "", asked |-> {}, replies |-> <<>>]

\* flow_table_create, for every table.
FeaturesInit ==
    /\ pl_tables = [t \in TableIds |-> [disabled |-> FALSE, parts |-> t]]
    /\ mp_req = [r \in Controllers |-> <<>>]
    /\ blocks = TableIds
    /\ freed_twice = FALSE
    /\ \E r \in Controllers : answer = NoAnswer(r)
    /\ named = [r \in Controllers |-> {}]
    /\ requests = 0

-----------------------------------------------------------------------------
Parts(feat) == [i \in DOMAIN feat |-> feat[i].parts]

Elements(s) == {s[i] : i \in DOMAIN s}

TablesOf(feat) == {feat[i].table_id : i \in DOMAIN feat}

\* The message msg has come in new blocks, and the blocks ps are freed.
Memory(msg, ps) ==
    LET have == blocks \cup Elements(Parts(msg))
    IN  /\ blocks' = have \ Elements(ps)
        /\ freed_twice' = \/ ~(Elements(ps) \subseteq have)
                          \/ \E i, j \in DOMAIN ps : i # j /\ ps[i] = ps[j]

Unpacked(body) ==
    [i \in DOMAIN body |-> [table_id |-> body[i].table_id, fits |-> body[i].fits,
                            parts |-> PipelineTables + 10 * requests + i]]

\* The structs are copied; the copies point to the parts of the originals.
ofl_msg_merge_multipart_request_table_features(orig, merge) == orig \o merge

\* The loop over the messages of the reply.
TablesReply(ts) ==
    LET from[t \in 0..PipelineTables] ==
            LET rest == SelectSeq(TableOrder, LAMBDA u : u >= t /\ ~ts[u].disabled)
                full == Len(rest) >= TablesPerReply
                table_id == IF full THEN rest[TablesPerReply] + 1 ELSE PipelineTables
                features == IF full THEN SubSeq(rest, 1, TablesPerReply) ELSE rest
            IN  <<[tables |-> features, more |-> table_id # PipelineTables]>>
                \o IF table_id < PipelineTables THEN from[table_id] ELSE <<>>
    IN  from[0]

\* Is there a later struct for the same table?
Overtaken(feat, i) == \E k \in DOMAIN feat : k > i /\ feat[k].table_id = feat[i].table_id

\* "Replace whole table feature": what each struct of feat replaces is freed.
ReplacedParts(feat) ==
    LET old == SelectSeq(TableOrder, LAMBDA t : t \in TablesOf(feat))
        passed == SelectSeq([i \in DOMAIN feat |-> i], LAMBDA i : Overtaken(feat, i))
    IN  [i \in DOMAIN old |-> pl_tables[old[i]].parts]
        \o [i \in DOMAIN passed |-> feat[passed[i]].parts]

UpdatedTables(feat) ==
    IF feat = <<>> THEN pl_tables
    ELSE [t \in TableIds |->
            IF t \in TablesOf(feat)
            THEN [disabled |-> FALSE,
                  parts |-> (CHOOSE f \in {feat[i] : i \in {k \in DOMAIN feat :
                                                              ~Overtaken(feat, k)}} :
                                f.table_id = t).parts]
            ELSE [pl_tables[t] EXCEPT !.disabled = TRUE]]

\* A handler that returns with an error leaves the message to remote_run, which
\* frees it.
RequestRefused(r, msg, error) ==
    /\ answer' = [NoAnswer(r) EXCEPT !.error = error]
    /\ Memory(msg, Parts(msg))
    /\ UNCHANGED <<pl_tables, mp_req, named>>

\* An unfinished request: its first messages are kept, and those that brought
\* them are not freed.
Kept(r, msg, xid, feat) ==
    /\ mp_req' = [mp_req EXCEPT ![r] = <<[xid |-> xid, feat |-> feat]>>]
    /\ named' = [named EXCEPT ![r] = @ \cup TablesOf(msg)]
    /\ answer' = NoAnswer(r)
    /\ Memory(msg, <<>>)
    /\ UNCHANGED pl_tables

\* Mutant: the last message of a request is freed when it has been merged.
CompleteAndFree(r, msg, feat) ==
    /\ mp_req' = [mp_req EXCEPT ![r] = <<>>]
    /\ named' = [named EXCEPT ![r] = {}]
    /\ pl_tables' = UpdatedTables(feat)
    /\ answer' = [NoAnswer(r) EXCEPT !.replies = TablesReply(pl_tables')]
    /\ Memory(msg, ReplacedParts(feat) \o (IF mp_req[r] # <<>> THEN Parts(msg) ELSE <<>>))

\* The request is complete: feat is msg, or the reassembled request, which is
\* freed after its structs were taken from it.  ("Table-IDs must be in ascending
\* order": they are compared with 0.)
Complete(r, msg, feat) ==
    LET saved == mp_req[r] # <<>>
    IN  /\ mp_req' = [mp_req EXCEPT ![r] = <<>>]
        /\ named' = [named EXCEPT ![r] = {}]
        /\ IF \A i \in DOMAIN feat : feat[i].fits
           THEN /\ pl_tables' = UpdatedTables(feat)
                /\ answer' = [NoAnswer(r) EXCEPT !.asked = named[r] \cup TablesOf(msg),
                                                 !.replies = TablesReply(pl_tables')]
                /\ Memory(msg, ReplacedParts(feat))
           ELSE /\ pl_tables' = pl_tables
                /\ answer' = [NoAnswer(r) EXCEPT !.error = "BAD_ARGUMENT"]
                /\ Memory(msg, (IF saved THEN Parts(feat) ELSE <<>>) \o Parts(msg))

pipeline_handle_stats_request_table_features_request(r, xid, more, body) ==
    LET msg == Unpacked(body)
        merged == ofl_msg_merge_multipart_request_table_features(mp_req[r][1].feat, msg)
    IN  /\ ~freed_twice
        /\ requests < MaxRequests
        /\ requests' = requests + 1
        /\ IF \E i \in DOMAIN msg : msg[i].table_id >= PipelineTables
           THEN RequestRefused(r, msg, "BAD_TABLE")
           ELSE IF mp_req[r] = <<>>
           THEN IF more THEN Kept(r, msg, xid, msg) ELSE Complete(r, msg, msg)
           ELSE IF xid # mp_req[r][1].xid THEN RequestRefused(r, msg, "MULTIPART_BUFFER_OVERFLOW")
           ELSE IF more THEN Kept(r, msg, xid, merged) ELSE Complete(r, msg, merged)

\* remote_destroy: the connection is closed, and may come back as a new remote.
RemoteCloses(r) ==
    /\ ~freed_twice
    /\ mp_req[r] # <<>>
    /\ mp_req' = [mp_req EXCEPT ![r] = <<>>]
    /\ named' = [named EXCEPT ![r] = {}]
    /\ Memory(<<>>, Parts(mp_req[r][1].feat))
    /\ UNCHANGED <<pl_tables, answer, requests>>

FeaturesNext ==
    \E r \in Controllers :
        \/ \E xid \in Xids, more \in BOOLEAN, body \in Bodies :
              pipeline_handle_stats_request_table_features_request(r, xid, more, body)
        \/ RemoteCloses(r)

FeaturesSpec == FeaturesInit /\ [][FeaturesNext]_featureVars

-----------------------------------------------------------------------------
(* Properties. *)

\* Nothing the pipeline or an unfinished request points to has been freed,
\* although the structs of a reassembled request share their parts with the
\* messages that brought them (ofl_msg_merge_multipart_request_table_features).
FeaturesAlive ==
    ~freed_twice =>
        /\ \A t \in TableIds : pl_tables[t].parts \in blocks
        /\ \A r \in Controllers : mp_req[r] # <<>> =>
              Elements(Parts(mp_req[r][1].feat)) \subseteq blocks

\* The answer lists every table that is enabled, once and in order, its last
\* message and only the last is marked as such, and when the request named any
\* tables, in whichever of its messages, those are the ones.
AnswerIsComplete ==
    LET said == answer.replies
        listed == [i \in DOMAIN said |-> Elements(said[i].tables)]
    IN  said # <<>> =>
        /\ UNION Elements(listed) = {t \in TableIds : ~pl_tables[t].disabled}
        /\ answer.asked # {} => UNION Elements(listed) = answer.asked
        /\ \A i, j \in DOMAIN said : i < j =>
              \A t \in listed[i], u \in listed[j] : t < u
        /\ \A i \in DOMAIN said : /\ said[i].more <=> i # Len(said)
                                  /\ Len(said[i].tables) <= TablesPerReply

\* Requests in any number of messages, of several controllers at once, leave the
\* pipeline with tables that are in memory and are answered with all of them.
FeaturesAnswered == FeaturesAlive /\ AnswerIsComplete

\* dp_control.c: "if a handler returns with error, it did not use any part of
\* the control message, thus it can be freed up".
ErrorLeavesMessage == ~freed_twice

\* openflow.h: a slave has "read-only access" to the switch.
SlavesOnlyRead == [][pl_tables' # pl_tables => answer'.to \notin SlaveControllers]_featureVars
=============================================================================
