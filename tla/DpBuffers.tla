------------------------------ MODULE DpBuffers ------------------------------
(***************************************************************************)
(* The packet buffers of the datapath (udatapath/dp_buffers.c) together    *)
(* with the life of the packets they hold (udatapath/packet.c).            *)
(*                                                                         *)
(* A packet that is sent to the controller is kept in one of a ring of     *)
(* slots so that a later packet-out or flow-mod can name it by its buffer  *)
(* id.  A buffer id is a slot number and a cookie; the model keeps it as   *)
(* the pair <<cookie, slot>>.  The code that processes packets owns a      *)
(* stack of them: processing a packet may clone it and run the clone       *)
(* through the tables before it goes on (OFPP_TABLE, groups).              *)
(***************************************************************************)
EXTENDS Integers, Sequences, FiniteSets

CONSTANTS
    Packets,        \* identities of struct packet allocations
    NULL,           \* the null pointer
    NBuffers,       \* N_PKT_BUFFERS
    MaxCookie,      \* 2^PKT_COOKIE_BITS - 1, the cookie of the all-ones id
    OVERWRITE_SECS, \* seconds a saved packet is protected from overwriting
    MaxTime         \* bound of the clock

ASSUME BuffersAssumption ==
    /\ NULL \notin Packets
    /\ NBuffers \in Nat \ {0}
    /\ MaxCookie \in Nat \ {0}
    /\ OVERWRITE_SECS \in Nat \ {0}
    /\ MaxTime \in Nat

VARIABLES
    buffers,    \* the slots: packet, cookie and timeout
    buffer_idx, \* the slot used last
    pkts,       \* every packet: is it allocated, and its buffer_id
    stack,      \* the packets the running code owns, innermost last
    forgotten,  \* packets that their last owner neither kept nor destroyed
    now         \* time_now()

vars == <<buffers, buffer_idx, pkts, stack, forgotten, now>>

Slots == 0 .. NBuffers - 1

\* UINT32_MAX, the cookie of a slot never used: one more is 0.
UnusedCookie == -1

Ids == (0 .. MaxCookie) \X Slots

\* The all-ones id.
NO_BUFFER == <<MaxCookie, NBuffers - 1>>

Id(i) == <<buffers[i].cookie, i>>

TypeOK ==
    /\ buffers \in [Slots -> [pkt : Packets \cup {NULL},
                              cookie : {UnusedCookie} \cup 0 .. MaxCookie - 1,
                              timeout : Nat]]
    /\ buffer_idx \in Slots
    /\ pkts \in [Packets -> [alloc : BOOLEAN, buffer_id : Ids]]
    /\ stack \in Seq(Packets)
    /\ forgotten \subseteq Packets
    /\ now \in Nat

\* dp_buffers_create; (size_t)-1 and N - 1 have the same successor.
Init ==
    /\ buffers = [i \in Slots |->
                     [pkt |-> NULL, cookie |-> UnusedCookie, timeout |-> 0]]
    /\ buffer_idx = NBuffers - 1
    /\ pkts = [p \in Packets |-> [alloc |-> FALSE, buffer_id |-> NO_BUFFER]]
    /\ stack = << >>
    /\ forgotten = {}
    /\ now = 0

Top == stack[Len(stack)]
Pop == SubSeq(stack, 1, Len(stack) - 1)

dp_buffers_is_alive(id) ==
    /\ buffers[id[2]].cookie = id[1]
    /\ now < buffers[id[2]].timeout

NextCookie(c) == IF c + 1 >= MaxCookie THEN 0 ELSE c + 1

\* A packet received on a port, sent by the controller, or cloned.
packet_create(p) ==
    /\ ~pkts[p].alloc
    /\ pkts' = [pkts EXCEPT ![p] = [alloc |-> TRUE, buffer_id |-> NO_BUFFER]]
    /\ stack' = Append(stack, p)
    /\ UNCHANGED <<buffers, buffer_idx, forgotten, now>>

\* Mutant: any slot may be overwritten.
NeverProtected(b) == FALSE

\* The slot may not be overwritten yet.
Protected(b) == b.pkt # NULL /\ now < b.timeout

\* The packets once the one in hand has taken the slot of old under id: old,
\* if there is one, is destroyed.
Saved(old, id) ==
    [p \in Packets |->
        [alloc     |-> pkts[p].alloc /\ p # old,
         buffer_id |-> IF p = Top THEN id
                       ELSE IF p = old THEN NO_BUFFER ELSE pkts[p].buffer_id]]

\* The packet in hand is sent to the controller.
dp_buffers_save ==
    /\ stack # << >>
    /\ ~(pkts[Top].buffer_id # NO_BUFFER /\ dp_buffers_is_alive(pkts[Top].buffer_id))
    /\ LET i == (buffer_idx + 1) % NBuffers
           c == NextCookie(buffers[i].cookie)
       IN  /\ buffer_idx' = i
           /\ IF Protected(buffers[i])
              THEN UNCHANGED <<buffers, pkts>>
              ELSE /\ buffers' = [buffers EXCEPT ![i] =
                                    [pkt |-> Top, cookie |-> c,
                                     timeout |-> now + OVERWRITE_SECS]]
                   /\ pkts' = Saved(buffers[i].pkt, <<c, i>>)
    /\ UNCHANGED <<stack, forgotten, now>>

\* Mutant: the slot keeps the packet.
EmptySlotForgotten(i) == buffers

EmptySlot(i) == [buffers EXCEPT ![i].pkt = NULL]

\* The controller names a buffer in a packet-out or a flow-mod.
dp_buffers_retrieve(id) ==
    LET b == buffers[id[2]]
    IN  /\ stack = << >>
        /\ id # NO_BUFFER
        /\ b.cookie = id[1]
        /\ b.pkt # NULL
        /\ pkts' = [pkts EXCEPT ![b.pkt].buffer_id = NO_BUFFER]
        /\ buffers' = EmptySlot(id[2])
        /\ stack' = << b.pkt >>
        /\ UNCHANGED <<buffer_idx, forgotten, now>>

\* The slot a destroyed packet leaves: dp_buffers_discard(.., false).
dp_buffers_discard(id) ==
    IF buffers[id[2]].cookie = id[1] THEN EmptySlot(id[2]) ELSE buffers

\* The code in hand is done with its packet.
packet_destroy ==
    /\ stack # << >>
    /\ LET id == pkts[Top].buffer_id
       IN  IF id # NO_BUFFER /\ dp_buffers_is_alive(id)
           THEN UNCHANGED <<buffers, pkts>>
           ELSE /\ buffers' = IF id # NO_BUFFER
                              THEN dp_buffers_discard(id) ELSE buffers
                /\ pkts' = [pkts EXCEPT ![Top].alloc = FALSE]
    /\ stack' = Pop
    /\ UNCHANGED <<buffer_idx, forgotten, now>>

\* The code in hand returns without packet_destroy, as pipeline_arp_path does
\* with every frame it sends on: if no slot has the packet, nobody has.
handler_returns ==
    /\ stack # << >>
    /\ stack' = Pop
    /\ forgotten' = IF \E i \in Slots : buffers[i].pkt = Top
                    THEN forgotten ELSE forgotten \cup {Top}
    /\ UNCHANGED <<buffers, buffer_idx, pkts, now>>

Tick ==
    /\ now < MaxTime
    /\ now' = now + 1
    /\ UNCHANGED <<buffers, buffer_idx, pkts, stack, forgotten>>

Step ==
    \/ \E p \in Packets : packet_create(p)
    \/ dp_buffers_save
    \/ \E id \in Ids : dp_buffers_retrieve(id)
    \/ packet_destroy
    \/ handler_returns

Next == Step \/ Tick

Spec == Init /\ [][Next]_vars

\* time_now() is the same from the creation of a packet to its destruction.
QuickNext == Step \/ (stack = << >> /\ Tick)

QuickSpec == Init /\ [][QuickNext]_vars

-----------------------------------------------------------------------------
(* Properties.                                                             *)

\* An occupied slot holds an allocated packet that carries the slot's own id,
\* so dp_buffers_retrieve can neither return freed memory nor a packet other
\* than the one whose id the controller names.
BufferOwnership ==
    \A i \in Slots : buffers[i].pkt # NULL =>
        /\ pkts[buffers[i].pkt].alloc
        /\ pkts[buffers[i].pkt].buffer_id = Id(i)

\* The packets that are allocated and that nobody will ever free.
Lost ==
    {p \in Packets : /\ pkts[p].alloc
                     /\ \A k \in 1 .. Len(stack) : stack[k] # p
                     /\ \A i \in Slots : buffers[i].pkt # p}

\* Saving, overwriting, retrieving and destroying lose no packet, whoever else
\* holds it: packet_destroy leaves a saved packet to its slot, and a slot lets a
\* packet go only to the free or to running code.  The packets that are lost are
\* those of handlers that returned without packet_destroy.
LostByHandlersOnly == Lost = forgotten

\* dp_buffers_save, 115-132: while its timeout has not come a saved packet
\* leaves its slot only to the controller that retrieves it.
ProtectedUntilTimeout ==
    [][\A i \in Slots :
          buffers[i].pkt # NULL /\ now < buffers[i].timeout
          /\ buffers'[i].pkt # buffers[i].pkt
            => stack = << >> /\ stack' = << buffers[i].pkt >>]_vars

\* dp_buffers_save, 133-136: no slot ever gets the id that means "none".
ReservedIdNeverIssued == \A i \in Slots : Id(i) # NO_BUFFER

\* The note above struct dp_buffers: a packet is only saved once.
SavedOnce ==
    \A i, j \in Slots :
        buffers[i].pkt # NULL /\ buffers[i].pkt = buffers[j].pkt => i = j
=============================================================================
