--------------------------- MODULE DpBuffersProofs ---------------------------
(***************************************************************************)
(* BufferOwnership and LostByHandlersOnly hold for any number of packets   *)
(* and slots when time_now() does not change while a packet is being       *)
(* processed.                                                              *)
(***************************************************************************)
EXTENDS DpBuffers, SequenceTheorems, TLAPS

\* A leaf is for SMT alone; those that it does not find name Zenon.
USE SMTT(30)

\* An allocated packet is with running code, in a slot, or forgotten.
Owned ==
    \A p \in Packets : pkts[p].alloc =>
        \/ \E k \in 1 .. Len(stack) : stack[k] = p
        \/ \E i \in Slots : buffers[i].pkt = p
        \/ p \in forgotten

\* A packet that was forgotten stays so.
ForgottenForGood ==
    \A p \in forgotten : /\ pkts[p].alloc
                         /\ \A k \in 1 .. Len(stack) : stack[k] # p
                         /\ \A i \in Slots : buffers[i].pkt # p

\* The packets running code owns are allocated, and each is on the stack once.
StackOwned ==
    /\ \A k \in 1 .. Len(stack) : pkts[stack[k]].alloc
    /\ \A k, l \in 1 .. Len(stack) : stack[k] = stack[l] => k = l

\* An allocated packet with a buffer id is in the slot the id names.
IdNamesSlot ==
    \A p \in Packets : pkts[p].alloc /\ pkts[p].buffer_id # NO_BUFFER =>
        /\ buffers[pkts[p].buffer_id[2]].pkt = p
        /\ buffers[pkts[p].buffer_id[2]].cookie = pkts[p].buffer_id[1]

\* A packet in hand that was saved is still protected.
InHandProtected ==
    \A k \in 1 .. Len(stack) : pkts[stack[k]].buffer_id # NO_BUFFER =>
        now < buffers[pkts[stack[k]].buffer_id[2]].timeout

IInv ==
    /\ TypeOK
    /\ BufferOwnership
    /\ Owned
    /\ ForgottenForGood
    /\ StackOwned
    /\ IdNamesSlot
    /\ InHandProtected

USE BuffersAssumption

\* The id of no slot is NO_BUFFER: NextCookie never yields MaxCookie.
LEMMA SlotIds ==
    ASSUME TypeOK
    PROVE  \A i \in Slots : Id(i) # NO_BUFFER
  <1> TAKE i \in Slots
  <1>1. buffers[i] \in [pkt : Packets \cup {NULL},
                        cookie : {UnusedCookie} \cup 0 .. MaxCookie - 1,
                        timeout : Nat]
    BY DEF TypeOK
  <1>2. buffers[i].cookie # MaxCookie
    BY <1>1 DEF UnusedCookie
  <1> QED BY <1>2 DEF NO_BUFFER, Id

LEMMA InitIInv == Init => IInv
  BY DEF Init, IInv, TypeOK, BufferOwnership, Owned, ForgottenForGood, StackOwned, IdNamesSlot,
         InHandProtected, Slots, Ids, UnusedCookie, NO_BUFFER

LEMMA CreateIInv ==
    ASSUME IInv, NEW p \in Packets, packet_create(p)
    PROVE  IInv'
  <1> USE DEF IInv, packet_create
  <1>0. NO_BUFFER \in Ids
    BY DEF NO_BUFFER, Ids, Slots
  <1>1. TypeOK'
    BY <1>0 DEF TypeOK
  <1>2. /\ Len(stack') = Len(stack) + 1
        /\ \A k \in 1 .. Len(stack) : stack'[k] = stack[k] /\ stack[k] # p
        /\ stack'[Len(stack) + 1] = p
    BY DEF TypeOK, StackOwned
  <1>3. BufferOwnership'
    BY DEF TypeOK, BufferOwnership, Id
  <1>4. Owned'
    BY <1>2 DEF TypeOK, Owned
  <1>5. StackOwned'
    BY <1>2 DEF TypeOK, StackOwned
  <1>6. IdNamesSlot'
    BY DEF TypeOK, IdNamesSlot
  <1>7. InHandProtected'
    BY <1>2 DEF TypeOK, InHandProtected
  <1>8. ForgottenForGood'
    BY <1>2 DEF TypeOK, ForgottenForGood
  <1> QED BY <1>1, <1>3, <1>4, <1>5, <1>6, <1>7, <1>8

LEMMA RetrieveIInv ==
    ASSUME IInv, NEW id \in Ids, dp_buffers_retrieve(id)
    PROVE  IInv'
  <1> DEFINE q == buffers[id[2]].pkt
  <1>0. NO_BUFFER \in Ids /\ id[2] \in Slots
    BY DEF NO_BUFFER, Ids, Slots
  <1>1. /\ q \in Packets /\ pkts[q].alloc
        /\ \A i \in Slots : buffers[i].pkt = q => i = id[2]
    BY <1>0 DEF dp_buffers_retrieve, IInv, TypeOK, BufferOwnership, Id
  <1>2. /\ pkts' = [pkts EXCEPT ![q].buffer_id = NO_BUFFER]
        /\ buffers' = [buffers EXCEPT ![id[2]].pkt = NULL]
        /\ stack' = << q >>
        /\ UNCHANGED <<buffer_idx, forgotten, now>>
    BY DEF dp_buffers_retrieve, EmptySlot
  <1>3. TypeOK'
    <2>1. pkts' \in [Packets -> [alloc : BOOLEAN, buffer_id : Ids]]
      BY <1>0, <1>1, <1>2 DEF IInv, TypeOK
    <2>2. buffers' \in [Slots -> [pkt : Packets \cup {NULL},
                              cookie : {UnusedCookie} \cup 0 .. MaxCookie - 1,
                              timeout : Nat]]
      BY ZenonT(60), <1>0, <1>2 DEF IInv, TypeOK
    <2> QED BY <1>1, <1>2, <2>1, <2>2 DEF IInv, TypeOK
  <1>4. \A p \in Packets :
           /\ pkts'[p].alloc = pkts[p].alloc
           /\ p = q => pkts'[p].buffer_id = NO_BUFFER
           /\ p # q => pkts'[p].buffer_id = pkts[p].buffer_id
    BY <1>1, <1>2 DEF IInv, TypeOK
  <1>5. \A i \in Slots :
           /\ buffers'[i].cookie = buffers[i].cookie
           /\ i = id[2] => buffers'[i].pkt = NULL
           /\ i # id[2] => buffers'[i].pkt = buffers[i].pkt
    BY <1>0, <1>2 DEF IInv, TypeOK
  <1>6. Len(stack') = 1 /\ stack'[1] = q
    BY <1>2
  <1>7. BufferOwnership'
    <2> SUFFICES ASSUME NEW i \in Slots, buffers'[i].pkt # NULL
                 PROVE  /\ pkts'[buffers'[i].pkt].alloc
                        /\ pkts'[buffers'[i].pkt].buffer_id = <<buffers'[i].cookie, i>>
      BY DEF BufferOwnership, Id
    <2>1. i # id[2] /\ buffers'[i].pkt = buffers[i].pkt /\ buffers[i].pkt # q
          /\ buffers[i].pkt \in Packets
      BY <1>0, <1>1, <1>5 DEF IInv, TypeOK
    <2>2. BufferOwnership
      BY DEF IInv
    <2> QED BY <2>1, <2>2, <1>4, <1>5 DEF BufferOwnership, Id
  <1>8. Owned'
    <2> SUFFICES ASSUME NEW p \in Packets, pkts[p].alloc, p # q, p \notin forgotten
                 PROVE  \E i \in Slots : buffers'[i].pkt = p
      BY <1>2, <1>4, <1>6 DEF Owned
    <2>1. stack = << >> /\ Len(stack) = 0
      BY DEF dp_buffers_retrieve
    <2>2. PICK i \in Slots : buffers[i].pkt = p
      BY <2>1 DEF IInv, Owned
    <2> QED BY <2>2, <1>5
  <1>9. StackOwned'
    BY <1>1, <1>4, <1>6 DEF StackOwned
  <1>10. IdNamesSlot'
    <2> SUFFICES ASSUME NEW p \in Packets, pkts'[p].alloc,
                        pkts'[p].buffer_id # NO_BUFFER
                 PROVE  /\ buffers'[pkts'[p].buffer_id[2]].pkt = p
                        /\ buffers'[pkts'[p].buffer_id[2]].cookie = pkts'[p].buffer_id[1]
      BY DEF IdNamesSlot, NO_BUFFER
    <2>1. p # q /\ pkts[p].alloc /\ pkts'[p].buffer_id = pkts[p].buffer_id
          /\ pkts[p].buffer_id[2] \in Slots
      BY <1>4 DEF IInv, TypeOK, Ids
    <2>2. buffers[pkts[p].buffer_id[2]].pkt = p
          /\ buffers[pkts[p].buffer_id[2]].cookie = pkts[p].buffer_id[1]
      BY <2>1 DEF IInv, IdNamesSlot
    <2>3. pkts[p].buffer_id[2] # id[2]
      BY <2>1, <2>2
    <2> QED BY <2>1, <2>2, <2>3, <1>5
  <1>11. InHandProtected'
    <2> SUFFICES ASSUME NEW k \in 1 .. Len(stack')
                 PROVE  pkts'[stack'[k]].buffer_id = NO_BUFFER
      BY DEF InHandProtected, NO_BUFFER
    <2>1. stack'[k] = q
      BY <1>6
    <2> QED BY <2>1, <1>1, <1>4
  <1>12. ForgottenForGood'
    <2>1. q \notin forgotten
      BY <1>0 DEF IInv, ForgottenForGood
    <2> QED BY <2>1, <1>2, <1>4, <1>5, <1>6 DEF IInv, ForgottenForGood, TypeOK
  <1> QED BY <1>3, <1>7, <1>8, <1>9, <1>10, <1>11, <1>12 DEF IInv

LEMMA SaveIInv ==
    ASSUME IInv, dp_buffers_save
    PROVE  IInv'
  <1> DEFINE i == (buffer_idx + 1) % NBuffers
             old == buffers[i].pkt
             c == NextCookie(buffers[i].cookie)
  <1> HIDE DEF i, c
  <1>0. i \in Slots /\ c \in 0 .. MaxCookie - 1
    <2>1. i \in Slots
      BY DEF i, IInv, TypeOK, Slots
    <2>2. buffers[i].cookie \in {-1} \cup 0 .. MaxCookie - 1
      BY <2>1 DEF IInv, TypeOK, UnusedCookie
    <2> QED BY <2>1, <2>2 DEF c, NextCookie
  <1>1. CASE Protected(buffers[i])
    <2>1. UNCHANGED <<buffers, pkts, stack, forgotten, now>> /\ buffer_idx' = i
      BY <1>1 DEF dp_buffers_save, i
    <2> QED BY <1>0, <2>1 DEF IInv, TypeOK, BufferOwnership, Owned, ForgottenForGood,
                             StackOwned, IdNamesSlot, InHandProtected, Id, NO_BUFFER
  <1>2. CASE ~Protected(buffers[i])
    <2>1. /\ buffers' = [buffers EXCEPT ![i] = [pkt |-> Top, cookie |-> c,
                                               timeout |-> now + OVERWRITE_SECS]]
          /\ pkts' = Saved(old, <<c, i>>)
          /\ buffer_idx' = i
          /\ UNCHANGED <<stack, forgotten, now>>
      BY <1>2 DEF dp_buffers_save, i, c
    <2>2. /\ Top \in Packets /\ pkts[Top].alloc
          /\ Len(stack) \in 1 .. Len(stack) /\ Top = stack[Len(stack)]
      BY DEF dp_buffers_save, IInv, TypeOK, StackOwned, Top
    <2>3. pkts[Top].buffer_id = NO_BUFFER
      BY ZenonT(60), <2>2 DEF dp_buffers_save, dp_buffers_is_alive, IInv, IdNamesSlot,
                  InHandProtected
    <2>4. \A j \in Slots : buffers[j].pkt # Top
      BY <2>2, <2>3, SlotIds DEF IInv, BufferOwnership, TypeOK
    <2>5. old # NULL =>
            /\ old \in Packets /\ old # Top /\ pkts[old].buffer_id = Id(i)
            /\ Id(i) # NO_BUFFER /\ buffers[i].timeout <= now
      BY <1>0, <1>2, <2>4, SlotIds DEF IInv, TypeOK, BufferOwnership, Protected
    <2>6. \A k \in 1 .. Len(stack) : stack[k] # old
      <3>1. CASE old = NULL
        BY <3>1 DEF IInv, TypeOK
      <3>2. CASE old # NULL
        <4> SUFFICES ASSUME NEW k \in 1 .. Len(stack), stack[k] = old
                     PROVE  FALSE
          OBVIOUS
        <4>1. now < buffers[Id(i)[2]].timeout
          BY <3>2, <2>5 DEF IInv, InHandProtected
        <4>2. now < buffers[i].timeout
          BY <4>1 DEF Id
        <4> QED BY <3>2, <4>2, <2>5, <1>0 DEF IInv, TypeOK
      <3> QED BY <3>1, <3>2
    <2>7. <<c, i>> \in Ids /\ <<c, i>> # NO_BUFFER /\ NO_BUFFER \in Ids
      BY <1>0 DEF Ids, NO_BUFFER, Slots
    <2>8. \A p \in Packets :
             /\ pkts'[p].alloc = (pkts[p].alloc /\ p # old)
             /\ p = Top => pkts'[p].buffer_id = <<c, i>>
             /\ p # Top /\ p = old => pkts'[p].buffer_id = NO_BUFFER
             /\ p # Top /\ p # old => pkts'[p].buffer_id = pkts[p].buffer_id
      BY <2>1 DEF Saved
    <2>9. \A j \in Slots :
             /\ j = i => /\ buffers'[j].pkt = Top /\ buffers'[j].cookie = c
                         /\ buffers'[j].timeout = now + OVERWRITE_SECS
             /\ j # i => buffers'[j] = buffers[j]
      BY <1>0, <2>1 DEF IInv, TypeOK
    <2>10. TypeOK'
      <3>1. buffers' \in [Slots -> [pkt : Packets \cup {NULL},
                              cookie : {UnusedCookie} \cup 0 .. MaxCookie - 1,
                              timeout : Nat]]
        BY <1>0, <2>1, <2>2 DEF IInv, TypeOK
      <3>2. pkts' \in [Packets -> [alloc : BOOLEAN, buffer_id : Ids]]
        BY <2>1, <2>7 DEF IInv, TypeOK, Saved
      <3> QED BY ZenonT(60), <1>0, <2>1, <3>1, <3>2 DEF IInv, TypeOK
    <2>11. BufferOwnership'
      <3> SUFFICES ASSUME NEW j \in Slots, buffers'[j].pkt # NULL
                   PROVE  /\ pkts'[buffers'[j].pkt].alloc
                          /\ pkts'[buffers'[j].pkt].buffer_id = <<buffers'[j].cookie, j>>
        BY DEF BufferOwnership, Id
      <3>1. CASE j = i
        BY <3>1, <2>2, <2>5, <2>8, <2>9 DEF IInv, TypeOK
      <3>2. CASE j # i
        <4>1. buffers[j].pkt \in Packets /\ buffers[j].pkt # Top
          BY <3>2, <2>4, <2>9 DEF IInv, TypeOK
        <4>2. pkts[buffers[j].pkt].buffer_id = <<buffers[j].cookie, j>>
              /\ pkts[buffers[j].pkt].alloc
          BY <3>2, <2>9 DEF IInv, BufferOwnership, Id
        <4>3. buffers[j].pkt # old
          BY <4>1, <4>2, <2>5, <3>2 DEF Id, IInv, TypeOK
        <4> QED BY ZenonT(60), <3>2, <4>1, <4>2, <4>3, <2>8, <2>9
      <3> QED BY <3>1, <3>2
    <2>12. Owned'
      <3> SUFFICES ASSUME NEW p \in Packets, pkts'[p].alloc
                   PROVE  \/ \E k \in 1 .. Len(stack) : stack[k] = p
                          \/ \E j \in Slots : buffers'[j].pkt = p
                          \/ p \in forgotten
        BY <2>1 DEF Owned
      <3>1. pkts[p].alloc /\ p # old
        BY ZenonT(60), <2>8
      <3>2. CASE \E k \in 1 .. Len(stack) : stack[k] = p
        BY <3>2
      <3>3. CASE \E j \in Slots : buffers[j].pkt = p
        BY <3>3, <3>1, <2>9
      <3> QED BY <3>1, <3>2, <3>3 DEF IInv, Owned
    <2>13. StackOwned'
      <3>1. \A k \in 1 .. Len(stack) : stack[k] \in Packets /\ pkts[stack[k]].alloc
        BY DEF IInv, StackOwned, TypeOK
      <3>2. \A k \in 1 .. Len(stack) : pkts'[stack[k]].alloc
        BY ZenonT(60), <3>1, <2>6, <2>8
      <3> QED BY <2>1, <3>2 DEF IInv, StackOwned
    <2>14. IdNamesSlot'
      <3> SUFFICES ASSUME NEW p \in Packets, pkts'[p].alloc,
                          pkts'[p].buffer_id # NO_BUFFER
                   PROVE  /\ buffers'[pkts'[p].buffer_id[2]].pkt = p
                          /\ buffers'[pkts'[p].buffer_id[2]].cookie = pkts'[p].buffer_id[1]
        BY DEF IdNamesSlot, NO_BUFFER
      <3>1. CASE p = Top
        BY <3>1, <1>0, <2>8, <2>9
      <3>2. CASE p # Top
        <4>1. pkts[p].alloc /\ p # old /\ pkts'[p].buffer_id = pkts[p].buffer_id
              /\ pkts[p].buffer_id[2] \in Slots
          BY <3>2, <2>8 DEF IInv, TypeOK, Ids
        <4>2. buffers[pkts[p].buffer_id[2]].pkt = p
              /\ buffers[pkts[p].buffer_id[2]].cookie = pkts[p].buffer_id[1]
          BY <4>1 DEF IInv, IdNamesSlot
        <4> QED BY <4>1, <4>2, <2>9
      <3> QED BY <3>1, <3>2
    <2>15. InHandProtected'
      <3> SUFFICES ASSUME NEW k \in 1 .. Len(stack),
                          pkts'[stack[k]].buffer_id # NO_BUFFER
                   PROVE  now < buffers'[pkts'[stack[k]].buffer_id[2]].timeout
        BY ZenonT(60), <2>1 DEF InHandProtected, NO_BUFFER
      <3>1. stack[k] \in Packets /\ stack[k] # old
        BY <2>6 DEF IInv, TypeOK
      <3>2. CASE stack[k] = Top
        BY <3>2, <3>1, <1>0, <2>8, <2>9 DEF IInv, TypeOK
      <3>3. CASE stack[k] # Top
        <4>1. pkts'[stack[k]].buffer_id = pkts[stack[k]].buffer_id
              /\ pkts[stack[k]].buffer_id[2] \in Slots
          BY <3>1, <3>3, <2>8 DEF IInv, TypeOK, Ids
        <4>2. now < buffers[pkts[stack[k]].buffer_id[2]].timeout
          BY <4>1 DEF IInv, InHandProtected
        <4> QED BY <4>1, <4>2, <1>0, <2>9 DEF IInv, TypeOK
      <3> QED BY <3>2, <3>3
    <2>16. ForgottenForGood'
      <3> SUFFICES ASSUME NEW p \in forgotten
                   PROVE  /\ pkts'[p].alloc
                          /\ \A k \in 1 .. Len(stack) : stack[k] # p
                          /\ \A j \in Slots : buffers'[j].pkt # p
        BY <2>1 DEF ForgottenForGood
      <3>1. p \in Packets
        BY DEF IInv, TypeOK
      <3>2. /\ pkts[p].alloc
            /\ \A k \in 1 .. Len(stack) : stack[k] # p
            /\ \A j \in Slots : buffers[j].pkt # p
        BY DEF IInv, ForgottenForGood
      <3>3. p # old /\ p # Top
        BY <3>2, <1>0, <2>2
      <3> QED BY ZenonT(60), <3>1, <3>2, <3>3, <2>8, <2>9
    <2> QED BY <2>10, <2>11, <2>12, <2>13, <2>14, <2>15, <2>16 DEF IInv
  <1> QED BY <1>1, <1>2

\* What is left when the packet in hand is taken from the stack.
LEMMA PopFacts ==
    ASSUME TypeOK, StackOwned, stack # << >>, stack' = Pop
    PROVE  /\ Top \in Packets /\ pkts[Top].alloc /\ Len(stack) \in 1 .. Len(stack)
           /\ Top = stack[Len(stack)] /\ pkts[Top].buffer_id \in Ids
           /\ stack' \in Seq(Packets)
           /\ Len(stack') = Len(stack) - 1
           /\ \A k \in 1 .. Len(stack') : stack'[k] = stack[k] /\ stack[k] # Top
  <1>1. /\ Top \in Packets /\ pkts[Top].alloc /\ Len(stack) \in 1 .. Len(stack)
        /\ Top = stack[Len(stack)] /\ pkts[Top].buffer_id \in Ids
    BY DEF TypeOK, StackOwned, Top
  <1>2. stack \in Seq(Packets) /\ Len(stack) \in Nat \ {0}
        /\ stack' = SubSeq(stack, 1, Len(stack) - 1)
    BY <1>1 DEF Pop, TypeOK
  <1>3. stack' \in Seq(Packets) /\ Len(stack') = Len(stack) - 1
        /\ \A k \in 1 .. Len(stack) - 1 : stack'[k] = stack[k]
    <2> DEFINE n == Len(stack) - 1
    <2>1. n \in Nat /\ \A k \in 1 .. n : stack[k] \in Packets
      BY <1>2
    <2> HIDE DEF n
    <2>2. /\ SubSeq(stack, 1, n) \in Seq(Packets)
          /\ Len(SubSeq(stack, 1, n)) = IF 1 <= n THEN n - 1 + 1 ELSE 0
          /\ \A k \in 1 .. n - 1 + 1 : SubSeq(stack, 1, n)[k] = stack[1 + k - 1]
      BY <2>1, SubSeqProperties
    <2>3. stack' = SubSeq(stack, 1, n)
      BY <1>2 DEF n
    <2>4. Len(stack') = n
      BY <2>1, <2>2, <2>3
    <2>5. ASSUME NEW k \in 1 .. n PROVE stack'[k] = stack[k]
      <3>1. k \in 1 .. n - 1 + 1 /\ 1 + k - 1 = k
        BY <2>1
      <3> QED BY <3>1, <2>2, <2>3
    <2> QED BY <2>2, <2>3, <2>4, <2>5 DEF n
  <1>4. \A k \in 1 .. Len(stack) - 1 : stack[k] # Top
    BY <1>1, <1>2 DEF StackOwned
  <1> QED BY <1>1, <1>3, <1>4

LEMMA DestroyIInv ==
    ASSUME IInv, packet_destroy
    PROVE  IInv'
  <1> DEFINE id == pkts[Top].buffer_id
  <1>0. TypeOK /\ StackOwned /\ stack # << >> /\ stack' = Pop /\ forgotten' = forgotten
    BY DEF packet_destroy, IInv
  <1>1. /\ Top \in Packets /\ pkts[Top].alloc /\ Len(stack) \in 1 .. Len(stack)
        /\ Top = stack[Len(stack)] /\ id \in Ids
    BY <1>0, PopFacts
  <1>2. /\ stack' \in Seq(Packets)
        /\ Len(stack') = Len(stack) - 1
        /\ \A k \in 1 .. Len(stack') : stack'[k] = stack[k] /\ stack[k] # Top
    BY <1>0, PopFacts
  <1>3. CASE id # NO_BUFFER
    <2>1. UNCHANGED <<buffers, pkts, buffer_idx, now>>
      BY <1>1, <1>3 DEF packet_destroy, dp_buffers_is_alive, IInv, IdNamesSlot,
                        InHandProtected
    <2>2. \E i \in Slots : buffers[i].pkt = Top
      BY <1>1, <1>3 DEF IInv, IdNamesSlot, Ids
    <2>3. Owned'
      BY <1>0, <1>1, <1>2, <2>1, <2>2 DEF IInv, Owned
    <2>4. ForgottenForGood'
      BY <1>0, <1>1, <1>2, <2>1 DEF IInv, ForgottenForGood
    <2> QED BY <1>0, <1>2, <2>1, <2>3, <2>4 DEF IInv, TypeOK, BufferOwnership, StackOwned,
                                    IdNamesSlot, InHandProtected, Id, NO_BUFFER
  <1>4. CASE id = NO_BUFFER
    <2>1. pkts' = [pkts EXCEPT ![Top].alloc = FALSE]
          /\ UNCHANGED <<buffers, buffer_idx, now>>
      BY <1>4 DEF packet_destroy
    <2>2. \A i \in Slots : buffers[i].pkt # Top
      BY <1>1, <1>4, SlotIds DEF IInv, BufferOwnership, TypeOK
    <2>3. TypeOK'
      BY ZenonT(60), <1>0, <1>2, <2>1 DEF IInv, TypeOK
    <2>4. BufferOwnership'
      BY <2>1, <2>2 DEF IInv, TypeOK, BufferOwnership, Id
    <2>5. Owned'
      <3> SUFFICES ASSUME NEW p \in Packets, pkts'[p].alloc
                   PROVE  \/ \E k \in 1 .. Len(stack') : stack'[k] = p
                          \/ \E i \in Slots : buffers[i].pkt = p
                          \/ p \in forgotten
        BY <1>0, <2>1 DEF Owned
      <3>1. p # Top /\ pkts[p].alloc
        BY <1>1, <2>1 DEF IInv, TypeOK
      <3>2. CASE \E k \in 1 .. Len(stack) : stack[k] = p
        <4> PICK k \in 1 .. Len(stack) : stack[k] = p
          BY <3>2
        <4>1. k # Len(stack)
          BY <1>1, <3>1
        <4> QED BY <4>1, <1>1, <1>2
      <3> QED BY <3>1, <3>2 DEF IInv, Owned
    <2>6. StackOwned'
      <3>1. \A k \in 1 .. Len(stack') : k \in 1 .. Len(stack)
        BY <1>1, <1>2
      <3>2. \A k \in 1 .. Len(stack) : stack[k] \in Packets /\ pkts[stack[k]].alloc
        BY DEF IInv, StackOwned, TypeOK
      <3>3. \A k \in 1 .. Len(stack') : pkts'[stack'[k]].alloc
        BY <3>1, <3>2, <1>2, <2>1 DEF IInv, TypeOK
      <3> QED BY <3>1, <3>3, <1>2 DEF IInv, StackOwned
    <2>7. IdNamesSlot'
      BY <2>1 DEF IInv, TypeOK, IdNamesSlot, NO_BUFFER
    <2>8. InHandProtected'
      <3> SUFFICES ASSUME NEW k \in 1 .. Len(stack'), pkts'[stack'[k]].buffer_id # NO_BUFFER
                   PROVE  now < buffers[pkts'[stack'[k]].buffer_id[2]].timeout
        BY <2>1 DEF InHandProtected, NO_BUFFER
      <3>1. k \in 1 .. Len(stack) /\ stack'[k] = stack[k] /\ stack[k] \in Packets
        BY <1>1, <1>2
      <3>2. pkts'[stack[k]].buffer_id = pkts[stack[k]].buffer_id
        BY <3>1, <2>1 DEF IInv, TypeOK
      <3> QED BY <3>1, <3>2 DEF IInv, InHandProtected
    <2>9. ForgottenForGood'
      <3>1. \A p \in forgotten : p \in Packets /\ p # Top
        BY <1>1 DEF IInv, TypeOK, ForgottenForGood
      <3> QED BY <3>1, <1>0, <1>1, <1>2, <2>1 DEF IInv, TypeOK, ForgottenForGood
    <2> QED BY <2>3, <2>4, <2>5, <2>6, <2>7, <2>8, <2>9 DEF IInv
  <1> QED BY <1>3, <1>4

LEMMA ReturnIInv ==
    ASSUME IInv, handler_returns
    PROVE  IInv'
  <1>0. /\ TypeOK /\ StackOwned /\ stack # << >> /\ stack' = Pop
        /\ UNCHANGED <<buffers, buffer_idx, pkts, now>>
    BY DEF handler_returns, IInv
  <1>1. /\ Top \in Packets /\ pkts[Top].alloc /\ Len(stack) \in 1 .. Len(stack)
        /\ Top = stack[Len(stack)]
        /\ stack' \in Seq(Packets)
        /\ Len(stack') = Len(stack) - 1
        /\ \A k \in 1 .. Len(stack') : stack'[k] = stack[k] /\ stack[k] # Top
    BY <1>0, PopFacts
  <1>2. /\ forgotten \subseteq forgotten' /\ forgotten' \subseteq forgotten \cup {Top}
        /\ Top \in forgotten' \/ \E i \in Slots : buffers[i].pkt = Top
        /\ Top \in forgotten' \ forgotten => \A i \in Slots : buffers[i].pkt # Top
    BY DEF handler_returns
  <1>3. TypeOK'
    BY <1>0, <1>1, <1>2 DEF TypeOK
  <1>4. Owned'
    <2> SUFFICES ASSUME NEW p \in Packets, pkts[p].alloc, p # Top
                 PROVE  \/ \E k \in 1 .. Len(stack') : stack'[k] = p
                        \/ \E i \in Slots : buffers[i].pkt = p
                        \/ p \in forgotten'
      BY <1>0, <1>2 DEF Owned
    <2>1. CASE \E k \in 1 .. Len(stack) : stack[k] = p
      <3> PICK k \in 1 .. Len(stack) : stack[k] = p
        BY <2>1
      <3>1. k # Len(stack)
        BY <1>1
      <3> QED BY <3>1, <1>1
    <2> QED BY <2>1, <1>2 DEF IInv, Owned
  <1>5. ForgottenForGood'
    BY <1>0, <1>1, <1>2 DEF IInv, ForgottenForGood
  <1>6. StackOwned' /\ InHandProtected'
    <2>1. \A k \in 1 .. Len(stack') : k \in 1 .. Len(stack) /\ stack'[k] = stack[k]
      BY <1>1
    <2>2. StackOwned'
      BY <1>0, <2>1 DEF StackOwned
    <2>3. InHandProtected'
      BY ZenonT(60), <1>0, <2>1 DEF IInv, InHandProtected, NO_BUFFER
    <2> QED BY <2>2, <2>3
  <1>7. BufferOwnership' /\ IdNamesSlot'
    BY <1>0 DEF IInv, BufferOwnership, IdNamesSlot, Id, NO_BUFFER
  <1> QED BY <1>3, <1>4, <1>5, <1>6, <1>7 DEF IInv

LEMMA TickIInv ==
    ASSUME IInv, stack = << >>, Tick
    PROVE  IInv'
  BY DEF Tick, IInv, TypeOK, BufferOwnership, Owned, ForgottenForGood, StackOwned, IdNamesSlot,
         InHandProtected, Id, NO_BUFFER

\* The inductive invariant of the buffers.
THEOREM BuffersInductive == QuickSpec => []IInv
  <1>1. IInv /\ [QuickNext]_vars => IInv'
    <2> SUFFICES ASSUME IInv, [QuickNext]_vars PROVE IInv'
      OBVIOUS
    <2>1. CASE UNCHANGED vars
      BY <2>1 DEF vars, IInv, TypeOK, BufferOwnership, Owned, ForgottenForGood, StackOwned,
                  IdNamesSlot, InHandProtected, Id, NO_BUFFER
    <2> QED BY <2>1, CreateIInv, RetrieveIInv, SaveIInv, DestroyIInv, ReturnIInv, TickIInv
            DEF QuickNext, Step
  <1> QED BY <1>1, InitIInv, PTL DEF QuickSpec

\* dp_buffers_retrieve never returns freed memory nor another packet than the
\* one its id was issued for, if no second begins while a packet is processed.
THEOREM OwnershipHolds == QuickSpec => []BufferOwnership
  <1>1. IInv => BufferOwnership
    BY DEF IInv
  <1> QED BY <1>1, BuffersInductive, PTL

\* Under the same assumption the ring of slots and packet_destroy lose no packet:
\* those that are lost were let go by a handler that returned without destroying them.
THEOREM LostByHandlersOnlyHolds == QuickSpec => []LostByHandlersOnly
  <1>1. IInv => LostByHandlersOnly
    BY DEF IInv, TypeOK, Owned, ForgottenForGood, LostByHandlersOnly, Lost
  <1> QED BY <1>1, BuffersInductive, PTL

\* The id that stands for "no buffer" is never issued.
THEOREM ReservedIdHolds == QuickSpec => []ReservedIdNeverIssued
  <1>1. IInv => ReservedIdNeverIssued
    BY SlotIds DEF IInv, ReservedIdNeverIssued
  <1> QED BY <1>1, BuffersInductive, PTL
=============================================================================
