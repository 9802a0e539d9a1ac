--------------------------- MODULE ArpPathProofs ---------------------------
(***************************************************************************)
(* ARP-Path makes no loops, in a network of any size and shape.            *)
(*                                                                         *)
(* LoopFree is not inductive: a switch that takes a next hop could close a *)
(* circle through switches that still send to it.  Chained excludes this:  *)
(* who still sends to a switch knows that the switch has a next hop, and   *)
(* a switch that has one does not take another.                            *)
(***************************************************************************)
EXTENDS ArpPath, TLAPS

\* A leaf is for SMT alone; those that it does not find name Zenon.
USE SMTT(30)

PathInv == PathTypeOK /\ Chained /\ LoopFree

\* Nothing leads anywhere at the start.
LEMMA PathInitially == PathInit => PathInv
BY DEF PathInit, PathInv, PathTypeOK, Chained, Chain, LoopFree, To

\* A switch that takes its next hop from one that knows the way closes no circle.
LEMMA LockKeeps ==
    ASSUME PathInv, Lock
    PROVE  PathInv'
<1> USE DEF PathInv
<1>a. PICK w \in hops' \ hops :
          /\ w \in Hop
          /\ w.at \notin failed
          /\ ~Has(hops, w.host, w.at)
          /\ Knows(hops, failed, w.host, w.to)
          /\ hops' = hops \cup {w}
          /\ failed' = failed
    BY DEF Lock
<1>b. w.to # w.at
    BY <1>a DEF Knows, Hop
<1>c. \A v \in hops : v.host = w.host => v.to # w.at
    BY <1>a DEF Chained, Chain, Knows, PathTypeOK, Hop
<1>1. PathTypeOK'
    BY <1>a DEF PathTypeOK
<1>2. Chained'
    BY <1>a DEF Chained, Chain, Knows, Has
<1>3. LoopFree'
  <2> SUFFICES ASSUME NEW m \in Stations, NEW C \in SUBSET Bridges, C # {},
                      \A s \in C : To(m, s)' \cap C # {}
               PROVE  FALSE
    BY DEF LoopFree
  <2>0. \A s \in C : \E v \in hops' : v.host = m /\ v.at = s /\ v.to \in C
    BY DEF To
  <2>1. CASE m # w.host \/ w.at \notin C
    <3>1. \A s \in C : \E v \in hops : v.host = m /\ v.at = s /\ v.to \in C
      BY <2>0, <2>1, <1>a
    <3>2. \A s \in C : To(m, s) \cap C # {}
      BY <3>1 DEF To
    <3> QED
      BY ZenonT(60), <3>2 DEF LoopFree
  <2>2. CASE m = w.host /\ w.at \in C
    <3> DEFINE D == C \ {w.at}
    <3>1. w.to \in D
      BY <2>0, <2>2, <1>a, <1>b DEF Has
    <3>2. \A s \in D : \E v \in hops : v.host = m /\ v.at = s /\ v.to \in D
      BY <2>0, <2>2, <1>a, <1>c
    <3>3. \A s \in D : To(m, s) \cap D # {}
      BY <3>2 DEF To
    <3>4. D \in SUBSET Bridges /\ D # {}
      BY <3>1
    <3> HIDE DEF D
    <3> QED
      BY <3>3, <3>4 DEF LoopFree
  <2> QED
    BY <2>1, <2>2
<1> QED
    BY <1>1, <1>2, <1>3

\* What is left when next hops end has no circle, and is chained.
LEMMA ExpireKeeps ==
    ASSUME PathInv, Expire
    PROVE  PathInv'
<1>1. PathTypeOK'
    BY DEF Expire, PathInv, PathTypeOK
<1>2. Chained'
    BY DEF Expire, Chained, Chain, Knows, Has
<1>3. LoopFree'
  <2>1. \A m \in Stations, s \in Bridges : To(m, s)' \subseteq To(m, s)
    BY DEF Expire, To
  <2> QED
    BY <2>1 DEF PathInv, LoopFree
<1> QED
    BY <1>1, <1>2, <1>3 DEF PathInv

\* A switch that dies cuts circles, and those that send to it still know a way:
\* to a switch that has died.
LEMMA FailKeeps ==
    ASSUME PathInv, NEW s \in Bridges, Fail(s)
    PROVE  PathInv'
<1>1. PathTypeOK'
    BY DEF Fail, PathInv, PathTypeOK
<1>2. Chained'
    BY DEF Fail, PathInv, Chained, Chain, Knows, Has
<1>3. LoopFree'
  <2>1. \A m \in Stations, t \in Bridges : To(m, t)' \subseteq To(m, t)
    BY DEF Fail, To
  <2> QED
    BY <2>1 DEF PathInv, LoopFree
<1> QED
    BY <1>1, <1>2, <1>3 DEF PathInv

\* The invariant is inductive.
LEMMA PathStep == PathInv /\ [PathNext]_pathVars => PathInv'
<1> SUFFICES ASSUME PathInv, [PathNext]_pathVars PROVE PathInv'
    OBVIOUS
<1>1. CASE Lock
    BY <1>1, LockKeeps
<1>2. CASE Expire
    BY <1>2, ExpireKeeps
<1>3. CASE \E s \in Bridges : Fail(s)
    BY <1>3, FailKeeps
<1>4. CASE UNCHANGED pathVars
    BY <1>4 DEF pathVars, PathInv, PathTypeOK, Chained, Chain, LoopFree, Knows, Has, To
<1> QED
    BY <1>1, <1>2, <1>3, <1>4 DEF PathNext

\* The next hops of the ARP-Path tables form no loop (pipeline_arp_path), in any
\* network, whatever switches die and whatever the order in which copies of a broadcast arrive.
THEOREM NoLoops == PathSpec => []LoopFree
<1>1. PathInv => LoopFree
    BY DEF PathInv
<1> QED
    BY <1>1, PathInitially, PathStep, PTL DEF PathSpec

\* A frame that follows the next hops of its destination gets there, or to a switch
\* that has died: no set of switches keeps it, and none hands it to a switch that
\* does not know the way.
THEOREM FramesArrive == PathSpec => []LeadsToHost
<1>1. PathInv => LeadsToHost
  <2> SUFFICES ASSUME PathInv, NEW m \in Stations,
                      NEW C \in SUBSET {s \in Bridges : Has(hops, m, s)}, C # {}
               PROVE  \E s \in C, n \in (Bridges \cup Stations) \ C :
                         n \in To(m, s) /\ Knows(hops, failed, m, n)
    BY DEF LeadsToHost
  <2>1. PICK s \in C : To(m, s) \cap C = {}
    BY DEF PathInv, LoopFree
  <2>2. PICK w \in hops : w.host = m /\ w.at = s
    BY DEF Has
  <2>3. w.to \in To(m, s)
    BY <2>2 DEF To
  <2>4. w.to \in Bridges \cup Stations /\ Knows(hops, failed, m, w.to)
    BY <2>2 DEF PathInv, PathTypeOK, Hop, Chained, Chain
  <2> QED
    BY <2>1, <2>3, <2>4
<1> QED
    BY <1>1, PathInitially, PathStep, PTL DEF PathSpec
=============================================================================
