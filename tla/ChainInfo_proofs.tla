--------------------------- MODULE ChainInfo_proofs ---------------------------
(***************************************************************************)
(* Proofs about the follow bootstrap (ChainInfo, sync.rs lines 298-336,   *)
(* 424-450 and 139-166), for every number of requested nodes.  The        *)
(* packet a syncer is built from is traced through the three checks: from *)
(* "hash" on it is the answer of the peer at idx, it passed the hash check *)
(* before "genesis", the genesis check before "config", and no outcome is  *)
(* set before the bootstrap is done.                                       *)
(***************************************************************************)
EXTENDS ChainInfo, SequenceTheorems, FiniteSetTheorems, TLAPS

Checked ==
  /\ pc \in {"hash", "genesis", "config"} \/ outcome = "Syncer" =>
        /\ idx \in 1..Len(peers)
        /\ packet = answer[peers[idx]]
  /\ pc \in {"genesis", "config"} \/ outcome = "Syncer" => packet.hashOk
  /\ pc = "config" \/ outcome = "Syncer" => packet.genesisOk
  /\ outcome = "Syncer" => packet.infoOk
  /\ pc # "done" => outcome = "none"

IInv ==
  /\ TypeOK
  /\ Len(peers) <= NumNodes
  /\ idx <= Len(peers) + 1
  /\ pc = "precheck" => peers = << >>
  /\ Checked

\* A shuffle of valid addresses is a sequence of nodes no longer than the
\* request's node list.
LEMMA ShufflesType ==
  ASSUME NEW S \in SUBSET Nodes, NEW f \in Shuffles(S)
  PROVE  f \in Seq(Nodes) /\ Len(f) = Cardinality(S) /\ Len(f) <= NumNodes
<1>1. IsFiniteSet(Nodes) /\ Cardinality(Nodes) = NumNodes
  BY NumNodesAssumption, FS_Interval DEF Nodes
<1>2. IsFiniteSet(S) /\ Cardinality(S) <= NumNodes
  BY <1>1, FS_Subset
<1>3. Cardinality(S) \in Nat
  BY <1>2, FS_CardinalityType
<1>4. f \in [1..Cardinality(S) -> Nodes]
  BY DEF Shuffles
<1>5. f \in Seq(Nodes) /\ Len(f) = Cardinality(S)
  BY <1>3, <1>4
<1>. QED
  BY <1>2, <1>5

\* The answer that QueryPeer accepts is a chain info packet.
LEMMA PacketAnswer ==
  ASSUME NEW a \in Answers, a.kind = "packet"
  PROVE  a \in InfoPacket
BY DEF Answers, InfoPacket

LEMMA InitIInv == Init => IInv
<1> SUFFICES ASSUME Init PROVE IInv
  OBVIOUS
<1>1. peers \in Seq(Nodes) /\ Len(peers) = 0
  BY EmptySeq DEF Init
<1>2. packet \in InfoPacket
  BY DEF Init, NoInfo, InfoPacket
<1>. QED
  BY <1>1, <1>2, NumNodesAssumption DEF Init, IInv, TypeOK, Checked, Outcomes

LEMMA NextIInv == IInv /\ [Next]_vars => IInv'
<1> SUFFICES ASSUME IInv, [Next]_vars PROVE IInv'
  OBVIOUS
<1> USE NumNodesAssumption
<1>0. /\ peers \in Seq(Nodes) /\ Len(peers) \in Nat
      /\ idx \in Nat /\ answer \in [Nodes -> Answers]
  BY LenProperties DEF IInv, TypeOK
<1>1. CASE Precheck
  <2> DEFINE valid == {n \in Nodes : answer[n].kind # "badAddress"}
  <2>1. /\ pc = "precheck" /\ outcome = "none"
        /\ UNCHANGED <<answer, idx, packet>>
    BY <1>1 DEF Precheck, IInv, Checked
  <2>2. CASE valid = {} /\ Fail("PeersInvalidFormat") /\ UNCHANGED peers
    BY <2>1, <2>2 DEF Fail, IInv, TypeOK, Checked, Outcomes
  <2>3. CASE valid # {} /\ peers' \in Shuffles(valid) /\ pc' = "info"
             /\ UNCHANGED outcome
    <3>1. peers' \in Seq(Nodes) /\ Len(peers') <= NumNodes
      BY <2>3, ShufflesType
    <3>2. idx = 1 /\ Len(peers') \in Nat
      \* Precheck is the first step: idx has not moved yet.
      <4>1. peers = << >> /\ Len(peers) = 0
        BY <2>1, EmptySeq DEF IInv
      <4>. QED
        BY <4>1, <3>1, <1>0, LenProperties DEF IInv, TypeOK
    <3>. QED
      BY <2>1, <2>3, <3>1, <3>2 DEF IInv, TypeOK, Checked
  <2>. QED
    BY <1>1, <2>2, <2>3 DEF Precheck
<1>2. CASE QueryPeer
  <2>1. /\ pc = "info" /\ outcome = "none" /\ idx \in 1..Len(peers)
        /\ UNCHANGED <<answer, peers, outcome>>
    BY <1>2, <1>0 DEF QueryPeer, IInv, TypeOK, Checked
  <2>2. peers[idx] \in Nodes
    BY <2>1, <1>0, ElementOfSeq
  <2>3. CASE answer[peers[idx]].kind = "packet"
             /\ packet' = answer[peers[idx]] /\ pc' = "hash"
             /\ UNCHANGED idx
    <3>1. packet' \in InfoPacket
      BY <2>2, <2>3, <1>0, PacketAnswer
    <3>. QED
      BY <2>1, <2>3, <3>1 DEF IInv, TypeOK, Checked
  <2>4. CASE answer[peers[idx]].kind # "packet" /\ idx' = idx + 1
             /\ UNCHANGED <<packet, pc>>
    BY <2>1, <2>4, <1>0 DEF IInv, TypeOK, Checked
  <2>. QED
    BY <1>2, <2>3, <2>4 DEF QueryPeer
<1>3. CASE NoPeerAnswered
  BY <1>3 DEF NoPeerAnswered, Fail, IInv, TypeOK, Checked, Outcomes
<1>4. CASE VerifyHash
  BY <1>4 DEF VerifyHash, Fail, IInv, TypeOK, Checked, Outcomes
<1>5. CASE CheckGenesis
  BY <1>5 DEF CheckGenesis, Fail, IInv, TypeOK, Checked, Outcomes
<1>6. CASE FromConfig
  BY <1>6 DEF FromConfig, Fail, IInv, TypeOK, Checked, Outcomes
<1>7. CASE Finished \/ UNCHANGED vars
  BY <1>7 DEF Finished, vars, IInv, TypeOK, Checked
<1>. QED
  BY <1>1, <1>2, <1>3, <1>4, <1>5, <1>6, <1>7 DEF Next

\* The bootstrap's packet bookkeeping holds in every reachable state: the
\* checks of lines 320-336 and 139-166 are passed in order, on the packet
\* of the peer at idx, and no outcome is set before the bootstrap ends.
THEOREM IInvHolds == Spec => []IInv
BY InitIInv, NextIInv, PTL DEF Spec

\* Every state of the bootstrap is well typed: the shuffled peer list is a
\* sequence of requested nodes and the peer index never runs past it.
THEOREM TypeCorrect == Spec => []TypeOK
BY IInvHolds, PTL DEF IInv

\* Lines 320-336, 139-166 and 424-447: a DefaultSyncer is built only from
\* the packet a queried peer sent with the requested beacon id, and only
\* when its chain hash, its genesis and its scheme all checked out.
THEOREM SyncerTrustsPacketHolds == Spec => []SyncerTrustsPacket
<1>1. IInv => SyncerTrustsPacket
  BY DEF IInv, Checked, SyncerTrustsPacket
<1>. QED
  BY <1>1, IInvHolds, PTL
=============================================================================
