---------------------------- MODULE Resync_proofs ----------------------------
(***************************************************************************)
(* Proofs about the resync driver, for every number of rounds, peers and  *)
(* every pipeline capacity.  ForwardedContiguous and NeverPastUpTo are not *)
(* inductive alone: a Send forwards the pending packet as round            *)
(* last_sent + 1, and stays within up_to, only because the packet was      *)
(* accepted with that round and the stream is open only while last_sent   *)
(* is short of up_to.  IInv adds those two facts.                          *)
(***************************************************************************)
EXTENDS Resync, SequenceTheorems, TLAPS

\* The inductive invariant.
IInv ==
  /\ TypeOK
  /\ ForwardedContiguous
  /\ Len(sent) > 0 => lastSent <= upTo
  /\ pc \in {"stream", "send"} => lastSent < upTo /\ peerIdx \in PeerIds
  /\ pc = "send" => pending.round = lastSent + 1

-----------------------------------------------------------------------------
LEMMA InitIInv == Init => IInv
<1> SUFFICES ASSUME Init PROVE IInv
  OBVIOUS
<1> USE MaxRoundAssumption, NumPeersAssumption, PipeCapAssumption
<1>1. << >> \in Seq(Packet) /\ Len(<< >>) = 0
  BY EmptySeq
<1>2. NoPacket \in Packet
  BY DEF NoPacket, Packet, Metas, Sigs
<1>3. TypeOK
  BY <1>1, <1>2 DEF Init, TypeOK, Rounds, Results
<1>. QED
  BY <1>1, <1>3 DEF Init, IInv, ForwardedContiguous

-----------------------------------------------------------------------------
(* Each step of the task, of the pipeline's owner or a stutter keeps IInv. *)

LEMMA NextIInv == IInv /\ [Next]_vars => IInv'
<1> SUFFICES ASSUME IInv, [Next]_vars PROVE IInv'
  OBVIOUS
<1> USE MaxRoundAssumption, NumPeersAssumption, PipeCapAssumption
<1>0. TypeOK /\ ForwardedContiguous
  BY DEF IInv
<1>1. CASE OpenStream
  BY <1>1, <1>0 DEF OpenStream, Finish, NextPeer, IInv, TypeOK,
                    ForwardedContiguous, Results, PeerIds
<1>2. CASE Receive
  <2>0. /\ pc = "stream"
        /\ UNCHANGED <<startFrom, upTo, lastSent, faulty, height, inPipe,
                       pipeOpen, sent, result>>
    BY <1>2 DEF Receive
  <2>1. PICK p \in Sendable :
          \/ ~Accepted(p) /\ NextPeer /\ UNCHANGED pending
          \/ Accepted(p) /\ pc' = "send" /\ pending' = p /\ UNCHANGED peerIdx
    BY <1>2 DEF Receive
  <2>2. p \in Packet
    BY DEF Sendable, CorrectPacket, Packet, Metas, Sigs, IInv, TypeOK, Rounds
  <2>3. CASE ~Accepted(p) /\ NextPeer /\ UNCHANGED pending
    BY <2>0, <2>3, <1>0 DEF NextPeer, IInv, TypeOK, ForwardedContiguous,
                            PeerIds
  <2>4. CASE Accepted(p) /\ pc' = "send" /\ pending' = p /\ UNCHANGED peerIdx
    BY <2>0, <2>2, <2>4, <1>0 DEF Accepted, IInv, TypeOK, ForwardedContiguous
  <2>. QED
    BY <2>1, <2>3, <2>4
<1>3. CASE StreamEnd
  BY <1>3, <1>0 DEF StreamEnd, NextPeer, IInv, TypeOK, ForwardedContiguous,
                    PeerIds
<1>4. CASE Send
  <2>0. /\ pc = "send"
        /\ UNCHANGED <<startFrom, upTo, faulty, height, peerIdx, pending,
                       pipeOpen>>
    BY <1>4 DEF Send
  <2>1. /\ lastSent < upTo
        /\ pending.round = lastSent + 1
        /\ lastSent = startFrom - 1 + Len(sent)
    BY <2>0 DEF IInv, ForwardedContiguous
  <2>2. CASE ~pipeOpen /\ Finish("SyncClosedTx")
             /\ UNCHANGED <<lastSent, inPipe, sent>>
    BY <2>0, <2>2, <1>0 DEF Finish, IInv, TypeOK, ForwardedContiguous,
                            Results
  <2>3. CASE /\ pipeOpen
             /\ inPipe < PipeCap
             /\ inPipe' = inPipe + 1
             /\ sent' = Append(sent, pending)
             /\ lastSent' = lastSent + 1
             /\ \/ lastSent + 1 = upTo /\ Finish("Ok")
                \/ lastSent + 1 # upTo /\ pc' = "stream" /\ UNCHANGED result
    <3>1. /\ sent' \in Seq(Packet)
          /\ Len(sent') = Len(sent) + 1
          /\ \A i \in 1..Len(sent) : sent'[i] = sent[i]
          /\ sent'[Len(sent) + 1] = pending
      BY <2>3, <1>0, AppendProperties DEF TypeOK
    <3>2. ForwardedContiguous'
      BY <2>0, <2>1, <2>3, <3>1, <1>0 DEF ForwardedContiguous, TypeOK
    <3>3. TypeOK'
      BY <2>0, <2>1, <2>3, <3>1, <1>0 DEF TypeOK, Finish, Results, Rounds
    <3>4. Len(sent') > 0 => lastSent' <= upTo'
      BY <2>0, <2>1, <2>3, <1>0 DEF TypeOK
    <3>5. pc' \in {"stream", "send"} => lastSent' < upTo' /\ peerIdx' \in PeerIds
      BY <2>0, <2>1, <2>3, <1>0 DEF TypeOK, Finish, IInv
    <3>6. pc' # "send"
      BY <2>3 DEF Finish
    <3>. QED
      BY <3>2, <3>3, <3>4, <3>5, <3>6 DEF IInv
  <2>. QED
    BY <1>4, <2>2, <2>3 DEF Send
<1>5. CASE Exhausted \/ Abort
  BY <1>5, <1>0 DEF Exhausted, Abort, Finish, IInv, TypeOK,
                    ForwardedContiguous, Results
<1>6. CASE Consume
  BY <1>6, <1>0 DEF Consume, IInv, TypeOK, ForwardedContiguous
<1>8. CASE ClosePipe
  <2>1. TypeOK'
    <3>1. pipeOpen' = FALSE /\ inPipe' = 0
      BY <1>8 DEF ClosePipe
    <3>2. pipeOpen' \in BOOLEAN
      BY <3>1, Zenon
    <3>3. inPipe' \in 0..PipeCap
      BY <3>1
    <3>. QED
      BY <3>2, <3>3, <1>8, <1>0 DEF ClosePipe, TypeOK
  <2>. QED
    BY <2>1, <1>8, <1>0 DEF ClosePipe, IInv, ForwardedContiguous
<1>7. CASE Finished \/ UNCHANGED vars
  BY <1>7, <1>0 DEF Finished, vars, IInv, TypeOK, ForwardedContiguous
<1>. QED
  BY <1>1, <1>2, <1>3, <1>4, <1>5, <1>6, <1>7, <1>8 DEF Next, Task

-----------------------------------------------------------------------------
THEOREM IInvHolds == Spec => []IInv
BY InitIInv, NextIInv, PTL DEF Spec

\* The resync task keeps its cursor, peer index, pipeline count and
\* history well typed.
THEOREM TypeCorrect == Spec => []TypeOK
BY IInvHolds, PTL DEF IInv

\* Across failovers and aborts the pipeline receives start_from,
\* start_from + 1, ... and last_sent is the last of them.
THEOREM ForwardedContiguousHolds == Spec => []ForwardedContiguous
BY IInvHolds, PTL DEF IInv

\* Nothing past up_to is ever forwarded.
THEOREM NeverPastUpToHolds == Spec => []NeverPastUpTo
<1>1. IInv => NeverPastUpTo
  BY DEF IInv, ForwardedContiguous, NeverPastUpTo, TypeOK
<1>. QED
  BY <1>1, IInvHolds, PTL
-----------------------------------------------------------------------------
(* Giving up.  TriedAllPers is returned only when the peer loop has run   *)
(* out, and a correct peer is passed over only when its stream has ended  *)
(* at its height, at or below last_sent (it never sends a packet that    *)
(* fails the checks).  PeersTried records this for the peers before      *)
(* peerIdx, and that a loop that has moved on started short of up_to.     *)

PeersTried ==
  /\ \A i \in PeerIds \ faulty : i < peerIdx => height[i] <= lastSent
  /\ pc = "peers" /\ peerIdx > 1 => lastSent < upTo

CInv == PeersTried /\ CompletesWithCorrectPeer

\* A correct peer's packet passes the checks of lines 386-397.
LEMMA CorrectPeerAccepted ==
  ASSUME TypeOK, peerIdx \notin faulty, NEW p \in Sendable
  PROVE  Accepted(p)
BY DEF Sendable, CorrectPacket, Accepted

LEMMA InitCInv == Init => CInv
BY NumPeersAssumption DEF Init, CInv, PeersTried, CompletesWithCorrectPeer,
                          PeerIds

LEMMA NextCInv == IInv /\ CInv /\ [Next]_vars => CInv'
<1> SUFFICES ASSUME IInv, CInv, [Next]_vars PROVE CInv'
  OBVIOUS
<1> USE MaxRoundAssumption, NumPeersAssumption, PipeCapAssumption
<1>0. /\ TypeOK
      /\ pc \in {"stream", "send"} => lastSent < upTo /\ peerIdx \in PeerIds
      /\ PeersTried /\ CompletesWithCorrectPeer
  BY DEF IInv, CInv
<1>1. CASE OpenStream
  BY <1>1, <1>0 DEF OpenStream, Finish, NextPeer, CInv, PeersTried,
                    CompletesWithCorrectPeer, TypeOK, PeerIds
<1>2. CASE Receive
  <2>0. /\ pc = "stream" /\ lastSent < upTo /\ peerIdx \in PeerIds
        /\ UNCHANGED <<upTo, lastSent, faulty, height, result>>
    BY <1>2, <1>0 DEF Receive
  <2>1. PICK p \in Sendable :
          \/ ~Accepted(p) /\ NextPeer /\ UNCHANGED pending
          \/ Accepted(p) /\ pc' = "send" /\ pending' = p /\ UNCHANGED peerIdx
    BY <1>2 DEF Receive
  <2>2. CASE ~Accepted(p) /\ NextPeer
    <3>1. peerIdx \in faulty
      BY <2>2, <1>0, CorrectPeerAccepted
    <3>. QED
      BY <2>0, <2>2, <3>1, <1>0 DEF NextPeer, CInv, PeersTried,
                                    CompletesWithCorrectPeer, TypeOK, PeerIds
  <2>3. CASE Accepted(p) /\ pc' = "send" /\ UNCHANGED peerIdx
    BY <2>0, <2>3, <1>0 DEF CInv, PeersTried, CompletesWithCorrectPeer
  <2>. QED
    BY <2>1, <2>2, <2>3
<1>3. CASE StreamEnd
  BY <1>3, <1>0 DEF StreamEnd, NextPeer, CInv, PeersTried,
                    CompletesWithCorrectPeer, TypeOK, PeerIds, Rounds
<1>4. CASE Send
  <2>1. /\ pc = "send" /\ pc' \in {"stream", "done"}
        /\ lastSent' \in {lastSent, lastSent + 1}
        /\ result' \in {result, "SyncClosedTx", "Ok"}
        /\ UNCHANGED <<upTo, faulty, height, peerIdx>>
    BY <1>4 DEF Send, Finish
  <2>. QED
    BY <2>1, <1>0 DEF CInv, PeersTried, CompletesWithCorrectPeer, TypeOK,
                      Rounds
<1>5. CASE Exhausted
  <2>1. /\ pc = "peers" /\ peerIdx > NumPeers /\ result' = "TriedAllPeers"
        /\ pc' = "done"
        /\ UNCHANGED <<upTo, lastSent, faulty, height, peerIdx>>
    BY <1>5 DEF Exhausted, Finish
  <2>2. \A i \in PeerIds \ faulty : height[i] < upTo
    BY <2>1, <1>0 DEF PeersTried, TypeOK, PeerIds, Rounds
  <2>. QED
    BY <2>1, <2>2, <1>0 DEF CInv, PeersTried, CompletesWithCorrectPeer
<1>6. CASE Abort
  BY <1>6, <1>0 DEF Abort, Finish, CInv, PeersTried,
                    CompletesWithCorrectPeer
<1>7. CASE Consume \/ ClosePipe \/ Finished \/ UNCHANGED vars
  <2>1. UNCHANGED <<upTo, lastSent, faulty, height, peerIdx, pc, result>>
    BY <1>7 DEF Consume, ClosePipe, Finished, vars
  <2>. QED
    BY <2>1, <1>0 DEF CInv, PeersTried, CompletesWithCorrectPeer
<1>. QED
  BY <1>1, <1>2, <1>3, <1>4, <1>5, <1>6, <1>7 DEF Next, Task

\* The resync task gives up with TriedAllPers only when no correct peer had
\* the chain up to up_to: failover over faulty peers never loses what a
\* correct peer could deliver.
THEOREM CompletesWithCorrectPeerHolds == Spec => []CompletesWithCorrectPeer
<1>1. Spec => []IInv
  BY IInvHolds
<1>2. Spec => []CInv
  BY <1>1, InitCInv, NextCInv, PTL DEF Spec
<1>. QED
  BY <1>2, PTL DEF CInv
=============================================================================
