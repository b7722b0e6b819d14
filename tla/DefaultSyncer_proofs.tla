------------------------ MODULE DefaultSyncer_proofs ------------------------
(***************************************************************************)
(* Proofs about the follow syncer, for every number of rounds, peers and   *)
(* every channel capacity.  The safety invariants of the runs are not      *)
(* inductive on their own: a Receive step stores round last.round + 1,     *)
(* which is contiguous with the store, valid and within the target only    *)
(* because the task's cursor last_stored is the store's tail and is short  *)
(* of the target whenever a stream is open.  IInv adds those facts.        *)
(***************************************************************************)
EXTENDS DefaultSyncer, SequenceTheorems, TLAPS

\* The inductive invariant.
IInv ==
  /\ TypeOK
  /\ \E n \in Rounds : DOMAIN store = 0..n
  /\ pc \in {"peers", "stream", "report"} =>
        /\ DOMAIN store = 0..last.round
        /\ last.sig = store[last.round].sig
  /\ pc \in {"stream", "report"} => peerIdx \in PeerIds
  /\ pc \in {"peers", "stream"} => last.round < target
  /\ pc = "report" => last.round <= target
  /\ NoInvalidPersisted
  /\ NeverPastTarget

-----------------------------------------------------------------------------
(* ChainStore::last() of a gap-free store is its top round.                *)

LEMMA StoreTailOfInterval ==
  ASSUME NEW n \in Nat, DOMAIN store = 0..n
  PROVE  StoreTail = n
<1>1. \A r \in DOMAIN store : r <= n
  OBVIOUS
<1>2. \A m \in DOMAIN store : (\A r \in DOMAIN store : r <= m) => m = n
  OBVIOUS
<1>. QED
  BY <1>1, <1>2 DEF StoreTail

-----------------------------------------------------------------------------
LEMMA InitIInv == Init => IInv
<1> SUFFICES ASSUME Init PROVE IInv
  OBVIOUS
<1>1. PICK n \in Rounds : store = [r \in 0..n |-> [sig |-> "good", peer |-> 0]]
  BY DEF Init
<1>2. TypeOK
  <2>1. store \in [0..n -> Beacon] /\ 0..n \in SUBSET Rounds
    <3>1. [sig |-> "good", peer |-> 0] \in Beacon
      BY NumPeersAssumption DEF Beacon, Sigs
    <3>2. 0..n \in SUBSET Rounds
      BY MaxRoundAssumption DEF Rounds
    <3>3. store \in [0..n -> Beacon]
      BY <1>1, <3>1
    <3>. QED
      BY <3>2, <3>3
  <2>2. << >> \in Seq(Message) /\ Len(<< >>) = 0
    BY EmptySeq
  <2>4. DOMAIN store \subseteq Rounds /\ store \in [DOMAIN store -> Beacon]
    BY <2>1
  <2>3. last \in [round : Rounds, sig : Sigs] /\ peerIdx \in 1..NumPeers + 1
    BY MaxRoundAssumption, NumPeersAssumption DEF Init, Rounds, Sigs
  <2>. QED
    BY <2>2, <2>3, <2>4, ChanCapAssumption DEF Init, TypeOK, Results, PeerIds
<1>3. NoInvalidPersisted /\ NeverPastTarget
  BY <1>1 DEF NoInvalidPersisted, NeverPastTarget
<1>. QED
  BY <1>1, <1>2, <1>3 DEF Init, IInv

-----------------------------------------------------------------------------
(* Each step of the syncer, of the client or a stutter keeps IInv.         *)

LEMMA NextIInv == IInv /\ [Next]_vars => IInv'
<1> SUFFICES ASSUME IInv, [Next]_vars PROVE IInv'
  OBVIOUS
<1> USE MaxRoundAssumption, NumPeersAssumption, ChanCapAssumption
<1>0. TypeOK
  BY DEF IInv
<1>00. store \in [DOMAIN store -> Beacon]
  BY <1>0 DEF TypeOK
<1>1. CASE Start
  <2>0. /\ pc = "start"
        /\ UNCHANGED <<store, target, faulty, height, peerIdx, chan, rcvd,
                       rxOpen>>
    BY <1>1 DEF Start
  <2>1. PICK n \in Rounds : DOMAIN store = 0..n
    BY DEF IInv
  <2>2. StoreTail = n
    BY <2>1, StoreTailOfInterval DEF Rounds
  <2>3. store[n].sig \in Sigs
    BY <2>1, <1>0 DEF TypeOK, Beacon, Rounds
  <2>4. CASE last' = [round |-> StoreTail, sig |-> store[StoreTail].sig]
             /\ StoreTail >= target /\ Finish("Ok")
    BY <2>0, <2>1, <2>2, <2>3, <2>4, <1>0
    DEF Finish, IInv, TypeOK, NoInvalidPersisted, NeverPastTarget, Results
  <2>5. CASE last' = [round |-> StoreTail, sig |-> store[StoreTail].sig]
             /\ StoreTail < target /\ pc' = "peers" /\ UNCHANGED result
    BY <2>0, <2>1, <2>2, <2>3, <2>5, <1>0
    DEF IInv, TypeOK, NoInvalidPersisted, NeverPastTarget
  <2>6. CASE Finish("ChainStore") /\ UNCHANGED last
    BY <2>0, <2>6, <1>0
    DEF Finish, IInv, TypeOK, NoInvalidPersisted, NeverPastTarget, Results
  <2>. QED
    BY <1>1, <2>4, <2>5, <2>6 DEF Start
<1>2. CASE OpenStream
  BY <1>2, <1>0 DEF OpenStream, NextPeer, IInv, TypeOK, NoInvalidPersisted,
                    NeverPastTarget, PeerIds
<1>3. CASE Receive
  <2>1. PICK p \in Sendable :
          \/ ~Validated(p) /\ NextPeer /\ UNCHANGED <<store, last, result>>
          \/ /\ Validated(p)
             /\ store' = [r \in DOMAIN store \cup {p.round} |->
                            IF r = p.round
                            THEN [sig |-> p.sig, peer |-> peerIdx]
                            ELSE store[r]]
             /\ last' = [round |-> p.round, sig |-> p.sig]
             /\ pc' = "report"
             /\ UNCHANGED <<peerIdx, result>>
          \/ Validated(p) /\ Finish("ChainStore")
             /\ UNCHANGED <<store, last, peerIdx>>
    BY <1>3 DEF Receive
  <2>0. /\ pc = "stream"
        /\ UNCHANGED <<target, faulty, height, chan, rcvd, rxOpen>>
    BY <1>3 DEF Receive
  <2>2. CASE ~Validated(p) /\ NextPeer /\ UNCHANGED <<store, last, result>>
    BY <2>0, <2>2, <1>0 DEF NextPeer, IInv, TypeOK, NoInvalidPersisted,
                            NeverPastTarget, PeerIds
  <2>3. CASE /\ Validated(p)
             /\ store' = [r \in DOMAIN store \cup {p.round} |->
                            IF r = p.round
                            THEN [sig |-> p.sig, peer |-> peerIdx]
                            ELSE store[r]]
             /\ last' = [round |-> p.round, sig |-> p.sig]
             /\ pc' = "report"
             /\ UNCHANGED <<peerIdx, result>>
    <3>1. /\ p.round = last.round + 1
          /\ p.sig = "good"
      BY <2>3 DEF Validated, IsValidSignature
    <3>2. /\ DOMAIN store = 0..last.round
          /\ last.round < target
          /\ peerIdx \in PeerIds
      BY <2>0 DEF IInv
    <3>3. DOMAIN store' = 0..p.round
      <4>1. DOMAIN store' = DOMAIN store \cup {p.round}
        BY <2>3
      <4>2. last.round \in Nat
        BY <1>0 DEF TypeOK, Rounds
      <4>. QED
        BY <4>1, <4>2, <3>1, <3>2
    <3>4. p.round \in Rounds /\ p.round <= target
      BY <3>1, <3>2, <1>0 DEF TypeOK, Rounds
    <3>5. TypeOK'
      <4>1. \A r \in DOMAIN store' : store'[r] \in Beacon
        <5>1. [sig |-> p.sig, peer |-> peerIdx] \in Beacon
          BY <3>1, <3>2 DEF Beacon, Sigs, PeerIds
        <5>. QED
          BY <2>3, <5>1, <1>00
      <4>2. DOMAIN store' \subseteq Rounds
        BY <3>3, <3>4 DEF Rounds
      <4>3. store' \in [DOMAIN store' -> Beacon]
        BY <2>3, <4>1
      <4>. QED
        BY <2>0, <2>3, <3>1, <3>4, <4>2, <4>3, <1>0 DEF TypeOK, Sigs
    <3>6. NoInvalidPersisted'
      BY <2>3, <3>1, <3>2 DEF IInv, NoInvalidPersisted
    <3>7. NeverPastTarget'
      BY <2>0, <2>3, <3>1, <3>2, <3>4 DEF IInv, NeverPastTarget
    <3>8. last'.sig = store'[last'.round].sig
      BY <2>3
    <3>. QED
      BY <2>0, <2>3, <3>2, <3>3, <3>4, <3>5, <3>6, <3>7, <3>8 DEF IInv
  <2>4. CASE Validated(p) /\ Finish("ChainStore")
             /\ UNCHANGED <<store, last, peerIdx>>
    BY <2>0, <2>4, <1>0 DEF Finish, IInv, TypeOK, NoInvalidPersisted,
                            NeverPastTarget, Results
  <2>. QED
    BY <2>1, <2>2, <2>3, <2>4
<1>4. CASE StreamEnd
  BY <1>4, <1>0 DEF StreamEnd, NextPeer, IInv, TypeOK, NoInvalidPersisted,
                    NeverPastTarget, PeerIds
<1>5. CASE Report
  <2>0. /\ pc = "report"
        /\ UNCHANGED <<store, last, target, faulty, height, peerIdx, rcvd,
                       rxOpen>>
    BY <1>5 DEF Report
  <2>1. last.round <= target /\ last.round \in Rounds
    BY <2>0, <1>0 DEF IInv, TypeOK
  <2>2. CASE ~rxOpen /\ Finish("Ok") /\ UNCHANGED chan
    BY <2>0, <2>2, <1>0
    DEF Finish, IInv, TypeOK, NoInvalidPersisted, NeverPastTarget, Results
  <2>3. CASE /\ rxOpen
             /\ Len(chan) < ChanCap
             /\ chan' = Append(chan, [kind |-> "progress",
                                      current |-> last.round])
             /\ \/ last.round = target /\ Finish("Ok")
                \/ last.round # target /\ pc' = "stream" /\ UNCHANGED result
    <3>1. [kind |-> "progress", current |-> last.round] \in Message
      BY <2>1 DEF Message
    <3>2. chan' \in Seq(Message) /\ Len(chan') <= ChanCap
      BY <2>3, <3>1, <1>0, AppendProperties DEF TypeOK
    <3>3. CASE last.round = target /\ Finish("Ok")
      BY <2>0, <2>1, <3>2, <3>3, <1>0
      DEF Finish, IInv, TypeOK, NoInvalidPersisted, NeverPastTarget, Results
    <3>4. CASE last.round # target /\ pc' = "stream" /\ UNCHANGED result
      BY <2>0, <2>1, <3>2, <3>4, <1>0
      DEF IInv, TypeOK, NoInvalidPersisted, NeverPastTarget, Rounds
    <3>. QED
      BY <2>3, <3>3, <3>4
  <2>. QED
    BY <1>5, <2>2, <2>3 DEF Report
<1>6. CASE Exhausted
  <2>0. UNCHANGED <<store, last, target, faulty, height, peerIdx, rcvd,
                    rxOpen>> /\ Finish("TriedAllPeers")
    BY <1>6 DEF Exhausted
  <2>1. chan' \in Seq(Message) /\ Len(chan') <= ChanCap
    <3>1. CASE UNCHANGED chan
      BY <3>1, <1>0 DEF TypeOK
    <3>2. CASE Len(chan) < ChanCap
               /\ chan' = Append(chan, [kind |-> "cancelled",
                                        last |-> last.round])
      <4>1. [kind |-> "cancelled", last |-> last.round] \in Message
        BY <1>0 DEF TypeOK, Message
      <4>. QED
        BY <3>2, <4>1, <1>0, AppendProperties DEF TypeOK
    <3>. QED
      BY <1>6, <3>1, <3>2 DEF Exhausted
  <2>. QED
    BY <2>0, <2>1, <1>0
    DEF Finish, IInv, TypeOK, NoInvalidPersisted, NeverPastTarget, Results
<1>7. CASE Consume
  <2>0. /\ chan # << >>
        /\ rcvd' = Append(rcvd, Head(chan))
        /\ chan' = Tail(chan)
        /\ UNCHANGED <<store, last, target, faulty, height, peerIdx, pc,
                       rxOpen, result>>
    BY <1>7 DEF Consume
  <2>1. /\ Head(chan) \in Message
        /\ Tail(chan) \in Seq(Message)
        /\ Len(Tail(chan)) = Len(chan) - 1
    BY <2>0, <1>0, HeadTailProperties DEF TypeOK
  <2>2. rcvd' \in Seq(Message) /\ chan' \in Seq(Message)
        /\ Len(chan') <= ChanCap
    BY <2>0, <2>1, <1>0, AppendProperties DEF TypeOK
  <2>. QED
    BY <2>0, <2>2, <1>0
    DEF IInv, TypeOK, NoInvalidPersisted, NeverPastTarget
<1>8. CASE DropReceiver
  <2>1. << >> \in Seq(Message) /\ Len(<< >>) = 0
    BY EmptySeq
  <2>2. UNCHANGED <<store, last, target, faulty, height, peerIdx, pc, rcvd,
                    result>>
    BY <1>8 DEF DropReceiver
  <2>3. chan' = << >> /\ rxOpen' = FALSE
    BY <1>8 DEF DropReceiver
  <2>4. TypeOK'
    <3>1. chan' \in Seq(Message) /\ Len(chan') <= ChanCap
      BY <2>1, <2>3
    <3>2. rxOpen' \in BOOLEAN
      BY <2>3
    <3>. QED
      BY <2>2, <3>1, <3>2, <1>0 DEF TypeOK
  <2>. QED
    BY <2>2, <2>4 DEF IInv, NoInvalidPersisted, NeverPastTarget
<1>9. CASE Finished \/ UNCHANGED vars
  <2>1. UNCHANGED vars
    BY <1>9 DEF Finished
  <2>2. TypeOK'
    BY <2>1, <1>0 DEF vars, TypeOK
  <2>. QED
    BY <2>1, <2>2 DEF vars, IInv, NoInvalidPersisted, NeverPastTarget
<1>. QED
  BY <1>1, <1>2, <1>3, <1>4, <1>5, <1>6, <1>7, <1>8, <1>9 DEF Next, Syncer

-----------------------------------------------------------------------------
THEOREM IInvHolds == Spec => []IInv
BY InitIInv, NextIInv, PTL DEF Spec

\* The follow task keeps the store well typed and its cursor in range.
THEOREM TypeCorrect == Spec => []TypeOK
BY IInvHolds, PTL DEF IInv

\* Spec section 8: no beacon with an undecodable or unverifiable signature is
\* ever persisted by the follow task, whatever the peers send.
THEOREM NoInvalidPersistedHolds == Spec => []NoInvalidPersisted
BY IInvHolds, PTL DEF IInv

\* The store stays gap-free and the task's last_stored is its tail while the
\* peer loop runs, so failover resumes from the store.
THEOREM StoreContiguousHolds == Spec => []StoreContiguous
<1>1. IInv => StoreContiguous
  <2> SUFFICES ASSUME IInv PROVE StoreContiguous
    OBVIOUS
  <2>1. PICK n \in Rounds : DOMAIN store = 0..n
    BY DEF IInv
  <2>2. StoreTail = n
    BY <2>1, StoreTailOfInterval, MaxRoundAssumption DEF Rounds
  <2>3. pc \in {"peers", "stream", "report"} => last.round = n
    BY <2>1 DEF IInv, TypeOK, Rounds
  <2>4. pc \in {"peers", "stream", "report"} =>
           last.sig = store[StoreTail].sig
    BY <2>2, <2>3 DEF IInv
  <2>. QED
    BY <2>1, <2>2, <2>3, <2>4 DEF StoreContiguous
<1>. QED
  BY <1>1, IInvHolds, PTL

\* The task never stores past the requested target.
THEOREM NeverPastTargetHolds == Spec => []NeverPastTarget
BY IInvHolds, PTL DEF IInv

\* While the peer loop runs the cursor is short of the target: the
\* InvalidTarget branch of line 191 is dead and line 227 cannot underflow.
THEOREM CursorBelowTargetHolds == Spec => []CursorBelowTarget
BY IInvHolds, PTL DEF IInv, CursorBelowTarget
=============================================================================
