--------------------- MODULE DefaultSyncer_client_proofs ---------------------
(***************************************************************************)
(* Proofs about what the follow syncer tells its client, for every number  *)
(* of rounds, peers and every channel capacity: the progress messages of  *)
(* lines 252-258 name consecutive rounds the session stored, and the       *)
(* TriedAllPers of lines 275-283 comes only when no correct peer had the  *)
(* target.  Both rest on the invariant IInv of DefaultSyncer_proofs.      *)
(***************************************************************************)
EXTENDS DefaultSyncer_proofs

-----------------------------------------------------------------------------
(* Lemmas on sequences                                                     *)

LEMMA ConcatAppend ==
  ASSUME NEW S, NEW s \in Seq(S), NEW t \in Seq(S), NEW e \in S
  PROVE  s \o Append(t, e) = Append(s \o t, e)
<1>1. /\ Append(t, e) \in Seq(S) /\ Len(Append(t, e)) = Len(t) + 1
      /\ \A i \in 1..Len(t) : Append(t, e)[i] = t[i]
      /\ Append(t, e)[Len(t) + 1] = e
  BY AppendProperties
<1>2. /\ s \o t \in Seq(S) /\ Len(s \o t) = Len(s) + Len(t)
      /\ \A i \in 1..Len(s) + Len(t) :
           (s \o t)[i] = IF i <= Len(s) THEN s[i] ELSE t[i - Len(s)]
  BY ConcatProperties
<1>3. /\ s \o Append(t, e) \in Seq(S)
      /\ Len(s \o Append(t, e)) = Len(s) + Len(t) + 1
      /\ \A i \in 1..Len(s) + Len(t) + 1 :
           (s \o Append(t, e))[i] =
             IF i <= Len(s) THEN s[i] ELSE Append(t, e)[i - Len(s)]
  <2> DEFINE w == Append(t, e)
  <2>1. /\ s \o w \in Seq(S) /\ Len(s \o w) = Len(s) + Len(w)
        /\ \A i \in 1..Len(s) + Len(w) :
             (s \o w)[i] = IF i <= Len(s) THEN s[i] ELSE w[i - Len(s)]
    BY <1>1, ConcatProperties
  <2>. QED
    BY <2>1, <1>1
<1>4. /\ Append(s \o t, e) \in Seq(S)
      /\ Len(Append(s \o t, e)) = Len(s) + Len(t) + 1
      /\ \A i \in 1..Len(s) + Len(t) : Append(s \o t, e)[i] = (s \o t)[i]
      /\ Append(s \o t, e)[Len(s) + Len(t) + 1] = e
  <2> DEFINE u == s \o t
  <2>1. u \in Seq(S)
    BY <1>2
  <2>2. /\ Append(u, e) \in Seq(S) /\ Len(Append(u, e)) = Len(u) + 1
        /\ \A i \in 1..Len(u) : Append(u, e)[i] = u[i]
        /\ Append(u, e)[Len(u) + 1] = e
    BY <2>1, AppendProperties
  <2>. QED
    BY <2>2, <1>2
<1>. QED
  BY <1>1, <1>2, <1>3, <1>4, SeqEqual

\* Handing the head of the channel to the client leaves rcvd \o chan as it is.
LEMMA ConcatShift ==
  ASSUME NEW S, NEW s \in Seq(S), NEW t \in Seq(S), t # << >>
  PROVE  Append(s, Head(t)) \o Tail(t) = s \o t
<1>1. /\ Head(t) \in S /\ Tail(t) \in Seq(S) /\ Len(Tail(t)) = Len(t) - 1
      /\ Head(t) = t[1] /\ \A i \in 1..Len(t) - 1 : Tail(t)[i] = t[i + 1]
      /\ Len(t) \in Nat \ {0}
  BY HeadTailProperties, EmptySeq
<1>2. /\ Append(s, Head(t)) \in Seq(S)
      /\ Len(Append(s, Head(t))) = Len(s) + 1
      /\ \A i \in 1..Len(s) : Append(s, Head(t))[i] = s[i]
      /\ Append(s, Head(t))[Len(s) + 1] = Head(t)
  BY <1>1, AppendProperties
<1>3. /\ Append(s, Head(t)) \o Tail(t) \in Seq(S)
      /\ Len(Append(s, Head(t)) \o Tail(t)) = Len(s) + Len(t)
      /\ \A i \in 1..Len(s) + Len(t) :
           (Append(s, Head(t)) \o Tail(t))[i] =
             IF i <= Len(s) + 1 THEN Append(s, Head(t))[i]
             ELSE Tail(t)[i - Len(s) - 1]
  BY <1>1, <1>2, ConcatProperties
<1>4. /\ s \o t \in Seq(S) /\ Len(s \o t) = Len(s) + Len(t)
      /\ \A i \in 1..Len(s) + Len(t) :
           (s \o t)[i] = IF i <= Len(s) THEN s[i] ELSE t[i - Len(s)]
  BY ConcatProperties
<1>. QED
  BY <1>1, <1>2, <1>3, <1>4, SeqEqual

-----------------------------------------------------------------------------
(* What a sequence of messages must satisfy against a store: every         *)
(* progress message names a round stored by this session, one more than   *)
(* the progress message before it.                                         *)

ProgressOK(M, st) ==
  \A i \in 1..Len(M) :
    M[i].kind = "progress" =>
      /\ M[i].current \in DOMAIN st
      /\ st[M[i].current].peer # 0
      /\ i > 1 /\ M[i - 1].kind = "progress" =>
            M[i].current = M[i - 1].current + 1

\* A message that fits the end of a good sequence keeps it good.
LEMMA ProgressAppend ==
  ASSUME NEW M \in Seq(Message), NEW st, NEW e \in Message,
         ProgressOK(M, st),
         e.kind = "progress" =>
           /\ e.current \in DOMAIN st
           /\ st[e.current].peer # 0
           /\ M # << >> /\ M[Len(M)].kind = "progress" =>
                e.current = M[Len(M)].current + 1
  PROVE  ProgressOK(Append(M, e), st)
<1>1. /\ Len(Append(M, e)) = Len(M) + 1
      /\ \A i \in 1..Len(M) : Append(M, e)[i] = M[i]
      /\ Append(M, e)[Len(M) + 1] = e
  BY AppendProperties
<1>2. M # << >> <=> Len(M) > 0
  BY EmptySeq
<1>. QED
  BY <1>1, <1>2 DEF ProgressOK

\* A prefix of a good sequence is good: the client dropping rx.
LEMMA ProgressPrefix ==
  ASSUME NEW M \in Seq(Message), NEW N \in Seq(Message), NEW st,
         ProgressOK(M, st),
         Len(N) <= Len(M), \A i \in 1..Len(N) : N[i] = M[i]
  PROVE  ProgressOK(N, st)
BY DEF ProgressOK

\* A store that keeps every stored round as it was keeps a sequence good.
LEMMA ProgressStoreGrows ==
  ASSUME NEW M, NEW st, NEW st2, ProgressOK(M, st),
         DOMAIN st \subseteq DOMAIN st2,
         \A r \in DOMAIN st : st2[r] = st[r]
  PROVE  ProgressOK(M, st2)
BY DEF ProgressOK
-----------------------------------------------------------------------------
(* Giving up.  A correct peer sends only the chain's next beacon, which     *)
(* passes every check since last_stored is the store's valid tail, so the  *)
(* loop moves past it only once its stream has ended at its height, at or *)
(* below last_stored.  The loop runs out with last_stored short of the    *)
(* target.                                                                 *)

PeersTried ==
  /\ pc = "start" => peerIdx = 1
  /\ \A i \in PeerIds \ faulty : i < peerIdx => height[i] <= last.round

CInv == PeersTried /\ CompletesWithCorrectPeer

\* A correct peer's packet passes the checks of lines 214-242.
LEMMA CorrectPeerValidated ==
  ASSUME IInv, pc = "stream", peerIdx \notin faulty, NEW p \in Sendable
  PROVE  Validated(p)
<1>1. last.round \in DOMAIN store /\ last.sig = store[last.round].sig
  BY DEF IInv, TypeOK, Rounds
<1>2. last.sig = "good"
  BY <1>1 DEF IInv, NoInvalidPersisted
<1>3. p = CorrectPacket
  BY DEF Sendable
<1>. QED
  BY <1>2, <1>3 DEF CorrectPacket, Validated, IsValidSignature

LEMMA InitCInv == Init => CInv
BY NumPeersAssumption DEF Init, CInv, PeersTried, CompletesWithCorrectPeer,
                          PeerIds

LEMMA NextCInv == IInv /\ CInv /\ [Next]_vars => CInv'
<1> SUFFICES ASSUME IInv, CInv, [Next]_vars PROVE CInv'
  OBVIOUS
<1> USE MaxRoundAssumption, NumPeersAssumption, ChanCapAssumption
<1>0. /\ TypeOK
      /\ pc \in {"stream", "report"} => peerIdx \in PeerIds
      /\ pc \in {"peers", "stream"} => last.round < target
      /\ PeersTried /\ CompletesWithCorrectPeer
  BY DEF IInv, CInv
<1>1. CASE Start
  <2>1. /\ pc = "start" /\ peerIdx = 1 /\ pc' \in {"peers", "done"}
        /\ result' \in {result, "Ok", "ChainStore"}
        /\ UNCHANGED <<faulty, height, peerIdx, target>>
    BY <1>1, <1>0 DEF Start, Finish, PeersTried
  <2>. QED
    BY <2>1, <1>0 DEF CInv, PeersTried, CompletesWithCorrectPeer, PeerIds
<1>2. CASE OpenStream
  BY <1>2, <1>0 DEF OpenStream, NextPeer, CInv, PeersTried,
                    CompletesWithCorrectPeer, TypeOK, PeerIds
<1>3. CASE Receive
  <2>0. /\ pc = "stream" /\ peerIdx \in PeerIds
        /\ UNCHANGED <<target, faulty, height>>
    BY <1>3, <1>0 DEF Receive
  <2>1. PICK p \in Sendable :
          \/ ~Validated(p) /\ NextPeer /\ UNCHANGED <<store, last, result>>
          \/ /\ Validated(p)
             /\ last' = [round |-> p.round, sig |-> p.sig]
             /\ pc' = "report"
             /\ UNCHANGED <<peerIdx, result>>
          \/ Validated(p) /\ Finish("ChainStore")
             /\ UNCHANGED <<store, last, peerIdx>>
    BY <1>3 DEF Receive
  <2>2. CASE ~Validated(p) /\ NextPeer /\ UNCHANGED <<store, last, result>>
    <3>1. peerIdx \in faulty
      BY <2>0, <2>2, CorrectPeerValidated
    <3>. QED
      BY <2>0, <2>2, <3>1, <1>0 DEF NextPeer, CInv, PeersTried,
                                    CompletesWithCorrectPeer, TypeOK, PeerIds
  <2>3. CASE /\ Validated(p)
             /\ last' = [round |-> p.round, sig |-> p.sig]
             /\ pc' = "report"
             /\ UNCHANGED <<peerIdx, result>>
    <3>1. last'.round = last.round + 1
      BY <2>3 DEF Validated
    <3>. QED
      BY <2>0, <2>3, <3>1, <1>0 DEF CInv, PeersTried,
                                    CompletesWithCorrectPeer, TypeOK, Rounds
  <2>4. CASE Validated(p) /\ Finish("ChainStore")
             /\ UNCHANGED <<store, last, peerIdx>>
    BY <2>0, <2>4, <1>0 DEF Finish, CInv, PeersTried,
                            CompletesWithCorrectPeer
  <2>. QED
    BY <2>1, <2>2, <2>3, <2>4
<1>4. CASE StreamEnd
  BY <1>4, <1>0 DEF StreamEnd, NextPeer, CInv, PeersTried,
                    CompletesWithCorrectPeer, TypeOK, PeerIds, Rounds
<1>5. CASE Report
  <2>1. /\ pc = "report" /\ pc' \in {"stream", "done"}
        /\ result' \in {result, "Ok"}
        /\ UNCHANGED <<last, target, faulty, height, peerIdx>>
    BY <1>5 DEF Report, Finish
  <2>. QED
    BY <2>1, <1>0 DEF CInv, PeersTried, CompletesWithCorrectPeer
<1>6. CASE Exhausted
  <2>1. /\ pc = "peers" /\ peerIdx > NumPeers /\ result' = "TriedAllPeers"
        /\ pc' = "done"
        /\ UNCHANGED <<last, target, faulty, height, peerIdx>>
    BY <1>6 DEF Exhausted, Finish
  <2>2. \A i \in PeerIds \ faulty : height[i] < target
    BY <2>1, <1>0 DEF PeersTried, TypeOK, PeerIds, Rounds
  <2>. QED
    BY <2>1, <2>2 DEF CInv, PeersTried, CompletesWithCorrectPeer
<1>7. CASE Consume \/ DropReceiver \/ Finished \/ UNCHANGED vars
  <2>1. UNCHANGED <<last, target, faulty, height, peerIdx, pc, result>>
    BY <1>7 DEF Consume, DropReceiver, Finished, vars
  <2>. QED
    BY <2>1, <1>0 DEF CInv, PeersTried, CompletesWithCorrectPeer
<1>. QED
  BY <1>1, <1>2, <1>3, <1>4, <1>5, <1>6, <1>7 DEF Next, Syncer

\* The follow task reports TriedAllPers (line 276) only when no correct
\* peer had the chain up to the target.
THEOREM CompletesWithCorrectPeerHolds == Spec => []CompletesWithCorrectPeer
<1>1. Spec => []IInv
  BY IInvHolds
<1>2. Spec => []CInv
  BY <1>1, InitCInv, NextCInv, PTL DEF Spec
<1>. QED
  BY <1>2, PTL DEF CInv

-----------------------------------------------------------------------------
(* Progress.  The messages the client has taken and those still buffered, *)
(* rcvd \o chan, satisfy ProgressOK against the store.  Not inductive     *)
(* alone: a Report sends last_stored, which is the successor of the last  *)
(* progress sent only because a Receive in between stored exactly one     *)
(* round and nothing was sent before the first Start.  PInv adds this.    *)

LastReported ==
  rxOpen /\ pc \in {"peers", "stream", "report"} /\ Msgs # << >> =>
    /\ Msgs[Len(Msgs)].kind = "progress"
    /\ Msgs[Len(Msgs)].current + (IF pc = "report" THEN 1 ELSE 0)
         = last.round

PInv ==
  /\ ProgressOK(Msgs, store)
  /\ pc = "start" => Msgs = << >>
  /\ pc = "report" => store[last.round].peer # 0
  /\ LastReported

LEMMA MsgsType ==
  ASSUME TypeOK
  PROVE  Msgs \in Seq(Message) /\ Len(Msgs) = Len(rcvd) + Len(chan)
         /\ \A i \in 1..Len(rcvd) : Msgs[i] = rcvd[i]
BY ConcatProperties DEF TypeOK, Msgs

LEMMA LastProgressRound ==
  ASSUME TypeOK, Msgs # << >>, Msgs[Len(Msgs)].kind = "progress"
  PROVE  Msgs[Len(Msgs)].current \in Nat
<1>1. Msgs \in Seq(Message)
  BY MsgsType
<1>2. Len(Msgs) \in 1..Len(Msgs)
  BY <1>1, EmptySeq
<1>3. Msgs[Len(Msgs)] \in Message
  BY <1>1, <1>2, ElementOfSeq
<1>. QED
  BY <1>3 DEF Message, Rounds

LEMMA InitPInv == Init => PInv
<1> SUFFICES ASSUME Init PROVE PInv
  OBVIOUS
<1>1. Msgs = << >> /\ Len(Msgs) = 0
  <2>1. << >> \in Seq(Message)
    BY EmptySeq
  <2>. QED
    BY <2>1, ConcatEmptySeq, EmptySeq DEF Init, Msgs
<1>. QED
  BY <1>1 DEF Init, PInv, ProgressOK, LastReported

\* Steps that leave the messages, the store, last_stored and rx alone and
\* move between the peer loop's states keep PInv.
LEMMA LoopStep ==
  ASSUME PInv, UNCHANGED <<store, last, chan, rcvd, rxOpen>>,
         pc \in {"peers", "stream"}, pc' \in {"peers", "stream", "done"}
  PROVE  PInv'
BY DEF PInv, Msgs, ProgressOK, LastReported

LEMMA NextPInv == IInv /\ PInv /\ [Next]_vars => PInv'
<1> SUFFICES ASSUME IInv, PInv, [Next]_vars PROVE PInv'
  OBVIOUS
<1> USE MaxRoundAssumption, NumPeersAssumption, ChanCapAssumption
<1>0. /\ TypeOK
      /\ Msgs \in Seq(Message)
      /\ pc \in {"peers", "stream", "report"} =>
            DOMAIN store = 0..last.round
      /\ pc \in {"stream", "report"} => peerIdx \in PeerIds
  BY MsgsType DEF IInv
<1>1. CASE Start
  <2>1. /\ pc = "start" /\ Msgs = << >> /\ pc' \in {"peers", "done"}
        /\ UNCHANGED <<store, chan, rcvd>>
    BY <1>1 DEF Start, Finish, PInv
  <2>2. Msgs' = << >>
    BY <2>1 DEF Msgs
  <2>. QED
    BY <2>1, <2>2 DEF PInv, ProgressOK, LastReported
<1>2. CASE OpenStream
  BY <1>2, LoopStep DEF OpenStream, NextPeer
<1>3. CASE StreamEnd
  BY <1>3, LoopStep DEF StreamEnd, NextPeer
<1>4. CASE Receive
  <2>0. /\ pc = "stream" /\ peerIdx \in PeerIds
        /\ DOMAIN store = 0..last.round
        /\ UNCHANGED <<chan, rcvd, rxOpen>>
    BY <1>4, <1>0 DEF Receive
  <2>1. PICK p \in Sendable :
          \/ ~Validated(p) /\ NextPeer /\ UNCHANGED <<store, last, result>>
          \/ /\ Validated(p)
             /\ store' = [r \in DOMAIN store \cup {p.round} |->
                            IF r = p.round
                            THEN [sig |-> p.sig, peer |-> peerIdx]
                            ELSE store[r]]
             /\ last' = [round |-> p.round, sig |-> p.sig]
             /\ pc' = "report"
          \/ Validated(p) /\ Finish("ChainStore")
             /\ UNCHANGED <<store, last, peerIdx>>
    BY <1>4 DEF Receive
  <2>2. CASE ~Validated(p) /\ NextPeer /\ UNCHANGED <<store, last, result>>
    BY <2>0, <2>2, LoopStep DEF NextPeer
  <2>3. CASE /\ Validated(p)
             /\ store' = [r \in DOMAIN store \cup {p.round} |->
                            IF r = p.round
                            THEN [sig |-> p.sig, peer |-> peerIdx]
                            ELSE store[r]]
             /\ last' = [round |-> p.round, sig |-> p.sig]
             /\ pc' = "report"
    <3>1. p.round = last.round + 1 /\ last.round \in Nat
      BY <2>3, <1>0 DEF Validated, TypeOK, Rounds
    <3>2. /\ DOMAIN store \subseteq DOMAIN store'
          /\ \A r \in DOMAIN store : store'[r] = store[r]
          /\ store'[last'.round].peer # 0
      BY <2>0, <2>3, <3>1 DEF PeerIds
    <3>3. Msgs' = Msgs
      BY <2>0 DEF Msgs
    <3>4. ProgressOK(Msgs', store')
      BY <3>2, <3>3, ProgressStoreGrows DEF PInv
    <3>5. LastReported'
      <4>1. SUFFICES ASSUME rxOpen, Msgs # << >>
                     PROVE  /\ Msgs[Len(Msgs)].kind = "progress"
                            /\ Msgs[Len(Msgs)].current + 1 = last'.round
        BY <2>0, <2>3, <3>3 DEF LastReported
      <4>2. /\ Msgs[Len(Msgs)].kind = "progress"
            /\ Msgs[Len(Msgs)].current + 0 = last.round
        BY <2>0, <4>1 DEF PInv, LastReported
      <4>3. Msgs[Len(Msgs)].current \in Nat
        BY <4>1, <4>2, <1>0, LastProgressRound
      <4>. QED
        BY <2>3, <3>1, <4>2, <4>3
    <3>. QED
      BY <2>3, <3>2, <3>4, <3>5 DEF PInv
  <2>4. CASE Validated(p) /\ Finish("ChainStore")
             /\ UNCHANGED <<store, last, peerIdx>>
    BY <2>0, <2>4 DEF Finish, PInv, Msgs, ProgressOK, LastReported
  <2>. QED
    BY <2>1, <2>2, <2>3, <2>4
<1>5. CASE Report
  <2>0. /\ pc = "report"
        /\ DOMAIN store = 0..last.round
        /\ store[last.round].peer # 0
        /\ UNCHANGED <<store, last, rcvd, rxOpen>>
    BY <1>5, <1>0 DEF Report, PInv
  <2>1. CASE ~rxOpen /\ Finish("Ok") /\ UNCHANGED chan
    BY <2>0, <2>1 DEF Finish, PInv, Msgs, ProgressOK, LastReported
  <2>2. CASE /\ rxOpen
             /\ chan' = Append(chan, [kind |-> "progress",
                                      current |-> last.round])
             /\ \/ last.round = target /\ Finish("Ok")
                \/ last.round # target /\ pc' = "stream"
    <3> DEFINE m == [kind |-> "progress", current |-> last.round]
    <3>1. m \in Message /\ last.round \in Nat
      BY <1>0 DEF TypeOK, Message, Rounds
    <3>2. Msgs' = Append(Msgs, m)
      <4>0. rcvd \in Seq(Message) /\ chan \in Seq(Message)
        BY <1>0 DEF TypeOK
      <4>1. rcvd \o Append(chan, m) = Append(rcvd \o chan, m)
        BY <3>1, <4>0, ConcatAppend
      <4>. QED
        BY <2>0, <2>2, <4>1 DEF Msgs
    <3>3. /\ Len(Msgs') = Len(Msgs) + 1
          /\ Msgs'[Len(Msgs) + 1] = m
      BY <3>1, <3>2, <1>0, AppendProperties
    <3>4. ProgressOK(Msgs', store')
      <4>1. Msgs # << >> /\ Msgs[Len(Msgs)].kind = "progress" =>
              m.current = Msgs[Len(Msgs)].current + 1
        BY <2>0, <2>2, <3>1 DEF PInv, LastReported
      <4>2. m.current \in DOMAIN store /\ store[m.current].peer # 0
        BY <2>0, <3>1
      <4>. QED
        BY <2>0, <3>1, <3>2, <4>1, <4>2, <1>0, ProgressAppend DEF PInv
    <3>5. LastReported'
      <4>1. CASE pc' = "done"
        BY <4>1 DEF LastReported
      <4>2. CASE pc' = "stream"
        BY <2>0, <3>1, <3>3, <4>2 DEF LastReported
      <4>. QED
        BY <2>2, <4>1, <4>2 DEF Finish
    <3>6. pc' \in {"stream", "done"}
      BY <2>2 DEF Finish
    <3>. QED
      BY <3>4, <3>5, <3>6 DEF PInv
  <2>. QED
    BY <1>5, <2>1, <2>2 DEF Report
<1>6. CASE Exhausted
  <2>0. /\ pc = "peers" /\ pc' = "done"
        /\ UNCHANGED <<store, rcvd>>
        /\ \/ UNCHANGED chan
           \/ chan' = Append(chan, [kind |-> "cancelled", last |-> last.round])
    BY <1>6 DEF Exhausted, Finish
  <2>1. CASE UNCHANGED chan
    BY <2>0, <2>1 DEF PInv, Msgs, LastReported
  <2>2. CASE chan' = Append(chan, [kind |-> "cancelled", last |-> last.round])
    <3> DEFINE m == [kind |-> "cancelled", last |-> last.round]
    <3>1. m \in Message
      BY <1>0 DEF TypeOK, Message
    <3>2. Msgs' = Append(Msgs, m)
      <4>0. rcvd \in Seq(Message) /\ chan \in Seq(Message)
        BY <1>0 DEF TypeOK
      <4>1. rcvd \o Append(chan, m) = Append(rcvd \o chan, m)
        BY <3>1, <4>0, ConcatAppend
      <4>. QED
        BY <2>0, <2>2, <4>1 DEF Msgs
    <3>3. ProgressOK(Msgs', store')
      BY <2>0, <3>1, <3>2, <1>0, ProgressAppend DEF PInv
    <3>. QED
      BY <2>0, <3>3 DEF PInv, LastReported
  <2>. QED
    BY <2>0, <2>1, <2>2
<1>7. CASE Consume
  <2>0. /\ chan # << >>
        /\ rcvd' = Append(rcvd, Head(chan)) /\ chan' = Tail(chan)
        /\ UNCHANGED <<store, last, pc, rxOpen>>
    BY <1>7 DEF Consume
  <2>1. Msgs' = Msgs
    BY <2>0, <1>0, ConcatShift DEF TypeOK, Msgs
  <2>. QED
    BY <2>0, <2>1 DEF PInv, LastReported
<1>8. CASE DropReceiver
  <2>0. /\ rcvd' = rcvd /\ chan' = << >> /\ rxOpen' = FALSE
        /\ UNCHANGED <<store, last, pc>>
    BY <1>8 DEF DropReceiver
  <2>1. Msgs' = rcvd
    BY <2>0, <1>0, ConcatEmptySeq DEF TypeOK, Msgs
  <2>2. /\ rcvd \in Seq(Message) /\ Len(rcvd) <= Len(Msgs)
        /\ \A i \in 1..Len(rcvd) : rcvd[i] = Msgs[i]
    BY <1>0, MsgsType DEF TypeOK
  <2>3. ProgressOK(Msgs', store')
    BY <2>0, <2>1, <2>2, <1>0, ProgressPrefix DEF PInv
  <2>4. pc = "start" => rcvd = << >>
    BY <2>2, EmptySeq DEF PInv
  <2>. QED
    BY <2>0, <2>1, <2>3, <2>4 DEF PInv, LastReported
<1>9. CASE Finished \/ UNCHANGED vars
  <2>1. UNCHANGED <<store, last, pc, chan, rcvd, rxOpen>>
    BY <1>9 DEF Finished, vars
  <2>. QED
    BY <2>1 DEF PInv, Msgs, ProgressOK, LastReported
<1>. QED
  BY <1>1, <1>2, <1>3, <1>4, <1>5, <1>6, <1>7, <1>8, <1>9 DEF Next, Syncer

\* What the client is told is true of the store: every progress message
\* of lines 252-258 names a round this session stored, one past the
\* progress message before it, across failovers and a client that reads
\* late or disconnects.
THEOREM ProgressMatchesStoreHolds == Spec => []ProgressMatchesStore
<1>1. Spec => []IInv
  BY IInvHolds
<1>2. Spec => []PInv
  BY <1>1, InitPInv, NextPInv, PTL DEF Spec
<1>3. PInv => ProgressMatchesStore
  BY DEF PInv, ProgressOK, ProgressMatchesStore
<1>. QED
  BY <1>2, <1>3, PTL
=============================================================================
