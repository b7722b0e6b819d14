------------------------------- MODULE Resync -------------------------------
(***************************************************************************)
(* The continuous resync driver of src/chain/sync.rs: resync(start_from,  *)
(* up_to, peers, id, tx_synced).  One spawned task tries the peers in      *)
(* order, opens a beacon stream at last_sent + 1 and forwards each packet  *)
(* that has metadata, the right beacon id and the expected round into the *)
(* tx_synced pipeline, until up_to is forwarded, the pipeline is closed or *)
(* every peer has been tried.  The task can be aborted at any await by     *)
(* dropping its HandleReSync.                                              *)
(*                                                                         *)
(* Packets and peers are abstracted as in DefaultSyncer: a signature is    *)
(* "good", "forged" or "garbled"; a correct peer serves the chain up to    *)
(* its height, a faulty peer sends anything.                               *)
(***************************************************************************)
EXTENDS Naturals, Sequences

CONSTANTS
  MaxRound,   \* rounds are 0..MaxRound
  NumPeers,   \* length of the peer list
  PipeCap     \* capacity of the tx_synced channel

ASSUME MaxRoundAssumption == MaxRound \in Nat \ {0}
ASSUME NumPeersAssumption == NumPeers \in Nat
ASSUME PipeCapAssumption == PipeCap \in Nat \ {0}

Rounds  == 0..MaxRound
PeerIds == 1..NumPeers
Sigs    == {"good", "forged", "garbled"}
Metas   == {"ok", "wrongId", "none"}
Packet  == [round : 0..MaxRound + 1, meta : Metas, sig : Sigs]
Results == {"none", "Ok", "InvalidTarget", "TriedAllPeers", "SyncClosedTx",
            "Aborted"}

VARIABLES
  startFrom, \* start_from: the first round to fetch
  upTo,      \* up_to: the last round to fetch
  lastSent,  \* last_sent: the last round forwarded
  faulty,    \* the peers that may send anything
  height,    \* the round up to which a correct peer serves the chain
  peerIdx,   \* the peer of the 'peers loop being tried
  pc,        \* where the task is
  pending,   \* the packet waiting in tx_synced.send(p).await
  inPipe,    \* number of packets buffered in tx_synced
  pipeOpen,  \* the pipeline's receiver is still alive
  sent,      \* history: every packet the task has put in tx_synced
  result     \* what the task returned

vars == <<startFrom, upTo, lastSent, faulty, height, peerIdx, pc, pending,
          inPipe, pipeOpen, sent, result>>

NoPacket == [round |-> 0, meta |-> "none", sig |-> "garbled"]

-----------------------------------------------------------------------------
(* Helpers                                                                 *)

CorrectPacket == [round |-> lastSent + 1, meta |-> "ok", sig |-> "good"]

\* The packets the current peer may send now.
Sendable ==
  IF peerIdx \in faulty THEN Packet
  ELSE IF lastSent + 1 <= height[peerIdx] THEN {CorrectPacket} ELSE {}

\* Mutants of the checks: the round compared with start_from instead of
\* last_sent + 1; the round check left out.
Accepted_staleRound(p) == p.meta = "ok" /\ p.round = startFrom

Accepted_noRoundCheck(p) == p.meta = "ok"

\* The checks of lines 386-397: metadata present, beacon id, round.  There
\* is no signature check.
Accepted(p) ==
  /\ p.meta = "ok"
  /\ p.round = lastSent + 1

Finish(res) == pc' = "done" /\ result' = res

\* Mutant: a failing peer is retried instead of the next one.
NextPeer_retrySame == pc' = "peers" /\ peerIdx' = peerIdx

NextPeer == pc' = "peers" /\ peerIdx' = peerIdx + 1

-----------------------------------------------------------------------------
\* Called with start_from = latest stored + 1 >= 1 and any up_to.
Init ==
  /\ startFrom \in 1..MaxRound
  /\ upTo \in Rounds
  /\ lastSent = startFrom - 1
  /\ faulty \in SUBSET PeerIds
  /\ height \in [PeerIds -> Rounds]
  /\ \A i \in faulty : height[i] = 0
  /\ peerIdx = 1
  /\ pc = "peers"
  /\ pending = NoPacket
  /\ inPipe = 0
  /\ pipeOpen = TRUE
  /\ sent = << >>
  /\ result = "none"

-----------------------------------------------------------------------------
(* The resync task                                                         *)

\* Lines 363-382: top of the 'peers loop.  up_to not past last_sent fails;
\* a failed connect or sync_chain skips the peer.
OpenStream ==
  /\ pc = "peers"
  /\ peerIdx <= NumPeers
  /\ \/ upTo <= lastSent /\ Finish("InvalidTarget") /\ UNCHANGED peerIdx
     \/ /\ upTo > lastSent
        /\ \/ peerIdx \in faulty /\ NextPeer
           \/ pc' = "stream" /\ UNCHANGED peerIdx
        /\ UNCHANGED result
  /\ UNCHANGED <<startFrom, upTo, lastSent, faulty, height, pending, inPipe,
                 pipeOpen, sent>>

\* Lines 385-397: a packet arrives; one failing a check abandons the peer,
\* an accepted one goes to tx_synced.send.
Receive ==
  /\ pc = "stream"
  /\ \E p \in Sendable :
       \/ ~Accepted(p) /\ NextPeer /\ UNCHANGED pending
       \/ Accepted(p) /\ pc' = "send" /\ pending' = p /\ UNCHANGED peerIdx
  /\ UNCHANGED <<startFrom, upTo, lastSent, faulty, height, inPipe, pipeOpen,
                 sent, result>>

\* Line 385: the stream yields Ok(None) or Err; a correct peer ends its
\* stream only past its height.
StreamEnd ==
  /\ pc = "stream"
  /\ peerIdx \in faulty \/ lastSent + 1 > height[peerIdx]
  /\ NextPeer
  /\ UNCHANGED <<startFrom, upTo, lastSent, faulty, height, pending, inPipe,
                 pipeOpen, sent, result>>

\* Mutants of Send: no return at up_to; a send that does not wait for room.
Send_noUpToStop ==
  /\ pc = "send"
  /\ \/ ~pipeOpen /\ Finish("SyncClosedTx")
        /\ UNCHANGED <<lastSent, inPipe, sent>>
     \/ /\ pipeOpen
        /\ inPipe < PipeCap
        /\ inPipe' = inPipe + 1
        /\ sent' = Append(sent, pending)
        /\ lastSent' = lastSent + 1
        /\ pc' = "stream" /\ UNCHANGED result
  /\ UNCHANGED <<startFrom, upTo, faulty, height, peerIdx, pending, pipeOpen>>

Send_unbounded ==
  /\ pc = "send"
  /\ \/ ~pipeOpen /\ Finish("SyncClosedTx")
        /\ UNCHANGED <<lastSent, inPipe, sent>>
     \/ /\ pipeOpen
        /\ inPipe' = inPipe + 1
        /\ sent' = Append(sent, pending)
        /\ lastSent' = lastSent + 1
        /\ \/ lastSent + 1 = upTo /\ Finish("Ok")
           \/ lastSent + 1 # upTo /\ pc' = "stream" /\ UNCHANGED result
  /\ UNCHANGED <<startFrom, upTo, faulty, height, peerIdx, pending, pipeOpen>>

\* Lines 398-407: send waits for room; a closed pipeline fails the task
\* with SyncClosedTx; otherwise last_sent advances and up_to ends the task.
Send ==
  /\ pc = "send"
  /\ \/ ~pipeOpen /\ Finish("SyncClosedTx")
        /\ UNCHANGED <<lastSent, inPipe, sent>>
     \/ /\ pipeOpen
        /\ inPipe < PipeCap
        /\ inPipe' = inPipe + 1
        /\ sent' = Append(sent, pending)
        /\ lastSent' = lastSent + 1
        /\ \/ lastSent + 1 = upTo /\ Finish("Ok")
           \/ lastSent + 1 # upTo /\ pc' = "stream" /\ UNCHANGED result
  /\ UNCHANGED <<startFrom, upTo, faulty, height, peerIdx, pending, pipeOpen>>

\* Lines 410-413: every peer tried.
Exhausted ==
  /\ pc = "peers"
  /\ peerIdx > NumPeers
  /\ Finish("TriedAllPeers")
  /\ UNCHANGED <<startFrom, upTo, lastSent, faulty, height, peerIdx, pending,
                 inPipe, pipeOpen, sent>>

\* HandleReSync::drop (lines 81-85) aborts the task at its current await.
Abort ==
  /\ pc \in {"peers", "stream", "send"}
  /\ Finish("Aborted")
  /\ UNCHANGED <<startFrom, upTo, lastSent, faulty, height, peerIdx, pending,
                 inPipe, pipeOpen, sent>>

Finished ==
  /\ pc = "done"
  /\ UNCHANGED vars

-----------------------------------------------------------------------------
(* The pipeline's consumer (the chain module, outside this file)          *)

Consume ==
  /\ pipeOpen /\ inPipe > 0
  /\ inPipe' = inPipe - 1
  /\ UNCHANGED <<startFrom, upTo, lastSent, faulty, height, peerIdx, pc,
                 pending, pipeOpen, sent, result>>

ClosePipe ==
  /\ pipeOpen
  /\ pipeOpen' = FALSE
  /\ inPipe' = 0
  /\ UNCHANGED <<startFrom, upTo, lastSent, faulty, height, peerIdx, pc,
                 pending, sent, result>>

-----------------------------------------------------------------------------
Task == OpenStream \/ Receive \/ StreamEnd \/ Send \/ Exhausted

Next == Task \/ Abort \/ Consume \/ ClosePipe \/ Finished

\* The spawned task runs when ready; the chain module drains the pipeline
\* while it holds the receiver.  Abort and closing are choices of the
\* owner and get no fairness.  Connecting (lines 370-382) and
\* stream.message() (line 385) wait on the peer with no timeout: whether
\* they resolve is the peer's choice and gets no fairness here.
Fairness == WF_vars(Send \/ Exhausted) /\ WF_vars(Consume)

Spec == Init /\ [][Next]_vars /\ Fairness

-----------------------------------------------------------------------------
(* Properties                                                              *)

TypeOK ==
  /\ startFrom \in 1..MaxRound
  /\ upTo \in Rounds
  /\ lastSent \in Rounds
  /\ faulty \subseteq PeerIds
  /\ height \in [PeerIds -> Rounds]
  /\ peerIdx \in 1..NumPeers + 1
  /\ pc \in {"peers", "stream", "send", "done"}
  /\ pending \in Packet
  /\ inPipe \in 0..PipeCap
  /\ pipeOpen \in BOOLEAN
  /\ sent \in Seq(Packet)
  /\ result \in Results

\* The pipeline receives start_from, start_from + 1, ... in order, and
\* last_sent is the last of them: across failovers the task resumes at
\* last_sent + 1, never repeating or skipping a round.
ForwardedContiguous ==
  /\ lastSent = startFrom - 1 + Len(sent)
  /\ \A i \in 1..Len(sent) : sent[i].round = startFrom - 1 + i

\* Nothing past up_to is forwarded: the task returns at line 404.
NeverPastUpTo == \A i \in 1..Len(sent) : sent[i].round <= upTo

\* The task gives up with TriedAllPers only when no correct peer had the
\* chain up to up_to.
CompletesWithCorrectPeer ==
  result = "TriedAllPeers" =>
    \A i \in PeerIds \ faulty : height[i] < upTo

\* Spec section 4.3: resync applies the checks 4a-4d of the follow syncer,
\* the signature verification included, to every beacon it forwards.
ForwardedAreVerified == \A i \in 1..Len(sent) : sent[i].sig = "good"

\* The peers do not keep the task waiting for ever: a connection attempt
\* and a stream's next message eventually resolve, one way or the other.
PeersRespond == WF_vars(OpenStream) /\ WF_vars(Receive \/ StreamEnd)

\* The task returns or is aborted as long as no peer stalls it.  Without
\* PeersRespond a silent peer holds the await of line 385 for ever; only
\* the owner's expiry (ResyncMonitor) recovers from that.
Termination == PeersRespond => <>(pc = "done")
=============================================================================
