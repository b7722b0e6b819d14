--------------------------- MODULE DefaultSyncer ---------------------------
(***************************************************************************)
(* The one-shot follow syncer of src/chain/sync.rs:                        *)
(* DefaultSyncer::process_follow_request.  One spawned task reads the      *)
(* store's tail, then tries the peers one at a time: it opens a beacon     *)
(* stream at tail + 1, checks every packet (metadata, beacon id, round,    *)
(* signature encoding, signature against the previous stored one), puts   *)
(* it in the store and reports progress on a bounded channel to the       *)
(* control client, until the target round is reached, the client is gone, *)
(* a store write fails or every peer has been tried.                       *)
(*                                                                         *)
(* Data is abstracted to what the checks tell apart: a signature is        *)
(* "good" (the unique threshold signature of its round), "forged" (decodes *)
(* but does not verify) or "garbled" (does not decode); a beacon id is     *)
(* either the session's one or another one.  A peer is either correct and  *)
(* reachable, serving the chain up to its height, or faulty and sending    *)
(* any packet, failing or closing whenever it likes.                       *)
(***************************************************************************)
EXTENDS Naturals, Sequences

CONSTANTS
  MaxRound,   \* rounds are 0..MaxRound; round 0 is the genesis beacon
  NumPeers,   \* length of the (already shuffled) peer list self.peers
  ChanCap     \* capacity of the mpsc progress channel tx

ASSUME MaxRoundAssumption == MaxRound \in Nat
ASSUME NumPeersAssumption == NumPeers \in Nat
ASSUME ChanCapAssumption == ChanCap \in Nat \ {0}

Rounds  == 0..MaxRound
PeerIds == 1..NumPeers
Sigs    == {"good", "forged", "garbled"}
Metas   == {"ok", "wrongId", "none"}

\* A stored beacon: its signature and the peer it came from (0: it was in
\* the store before the session started).
Beacon  == [sig : Sigs, peer : 0..NumPeers]

\* A BeaconPacket on the wire: round, metadata, signature bytes.
Packet  == [round : 0..MaxRound + 1, meta : Metas, sig : Sigs]

\* What the task sends on tx: Ok(SyncProgress{current, target}) or
\* Err(Status::cancelled(TriedAllPers{last})).
Message == [kind : {"progress"}, current : Rounds]
             \cup [kind : {"cancelled"}, last : Rounds]

Results == {"none", "Ok", "InvalidTarget", "TriedAllPeers", "ChainStore"}

VARIABLES
  store,     \* the chain store: a function from stored rounds to beacons
  last,      \* the task's local last_stored beacon: [round, sig]
  target,    \* the requested up_to round
  faulty,    \* the set of peers that may send anything
  height,    \* the round up to which a correct peer serves the chain
  peerIdx,   \* the peer of the 'peers loop being tried
  pc,        \* where the task is
  chan,      \* messages in the progress channel
  rcvd,      \* messages the control client has taken from the channel
  rxOpen,    \* the control client still holds the receiver
  result     \* what the task returned

vars == <<store, last, target, faulty, height, peerIdx, pc, chan, rcvd,
          rxOpen, result>>

-----------------------------------------------------------------------------
(* Helpers                                                                 *)

\* ChainStore::last(): the beacon with the highest stored round.
StoreTail == CHOOSE n \in DOMAIN store : \A r \in DOMAIN store : r <= n

\* is_valid_signature(public_key, prev_sig, round, new_sig): a decoded
\* signature verifies iff it is the round's threshold signature chained on
\* a valid previous one.
IsValidSignature(prevSig, sig) == sig = "good" /\ prevSig = "good"

\* The packet a correct peer sends next on a stream it opened at an
\* earlier round: the chain's beacon for the next round.
CorrectPacket == [round |-> last.round + 1, meta |-> "ok", sig |-> "good"]

\* The packets the current peer may send now.
Sendable ==
  IF peerIdx \in faulty THEN Packet
  ELSE IF last.round + 1 <= height[peerIdx] THEN {CorrectPacket} ELSE {}

\* Mutants of the checks: the signature verification of line 237 left out,
\* and the round check of line 223 left out.
Validated_noSigVerify(p) ==
  p.meta = "ok" /\ p.round = last.round + 1 /\ p.sig # "garbled"

Validated_noRoundCheck(p) ==
  p.meta = "ok" /\ p.sig # "garbled" /\ IsValidSignature(last.sig, p.sig)

\* The checks of lines 214-242, in the code's order; any failure makes the
\* task `continue 'peers`.
Validated(p) ==
  /\ p.meta = "ok"
  /\ p.round = last.round + 1
  /\ p.sig # "garbled"
  /\ IsValidSignature(last.sig, p.sig)

\* Mutant: an invalid packet retries the same peer instead of the next one.
NextPeer_retrySame == pc' = "peers" /\ peerIdx' = peerIdx

Finish(res) == pc' = "done" /\ result' = res

NextPeer == pc' = "peers" /\ peerIdx' = peerIdx + 1

-----------------------------------------------------------------------------
(* Initial state: a store holding a valid chain 0..n, any request target, *)
(* any mix of correct and faulty peers.                                    *)

Init ==
  /\ \E n \in Rounds : store = [r \in 0..n |-> [sig |-> "good", peer |-> 0]]
  /\ last = [round |-> 0, sig |-> "good"]
  /\ target \in Rounds
  /\ faulty \in SUBSET PeerIds
  /\ height \in [PeerIds -> Rounds]
  /\ \A i \in faulty : height[i] = 0
  /\ peerIdx = 1
  /\ pc = "start"
  /\ chan = << >>
  /\ rcvd = << >>
  /\ rxOpen = TRUE
  /\ result = "none"

-----------------------------------------------------------------------------
(* The syncer task                                                         *)

\* Lines 176-187: read the tail; a store error is returned by `?`; a target
\* already stored is rejected with Ok(()).
Start ==
  /\ pc = "start"
  /\ \/ /\ last' = [round |-> StoreTail, sig |-> store[StoreTail].sig]
        /\ \/ StoreTail >= target /\ Finish("Ok")
           \/ StoreTail < target /\ pc' = "peers" /\ UNCHANGED result
     \/ Finish("ChainStore") /\ UNCHANGED last
  /\ UNCHANGED <<store, target, faulty, height, peerIdx, chan, rcvd, rxOpen>>

\* Lines 189-211: top of the 'peers loop.  A failed connect or sync_chain
\* skips the peer (a correct peer is reachable); otherwise the stream is
\* open at from = last_stored + 1.  The InvalidTarget return of lines
\* 191-195 is dead code: CursorBelowTarget shows target >= from here, and
\* the run's deadlock check shows no state needs the missing branch.
OpenStream ==
  /\ pc = "peers"
  /\ peerIdx <= NumPeers
  /\ target >= last.round + 1
  /\ \/ peerIdx \in faulty /\ NextPeer
     \/ pc' = "stream" /\ UNCHANGED peerIdx
  /\ UNCHANGED <<store, last, target, faulty, height, chan, rcvd, rxOpen,
                 result>>

\* Mutants of Receive: an invalid packet breaks out of the 'peers loop
\* instead of continuing it; the result of store.put is ignored.
Receive_breakOnInvalid ==
  /\ pc = "stream"
  /\ \E p \in Sendable :
       \/ ~Validated(p) /\ pc' = "peers" /\ peerIdx' = NumPeers + 1
          /\ UNCHANGED <<store, last, result>>
       \/ /\ Validated(p)
          /\ store' = [r \in DOMAIN store \cup {p.round} |->
                         IF r = p.round THEN [sig |-> p.sig, peer |-> peerIdx]
                         ELSE store[r]]
          /\ last' = [round |-> p.round, sig |-> p.sig]
          /\ pc' = "report"
          /\ UNCHANGED <<peerIdx, result>>
  /\ UNCHANGED <<target, faulty, height, chan, rcvd, rxOpen>>

Receive_ignorePutError ==
  /\ pc = "stream"
  /\ \E p \in Sendable :
       \/ ~Validated(p) /\ NextPeer
          /\ UNCHANGED <<store, last, result>>
       \/ /\ Validated(p)
          /\ \/ store' = [r \in DOMAIN store \cup {p.round} |->
                            IF r = p.round THEN [sig |-> p.sig, peer |-> peerIdx]
                            ELSE store[r]]
             \/ UNCHANGED store
          /\ last' = [round |-> p.round, sig |-> p.sig]
          /\ pc' = "report"
          /\ UNCHANGED <<peerIdx, result>>
  /\ UNCHANGED <<target, faulty, height, chan, rcvd, rxOpen>>

\* Lines 213-250: a packet arrives.  One that fails a check abandons the
\* peer; a valid one is put in the store (the put may fail, which ends the
\* task) and becomes last_stored.
Receive ==
  /\ pc = "stream"
  /\ \E p \in Sendable :
       \/ ~Validated(p) /\ NextPeer
          /\ UNCHANGED <<store, last, result>>
       \/ /\ Validated(p)
          /\ store' = [r \in DOMAIN store \cup {p.round} |->
                         IF r = p.round THEN [sig |-> p.sig, peer |-> peerIdx]
                         ELSE store[r]]
          /\ last' = [round |-> p.round, sig |-> p.sig]
          /\ pc' = "report"
          /\ UNCHANGED <<peerIdx, result>>
       \/ Validated(p) /\ Finish("ChainStore")
          /\ UNCHANGED <<store, last, peerIdx>>
  /\ UNCHANGED <<target, faulty, height, chan, rcvd, rxOpen>>

\* Line 213: stream.message() yields Ok(None) or Err and the while loop
\* ends; a correct peer ends its stream only past its height.
StreamEnd ==
  /\ pc = "stream"
  /\ peerIdx \in faulty \/ last.round + 1 > height[peerIdx]
  /\ NextPeer
  /\ UNCHANGED <<store, last, target, faulty, height, chan, rcvd, rxOpen,
                 result>>

\* Mutants of Report: no return once the target is stored (line 264), and a
\* send that does not wait for room in the bounded channel.
Report_noTargetStop ==
  /\ pc = "report"
  /\ \/ ~rxOpen /\ Finish("Ok") /\ UNCHANGED chan
     \/ /\ rxOpen
        /\ Len(chan) < ChanCap
        /\ chan' = Append(chan, [kind |-> "progress", current |-> last.round])
        /\ pc' = "stream" /\ UNCHANGED result
  /\ UNCHANGED <<store, last, target, faulty, height, peerIdx, rcvd, rxOpen>>

Report_unboundedSend ==
  /\ pc = "report"
  /\ \/ ~rxOpen /\ Finish("Ok") /\ UNCHANGED chan
     \/ /\ rxOpen
        /\ chan' = Append(chan, [kind |-> "progress", current |-> last.round])
        /\ \/ last.round = target /\ Finish("Ok")
           \/ last.round # target /\ pc' = "stream" /\ UNCHANGED result
  /\ UNCHANGED <<store, last, target, faulty, height, peerIdx, rcvd, rxOpen>>

\* Lines 252-267: tx.send of the progress waits while the channel is full;
\* a closed receiver ends the task with Ok(()); the target ends it too.
Report ==
  /\ pc = "report"
  /\ \/ ~rxOpen /\ Finish("Ok") /\ UNCHANGED chan
     \/ /\ rxOpen
        /\ Len(chan) < ChanCap
        /\ chan' = Append(chan, [kind |-> "progress", current |-> last.round])
        /\ \/ last.round = target /\ Finish("Ok")
           \/ last.round # target /\ pc' = "stream" /\ UNCHANGED result
  /\ UNCHANGED <<store, last, target, faulty, height, peerIdx, rcvd, rxOpen>>

\* Lines 275-285: the 'peers loop is over.  Short of the target, the task
\* sends the TriedAllPers status (ignoring a closed receiver) and fails.
\* The Ok(()) of line 285 is dead code, as the loop returns at the target.
Exhausted ==
  /\ pc = "peers"
  /\ peerIdx > NumPeers
  /\ last.round # target
  /\ \/ ~rxOpen /\ UNCHANGED chan
     \/ /\ rxOpen /\ Len(chan) < ChanCap
        /\ chan' = Append(chan, [kind |-> "cancelled", last |-> last.round])
  /\ Finish("TriedAllPeers")
  /\ UNCHANGED <<store, last, target, faulty, height, peerIdx, rcvd, rxOpen>>

\* The task has returned.
Finished ==
  /\ pc = "done"
  /\ UNCHANGED vars

-----------------------------------------------------------------------------
(* The control client holding the receiver                                 *)

\* The control server forwards a message from rx to the client.
Consume ==
  /\ chan # << >>
  /\ rcvd' = Append(rcvd, Head(chan))
  /\ chan' = Tail(chan)
  /\ UNCHANGED <<store, last, target, faulty, height, peerIdx, pc, rxOpen,
                 result>>

\* The client disconnects: rx is dropped with whatever it still buffered.
DropReceiver ==
  /\ rxOpen
  /\ rxOpen' = FALSE
  /\ chan' = << >>
  /\ UNCHANGED <<store, last, target, faulty, height, peerIdx, pc, rcvd,
                 result>>

-----------------------------------------------------------------------------
Syncer == Start \/ OpenStream \/ Receive \/ StreamEnd \/ Report \/ Exhausted

Next == Syncer \/ Consume \/ DropReceiver \/ Finished

\* Tokio runs the spawned task whenever it is ready, and the control server
\* keeps draining rx while the client is connected; the client itself may
\* disconnect or not.  Connecting to a peer (lines 197-211) and
\* stream.message() (line 213) wait on the peer with no timeout: whether
\* they resolve is the peer's choice and gets no fairness here.
Fairness == WF_vars(Start \/ Report \/ Exhausted) /\ WF_vars(Consume)

Spec == Init /\ [][Next]_vars /\ Fairness

-----------------------------------------------------------------------------
(* Properties                                                              *)

Msgs == rcvd \o chan

TypeOK ==
  /\ DOMAIN store \subseteq Rounds
  /\ store \in [DOMAIN store -> Beacon]
  /\ last \in [round : Rounds, sig : Sigs]
  /\ target \in Rounds
  /\ faulty \subseteq PeerIds
  /\ height \in [PeerIds -> Rounds]
  /\ peerIdx \in 1..NumPeers + 1
  /\ pc \in {"start", "peers", "stream", "report", "done"}
  /\ chan \in Seq(Message)
  /\ Len(chan) <= ChanCap
  /\ rcvd \in Seq(Message)
  /\ rxOpen \in BOOLEAN
  /\ result \in Results

\* Spec section 8: a beacon whose signature does not decode or does not
\* verify is never persisted, whichever peer sent it (the put at line 245
\* comes only after the checks of lines 214-242).
NoInvalidPersisted == \A r \in DOMAIN store : store[r].sig = "good"

\* The store holds the gap-free rounds 0..tail, and while the task runs its
\* local last_stored (line 249) is that tail: failover to the next peer
\* resumes from the store, never from a stale or skipped round.
StoreContiguous ==
  /\ DOMAIN store = 0..StoreTail
  /\ pc \in {"peers", "stream", "report"} =>
        /\ last.round = StoreTail
        /\ last.sig = store[StoreTail].sig

\* While the peer loop runs, last_stored is short of the target.  This is
\* what makes the u64 subtraction target - p.round of line 227 safe once
\* the round check of line 223 has passed, and what makes the InvalidTarget
\* return of line 191 and the Ok(()) of line 285 unreachable.
CursorBelowTarget == pc \in {"peers", "stream"} => last.round < target

\* The task never stores a round past the requested target: it stops at
\* line 264 as soon as last_stored reaches it.
NeverPastTarget ==
  \A r \in DOMAIN store : store[r].peer # 0 => r <= target

\* What the client is told (lines 252-258) is true of the store: progress
\* messages name consecutive rounds that this session has stored, in order.
ProgressMatchesStore ==
  \A i \in 1..Len(Msgs) :
    Msgs[i].kind = "progress" =>
      /\ Msgs[i].current \in DOMAIN store
      /\ store[Msgs[i].current].peer # 0
      /\ i > 1 /\ Msgs[i - 1].kind = "progress" =>
            Msgs[i].current = Msgs[i - 1].current + 1

\* The task gives up with TriedAllPers (line 276) only when no correct peer
\* had the chain up to the target: failover over faulty peers never loses
\* the progress a correct peer can deliver.
CompletesWithCorrectPeer ==
  result = "TriedAllPeers" =>
    \A i \in PeerIds \ faulty : height[i] < target

\* Spec section 8: a target that is not past the stored tail fails with
\* InvalidTarget{from, target}.  (The code returns Ok(()) at line 179.)
BehindTargetIsInvalid ==
  /\ pc = "done"
  /\ result # "ChainStore"
  /\ target \in DOMAIN store
  /\ store[target].peer = 0
  => result = "InvalidTarget"

\* The peers do not keep the task waiting for ever: a connection attempt
\* and a stream's next message eventually resolve, one way or the other.
PeersRespond == WF_vars(OpenStream) /\ WF_vars(Receive \/ StreamEnd)

\* The task returns as long as no peer stalls it: every peer attempt ends
\* and the 'peers loop of line 189 is finite.  Without PeersRespond a
\* silent peer holds the await of line 213 for ever.
Termination == PeersRespond => <>(pc = "done")

=============================================================================
