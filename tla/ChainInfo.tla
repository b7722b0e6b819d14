------------------------------ MODULE ChainInfo ------------------------------
(***************************************************************************)
(* Bootstrapping a follow session, src/chain/sync.rs: start_follow_chain,  *)
(* chain_info_from_peers and DefaultSyncer::from_config.  The request's    *)
(* node addresses are prechecked, the valid ones shuffled, and the peers   *)
(* asked in that order for the chain info; the first packet carrying the   *)
(* requested beacon id is taken and then checked against the request's    *)
(* chain hash, the store's genesis and the node's scheme.                  *)
(*                                                                         *)
(* What a node answers is abstracted to the outcome of each check: a bad   *)
(* address, an unreachable node, an error of the chain_info call, a packet *)
(* without metadata, one with another beacon id, or a packet whose hash,   *)
(* genesis and scheme/public key are each right or wrong.                  *)
(***************************************************************************)
EXTENDS Naturals, Sequences, FiniteSets

CONSTANTS NumNodes   \* number of addresses in StartSyncRequest.nodes

ASSUME NumNodesAssumption == NumNodes \in Nat \ {0}

Nodes == 1..NumNodes

\* A chain info packet with the requested beacon id: does its hash match
\* the request's chain_hash, is its group hash consistent with the store's
\* genesis, do its scheme id and public key fit the node's scheme.
InfoPacket ==
  [kind : {"packet"}, hashOk : BOOLEAN, genesisOk : BOOLEAN, infoOk : BOOLEAN]

Answers ==
  [kind : {"badAddress", "unreachable", "error", "noMeta", "wrongId"}]
    \cup InfoPacket

Outcomes == {"none", "PeersInvalidFormat", "FailedInfoFromAllPeers",
             "ChainHashMismatch", "GenesisMismatch", "InvalidInfoPacket",
             "Syncer"}

NoInfo == [kind |-> "packet", hashOk |-> FALSE, genesisOk |-> FALSE, infoOk |-> FALSE]

\* Line 313, peers.shuffle: any arrangement of the set S, each element
\* exactly once.
Shuffles(S) ==
  {f \in [1..Cardinality(S) -> S] : \A i, j \in 1..Cardinality(S) :
                                      i # j => f[i] # f[j]}

VARIABLES
  answer,    \* what each requested node answers
  peers,     \* the valid addresses, in shuffled order
  idx,       \* the peer chain_info_from_peers is asking
  packet,    \* the accepted ChainInfoPacket
  pc,        \* where the bootstrap is
  outcome    \* the error returned, or "Syncer" for a built DefaultSyncer

vars == <<answer, peers, idx, packet, pc, outcome>>

-----------------------------------------------------------------------------
Init ==
  /\ answer \in [Nodes -> Answers]
  /\ peers = << >>
  /\ idx = 1
  /\ packet = NoInfo
  /\ pc = "precheck"
  /\ outcome = "none"

Fail(err) == pc' = "done" /\ outcome' = err

\* Lines 298-313: keep the addresses that pass Address::precheck; none left
\* is PeersInvalidFormat; the others are shuffled (any order).
Precheck ==
  /\ pc = "precheck"
  /\ LET valid == {n \in Nodes : answer[n].kind # "badAddress"} IN
       \/ valid = {} /\ Fail("PeersInvalidFormat") /\ UNCHANGED peers
       \/ /\ valid # {}
          /\ peers' \in Shuffles(valid)
          /\ pc' = "info"
          /\ UNCHANGED outcome
  /\ UNCHANGED <<answer, idx, packet>>

\* Mutant: the metadata and beacon id checks of lines 426-432 left out, so
\* the first answer is taken whatever it is.
QueryPeer_anyAnswer ==
  /\ pc = "info"
  /\ idx <= Len(peers)
  /\ packet' = answer[peers[idx]]
  /\ pc' = "hash"
  /\ UNCHANGED <<answer, peers, idx, outcome>>

\* Lines 424-447: ask the next peer; a packet with the requested beacon id
\* is returned at once, anything else is skipped with a warning.
QueryPeer ==
  /\ pc = "info"
  /\ idx <= Len(peers)
  /\ \/ /\ answer[peers[idx]].kind = "packet"
        /\ packet' = answer[peers[idx]]
        /\ pc' = "hash"
        /\ UNCHANGED idx
     \/ /\ answer[peers[idx]].kind # "packet"
        /\ idx' = idx + 1
        /\ UNCHANGED <<packet, pc>>
  /\ UNCHANGED <<answer, peers, outcome>>

\* Line 450: no peer gave a packet for the beacon id.
NoPeerAnswered ==
  /\ pc = "info"
  /\ idx > Len(peers)
  /\ Fail("FailedInfoFromAllPeers")
  /\ UNCHANGED <<answer, peers, idx, packet>>

\* Mutant: the chain hash comparison of lines 322-335 left out.
VerifyHash_unchecked ==
  /\ pc = "hash"
  /\ pc' = "genesis"
  /\ UNCHANGED <<answer, peers, idx, packet, outcome>>

\* Lines 320-335: the packet's hash must be the request's chain hash.
VerifyHash ==
  /\ pc = "hash"
  /\ \/ ~packet.hashOk /\ Fail("ChainHashMismatch")
     \/ packet.hashOk /\ pc' = "genesis" /\ UNCHANGED outcome
  /\ UNCHANGED <<answer, peers, idx, packet>>

\* Line 336: ChainStore::check_genesis; then the config is returned.
CheckGenesis ==
  /\ pc = "genesis"
  /\ \/ ~packet.genesisOk /\ Fail("GenesisMismatch")
     \/ packet.genesisOk /\ pc' = "config" /\ UNCHANGED outcome
  /\ UNCHANGED <<answer, peers, idx, packet>>

\* Lines 139-166: DefaultSyncer::from_config checks the scheme id and
\* builds the ChainInfo from the packet; either failing is InvalidInfoPacket.
FromConfig ==
  /\ pc = "config"
  /\ \/ ~packet.infoOk /\ Fail("InvalidInfoPacket")
     \/ packet.infoOk /\ Fail("Syncer")
  /\ UNCHANGED <<answer, peers, idx, packet>>

Finished ==
  /\ pc = "done"
  /\ UNCHANGED vars

Next ==
  \/ Precheck \/ QueryPeer \/ NoPeerAnswered \/ VerifyHash \/ CheckGenesis
  \/ FromConfig \/ Finished

Spec == Init /\ [][Next]_vars /\ WF_vars(Next)

-----------------------------------------------------------------------------
(* Properties                                                              *)

TypeOK ==
  /\ answer \in [Nodes -> Answers]
  /\ peers \in Seq(Nodes)
  /\ idx \in 1..NumNodes + 1
  /\ packet \in InfoPacket
  /\ pc \in {"precheck", "info", "hash", "genesis", "config", "done"}
  /\ outcome \in Outcomes

\* The trust anchor: a syncer is built only from a packet that carries the
\* requested beacon id, the expected chain hash, a genesis consistent with
\* the store and the node's scheme.
SyncerTrustsPacket ==
  outcome = "Syncer" =>
    /\ packet = answer[peers[idx]]
    /\ packet.hashOk /\ packet.genesisOk /\ packet.infoOk

\* Spec section 1: bootstrapping fails over across peers on any validation
\* error, so one valid node with the genuine chain info is enough to start.
GenuinePeerSuffices ==
  outcome \in {"ChainHashMismatch", "GenesisMismatch", "InvalidInfoPacket",
               "FailedInfoFromAllPeers"} =>
    \A n \in Nodes :
      answer[n] # [kind |-> "packet", hashOk |-> TRUE, genesisOk |-> TRUE,
                   infoOk |-> TRUE]

=============================================================================
