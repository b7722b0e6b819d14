# TLA+ models of the drand-rs beacon chain synchronisation

These modules model the beacon chain synchronisation subsystem of
`src/src/chain/sync.rs`. They are TLA+ specifications, TLC configurations
and TLAPS proofs. `PROJECT.json` lists every module, run, mutant, mapped
source line, finding, hazard and theorem. This file explains them.

## 1. The system and its parts

`sync.rs` contains four cooperating parts. Each runs as a tokio task or is
called by one.

| Part | Code | State | Operations |
|---|---|---|---|
| Chain info negotiator and bootstrap | `start_follow_chain` 290-348, `chain_info_from_peers` 419-451, `DefaultSyncer::from_config` 139-166 | the prechecked, shuffled peer list; the accepted `ChainInfoPacket` | precheck the addresses, ask the peers in order, check the hash, check the genesis, check the scheme |
| Follow syncer (one-shot) | `DefaultSyncer::process_follow_request` 168-287 | the store (external `ChainStore`), the local `last_stored`, the peer being tried, the bounded progress channel `tx` | read the tail, open a stream, check each packet, put it, report progress, stop at the target, fail over, give up |
| Resync driver (continuous) | `resync` 351-415 | `last_sent`, the peer being tried, the bounded pipeline `tx_synced` | open a stream, check each packet, forward it, stop at `up_to`, fail over, give up |
| Resync liveness monitor | `HandleReSync` 71-112 | the join handle, the time of the last beacon, the expiry `period*2` | `is_running`, `update_last_received_time`, abort on drop |

How the parts interact:
- The control plane calls `start_follow_chain`. The config it returns
  builds a `DefaultSyncer`, whose `process_follow_request` streams progress
  to the control client.
- The chain module spawns `resync` and wraps its join handle in a
  `HandleReSync`. It drains `tx_synced` into the store. When `is_running`
  turns false, it drops the handle, which aborts the task, and spawns a
  new one. This owner loop is outside `src/`; `ResyncMonitor` models it
  from spec §4.4.

The other source files are not part of this subsystem:
- `net/dkg_control.rs` forwards gRPC commands to the DKG actor.
- `dkg/actions_passive.rs` applies DKG packets to the DKG store.
- `test_with_golang/chain.rs` is test code.

The spec puts DKG out of scope. These files are listed as `not_modelled`.

The hard behaviours are these:
- Peers are untrusted. They may send anything, close the stream, or fail to
  connect.
- Every peer attempt must resume from the right cursor.
- Both channels are bounded. A send blocks while the reader is slow, and
  fails once the reader has gone.
- The store can fail a put.
- The client can disconnect at any time.
- The owner can abort the resync task at any await.

## 2. Modules

### Abstraction used by all modules

A signature is `"good"`, `"forged"` or `"garbled"`:
- `"good"` is the unique threshold signature of its round.
- `"forged"` deserialises but does not verify.
- `"garbled"` does not deserialise.

Packet metadata is `"ok"`, `"wrongId"` or `"none"`.

Signature chaining is kept as a check against the previous stored
signature (`IsValidSignature`). The pairing check itself is abstracted
away: only a good signature that follows a good one verifies.

There are two kinds of peer:
- A correct peer is reachable and serves the chain in order up to its
  `height`, then ends the stream.
- A faulty peer (`faulty`) may refuse the connection, send any packet, or
  end the stream whenever it likes.

### `DefaultSyncer.tla`: the follow syncer

The variables:
- `store` is the `ChainStore`: a function from rounds to `[sig, peer]`.
  Peer 0 marks a beacon that was stored before the session.
- `last` is `last_stored`.
- `pc` is the task's position.
- `chan` is the progress channel. `rcvd` holds what the client has read.
  `rxOpen` says whether the client still holds the receiver.
- `result` is what the task returned.

| Action | Lines | What it does |
|---|---|---|
| `Start` | 176-187 | `store.last()`. Returns `Ok` when the tail is at or past the target. A store error gives `ChainStore`. |
| `OpenStream` | 189-211 | Connects to the current peer. A connect or `sync_chain` error skips the peer. |
| `Receive` | 213-271 | Checks the metadata, beacon id, round, deserialisation and signature (any failure fails over), then does `store.put` (a failure returns `ChainStore`) and sets `last_stored`. |
| `StreamEnd` | 213 | `Ok(None)` or `Err`: continue with the next peer. |
| `Report` | 249-267 | The progress send. It blocks while the channel is full. A dropped receiver gives `Ok`. Reaching the target gives `Ok`. |
| `Exhausted` | 275-283 | All peers have been tried: send `cancelled` if possible, then return `TriedAllPers`. |
| `Consume`, `DropReceiver` | environment | The control client reads the channel or disconnects. |

The `InvalidTarget` return (191-195) and the final `Ok(())` (285) are
unreachable. `CursorBelowTarget` shows this, and `CursorBelowTargetHolds`
proves it. The model keeps them as guards, not as actions that never fire.

### `Resync.tla`: the resync driver

The variables are `startFrom`, `upTo`, `lastSent`, the peer index, the
pending packet, `inPipe` and `pipeOpen` (the `tx_synced` channel), and
`sent`, the history of forwarded packets.

| Action | Lines |
|---|---|
| `OpenStream` | 363-384, including `InvalidTarget` |
| `Receive` | 385-397 |
| `StreamEnd` | 385 |
| `Send` | 398-407 |
| `Exhausted` | 409-413 |
| `Abort` | `HandleReSync::drop`, 81-85 |
| `Consume`, `ClosePipe` | the chain module |

`Init` starts from `start_from >= 1`, because the callers pass the latest
stored round + 1. See the hazard on line 361.

### `ResyncMonitor.tla`: the monitor and the respawning owner

This module composes the `HandleReSync` of lines 71-112, the owner that
respawns resync while the store is behind (spec §4.4), and abstracted
resync tasks, one per generation.

The variables:
- `stored` is the store's tail and `upTo` the expected height.
- `gen` is the generation of the current handle.
- `status[g]` says whether task `g` is unspawned, running, aborting or over.
- `silent[g]` says whether its peer has fallen silent.
- `lastSent[g]` is its `last_sent`.
- `pipe` is `tx_synced`.
- `elapsed` counts ticks since `latest_received`.
- `late` is a history flag.

Time is abstracted to `elapsed`. `Tick` advances it up to the expiry,
after which `is_running` cannot tell values apart. `Consume` resets it
(`update_last_received_time`). The expiry `Factor` is the `u32` product of
line 94, computed modulo `2^WordBits`. The MC module uses an 8-bit word,
because TLC's integers are 32-bit signed. What matters is only whether
`period * 2` reaches the word's bound.

`Respawn` drops the old handle and spawns the next task. Tokio's
`JoinHandle::abort` is cooperative, so a task that is being polled on
another worker when it is aborted becomes `"aborting"`. It then takes the
steps that do not have to wait (`Forward`) until `Cancelled` ends it. A
suspended task ends at once.

### `ChainInfo.tla`: the bootstrap

Each node's answer is one of:
- a bad address;
- unreachable;
- an RPC error;
- no metadata;
- the wrong beacon id;
- an info packet, with three flags saying whether its hash, genesis and
  scheme/info are right.

The actions, in order:
1. `Precheck` (298-313) keeps the valid addresses. `peers` is any element
   of `Shuffles(valid)`, the injective sequences over the valid set, which
   models the shuffle of line 313. (This is `SetToSeqs` of SequencesExt,
   written out over FiniteSets so that the module reaches no `RECURSIVE`
   operator and can be reasoned about with TLAPS.)
2. `QueryPeer` and `NoPeerAnswered` (419-451).
3. `VerifyHash` (316-335).
4. `CheckGenesis` (336-348).
5. `FromConfig` (139-166).

## 3. Runs

All runs use small constants:
- `MaxRound = 4` (rounds 0..4), `NumPeers = 3`, channel capacity 1.
- `ChainInfo` uses `NumNodes = 3`.

Why these bounds are enough:
- Three peers allow a faulty peer before and after a correct one, and two
  failovers in one session.
- Rounds 0..4 allow a tail of 0..3 with a target up to 4, so a session can
  fetch several beacons across failovers.
- Capacity 1 makes the progress send block as soon as the client is one
  message behind.
- Every action and every disjunct fires in the passing runs.

| Run | Expect | States | What it shows |
|---|---|---|---|
| `DefaultSyncer_safety` | pass | ~123k | `NoInvalidPersisted`, `StoreContiguous`, `NeverPastTarget`, `CursorBelowTarget`, `ProgressMatchesStore` and `CompletesWithCorrectPeer` hold under every interleaving of the task, faulty peers, the client and store failures. |
| `DefaultSyncer_liveness` | pass | ~123k | `Termination`: if every peer eventually answers (`PeersRespond`), the follow task returns. |
| `DefaultSyncer_invalid_target` | violation | | A target at or behind the tail returns `Ok`, not `InvalidTarget` (finding 2). |
| `Resync_safety` | pass | ~314k | `ForwardedContiguous`, `NeverPastUpTo` and `CompletesWithCorrectPeer` hold across failovers, aborts and a closing pipeline. |
| `Resync_liveness` | pass | ~314k | `Termination`: if every peer eventually answers (`PeersRespond`), resync returns or is aborted. |
| `Resync_forged` | violation | | Resync forwards a beacon whose signature is garbled (finding 1). |
| `ChainInfo_safety` | pass | ~49k | `SyncerTrustsPacket`: a syncer is built only from a fully checked packet. |
| `ChainInfo_failover` | violation | | One wrong first-matching peer blocks the bootstrap (finding 3). |
| `ResyncMonitor_safety` | pass | ~10.7k | `CatchesUp`: the store reaches `up_to` whatever peers fall silent or give up, as long as the last generation's peers answer. |
| `ResyncMonitor_abort` | violation | | A superseded task still forwards after its successor was spawned (finding 4). |
| `ResyncMonitor_wide_period` | violation | | With `period = 128` on an 8-bit word the expiry wraps to 0 and a healthy task is replaced at once (finding 5). |

`ReplacedOnlyWhenExpired` is checked only where it can fail, in
`ResyncMonitor_wide_period`. When `period*2` fits the word, it only
restates `Respawn`'s `~IsRunning` guard.

Earlier versions also stated refinements of two abstract contracts,
`ResyncForwarding` and `FollowStore`. They were dropped: each contract
was only the conjunction of the run's invariants, written as an action
property, so it added nothing.

`ResyncMonitor` uses `MaxRound = 3`, three generations, `Period = 1` (an
expiry of 2 ticks) and a pipeline of capacity 1. Three generations let a
first task fall silent and be replaced, and a second be superseded while it
is being polled.

Each property of a passing run has a mutant in `PROJECT.json`. A mutant is
a plausible bug in the mapped code, and TLC finds that it breaks the
property. Examples:
- the signature check dropped;
- the round check dropped;
- no stop at the target;
- a send that does not wait;
- a put error ignored;
- failover replaced by a return;
- the same peer retried.

### Fairness

The liveness runs assume weak fairness of the task's own steps and of the
channel's consumer:
- in `DefaultSyncer`: `Start`, `Report` and `Exhausted`;
- in `Resync`: `Send` and `Exhausted`;
- in both: `Consume`.

This is the tokio scheduling assumption. A ready task is polled
eventually. The chain module and the control server keep reading while
they hold the receiver. So a blocking send on a bounded channel (lines 252
and 398) completes, or fails once the receiver is gone.

Four things get no fairness, because they are choices of the environment
and not obligations:
- dropping the receiver;
- closing the pipeline;
- aborting the task;
- whatever waits on a peer.

The last covers `OpenStream` (`ProtocolClient::new` and `sync_chain`) and
`Receive`/`StreamEnd` (`stream.message().await`, lines 213 and 385). The
code puts no timeout on any of them, so a peer that keeps the stream open
and silent stalls the session forever.

`Termination` is therefore stated with that assumption inside the
property: `PeersRespond => <>(pc = "done")`. `PeersRespond` is weak
fairness of `OpenStream` and of `Receive \/ StreamEnd`. The run shows that
the peer loop is finite and that the blocking sends cannot hang the task
once every peer answers. It does not claim the task ends against a silent
peer; the hazard on line 213 records that nothing in `src/` recovers from
one for the follow syncer.

`ResyncMonitor` drops that assumption for resync:
- `GoSilent` and `GiveUp` get no fairness. Any task but the last
  generation's may fall silent or fail.
- Weak fairness covers `Respawn` (the owner checks `is_running` on every
  tick of the chain module), `Consume`, `Tick` (time passes), and
  `Forward` and `Cancelled` of every task (tokio polls ready tasks).

`CatchesUp` then shows that the monitor's expiry is what restores
progress. The mutant that drops the expiry test from `is_running` breaks
it.

## 4. Findings

1. **Resync forwards unverified beacons** (`sync.rs:398`). `resync` checks
   the metadata, beacon id and round, but never deserialises or verifies
   the signature. Spec §4.3 says it applies checks 4a-4d. `Resync_forged`
   shows a faulty peer's beacon with a garbled signature entering
   `tx_synced`. A signature that deserialises but does not verify passes
   the same way.
2. **A target behind the tail succeeds** (`sync.rs:177`). One bullet of
   spec §8 says such a target fails with `InvalidTarget`. §4.2 step 1 and
   another §8 bullet say it succeeds. The code follows step 1, so the
   `InvalidTarget` branch at 191-195 is dead.
3. **The first matching chain info decides** (`sync.rs:432`). A single peer
   earlier in the shuffled list that answers the right beacon id with a
   wrong hash, genesis or scheme aborts the bootstrap, although a genuine
   peer is listed. §4.1 asks for this behaviour, but §1 promises failover
   over untrusted peers.
4. **Dropping the monitor does not stop a running task** (`sync.rs:83`).
   `JoinHandle::abort` only requests cancellation. A resync task that is
   being polled on another worker runs on until its next pending await. A
   `tx_synced.send` that has room does not pend, so the superseded task can
   forward packets alongside its successor. Spec §4.4 says discarding the
   monitor terminates the task, so that two resyncs never race. §9 says
   release must not return until the task has stopped writing.
   `ResyncMonitor_abort` shows the interleaving. The store refuses rounds
   out of order, so `CatchesUp` still holds.
5. **The expiry can overflow** (`sync.rs:94`). `period * 2` is a `u32`
   product. For a period of `2^31` s or more it panics in a debug build
   and wraps in a release build. `is_running` is then false at once, and
   the owner replaces healthy tasks. Such periods do not occur in
   practice.

## 5. Proofs

`DefaultSyncer_proofs.tla` proves the following for every `MaxRound`,
`NumPeers` and `ChanCap`:

| Theorem | Statement |
|---|---|
| `TypeCorrect` | `Spec => []TypeOK` |
| `NoInvalidPersistedHolds` | `Spec => []NoInvalidPersisted` |
| `StoreContiguousHolds` | `Spec => []StoreContiguous` |
| `NeverPastTargetHolds` | `Spec => []NeverPastTarget` |
| `CursorBelowTargetHolds` | `Spec => []CursorBelowTarget` |

The proofs assume `MaxRound, NumPeers \in Nat` and `ChanCap \in Nat \ {0}`.

None of these invariants is inductive alone. A `Receive` step stores round
`last.round + 1` with `last.sig` as the previous signature. That step keeps
the store gap-free, valid and within the target only because of three
facts:
- `last` is the store's tail, including its signature;
- the cursor is strictly below the target while a stream is open;
- the peer index is in range.

The inductive invariant `IInv` adds exactly these facts to `TypeOK`,
`NoInvalidPersisted` and `NeverPastTarget`. TLAPS proves:
- `InitIInv`: `Init => IInv`;
- `NextIInv`: `IInv /\ [Next]_vars => IInv'`, with one case per action;
- the lemma `StoreTailOfInterval`, which says that `StoreTail` (the `CHOOSE`
  standing for `ChainStore::last`) of a store with domain `0..n` is `n`.

Each theorem then follows from `IInvHolds` by PTL.

`Resync_proofs.tla` proves the following for every `MaxRound`, `NumPeers`
and `PipeCap`:

| Theorem | Statement |
|---|---|
| `TypeCorrect` | `Spec => []TypeOK` |
| `ForwardedContiguousHolds` | `Spec => []ForwardedContiguous` |
| `NeverPastUpToHolds` | `Spec => []NeverPastUpTo` |
| `CompletesWithCorrectPeerHolds` | `Spec => []CompletesWithCorrectPeer` |

Its `IInv` adds three facts to `TypeOK` and `ForwardedContiguous`:
- once something has been sent, `last_sent <= up_to`;
- while a stream is open or a send pending, `last_sent < up_to` and the
  peer index is in range;
- a pending packet has round `last_sent + 1`.

In `Resync_proofs`, `CompletesWithCorrectPeer` needs its own strengthening, `PeersTried`:
- every correct peer below the current index served the chain only up to
  `last_sent`;
- once the loop has moved past the first peer, `last_sent < up_to`.

`TriedAllPers` is returned only after the index passed every peer, so the
first fact covers every correct peer. A failover keeps the first fact
because of the lemma `CorrectPeerAccepted`: a correct peer's packets pass
the checks, so a stream ends only at the peer's height. `NextCInv` is proved
with `IInv` as a hypothesis. This is why `CInv` is a separate invariant,
rather than more conjuncts in `IInv`.

`DefaultSyncer_client_proofs.tla` extends `DefaultSyncer_proofs` with the
two properties about what the task tells the caller:

| Theorem | Statement |
|---|---|
| `CompletesWithCorrectPeerHolds` | `Spec => []CompletesWithCorrectPeer` |
| `ProgressMatchesStoreHolds` | `Spec => []ProgressMatchesStore` |

`CompletesWithCorrectPeer` follows the same `PeersTried` argument as in
resync, keyed to `last.round`.

`ProgressMatchesStore` is about `rcvd \o chan`: the messages the client
took, followed by those still buffered. Four operations change it:
- `Report` appends to `chan`;
- `Consume` moves `Head(chan)` to `rcvd`;
- `DropReceiver` empties `chan`;
- `Receive` grows the store.

The invariant `PInv` adds three facts to the property:
- nothing was sent before the first `Start`;
- in "report" the tail round was stored by this session;
- while rx is open, the last message sent is a progress for `last.round`
  (`last.round - 1` in "report").

The last fact makes the next `Report` consecutive. The sequence lemmas:
- `ConcatAppend`: `s \o Append(t, e) = Append(s \o t, e)`;
- `ConcatShift`: `Append(s, Head(t)) \o Tail(t) = s \o t`, so `Consume`
  leaves the concatenation alone;
- `ProgressAppend`, `ProgressPrefix` and `ProgressStoreGrows`: the property
  survives a fitting append, taking a prefix, and a store that only grows.

`ResyncMonitor_proofs.tla` proves:

| Theorem | Statement |
|---|---|
| `TypeCorrect` | `Spec => []TypeOK`, for every bound |

`TypeOK` is inductive as it stands.

`ChainInfo_proofs.tla` proves, for every `NumNodes`:

| Theorem | Statement |
|---|---|
| `TypeCorrect` | `Spec => []TypeOK` |
| `SyncerTrustsPacketHolds` | `Spec => []SyncerTrustsPacket` |

Its `IInv` follows the packet through the checks:
- from "hash" on, the packet is the answer of `peers[idx]`, with `idx` in
  range;
- the hash check passed before "genesis";
- the genesis check passed before "config";
- no outcome is set before "done";
- the index never passes `Len(peers) + 1`, and `Len(peers) <= NumNodes`.

The lemma `ShufflesType` bounds `Len(peers)` with FS_Subset.

Only TLC checks the following:
- The liveness properties (`Termination` of both syncers, `CatchesUp`):
  fairness and `ENABLED` are beyond TLAPS.
- The violation runs' properties. These fail by design, and the findings
  record them.

## 6. Not modelled, and the plan for later sittings

- **Shared store.** The store is written by the follow task alone. A
  composition with the chain module's pipeline writer would expose the
  stale `last_stored` read at line 176. In the code, a node with a DKG
  setup refuses to follow (`ForbiddenToFollow`), and resync runs only on
  such nodes, so the two writers should not meet. That guard and
  `ChainStore::put` are outside `src/`.
- **The owner of `HandleReSync`** is outside `src/`. `ResyncMonitor`
  models it from spec §4.4 (`Init`, `Respawn`'s guard, `Consume`,
  `CaughtUp` are marked spec-modelled).
- **More proofs.** Every safety property that a passing run checks now
  has a theorem. What remains is deeper lemmas, such as a bound on
  `ResyncMonitor`'s pipeline contents per generation.
- **Left out for good.** DKG control and passive actions (out of scope, no
  state), test code, logging and rate limiting (line 227 only guards a
  debug log), and the wire formats. The `start_from - 1` underflow at line
  361 needs `start_from = 0`, which the callers outside `src/` never pass.
