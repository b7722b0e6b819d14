--------------------------- MODULE ResyncMonitor ---------------------------
(***************************************************************************)
(* Resync supervision, src/chain/sync.rs lines 71-112: the chain module    *)
(* keeps one HandleReSync around the JoinHandle of the current resync      *)
(* task, refreshes it with update_last_received_time for every beacon      *)
(* that comes out of the tx_synced pipeline, and, while the store is       *)
(* behind, replaces a handle whose is_running() is false: dropping it      *)
(* aborts the task (Drop, line 83) and a fresh resync is spawned from the  *)
(* store's tail.  The owner's loop is not in src/ and follows spec 4.4.    *)
(*                                                                         *)
(* A task is abstracted to what it does to the pipeline: it forwards its  *)
(* next round while its peer answers, may find its peer silent             *)
(* (stream.message()                                                       *)
(* pending for ever) or fail with TriedAllPers.  Time is the number of     *)
(* ticks since the handle's latest_received, capped where is_running can   *)
(* no longer tell values apart.                                            *)
(*                                                                         *)
(* JoinHandle::abort is cooperative: a task that is being polled on        *)
(* another worker when its handle is dropped goes on until it next         *)
(* returns Pending.  Such a task is "aborting": it may take every step     *)
(* that does not have to wait, then it is gone.                            *)
(***************************************************************************)
EXTENDS Naturals, Sequences

CONSTANTS
  MaxRound,   \* rounds are 0..MaxRound
  MaxGen,     \* resync tasks the owner spawns in a behaviour
  Period,     \* the beacon period in seconds, period.get_value()
  PipeCap,    \* capacity of tx_synced
  WordBits    \* width of the u32 product of line 94

ASSUME MaxRoundAssumption == MaxRound \in Nat \ {0}
ASSUME MaxGenAssumption == MaxGen \in Nat \ {0}
ASSUME PeriodAssumption == Period \in Nat \ {0}
ASSUME PipeCapAssumption == PipeCap \in Nat \ {0}
ASSUME WordBitsAssumption == WordBits \in Nat \ {0}

Rounds == 0..MaxRound
Gens   == 1..MaxGen

\* RESYNC_EXPIRY_FACTOR, line 38.
ExpiryFactor == 2

\* Mutant: the expiry left at one period.
Factor_singlePeriod == Period % (2 ^ WordBits)

\* Line 94: period * RESYNC_EXPIRY_FACTOR computed in u32, which wraps in
\* a release build.
Factor == (Period * ExpiryFactor) % (2 ^ WordBits)

VARIABLES
  stored,    \* the tail round of the chain store
  upTo,      \* the expected chain height the owner syncs to
  gen,       \* the generation of the current handle, 0 before the first
  status,    \* per generation: "unspawned", "running", "aborting", "over"
  silent,    \* per generation: its peer keeps the stream open and silent
  lastSent,  \* per generation: the task's last_sent
  pipe,      \* tx_synced: the packets in flight, [round, gen, late]
  elapsed,   \* ticks since the current handle's latest_received
  late       \* history: a task forwarded after its handle was dropped

vars == <<stored, upTo, gen, status, silent, lastSent, pipe, elapsed, late>>

-----------------------------------------------------------------------------
\* Mutant: is_running without the expiry test.
IsRunning_noExpiry == status[gen] = "running"

\* Lines 100-106: the task has not finished and a beacon came within
\* the expiry.  A task being torn down is not the current one.
IsRunning == status[gen] = "running" /\ elapsed < Factor

\* Lines 109-111.
UpdateLastReceivedTime == elapsed' = 0

Init ==
  /\ stored \in 0..MaxRound - 1
  /\ upTo \in stored + 1..MaxRound
  /\ gen = 0
  /\ status = [g \in Gens |-> "unspawned"]
  /\ silent = [g \in Gens |-> FALSE]
  /\ lastSent = [g \in Gens |-> 0]
  /\ pipe = << >>
  /\ elapsed = 0
  /\ late = FALSE

\* The owner, while the store is behind and there is no live handle
\* (spec 4.4): the old HandleReSync is dropped (line 83), which ends a
\* suspended task at once and lets one being polled run on; then
\* resync(stored + 1, upTo) is spawned and wrapped by HandleReSync::new
\* (lines 89-97, latest_received = now).
Respawn ==
  /\ stored < upTo
  /\ gen = 0 \/ (gen # 0 /\ ~IsRunning)
  /\ gen < MaxGen
  /\ \E poll \in BOOLEAN :
       status' = [g \in Gens |->
                    IF g = gen + 1 THEN "running"
                    ELSE IF g = gen /\ status[g] = "running"
                         THEN IF poll THEN "aborting" ELSE "over"
                    ELSE status[g]]
  /\ gen' = gen + 1
  /\ lastSent' = [lastSent EXCEPT ![gen + 1] = stored]
  /\ elapsed' = 0
  /\ UNCHANGED <<stored, upTo, silent, pipe, late>>

\* Mutant: the send does not wait for room in tx_synced.
Forward_noRoom(g) ==
  /\ status[g] \in {"running", "aborting"}
  /\ ~silent[g]
  /\ lastSent[g] < upTo
  /\ pipe' = Append(pipe, [round |-> lastSent[g] + 1, gen |-> g,
                           late |-> status[g] = "aborting"])
  /\ lastSent' = [lastSent EXCEPT ![g] = @ + 1]
  /\ status' = [status EXCEPT ![g] = IF lastSent[g] + 1 = upTo THEN "over"
                                      ELSE @]
  /\ late' = (late \/ status[g] = "aborting")
  /\ UNCHANGED <<stored, upTo, gen, silent, elapsed>>

\* resync lines 385-407: the next round is received and sent into
\* tx_synced (waiting for room); at up_to the task returns Ok.
Forward(g) ==
  /\ status[g] \in {"running", "aborting"}
  /\ ~silent[g]
  /\ lastSent[g] < upTo
  /\ Len(pipe) < PipeCap
  /\ pipe' = Append(pipe, [round |-> lastSent[g] + 1, gen |-> g,
                           late |-> status[g] = "aborting"])
  /\ lastSent' = [lastSent EXCEPT ![g] = @ + 1]
  /\ status' = [status EXCEPT ![g] = IF lastSent[g] + 1 = upTo THEN "over"
                                      ELSE @]
  /\ late' = (late \/ status[g] = "aborting")
  /\ UNCHANGED <<stored, upTo, gen, silent, elapsed>>

\* Line 385: the current peer stops answering but keeps the stream open;
\* the await never completes.  The last generation's peers answer.
GoSilent(g) ==
  /\ status[g] = "running"
  /\ ~silent[g]
  /\ g < MaxGen
  /\ silent' = [silent EXCEPT ![g] = TRUE]
  /\ UNCHANGED <<stored, upTo, gen, status, lastSent, pipe, elapsed, late>>

\* Lines 410-413: every peer failed; the task returns TriedAllPers.
GiveUp(g) ==
  /\ status[g] = "running"
  /\ ~silent[g]
  /\ g < MaxGen
  /\ status' = [status EXCEPT ![g] = "over"]
  /\ UNCHANGED <<stored, upTo, gen, silent, lastSent, pipe, elapsed, late>>

\* An aborted task reaches an await that is pending and is dropped there.
Cancelled(g) ==
  /\ status[g] = "aborting"
  /\ status' = [status EXCEPT ![g] = "over"]
  /\ UNCHANGED <<stored, upTo, gen, silent, lastSent, pipe, elapsed, late>>

\* The chain module takes a packet from tx_synced, stores it when it is
\* the next round (the store refuses others, spec 5) and refreshes the
\* current handle.
Consume ==
  /\ pipe # << >>
  /\ stored' = IF Head(pipe).round = stored + 1 THEN stored + 1 ELSE stored
  /\ pipe' = Tail(pipe)
  /\ UpdateLastReceivedTime
  /\ UNCHANGED <<upTo, gen, status, silent, lastSent, late>>

\* Time passes for the current handle; beyond the expiry is_running
\* answers the same, so the count stops there.
Tick ==
  /\ gen # 0
  /\ elapsed < Factor
  /\ elapsed' = elapsed + 1
  /\ UNCHANGED <<stored, upTo, gen, status, silent, lastSent, pipe, late>>

\* The store has caught up: the owner has nothing to do until the chain
\* moves on (a task still waiting on a silent peer is left alone).
CaughtUp ==
  /\ stored = upTo
  /\ UNCHANGED vars

Next ==
  \/ Respawn \/ Consume \/ Tick \/ CaughtUp
  \/ \E g \in Gens : Forward(g) \/ GoSilent(g) \/ GiveUp(g) \/ Cancelled(g)

\* The runtime polls ready tasks, the owner's loop runs on every tick of
\* the chain module and drains the pipeline, time advances.  A silent
\* peer or a failing peer list is the environment's choice: no fairness.
Fairness ==
  /\ WF_vars(Respawn)
  /\ WF_vars(Consume)
  /\ WF_vars(Tick)
  /\ \A g \in Gens : WF_vars(Forward(g)) /\ WF_vars(Cancelled(g))

Spec == Init /\ [][Next]_vars /\ Fairness

-----------------------------------------------------------------------------
(* Properties                                                              *)

TypeOK ==
  /\ stored \in Rounds
  /\ upTo \in Rounds
  /\ gen \in 0..MaxGen
  /\ status \in [Gens -> {"unspawned", "running", "aborting", "over"}]
  /\ silent \in [Gens -> BOOLEAN]
  /\ lastSent \in [Gens -> Rounds]
  /\ pipe \in Seq([round : Rounds, gen : Gens, late : BOOLEAN])
  /\ Len(pipe) <= PipeCap
  /\ elapsed \in Nat
  /\ late \in BOOLEAN

\* Spec 4.4: a running task is replaced only after no beacon came for
\* period x 2 (the arithmetic of line 94 taken as the spec states it).
ReplacedOnlyWhenExpired ==
  [][gen # 0 /\ gen' # gen /\ status[gen] = "running"
       => elapsed >= Period * ExpiryFactor]_vars

\* A resync whose peer falls silent does not stall catch-up for ever: the
\* monitor expires, a fresh task takes over and the store reaches up_to.
CatchesUp == <>(stored = upTo)

\* Spec 4.4: dropping the monitor terminates the task, so a superseded
\* resync never feeds the pipeline alongside its successor.
SupersededTaskSilent == ~late
=============================================================================
