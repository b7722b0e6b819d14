------------------------ MODULE ResyncMonitor_proofs ------------------------
(***************************************************************************)
(* Proofs about resync supervision (ResyncMonitor, sync.rs lines 71-112):  *)
(* the state keeps its types for every bound: round counters, the        *)
(* pipeline's capacity and the generations spawned.                        *)
(***************************************************************************)
EXTENDS ResyncMonitor, SequenceTheorems, TLAPS

Packet == [round : Rounds, gen : Gens, late : BOOLEAN]

LEMMA InitTypeOK == Init => TypeOK
<1> SUFFICES ASSUME Init PROVE TypeOK
  OBVIOUS
<1>1. << >> \in Seq(Packet) /\ Len(<< >>) = 0
  BY EmptySeq
<1>2. stored \in Rounds /\ upTo \in Rounds
  BY MaxRoundAssumption DEF Init, Rounds
<1>5. gen \in 0..MaxGen /\ elapsed \in Nat
  BY MaxGenAssumption DEF Init
<1>6. late \in BOOLEAN
  BY Zenon DEF Init
<1>3. /\ status \in [Gens -> {"unspawned", "running", "aborting", "over"}]
      /\ silent \in [Gens -> BOOLEAN]
      /\ lastSent \in [Gens -> Rounds]
  BY MaxRoundAssumption DEF Init, Rounds
<1>4. pipe \in Seq(Packet) /\ Len(pipe) <= PipeCap
  BY <1>1, PipeCapAssumption DEF Init
<1>. QED
  BY <1>2, <1>3, <1>4, <1>5, <1>6 DEF TypeOK, Packet

LEMMA NextTypeOK == TypeOK /\ [Next]_vars => TypeOK'
<1> SUFFICES ASSUME TypeOK, [Next]_vars PROVE TypeOK'
  OBVIOUS
<1> USE MaxRoundAssumption, MaxGenAssumption, PipeCapAssumption
<1>0. pipe \in Seq(Packet)
  BY DEF TypeOK, Packet
<1>1. CASE Respawn
  <2>1. gen + 1 \in Gens /\ gen' = gen + 1
    BY <1>1 DEF Respawn, TypeOK, Gens
  <2>2. status' \in [Gens -> {"unspawned", "running", "aborting", "over"}]
    BY <1>1 DEF Respawn, TypeOK
  <2>3. lastSent' \in [Gens -> Rounds]
    BY <1>1, <2>1 DEF Respawn, TypeOK
  <2>. QED
    BY <1>1, <2>1, <2>2, <2>3 DEF Respawn, TypeOK, Gens
<1>2. ASSUME NEW g \in Gens, Forward(g) PROVE TypeOK'
  <2> DEFINE e == [round |-> lastSent[g] + 1, gen |-> g,
                   late |-> status[g] = "aborting"]
  <2>1. lastSent[g] + 1 \in Rounds
    BY <1>2 DEF Forward, TypeOK, Rounds
  <2>2. e \in Packet
    BY <2>1 DEF Packet
  <2>3. /\ Append(pipe, e) \in Seq(Packet)
        /\ Len(Append(pipe, e)) = Len(pipe) + 1
    BY <1>0, <2>2, AppendProperties
  <2>4. /\ pipe' = Append(pipe, e)
        /\ Len(pipe) < PipeCap
        /\ lastSent' = [lastSent EXCEPT ![g] = @ + 1]
        /\ status' = [status EXCEPT ![g] = IF lastSent[g] + 1 = upTo
                                            THEN "over" ELSE @]
        /\ late' = (late \/ status[g] = "aborting")
        /\ UNCHANGED <<stored, upTo, gen, silent, elapsed>>
    BY <1>2 DEF Forward
  <2>5. late' \in BOOLEAN
    BY <2>4, Zenon DEF TypeOK
  <2>. QED
    BY <2>1, <2>3, <2>4, <2>5 DEF TypeOK, Packet
<1>3. ASSUME NEW g \in Gens, GoSilent(g) PROVE TypeOK'
  BY <1>3 DEF GoSilent, TypeOK
<1>4. ASSUME NEW g \in Gens, GiveUp(g) \/ Cancelled(g) PROVE TypeOK'
  BY <1>4 DEF GiveUp, Cancelled, TypeOK
<1>5. CASE Consume
  <2>1. /\ pipe # << >> /\ pipe' = Tail(pipe)
        /\ UNCHANGED <<upTo, gen, status, silent, lastSent, late>>
        /\ elapsed' = 0
    BY <1>5 DEF Consume, UpdateLastReceivedTime
  <2>2. /\ Head(pipe) \in Packet /\ Tail(pipe) \in Seq(Packet)
        /\ Len(Tail(pipe)) = Len(pipe) - 1
    BY <1>0, <2>1, HeadTailProperties
  <2>3. stored' \in Rounds
    BY <1>5, <2>2 DEF Consume, TypeOK, Packet
  <2>. QED
    BY <2>1, <2>2, <2>3 DEF TypeOK
<1>6. CASE Tick
  BY <1>6 DEF Tick, TypeOK
<1>7. CASE CaughtUp \/ UNCHANGED vars
  BY <1>7 DEF CaughtUp, vars, TypeOK
<1>. QED
  BY <1>1, <1>2, <1>3, <1>4, <1>5, <1>6, <1>7 DEF Next

\* Every variable of the supervision model stays within its type: the
\* u32 round counters of resync and the store stay within 0..MaxRound,
\* tx_synced within its capacity, and generations within those spawned.
THEOREM TypeCorrect == Spec => []TypeOK
BY InitTypeOK, NextTypeOK, PTL DEF Spec
=============================================================================
