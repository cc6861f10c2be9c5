----------------------- MODULE FlowgraphManagerProofs -----------------------
(***************************************************************************)
(* Proofs about FlowgraphManager, for every number of sessions and frames  *)
(* and every depth of the queues.                                          *)
(***************************************************************************)
EXTENDS FlowgraphManager, NumberLemmas, SequenceTheorems, TLAPS

Pcs == {"idle", "clearOfficial", "stopTx", "stopRx", "resetStats",
        "buildTx", "buildRx", "startRx", "startTx", "finish"}

MainType ==
    /\ pc \in Pcs
    /\ op \in {"none", "start", "stop", "restart"}
    /\ running \in BOOLEAN /\ official \in BOOLEAN
    /\ sessions \in 0 .. MaxSessions
    /\ txfg \in 0 .. sessions /\ rxfg \in 0 .. sessions
    /\ tx \in [Sessions -> FlowgraphStates]
    /\ rx \in [Sessions -> FlowgraphStates]

(* What each step of a build may rely on; a call of start() finds _running *)
(* clear and only its last step sets it.                                   *)
Building ==
    /\ pc \in {"resetStats", "clearOfficial", "buildTx"} =>
          op # "stop" /\ sessions < MaxSessions
    /\ pc \in {"stopTx", "stopRx"} =>
          op # "start" /\ (op # "stop" => sessions < MaxSessions)
    /\ pc \in {"buildRx", "startRx", "startTx", "finish"} =>
          txfg = sessions /\ sessions \in Sessions
    /\ pc \in {"startRx", "startTx", "finish"} => rxfg = sessions
    /\ pc \in {"startTx", "finish"} => rx[sessions] = "live"
    /\ pc = "finish" => tx[sessions] = "live"
    /\ op = "start" /\ pc # "idle" => ~running
    /\ pc = "idle" /\ running =>
          /\ txfg \in Sessions /\ rxfg = txfg
          /\ tx[txfg] = "live" /\ rx[txfg] = "live"

Lifecycle == MainType /\ Building

\* What the threads of the sessions do leaves the main thread's state alone.
SessionStep ==
    \E s \in Sessions :
        \/ Feeder(s) \/ Transmit(s) \/ Receive(s)
        \/ DispatchFrame(s) \/ CountDecode(s) \/ MonitorWake(s)

LEMMA SessionsNat == MaxSessions \in Nat /\ Sessions = 1 .. MaxSessions
  BY ManagerAssumption DEF Sessions

LEMMA StoppedType ==
  ASSUME NEW f \in [Sessions -> FlowgraphStates], NEW s
  PROVE  /\ Stopped(f, s) \in [Sessions -> FlowgraphStates]
         /\ \A r \in Sessions : Stopped(f, s)[r] = "live" <=> f[r] = "live" /\ r # s
  BY DEF Stopped, FlowgraphStates

LEMMA InitLifecycle == Init => Lifecycle
<1> SUFFICES ASSUME Init PROVE Lifecycle
  OBVIOUS
<1>1. MainType
  <2>1. /\ sessions \in 0 .. MaxSessions /\ txfg \in 0 .. sessions /\ rxfg \in 0 .. sessions
    BY SessionsNat DEF Init
  <2>2. tx \in [Sessions -> FlowgraphStates] /\ rx \in [Sessions -> FlowgraphStates]
    BY DEF Init, FlowgraphStates
  <2>3. pc \in Pcs /\ op \in {"none", "start", "stop", "restart"}
    BY DEF Init, Pcs
  <2>4. running \in BOOLEAN /\ official \in BOOLEAN
    BY DEF Init
  <2> QED BY <2>1, <2>2, <2>3, <2>4 DEF MainType
<1>2. Building
  BY DEF Init, Building
<1> QED BY <1>1, <1>2 DEF Lifecycle

LEMMA SessionStepMain ==
  SessionStep => UNCHANGED <<main, sessions, tx, rx>> /\ official' \in {official, TRUE}
  BY DEF SessionStep, Feeder, FeederLoop, FeederPut, OnTxFrame, FeederCount, Transmit,
     Receive, DispatchFrame, CountDecode, MonitorWake, flowgraphs

LEMMA NextLifecycle == Lifecycle /\ [Next]_vars => Lifecycle'
<1> SUFFICES ASSUME MainType, Building, [Next]_vars PROVE MainType' /\ Building'
  BY DEF Lifecycle
<1> USE SessionsNat
<1>1. /\ pc \in Pcs /\ running \in BOOLEAN /\ official \in BOOLEAN
      /\ op \in {"none", "start", "stop", "restart"}
      /\ sessions \in 0 .. MaxSessions
      /\ txfg \in 0 .. sessions /\ rxfg \in 0 .. sessions
      /\ tx \in [Sessions -> FlowgraphStates] /\ rx \in [Sessions -> FlowgraphStates]
  BY DEF MainType
<1>2. CASE Start \/ Stop \/ Restart \/ ResetStats \/ ClearOfficial \/ StartFails
  <2>1. MainType'
    BY <1>2 DEF MainType, Start, Stop, Restart, ResetStats, ClearOfficial, StartFails,
       flowgraphs, Pcs
  <2>2. Building'
    BY <1>1, <1>2 DEF Building, Start, Stop, Restart, ResetStats, ClearOfficial,
       StartFails, flowgraphs
  <2> QED BY <2>1, <2>2
<1>3. CASE StopTx
  <2>1. /\ pc = "stopTx" /\ pc' = "stopRx" /\ tx' = Stopped(tx, txfg)
        /\ UNCHANGED <<op, running, txfg, rxfg, official, sessions, rx>>
    BY <1>3 DEF StopTx
  <2>2. tx' \in [Sessions -> FlowgraphStates]
    BY <1>1, <2>1, StoppedType
  <2> QED BY <1>1, <2>1, <2>2 DEF MainType, Building, Pcs
<1>4. CASE StopRx
  <2>1. /\ pc = "stopRx" /\ rx' = Stopped(rx, rxfg) /\ txfg' = 0 /\ rxfg' = 0
        /\ running' = (running /\ op # "stop")
        /\ pc' = IF op = "stop" THEN "idle" ELSE "resetStats"
        /\ UNCHANGED <<op, official, sessions, tx>>
    BY <1>4 DEF StopRx
  <2>2. rx' \in [Sessions -> FlowgraphStates]
    BY <1>1, <2>1, StoppedType
  <2>3. running' \in BOOLEAN /\ (op = "stop" => ~running')
    BY <2>1
  <2>4. pc' \in {"idle", "resetStats"} /\ (pc' = "idle" <=> op = "stop")
    BY <2>1
  <2>5. MainType'
    BY <1>1, <2>1, <2>2, <2>3, <2>4 DEF MainType, Pcs
  <2>6. Building'
    BY <2>1, <2>3, <2>4 DEF Building
  <2> QED BY <2>5, <2>6
<1>5. CASE BuildTx
  <2>1. /\ pc = "buildTx" /\ pc' = "buildRx" /\ sessions' = sessions + 1
        /\ tx' = [tx EXCEPT ![sessions + 1] = "built"] /\ txfg' = sessions + 1
        /\ UNCHANGED <<op, running, rxfg, official, rx>>
    BY <1>5 DEF BuildTx
  <2>2. sessions + 1 \in Sessions
    BY <1>1, <2>1 DEF Building
  <2>3. tx' \in [Sessions -> FlowgraphStates]
    BY <1>1, <2>1 DEF FlowgraphStates
  <2>4. MainType'
    BY <1>1, <2>1, <2>2, <2>3 DEF MainType, Pcs
  <2>5. Building'
    BY <2>1, <2>2 DEF Building
  <2> QED BY <2>4, <2>5
<1>6. CASE BuildRx
  <2>1. /\ pc = "buildRx" /\ pc' = "startRx" /\ rxfg' = sessions
        /\ rx' = [rx EXCEPT ![sessions] = "built"]
        /\ UNCHANGED <<op, running, txfg, official, sessions, tx>>
    BY <1>6 DEF BuildRx
  <2>2. rx' \in [Sessions -> FlowgraphStates]
    BY <1>1, <2>1 DEF FlowgraphStates
  <2>3. MainType'
    BY <1>1, <2>1, <2>2 DEF MainType, Pcs
  <2>4. Building'
    BY <2>1 DEF Building
  <2> QED BY <2>3, <2>4
<1>7. CASE StartRx
  <2>1. /\ pc = "startRx" /\ pc' = "startTx" /\ rx' = [rx EXCEPT ![rxfg] = "live"]
        /\ UNCHANGED <<op, running, txfg, rxfg, official, sessions, tx>>
    BY <1>7 DEF StartRx
  <2>2. rxfg = sessions /\ sessions \in Sessions
    BY <2>1 DEF Building
  <2>3. rx' \in [Sessions -> FlowgraphStates] /\ rx'[sessions] = "live"
    BY <1>1, <2>1, <2>2 DEF FlowgraphStates
  <2>4. MainType'
    BY <1>1, <2>1, <2>3 DEF MainType, Pcs
  <2>5. Building'
    BY <2>1, <2>2, <2>3 DEF Building
  <2> QED BY <2>4, <2>5
<1>8. CASE StartTx
  <2>1. /\ pc = "startTx" /\ tx' = [tx EXCEPT ![txfg] = "live"]
        /\ pc' = IF op = "start" THEN "finish" ELSE "idle"
        /\ UNCHANGED <<op, running, txfg, rxfg, official, sessions, rx>>
    BY <1>8 DEF StartTx
  <2>2. txfg = sessions /\ rxfg = sessions /\ sessions \in Sessions
        /\ rx[sessions] = "live"
    BY <2>1 DEF Building
  <2>3. tx' \in [Sessions -> FlowgraphStates] /\ tx'[sessions] = "live"
    BY <1>1, <2>1, <2>2 DEF FlowgraphStates
  <2>4. pc' \in {"finish", "idle"} /\ (pc' = "finish" <=> op = "start")
    BY <2>1
  <2>5. MainType'
    BY <1>1, <2>1, <2>3, <2>4 DEF MainType, Pcs
  <2>6. Building'
    BY <2>1, <2>2, <2>3, <2>4 DEF Building
  <2> QED BY <2>5, <2>6
<1>9. CASE Finish
  <2>1. /\ pc = "finish" /\ pc' = "idle" /\ running' = TRUE
        /\ UNCHANGED <<op, txfg, rxfg, official, sessions, tx, rx>>
    BY <1>9 DEF Finish
  <2>2. MainType'
    BY <1>1, <2>1 DEF MainType, Pcs
  <2>3. Building'
    BY <2>1 DEF Building
  <2> QED BY <2>2, <2>3
<1>10. CASE SessionStep \/ UNCHANGED vars
  <2>1. UNCHANGED <<pc, op, running, txfg, rxfg, sessions, tx, rx>>
        /\ official' \in {official, TRUE}
    BY <1>10, SessionStepMain DEF vars, main
  <2>2. official' \in BOOLEAN
    BY <1>1, <2>1
  <2> QED BY <2>1, <2>2 DEF MainType, Building
<1> QED BY <1>2, <1>3, <1>4, <1>5, <1>6, <1>7, <1>8, <1>9, <1>10
        DEF Next, Main, SessionStep

(***************************************************************************)
(* Whatever builds fail and in whatever order start(), stop() and          *)
(* restart() are called, a set _running between calls is true.             *)
(***************************************************************************)
THEOREM RunningMeansLive == Spec => []RunningIsLive
<1>1. Lifecycle => RunningIsLive
  BY DEF Lifecycle, Building, RunningIsLive
<1> QED BY <1>1, InitLifecycle, NextLifecycle, PTL DEF Spec

-----------------------------------------------------------------------------
(* Flowgraphs nobody refers to *)

\* Where a flowgraph of either side can be live at all.
Quiet ==
    /\ pc \in {"stopRx", "resetStats", "clearOfficial", "buildTx"} =>
          \A s \in Sessions : tx[s] # "live"
    /\ pc \in {"resetStats", "clearOfficial", "buildTx", "buildRx"} =>
          \A s \in Sessions : rx[s] # "live"

Owned == NoOrphans /\ Quiet

LEMMA NextOwned ==
  ASSUME ~StartOverLive
  PROVE  Lifecycle /\ Owned /\ [Next]_vars => Owned'
<1> SUFFICES ASSUME MainType, Building, NoOrphans, Quiet, [Next]_vars
             PROVE  NoOrphans' /\ Quiet'
  BY DEF Lifecycle, Owned
<1>1. /\ tx \in [Sessions -> FlowgraphStates] /\ rx \in [Sessions -> FlowgraphStates]
      /\ Sessions = 1 .. MaxSessions /\ MaxSessions \in Nat
  BY SessionsNat DEF MainType
<1>2. CASE Start
  <2>1. /\ txfg = 0 /\ rxfg = 0 /\ pc' = "clearOfficial"
        /\ UNCHANGED <<txfg, rxfg, tx, rx>>
    BY <1>2 DEF Start, flowgraphs
  <2>2. \A s \in Sessions : s # 0
    BY <1>1
  <2> QED BY <2>1, <2>2 DEF NoOrphans, Quiet
<1>3. CASE Stop \/ Restart \/ ResetStats \/ ClearOfficial \/ StartFails \/ Finish
  <2>1. UNCHANGED <<txfg, rxfg, tx, rx>>
        /\ \/ pc' \in {"stopTx", "idle"}
           \/ pc = "resetStats" /\ pc' = "clearOfficial"
           \/ pc = "clearOfficial" /\ pc' = "buildTx"
    BY <1>3 DEF Stop, Restart, ResetStats, ClearOfficial, StartFails, Finish, flowgraphs
  <2> QED BY <2>1 DEF NoOrphans, Quiet
<1>4. CASE StopTx
  <2>1. /\ pc' = "stopRx" /\ tx' = Stopped(tx, txfg) /\ UNCHANGED <<txfg, rxfg, rx>>
    BY <1>4 DEF StopTx
  <2>2. \A s \in Sessions : tx'[s] # "live"
    BY <1>1, <2>1, StoppedType DEF NoOrphans
  <2> QED BY <2>1, <2>2 DEF NoOrphans, Quiet
<1>5. CASE StopRx
  <2>1. /\ pc = "stopRx" /\ pc' \in {"idle", "resetStats"}
        /\ rx' = Stopped(rx, rxfg) /\ tx' = tx
    BY <1>5 DEF StopRx
  <2>2. \A s \in Sessions : rx'[s] # "live"
    BY <1>1, <2>1, StoppedType DEF NoOrphans
  <2>3. \A s \in Sessions : tx'[s] # "live"
    BY <2>1 DEF Quiet
  <2> QED BY <2>1, <2>2, <2>3 DEF NoOrphans, Quiet
<1>6. CASE BuildTx
  <2>1. /\ pc = "buildTx" /\ pc' = "buildRx"
        /\ tx' = [tx EXCEPT ![sessions + 1] = "built"] /\ UNCHANGED <<rxfg, rx>>
    BY <1>6 DEF BuildTx
  <2>2. \A s \in Sessions : tx'[s] # "live" /\ rx'[s] # "live"
    BY <1>1, <2>1 DEF Quiet
  <2> QED BY <2>1, <2>2 DEF NoOrphans, Quiet
<1>7. CASE BuildRx
  <2>1. /\ pc = "buildRx" /\ pc' = "startRx"
        /\ rx' = [rx EXCEPT ![sessions] = "built"] /\ UNCHANGED <<txfg, tx>>
    BY <1>7 DEF BuildRx
  <2>2. \A s \in Sessions : rx'[s] # "live"
    BY <1>1, <2>1 DEF Quiet
  <2> QED BY <2>1, <2>2 DEF NoOrphans, Quiet
<1>8. CASE StartRx
  <2>1. /\ pc' = "startTx" /\ rx' = [rx EXCEPT ![rxfg] = "live"]
        /\ UNCHANGED <<txfg, rxfg, tx>>
    BY <1>8 DEF StartRx
  <2>2. \A s \in Sessions : rx'[s] = "live" => s = rxfg
    BY <1>1, <2>1 DEF NoOrphans
  <2> QED BY <2>1, <2>2 DEF NoOrphans, Quiet
<1>9. CASE StartTx
  <2>1. /\ pc' \in {"finish", "idle"} /\ tx' = [tx EXCEPT ![txfg] = "live"]
        /\ UNCHANGED <<txfg, rxfg, rx>>
    BY <1>9 DEF StartTx
  <2>2. \A s \in Sessions : tx'[s] = "live" => s = txfg
    BY <1>1, <2>1 DEF NoOrphans
  <2> QED BY <2>1, <2>2 DEF NoOrphans, Quiet
<1>10. CASE SessionStep \/ UNCHANGED vars
  <2>1. UNCHANGED <<pc, txfg, rxfg, tx, rx>>
    BY <1>10, SessionStepMain DEF vars, main
  <2> QED BY <2>1 DEF NoOrphans, Quiet
<1> QED BY <1>2, <1>3, <1>4, <1>5, <1>6, <1>7, <1>8, <1>9, <1>10
        DEF Next, Main, SessionStep

(***************************************************************************)
(* The manager owns every running flowgraph, for as long as start() is not *)
(* called over the flowgraphs a failed start() or a restart() while        *)
(* stopped has left behind.                                                *)
(***************************************************************************)
THEOREM NothingOrphaned ==
  ASSUME ~StartOverLive
  PROVE  Spec => []NoOrphans
<1>1. Init => Owned
  BY DEF Init, Owned, NoOrphans, Quiet
<1>2. Owned => NoOrphans
  BY DEF Owned
<1>3. Lifecycle /\ Owned /\ [Next]_vars => Owned'
  BY NextOwned
<1> QED BY <1>1, <1>2, <1>3, InitLifecycle, NextLifecycle, PTL DEF Spec

-----------------------------------------------------------------------------
(* Types of what the sessions' threads keep *)

FeederPcs == {"none", "loop", "put", "callback", "count", "done"}

ThreadType ==
    /\ stats \in [ok : Nat, err : Nat]
    /\ feeder \in [Sessions -> FeederPcs]
    /\ warmed \in [Sessions -> 0 .. WarmupFrames]
    /\ count \in [Sessions -> 0 .. MaxOfficial]
    /\ detected \in [Sessions -> Nat]
    /\ worker \in [Sessions -> Kinds \cup {"none"}]
    /\ monitor \in [Sessions -> {"none", "asleep", "done"}]

QueueType ==
    /\ chipq \in [Sessions -> Seq(Kinds)]
    /\ air \in [Sessions -> Seq(Kinds)]
    /\ pending \in [Sessions -> Seq(Kinds)]

(* The queues' depths, and a feeder with an official frame in hand that it *)
(* has not counted yet.                                                    *)
Depths ==
    \A s \in Sessions :
        /\ Len(chipq[s]) <= QueueSize
        /\ Len(air[s]) <= 1
        /\ Len(pending[s]) <= DecodeDepth + 1

InHand ==
    \A s \in Sessions :
        \/ feeder[s] \in {"callback", "count"}
        \/ feeder[s] = "put" /\ NextKind(s) = "official"
        => count[s] < MaxOfficial

SessionType == ThreadType /\ QueueType /\ Depths /\ InHand

LEMMA KindType == \A s : NextKind(s) \in Kinds
  BY DEF NextKind, Kinds

LEMMA KindsAppend ==
  ASSUME NEW q \in Seq(Kinds), NEW k \in Kinds
  PROVE  Append(q, k) \in Seq(Kinds) /\ Len(Append(q, k)) = Len(q) + 1
  BY AppendProperties

LEMMA KindsTail ==
  ASSUME NEW q \in Seq(Kinds), q # <<>>
  PROVE  /\ Tail(q) \in Seq(Kinds) /\ Len(Tail(q)) = Len(q) - 1
         /\ Head(q) \in Kinds /\ Len(q) \in Nat
  BY HeadTailProperties, LenProperties

LEMMA InitSession == Init => SessionType
<1> SUFFICES ASSUME Init PROVE SessionType
  OBVIOUS
<1>1. ThreadType
  BY ManagerAssumption DEF Init, ThreadType, FeederPcs, NoStats
<1>2. QueueType
  BY DEF Init, QueueType
<1>3. Depths
  BY ManagerAssumption DEF Init, Depths
<1>4. InHand
  BY DEF Init, InHand
<1> QED BY <1>1, <1>2, <1>3, <1>4 DEF SessionType

LEMMA FeederSession ==
  ASSUME SessionType, NEW s \in Sessions, Feeder(s)
  PROVE  SessionType'
<1>1. UNCHANGED <<stats, detected, pending, worker, monitor>>
  BY DEF Feeder, FeederLoop, FeederPut, OnTxFrame, FeederCount, flowgraphs, receive
<1>2. ThreadType /\ QueueType /\ Depths /\ InHand /\ WarmupFrames \in Nat
      /\ MaxOfficial \in Nat
  BY ManagerAssumption DEF SessionType
<1>3. CASE FeederLoop(s)
  <2>1. /\ feeder[s] = "loop" /\ UNCHANGED <<warmed, count, chipq, air>>
        /\ \/ feeder' = [feeder EXCEPT ![s] = "done"]
           \/ /\ NextKind(s) = "official" => count[s] < MaxOfficial
              /\ feeder' = [feeder EXCEPT ![s] = "put"]
    BY <1>3 DEF FeederLoop
  <2>2. ThreadType'
    BY <1>1, <1>2, <2>1 DEF ThreadType, FeederPcs
  <2>3. QueueType' /\ Depths'
    BY <1>1, <1>2, <2>1 DEF QueueType, Depths
  <2>4. InHand'
    BY <1>2, <2>1 DEF InHand, NextKind, ThreadType
  <2> QED BY <2>2, <2>3, <2>4 DEF SessionType
<1>4. CASE FeederPut(s)
  <2> DEFINE full == Len(chipq[s]) >= QueueSize
  <2>1. /\ feeder[s] = "put" /\ UNCHANGED <<count, air>>
        /\ chipq' = IF full THEN chipq ELSE [chipq EXCEPT ![s] = Append(@, NextKind(s))]
        /\ warmed' = [warmed EXCEPT ![s] = IF NextKind(s) = "warmup" THEN @ + 1 ELSE @]
        /\ feeder' = [feeder EXCEPT ![s] =
                        IF NextKind(s) = "official" /\ ~full THEN "callback" ELSE "loop"]
    BY <1>4 DEF FeederPut
  <2>2. /\ chipq[s] \in Seq(Kinds) /\ Len(chipq[s]) \in Nat /\ QueueSize \in Nat
        /\ Len(chipq[s]) <= QueueSize
    BY <1>2, LenProperties, ManagerAssumption DEF QueueType, Depths
  <2>3. chipq' \in [Sessions -> Seq(Kinds)] /\ \A r \in Sessions : Len(chipq'[r]) <= QueueSize
    <3>1. CASE full
      BY <1>2, <2>1, <3>1 DEF QueueType, Depths
    <3>2. CASE ~full
      <4> DEFINE longer == Append(chipq[s], NextKind(s))
      <4>1. longer \in Seq(Kinds) /\ Len(longer) <= QueueSize
        BY <2>2, <3>2, KindsAppend, KindType
      <4>2. chipq' = [chipq EXCEPT ![s] = longer]
        BY <2>1, <3>2
      <4> HIDE DEF longer
      <4> QED BY <1>2, <4>1, <4>2 DEF QueueType, Depths
    <3> QED BY <3>1, <3>2
  <2> HIDE DEF full
  <2>4. warmed' \in [Sessions -> 0 .. WarmupFrames]
    <3>1. NextKind(s) = "warmup" => warmed[s] + 1 \in 0 .. WarmupFrames
      BY <1>2 DEF NextKind, ThreadType
    <3> QED BY <1>2, <2>1, <3>1 DEF ThreadType
  <2>5. feeder' \in [Sessions -> FeederPcs]
    BY <1>2, <2>1 DEF ThreadType, FeederPcs
  <2>6. ThreadType'
    BY <1>1, <1>2, <2>1, <2>4, <2>5 DEF ThreadType
  <2>7. QueueType' /\ Depths'
    BY <1>1, <1>2, <2>1, <2>3 DEF QueueType, Depths
  <2>8. InHand'
    <3>1. SUFFICES ASSUME NEW r \in Sessions,
                          \/ feeder'[r] \in {"callback", "count"}
                          \/ feeder'[r] = "put" /\ NextKind(r)' = "official"
                   PROVE  count'[r] < MaxOfficial
      BY DEF InHand
    <3>2. CASE r = s
      <4>1. NextKind(s) = "official"
        BY <1>2, <2>1, <3>1, <3>2 DEF ThreadType
      <4> QED BY <1>2, <2>1, <3>2, <4>1 DEF InHand
    <3>3. CASE r # s
      <4>1. feeder'[r] = feeder[r] /\ warmed'[r] = warmed[r] /\ count'[r] = count[r]
        BY <1>2, <2>1, <3>3 DEF ThreadType
      <4>2. NextKind(r)' = NextKind(r)
        BY <4>1 DEF NextKind
      <4> QED BY <1>2, <3>1, <4>1, <4>2 DEF InHand
    <3> QED BY <3>2, <3>3
  <2> QED BY <2>6, <2>7, <2>8 DEF SessionType
<1>5. CASE OnTxFrame(s)
  <2>1. /\ feeder[s] = "callback" /\ feeder' = [feeder EXCEPT ![s] = "count"]
        /\ UNCHANGED <<warmed, count, chipq, air>>
    BY <1>5 DEF OnTxFrame
  <2>2. ThreadType'
    BY <1>1, <1>2, <2>1 DEF ThreadType, FeederPcs
  <2>3. QueueType' /\ Depths'
    BY <1>1, <1>2, <2>1 DEF QueueType, Depths
  <2>4. InHand'
    BY <1>2, <2>1 DEF InHand, NextKind, ThreadType
  <2> QED BY <2>2, <2>3, <2>4 DEF SessionType
<1>6. CASE FeederCount(s)
  <2>1. /\ feeder[s] = "count" /\ feeder' = [feeder EXCEPT ![s] = "loop"]
        /\ count' = [count EXCEPT ![s] = @ + 1]
        /\ UNCHANGED <<warmed, chipq, air>>
    BY <1>6 DEF FeederCount
  <2>2. count[s] + 1 \in 0 .. MaxOfficial
    BY <1>2, <2>1 DEF InHand, ThreadType
  <2>3. count' \in [Sessions -> 0 .. MaxOfficial] /\ feeder' \in [Sessions -> FeederPcs]
    BY <1>2, <2>1, <2>2 DEF ThreadType, FeederPcs
  <2>4. ThreadType'
    BY <1>1, <1>2, <2>1, <2>3 DEF ThreadType
  <2>5. QueueType' /\ Depths'
    BY <1>1, <1>2, <2>1 DEF QueueType, Depths
  <2>6. InHand'
    BY <1>2, <2>1 DEF InHand, NextKind, ThreadType
  <2> QED BY <2>4, <2>5, <2>6 DEF SessionType
<1> QED BY <1>3, <1>4, <1>5, <1>6 DEF Feeder

LEMMA RadioSession ==
  ASSUME SessionType, NEW s \in Sessions, Transmit(s) \/ Receive(s)
  PROVE  SessionType'
<1>1. UNCHANGED <<stats, feeder, warmed, count, worker, monitor>>
  BY DEF Transmit, Receive, flowgraphs, transmit, receive
<1>2. /\ ThreadType /\ QueueType /\ Depths /\ InHand
      /\ QueueSize \in Nat /\ DecodeDepth \in Nat
  BY ManagerAssumption DEF SessionType
<1>3. InHand'
  BY <1>1, <1>2 DEF InHand, NextKind
<1>4. /\ chipq[s] \in Seq(Kinds) /\ air[s] \in Seq(Kinds) /\ pending[s] \in Seq(Kinds)
      /\ Len(chipq[s]) \in Nat /\ Len(pending[s]) \in Nat
      /\ Len(chipq[s]) <= QueueSize /\ Len(pending[s]) <= DecodeDepth + 1
  BY <1>2, LenProperties DEF QueueType, Depths
<1>5. CASE Transmit(s)
  <2>1. /\ chipq[s] # <<>> /\ air' = [air EXCEPT ![s] = <<Head(chipq[s])>>]
        /\ chipq' = [chipq EXCEPT ![s] = Tail(chipq[s])]
        /\ UNCHANGED <<detected, pending>>
    BY <1>5 DEF Transmit, receive
  <2> DEFINE sent == <<Head(chipq[s])>>
             rest == Tail(chipq[s])
  <2>2. sent \in Seq(Kinds) /\ Len(sent) = 1
    BY <1>4, <2>1, KindsTail
  <2>3. rest \in Seq(Kinds) /\ Len(rest) <= QueueSize
    BY <1>2, <1>4, <2>1, KindsTail
  <2>4. air' = [air EXCEPT ![s] = sent] /\ chipq' = [chipq EXCEPT ![s] = rest]
    BY <2>1
  <2> HIDE DEF sent, rest
  <2>5. QueueType'
    BY <1>2, <2>1, <2>2, <2>3, <2>4 DEF QueueType
  <2>6. Depths'
    BY <1>2, <2>1, <2>2, <2>3, <2>4 DEF QueueType, Depths
  <2>7. ThreadType'
    BY <1>1, <1>2, <2>1 DEF ThreadType
  <2> QED BY <1>3, <2>5, <2>6, <2>7 DEF SessionType
<1>6. CASE Receive(s)
  <2> DEFINE kept == Deliver(s, Head(air[s]))
  <2>1. /\ air[s] # <<>> /\ air' = [air EXCEPT ![s] = <<>>] /\ chipq' = chipq
        /\ \/ UNCHANGED <<detected, pending>>
           \/ /\ detected' = [detected EXCEPT ![s] = @ + 1]
              /\ pending' = [pending EXCEPT ![s] = kept]
    BY <1>6 DEF Receive, transmit
  <2>2. Head(air[s]) \in Kinds
    BY <1>4, <2>1, KindsTail
  <2>3. kept \in Seq(Kinds) /\ Len(kept) <= DecodeDepth + 1
    <3>1. Room(s) \in Nat /\ Room(s) <= DecodeDepth + 1
      BY <1>2 DEF Room
    <3>2. CASE Len(pending[s]) < Room(s)
      <4>1. kept = Append(pending[s], Head(air[s]))
        BY <3>2 DEF Deliver
      <4>2. kept \in Seq(Kinds) /\ Len(kept) = Len(pending[s]) + 1
        BY <1>4, <2>2, <4>1, KindsAppend
      <4> QED BY <1>2, <1>4, <3>1, <3>2, <4>2
    <3>3. CASE ~(Len(pending[s]) < Room(s))
      BY <1>4, <3>3 DEF Deliver
    <3> QED BY <3>2, <3>3
  <2> HIDE DEF kept
  <2>7. <<>> \in Seq(Kinds) /\ Len(<<>>) = 0
    BY EmptySeq
  <2>8. air' \in [Sessions -> Seq(Kinds)] /\ \A r \in Sessions : Len(air'[r]) <= 1
    BY <1>2, <2>1, <2>7 DEF QueueType, Depths
  <2>9. /\ pending' \in [Sessions -> Seq(Kinds)]
        /\ \A r \in Sessions : Len(pending'[r]) <= DecodeDepth + 1
    <3>1. CASE pending' = pending
      BY <1>2, <3>1 DEF QueueType, Depths
    <3>2. CASE pending' = [pending EXCEPT ![s] = kept]
      BY <1>2, <2>3, <3>2 DEF QueueType, Depths
    <3> QED BY <2>1, <3>1, <3>2
  <2>10. detected' \in [Sessions -> Nat]
    <3>1. CASE detected' = detected
      BY <1>2, <3>1 DEF ThreadType
    <3>2. CASE detected' = [detected EXCEPT ![s] = @ + 1]
      BY <1>2, <3>2 DEF ThreadType
    <3> QED BY <2>1, <3>1, <3>2
  <2>4. QueueType'
    BY <1>2, <2>1, <2>8, <2>9 DEF QueueType
  <2>5. Depths'
    BY <1>2, <2>1, <2>8, <2>9 DEF Depths
  <2>6. ThreadType'
    BY <1>1, <1>2, <2>10 DEF ThreadType
  <2> QED BY <1>3, <2>4, <2>5, <2>6 DEF SessionType
<1> QED BY <1>5, <1>6

LEMMA WorkerSession ==
  ASSUME SessionType, NEW s \in Sessions,
         DispatchFrame(s) \/ CountDecode(s) \/ MonitorWake(s)
  PROVE  SessionType'
<1>1. UNCHANGED <<feeder, warmed, count, chipq, air, detected>>
  BY DEF DispatchFrame, CountDecode, MonitorWake, flowgraphs, transmit, receive
<1>2. ThreadType /\ QueueType /\ Depths /\ InHand /\ DecodeDepth \in Nat
  BY ManagerAssumption DEF SessionType
<1>3. InHand'
  BY <1>1, <1>2 DEF InHand, NextKind
<1>4. CASE DispatchFrame(s)
  <2>1. /\ pending[s] # <<>> /\ pending' = [pending EXCEPT ![s] = Tail(pending[s])]
        /\ worker' = [worker EXCEPT ![s] = IF Counts THEN Head(pending[s]) ELSE "none"]
        /\ UNCHANGED <<stats, monitor>>
    BY <1>4 DEF DispatchFrame, flowgraphs
  <2>2. pending[s] \in Seq(Kinds) /\ Len(pending[s]) <= DecodeDepth + 1
    BY <1>2 DEF QueueType, Depths
  <2> DEFINE rest == Tail(pending[s])
  <2>3. Head(pending[s]) \in Kinds /\ rest \in Seq(Kinds) /\ Len(rest) <= DecodeDepth + 1
    BY <1>2, <2>1, <2>2, KindsTail
  <2>4. pending' = [pending EXCEPT ![s] = rest]
    BY <2>1
  <2> HIDE DEF rest
  <2>5. worker' \in [Sessions -> Kinds \cup {"none"}]
    BY <1>2, <2>1, <2>3 DEF ThreadType
  <2>6. ThreadType'
    BY <1>1, <1>2, <2>1, <2>5 DEF ThreadType
  <2>7. QueueType'
    BY <1>1, <1>2, <2>3, <2>4 DEF QueueType
  <2>8. Depths'
    BY <1>1, <1>2, <2>3, <2>4 DEF QueueType, Depths
  <2> QED BY <1>3, <2>6, <2>7, <2>8 DEF SessionType
<1>5. CASE CountDecode(s)
  <2>1. /\ UNCHANGED <<pending, monitor>> /\ worker' = [worker EXCEPT ![s] = "none"]
        /\ \/ stats' = [stats EXCEPT !.ok = @ + 1]
           \/ stats' = [stats EXCEPT !.err = @ + 1]
    BY <1>5 DEF CountDecode, flowgraphs
  <2>2. ThreadType'
    BY <1>1, <1>2, <2>1 DEF ThreadType
  <2>3. QueueType' /\ Depths'
    BY <1>1, <1>2, <2>1 DEF QueueType, Depths
  <2> QED BY <1>3, <2>2, <2>3 DEF SessionType
<1>6. CASE MonitorWake(s)
  <2>1. UNCHANGED <<stats, pending, worker>> /\ monitor' = [monitor EXCEPT ![s] = "done"]
    BY <1>6 DEF MonitorWake, receive
  <2>2. ThreadType'
    BY <1>1, <1>2, <2>1 DEF ThreadType
  <2>3. QueueType' /\ Depths'
    BY <1>1, <1>2, <2>1 DEF QueueType, Depths
  <2> QED BY <1>3, <2>2, <2>3 DEF SessionType
<1> QED BY <1>4, <1>5, <1>6

LEMMA NextSession == Lifecycle /\ SessionType /\ [Next]_vars => SessionType'
<1> SUFFICES ASSUME Lifecycle, SessionType, [Next]_vars PROVE SessionType'
  OBVIOUS
<1>1. ThreadType /\ QueueType /\ Depths /\ InHand
  BY DEF SessionType
<1>2. CASE SessionStep
  BY <1>2, FeederSession, RadioSession, WorkerSession DEF SessionStep
<1>3. CASE StopRx
  <2>1. /\ UNCHANGED <<stats, monitor, feeder, warmed, count, chipq, detected, pending, worker>>
        /\ air' = [s \in Sessions |-> IF s = rxfg THEN <<>> ELSE air[s]]
    BY <1>3 DEF StopRx, transmit, receive
  <2>2. ThreadType' /\ InHand'
    BY <1>1, <2>1 DEF ThreadType, InHand, NextKind
  <2>3. QueueType'
    BY <1>1, <2>1 DEF QueueType
  <2>4. Depths'
    BY <1>1, <2>1 DEF QueueType, Depths
  <2> QED BY <2>2, <2>3, <2>4 DEF SessionType
<1>4. CASE StartTx
  <2>1. /\ UNCHANGED <<stats, monitor, warmed, count, chipq, air, detected, pending, worker>>
        /\ feeder' = [feeder EXCEPT ![txfg] = "loop"]
    BY <1>4 DEF StartTx, receive
  <2>2. ThreadType'
    BY <1>1, <2>1 DEF ThreadType, FeederPcs
  <2>3. InHand'
    BY <1>1, <2>1 DEF ThreadType, InHand, NextKind
  <2>4. QueueType' /\ Depths'
    BY <1>1, <2>1 DEF QueueType, Depths
  <2> QED BY <2>2, <2>3, <2>4 DEF SessionType
<1>5. CASE Finish
  <2>1. /\ UNCHANGED <<stats, feeder, warmed, count, chipq, air, detected, pending, worker>>
        /\ monitor' = [monitor EXCEPT ![sessions] = "asleep"]
    BY <1>5 DEF Finish, transmit, receive
  <2>2. ThreadType'
    BY <1>1, <2>1 DEF ThreadType
  <2>3. QueueType' /\ Depths' /\ InHand'
    BY <1>1, <2>1 DEF QueueType, Depths, InHand, NextKind
  <2> QED BY <2>2, <2>3 DEF SessionType
<1>6. CASE ResetStats
  <2>1. /\ UNCHANGED <<monitor, feeder, warmed, count, chipq, air, detected, pending, worker>>
        /\ stats' = NoStats
    BY <1>6 DEF ResetStats, flowgraphs, transmit, receive
  <2>2. ThreadType'
    BY <1>1, <2>1 DEF ThreadType, NoStats
  <2>3. QueueType' /\ Depths' /\ InHand'
    BY <1>1, <2>1 DEF QueueType, Depths, InHand, NextKind
  <2> QED BY <2>2, <2>3 DEF SessionType
<1>7. CASE \/ Start \/ Stop \/ Restart \/ StartFails \/ StopTx \/ ClearOfficial
           \/ BuildTx \/ BuildRx \/ StartRx \/ UNCHANGED vars
  <2>1. UNCHANGED <<stats, monitor, feeder, warmed, count, chipq, air, detected, pending,
                    worker>>
    BY <1>7 DEF Start, Stop, Restart, StartFails, StopTx, ClearOfficial, BuildTx, BuildRx,
       StartRx, vars, flowgraphs, transmit, receive
  <2> QED BY <1>1, <2>1 DEF SessionType, ThreadType, QueueType, Depths, InHand, NextKind
<1> QED BY <1>2, <1>3, <1>4, <1>5, <1>6, <1>7 DEF Next, Main, SessionStep

(***************************************************************************)
(* Every variable keeps its type, in particular the chip and dispatch      *)
(* queues their depths and frame_count its bound, for every session.       *)
(***************************************************************************)
THEOREM TypeCorrect == Spec => []TypeOK
<1>1. Lifecycle /\ SessionType => TypeOK
  BY DEF Lifecycle, MainType, SessionType, ThreadType, QueueType, Depths, TypeOK, Pcs,
     FeederPcs
<1> QED BY <1>1, InitLifecycle, NextLifecycle, InitSession, NextSession, PTL DEF Spec

-----------------------------------------------------------------------------
(* What is counted and what was detected *)

LEMMA TotalIsSum ==
  ASSUME NEW f \in [Sessions -> Int]
  PROVE  \E g : IsSum(g, f, MaxSessions) /\ Total(f) = g[MaxSessions]
<1> DEFINE g == CHOOSE g : IsSum(g, f, MaxSessions)
<1>1. \E h : IsSum(h, f, MaxSessions)
  BY SumExists, SessionsNat
<1>2. IsSum(g, f, MaxSessions)
  BY <1>1
<1>3. Total(f) = g[MaxSessions]
  BY DEF Total, IsSum
<1> HIDE DEF g
<1> QED BY <1>2, <1>3

LEMMA TotalInt ==
  ASSUME NEW f \in [Sessions -> Int]
  PROVE  Total(f) \in Int
<1>1. PICK g : IsSum(g, f, MaxSessions) /\ Total(f) = g[MaxSessions]
  BY TotalIsSum
<1>2. MaxSessions \in 0 .. MaxSessions
  BY SessionsNat
<1> QED BY <1>1, <1>2, SumValues, SessionsNat

LEMMA TotalChange ==
  ASSUME NEW f \in [Sessions -> Int], NEW e \in [Sessions -> Int], NEW s \in Sessions,
         \A r \in Sessions : r # s => e[r] = f[r]
  PROVE  Total(e) = Total(f) + (e[s] - f[s])
<1>1. PICK g : IsSum(g, f, MaxSessions) /\ Total(f) = g[MaxSessions]
  BY TotalIsSum
<1>2. PICK h : IsSum(h, e, MaxSessions) /\ Total(e) = h[MaxSessions]
  BY TotalIsSum
<1>3. h[MaxSessions] = g[MaxSessions] + (e[s] - f[s])
  <2>1. /\ MaxSessions \in Nat /\ s \in 1 .. MaxSessions
        /\ f \in [1 .. MaxSessions -> Int] /\ e \in [1 .. MaxSessions -> Int]
        /\ DifferAt(e, f, s, MaxSessions)
    BY SessionsNat DEF DifferAt
  <2> QED BY <1>1, <1>2, <2>1, SumChange
<1> QED BY <1>1, <1>2, <1>3

HeldFrames == [s \in Sessions |-> Held(s)]

LEMMA HeldType == SessionType => HeldFrames \in [Sessions -> Nat]
  BY LenProperties DEF SessionType, QueueType, HeldFrames, Held

LEMMA NextCounted ==
  Lifecycle /\ SessionType /\ CountedWereDetected /\ [Next]_vars => CountedWereDetected'
<1> SUFFICES ASSUME Lifecycle, SessionType, CountedWereDetected, [Next]_vars
             PROVE  CountedWereDetected'
  OBVIOUS
<1>1. /\ HeldFrames \in [Sessions -> Int] /\ detected \in [Sessions -> Int]
      /\ stats \in [ok : Nat, err : Nat] /\ worker \in [Sessions -> Kinds \cup {"none"}]
      /\ pending \in [Sessions -> Seq(Kinds)]
  BY HeldType DEF SessionType, ThreadType, QueueType
<1>2. SessionType'
  BY NextSession
<1>3. HeldFrames' \in [Sessions -> Int] /\ detected' \in [Sessions -> Int]
      /\ stats' \in [ok : Nat, err : Nat]
  <2>1. HeldFrames' \in [Sessions -> Nat]
    <3>1. \A s \in Sessions : Len(pending'[s]) \in Nat
      BY <1>2, LenProperties DEF SessionType, QueueType
    <3>2. ASSUME NEW s \in Sessions PROVE Held(s)' \in Nat
      <4>1. CASE worker'[s] = "none"
        BY <3>1, <4>1 DEF Held
      <4>2. CASE worker'[s] # "none"
        BY <3>1, <4>2 DEF Held
      <4> QED BY <4>1, <4>2
    <3> QED BY <3>2 DEF HeldFrames
  <2> QED BY <1>2, <2>1 DEF SessionType, ThreadType
<1>4. stats.ok + stats.err + Total(HeldFrames) <= Total(detected)
  BY DEF CountedWereDetected, HeldFrames
<1>5. /\ Total(HeldFrames) \in Int /\ Total(detected) \in Int
      /\ stats.ok \in Nat /\ stats.err \in Nat
  BY <1>1, TotalInt
<1> DEFINE Counted == stats'.ok + stats'.err + Total(HeldFrames') <= Total(detected')
<1>6. SUFFICES Counted
  BY DEF CountedWereDetected, HeldFrames
<1>7. CASE UNCHANGED <<stats, detected, pending, worker>>
  <2>1. HeldFrames' = HeldFrames
    BY <1>7 DEF HeldFrames, Held
  <2> QED BY <1>4, <1>7, <2>1
<1>8. CASE ResetStats
  <2>1. UNCHANGED <<detected, pending, worker>> /\ stats'.ok = 0 /\ stats'.err = 0
    BY <1>8 DEF ResetStats, receive, NoStats
  <2>2. HeldFrames' = HeldFrames
    BY <2>1 DEF HeldFrames, Held
  <2> QED BY <1>4, <1>5, <2>1, <2>2
<1>9. ASSUME NEW s \in Sessions, Receive(s) PROVE Counted
  <2>1. CASE UNCHANGED <<detected, pending>>
    BY <1>7, <1>9, <2>1 DEF Receive
  <2>2. CASE /\ detected' = [detected EXCEPT ![s] = @ + 1]
             /\ pending' = [pending EXCEPT ![s] = Deliver(s, Head(air[s]))]
    <3>1. /\ UNCHANGED <<stats, worker>> /\ air[s] # <<>>
          /\ air \in [Sessions -> Seq(Kinds)]
      BY <1>9 DEF Receive, SessionType, QueueType
    <3>2. Head(air[s]) \in Kinds
      BY <3>1, KindsTail
    <3>3. pending[s] \in Seq(Kinds) /\ Len(pending[s]) \in Nat
      BY <1>1, LenProperties
    <3>4. Len(pending'[s]) <= Len(pending[s]) + 1
      <4>1. pending'[s] = Deliver(s, Head(air[s]))
        BY <1>1, <2>2
      <4>2. Len(Append(pending[s], Head(air[s]))) = Len(pending[s]) + 1
        BY <3>2, <3>3, KindsAppend
      <4> QED BY <3>3, <4>1, <4>2 DEF Deliver
    <3>5. \A r \in Sessions : r # s => HeldFrames'[r] = HeldFrames[r]
      BY <1>1, <2>2, <3>1 DEF HeldFrames, Held
    <3>6. HeldFrames'[s] - HeldFrames[s] = Len(pending'[s]) - Len(pending[s])
      <4>1. HeldFrames[s] = Held(s) /\ HeldFrames'[s] = Held(s)' /\ Len(pending'[s]) \in Nat
        BY <1>2, LenProperties DEF HeldFrames, SessionType, QueueType
      <4> QED BY <3>1, <3>3, <4>1 DEF Held
    <3>7. Total(HeldFrames') = Total(HeldFrames) + (HeldFrames'[s] - HeldFrames[s])
      BY <1>1, <1>3, <3>5, TotalChange
    <3>8. Total(detected') = Total(detected) + 1
      <4>1. \A r \in Sessions : r # s => detected'[r] = detected[r]
        BY <1>1, <2>2
      <4>2. detected'[s] - detected[s] = 1
        BY <1>1, <2>2
      <4>3. detected \in [Sessions -> Int] /\ detected' \in [Sessions -> Int]
        BY <1>1, <1>3
      <4>4. Total(detected') = Total(detected) + (detected'[s] - detected[s])
        BY <4>1, <4>3, TotalChange
      <4> QED BY <4>2, <4>4
    <3>9. Len(pending'[s]) \in Nat
      BY <1>2, LenProperties DEF SessionType, QueueType
    <3>10. Total(HeldFrames') <= Total(HeldFrames) + 1
      <4>1. HeldFrames'[s] \in Int /\ HeldFrames[s] \in Int
        BY <1>1, <1>3
      <4>2. HeldFrames'[s] - HeldFrames[s] <= 1
        <5> DEFINE before == Len(pending[s])
                   after == Len(pending'[s])
        <5>1. before \in Int /\ after \in Int /\ after <= before + 1
          BY <3>3, <3>4, <3>9
        <5>2. HeldFrames'[s] - HeldFrames[s] = after - before
          BY <3>6
        <5> HIDE DEF before, after
        <5> QED BY <4>1, <5>1, <5>2
      <4> QED BY <1>5, <3>7, <4>1, <4>2
    <3>11. Total(HeldFrames') \in Int
      BY <1>3, TotalInt
    <3> QED BY <1>4, <1>5, <3>1, <3>8, <3>10, <3>11
  <2> QED BY <1>9, <2>1, <2>2 DEF Receive
<1>10. ASSUME NEW s \in Sessions, DispatchFrame(s) PROVE Counted
  <2>1. /\ UNCHANGED <<stats, detected>> /\ pending[s] # <<>> /\ worker[s] = "none"
        /\ pending' = [pending EXCEPT ![s] = Tail(pending[s])]
        /\ worker' = [worker EXCEPT ![s] = IF Counts THEN Head(pending[s]) ELSE "none"]
    BY <1>10 DEF DispatchFrame
  <2>2. /\ Len(pending[s]) \in Nat /\ Len(Tail(pending[s])) = Len(pending[s]) - 1
    BY <1>1, <2>1, KindsTail
  <2>3. \A r \in Sessions : r # s => HeldFrames'[r] = HeldFrames[r]
    BY <1>1, <2>1 DEF HeldFrames, Held
  <2>4. HeldFrames'[s] <= HeldFrames[s]
    <3>1. HeldFrames[s] = Len(pending[s])
      <4>1. HeldFrames[s] = Held(s)
        BY DEF HeldFrames
      <4> QED BY <2>1, <2>2, <4>1 DEF Held
    <3>2. pending'[s] = Tail(pending[s]) /\ HeldFrames'[s] = Held(s)'
      BY <1>1, <2>1 DEF HeldFrames
    <3>3. CASE worker'[s] = "none"
      BY <2>2, <3>1, <3>2, <3>3 DEF Held
    <3>4. CASE worker'[s] # "none"
      BY <2>2, <3>1, <3>2, <3>4 DEF Held
    <3> QED BY <3>3, <3>4
  <2>5. Total(HeldFrames') = Total(HeldFrames) + (HeldFrames'[s] - HeldFrames[s])
    BY <1>1, <1>3, <2>3, TotalChange
  <2>6. HeldFrames'[s] \in Int /\ HeldFrames[s] \in Int
    BY <1>1, <1>3
  <2> QED BY <1>4, <1>5, <2>1, <2>4, <2>5, <2>6
<1>11. ASSUME NEW s \in Sessions, CountDecode(s) PROVE Counted
  <2>1. /\ UNCHANGED <<detected, pending>> /\ worker[s] # "none"
        /\ worker' = [worker EXCEPT ![s] = "none"]
        /\ \/ stats' = [stats EXCEPT !.ok = @ + 1]
           \/ stats' = [stats EXCEPT !.err = @ + 1]
    BY <1>11 DEF CountDecode
  <2>2. stats'.ok + stats'.err = stats.ok + stats.err + 1
    BY <1>1, <2>1
  <2>3. \A r \in Sessions : r # s => HeldFrames'[r] = HeldFrames[r]
    BY <1>1, <2>1 DEF HeldFrames, Held
  <2>4. HeldFrames'[s] - HeldFrames[s] = -1
    <3>1. Len(pending[s]) \in Nat
      BY <1>1, LenProperties
    <3> QED BY <1>1, <2>1, <3>1 DEF HeldFrames, Held
  <2>5. Total(HeldFrames') = Total(HeldFrames) + (HeldFrames'[s] - HeldFrames[s])
    BY <1>1, <1>3, <2>3, TotalChange
  <2> QED BY <1>4, <1>5, <2>1, <2>2, <2>4, <2>5
<1>12. CASE SessionStep
  <2>1. ASSUME NEW s \in Sessions, Feeder(s) \/ Transmit(s) \/ MonitorWake(s)
        PROVE  UNCHANGED <<stats, detected, pending, worker>>
    BY <2>1 DEF Feeder, FeederLoop, FeederPut, OnTxFrame, FeederCount, Transmit, MonitorWake,
       receive
  <2> QED BY <1>7, <1>9, <1>10, <1>11, <1>12, <2>1 DEF SessionStep
<1>13. CASE ~ SessionStep /\ ~ ResetStats
  <2>1. UNCHANGED <<stats, detected, pending, worker>>
    BY <1>13 DEF Next, Main, SessionStep, Start, Stop, Restart, StartFails, StopTx, StopRx,
       ClearOfficial, BuildTx, BuildRx, StartRx, StartTx, Finish, vars, receive
  <2> QED BY <1>7, <2>1
<1> QED BY <1>8, <1>12, <1>13

(***************************************************************************)
(* Whatever sessions were stopped, restarted or left behind by a failure,  *)
(* and whenever the statistics were reset among the threads that run on:   *)
(* what they count are frames some session detected, each at most once.    *)
(***************************************************************************)
THEOREM CountedOnce == Spec => []CountedWereDetected
<1>1. Init => CountedWereDetected
  <2> SUFFICES ASSUME Init PROVE CountedWereDetected
    OBVIOUS
  <2>1. HeldFrames = detected /\ detected \in [Sessions -> Int]
    BY DEF Init, HeldFrames, Held
  <2>2. Total(detected) \in Int /\ stats.ok = 0 /\ stats.err = 0
    BY <2>1, TotalInt DEF Init, NoStats
  <2> QED BY <2>1, <2>2 DEF CountedWereDetected, HeldFrames
<1> QED BY <1>1, InitLifecycle, NextLifecycle, InitSession, NextSession, NextCounted, PTL
        DEF Spec

-----------------------------------------------------------------------------
(* The order in which a session's frames are counted *)

Has(q, k) == \E i \in 1 .. Len(q) : q[i] = k

Sorted(q) == \A i, j \in 1 .. Len(q) : i < j /\ q[i] = "official" => q[j] = "official"

LEMMA EmptyKinds == \A k : ~Has(<<>>, k)
  BY DEF Has

LEMMA SingleKind == \A j, k : Has(<<k>>, j) <=> j = k
<1>1. \A k : Len(<<k>>) = 1 /\ <<k>>[1] = k /\ 1 .. 1 = {1}
  OBVIOUS
<1> QED BY <1>1 DEF Has

LEMMA HeadKind ==
  ASSUME NEW q \in Seq(Kinds), q # <<>>
  PROVE  /\ Head(q) \in Kinds /\ Tail(q) \in Seq(Kinds) /\ Has(q, Head(q))
         /\ \A k : Has(Tail(q), k) => Has(q, k)
         /\ Sorted(q) => Sorted(Tail(q))
         /\ Sorted(q) /\ Head(q) = "official" => ~Has(q, "warmup")
<1> DEFINE n == Len(q)
           r == Tail(q)
<1>1. /\ n \in Nat \ {0} /\ Len(r) = n - 1 /\ q[1] = Head(q)
      /\ \A i \in 1 .. n - 1 : r[i] = q[i + 1]
      /\ Head(q) \in Kinds /\ r \in Seq(Kinds)
  <2>1. n \in Nat \ {0}
    BY LenProperties, EmptySeq
  <2> QED BY <2>1, HeadTailProperties
<1> HIDE DEF n, r
<1>2. Len(q) = n /\ \A i \in 1 .. Len(r) : i + 1 \in 1 .. n /\ r[i] = q[i + 1]
  BY <1>1 DEF n
<1>3. Has(q, Head(q))
  <2>1. 1 \in 1 .. n
    BY <1>1
  <2> QED BY <1>1, <1>2, <2>1 DEF Has
<1>4. \A k : Has(r, k) => Has(q, k)
  BY <1>2 DEF Has
<1>5. Sorted(q) => Sorted(r)
  <2> SUFFICES ASSUME Sorted(q), NEW i \in 1 .. Len(r), NEW j \in 1 .. Len(r),
                      i < j, r[i] = "official"
               PROVE  r[j] = "official"
    BY DEF Sorted
  <2>1. i + 1 < j + 1
    BY <1>1
  <2> QED BY <1>2, <2>1 DEF Sorted
<1>6. Sorted(q) /\ Head(q) = "official" => ~Has(q, "warmup")
  <2> SUFFICES ASSUME Sorted(q), Head(q) = "official", NEW i \in 1 .. n
               PROVE  q[i] # "warmup"
    BY <1>2 DEF Has
  <2>1. 1 \in 1 .. n /\ (i = 1 \/ 1 < i)
    BY <1>1
  <2> QED BY <1>1, <1>2, <2>1 DEF Sorted
<1> QED BY <1>1, <1>3, <1>4, <1>5, <1>6 DEF r

LEMMA AppendKind ==
  ASSUME NEW q \in Seq(Kinds), NEW k \in Kinds
  PROVE  /\ \A j : Has(Append(q, k), j) => Has(q, j) \/ j = k
         /\ Sorted(q) /\ (k = "official" \/ ~Has(q, "official")) => Sorted(Append(q, k))
<1> DEFINE n == Len(q)
           r == Append(q, k)
<1>1. /\ n \in Nat /\ Len(r) = n + 1 /\ r[n + 1] = k
      /\ \A i \in 1 .. n : r[i] = q[i]
  BY AppendProperties, LenProperties
<1> HIDE DEF n, r
<1>2. Len(q) = n /\ \A i \in 1 .. Len(r) : i \in 1 .. n \/ i = n + 1
  BY <1>1 DEF n
<1>3. \A j : Has(r, j) => Has(q, j) \/ j = k
  BY <1>1, <1>2 DEF Has
<1>4. ASSUME Sorted(q), k = "official" \/ ~Has(q, "official") PROVE Sorted(r)
  <2> SUFFICES ASSUME NEW i \in 1 .. Len(r), NEW j \in 1 .. Len(r), i < j, r[i] = "official"
               PROVE  r[j] = "official"
    BY DEF Sorted
  <2>1. i \in 1 .. n
    <3>1. i # n + 1
      BY <1>1
    <3> QED BY <1>2, <3>1
  <2>2. CASE j \in 1 .. n
    BY <1>1, <1>2, <1>4, <2>1, <2>2 DEF Sorted
  <2>3. CASE j = n + 1
    BY <1>1, <1>2, <1>4, <2>1, <2>3 DEF Has
  <2> QED BY <1>2, <2>2, <2>3
<1> QED BY <1>3, <1>4 DEF r

(* From the feeder to the decode worker, warmup frames are ahead of the    *)
(* official ones.                                                          *)
InOrder(s) ==
    /\ Sorted(pending[s]) /\ Sorted(chipq[s])
    /\ Has(pending[s], "official") => ~Has(air[s], "warmup") /\ ~Has(chipq[s], "warmup")
    /\ Has(air[s], "official") => ~Has(chipq[s], "warmup")
    /\ worker[s] = "official" =>
          ~Has(pending[s], "warmup") /\ ~Has(air[s], "warmup") /\ ~Has(chipq[s], "warmup")
    /\ warmed[s] < WarmupFrames =>
          /\ worker[s] # "official" /\ ~Has(pending[s], "official")
          /\ ~Has(air[s], "official") /\ ~Has(chipq[s], "official")

(* No warmup frame is left, or to come. *)
WarmupsOver(s) ==
    /\ warmed[s] = WarmupFrames /\ worker[s] # "warmup"
    /\ ~Has(pending[s], "warmup") /\ ~Has(air[s], "warmup") /\ ~Has(chipq[s], "warmup")

(* What a step may do to the frames of a session. *)
PutStep(s) ==
    /\ warmed'[s] = IF NextKind(s) = "warmup" THEN warmed[s] + 1 ELSE warmed[s]
    /\ chipq'[s] \in {chipq[s], Append(chipq[s], NextKind(s))}
    /\ air'[s] = air[s] /\ pending'[s] = pending[s] /\ worker'[s] = worker[s]

TransmitStep(s) ==
    /\ chipq[s] # <<>> /\ air[s] = <<>>
    /\ air'[s] = <<Head(chipq[s])>> /\ chipq'[s] = Tail(chipq[s])
    /\ warmed'[s] = warmed[s] /\ pending'[s] = pending[s] /\ worker'[s] = worker[s]

ReceiveStep(s) ==
    /\ air[s] # <<>> /\ air'[s] = <<>>
    /\ pending'[s] \in {pending[s], Append(pending[s], Head(air[s]))}
    /\ warmed'[s] = warmed[s] /\ chipq'[s] = chipq[s] /\ worker'[s] = worker[s]

DispatchStep(s) ==
    /\ pending[s] # <<>> /\ pending'[s] = Tail(pending[s])
    /\ worker'[s] \in {"none", Head(pending[s])}
    /\ warmed'[s] = warmed[s] /\ chipq'[s] = chipq[s] /\ air'[s] = air[s]

OtherStep(s) ==
    /\ air'[s] \in {air[s], <<>>} /\ worker'[s] \in {worker[s], "none"}
    /\ warmed'[s] = warmed[s] /\ chipq'[s] = chipq[s] /\ pending'[s] = pending[s]

LEMMA StepsOfSession ==
  ASSUME SessionType, [Next]_vars, NEW s \in Sessions
  PROVE  PutStep(s) \/ TransmitStep(s) \/ ReceiveStep(s) \/ DispatchStep(s) \/ OtherStep(s)
<1>1. /\ warmed \in [Sessions -> 0 .. WarmupFrames]
      /\ worker \in [Sessions -> Kinds \cup {"none"}]
      /\ chipq \in [Sessions -> Seq(Kinds)] /\ air \in [Sessions -> Seq(Kinds)]
      /\ pending \in [Sessions -> Seq(Kinds)]
  BY DEF SessionType, ThreadType, QueueType
<1>2. ASSUME NEW r \in Sessions, FeederPut(r) PROVE PutStep(s) \/ OtherStep(s)
  <2>1. /\ warmed' = [warmed EXCEPT ![r] = IF NextKind(r) = "warmup" THEN @ + 1 ELSE @]
        /\ chipq' \in {chipq, [chipq EXCEPT ![r] = Append(@, NextKind(r))]}
        /\ UNCHANGED <<air, pending, worker>>
    BY <1>2 DEF FeederPut, receive
  <2> QED BY <1>1, <2>1 DEF PutStep, OtherStep
<1>3. ASSUME NEW r \in Sessions, Transmit(r) PROVE TransmitStep(s) \/ OtherStep(s)
  <2>1. /\ chipq[r] # <<>> /\ air[r] = <<>>
        /\ air' = [air EXCEPT ![r] = <<Head(chipq[r])>>]
        /\ chipq' = [chipq EXCEPT ![r] = Tail(@)]
        /\ UNCHANGED <<warmed, pending, worker>>
    BY <1>3 DEF Transmit, receive
  <2> QED BY <1>1, <2>1 DEF TransmitStep, OtherStep
<1>4. ASSUME NEW r \in Sessions, Receive(r) PROVE ReceiveStep(s) \/ OtherStep(s)
  <2>1. /\ air[r] # <<>> /\ air' = [air EXCEPT ![r] = <<>>]
        /\ pending' \in {pending, [pending EXCEPT ![r] = Deliver(r, Head(air[r]))]}
        /\ UNCHANGED <<warmed, chipq, worker>>
    BY <1>4 DEF Receive, transmit
  <2>2. Deliver(r, Head(air[r])) \in {pending[r], Append(pending[r], Head(air[r]))}
    BY DEF Deliver
  <2> QED BY <1>1, <2>1, <2>2 DEF ReceiveStep, OtherStep
<1>5. ASSUME NEW r \in Sessions, DispatchFrame(r) PROVE DispatchStep(s) \/ OtherStep(s)
  <2>1. /\ pending[r] # <<>> /\ pending' = [pending EXCEPT ![r] = Tail(@)]
        /\ \/ worker' = [worker EXCEPT ![r] = Head(pending[r])]
           \/ worker' = [worker EXCEPT ![r] = "none"]
        /\ UNCHANGED <<warmed, chipq, air>>
    BY <1>5 DEF DispatchFrame, transmit
  <2> QED BY <1>1, <2>1 DEF DispatchStep, OtherStep
<1>6. ASSUME NEW r \in Sessions, CountDecode(r) PROVE OtherStep(s)
  <2>1. worker' = [worker EXCEPT ![r] = "none"] /\ UNCHANGED <<warmed, chipq, air, pending>>
    BY <1>6 DEF CountDecode, transmit
  <2> QED BY <1>1, <2>1 DEF OtherStep
<1>7. ASSUME StopRx PROVE OtherStep(s)
  <2>1. /\ air' = [r \in Sessions |-> IF r = rxfg THEN <<>> ELSE air[r]]
        /\ UNCHANGED <<warmed, chipq, pending, worker>>
    BY <1>7 DEF StopRx, transmit, receive
  <2> QED BY <1>1, <2>1 DEF OtherStep
<1>8. ASSUME \/ Start \/ Stop \/ Restart \/ StartFails \/ UNCHANGED vars
             \/ StopTx \/ ResetStats \/ ClearOfficial \/ BuildTx \/ BuildRx \/ StartRx
             \/ StartTx \/ Finish
             \/ \E r \in Sessions : FeederLoop(r) \/ OnTxFrame(r) \/ FeederCount(r)
                                      \/ MonitorWake(r)
      PROVE  OtherStep(s)
  <2>1. UNCHANGED <<warmed, chipq, air, pending, worker>>
    BY <1>8 DEF Start, Stop, Restart, StartFails, StopTx, ResetStats, ClearOfficial, BuildTx,
       BuildRx, StartRx, StartTx, Finish, FeederLoop, OnTxFrame, FeederCount, MonitorWake,
       vars, transmit, receive
  <2> QED BY <2>1 DEF OtherStep
<1> QED BY <1>2, <1>3, <1>4, <1>5, <1>6, <1>7, <1>8 DEF Next, Main, Feeder

LEMMA NextInOrder ==
  ASSUME SessionType, [Next]_vars, NEW s \in Sessions
  PROVE  (InOrder(s) => InOrder(s)') /\ (WarmupsOver(s) => WarmupsOver(s)')
<1>1. /\ warmed[s] \in 0 .. WarmupFrames /\ WarmupFrames \in Nat
      /\ chipq[s] \in Seq(Kinds) /\ air[s] \in Seq(Kinds) /\ pending[s] \in Seq(Kinds)
  BY ManagerAssumption DEF SessionType, ThreadType, QueueType
<1>2. \A k : ~Has(<<>>, k)
  BY EmptyKinds
<1>3. CASE PutStep(s)
  <2> DEFINE k == NextKind(s)
             more == Append(chipq[s], k)
  <2>1. /\ k \in Kinds /\ (k = "warmup" <=> warmed[s] < WarmupFrames)
        /\ (k = "official" <=> warmed[s] = WarmupFrames)
    BY <1>1 DEF NextKind, Kinds
  <2>2. /\ \A j : Has(more, j) => Has(chipq[s], j) \/ j = k
        /\ Sorted(chipq[s]) /\ (k = "official" \/ ~Has(chipq[s], "official")) => Sorted(more)
    BY <1>1, <2>1, AppendKind
  <2>3. /\ chipq'[s] = chipq[s] \/ chipq'[s] = more
        /\ air'[s] = air[s] /\ pending'[s] = pending[s] /\ worker'[s] = worker[s]
        /\ k = "official" => warmed'[s] = warmed[s]
        /\ warmed'[s] < WarmupFrames => warmed[s] < WarmupFrames
    BY <1>1, <1>3, <2>1 DEF PutStep
  <2> HIDE DEF k, more
  <2>4. "warmup" # "official"
    OBVIOUS
  <2>5. ASSUME InOrder(s) PROVE InOrder(s)'
    <3>1. \A j : Has(chipq'[s], j) => Has(chipq[s], j) \/ j = k
      BY <2>2, <2>3
    <3>2. k = "warmup" => /\ worker[s] # "official" /\ ~Has(pending[s], "official")
                          /\ ~Has(air[s], "official") /\ ~Has(chipq[s], "official")
      BY <2>1, <2>5 DEF InOrder
    <3>3. Sorted(chipq'[s])
      BY <2>1, <2>2, <2>3, <2>5, <3>2 DEF InOrder, Kinds
    <3>4. warmed'[s] < WarmupFrames => k = "warmup" /\ warmed[s] < WarmupFrames
      BY <2>1, <2>3
    <3> QED BY <2>3, <2>4, <2>5, <3>1, <3>2, <3>3, <3>4 DEF InOrder
  <2>6. ASSUME WarmupsOver(s) PROVE WarmupsOver(s)'
    BY <2>1, <2>2, <2>3, <2>4, <2>6 DEF WarmupsOver
  <2> QED BY <2>5, <2>6
<1>4. CASE TransmitStep(s)
  <2> DEFINE k == Head(chipq[s])
             rest == Tail(chipq[s])
             first == <<k>>
  <2>1. /\ Has(chipq[s], k) /\ (\A j : Has(rest, j) => Has(chipq[s], j))
        /\ Sorted(chipq[s]) => Sorted(rest)
        /\ Sorted(chipq[s]) /\ k = "official" => ~Has(chipq[s], "warmup")
    BY <1>1, <1>4, HeadKind DEF TransmitStep
  <2>2. \A j : Has(first, j) <=> j = k
    BY SingleKind
  <2>3. /\ air'[s] = first /\ chipq'[s] = rest /\ warmed'[s] = warmed[s]
        /\ pending'[s] = pending[s] /\ worker'[s] = worker[s]
    BY <1>4 DEF TransmitStep
  <2> HIDE DEF k, rest, first
  <2>4. ASSUME InOrder(s) PROVE InOrder(s)'
    BY <2>1, <2>2, <2>3, <2>4 DEF InOrder
  <2>5. ASSUME WarmupsOver(s) PROVE WarmupsOver(s)'
    BY <2>1, <2>2, <2>3, <2>5 DEF WarmupsOver
  <2> QED BY <2>4, <2>5
<1>5. CASE ReceiveStep(s)
  <2> DEFINE k == Head(air[s])
             more == Append(pending[s], k)
             none == <<>>
  <2>1. k \in Kinds /\ Has(air[s], k)
    BY <1>1, <1>5, HeadKind DEF ReceiveStep
  <2>2. /\ \A j : Has(more, j) => Has(pending[s], j) \/ j = k
        /\ Sorted(pending[s]) /\ (k = "official" \/ ~Has(pending[s], "official")) => Sorted(more)
    BY <1>1, <2>1, AppendKind
  <2>3. /\ pending'[s] = pending[s] \/ pending'[s] = more
        /\ air'[s] = none /\ warmed'[s] = warmed[s]
        /\ chipq'[s] = chipq[s] /\ worker'[s] = worker[s]
    BY <1>5 DEF ReceiveStep
  <2>4. \A j : ~Has(none, j)
    BY <1>2
  <2>5. k = "warmup" \/ k = "official"
    BY <2>1 DEF Kinds
  <2> HIDE DEF k, more, none
  <2>6. ASSUME InOrder(s) PROVE InOrder(s)'
    <3>1. k = "official" \/ ~Has(pending[s], "official")
      BY <2>1, <2>5, <2>6 DEF InOrder
    <3>2. Sorted(pending'[s]) /\ \A j : Has(pending'[s], j) => Has(pending[s], j) \/ j = k
      BY <2>2, <2>3, <2>6, <3>1 DEF InOrder
    <3> QED BY <2>1, <2>3, <2>4, <2>6, <3>2 DEF InOrder
  <2>7. ASSUME WarmupsOver(s) PROVE WarmupsOver(s)'
    BY <2>1, <2>2, <2>3, <2>4, <2>7 DEF WarmupsOver
  <2> QED BY <2>6, <2>7
<1>6. CASE DispatchStep(s)
  <2> DEFINE k == Head(pending[s])
             rest == Tail(pending[s])
  <2>1. /\ Has(pending[s], k) /\ (\A j : Has(rest, j) => Has(pending[s], j))
        /\ Sorted(pending[s]) => Sorted(rest)
        /\ Sorted(pending[s]) /\ k = "official" => ~Has(pending[s], "warmup")
    BY <1>1, <1>6, HeadKind DEF DispatchStep
  <2>2. /\ pending'[s] = rest /\ (worker'[s] = "none" \/ worker'[s] = k)
        /\ warmed'[s] = warmed[s] /\ chipq'[s] = chipq[s] /\ air'[s] = air[s]
    BY <1>6 DEF DispatchStep
  <2>3. "none" # "official" /\ "none" # "warmup"
    OBVIOUS
  <2> HIDE DEF k, rest
  <2>4. ASSUME InOrder(s) PROVE InOrder(s)'
    BY <2>1, <2>2, <2>3, <2>4 DEF InOrder
  <2>5. ASSUME WarmupsOver(s) PROVE WarmupsOver(s)'
    BY <2>1, <2>2, <2>3, <2>5 DEF WarmupsOver
  <2> QED BY <2>4, <2>5
<1>7. CASE OtherStep(s)
  <2> DEFINE none == <<>>
  <2>1. /\ air'[s] = air[s] \/ air'[s] = none
        /\ worker'[s] = worker[s] \/ worker'[s] = "none"
        /\ warmed'[s] = warmed[s] /\ chipq'[s] = chipq[s] /\ pending'[s] = pending[s]
    BY <1>7 DEF OtherStep
  <2>2. \A j : ~Has(none, j)
    BY <1>2
  <2>3. "none" # "official" /\ "none" # "warmup"
    OBVIOUS
  <2> HIDE DEF none
  <2>4. ASSUME InOrder(s) PROVE InOrder(s)'
    BY <2>1, <2>2, <2>3, <2>4 DEF InOrder
  <2>5. ASSUME WarmupsOver(s) PROVE WarmupsOver(s)'
    BY <2>1, <2>2, <2>3, <2>5 DEF WarmupsOver
  <2> QED BY <2>4, <2>5
<1> QED BY <1>3, <1>4, <1>5, <1>6, <1>7, StepsOfSession

(***************************************************************************)
(* The statistics do count warmup frames, though WORK_DIARY.md:460 says    *)
(* they do not (WarmupsNotCounted).  But not for long: whatever is queued, *)
(* lost, stopped or restarted in between, once a session's decode worker   *)
(* has counted an official frame it counts no warmup frame any more.       *)
(***************************************************************************)
THEOREM WarmupsEnd ==
  ASSUME NEW s \in Sessions
  PROVE  Spec => [](worker[s] = "official" => [](worker[s] # "warmup"))
<1> DEFINE Inv == Lifecycle /\ SessionType /\ InOrder(s)
           Over == WarmupsOver(s)
<1>1. Init => Inv
  <2> SUFFICES ASSUME Init PROVE InOrder(s)
    BY InitLifecycle, InitSession
  <2>1. /\ chipq[s] = <<>> /\ air[s] = <<>> /\ pending[s] = <<>> /\ worker[s] = "none"
    BY DEF Init
  <2>2. Sorted(<<>>)
    BY DEF Sorted
  <2> QED BY <2>1, <2>2, EmptyKinds DEF InOrder
<1>2. Inv /\ [Next]_vars => Inv'
  BY NextLifecycle, NextSession, NextInOrder
<1>3. Inv /\ Over /\ [Next]_vars => Over'
  BY NextInOrder
<1>4. Inv /\ worker[s] = "official" => Over
  <2> SUFFICES ASSUME SessionType, InOrder(s), worker[s] = "official" PROVE WarmupsOver(s)
    OBVIOUS
  <2>1. warmed[s] \in 0 .. WarmupFrames /\ WarmupFrames \in Nat
    BY ManagerAssumption DEF SessionType, ThreadType
  <2>2. ~(warmed[s] < WarmupFrames)
    BY DEF InOrder
  <2>3. warmed[s] = WarmupFrames
    BY <2>1, <2>2
  <2> QED BY <2>3 DEF InOrder, WarmupsOver
<1>5. Over => worker[s] # "warmup"
  BY DEF WarmupsOver
<1> HIDE DEF Inv, Over
<1> QED BY <1>1, <1>2, <1>3, <1>4, <1>5, PTL DEF Spec

=============================================================================
