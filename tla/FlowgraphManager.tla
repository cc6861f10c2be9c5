-------------------------- MODULE FlowgraphManager --------------------------
(***************************************************************************)
(* radio/flowgraph_manager.py: start(), stop() and restart() of the main   *)
(* thread against the threads they start and never join.  Each build makes *)
(* a session: a TX flowgraph with its feeder thread, an RX flowgraph with  *)
(* its decode worker.  Feeders and workers of any session, the present one *)
(* or one stopped long ago, write the manager's flag and statistics.       *)
(* A session's queues are those of TxFeeder and FrameSink, frame by frame. *)
(***************************************************************************)
EXTENDS Integers, Sequences

CONSTANTS
    WarmupFrames,   \* cfg.timing.tx_warmup_frames
    QueueSize,      \* maxsize of the TX chip queue
    DecodeDepth,    \* maxsize of the RX dispatch queue
    MaxSessions,    \* BOUND: builds of the flowgraphs
    MaxOfficial,    \* BOUND: official frames of a session
    StartOverLive   \* whether start() is called on what a failed start() or a
                    \* restart() while stopped has left behind

ASSUME ManagerAssumption ==
    /\ WarmupFrames \in Nat
    /\ QueueSize \in Nat \ {0}
    /\ DecodeDepth \in Nat \ {0}
    /\ MaxSessions \in Nat
    /\ MaxOfficial \in Nat
    /\ StartOverLive \in BOOLEAN

VARIABLES
    pc,         \* where the main thread is; it holds _lock unless "idle"
    op,         \* the call it is executing
    running,    \* _running
    txfg, rxfg, \* _tx_fg and _rx_fg: the session's number, 0 for None
    official,   \* _official_tx_started
    stats,      \* _stats: rx_fec_ok and rx_fec_err
    sessions,   \* sessions built
    tx, rx,     \* state of each session's flowgraphs
    feeder,     \* where each session's feeder thread is
    warmed,     \* warmup frames it is through with
    count,      \* its frame_count
    chipq,      \* its chip queue
    air,        \* the frame between its antennas
    detected,   \* its frames_received
    pending,    \* its dispatch queue, with the frame being decoded at its head
    worker,     \* the frame its worker is counting, "none" between frames
    monitor     \* where the HW-Monitor thread of each start() is

main == <<pc, op, running, txfg, rxfg>>
flowgraphs == <<sessions, tx, rx, monitor>>
transmit == <<feeder, warmed, count, chipq>>
receive == <<detected, pending, worker>>
vars == <<pc, op, running, txfg, rxfg, official, stats, sessions, tx, rx,
          feeder, warmed, count, chipq, air, detected, pending, worker,
          monitor>>

Sessions == 1 .. MaxSessions
Kinds == {"warmup", "official"}
NoStats == [ok |-> 0, err |-> 0]

Init ==
    /\ pc = "idle" /\ op = "none"
    /\ running = FALSE
    /\ txfg = 0 /\ rxfg = 0
    /\ official = FALSE
    /\ stats = NoStats
    /\ sessions = 0
    /\ tx = [s \in Sessions |-> "none"]
    /\ rx = [s \in Sessions |-> "none"]
    /\ feeder = [s \in Sessions |-> "none"]
    /\ warmed = [s \in Sessions |-> 0]
    /\ count = [s \in Sessions |-> 0]
    /\ chipq = [s \in Sessions |-> <<>>]
    /\ air = [s \in Sessions |-> <<>>]
    /\ detected = [s \in Sessions |-> 0]
    /\ pending = [s \in Sessions |-> <<>>]
    /\ worker = [s \in Sessions |-> "none"]
    /\ monitor = [s \in Sessions |-> "none"]

-----------------------------------------------------------------------------
(* The main thread.                                                        *)

\* start() returns at once when already running.
Start ==
    /\ pc = "idle" /\ ~running
    /\ StartOverLive \/ (txfg = 0 /\ rxfg = 0)
    /\ sessions < MaxSessions
    /\ op' = "start" /\ pc' = "clearOfficial"
    /\ UNCHANGED <<running, txfg, rxfg, official, stats, flowgraphs,
                   transmit, air, receive>>

Stop ==
    /\ pc = "idle"
    /\ running \/ txfg # 0 \/ rxfg # 0     \* else it changes nothing
    /\ op' = "stop" /\ pc' = "stopTx"
    /\ UNCHANGED <<running, txfg, rxfg, official, stats, flowgraphs,
                   transmit, air, receive>>

\* The GUI's button is not guarded by _running.
Restart ==
    /\ pc = "idle"
    /\ sessions < MaxSessions
    /\ op' = "restart" /\ pc' = "stopTx"
    /\ UNCHANGED <<running, txfg, rxfg, official, stats, flowgraphs,
                   transmit, air, receive>>

\* MUTANT of Stopped: the flowgraph is only forgotten.
StoppedNever(state, s) == state

\* fg.stop() and fg.wait() on a flowgraph that may never have been started.
Stopped(state, s) ==
    [r \in Sessions |-> IF r = s /\ state[r] = "live" THEN "dead" ELSE state[r]]

StopTx ==
    /\ pc = "stopTx"
    /\ tx' = Stopped(tx, txfg)
    /\ pc' = "stopRx"
    /\ UNCHANGED <<op, running, txfg, rxfg, official, stats, sessions, rx,
                   monitor, transmit, air, receive>>

\* The last of _stop_flowgraphs, with the samples on their way; stop() then
\* clears _running.
StopRx ==
    /\ pc = "stopRx"
    /\ rx' = Stopped(rx, rxfg)
    /\ air' = [s \in Sessions |-> IF s = rxfg THEN <<>> ELSE air[s]]
    /\ txfg' = 0 /\ rxfg' = 0
    /\ running' = (running /\ op # "stop")
    /\ pc' = IF op = "stop" THEN "idle" ELSE "resetStats"
    /\ UNCHANGED <<op, official, stats, sessions, tx, monitor, transmit,
                   receive>>

\* restart() alone starts from new statistics.
ResetStats ==
    /\ pc = "resetStats"
    /\ stats' = NoStats
    /\ pc' = "clearOfficial"
    /\ UNCHANGED <<op, running, txfg, rxfg, official, flowgraphs,
                   transmit, air, receive>>

ClearOfficial ==
    /\ pc = "clearOfficial"
    /\ official' = FALSE
    /\ pc' = "buildTx"
    /\ UNCHANGED <<op, running, txfg, rxfg, stats, flowgraphs, transmit,
                   air, receive>>

\* _build_flowgraphs, one flowgraph at a time.
BuildTx ==
    /\ pc = "buildTx"
    /\ sessions' = sessions + 1
    /\ tx' = [tx EXCEPT ![sessions + 1] = "built"]
    /\ txfg' = sessions + 1
    /\ pc' = "buildRx"
    /\ UNCHANGED <<op, running, rxfg, official, stats, rx, monitor, transmit,
                   air, receive>>

BuildRx ==
    /\ pc = "buildRx"
    /\ rx' = [rx EXCEPT ![sessions] = "built"]
    /\ rxfg' = sessions
    /\ pc' = "startRx"
    /\ UNCHANGED <<op, running, txfg, official, stats, sessions, tx, monitor,
                   transmit, air, receive>>

StartRx ==
    /\ pc = "startRx"
    /\ rx' = [rx EXCEPT ![rxfg] = "live"]
    /\ pc' = "startTx"
    /\ UNCHANGED <<op, running, txfg, rxfg, official, stats, sessions, tx,
                   monitor, transmit, air, receive>>

\* The flowgraph and its feeder; restart() ends here.
StartTx ==
    /\ pc = "startTx"
    /\ tx' = [tx EXCEPT ![txfg] = "live"]
    /\ feeder' = [feeder EXCEPT ![txfg] = "loop"]
    /\ pc' = IF op = "start" THEN "finish" ELSE "idle"
    /\ UNCHANGED <<op, running, txfg, rxfg, official, stats, sessions, rx,
                   monitor, warmed, count, chipq, air, receive>>

\* start() sets _running and starts a monitor.
Finish ==
    /\ pc = "finish"
    /\ running' = TRUE
    /\ monitor' = [monitor EXCEPT ![sessions] = "asleep"]
    /\ pc' = "idle"
    /\ UNCHANGED <<op, txfg, rxfg, official, stats, sessions, tx, rx,
                   transmit, air, receive>>

\* MUTANT of StartFails: _running is set before the flowgraphs are built.
StartFailsRunning ==
    /\ op = "start"
    /\ pc \in {"buildTx", "buildRx", "startRx", "startTx"}
    /\ pc' = "idle"
    /\ running' = TRUE
    /\ UNCHANGED <<op, txfg, rxfg, official, stats, flowgraphs, transmit, air,
                   receive>>

\* An exception out of start() leaves things as they are; MainWindow._start
\* reports it.  (Out of restart() it would leave a Qt slot: the program ends.)
StartFails ==
    /\ op = "start"
    /\ pc \in {"buildTx", "buildRx", "startRx", "startTx"}
    /\ pc' = "idle"
    /\ UNCHANGED <<op, running, txfg, rxfg, official, stats, flowgraphs,
                   transmit, air, receive>>

Main ==
    \/ StopTx \/ StopRx \/ ResetStats \/ ClearOfficial
    \/ BuildTx \/ BuildRx \/ StartRx \/ StartTx \/ Finish

-----------------------------------------------------------------------------
(* A session's feeder thread (TxFeeder, without burst dropout).            *)

\* MUTANT of FeederStopped: the manager's flag, which start() sets last.
FeederReadsManager(s) == ~running

FeederStopped(s) == tx[s] # "live"

\* MUTANT of NextKind: one warmup frame too many.
NextKindOffByOne(s) == IF warmed[s] <= WarmupFrames THEN "warmup" ELSE "official"

NextKind(s) == IF warmed[s] < WarmupFrames THEN "warmup" ELSE "official"

\* Top of the warmup or of the official loop.
FeederLoop(s) ==
    /\ feeder[s] = "loop"
    /\ \/ FeederStopped(s) /\ feeder' = [feeder EXCEPT ![s] = "done"]
       \/ /\ ~FeederStopped(s)
          /\ NextKind(s) = "official" => count[s] < MaxOfficial
          /\ feeder' = [feeder EXCEPT ![s] = "put"]
    /\ UNCHANGED <<main, official, stats, flowgraphs, warmed, count, chipq,
                   air, receive>>

\* The frame is queued, or dropped because the queue stayed full.
FeederPut(s) ==
    LET full == Len(chipq[s]) >= QueueSize
        kind == NextKind(s)
    IN  /\ feeder[s] = "put"
        /\ chipq' = IF full THEN chipq ELSE [chipq EXCEPT ![s] = Append(@, kind)]
        /\ warmed' = [warmed EXCEPT ![s] = IF kind = "warmup" THEN @ + 1 ELSE @]
        /\ feeder' = [feeder EXCEPT ![s] =
                        IF kind = "official" /\ ~full THEN "callback" ELSE "loop"]
        /\ UNCHANGED <<main, official, stats, flowgraphs, count, air,
                       receive>>

\* _on_tx_frame: whichever session calls, the manager's flag is set.
OnTxFrame(s) ==
    /\ feeder[s] = "callback"
    /\ official' = TRUE
    /\ feeder' = [feeder EXCEPT ![s] = "count"]
    /\ UNCHANGED <<main, stats, flowgraphs, warmed, count, chipq, air, receive>>

FeederCount(s) ==
    /\ feeder[s] = "count"
    /\ count' = [count EXCEPT ![s] = @ + 1]
    /\ feeder' = [feeder EXCEPT ![s] = "loop"]
    /\ UNCHANGED <<main, official, stats, flowgraphs, warmed, chipq,
                   air, receive>>

Feeder(s) == FeederLoop(s) \/ FeederPut(s) \/ OnTxFrame(s) \/ FeederCount(s)

-----------------------------------------------------------------------------
(* A session's GNU Radio threads.                                          *)

Transmit(s) ==
    /\ tx[s] = "live"
    /\ chipq[s] # <<>> /\ air[s] = <<>>
    /\ air' = [air EXCEPT ![s] = <<Head(chipq[s])>>]
    /\ chipq' = [chipq EXCEPT ![s] = Tail(@)]
    /\ UNCHANGED <<main, official, stats, flowgraphs, feeder, warmed, count,
                   receive>>

\* The dispatch queue, and the frame the worker decodes unless it counts one.
Room(s) == DecodeDepth + (IF worker[s] = "none" THEN 1 ELSE 0)

\* put_nowait; queue.Full loses the frame.
Deliver(s, f) ==
    IF Len(pending[s]) < Room(s) THEN Append(pending[s], f) ELSE pending[s]

\* FrameSink misses the frame, or counts it and offers it to the worker.
Receive(s) ==
    /\ rx[s] = "live"
    /\ air[s] # <<>>
    /\ air' = [air EXCEPT ![s] = <<>>]
    /\ \/ UNCHANGED <<detected, pending>>
       \/ /\ detected' = [detected EXCEPT ![s] = @ + 1]
          /\ pending' = [pending EXCEPT ![s] = Deliver(s, Head(air[s]))]
    /\ UNCHANGED <<main, official, stats, flowgraphs, transmit, worker>>

-----------------------------------------------------------------------------
(* A session's decode worker, in _dispatch_frame.                          *)

Counts == official

\* MUTANT of DispatchFrame: the frame stays in the queue.
DispatchFramePeek(s) ==
    /\ worker[s] = "none" /\ pending[s] # <<>>
    /\ worker' = [worker EXCEPT ![s] = IF Counts THEN Head(pending[s]) ELSE "none"]
    /\ UNCHANGED <<main, official, stats, flowgraphs, transmit,
                   air, detected, pending>>

DispatchFrame(s) ==
    /\ worker[s] = "none" /\ pending[s] # <<>>
    /\ worker' = [worker EXCEPT ![s] = IF Counts THEN Head(pending[s]) ELSE "none"]
    /\ pending' = [pending EXCEPT ![s] = Tail(@)]
    /\ UNCHANGED <<main, official, stats, flowgraphs, transmit, air,
                   detected>>

\* rx_fec_ok or rx_fec_err, of whatever _stats is by now.
CountDecode(s) ==
    /\ worker[s] # "none"
    /\ \/ stats' = [stats EXCEPT !.ok = @ + 1]
       \/ stats' = [stats EXCEPT !.err = @ + 1]
    /\ worker' = [worker EXCEPT ![s] = "none"]
    /\ UNCHANGED <<main, official, flowgraphs, transmit, air, detected,
                   pending>>

-----------------------------------------------------------------------------
(* _hw_monitor_worker: one thread for every start().                       *)

\* MUTANT of MonitorRuns: the loop of a thread nobody means to end.
MonitorRunsOn == TRUE

MonitorRuns == running

\* Every two seconds it takes the lock, asks the flowgraphs if there are any,
\* and tests the flag: while it is set, all that changes nothing here.
MonitorWake(m) ==
    /\ monitor[m] = "asleep"
    /\ pc = "idle"
    /\ ~MonitorRuns
    /\ monitor' = [monitor EXCEPT ![m] = "done"]
    /\ UNCHANGED <<main, official, stats, sessions, tx, rx, transmit, air,
                   receive>>

Next ==
    \/ Start \/ Stop \/ Restart \/ StartFails \/ Main
    \/ \E s \in Sessions :
          \/ Feeder(s) \/ Transmit(s) \/ Receive(s)
          \/ DispatchFrame(s) \/ CountDecode(s) \/ MonitorWake(s)

Spec == Init /\ [][Next]_vars

\* Calls of the main thread return, feeders, TX flowgraphs and monitors keep
\* running; nobody has to press a button, nor the receiver to hear anything.
\* Between two presses the lock is free for far longer than a monitor needs
\* to take it, hence SF.
FairSpec ==
    /\ Spec
    /\ WF_vars(Main)
    /\ \A s \in Sessions :
          /\ WF_vars(Feeder(s)) /\ WF_vars(Transmit(s))
          /\ SF_vars(MonitorWake(s))

-----------------------------------------------------------------------------
(* Properties.                                                             *)

FlowgraphStates == {"none", "built", "live", "dead"}

TypeOK ==
    /\ pc \in {"idle", "clearOfficial", "stopTx", "stopRx", "resetStats",
               "buildTx", "buildRx", "startRx", "startTx", "finish"}
    /\ op \in {"none", "start", "stop", "restart"}
    /\ running \in BOOLEAN /\ official \in BOOLEAN
    /\ sessions \in 0 .. MaxSessions
    /\ txfg \in 0 .. sessions /\ rxfg \in 0 .. sessions
    /\ stats \in [ok : Nat, err : Nat]
    /\ tx \in [Sessions -> FlowgraphStates]
    /\ rx \in [Sessions -> FlowgraphStates]
    /\ feeder \in [Sessions -> {"none", "loop", "put", "callback", "count", "done"}]
    /\ warmed \in [Sessions -> 0 .. WarmupFrames]
    /\ count \in [Sessions -> 0 .. MaxOfficial]
    /\ detected \in [Sessions -> Nat]
    /\ \A s \in Sessions :
          /\ chipq[s] \in Seq(Kinds) /\ Len(chipq[s]) <= QueueSize
          /\ air[s] \in Seq(Kinds) /\ Len(air[s]) <= 1
          /\ pending[s] \in Seq(Kinds) /\ Len(pending[s]) <= DecodeDepth + 1
    /\ worker \in [Sessions -> Kinds \cup {"none"}]
    /\ monitor \in [Sessions -> {"none", "asleep", "done"}]

Total(f) ==
    LET sum[s \in 0 .. MaxSessions] == IF s = 0 THEN 0 ELSE sum[s - 1] + f[s]
    IN  sum[MaxSessions]

\* Frames that a session's worker has not counted yet.
Held(s) == Len(pending[s]) + (IF worker[s] = "none" THEN 0 ELSE 1)

(***************************************************************************)
(* What the statistics count are frames some session detected, each once,  *)
(* whatever sessions ran before and whenever the statistics were reset:    *)
(* those counted, those in a worker's hand and those waiting.              *)
(***************************************************************************)
CountedWereDetected ==
    stats.ok + stats.err + Total([s \in Sessions |-> Held(s)]) <= Total(detected)

(***************************************************************************)
(* flowgraph_manager.py:4: the manager "Owns the TX and RX flowgraph       *)
(* lifetimes": no flowgraph runs that it no longer refers to.  True as     *)
(* long as start() is not called over what a failure has left behind.      *)
(***************************************************************************)
NoOrphans ==
    \A s \in Sessions :
        /\ tx[s] = "live" => s = txfg
        /\ rx[s] = "live" => s = rxfg

(***************************************************************************)
(* Whatever builds fail, between calls a set _running means that one       *)
(* session is live, the one the manager refers to.                         *)
(***************************************************************************)
RunningIsLive ==
    pc = "idle" /\ running =>
        \E s \in Sessions :
            s = txfg /\ s = rxfg /\ tx[s] = "live" /\ rx[s] = "live"

\* Once stopped for good, every HW-Monitor thread returns, however quickly
\* stop() and start() followed each other before.
MonitorsEnd ==
    <>[]~running => <>[](\A m \in Sessions : monitor[m] \in {"none", "done"})

\* A link left running gets through its warmup to an official frame.
OfficialStarts ==
    running /\ pc = "idle" ~> official \/ ~running \/ pc # "idle"

-----------------------------------------------------------------------------
(* What comments and documents say, and the code does not do.              *)

(***************************************************************************)
(* WORK_DIARY.md:460: "FlowgraphManager ignores RX callbacks until the     *)
(* first official TX frame has been queued/logged, so warmup decodes do    *)
(* not pollute delivery stats."                                            *)
(***************************************************************************)
WarmupsNotCounted == \A s \in Sessions : worker[s] # "warmup"

=============================================================================
