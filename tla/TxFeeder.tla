------------------------------ MODULE TxFeeder ------------------------------
(***************************************************************************)
(* radio/tx_flowgraph.py: how frames get from the feeder thread to the     *)
(* air.  The feeder builds warmup frames and then official frames and puts *)
(* them in a queue of two; the GNU Radio thread of FrameChipSource fills   *)
(* each output buffer from that queue and pads with idle chips when it is  *)
(* empty; stop() only lowers a flag the feeder looks at between frames.    *)
(***************************************************************************)
EXTENDS Integers, Sequences

CONSTANTS
    WarmupFrames,  \* _warmup_frames
    QueueSize,     \* maxsize of _chip_queue
    FrameChips,    \* chips of a frame
    SymbolChips,   \* chips packed into a symbol: 1 for BPSK, 2 for QPSK
    Dropout,       \* whether the burst dropout anomaly is on
    MaxRoom,       \* BOUND: longest output buffer handed to work()
    MaxOfficial    \* BOUND: official frames built

\* validate_runtime_frame_alignment has accepted FrameChips.
ASSUME FeederAssumption ==
    /\ WarmupFrames \in Nat
    /\ QueueSize \in Nat \ {0}
    /\ FrameChips \in Nat \ {0}
    /\ SymbolChips \in Nat \ {0}
    /\ FrameChips % SymbolChips = 0
    /\ Dropout \in BOOLEAN
    /\ MaxRoom \in Nat \ {0}
    /\ MaxOfficial \in Nat

VARIABLES
    running,     \* _running
    streaming,   \* the GNU Radio threads of the flowgraph run
    pc,          \* where the feeder thread is
    warmupIdx,   \* warmup_idx
    frameId,     \* frame_id, local to the feeder
    frameCount,  \* frame_count, read by the statistics
    chipQueue,   \* _chip_queue
    current,     \* _current of FrameChipSource
    offset,      \* _offset
    room,        \* chips work() has still to fill in its output buffer
    phase,       \* chips sent since the last symbol boundary
    idling,      \* HISTORY: the last chips sent were idle
    queued,      \* HISTORY: frames put in the queue
    announced,   \* HISTORY: frame ids passed to _frame_callback
    air,         \* HISTORY: frames sent, with their first phase and length
    late         \* HISTORY: frames queued after stop()

feeder == <<pc, warmupIdx, frameId, frameCount, queued, announced, late>>
source == <<current, offset, room, phase, idling, air>>
vars == <<running, streaming, pc, warmupIdx, frameId, frameCount, chipQueue,
          current, offset, room, phase, idling, queued, announced, air, late>>

Warmup(i)   == [kind |-> "warmup", id |-> i]
Official(i) == [kind |-> "official", id |-> i]
NoFrame     == [kind |-> "none", id |-> 0]

Frames == [kind : {"warmup", "official"}, id : Nat]

Init ==
    /\ running = TRUE
    /\ streaming = TRUE
    /\ pc = "delay"
    /\ warmupIdx = 0
    /\ frameId = 0
    /\ frameCount = 0
    /\ chipQueue = <<>>
    /\ current = NoFrame
    /\ offset = 0
    /\ room = 0
    /\ phase = 0
    /\ idling = FALSE
    /\ queued = <<>>
    /\ announced = <<>>
    /\ air = <<>>
    /\ late = 0

-----------------------------------------------------------------------------
(* _frame_feeder.                                                          *)

\* The start delay is over, or stop() cut it short.
FeederDelay ==
    /\ pc = "delay"
    /\ pc' = "warmup"
    /\ UNCHANGED <<running, streaming, chipQueue, source, warmupIdx, frameId,
                   frameCount, queued, announced, late>>

\* MUTANT of StopSeen: a loop that never looks at the flag.
StopUnseen == FALSE

StopSeen == ~running

\* Top of the warmup loop: leave it when it is done, return when stopped,
\* skip a dropped burst, or build the next frame.
FeederWarmup ==
    /\ pc = "warmup"
    /\ \/ /\ warmupIdx = WarmupFrames
          /\ pc' = "official"
          /\ UNCHANGED warmupIdx
       \/ /\ warmupIdx < WarmupFrames
          /\ StopSeen
          /\ pc' = "done"
          /\ UNCHANGED warmupIdx
       \/ /\ warmupIdx < WarmupFrames
          /\ ~StopSeen
          /\ \/ Dropout /\ warmupIdx' = warmupIdx + 1 /\ UNCHANGED pc
             \/ pc' = "putWarmup" /\ UNCHANGED warmupIdx
    /\ UNCHANGED <<running, streaming, chipQueue, source, frameId, frameCount,
                   queued, announced, late>>

\* Top of the official loop; a dropped burst keeps its frame id.
FeederOfficial ==
    /\ pc = "official"
    /\ \/ StopSeen /\ pc' = "done"
       \/ ~StopSeen /\ frameId < MaxOfficial /\ pc' = "putOfficial"
    /\ UNCHANGED <<running, streaming, chipQueue, source, warmupIdx, frameId,
                   frameCount, queued, announced, late>>

\* MUTANT of HasRoom: one frame too many.
HasRoomOffByOne(q) == Len(q) <= QueueSize

HasRoom(q) == Len(q) < QueueSize

\* _chip_queue.put finds room, within its timeout.
Put(f) ==
    /\ HasRoom(chipQueue)
    /\ chipQueue' = Append(chipQueue, f)
    /\ queued' = Append(queued, f)
    /\ late' = IF running THEN late ELSE late + 1

PutWarmup ==
    /\ pc = "putWarmup"
    /\ Put(Warmup(warmupIdx))
    /\ warmupIdx' = warmupIdx + 1
    /\ pc' = "warmup"
    /\ UNCHANGED <<running, streaming, source, frameId, frameCount, announced>>

PutOfficial ==
    /\ pc = "putOfficial"
    /\ Put(Official(frameId))
    /\ pc' = "announce"
    /\ UNCHANGED <<running, streaming, source, warmupIdx, frameId, frameCount,
                   announced>>

\* MUTANT of PutTimeout: a put() without a timeout.
PutTimeoutNever == FALSE

\* MUTANT of PutTimeout: the attempt consumes the frame id.
PutTimeoutSkips ==
    /\ ~HasRoom(chipQueue)
    /\ pc = "putOfficial"
    /\ frameId < MaxOfficial
    /\ frameId' = frameId + 1
    /\ pc' = "official"
    /\ UNCHANGED <<running, streaming, chipQueue, source, warmupIdx, frameCount,
                   queued, announced, late>>

\* MUTANT of PutTimeout: the "continue" of the handler is missing.
PutTimeoutAnnounces ==
    /\ ~HasRoom(chipQueue)
    /\ pc = "putOfficial"
    /\ pc' = "announce"
    /\ UNCHANGED <<running, streaming, chipQueue, source, warmupIdx, frameId,
                   frameCount, queued, announced, late>>

\* The queue stayed full for four bursts: queue.Full drops a warmup frame,
\* but leaves an official frame's id to the next attempt.
PutTimeout ==
    /\ ~HasRoom(chipQueue)
    /\ \/ /\ pc = "putWarmup"
          /\ warmupIdx' = warmupIdx + 1
          /\ pc' = "warmup"
          /\ UNCHANGED frameId
       \/ /\ pc = "putOfficial"
          /\ pc' = "official"
          /\ UNCHANGED <<warmupIdx, frameId>>
    /\ UNCHANGED <<running, streaming, chipQueue, source, frameCount, queued,
                   announced, late>>

\* _frame_callback(frame_id, ...): exceptions are swallowed.
Announce ==
    /\ pc = "announce"
    /\ announced' = Append(announced, frameId)
    /\ pc' = "count"
    /\ UNCHANGED <<running, streaming, chipQueue, source, warmupIdx, frameId,
                   frameCount, queued, late>>

CountFrame ==
    /\ pc = "count"
    /\ frameId' = frameId + 1
    /\ frameCount' = frameCount + 1
    /\ pc' = "official"
    /\ UNCHANGED <<running, streaming, chipQueue, source, warmupIdx, queued,
                   announced, late>>

Feeder ==
    \/ FeederDelay \/ FeederWarmup \/ FeederOfficial
    \/ PutWarmup \/ PutOfficial \/ PutTimeout \/ Announce \/ CountFrame

-----------------------------------------------------------------------------
(* FrameChipSource.work(), one turn of its loop at a time: the feeder may  *)
(* put a frame between any two of them.                                    *)

Exhausted == current = NoFrame \/ offset >= FrameChips

\* Chips k of whatever is sent move the symbol phase on.
Sent(k) == phase' = (phase + k) % SymbolChips

\* The scheduler asks for n chips.
WorkCall ==
    /\ streaming
    /\ room = 0
    /\ room' \in 1 .. MaxRoom
    /\ UNCHANGED <<running, streaming, feeder, chipQueue, current, offset, phase,
                   idling, air>>

\* MUTANT of WorkFetch: the frame is looked at, not taken.
WorkFetchPeek ==
    /\ room > 0
    /\ Exhausted
    /\ chipQueue # <<>>
    /\ current' = Head(chipQueue)
    /\ offset' = 0
    /\ UNCHANGED <<running, streaming, feeder, chipQueue, room, phase, idling, air>>

\* MUTANT of WorkFetch: the offset into the last frame is kept.
WorkFetchNoReset ==
    /\ room > 0
    /\ Exhausted
    /\ chipQueue # <<>>
    /\ current' = Head(chipQueue)
    /\ chipQueue' = Tail(chipQueue)
    /\ UNCHANGED <<running, streaming, feeder, offset, room, phase, idling, air>>

\* get_nowait finds the next frame.
WorkFetch ==
    /\ room > 0
    /\ Exhausted
    /\ chipQueue # <<>>
    /\ current' = Head(chipQueue)
    /\ chipQueue' = Tail(chipQueue)
    /\ offset' = 0
    /\ UNCHANGED <<running, streaming, feeder, room, phase, idling, air>>

\* As many chips of the current frame as there are and as fit.
WorkCopy ==
    LET left == FrameChips - offset
        take == IF room < left THEN room ELSE left
    IN  /\ room > 0
        /\ ~Exhausted
        /\ offset' = offset + take
        /\ room' = room - take
        /\ air' = IF offset = 0
                  THEN Append(air, [frame |-> current, at |-> phase, chips |-> take])
                  ELSE [air EXCEPT ![Len(air)].chips = @ + take]
        /\ idling' = FALSE
        /\ Sent(take)
        /\ UNCHANGED <<running, streaming, feeder, chipQueue, current>>

\* MUTANT of IdleDue: idle chips whenever the queue is empty, even in the
\* middle of a frame.
IdleDueEarly == chipQueue = <<>>

IdleDue == Exhausted /\ chipQueue = <<>>

\* queue.Empty: idle chips to the end of the output buffer.
WorkIdle ==
    /\ room > 0
    /\ IdleDue
    /\ room' = 0
    /\ idling' = TRUE
    /\ Sent(room)
    /\ UNCHANGED <<running, streaming, feeder, chipQueue, current, offset, air>>

Source == WorkCall \/ WorkFetch \/ WorkCopy \/ WorkIdle

-----------------------------------------------------------------------------

\* stop() lowers the flag, then stops the flowgraph; nobody joins the feeder.
Stop ==
    /\ running
    /\ running' = FALSE
    /\ UNCHANGED <<streaming, feeder, chipQueue, source>>

\* super().stop() and wait(): the work() in progress, if any, has returned.
StopStreaming ==
    /\ ~running
    /\ streaming
    /\ room = 0
    /\ streaming' = FALSE
    /\ UNCHANGED <<running, feeder, chipQueue, source>>

Next == Feeder \/ Source \/ Stop \/ StopStreaming

Spec == Init /\ [][Next]_vars

\* The feeder's sleeps and its put are bounded by timeouts, and GNU Radio
\* keeps calling work() while the flowgraph runs.
FairSpec ==
    /\ Spec
    /\ WF_vars(Feeder)
    /\ WF_vars(WorkCall) /\ WF_vars(WorkFetch) /\ WF_vars(WorkCopy) /\ WF_vars(WorkIdle)

-----------------------------------------------------------------------------
(* Properties.                                                             *)

TypeOK ==
    /\ running \in BOOLEAN /\ streaming \in BOOLEAN /\ idling \in BOOLEAN
    /\ pc \in {"delay", "warmup", "putWarmup", "official", "putOfficial",
               "announce", "count", "done"}
    /\ warmupIdx \in 0 .. WarmupFrames
    /\ frameId \in 0 .. MaxOfficial
    /\ frameCount \in 0 .. MaxOfficial
    /\ chipQueue \in Seq(Frames) /\ Len(chipQueue) <= QueueSize
    /\ current \in Frames \cup {NoFrame}
    /\ offset \in 0 .. FrameChips
    /\ room \in 0 .. MaxRoom
    /\ phase \in 0 .. SymbolChips - 1
    /\ queued \in Seq(Frames)
    /\ announced \in Seq(Nat)
    /\ air \in Seq([frame : Frames, at : 0 .. SymbolChips - 1, chips : 1 .. FrameChips])
    /\ late \in Nat

\* A frame fetched from the queue of which no chip has been sent.
Fetched == IF current # NoFrame /\ offset = 0 THEN <<current>> ELSE <<>>

(***************************************************************************)
(* Between put() and the antenna no frame is lost, repeated or overtaken:  *)
(* the frames sent, the one just fetched and those in the queue are, in    *)
(* this order, the frames the feeder put in.                               *)
(***************************************************************************)
FramesConserved ==
    [i \in DOMAIN air |-> air[i].frame] \o Fetched \o chipQueue = queued

(***************************************************************************)
(* A frame is sent in one piece: idle chips only ever follow the last chip *)
(* of a frame, and the next frame starts after it.                         *)
(***************************************************************************)
FramesInOnePiece ==
    /\ \A i \in 1 .. Len(air) - 1 : air[i].chips = FrameChips
    /\ idling /\ air # <<>> => air[Len(air)].chips = FrameChips

(***************************************************************************)
(* README.md:64, warmup frames go before official frame #0, and official   *)
(* ids leave no gap whatever bursts are dropped or puts time out.          *)
(***************************************************************************)
OfficialInOrder ==
    \A i, j \in DOMAIN queued :
        /\ i < j /\ queued[j].kind = "warmup" => queued[i].kind = "warmup"
        /\ queued[i].kind = "official" =>
              IF \E k \in 1 .. i - 1 : queued[k].kind = "official"
              THEN queued[i - 1] = Official(queued[i].id - 1)
              ELSE queued[i].id = 0

(***************************************************************************)
(* What is announced as transmitted is counted once, and is exactly the    *)
(* official frames queued, give or take the one in hand.                   *)
(***************************************************************************)
AnnouncedAreQueued ==
    LET official == {i \in DOMAIN queued : queued[i].kind = "official"}
    IN  /\ \A i \in DOMAIN announced :
              announced[i] = i - 1 /\ \E j \in official : queued[j].id = i - 1
        /\ \A j \in official :
              queued[j].id < Len(announced) + (IF pc = "announce" THEN 1 ELSE 0)
        /\ frameCount = Len(announced) - (IF pc = "count" THEN 1 ELSE 0)

(***************************************************************************)
(* The feeder is not joined by stop(), but at most the one frame it was    *)
(* holding still enters the queue after it.                                *)
(***************************************************************************)
AtMostOneLate == late <= 1

\* A stopped feeder returns, even from a put() nobody empties the queue for.
FeederEnds == ~running ~> pc = "done"

\* While the flowgraph runs, every frame queued is sent in full.
QueuedIsSent ==
    \A k \in 1 .. WarmupFrames + MaxOfficial :
        Len(queued) >= k ~>
            \/ ~running
            \/ Len(air) >= k /\ air[k].chips = FrameChips

(***************************************************************************)
(* runtime_modulation.py:23: packed-chip modulation must not split a frame *)
(* across symbols, so a frame starts on a symbol boundary.                 *)
(***************************************************************************)
FramesOnSymbolBoundary == \A i \in DOMAIN air : air[i].at = 0

=============================================================================
