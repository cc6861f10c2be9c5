---------------------------- MODULE TxFeederProofs ----------------------------
(***************************************************************************)
(* Proofs about TxFeeder, for every number of frames, chips of a frame and *)
(* of a symbol, queue size and output buffers.                             *)
(***************************************************************************)
EXTENDS TxFeeder, NumberLemmas, SequenceTheorems

SentFrames == [frame : Frames, at : 0 .. SymbolChips - 1, chips : 1 .. FrameChips]

(* What is being sent: only the last frame of air is incomplete, it is the *)
(* current one, and idle chips do not interrupt it.                        *)
Pieces ==
    /\ current = NoFrame => offset = 0 /\ air = <<>>
    /\ \A i \in 1 .. Len(air) - 1 : air[i].chips = FrameChips
    /\ air # <<>> => air[Len(air)].chips = IF offset = 0 THEN FrameChips ELSE offset
    /\ offset > 0 => air # <<>>
    /\ idling => offset \in {0, FrameChips}

(* A frame in hand is one of those to be sent; announcing it counts it. *)
Counting ==
    /\ frameCount = frameId
    /\ pc \in {"putOfficial", "announce", "count"} => frameId < MaxOfficial
    /\ pc = "putWarmup" => warmupIdx < WarmupFrames

TypeInv == TypeOK /\ Pieces /\ Counting

-----------------------------------------------------------------------------
(* Types *)

LEMMA SentType ==
  ASSUME NEW n \in Nat
  PROVE  n % SymbolChips \in 0 .. SymbolChips - 1
<1>1. ASSUME NEW a \in Nat, NEW b \in Nat \ {0} PROVE a % b \in 0 .. b - 1
  OBVIOUS
<1> QED BY <1>1, FeederAssumption

LEMMA PhaseType ==
  ASSUME TypeOK, NEW k \in Nat
  PROVE  (phase + k) % SymbolChips \in 0 .. SymbolChips - 1
<1>1. phase + k \in Nat
  BY FeederAssumption DEF TypeOK
<1> QED BY <1>1, SentType

LEMMA InitType == Init => TypeInv
<1> SUFFICES ASSUME Init PROVE TypeInv
  OBVIOUS
<1>1. /\ queued \in Seq(Frames) /\ chipQueue \in Seq(Frames) /\ announced \in Seq(Nat)
      /\ air \in Seq(SentFrames) /\ Len(chipQueue) = 0
  BY DEF Init
<1>2. Pieces /\ Counting
  BY <1>1, FeederAssumption DEF Init, Pieces, Counting
<1>3. /\ warmupIdx \in 0 .. WarmupFrames /\ frameId \in 0 .. MaxOfficial
      /\ frameCount \in 0 .. MaxOfficial /\ Len(chipQueue) <= QueueSize
      /\ offset \in 0 .. FrameChips /\ room \in 0 .. MaxRoom
      /\ phase \in 0 .. SymbolChips - 1 /\ late \in Nat
  BY <1>1, FeederAssumption DEF Init
<1> QED BY <1>1, <1>2, <1>3 DEF Init, TypeInv, TypeOK, SentFrames

LEMMA PutType ==
  ASSUME TypeOK, NEW f \in Frames, Put(f)
  PROVE  /\ chipQueue' \in Seq(Frames) /\ Len(chipQueue') <= QueueSize
         /\ queued' \in Seq(Frames) /\ late' \in Nat
<1>1. /\ chipQueue \in Seq(Frames) /\ queued \in Seq(Frames)
      /\ Len(chipQueue) < QueueSize /\ Len(chipQueue) \in Nat
  BY DEF TypeOK, Put, HasRoom
<1>2. chipQueue' = Append(chipQueue, f) /\ queued' = Append(queued, f)
  BY DEF Put
<1>3. chipQueue' \in Seq(Frames) /\ Len(chipQueue') = Len(chipQueue) + 1
  BY <1>1, <1>2, AppendProperties
<1>4. queued' \in Seq(Frames)
  BY <1>1, <1>2, AppendProperties
<1> QED BY <1>1, <1>3, <1>4, FeederAssumption DEF Put, TypeOK

LEMMA WarmupType == ASSUME NEW i \in Nat PROVE Warmup(i) \in Frames
  BY DEF Warmup, Frames
LEMMA OfficialType == ASSUME NEW i \in Nat PROVE Official(i) \in Frames
  BY DEF Official, Frames

\* The feeder's variables keep their types; it touches neither current nor air.
LEMMA FeederType == TypeInv /\ Feeder => TypeInv'
<1> SUFFICES ASSUME TypeOK, Pieces, Counting, Feeder PROVE TypeInv'
  BY DEF TypeInv
<1>1. UNCHANGED <<running, streaming, current, offset, room, phase, idling, air>>
  BY DEF Feeder, FeederDelay, FeederWarmup, FeederOfficial, PutWarmup, PutOfficial,
     PutTimeout, Announce, CountFrame, source
<1>2. Pieces'
  BY <1>1 DEF Pieces
<1> DEFINE Queues ==
        /\ chipQueue' \in Seq(Frames) /\ Len(chipQueue') <= QueueSize
        /\ queued' \in Seq(Frames) /\ announced' \in Seq(Nat) /\ late' \in Nat
    Indices ==
        /\ warmupIdx' \in 0 .. WarmupFrames
        /\ frameId' \in 0 .. MaxOfficial /\ frameCount' \in 0 .. MaxOfficial
        /\ pc' \in {"delay", "warmup", "putWarmup", "official", "putOfficial",
                    "announce", "count", "done"}
<1>3. SUFFICES Queues /\ Indices /\ Counting'
  BY <1>1, <1>2, <1>3 DEF TypeInv, TypeOK
<1> USE FeederAssumption
<1>4. ASSUME UNCHANGED <<chipQueue, queued, announced, late>> PROVE Queues
  BY <1>4 DEF TypeOK
<1>8. CASE FeederDelay
  BY <1>4, <1>8 DEF FeederDelay, TypeOK, Counting
<1>9. CASE FeederWarmup
  BY <1>4, <1>9 DEF FeederWarmup, TypeOK, Counting
<1>10. CASE FeederOfficial
  BY <1>4, <1>10 DEF FeederOfficial, TypeOK, Counting
<1>11. CASE PutTimeout
  BY <1>4, <1>11 DEF PutTimeout, TypeOK, Counting
<1>12. CASE CountFrame
  BY <1>4, <1>12 DEF CountFrame, TypeOK, Counting
<1>5. CASE PutWarmup
  <2>1. Warmup(warmupIdx) \in Frames
    BY WarmupType DEF TypeOK
  <2>2. Queues
    BY <1>5, <2>1, PutType DEF PutWarmup, TypeOK
  <2> QED BY <1>5, <2>2 DEF PutWarmup, TypeOK, Counting
<1>6. CASE PutOfficial
  <2>1. Official(frameId) \in Frames
    BY OfficialType DEF TypeOK
  <2>2. Queues
    BY <1>6, <2>1, PutType DEF PutOfficial, TypeOK
  <2> QED BY <1>6, <2>2 DEF PutOfficial, TypeOK, Counting
<1>7. CASE Announce
  <2>1. announced' \in Seq(Nat)
    <3>1. announced \in Seq(Nat) /\ frameId \in Nat /\ announced' = Append(announced, frameId)
      BY <1>7 DEF Announce, TypeOK
    <3> QED BY <3>1, AppendProperties
  <2>2. Queues
    BY <1>7, <2>1 DEF Announce, TypeOK
  <2> QED BY <1>7, <2>2 DEF Announce, TypeOK, Counting
<1> QED BY <1>5, <1>6, <1>7, <1>8, <1>9, <1>10, <1>11, <1>12 DEF Feeder

\* A copied chunk leaves a frame in hand whose sent part air records.
LEMMA PiecesOf ==
  ASSUME current' # NoFrame, offset' > 0, idling' = FALSE,
         \A i \in 1 .. Len(air') - 1 : air'[i].chips = FrameChips,
         air' # <<>> /\ air'[Len(air')].chips = offset',
         offset' \in Nat
  PROVE  Pieces'
<1>1. offset' # 0
  OBVIOUS
<1>2. idling' => offset' \in {0, FrameChips}
  OBVIOUS
<1> QED BY <1>1, <1>2 DEF Pieces

LEMMA SourceType == TypeInv /\ Source => TypeInv'
<1> SUFFICES ASSUME TypeOK, Pieces, Counting, Source PROVE TypeInv'
  BY DEF TypeInv
<1>1. UNCHANGED <<running, streaming, feeder>>
  BY DEF Source, WorkCall, WorkFetch, WorkCopy, WorkIdle
<1>2. Counting'
  BY <1>1 DEF Counting, feeder
<1> DEFINE Output ==
        /\ chipQueue' \in Seq(Frames) /\ Len(chipQueue') <= QueueSize
        /\ current' \in Frames \cup {NoFrame}
        /\ offset' \in 0 .. FrameChips /\ room' \in 0 .. MaxRoom
        /\ phase' \in 0 .. SymbolChips - 1 /\ idling' \in BOOLEAN
        /\ air' \in Seq(SentFrames)
<1>3. SUFFICES Output /\ Pieces'
  BY <1>1, <1>2, <1>3 DEF TypeInv, TypeOK, feeder, SentFrames
<1>4. /\ air \in Seq(SentFrames) /\ chipQueue \in Seq(Frames)
      /\ current \in Frames \cup {NoFrame} /\ idling \in BOOLEAN
  BY DEF TypeOK, SentFrames
<1>5. CASE WorkCall
  <2>1. room' \in 0 .. MaxRoom
    BY <1>5, FeederAssumption DEF WorkCall
  <2>2. UNCHANGED <<chipQueue, current, offset, phase, idling, air>>
    BY <1>5 DEF WorkCall
  <2> QED BY <1>4, <2>1, <2>2 DEF TypeOK, Pieces
<1>6. CASE WorkFetch
  <2>1. /\ chipQueue # <<>> /\ current' = Head(chipQueue)
        /\ chipQueue' = Tail(chipQueue) /\ offset' = 0
        /\ UNCHANGED <<room, phase, idling, air>>
    BY <1>6 DEF WorkFetch
  <2>2. /\ current' \in Frames /\ chipQueue' \in Seq(Frames)
        /\ Len(chipQueue') = Len(chipQueue) - 1
    BY <1>4, <2>1, HeadTailProperties
  <2>3. Len(chipQueue') <= QueueSize
    BY <1>4, <2>2, FeederAssumption DEF TypeOK
  <2>4. Output
    BY <1>4, <2>1, <2>2, <2>3, FeederAssumption DEF TypeOK
  <2>5. air # <<>> => air[Len(air)].chips = FrameChips
    BY <1>6, FeederAssumption DEF WorkFetch, Exhausted, Pieces, TypeOK
  <2>6. current' # NoFrame
    BY <2>2 DEF Frames, NoFrame
  <2> QED BY <2>1, <2>4, <2>5, <2>6 DEF Pieces
<1>7. CASE WorkCopy
  <2> DEFINE left == FrameChips - offset
             take == IF room < left THEN room ELSE left
  <2>1. /\ room > 0 /\ current # NoFrame /\ offset < FrameChips
        /\ offset' = offset + take /\ room' = room - take
        /\ air' = IF offset = 0
                  THEN Append(air, [frame |-> current, at |-> phase, chips |-> take])
                  ELSE [air EXCEPT ![Len(air)].chips = @ + take]
        /\ idling' = FALSE /\ phase' = (phase + take) % SymbolChips
        /\ UNCHANGED <<chipQueue, current>>
    BY <1>7, FeederAssumption DEF WorkCopy, Exhausted, Sent, TypeOK
  <2>0. /\ room \in Nat /\ room <= MaxRoom /\ offset \in Nat
        /\ FrameChips \in Nat /\ MaxRoom \in Nat
    BY FeederAssumption DEF TypeOK
  <2>2. take \in 1 .. FrameChips /\ take <= room /\ offset + take <= FrameChips
    <3>1. CASE room < left
      BY <2>0, <2>1, <3>1
    <3>2. CASE ~(room < left)
      BY <2>0, <2>1, <3>2
    <3> QED BY <3>1, <3>2
  <2>3. phase' \in 0 .. SymbolChips - 1
    BY <2>1, <2>2, PhaseType
  <2> HIDE DEF take
  <2>4. offset' \in 1 .. FrameChips /\ room' \in 0 .. MaxRoom
    <3>1. offset' = offset + take /\ room' = room - take
      BY <2>1
    <3> QED BY <2>0, <2>2, <3>1
  <2>7. /\ chipQueue' \in Seq(Frames) /\ Len(chipQueue') <= QueueSize
        /\ current' \in Frames \cup {NoFrame} /\ idling' \in BOOLEAN
    BY <1>4, <2>1 DEF TypeOK
  <2>8. offset' \in 0 .. FrameChips /\ offset' > 0 /\ offset' \in Nat
    BY <2>0, <2>4
  <2>9. current' # NoFrame /\ idling' = FALSE
    BY <2>1
  <2>5. CASE offset = 0
    <3> DEFINE new == [frame |-> current, at |-> phase, chips |-> take]
    <3>1. new \in SentFrames
      BY <1>4, <2>1, <2>2 DEF SentFrames, TypeOK
    <3>2. air' = Append(air, new)
      BY <2>1, <2>5
    <3>3. new.chips = take
      OBVIOUS
    <3> HIDE DEF new
    <3>4. /\ air' \in Seq(SentFrames) /\ Len(air') = Len(air) + 1
          /\ \A i \in 1 .. Len(air) : air'[i] = air[i]
          /\ air'[Len(air) + 1] = new
      BY <1>4, <3>1, <3>2, AppendProperties
    <3>5. Len(air) \in Nat
      BY <1>4, LenProperties
    <3>6. \A i \in 1 .. Len(air) : air[i].chips = FrameChips
      <4>1. SUFFICES ASSUME NEW i \in 1 .. Len(air) PROVE air[i].chips = FrameChips
        OBVIOUS
      <4>2. CASE i = Len(air)
        BY <2>5, <3>5, <4>2 DEF Pieces
      <4>3. CASE i \in 1 .. Len(air) - 1
        BY <4>3 DEF Pieces
      <4> QED BY <3>5, <4>2, <4>3
    <3>7. offset' = take
      BY <2>1, <2>2, <2>5
    <3>8. \A i \in 1 .. Len(air') - 1 : air'[i].chips = FrameChips
      BY <3>4, <3>5, <3>6
    <3>9. air' # <<>> /\ air'[Len(air')].chips = offset'
      BY <3>3, <3>4, <3>5, <3>7
    <3>10. Pieces'
      BY <2>8, <2>9, <3>8, <3>9, PiecesOf
    <3> QED BY <2>3, <2>4, <2>7, <2>8, <3>4, <3>10
  <2>6. CASE offset # 0
    <3> DEFINE n == Len(air)
               last == [air[n] EXCEPT !.chips = @ + take]
    <3>1. air # <<>> /\ n \in Nat \ {0}
      BY <1>4, <2>6, EmptySeq DEF Pieces, TypeOK
    <3>2. air[n] \in SentFrames /\ air[n].chips = offset
      BY <1>4, <2>6, <3>1, ElementOfSeq DEF Pieces
    <3>3. last \in SentFrames /\ last.chips = offset'
      BY <2>1, <2>4, <3>2 DEF SentFrames
    <3>4. air' = [air EXCEPT ![n] = last]
      BY <2>1, <2>6
    <3> HIDE DEF last
    <3>5. /\ air' \in Seq(SentFrames) /\ Len(air') = n
          /\ \A i \in 1 .. n : air'[i] = IF i = n THEN last ELSE air[i]
      BY <1>4, <3>1, <3>3, <3>4, ExceptSeq
    <3> HIDE DEF n
    <3>6. \A i \in 1 .. Len(air') - 1 : air'[i].chips = FrameChips
      BY <3>1, <3>5 DEF Pieces, n
    <3>7. air' # <<>> /\ air'[Len(air')].chips = offset'
      BY <3>1, <3>3, <3>5
    <3>8. Pieces'
      BY <2>8, <2>9, <3>6, <3>7, PiecesOf
    <3> QED BY <2>3, <2>4, <2>7, <2>8, <3>5, <3>8
  <2> QED BY <2>5, <2>6
<1>8. CASE WorkIdle
  <2>1. /\ Exhausted /\ room' = 0 /\ idling' = TRUE
        /\ phase' = (phase + room) % SymbolChips
        /\ UNCHANGED <<chipQueue, current, offset, air>>
    BY <1>8 DEF WorkIdle, IdleDue, Sent
  <2>4. room \in Nat /\ 0 \in 0 .. MaxRoom
    BY FeederAssumption DEF TypeOK
  <2>2. phase' \in 0 .. SymbolChips - 1
    BY <2>1, <2>4, PhaseType
  <2>3. offset \in {0, FrameChips}
    BY <2>1, FeederAssumption DEF Exhausted, Pieces, TypeOK
  <2>5. Output
    BY <1>4, <2>1, <2>2, <2>4 DEF TypeOK
  <2>6. Pieces'
    BY <2>1, <2>3 DEF Pieces
  <2> QED BY <2>5, <2>6
<1> QED BY <1>5, <1>6, <1>7, <1>8 DEF Source

LEMMA NextType == TypeInv /\ [Next]_vars => TypeInv'
<1>1. TypeInv /\ (Stop \/ StopStreaming \/ UNCHANGED vars) => TypeInv'
  <2> SUFFICES ASSUME TypeOK, Pieces, Counting,
                      Stop \/ StopStreaming \/ UNCHANGED vars
               PROVE  TypeInv'
    BY DEF TypeInv
  <2>1. UNCHANGED <<feeder, source, chipQueue>>
    BY DEF Stop, StopStreaming, vars, feeder, source
  <2>2. running' \in BOOLEAN /\ streaming' \in BOOLEAN
    BY DEF Stop, StopStreaming, vars, TypeOK
  <2>3. TypeOK'
    BY <2>1, <2>2 DEF TypeOK, feeder, source
  <2>4. Pieces' /\ Counting'
    BY <2>1 DEF Pieces, Counting, feeder, source
  <2> QED BY <2>3, <2>4 DEF TypeInv
<1> QED BY <1>1, FeederType, SourceType DEF Next

(***************************************************************************)
(* Every variable keeps its type: queue and buffer stay within their       *)
(* sizes, indices and counts within their ranges.                          *)
(***************************************************************************)
THEOREM TypeCorrect == Spec => []TypeOK
<1>1. TypeInv => TypeOK
  BY DEF TypeInv
<1> QED BY <1>1, InitType, NextType, PTL DEF Spec

(***************************************************************************)
(* FrameChipSource.work never breaks a frame off or pads it in the middle, *)
(* however long its output buffers and whenever the feeder puts a frame.   *)
(***************************************************************************)
THEOREM FramesStayInOnePiece == Spec => []FramesInOnePiece
<1>1. TypeInv => FramesInOnePiece
  <2> SUFFICES ASSUME TypeOK, Pieces PROVE FramesInOnePiece
    BY DEF TypeInv
  <2>1. idling /\ air # <<>> => air[Len(air)].chips = FrameChips
    BY DEF Pieces
  <2> QED BY <2>1 DEF FramesInOnePiece, Pieces
<1> QED BY <1>1, InitType, NextType, PTL DEF Spec

-----------------------------------------------------------------------------
(* What the unjoined feeder does after stop() *)

(* Nothing is late while it runs, and the feeder that has put a frame late *)
(* is past every put it could still do.                                    *)
Lateness ==
    /\ late <= 1
    /\ late = 1 => ~running /\ pc \notin {"putWarmup", "putOfficial"}

LEMMA NextLateness == TypeInv /\ Lateness /\ [Next]_vars => Lateness'
<1> SUFFICES ASSUME TypeOK, Lateness, [Next]_vars PROVE Lateness'
  BY DEF TypeInv
<1> DEFINE Putting == pc \in {"putWarmup", "putOfficial"}
<1>1. late \in Nat /\ running \in BOOLEAN
  BY DEF TypeOK
<1>2. CASE PutWarmup \/ PutOfficial
  <2>1. /\ Putting /\ late' = (IF running THEN late ELSE late + 1) /\ running' = running
        /\ pc' \in {"warmup", "announce"}
    BY <1>2 DEF PutWarmup, PutOfficial, Put
  <2>2. late = 0
    BY <1>1, <2>1 DEF Lateness
  <2>3. CASE running
    BY <2>1, <2>2, <2>3 DEF Lateness
  <2>4. CASE ~running
    BY <2>1, <2>2, <2>4 DEF Lateness
  <2> QED BY <2>3, <2>4
<1>3. CASE FeederWarmup \/ FeederOfficial
  <2>1. late' = late /\ running' = running
    BY <1>3 DEF FeederWarmup, FeederOfficial
  <2>2. ~running => pc' \notin {"putWarmup", "putOfficial"}
    BY <1>3 DEF FeederWarmup, FeederOfficial, StopSeen
  <2> QED BY <2>1, <2>2 DEF Lateness
<1>4. CASE FeederDelay \/ PutTimeout \/ Announce \/ CountFrame
  BY <1>4 DEF FeederDelay, PutTimeout, Announce, CountFrame, Lateness
<1>5. CASE Source \/ Stop \/ StopStreaming \/ UNCHANGED vars
  BY <1>5 DEF Source, WorkCall, WorkFetch, WorkCopy, WorkIdle, Stop, StopStreaming,
     vars, feeder, Lateness
<1> QED BY <1>2, <1>3, <1>4, <1>5 DEF Next, Feeder

(***************************************************************************)
(* stop() does not join the feeder, but whatever the feeder was doing when *)
(* the flag fell, at most one frame still enters the queue.                *)
(***************************************************************************)
THEOREM OneLateFrame == Spec => []AtMostOneLate
<1>1. Init => Lateness
  BY DEF Init, Lateness
<1>2. Lateness => AtMostOneLate
  BY DEF Lateness, AtMostOneLate
<1> QED BY <1>1, <1>2, InitType, NextType, NextLateness, PTL DEF Spec

-----------------------------------------------------------------------------
(* The order in which frames enter the queue and are announced *)

Early == pc \in {"delay", "warmup", "putWarmup"}

(* Official frames queued: the one in hand is queued before it is counted. *)
OfficialQueued == frameId + (IF pc \in {"announce", "count"} THEN 1 ELSE 0)

(* The first w frames queued are the warmup frames, the rest the official  *)
(* ones from #0 on.                                                        *)
WarmupPrefix(w) ==
    /\ \A i \in 1 .. w : queued[i].kind = "warmup"
    /\ \A i \in w + 1 .. Len(queued) : queued[i] = Official(i - w - 1)
    /\ Len(queued) = w + OfficialQueued
    /\ Early => w = Len(queued)

Ordered == \E w \in Nat : WarmupPrefix(w)

Announcing ==
    /\ Len(announced) = frameId + (IF pc = "count" THEN 1 ELSE 0)
    /\ \A i \in 1 .. Len(announced) : announced[i] = i - 1

LEMMA AppendOrdered ==
  ASSUME NEW s \in Seq(Frames), NEW f \in Frames, NEW t, t = Append(s, f)
  PROVE  /\ Len(s) \in Nat /\ Len(t) = Len(s) + 1 /\ t[Len(s) + 1] = f
         /\ \A i \in 1 .. Len(s) : t[i] = s[i]
  BY AppendProperties, LenProperties

LEMMA NextOrdered == TypeInv /\ Ordered /\ [Next]_vars => Ordered'
<1> SUFFICES ASSUME TypeOK, Counting, Ordered, [Next]_vars PROVE Ordered'
  BY DEF TypeInv
<1>1. PICK w \in Nat : WarmupPrefix(w)
  BY DEF Ordered
<1>2. /\ frameId \in Nat /\ warmupIdx \in Nat /\ queued \in Seq(Frames)
      /\ Len(queued) \in Nat
  BY LenProperties DEF TypeOK
<1>3. CASE PutWarmup
  <2> DEFINE f == Warmup(warmupIdx)
  <2>1. /\ pc = "putWarmup" /\ pc' = "warmup" /\ frameId' = frameId
        /\ queued' = Append(queued, f)
    BY <1>3 DEF PutWarmup, Put
  <2>2. f \in Frames /\ f.kind = "warmup"
    BY <1>2 DEF Warmup, Frames
  <2> HIDE DEF f
  <2>3. /\ Len(queued') = Len(queued) + 1 /\ queued'[Len(queued) + 1] = f
        /\ \A i \in 1 .. Len(queued) : queued'[i] = queued[i]
    BY <1>2, <2>1, <2>2, AppendOrdered
  <2>4. w = Len(queued) /\ frameId = 0
    BY <1>1, <1>2, <2>1 DEF WarmupPrefix, Early, OfficialQueued
  <2>5. OfficialQueued' = 0
    BY <2>1, <2>4 DEF OfficialQueued
  <2>6. \A i \in 1 .. w + 1 : queued'[i].kind = "warmup"
    BY <1>1, <1>2, <2>2, <2>3, <2>4 DEF WarmupPrefix
  <2>7. WarmupPrefix(w + 1)'
    BY <1>2, <2>3, <2>4, <2>5, <2>6 DEF WarmupPrefix
  <2> QED BY <1>2, <2>7 DEF Ordered
<1>4. CASE PutOfficial
  <2> DEFINE f == Official(frameId)
  <2>1. /\ pc = "putOfficial" /\ pc' = "announce" /\ frameId' = frameId
        /\ queued' = Append(queued, f)
    BY <1>4 DEF PutOfficial, Put
  <2>2. f \in Frames
    BY <1>2, OfficialType
  <2> HIDE DEF f
  <2>3. /\ Len(queued') = Len(queued) + 1 /\ queued'[Len(queued) + 1] = f
        /\ \A i \in 1 .. Len(queued) : queued'[i] = queued[i]
    BY <1>2, <2>1, <2>2, AppendOrdered
  <2>4. Len(queued) = w + frameId
    BY <1>1, <1>2, <2>1 DEF WarmupPrefix, OfficialQueued
  <2>5. OfficialQueued' = frameId + 1 /\ ~Early'
    BY <2>1 DEF OfficialQueued, Early
  <2>6. \A i \in w + 1 .. Len(queued') : queued'[i] = Official(i - w - 1)
    <3>1. SUFFICES ASSUME NEW i \in w + 1 .. Len(queued')
                   PROVE  queued'[i] = Official(i - w - 1)
      OBVIOUS
    <3>2. CASE i = Len(queued) + 1
      <4>1. i - w - 1 = frameId
        BY <1>2, <2>4, <3>2
      <4> QED BY <2>3, <3>2, <4>1 DEF f
    <3>3. CASE i # Len(queued) + 1
      <4>1. i \in 1 .. Len(queued) /\ i \in w + 1 .. Len(queued)
        BY <1>2, <2>3, <3>1, <3>3
      <4> QED BY <1>1, <2>3, <4>1 DEF WarmupPrefix
    <3> QED BY <3>2, <3>3
  <2>7. \A i \in 1 .. w : queued'[i].kind = "warmup"
    BY <1>1, <1>2, <2>3, <2>4 DEF WarmupPrefix
  <2>8. WarmupPrefix(w)'
    BY <1>2, <2>3, <2>4, <2>5, <2>6, <2>7 DEF WarmupPrefix
  <2> QED BY <2>8 DEF Ordered
<1>5. ASSUME queued' = queued, OfficialQueued' = OfficialQueued, Early' => Early
      PROVE  Ordered'
  <2>1. WarmupPrefix(w)'
    BY <1>1, <1>5 DEF WarmupPrefix
  <2> QED BY <2>1 DEF Ordered
<1>6. CASE CountFrame
  <2>1. /\ pc = "count" /\ pc' = "official" /\ frameId' = frameId + 1
        /\ queued' = queued
    BY <1>6 DEF CountFrame
  <2> QED BY <1>2, <1>5, <2>1 DEF OfficialQueued, Early
<1>7. CASE FeederDelay \/ FeederWarmup \/ FeederOfficial \/ PutTimeout \/ Announce
  <2>1. /\ queued' = queued /\ frameId' = frameId
        /\ pc \in {"announce", "count"} <=> pc' \in {"announce", "count"}
        /\ Early' => Early
    BY <1>7 DEF FeederDelay, FeederWarmup, FeederOfficial, PutTimeout, Announce, Early
  <2> QED BY <1>5, <2>1 DEF OfficialQueued
<1>8. CASE Source \/ Stop \/ StopStreaming \/ UNCHANGED vars
  <2>1. queued' = queued /\ frameId' = frameId /\ pc' = pc
    BY <1>8 DEF Source, WorkCall, WorkFetch, WorkCopy, WorkIdle, Stop, StopStreaming,
       vars, feeder
  <2> QED BY <1>5, <2>1 DEF OfficialQueued, Early
<1> QED BY <1>3, <1>4, <1>6, <1>7, <1>8 DEF Next, Feeder

LEMMA NextAnnouncing == TypeInv /\ Announcing /\ [Next]_vars => Announcing'
<1> SUFFICES ASSUME TypeOK, Announcing, [Next]_vars PROVE Announcing'
  BY DEF TypeInv
<1>1. frameId \in Nat /\ announced \in Seq(Nat) /\ Len(announced) \in Nat
  BY LenProperties DEF TypeOK
<1>2. CASE Announce
  <2>1. /\ pc = "announce" /\ pc' = "count" /\ frameId' = frameId
        /\ announced' = Append(announced, frameId)
    BY <1>2 DEF Announce
  <2>2. /\ Len(announced') = Len(announced) + 1
        /\ announced'[Len(announced) + 1] = frameId
        /\ \A i \in 1 .. Len(announced) : announced'[i] = announced[i]
    BY <1>1, <2>1, AppendProperties
  <2>3. Len(announced) = frameId
    BY <1>1, <2>1 DEF Announcing
  <2>4. \A i \in 1 .. Len(announced') : announced'[i] = i - 1
    <3>1. SUFFICES ASSUME NEW i \in 1 .. Len(announced') PROVE announced'[i] = i - 1
      OBVIOUS
    <3>2. CASE i = Len(announced) + 1
      BY <1>1, <2>2, <2>3, <3>2
    <3>3. CASE i # Len(announced) + 1
      <4>1. i \in 1 .. Len(announced)
        BY <1>1, <2>2, <3>3
      <4> QED BY <2>2, <4>1 DEF Announcing
    <3> QED BY <3>2, <3>3
  <2> QED BY <1>1, <2>1, <2>2, <2>3, <2>4 DEF Announcing
<1>3. CASE CountFrame
  BY <1>1, <1>3 DEF CountFrame, Announcing
<1>4. CASE FeederDelay \/ FeederWarmup \/ FeederOfficial \/ PutWarmup \/ PutOfficial
           \/ PutTimeout
  <2>1. announced' = announced /\ frameId' = frameId /\ pc # "count" /\ pc' # "count"
    BY <1>4 DEF FeederDelay, FeederWarmup, FeederOfficial, PutWarmup, PutOfficial,
       PutTimeout
  <2> QED BY <2>1 DEF Announcing
<1>5. CASE Source \/ Stop \/ StopStreaming \/ UNCHANGED vars
  <2>1. announced' = announced /\ frameId' = frameId /\ pc' = pc
    BY <1>5 DEF Source, WorkCall, WorkFetch, WorkCopy, WorkIdle, Stop, StopStreaming,
       vars, feeder
  <2> QED BY <2>1 DEF Announcing
<1> QED BY <1>2, <1>3, <1>4, <1>5 DEF Next, Feeder

LEMMA OrderInvariant == Spec => [](TypeInv /\ Ordered /\ Announcing)
<1>1. Init => Ordered /\ Announcing
  <2> SUFFICES ASSUME Init PROVE Ordered /\ Announcing
    OBVIOUS
  <2>1. Len(queued) = 0 /\ Len(announced) = 0 /\ OfficialQueued = 0
    BY DEF Init, OfficialQueued
  <2>2. WarmupPrefix(0)
    BY <2>1 DEF WarmupPrefix
  <2> QED BY <2>1, <2>2 DEF Ordered, Announcing, Init
<1> QED BY <1>1, InitType, NextType, NextOrdered, NextAnnouncing, PTL DEF Spec

(***************************************************************************)
(* Whatever bursts are dropped, puts time out and stops come, the queue    *)
(* gets warmup frames first and then official frames 0, 1, 2, ... .        *)
(***************************************************************************)
THEOREM OfficialsStayInOrder == Spec => []OfficialInOrder
<1>1. TypeInv /\ Ordered => OfficialInOrder
  <2> SUFFICES ASSUME TypeOK, Ordered, NEW i \in DOMAIN queued, NEW j \in DOMAIN queued
               PROVE  /\ i < j /\ queued[j].kind = "warmup" => queued[i].kind = "warmup"
                      /\ queued[i].kind = "official" =>
                            IF \E k \in 1 .. i - 1 : queued[k].kind = "official"
                            THEN queued[i - 1] = Official(queued[i].id - 1)
                            ELSE queued[i].id = 0
    BY DEF TypeInv, OfficialInOrder
  <2>1. PICK w \in Nat : WarmupPrefix(w)
    BY DEF Ordered
  <2>2. Len(queued) \in Nat /\ i \in 1 .. Len(queued) /\ j \in 1 .. Len(queued)
    BY LenProperties DEF TypeOK
  <2>3. ASSUME NEW k \in 1 .. Len(queued), k > w
        PROVE  queued[k] = Official(k - w - 1)
    <3>1. k \in w + 1 .. Len(queued)
      BY <2>2, <2>3
    <3> QED BY <2>1, <3>1 DEF WarmupPrefix
  <2>4. \A k \in 1 .. w : queued[k].kind = "warmup"
    BY <2>1 DEF WarmupPrefix
  <2>5. \A n : Official(n).kind = "official" /\ Official(n).id = n
    BY DEF Official
  <2>6. ASSUME i < j, queued[j].kind = "warmup" PROVE queued[i].kind = "warmup"
    <3>1. ~(j > w)
      BY <2>2, <2>3, <2>5, <2>6
    <3>2. i \in 1 .. w
      BY <2>2, <2>6, <3>1
    <3> QED BY <2>4, <3>2
  <2>7. ASSUME queued[i].kind = "official"
        PROVE  IF \E k \in 1 .. i - 1 : queued[k].kind = "official"
               THEN queued[i - 1] = Official(queued[i].id - 1)
               ELSE queued[i].id = 0
    <3>1. i > w
      <4>1. i \notin 1 .. w
        BY <2>4, <2>7
      <4> QED BY <2>2, <4>1
    <3>2. queued[i].id = i - w - 1
      BY <2>2, <2>3, <2>5, <3>1
    <3>3. CASE i = w + 1
      <4>1. \A k \in 1 .. i - 1 : queued[k].kind = "warmup"
        BY <2>4, <3>3
      <4>2. queued[i].id = 0
        BY <3>2, <3>3
      <4> QED BY <4>1, <4>2
    <3>4. CASE i > w + 1
      <4>1. i - 1 \in 1 .. Len(queued) /\ i - 1 > w
        BY <2>2, <3>4
      <4>2. queued[i - 1] = Official(i - 1 - w - 1)
        BY <2>3, <4>1
      <4>3. i - 1 - w - 1 = queued[i].id - 1
        BY <2>2, <3>2
      <4>4. queued[i - 1].kind = "official"
        BY <2>5, <4>2
      <4>5. i - 1 \in 1 .. i - 1
        BY <2>2, <4>1
      <4> QED BY <4>2, <4>3, <4>4, <4>5
    <3> QED BY <2>2, <3>1, <3>3, <3>4
  <2> QED BY <2>6, <2>7
<1> QED BY <1>1, OrderInvariant, PTL

(***************************************************************************)
(* The frame ids passed to the callback and frame_count report exactly the *)
(* official frames in the queue, one in hand apart, for every schedule.    *)
(***************************************************************************)
THEOREM AnnouncementsAreTrue == Spec => []AnnouncedAreQueued
<1>1. TypeInv /\ Ordered /\ Announcing => AnnouncedAreQueued
  <2> SUFFICES ASSUME TypeOK, Counting, Ordered, Announcing PROVE AnnouncedAreQueued
    BY DEF TypeInv
  <2> DEFINE official == {i \in DOMAIN queued : queued[i].kind = "official"}
  <2>1. PICK w \in Nat : WarmupPrefix(w)
    BY DEF Ordered
  <2>2. /\ frameId \in Nat /\ Len(queued) \in Nat /\ Len(announced) \in Nat
        /\ DOMAIN queued = 1 .. Len(queued) /\ DOMAIN announced = 1 .. Len(announced)
    BY LenProperties DEF TypeOK
  <2>3. \A n : Official(n).kind = "official" /\ Official(n).id = n
    BY DEF Official
  <2>4. /\ Len(queued) = w + OfficialQueued
        /\ \A i \in w + 1 .. Len(queued) : queued[i] = Official(i - w - 1)
        /\ \A i \in 1 .. w : queued[i].kind = "warmup"
    BY <2>1 DEF WarmupPrefix
  <2>5. /\ OfficialQueued \in Nat
        /\ Len(announced) <= OfficialQueued
        /\ OfficialQueued <= Len(announced) + (IF pc = "announce" THEN 1 ELSE 0)
    BY <2>2 DEF OfficialQueued, Announcing
  <2>6. ASSUME NEW i \in DOMAIN announced
        PROVE  announced[i] = i - 1 /\ \E j \in official : queued[j].id = i - 1
    <3>1. announced[i] = i - 1
      BY <2>2 DEF Announcing
    <3>2. w + i \in w + 1 .. Len(queued) /\ w + i \in DOMAIN queued /\ w + i - w - 1 = i - 1
      BY <2>2, <2>4, <2>5
    <3>3. queued[w + i].kind = "official" /\ queued[w + i].id = i - 1
      <4> DEFINE k == w + i
      <4>1. k \in w + 1 .. Len(queued) /\ k - w - 1 = i - 1
        BY <3>2
      <4> HIDE DEF k
      <4>2. queued[k] = Official(k - w - 1)
        BY <2>4, <4>1
      <4>3. queued[k].kind = "official" /\ queued[k].id = i - 1
        BY <2>3, <4>1, <4>2
      <4> QED BY <4>3 DEF k
    <3> QED BY <3>1, <3>2, <3>3
  <2>7. ASSUME NEW j \in official
        PROVE  queued[j].id < Len(announced) + (IF pc = "announce" THEN 1 ELSE 0)
    <3>1. j \in w + 1 .. Len(queued)
      BY <2>2, <2>4
    <3>2. queued[j].id = j - w - 1
      BY <2>3, <2>4, <3>1
    <3>3. queued[j].id < OfficialQueued
      BY <2>2, <2>4, <2>5, <3>1, <3>2
    <3> QED BY <2>2, <2>5, <3>1, <3>2, <3>3
  <2>8. frameCount = Len(announced) - (IF pc = "count" THEN 1 ELSE 0)
    BY <2>2 DEF Counting, Announcing
  <2> QED BY <2>6, <2>7, <2>8 DEF AnnouncedAreQueued
<1> QED BY <1>1, OrderInvariant, PTL

-----------------------------------------------------------------------------
(* Between the queue and the air *)

AirFrames == [i \in DOMAIN air |-> air[i].frame]

LEMMA FetchedType == TypeOK => Fetched \in Seq(Frames)
<1> SUFFICES ASSUME TypeOK PROVE Fetched \in Seq(Frames)
  OBVIOUS
<1>1. CASE current # NoFrame /\ offset = 0
  <2>1. current \in Frames
    BY <1>1 DEF TypeOK
  <2> QED BY <1>1, <2>1 DEF Fetched
<1>2. CASE ~(current # NoFrame /\ offset = 0)
  BY <1>2 DEF Fetched
<1> QED BY <1>1, <1>2

LEMMA FramesOf ==
  ASSUME NEW s \in Seq(SentFrames)
  PROVE  /\ [i \in DOMAIN s |-> s[i].frame] \in Seq(Frames)
         /\ Len([i \in DOMAIN s |-> s[i].frame]) = Len(s)
<1>1. Len(s) \in Nat /\ DOMAIN s = 1 .. Len(s)
  BY LenProperties
<1>2. \A i \in 1 .. Len(s) : s[i].frame \in Frames
  <2>1. \A i \in 1 .. Len(s) : s[i] \in SentFrames
    BY ElementOfSeq
  <2>2. \A x \in SentFrames : x.frame \in Frames
    BY DEF SentFrames
  <2> QED BY <2>1, <2>2
<1>3. [i \in 1 .. Len(s) |-> s[i].frame] \in [1 .. Len(s) -> Frames]
  BY <1>2
<1> QED BY <1>1, <1>3

LEMMA FramesOfAppend ==
  ASSUME NEW s \in Seq(SentFrames), NEW new \in SentFrames, NEW t, t = Append(s, new)
  PROVE  [i \in DOMAIN t |-> t[i].frame]
             = [i \in DOMAIN s |-> s[i].frame] \o <<new.frame>>
<1> DEFINE a == [i \in DOMAIN s |-> s[i].frame]
           b == [i \in DOMAIN t |-> t[i].frame]
<1>1. t \in Seq(SentFrames) /\ Len(t) = Len(s) + 1 /\ t[Len(s) + 1] = new
      /\ \A i \in 1 .. Len(s) : t[i] = s[i]
  BY AppendProperties
<1>2. a \in Seq(Frames) /\ Len(a) = Len(s) /\ b \in Seq(Frames) /\ Len(b) = Len(t)
  BY <1>1, FramesOf
<1>3. Len(s) \in Nat /\ DOMAIN s = 1 .. Len(s) /\ DOMAIN t = 1 .. Len(s) + 1
  BY <1>1, LenProperties
<1>4. <<new.frame>> \in Seq(Frames) /\ Len(<<new.frame>>) = 1
      /\ <<new.frame>>[1] = new.frame
  BY DEF SentFrames
<1>5. \A i \in 1 .. Len(s) : a[i] = s[i].frame /\ b[i] = s[i].frame
  BY <1>1, <1>3
<1>6. b[Len(s) + 1] = new.frame
  BY <1>1, <1>3
<1> HIDE DEF a, b
<1> DEFINE c == a \o <<new.frame>>
<1>7. c \in Seq(Frames) /\ Len(c) = Len(s) + 1
      /\ \A i \in 1 .. Len(s) + 1 :
            c[i] = IF i <= Len(s) THEN a[i] ELSE <<new.frame>>[i - Len(s)]
  BY <1>2, <1>4, ConcatProperties
<1> HIDE DEF c
<1>8. \A i \in 1 .. Len(b) : b[i] = c[i]
  <2>1. SUFFICES ASSUME NEW i \in 1 .. Len(s) + 1 PROVE b[i] = c[i]
    BY <1>1, <1>2
  <2>2. CASE i <= Len(s)
    BY <1>3, <1>5, <1>7, <2>2
  <2>3. CASE i = Len(s) + 1
    <3>1. i - Len(s) = 1 /\ ~(i <= Len(s))
      BY <1>3, <2>3
    <3>2. c[i] = <<new.frame>>[i - Len(s)]
      BY <1>7, <3>1
    <3> QED BY <1>4, <1>6, <2>3, <3>1, <3>2
  <2> QED BY <1>3, <2>2, <2>3
<1>9. b = c
  BY <1>1, <1>2, <1>7, <1>8, SeqEqual
<1> QED BY <1>9 DEF b, c, a

LEMMA FramesOfExcept ==
  ASSUME NEW s \in Seq(SentFrames), NEW n \in 1 .. Len(s),
         NEW last \in SentFrames, last.frame = s[n].frame,
         NEW t, t = [s EXCEPT ![n] = last]
  PROVE  [i \in DOMAIN t |-> t[i].frame] = [i \in DOMAIN s |-> s[i].frame]
<1>1. t \in Seq(SentFrames) /\ Len(t) = Len(s)
      /\ \A i \in 1 .. Len(s) : t[i] = IF i = n THEN last ELSE s[i]
  BY ExceptSeq
<1>2. DOMAIN s = 1 .. Len(s) /\ DOMAIN t = 1 .. Len(s)
  BY <1>1, LenProperties
<1>3. \A i \in 1 .. Len(s) : t[i].frame = s[i].frame
  BY <1>1
<1> QED BY <1>2, <1>3

LEMMA HeadFirst ==
  ASSUME NEW s \in Seq(Frames), s # <<>>
  PROVE  s = <<Head(s)>> \o Tail(s)
<1>1. Len(s) \in Nat /\ Len(s) >= 1 /\ 1 \in 1 .. Len(s) /\ Len(s) \in 1 .. Len(s)
  BY EmptySeq
<1>2. SubSeq(s, 1, Len(s)) = <<s[1]>> \o SubSeq(s, 2, Len(s))
  <2>1. SubSeq(s, 1, Len(s)) = <<s[1]>> \o SubSeq(s, 1 + 1, Len(s))
    BY <1>1, SubSeqRecursiveFirst
  <2> QED BY <2>1
<1>3. Tail(s) = SubSeq(s, 2, Len(s)) /\ Head(s) = s[1]
  BY TailIsSubSeq
<1> QED BY <1>2, <1>3, SubSeqFull

LEMMA FramesRegroup ==
  ASSUME NEW a \in Seq(Frames), NEW b \in Seq(Frames), NEW c \in Seq(Frames)
  PROVE  (a \o b) \o c = a \o (b \o c)
  BY ConcatAssociative

LEMMA NextConserved == TypeInv /\ FramesConserved /\ [Next]_vars => FramesConserved'
<1> SUFFICES ASSUME TypeOK, Pieces, FramesConserved, [Next]_vars PROVE FramesConserved'
  BY DEF TypeInv
<1>1. AirFrames \o Fetched \o chipQueue = queued
  BY DEF FramesConserved, AirFrames
<1>2. /\ air \in Seq(SentFrames) /\ chipQueue \in Seq(Frames) /\ queued \in Seq(Frames)
      /\ AirFrames \in Seq(Frames) /\ Fetched \in Seq(Frames)
  BY FetchedType, FramesOf DEF TypeOK, SentFrames, AirFrames
<1>3. SUFFICES AirFrames' \o Fetched' \o chipQueue' = queued'
  BY DEF FramesConserved, AirFrames
<1>4. ASSUME AirFrames' = AirFrames, Fetched' = Fetched, chipQueue' = chipQueue,
             queued' = queued
      PROVE  AirFrames' \o Fetched' \o chipQueue' = queued'
  BY <1>1, <1>4
<1>5. ASSUME NEW f \in Frames, AirFrames' = AirFrames, Fetched' = Fetched, Put(f)
      PROVE  AirFrames' \o Fetched' \o chipQueue' = queued'
  <2> DEFINE front == AirFrames \o Fetched
  <2>1. chipQueue' = Append(chipQueue, f) /\ queued' = Append(queued, f)
    BY <1>5 DEF Put
  <2>2. front \in Seq(Frames) /\ front \o chipQueue = queued /\ <<f>> \in Seq(Frames)
    BY <1>1, <1>2, ConcatProperties
  <2>3. AirFrames' \o Fetched' = front
    BY <1>5
  <2> DEFINE one == <<f>>
  <2>4. Append(chipQueue, f) = chipQueue \o one /\ Append(queued, f) = queued \o one
    BY <1>2, AppendIsConcat
  <2>6. front \in Seq(Frames) /\ chipQueue \in Seq(Frames) /\ one \in Seq(Frames)
    BY <1>2, <2>2
  <2> HIDE DEF front, one
  <2>5. (front \o chipQueue) \o one = front \o (chipQueue \o one)
    BY <2>6, FramesRegroup
  <2> QED BY <2>1, <2>2, <2>3, <2>4, <2>5
<1>6. CASE PutWarmup \/ PutOfficial
  <2>1. UNCHANGED <<current, offset, air>>
    BY <1>6 DEF PutWarmup, PutOfficial, source
  <2>2. AirFrames' = AirFrames /\ Fetched' = Fetched
    BY <2>1 DEF AirFrames, Fetched
  <2>3. CASE PutWarmup
    <3>1. Warmup(warmupIdx) \in Frames
      BY WarmupType DEF TypeOK
    <3> QED BY <1>5, <2>2, <2>3, <3>1 DEF PutWarmup
  <2>4. CASE PutOfficial
    <3>1. Official(frameId) \in Frames
      BY OfficialType DEF TypeOK
    <3> QED BY <1>5, <2>2, <2>4, <3>1 DEF PutOfficial
  <2> QED BY <1>6, <2>3, <2>4
<1>7. CASE FeederDelay \/ FeederWarmup \/ FeederOfficial \/ PutTimeout \/ Announce
           \/ CountFrame \/ WorkCall \/ WorkIdle \/ Stop \/ StopStreaming
           \/ UNCHANGED vars
  <2>1. UNCHANGED <<current, offset, air, chipQueue, queued>>
    BY <1>7 DEF FeederDelay, FeederWarmup, FeederOfficial, PutTimeout, Announce,
       CountFrame, WorkCall, WorkIdle, Stop, StopStreaming, vars, source, feeder
  <2>2. AirFrames' = AirFrames /\ Fetched' = Fetched
    BY <2>1 DEF AirFrames, Fetched
  <2> QED BY <1>4, <2>1, <2>2
<1>8. CASE WorkFetch
  <2>1. /\ Exhausted /\ chipQueue # <<>> /\ current' = Head(chipQueue) /\ offset' = 0
        /\ chipQueue' = Tail(chipQueue) /\ air' = air /\ queued' = queued
    BY <1>8 DEF WorkFetch, feeder
  <2>2. ~(current # NoFrame /\ offset = 0)
    BY <2>1, FeederAssumption DEF Exhausted
  <2>3. Head(chipQueue) \in Frames
    BY <1>2, <2>1, HeadTailProperties
  <2>4. Head(chipQueue) # NoFrame
    BY <2>3 DEF Frames, NoFrame
  <2>5. Fetched = <<>> /\ Fetched' = <<Head(chipQueue)>> /\ AirFrames' = AirFrames
    BY <2>1, <2>2, <2>4 DEF Fetched, AirFrames
  <2>6. AirFrames \o <<>> = AirFrames
    BY <1>2, ConcatEmptySeq
  <2>7. /\ <<Head(chipQueue)>> \in Seq(Frames) /\ Tail(chipQueue) \in Seq(Frames)
        /\ chipQueue = <<Head(chipQueue)>> \o Tail(chipQueue)
    BY <1>2, <2>1, <2>3, HeadFirst, HeadTailProperties
  <2>8. AirFrames \o chipQueue = queued
    BY <1>1, <2>5, <2>6
  <2>9. (AirFrames \o <<Head(chipQueue)>>) \o Tail(chipQueue)
            = AirFrames \o (<<Head(chipQueue)>> \o Tail(chipQueue))
    BY <1>2, <2>7, FramesRegroup
  <2> QED BY <2>1, <2>5, <2>7, <2>8, <2>9
<1>9. CASE WorkCopy
  <2> DEFINE left == FrameChips - offset
             take == IF room < left THEN room ELSE left
  <2>0. /\ room \in Nat /\ offset \in Nat /\ FrameChips \in Nat
    BY FeederAssumption DEF TypeOK
  <2>1. /\ room > 0 /\ current # NoFrame /\ offset < FrameChips
        /\ offset' = offset + take
        /\ air' = IF offset = 0
                  THEN Append(air, [frame |-> current, at |-> phase, chips |-> take])
                  ELSE [air EXCEPT ![Len(air)].chips = @ + take]
        /\ UNCHANGED <<chipQueue, current, queued>>
    BY <1>9, FeederAssumption DEF WorkCopy, Exhausted, TypeOK, feeder
  <2>2. take \in 1 .. FrameChips /\ take \in Nat /\ offset + take \in 1 .. FrameChips
    <3>1. CASE room < left
      BY <2>0, <2>1, <3>1
    <3>2. CASE ~(room < left)
      BY <2>0, <2>1, <3>2
    <3> QED BY <3>1, <3>2
  <2> HIDE DEF take
  <2>3. offset' # 0 /\ current \in Frames
    BY <2>0, <2>1, <2>2 DEF TypeOK
  <2>4. Fetched' = <<>>
    BY <2>3 DEF Fetched
  <2>5. CASE offset = 0
    <3> DEFINE new == [frame |-> current, at |-> phase, chips |-> take]
    <3>1. new \in SentFrames /\ new.frame = current /\ air' = Append(air, new)
      BY <2>1, <2>2, <2>3, <2>5 DEF SentFrames, TypeOK
    <3> HIDE DEF new
    <3>2. AirFrames' = AirFrames \o <<current>>
      BY <1>2, <3>1, FramesOfAppend DEF AirFrames
    <3>3. Fetched = <<current>>
      BY <2>1, <2>5 DEF Fetched
    <3>4. AirFrames' \in Seq(Frames)
      <4>1. <<current>> \in Seq(Frames)
        BY <2>3
      <4> QED BY <1>2, <3>2, <4>1, ConcatProperties
    <3>5. AirFrames' \o <<>> = AirFrames'
      BY <3>4, ConcatEmptySeq
    <3> QED BY <1>1, <2>1, <2>4, <3>2, <3>3, <3>5
  <2>6. CASE offset # 0
    <3> DEFINE n == Len(air)
               last == [air[n] EXCEPT !.chips = @ + take]
    <3>1. n \in Nat \ {0} /\ n \in 1 .. Len(air)
      BY <1>2, <2>0, <2>6, EmptySeq DEF Pieces
    <3>2. air[n] \in SentFrames /\ air[n].chips = offset
      BY <1>2, <2>6, <3>1, ElementOfSeq DEF Pieces
    <3>3. last \in SentFrames /\ last.frame = air[n].frame
      BY <2>2, <3>2 DEF SentFrames
    <3>4. air' = [air EXCEPT ![n] = last]
      BY <2>1, <2>6
    <3> HIDE DEF last, n
    <3>5. AirFrames' = AirFrames
      BY <1>2, <3>1, <3>3, <3>4, FramesOfExcept DEF AirFrames
    <3>6. Fetched = <<>>
      BY <2>6 DEF Fetched
    <3> QED BY <1>4, <2>1, <2>4, <3>5, <3>6
  <2> QED BY <2>5, <2>6
<1> QED BY <1>6, <1>7, <1>8, <1>9 DEF Next, Feeder, Source

(***************************************************************************)
(* FrameChipSource sends the frames of the queue, each once and in order,  *)
(* for every interleaving of the feeder, work() and stop().                *)
(***************************************************************************)
THEOREM NoFrameLost == Spec => []FramesConserved
<1>1. Init => FramesConserved
  BY DEF Init, FramesConserved, Fetched
<1> QED BY <1>1, InitType, NextType, NextConserved, PTL DEF Spec

-----------------------------------------------------------------------------
(* What keeps frames on symbol boundaries *)

LEMMA RemainderOfSum ==
  ASSUME NEW a \in Nat, NEW n \in Nat
  PROVE  ((a % SymbolChips) + n) % SymbolChips = (a + n) % SymbolChips
<1> DEFINE S == SymbolChips
           q == a \div S
           r == a % S
           k == (r + n) \div S
           u == (r + n) % S
<1>1. S \in Nat \ {0}
  BY FeederAssumption
<1>2. q \in Nat /\ r \in 0 .. S - 1 /\ a = S * q + r
  BY <1>1, Quotient
<1>3. k \in Nat /\ u \in 0 .. S - 1 /\ r + n = S * k + u
  <2>1. r + n \in Nat
    <3> HIDE DEF r, S
    <3> QED BY <1>1, <1>2
  <2> QED BY <1>1, <2>1, Quotient
<1> HIDE DEF S, q, r, k, u
<1>4. a + n = (q + k) * S + u
  BY <1>1, <1>2, <1>3
<1>5. (a + n) % S = u
  <2>1. q + k \in Int
    BY <1>2, <1>3
  <2> QED BY <1>1, <1>3, <1>4, <2>1, DivisionUnique
<1> QED BY <1>5 DEF S, r, u

LEMMA RemainderOfSmall ==
  ASSUME NEW n \in 0 .. SymbolChips - 1
  PROVE  n % SymbolChips = n
<1>1. SymbolChips \in Nat \ {0} /\ 0 \in Int /\ 0 * SymbolChips + n = n
  BY FeederAssumption
<1> QED BY <1>1, DivisionUnique

(* The symbol phase is that of the place in the frame, and the rest of the *)
(* output buffer ends on a boundary.                                       *)
Aligned ==
    /\ phase = offset % SymbolChips
    /\ (phase + room) % SymbolChips = 0
    /\ FramesOnSymbolBoundary

LEMMA BoundaryWhereExhausted ==
  ASSUME TypeInv, Aligned, Exhausted
  PROVE  phase = 0 /\ offset % SymbolChips = 0
<1>1. offset = 0 \/ offset = FrameChips
  BY FeederAssumption DEF TypeInv, TypeOK, Pieces, Exhausted
<1>2. 0 % SymbolChips = 0
  BY RemainderOfSmall, FeederAssumption
<1> QED BY <1>1, <1>2, FeederAssumption DEF Aligned

LEMMA NextAligned ==
  ASSUME TypeInv, Aligned, [Next]_vars, WorkCall => room' % SymbolChips = 0
  PROVE  Aligned'
<1> DEFINE S == SymbolChips
<1>1. /\ S \in Nat \ {0} /\ phase \in 0 .. S - 1 /\ room \in Nat /\ offset \in Nat
      /\ air \in Seq(SentFrames)
  BY FeederAssumption DEF TypeInv, TypeOK, SentFrames
<1>2. 0 % S = 0
  BY <1>1, RemainderOfSmall
<1>3. CASE UNCHANGED <<phase, offset, room, air>>
  BY <1>3 DEF Aligned, FramesOnSymbolBoundary
<1>4. CASE WorkCall
  <2>1. room = 0 /\ room' \in Nat /\ room' % S = 0 /\ UNCHANGED <<phase, offset, air>>
    <3>1. room' % S = 0
      BY <1>4
    <3>2. room = 0 /\ room' \in 1 .. MaxRoom /\ UNCHANGED <<phase, offset, air>>
      BY <1>4 DEF WorkCall
    <3>3. 1 .. MaxRoom \subseteq Nat
      BY FeederAssumption
    <3> QED BY <3>1, <3>2, <3>3
  <2>2. phase + room = phase
    BY <1>1, <2>1
  <2>3. phase = 0
    BY <1>1, <2>2, RemainderOfSmall DEF Aligned
  <2>4. phase' + room' = room'
    <3>1. ASSUME NEW f, NEW r \in Nat, f = 0 PROVE f + r = r
      BY <3>1
    <3>2. phase' = 0 /\ room' \in Nat
      BY <2>1, <2>3
    <3> QED BY <3>1, <3>2
  <2> QED BY <2>1, <2>4 DEF Aligned, FramesOnSymbolBoundary
<1>5. CASE WorkFetch
  <2>1. Exhausted /\ offset' = 0 /\ UNCHANGED <<phase, room, air>>
    BY <1>5 DEF WorkFetch
  <2>2. phase = 0
    BY <2>1, BoundaryWhereExhausted
  <2> QED BY <1>2, <2>1, <2>2 DEF Aligned, FramesOnSymbolBoundary
<1>6. CASE WorkIdle
  <2>1. /\ Exhausted /\ room' = 0 /\ phase' = (phase + room) % S
        /\ UNCHANGED <<offset, air>>
    BY <1>6 DEF WorkIdle, IdleDue, Sent
  <2>2. offset % S = 0 /\ phase' = 0 /\ phase' + room' = 0
    BY <2>1, BoundaryWhereExhausted DEF Aligned
  <2> QED BY <1>2, <2>1, <2>2 DEF Aligned, FramesOnSymbolBoundary
<1>7. CASE WorkCopy
  <2> DEFINE left == FrameChips - offset
             take == IF room < left THEN room ELSE left
             piece == [frame |-> current, at |-> phase, chips |-> take]
  <2>1. /\ offset' = offset + take /\ room' = room - take /\ phase' = (phase + take) % S
        /\ air' = IF offset = 0 THEN Append(air, piece)
                  ELSE [air EXCEPT ![Len(air)].chips = @ + take]
    BY <1>7 DEF WorkCopy, Sent
  <2>2. take \in Nat /\ room - take \in Nat
    <3>1. ~ (offset >= FrameChips)
      BY <1>7 DEF WorkCopy, Exhausted
    <3> QED BY <1>1, <3>1, FeederAssumption
  <2>3. \A i \in DOMAIN air' : air'[i].at = 0
    <3>1. \A i \in DOMAIN air : air[i].at = 0
      BY DEF Aligned, FramesOnSymbolBoundary
    <3>2. CASE offset = 0
      <4>1. piece.at = 0
        BY <1>2, <3>2 DEF Aligned
      <4> HIDE DEF piece
      <4>2. air' = Append(air, piece)
        BY <2>1, <3>2
      <4>3. /\ Len(air) \in Nat /\ DOMAIN air = 1 .. Len(air)
            /\ DOMAIN air' = 1 .. Len(air) + 1
            /\ air'[Len(air) + 1] = piece /\ \A i \in 1 .. Len(air) : air'[i] = air[i]
        BY <1>1, <4>2
      <4>4. ASSUME NEW i \in DOMAIN air' PROVE i \in 1 .. Len(air) \/ i = Len(air) + 1
        BY <4>3
      <4> QED BY <3>1, <4>1, <4>3, <4>4
    <3>3. CASE offset # 0
      <4> DEFINE n == Len(air)
                 more == [air[n] EXCEPT !.chips = @ + take]
      <4>1. air' = [air EXCEPT ![n] = more]
        BY <2>1, <3>3
      <4>2. DOMAIN air' = DOMAIN air
        BY <4>1
      <4>3. ASSUME NEW i \in DOMAIN air PROVE air'[i].at = 0
        <5>1. CASE i # n
          BY <3>1, <4>1, <5>1
        <5>2. CASE i = n
          <6>1. air[n] \in SentFrames
            BY <1>1, <5>2
          <6>2. more.at = air[n].at
            BY <6>1 DEF SentFrames
          <6> HIDE DEF more
          <6> QED BY <3>1, <4>1, <5>2, <6>2
        <5> QED BY <5>1, <5>2
      <4> QED BY <4>2, <4>3
    <3> QED BY <3>2, <3>3
  <2> HIDE DEF take
  <2>4. phase' = offset' % S
    BY <1>1, <2>1, <2>2, RemainderOfSum DEF Aligned
  <2>5. (phase' + room') % S = 0
    <3> DEFINE rest == room - take
               now == phase + take
    <3>1. now \in Nat /\ rest \in Nat /\ now + rest = phase + room
      BY <1>1, <2>2
    <3>2. phase' = now % S /\ room' = rest
      BY <2>1
    <3> HIDE DEF now, rest
    <3>3. (phase' + room') % S = (now + rest) % S
      BY <3>1, <3>2, RemainderOfSum
    <3> QED BY <3>1, <3>3 DEF Aligned
  <2> QED BY <2>3, <2>4, <2>5 DEF Aligned, FramesOnSymbolBoundary
<1>8. Feeder \/ Stop \/ StopStreaming \/ UNCHANGED vars => UNCHANGED <<phase, offset, room, air>>
  BY DEF Feeder, FeederDelay, FeederWarmup, FeederOfficial, PutWarmup, PutOfficial,
     PutTimeout, Announce, CountFrame, Stop, StopStreaming, source, vars
<1> QED BY <1>3, <1>4, <1>5, <1>6, <1>7, <1>8 DEF Next, Source

(***************************************************************************)
(* What validate_runtime_frame_alignment leaves to chance: that no frame   *)
(* is split across symbols, as runtime_modulation.py:23 asks, it ensures   *)
(* only together with output buffers of whole symbols.  Where work() gets  *)
(* such buffers, the idle chips it pads them with shift no frame, whenever *)
(* the feeder is late.                                                     *)
(***************************************************************************)
THEOREM WholeSymbolBuffers ==
    Spec /\ [][WorkCall => room' % SymbolChips = 0]_vars => []FramesOnSymbolBoundary
<1>1. Init => Aligned
  <2>1. 0 % SymbolChips = 0
    BY RemainderOfSmall, FeederAssumption
  <2> QED BY <2>1 DEF Init, Aligned, FramesOnSymbolBoundary
<1>2. TypeInv /\ Aligned /\ [Next]_vars /\ [WorkCall => room' % SymbolChips = 0]_vars => Aligned'
  <2> SUFFICES ASSUME TypeInv, Aligned, [Next]_vars, [WorkCall => room' % SymbolChips = 0]_vars
               PROVE  Aligned'
    OBVIOUS
  <2>1. CASE UNCHANGED vars
    BY <2>1 DEF Aligned, FramesOnSymbolBoundary, vars
  <2>2. CASE WorkCall => room' % SymbolChips = 0
    BY <2>2, NextAligned
  <2> QED BY <2>1, <2>2
<1>3. Aligned => FramesOnSymbolBoundary
  BY DEF Aligned
<1> QED BY <1>1, <1>2, <1>3, InitType, NextType, PTL DEF Spec

=============================================================================
