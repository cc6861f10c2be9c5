--------------------------- MODULE FrameSinkProofs ---------------------------
(***************************************************************************)
(* Proofs about FrameSink.tla, for every preamble length, frame length,    *)
(* queue size, chunk size, stream length and set of signals.               *)
(***************************************************************************)
EXTENDS FrameSink, SequenceTheorems, TLAPS

\* While searching, the buffer is the last stretch of the stream and holds
\* all the chips that came since the last search.
BufferIsTail ==
    /\ buf.lo <= buf.hi
    /\ state = "SEARCHING" => buf.hi = pos /\ newSamples <= Count(buf)

\* While collecting, the frame so far is the stretch of the stream from the
\* end of the preamble to the last chip received.
CollectIsTail ==
    /\ state = "COLLECTING" =>
          /\ Strong(peak)
          /\ collect = Chips(peak + PreLen, peak + PreLen + collectIdx)
          /\ pos = peak + PreLen + collectIdx
          /\ newSamples = 0
    /\ state = "SEARCHING" => collectIdx = 0

\* Frames already dispatched end before the part still undecided.
DispatchedBehind ==
    \A i \in DOMAIN dispatched :
        dispatched[i].hi <= IF state = "SEARCHING" THEN buf.lo ELSE peak

IInv ==
    /\ TypeOK
    /\ BufferIsTail
    /\ CollectIsTail
    /\ FrameExtent
    /\ FramesDisjoint
    /\ DispatchedBehind

-----------------------------------------------------------------------------

LEMMA InitIInv == Init => IInv
  <1> SUFFICES ASSUME Init PROVE IInv
    OBVIOUS
  <1>1. TypeOK
    BY SinkAssumption DEF Init, TypeOK, Chips, NoFrame, Frames
  <1>2. BufferIsTail /\ CollectIsTail /\ FrameExtent /\ FramesDisjoint
        /\ DispatchedBehind
    BY SinkAssumption DEF Init, BufferIsTail, CollectIsTail, FrameExtent,
       FramesDisjoint, DispatchedBehind, Chips, Count
  <1> QED BY <1>1, <1>2 DEF IInv

\* The effect of handing _fill_collect the run c, which ends at the last chip
\* received and starts where the frame of the preamble at p is to go on.
LEMMA FillCollectStep ==
  ASSUME IInv, NEW lo \in Nat, NEW idx \in 0 .. DataChips - 1, NEW held,
         NEW p \in Nat, NEW b,
         Strong(p), corr' = corr, pos' \in 0 .. StreamLen, lo <= pos',
         lo = p + PreLen + idx,
         held = Chips(p + PreLen, p + PreLen + idx) \/ (idx = 0 /\ Count(held) = 0),
         b = Chips(b.lo, b.hi), b.lo \in Nat, b.hi \in Nat, b.lo <= b.hi,
         newSamples' = 0, peak' = p,
         \A i \in DOMAIN dispatched : dispatched[i].hi <= p,
         FillCollect(Chips(lo, pos'), idx, held, p, b)
  PROVE  IInv'
  <1> DEFINE c    == Chips(lo, pos')
             room == DataChips - idx
             take == IF Count(c) < room THEN Count(c) ELSE room
             got  == Concat(held, Chips(c.lo, c.lo + take))
             f    == Frame(got, p)
  <1>1. /\ take \in Nat /\ lo + take <= pos' /\ take <= room
        /\ got = Chips(p + PreLen, lo + take)
        /\ c.lo = lo /\ c.hi = pos'
    BY SinkAssumption DEF Concat, Chips, Count
  <1>2. CASE idx + take >= DataChips
    <2>1. /\ take = room
          /\ f = [lo |-> p + PreLen, hi |-> p + FrameChips, phase |-> p, snr |-> p]
          /\ f \in Frames
      BY <1>1, <1>2, SinkAssumption DEF Frame, Chips, FrameChips, Frames
    <2>2. /\ Dispatch(f)
          /\ buf' = Chips(lo + take, pos')
          /\ state' = "SEARCHING"
          /\ collectIdx' = 0
          /\ collect' = Chips(0, 0)
      BY <1>1, <1>2 DEF FillCollect, Leftover
    <2>3. /\ lo + take = p + FrameChips
          /\ p + FrameChips \in Nat
          /\ p + FrameChips <= pos'
      BY <1>1, <2>1, SinkAssumption DEF FrameChips
    <2>4. f.lo = p + PreLen /\ f.hi = p + FrameChips /\ f.phase = p /\ f.snr = p
      BY <2>1
    <2> HIDE DEF c, room, take, got, f
    <2>5. dispatched \in Seq(Frames) /\ dispatched' = Append(dispatched, f)
      BY <2>2 DEF IInv, TypeOK, Dispatch
    <2>6. /\ dispatched' \in Seq(Frames)
          /\ Len(dispatched) \in Nat
          /\ DOMAIN dispatched = 1 .. Len(dispatched)
          /\ DOMAIN dispatched' = 1 .. Len(dispatched) + 1
      BY <2>1, <2>5, AppendProperties, LenProperties
    <2>7. dispatched'[Len(dispatched) + 1] = f
      BY <2>1, <2>5, AppendProperties
    <2>8. \A i \in 1 .. Len(dispatched) : dispatched'[i] = dispatched[i]
      BY <2>1, <2>5, AppendProperties
    <2>9. dispatchQueue' \in Seq(Frames) /\ Len(dispatchQueue') <= QueueSize
      <3>1. /\ dispatchQueue \in Seq(Frames) /\ Len(dispatchQueue) <= QueueSize
            /\ Append(dispatchQueue, f) \in Seq(Frames)
            /\ Len(Append(dispatchQueue, f)) = Len(dispatchQueue) + 1
            /\ Len(dispatchQueue) \in Nat
        BY <2>1, AppendProperties DEF IInv, TypeOK
      <3> QED BY <3>1, <2>2, SinkAssumption DEF Dispatch, Offer
    <2>10. TypeOK'
      <3>1. /\ corr' \in [Offsets -> Nat] /\ framesReceived' \in Nat
            /\ worker' \in Frames /\ delivered' \in Seq(Frames)
        BY <2>2 DEF IInv, TypeOK, Dispatch
      <3>2. buf' \in [lo : Nat, hi : Nat] /\ collect' \in [lo : Nat, hi : Nat]
        BY <2>2, <2>3 DEF Chips
      <3> QED BY <2>2, <2>6, <2>9, <3>1, <3>2, SinkAssumption DEF TypeOK
    <2>11. BufferIsTail' /\ CollectIsTail'
      BY <2>2, <2>3 DEF BufferIsTail, CollectIsTail, Chips, Count
    <2>12. \A i \in 1 .. Len(dispatched) :
             dispatched[i].hi \in Nat /\ dispatched[i].hi <= p
      <3>1. \A i \in 1 .. Len(dispatched) : dispatched[i] \in Frames
        BY ElementOfSeq DEF IInv, TypeOK
      <3> QED BY <3>1, <2>6 DEF Frames
    <2>13. FrameExtent'
      <3> SUFFICES ASSUME NEW i \in 1 .. Len(dispatched) + 1
                   PROVE  /\ Strong(dispatched'[i].phase)
                          /\ dispatched'[i].snr = dispatched'[i].phase
                          /\ dispatched'[i].lo = dispatched'[i].phase + PreLen
                          /\ dispatched'[i].hi = dispatched'[i].lo + DataChips
        BY <2>6 DEF FrameExtent, Strong
      <3>1. CASE i = Len(dispatched) + 1
        BY <3>1, <2>4, <2>7, SinkAssumption DEF Strong, FrameChips
      <3>2. CASE i \in 1 .. Len(dispatched)
        BY <3>2, <2>6, <2>8 DEF IInv, FrameExtent, Strong
      <3> QED BY <3>1, <3>2, <2>6
    <2>14. FramesDisjoint'
      BY <2>4, <2>6, <2>7, <2>8, <2>12 DEF IInv, FramesDisjoint
    <2>15. DispatchedBehind'
      <3>1. buf'.lo = p + FrameChips
        BY <2>2, <2>3 DEF Chips
      <3>2. \A i \in 1 .. Len(dispatched) + 1 : dispatched'[i].hi <= p + FrameChips
        <4> SUFFICES ASSUME NEW i \in 1 .. Len(dispatched) + 1
                     PROVE  dispatched'[i].hi <= p + FrameChips
          OBVIOUS
        <4>1. CASE i = Len(dispatched) + 1
          BY <4>1, <2>4, <2>7, <2>3
        <4>2. CASE i \in 1 .. Len(dispatched)
          BY <4>2, <2>8, <2>12, SinkAssumption DEF FrameChips
        <4> QED BY <4>1, <4>2, <2>6
      <3> QED BY <3>1, <3>2, <2>2, <2>6 DEF DispatchedBehind
    <2> QED BY <2>10, <2>11, <2>13, <2>14, <2>15 DEF IInv
  <1>3. CASE ~(idx + take >= DataChips)
    <2>1. /\ lo + take = pos' /\ idx + take \in 0 .. DataChips - 1
          /\ pos' = p + PreLen + (idx + take)
      BY <1>1, <1>3, SinkAssumption DEF Chips, Count
    <2>2. /\ state' = "COLLECTING"
          /\ buf' = b
          /\ collectIdx' = idx + take
          /\ collect' = Chips(p + PreLen, pos')
          /\ UNCHANGED decode
      BY <1>1, <1>3, <2>1 DEF FillCollect, Leftover
    <2> HIDE DEF c, room, take, got, f
    <2>3. TypeOK'
      <3>1. /\ corr' \in [Offsets -> Nat] /\ framesReceived' \in Nat
            /\ worker' \in Frames /\ delivered' \in Seq(Frames)
            /\ dispatched' \in Seq(Frames)
            /\ dispatchQueue' \in Seq(Frames) /\ Len(dispatchQueue') <= QueueSize
        BY <2>2 DEF IInv, TypeOK, decode
      <3>2. buf' \in [lo : Nat, hi : Nat] /\ collect' \in [lo : Nat, hi : Nat]
        BY <2>1, <2>2, SinkAssumption DEF Chips
      <3> QED BY <2>1, <2>2, <3>1, <3>2, SinkAssumption DEF TypeOK
    <2>4. BufferIsTail'
      BY <2>2 DEF BufferIsTail
    <2>5. CollectIsTail'
      BY <2>1, <2>2 DEF CollectIsTail, Strong, Offsets
    <2>6. FrameExtent' /\ FramesDisjoint'
      BY <2>2 DEF IInv, FrameExtent, FramesDisjoint, decode, Strong, Offsets
    <2>7. DispatchedBehind'
      BY <2>2 DEF DispatchedBehind, decode
    <2> QED BY <2>3, <2>4, <2>5, <2>6, <2>7 DEF IInv
  <1> QED BY <1>2, <1>3

\* While searching, the frames dispatched end before the buffer starts.
LEMMA DispatchedBehindBuf ==
  ASSUME IInv, state = "SEARCHING"
  PROVE  \A i \in DOMAIN dispatched :
            dispatched[i].hi \in Nat /\ dispatched[i].hi <= buf.lo
  <1>1. \A i \in DOMAIN dispatched : dispatched[i] \in Frames
    BY ElementOfSeq, LenProperties DEF IInv, TypeOK
  <1> QED BY <1>1 DEF IInv, DispatchedBehind, Frames

LEMMA WorkSearchingStep ==
  ASSUME IInv, NEW n \in 1 .. MaxChunk, WorkSearching(n)
  PROVE  IInv'
  <1> DEFINE b == Concat(buf, Chips(pos, pos + n))
  <1>1. /\ pos \in Nat /\ pos + n \in 0 .. StreamLen
        /\ buf = Chips(buf.lo, buf.hi) /\ buf.lo \in Nat /\ buf.hi \in Nat
        /\ newSamples \in Nat /\ newSamples + n \in Nat
    BY SinkAssumption DEF IInv, TypeOK, WorkSearching, Chips
  <1>2. /\ state = "SEARCHING" /\ pos' = pos + n /\ corr' = corr
        /\ buf.hi = pos /\ buf.lo <= pos /\ newSamples <= pos - buf.lo
    BY DEF IInv, BufferIsTail, WorkSearching, Count
  <1>3. b = Chips(buf.lo, pos + n) /\ b.lo = buf.lo /\ b.hi = pos + n
    <2>1. CASE Count(buf) = 0
      BY <2>1, <1>1, <1>2 DEF Concat, Chips, Count
    <2>2. CASE Count(buf) # 0
      BY <2>2, <1>1, <1>2 DEF Concat, Chips, Count
    <2> QED BY <2>1, <2>2
  <1>4. CASE newSamples + n >= PreLen /\ Search(b)
    <2>1. PICK p \in Offsets :
             /\ IsArgmax(p, b)
             /\ \/ /\ Strong(p)
                   /\ peak' = p
                   /\ FillCollect(Chips(p + PreLen, b.hi), 0, Chips(0, 0), p,
                                  Chips(0, 0))
                \/ /\ ~Strong(p)
                   /\ buf' = KeptTail(b)
                   /\ UNCHANGED <<state, collect, collectIdx, peak, decode>>
      BY <1>4 DEF Search
    <2>2. p \in Nat /\ buf.lo <= p /\ p + PreLen <= pos + n
      BY <2>1, <1>1, <1>3, SinkAssumption DEF IsArgmax, Offsets
    <2>3. newSamples' = 0
      BY <1>4 DEF Search
    <2>4. \A i \in DOMAIN dispatched : dispatched[i].hi <= p
      <3>1. \A i \in DOMAIN dispatched :
               dispatched[i].hi \in Nat /\ dispatched[i].hi <= buf.lo
        BY <1>2, DispatchedBehindBuf
      <3> QED BY <3>1, <2>2, <1>1
    <2> HIDE DEF b
    <2>5. CASE Strong(p)
      <3>1. /\ peak' = p
            /\ FillCollect(Chips(p + PreLen, pos'), 0, Chips(0, 0), p, Chips(0, 0))
        BY <2>1, <2>5, <1>2, <1>3
      <3>2. /\ Chips(0, 0) = Chips(Chips(0, 0).lo, Chips(0, 0).hi)
            /\ Chips(0, 0).lo = 0 /\ Chips(0, 0).hi = 0 /\ Count(Chips(0, 0)) = 0
        BY DEF Chips, Count
      <3>3. /\ p + PreLen \in Nat /\ p + PreLen <= pos'
            /\ p + PreLen = p + PreLen + 0
            /\ 0 \in 0 .. DataChips - 1 /\ pos' \in 0 .. StreamLen
        BY <1>1, <1>2, <2>2, SinkAssumption
      <3> QED BY <3>1, <3>2, <3>3, <1>2, <2>2, <2>3, <2>4, <2>5, FillCollectStep
    <2>6. CASE ~Strong(p)
      <3>1. buf' = KeptTail(b) /\ UNCHANGED <<state, collect, collectIdx, peak, decode>>
        BY <2>1, <2>6
      <3>2. /\ buf' = Chips(buf'.lo, pos + n) /\ buf'.hi = pos + n
            /\ buf'.lo \in Nat /\ buf.lo <= buf'.lo /\ buf'.lo <= pos + n
        BY <3>1, <1>1, <1>3, <2>2, SinkAssumption DEF KeptTail, Chips
      <3>3. TypeOK'
        <4>1. buf' \in [lo : Nat, hi : Nat]
          BY <3>2, <1>1 DEF Chips
        <4>2. 0 \in 0 .. PreLen - 1
          BY SinkAssumption
        <4> QED BY <4>1, <4>2, <3>1, <2>3, <1>1, <1>2 DEF IInv, TypeOK, decode
      <3>4. BufferIsTail'
        BY <3>2, <2>3, <1>1, <1>2 DEF BufferIsTail, Count
      <3>7. CollectIsTail'
        BY <3>1, <1>2 DEF IInv, CollectIsTail
      <3>5. FrameExtent' /\ FramesDisjoint'
        BY <3>1, <1>2 DEF IInv, FrameExtent, FramesDisjoint, Strong, decode
      <3>6. DispatchedBehind'
        <4>1. \A i \in DOMAIN dispatched :
                 dispatched[i].hi \in Nat /\ dispatched[i].hi <= buf.lo
          BY <1>2, DispatchedBehindBuf
        <4> QED BY <4>1, <3>1, <3>2, <1>1, <1>2 DEF DispatchedBehind, decode
      <3> QED BY <3>3, <3>4, <3>7, <3>5, <3>6 DEF IInv
    <2> QED BY <2>5, <2>6
  <1>5. CASE /\ newSamples + n < PreLen
             /\ buf' = b
             /\ newSamples' = newSamples + n
             /\ UNCHANGED <<state, collect, collectIdx, peak, decode>>
    <2> HIDE DEF b
    <2>1. TypeOK'
      BY <1>1, <1>2, <1>3, <1>5, SinkAssumption DEF IInv, TypeOK, Chips, decode
    <2>2. BufferIsTail' /\ CollectIsTail'
      BY <1>1, <1>2, <1>3, <1>5 DEF IInv, BufferIsTail, CollectIsTail, Chips, Count
    <2>3. FrameExtent' /\ FramesDisjoint'
      BY <1>2, <1>5 DEF IInv, FrameExtent, FramesDisjoint, Strong, decode
    <2>4. DispatchedBehind'
      BY <1>2, <1>3, <1>5 DEF IInv, DispatchedBehind, decode
    <2> QED BY <2>1, <2>2, <2>3, <2>4 DEF IInv
  <1> QED BY <1>4, <1>5 DEF WorkSearching

LEMMA WorkCollectingStep ==
  ASSUME IInv, NEW n \in 1 .. MaxChunk, WorkCollecting(n)
  PROVE  IInv'
  <1>1. /\ state = "COLLECTING" /\ pos' = pos + n /\ corr' = corr
        /\ peak' = peak /\ newSamples' = newSamples
        /\ FillCollect(Chips(pos, pos'), collectIdx, collect, peak, buf)
    BY DEF WorkCollecting
  <1>2. /\ Strong(peak) /\ pos = peak + PreLen + collectIdx /\ newSamples' = 0
        /\ collect = Chips(peak + PreLen, peak + PreLen + collectIdx)
    BY <1>1 DEF IInv, CollectIsTail
  <1>3. /\ pos \in Nat /\ pos' \in 0 .. StreamLen /\ pos <= pos'
        /\ collectIdx \in 0 .. DataChips - 1 /\ peak \in Nat
        /\ buf = Chips(buf.lo, buf.hi) /\ buf.lo \in Nat /\ buf.hi \in Nat
        /\ buf.lo <= buf.hi
    BY <1>1, SinkAssumption DEF IInv, TypeOK, BufferIsTail, WorkCollecting, Chips
  <1>4. \A i \in DOMAIN dispatched : dispatched[i].hi <= peak
    BY <1>1 DEF IInv, DispatchedBehind
  <1> QED BY <1>1, <1>2, <1>3, <1>4, FillCollectStep

LEMMA WorkerStep ==
  ASSUME IInv, WorkerGet \/ WorkerCallback
  PROVE  IInv'
  <1>1. UNCHANGED <<stream, search, framesReceived, dispatched>>
    BY DEF WorkerGet, WorkerCallback
  <1>2. /\ dispatchQueue' \in Seq(Frames) /\ Len(dispatchQueue') <= QueueSize
        /\ worker' \in Frames /\ delivered' \in Seq(Frames)
    <2>1. CASE WorkerGet
      BY <2>1, HeadTailProperties, LenProperties, SinkAssumption
         DEF WorkerGet, IInv, TypeOK
    <2>2. CASE WorkerCallback
      BY <2>2, AppendProperties DEF WorkerCallback, IInv, TypeOK, NoFrame, Frames
    <2> QED BY <2>1, <2>2
  <1>3. TypeOK'
    BY <1>1, <1>2 DEF IInv, TypeOK, stream, search
  <1>4. BufferIsTail' /\ CollectIsTail' /\ DispatchedBehind'
    BY <1>1 DEF IInv, BufferIsTail, CollectIsTail, DispatchedBehind, Strong,
                stream, search
  <1>5. FrameExtent' /\ FramesDisjoint'
    BY <1>1 DEF IInv, FrameExtent, FramesDisjoint, Strong, stream
  <1> QED BY <1>3, <1>4, <1>5 DEF IInv

LEMMA StutterStep == ASSUME IInv, UNCHANGED vars PROVE IInv'
  BY DEF IInv, vars, TypeOK, BufferIsTail, CollectIsTail, DispatchedBehind,
         FrameExtent, FramesDisjoint, Strong

LEMMA IInvInvariant == Spec => []IInv
  <1>1. IInv /\ [Next]_vars => IInv'
    BY WorkSearchingStep, WorkCollectingStep, WorkerStep, StutterStep DEF Next
  <1> QED BY InitIInv, <1>1, PTL DEF Spec

-----------------------------------------------------------------------------

(***************************************************************************)
(* The variables keep their types; in particular the dispatch queue never  *)
(* exceeds its size and fewer than PreLen chips await a search.            *)
(***************************************************************************)
THEOREM TypeCorrect == Spec => []TypeOK
  BY IInvInvariant, PTL DEF IInv

(***************************************************************************)
(* Every dispatched frame is exactly the data chips behind the preamble    *)
(* whose phase and SNR it is decoded and reported with.                    *)
(***************************************************************************)
THEOREM FramesWellFormed == Spec => []FrameExtent
  BY IInvInvariant, PTL DEF IInv

(***************************************************************************)
(* No chip belongs to two frames.                                          *)
(***************************************************************************)
THEOREM FramesNeverOverlap == Spec => []FramesDisjoint
  BY IInvInvariant, PTL DEF IInv

-----------------------------------------------------------------------------
(* The frames the queue accepted *)

InHand == IF worker = NoFrame THEN <<>> ELSE <<worker>>

\* Decoded, being decoded and waiting, oldest first.
Accepted == delivered \o InHand \o dispatchQueue

Subsequence(s, t) ==
    /\ \A i \in DOMAIN s : \E j \in DOMAIN t : s[i] = t[j]
    /\ \A i, j \in DOMAIN s : i < j => s[i].phase < s[j].phase

LEMMA FramesRegroup ==
  ASSUME NEW a \in Seq(Frames), NEW b \in Seq(Frames), NEW c \in Seq(Frames)
  PROVE  (a \o b) \o c = a \o (b \o c)
  BY ConcatAssociative

LEMMA FramesAppend ==
  ASSUME NEW s \in Seq(Frames), NEW f \in Frames
  PROVE  /\ Append(s, f) = s \o <<f>> /\ Append(s, f) \in Seq(Frames)
         /\ Len(s) \in Nat /\ Len(Append(s, f)) = Len(s) + 1
         /\ Append(s, f)[Len(s) + 1] = f
         /\ \A i \in 1 .. Len(s) : Append(s, f)[i] = s[i]
         /\ DOMAIN s = 1 .. Len(s) /\ DOMAIN Append(s, f) = 1 .. Len(s) + 1
<1>1. Append(s, f) = s \o <<f>>
  BY AppendIsConcat
<1>2. /\ Append(s, f) \in Seq(Frames) /\ Len(Append(s, f)) = Len(s) + 1
      /\ Append(s, f)[Len(s) + 1] = f
      /\ \A i \in 1 .. Len(s) : Append(s, f)[i] = s[i]
  BY AppendProperties
<1> QED BY <1>1, <1>2, LenProperties

LEMMA HeadFirst ==
  ASSUME NEW s \in Seq(Frames), s # <<>>
  PROVE  s = <<Head(s)>> \o Tail(s) /\ Head(s) \in Frames /\ Tail(s) \in Seq(Frames)
         /\ 1 \in DOMAIN s /\ Head(s) = s[1]
<1>1. Len(s) \in Nat /\ Len(s) >= 1 /\ 1 \in 1 .. Len(s) /\ Len(s) \in 1 .. Len(s)
  BY EmptySeq
<1>2. SubSeq(s, 1, Len(s)) = <<s[1]>> \o SubSeq(s, 2, Len(s))
  <2>1. SubSeq(s, 1, Len(s)) = <<s[1]>> \o SubSeq(s, 1 + 1, Len(s))
    BY <1>1, SubSeqRecursiveFirst
  <2> QED BY <2>1
<1>3. Tail(s) = SubSeq(s, 2, Len(s)) /\ Head(s) = s[1]
  BY TailIsSubSeq
<1>4. Head(s) \in Frames /\ Tail(s) \in Seq(Frames)
  BY HeadTailProperties
<1>5. 1 \in DOMAIN s
  BY <1>1, LenProperties
<1> QED BY <1>2, <1>3, <1>4, <1>5, SubSeqFull

LEMMA AcceptedType ==
  ASSUME TypeOK
  PROVE  /\ InHand \in Seq(Frames) /\ Accepted \in Seq(Frames)
         /\ delivered \o InHand \in Seq(Frames)
<1>1. delivered \in Seq(Frames) /\ dispatchQueue \in Seq(Frames) /\ worker \in Frames
  BY DEF TypeOK
<1>2. InHand \in Seq(Frames)
  BY <1>1 DEF InHand
<1>3. delivered \o InHand \in Seq(Frames)
  BY <1>1, <1>2, ConcatProperties
<1> QED BY <1>1, <1>2, <1>3, ConcatProperties DEF Accepted

\* The frame appended to dispatched comes behind every earlier one.
LEMMA DispatchIsLater ==
  ASSUME TypeOK, FrameExtent, FramesDisjoint', NEW f \in Frames,
         dispatched' = Append(dispatched, f)
  PROVE  \A j \in DOMAIN dispatched : dispatched[j].phase < f.phase
<1>1. SUFFICES ASSUME NEW j \in DOMAIN dispatched PROVE dispatched[j].phase < f.phase
  OBVIOUS
<1>2. dispatched \in Seq(Frames)
  BY DEF TypeOK
<1>3. /\ Len(dispatched) \in Nat /\ j \in 1 .. Len(dispatched)
      /\ dispatched'[j] = dispatched[j] /\ dispatched'[Len(dispatched) + 1] = f
      /\ DOMAIN dispatched' = 1 .. Len(dispatched) + 1
  BY <1>2, FramesAppend
<1>4. j \in DOMAIN dispatched' /\ Len(dispatched) + 1 \in DOMAIN dispatched'
      /\ j < Len(dispatched) + 1
  BY <1>3
<1>5. dispatched'[j].hi <= dispatched'[Len(dispatched) + 1].phase
  BY <1>4 DEF FramesDisjoint
<1>6. dispatched[j].hi <= f.phase
  BY <1>3, <1>5
<1>7. dispatched[j] \in Frames
  BY <1>2, <1>3, ElementOfSeq
<1>8. /\ dispatched[j].lo = dispatched[j].phase + PreLen
      /\ dispatched[j].hi = dispatched[j].lo + DataChips
  BY DEF FrameExtent
<1>9. dispatched[j].phase \in Nat /\ f.phase \in Nat
  BY <1>7 DEF Frames
<1> QED BY <1>6, <1>8, <1>9, SinkAssumption

LEMMA DispatchAccepted ==
  ASSUME TypeOK, FrameExtent, FramesDisjoint', NEW f \in Frames, Dispatch(f),
         Subsequence(Accepted, dispatched)
  PROVE  Subsequence(Accepted', dispatched')
<1>1. /\ dispatched' = Append(dispatched, f) /\ InHand' = InHand /\ delivered' = delivered
      /\ dispatchQueue' \in {dispatchQueue, Append(dispatchQueue, f)}
  BY DEF Dispatch, Offer, InHand
<1>2. /\ delivered \o InHand \in Seq(Frames) /\ Accepted \in Seq(Frames)
      /\ dispatchQueue \in Seq(Frames) /\ dispatched \in Seq(Frames)
  BY AcceptedType DEF TypeOK
<1>3. Accepted' \in {Accepted, Append(Accepted, f)}
  <2>1. CASE dispatchQueue' = dispatchQueue
    BY <1>1, <2>1 DEF Accepted
  <2>2. CASE dispatchQueue' = Append(dispatchQueue, f)
    <3> DEFINE front == delivered \o InHand
               one == <<f>>
    <3>1. one \in Seq(Frames) /\ Append(dispatchQueue, f) = dispatchQueue \o one
          /\ Append(Accepted, f) = Accepted \o one
      BY <1>2, FramesAppend
    <3>2. Accepted = front \o dispatchQueue /\ Accepted' = front \o dispatchQueue'
      BY <1>1 DEF Accepted
    <3>3. front \in Seq(Frames)
      BY <1>2
    <3> HIDE DEF front, one
    <3>4. (front \o dispatchQueue) \o one = front \o (dispatchQueue \o one)
      BY <1>2, <3>1, <3>3, FramesRegroup
    <3> QED BY <2>2, <3>1, <3>2, <3>4
  <2> QED BY <1>1, <2>1, <2>2
<1>4. /\ Len(dispatched) \in Nat /\ DOMAIN dispatched = 1 .. Len(dispatched)
      /\ DOMAIN dispatched' = 1 .. Len(dispatched) + 1
      /\ \A j \in 1 .. Len(dispatched) : dispatched'[j] = dispatched[j]
      /\ dispatched'[Len(dispatched) + 1] = f
  BY <1>1, <1>2, FramesAppend
<1>5. \A i \in DOMAIN Accepted : \E j \in DOMAIN dispatched' : Accepted[i] = dispatched'[j]
  <2>1. SUFFICES ASSUME NEW i \in DOMAIN Accepted
                 PROVE  \E j \in DOMAIN dispatched' : Accepted[i] = dispatched'[j]
    OBVIOUS
  <2>2. PICK j \in DOMAIN dispatched : Accepted[i] = dispatched[j]
    BY DEF Subsequence
  <2>3. j \in DOMAIN dispatched' /\ dispatched'[j] = dispatched[j]
    BY <1>4
  <2> QED BY <2>2, <2>3
<1>6. \A i \in DOMAIN Accepted : Accepted[i].phase < f.phase
  BY <1>1, DispatchIsLater DEF Subsequence
<1>7. CASE Accepted' = Accepted
  BY <1>5, <1>7 DEF Subsequence
<1>8. CASE Accepted' = Append(Accepted, f)
  <2> DEFINE n == Len(Accepted)
  <2>1. /\ n \in Nat /\ DOMAIN Accepted = 1 .. n /\ DOMAIN Accepted' = 1 .. n + 1
        /\ Accepted'[n + 1] = f /\ \A i \in 1 .. n : Accepted'[i] = Accepted[i]
    BY <1>2, <1>8, FramesAppend
  <2> HIDE DEF n
  <2>2. \A i \in DOMAIN Accepted' : \E j \in DOMAIN dispatched' : Accepted'[i] = dispatched'[j]
    <3>1. SUFFICES ASSUME NEW i \in 1 .. n + 1
                   PROVE  \E j \in DOMAIN dispatched' : Accepted'[i] = dispatched'[j]
      BY <2>1
    <3>2. CASE i = n + 1
      <4>1. Len(dispatched) + 1 \in DOMAIN dispatched'
        BY <1>4
      <4> QED BY <1>4, <2>1, <3>2, <4>1
    <3>3. CASE i \in 1 .. n
      BY <1>5, <2>1, <3>3
    <3> QED BY <2>1, <3>2, <3>3
  <2>3. \A i, j \in DOMAIN Accepted' : i < j => Accepted'[i].phase < Accepted'[j].phase
    <3>1. SUFFICES ASSUME NEW i \in 1 .. n + 1, NEW j \in 1 .. n + 1, i < j
                   PROVE  Accepted'[i].phase < Accepted'[j].phase
      BY <2>1
    <3>2. i \in 1 .. n
      BY <2>1, <3>1
    <3>3. CASE j = n + 1
      BY <1>6, <2>1, <3>2, <3>3
    <3>4. CASE j \in 1 .. n
      BY <2>1, <3>1, <3>2, <3>4 DEF Subsequence
    <3> QED BY <2>1, <3>3, <3>4
  <2> QED BY <2>2, <2>3 DEF Subsequence
<1> QED BY <1>3, <1>7, <1>8

LEMMA WorkerAccepted ==
  ASSUME TypeOK, FrameExtent, WorkerGet \/ WorkerCallback,
         Subsequence(Accepted, dispatched)
  PROVE  Accepted' = Accepted
<1>1. /\ delivered \in Seq(Frames) /\ dispatchQueue \in Seq(Frames) /\ worker \in Frames
      /\ dispatched \in Seq(Frames) /\ <<>> \in Seq(Frames)
  BY DEF TypeOK
<1>2. delivered \o <<>> = delivered
  BY <1>1, ConcatEmptySeq
<1>3. CASE WorkerGet
  <2> DEFINE h == Head(dispatchQueue)
             rest == Tail(dispatchQueue)
             one == <<h>>
  <2>1. /\ worker = NoFrame /\ dispatchQueue # <<>> /\ worker' = h
        /\ dispatchQueue' = rest /\ delivered' = delivered
    BY <1>3 DEF WorkerGet, WorkerIdle
  <2>2. /\ h \in Frames /\ rest \in Seq(Frames) /\ dispatchQueue = one \o rest
        /\ 1 \in DOMAIN dispatchQueue /\ h = dispatchQueue[1]
    BY <1>1, <2>1, HeadFirst
  <2>3. InHand = <<>> /\ Accepted = delivered \o dispatchQueue
    BY <1>2, <2>1 DEF InHand, Accepted
  <2>4. h # NoFrame
    <3>1. /\ Accepted[Len(delivered) + 1] = h
          /\ Len(delivered) + 1 \in DOMAIN Accepted
      <4>1. /\ Len(delivered) \in Nat /\ Len(dispatchQueue) \in Nat
            /\ 1 <= Len(dispatchQueue)
        BY <1>1, <2>1, EmptySeq, LenProperties
      <4>2. /\ Accepted \in Seq(Frames)
            /\ Len(Accepted) = Len(delivered) + Len(dispatchQueue)
            /\ \A i \in 1 .. Len(delivered) + Len(dispatchQueue) :
                  Accepted[i] = IF i <= Len(delivered) THEN delivered[i]
                                ELSE dispatchQueue[i - Len(delivered)]
        BY <1>1, <2>3, ConcatProperties
      <4> DEFINE k == Len(delivered) + 1
      <4>3. k \in 1 .. Len(delivered) + Len(dispatchQueue) /\ ~(k <= Len(delivered))
            /\ k - Len(delivered) = 1
        BY <4>1
      <4>4. DOMAIN Accepted = 1 .. Len(delivered) + Len(dispatchQueue)
        BY <4>2, LenProperties
      <4> HIDE DEF k
      <4>5. Accepted[k] = dispatchQueue[k - Len(delivered)]
        BY <4>2, <4>3
      <4>6. Accepted[k] = h /\ k \in DOMAIN Accepted
        BY <2>2, <4>3, <4>4, <4>5
      <4> QED BY <4>6 DEF k
    <3>2. PICK j \in DOMAIN dispatched : h = dispatched[j]
      BY <3>1 DEF Subsequence
    <3>3. dispatched[j] \in Frames
      BY <1>1, ElementOfSeq, LenProperties
    <3>4. h.lo = h.phase + PreLen
      BY <3>2 DEF FrameExtent
    <3>5. h.lo # 0
      <4>1. h.phase \in Nat
        BY <2>2 DEF Frames
      <4> QED BY <3>4, <4>1, SinkAssumption
    <3> QED BY <3>5 DEF NoFrame
  <2>5. InHand' = one
    BY <2>1, <2>4 DEF InHand
  <2>6. one \in Seq(Frames)
    BY <2>2
  <2>7. Accepted' = (delivered \o one) \o rest
    BY <2>1, <2>5 DEF Accepted
  <2>9. delivered \in Seq(Frames) /\ one \in Seq(Frames) /\ rest \in Seq(Frames)
    BY <1>1, <2>2, <2>6
  <2> HIDE DEF one, rest, h
  <2>8. (delivered \o one) \o rest = delivered \o (one \o rest)
    BY ONLY <2>9, FramesRegroup
  <2> QED BY <2>2, <2>3, <2>7, <2>8
<1>4. CASE WorkerCallback
  <2>1. /\ worker # NoFrame /\ worker' = NoFrame /\ delivered' = Append(delivered, worker)
        /\ dispatchQueue' = dispatchQueue
    BY <1>4 DEF WorkerCallback
  <2>2. delivered' = delivered \o <<worker>> /\ delivered' \in Seq(Frames)
    BY <1>1, <2>1, FramesAppend
  <2>3. delivered' \o <<>> = delivered'
    BY <2>2, ConcatEmptySeq
  <2>4. InHand = <<worker>> /\ InHand' = <<>>
    BY <2>1 DEF InHand
  <2> QED BY <2>1, <2>2, <2>3, <2>4 DEF Accepted
<1> QED BY <1>3, <1>4

LEMMA NextAccepted ==
  ASSUME IInv, IInv', Subsequence(Accepted, dispatched), [Next]_vars
  PROVE  Subsequence(Accepted', dispatched')
<1>1. CASE WorkerGet \/ WorkerCallback
  <2>1. dispatched' = dispatched
    BY <1>1 DEF WorkerGet, WorkerCallback
  <2>2. Accepted' = Accepted
    BY <1>1, WorkerAccepted DEF IInv
  <2> QED BY <2>1, <2>2
<1>2. CASE UNCHANGED decode
  BY <1>2 DEF decode, Accepted, InHand, Subsequence
<1>3. ASSUME NEW c, NEW p, Dispatch(Frame(c, p))
      PROVE  Subsequence(Accepted', dispatched')
  <2> DEFINE f == Frame(c, p)
  <2>1. f \in Frames
    <3>1. dispatched' = Append(dispatched, f) /\ dispatched' \in Seq(Frames)
          /\ dispatched \in Seq(Frames)
      BY <1>3 DEF Dispatch, IInv, TypeOK
    <3>2. dispatched \in Seq(Frames \cup {f}) /\ f \in Frames \cup {f}
      BY <3>1, SeqMonotonic
    <3> HIDE DEF f
    <3>3. /\ Len(dispatched) \in Nat /\ Len(dispatched') = Len(dispatched) + 1
          /\ dispatched'[Len(dispatched) + 1] = f
      BY <3>1, <3>2, AppendProperties, LenProperties
    <3>4. Len(dispatched) + 1 \in 1 .. Len(dispatched')
      BY <3>3
    <3> QED BY <3>1, <3>3, <3>4, ElementOfSeq
  <2> HIDE DEF f
  <2> QED BY <1>3, <2>1, DispatchAccepted DEF IInv, f
<1>4. ASSUME NEW c, NEW idx, NEW held, NEW p, NEW b, FillCollect(c, idx, held, p, b)
      PROVE  Subsequence(Accepted', dispatched')
  BY <1>2, <1>3, <1>4 DEF FillCollect
<1>5. ASSUME NEW n \in 1 .. MaxChunk, WorkSearching(n)
      PROVE  Subsequence(Accepted', dispatched')
  <2> DEFINE b == Concat(buf, Chips(pos, pos + n))
  <2>1. Search(b) \/ UNCHANGED decode
    BY <1>5 DEF WorkSearching
  <2> HIDE DEF b
  <2>2. CASE Search(b)
    <3>1. PICK p \in Offsets :
             \/ FillCollect(Chips(p + PreLen, b.hi), 0, Chips(0, 0), p, Chips(0, 0))
             \/ UNCHANGED decode
      BY <2>2 DEF Search
    <3> QED BY <1>2, <1>4, <3>1
  <2> QED BY <1>2, <2>1, <2>2
<1>6. ASSUME NEW n \in 1 .. MaxChunk, WorkCollecting(n)
      PROVE  Subsequence(Accepted', dispatched')
  <2>1. FillCollect(Chips(pos, pos + n), collectIdx, collect, peak, buf)
    BY <1>6 DEF WorkCollecting
  <2> QED BY <1>4, <2>1
<1>7. CASE UNCHANGED vars
  BY <1>2, <1>7 DEF vars, decode
<1> QED BY <1>1, <1>5, <1>6, <1>7 DEF Next

(***************************************************************************)
(* The decode thread calls back with detected frames only, in the order of *)
(* the stream and none twice, however chunks, full queues and the thread   *)
(* interleave.                                                             *)
(***************************************************************************)
THEOREM DecodedStayInOrder == Spec => []DecodedInOrder
<1>1. Init => Subsequence(Accepted, dispatched)
  BY DEF Init, Accepted, InHand, Subsequence
<1>2. IInv /\ Subsequence(Accepted, dispatched) /\ [Next]_vars /\ IInv'
          => Subsequence(Accepted, dispatched)'
  BY NextAccepted DEF Subsequence
<1>3. Subsequence(Accepted, dispatched) => DecodedInOrder
  BY DEF Subsequence, Accepted, InHand, DecodedInOrder
<1> QED BY <1>1, <1>2, <1>3, IInvInvariant, PTL DEF Spec

-----------------------------------------------------------------------------
(* FrameSink implements FrameDetector, and loses no preamble to the way    *)
(* the stream is cut into chunks.                                          *)

LEMMA PhasesSeq ==
  ASSUME NEW s \in Seq(Frames)
  PROVE  Phases(s) \in Seq(Nat) /\ Len(Phases(s)) = Len(s)
  <1>1. DOMAIN s = 1 .. Len(s) /\ Len(s) \in Nat
    BY LenProperties
  <1>2. \A i \in 1 .. Len(s) : s[i].phase \in Nat
    <2>1. \A i \in 1 .. Len(s) : s[i] \in Frames
      BY ElementOfSeq
    <2> QED BY <2>1 DEF Frames
  <1>3. Phases(s) \in [1 .. Len(s) -> Nat]
    BY <1>1, <1>2 DEF Phases
  <1> QED BY <1>1, <1>3, IsASeq, LenProperties

LEMMA PhasesAppend ==
  ASSUME NEW s \in Seq(Frames), NEW f \in Frames
  PROVE  Phases(Append(s, f)) = Append(Phases(s), f.phase)
  <1> DEFINE a == Append(s, f)
             b == Append(Phases(s), f.phase)
  <1>1. f.phase \in Nat
    BY DEF Frames
  <1>2. a \in Seq(Frames) /\ Len(a) = Len(s) + 1 /\ Len(s) \in Nat
        /\ (\A i \in 1 .. Len(s) : a[i] = s[i]) /\ a[Len(s) + 1] = f
    BY AppendProperties, LenProperties
  <1>3. /\ b \in Seq(Nat) /\ Len(b) = Len(s) + 1
        /\ \A i \in 1 .. Len(s) : b[i] = Phases(s)[i]
        /\ b[Len(s) + 1] = f.phase
    BY <1>1, PhasesSeq, AppendProperties
  <1>4. Phases(a) \in Seq(Nat) /\ Len(Phases(a)) = Len(s) + 1
    BY <1>2, PhasesSeq
  <1> HIDE DEF a, b
  <1>5. \A i \in 1 .. Len(s) + 1 : Phases(a)[i] = a[i].phase
    BY <1>2, LenProperties DEF Phases
  <1>6. \A i \in 1 .. Len(s) : Phases(s)[i] = s[i].phase
    BY LenProperties DEF Phases
  <1>7. \A i \in 1 .. Len(s) + 1 : Phases(a)[i] = b[i]
    <2> SUFFICES ASSUME NEW i \in 1 .. Len(s) + 1 PROVE Phases(a)[i] = b[i]
      OBVIOUS
    <2>1. CASE i = Len(s) + 1
      BY <2>1, <1>2, <1>3, <1>5
    <2>2. CASE i \in 1 .. Len(s)
      BY <2>2, <1>2, <1>3, <1>5, <1>6
    <2> QED BY <2>1, <2>2, <1>2
  <1> QED BY <1>3, <1>4, <1>7, SeqEqual DEF a, b

\* What a step does to the decided part of the stream: nothing, it passes
\* over offsets below the threshold, or it takes the frame at p.
Passes ==
    /\ Taken' = Taken
    /\ Frontier' \in Nat /\ Frontier <= Frontier'
    /\ Frontier' <= StreamLen \/ Frontier' = Frontier
    /\ \A q \in Frontier .. Frontier' - 1 : ~Strong(q)

Takes ==
    \E p \in Offsets :
        /\ Strong(p) /\ Frontier <= p
        /\ \A q \in Frontier .. p - 1 : corr[q] < corr[p]
        /\ Taken' = Append(Taken, p)
        /\ Frontier' = p + FrameChips

\* _fill_collect, whether it completes the frame at p or not.
LEMMA FillCollectTakes ==
  ASSUME IInv, IInv', NEW c, NEW idx, NEW held, NEW p \in Nat, NEW b,
         FillCollect(c, idx, held, p, b), peak' = p,
         c = Chips(p + PreLen + idx, c.hi), c.hi \in Nat, p + PreLen + idx <= c.hi,
         idx \in 0 .. DataChips - 1,
         held = Chips(p + PreLen, p + PreLen + idx) \/ (idx = 0 /\ Count(held) = 0)
  PROVE  /\ Taken' = Append(Phases(dispatched), p)
         /\ Frontier' = p + FrameChips
  <1> DEFINE room == DataChips - idx
             take == IF Count(c) < room THEN Count(c) ELSE room
             got  == Concat(held, Chips(c.lo, c.lo + take))
             f    == Frame(got, p)
  <1>1. c.lo = p + PreLen + idx /\ take \in Nat /\ take <= room
        /\ got = Chips(p + PreLen, p + PreLen + idx + take)
    BY SinkAssumption DEF Concat, Chips, Count
  <1>2. CASE idx + take >= DataChips
    <2>1. Dispatch(f) /\ state' = "SEARCHING" /\ buf' = Chips(c.lo + take, c.hi)
      BY <1>2 DEF FillCollect, Leftover
    <2>2. f \in Frames /\ f.phase = p /\ c.lo + take = p + FrameChips
      BY <1>1, <1>2, SinkAssumption DEF Frame, Chips, Frames, FrameChips
    <2> HIDE DEF room, take, got, f
    <2>3. Taken' = Phases(Append(dispatched, f))
      BY <2>1 DEF Taken, Dispatch, Phases
    <2>4. Frontier' = p + FrameChips
      BY <2>1, <2>2 DEF Frontier, Chips
    <2>5. dispatched \in Seq(Frames)
      BY DEF IInv, TypeOK
    <2> QED BY <2>2, <2>3, <2>4, <2>5, PhasesAppend
  <1>3. CASE ~(idx + take >= DataChips)
    <2>1. state' = "COLLECTING" /\ UNCHANGED decode
      BY <1>3 DEF FillCollect, Leftover
    <2> QED BY <2>1 DEF Taken, Frontier, decode, Phases, FrameChips
  <1> QED BY <1>2, <1>3

LEMMA WorkSearchingDecides ==
  ASSUME IInv, IInv', NEW n \in 1 .. MaxChunk, WorkSearching(n)
  PROVE  corr' = corr /\ (Passes \/ Takes)
  <1> DEFINE b == Concat(buf, Chips(pos, pos + n))
  <1>1. /\ pos \in Nat /\ pos + n \in 0 .. StreamLen
        /\ buf = Chips(buf.lo, buf.hi) /\ buf.lo \in Nat /\ buf.hi \in Nat
    BY SinkAssumption DEF IInv, TypeOK, WorkSearching, Chips
  <1>2. /\ state = "SEARCHING" /\ pos' = pos + n /\ corr' = corr
        /\ buf.hi = pos /\ buf.lo <= pos
    BY DEF IInv, BufferIsTail, WorkSearching
  <1>3. b = Chips(buf.lo, pos + n) /\ b.lo = buf.lo /\ b.hi = pos + n
    <2>1. CASE Count(buf) = 0
      BY <2>1, <1>1, <1>2 DEF Concat, Chips, Count
    <2>2. CASE Count(buf) # 0
      BY <2>2, <1>1, <1>2 DEF Concat, Chips, Count
    <2> QED BY <2>1, <2>2
  <1>4. Frontier = buf.lo /\ Taken = Phases(dispatched)
    BY <1>2 DEF Frontier, Taken
  <1>5. CASE newSamples + n >= PreLen /\ Search(b)
    <2>1. PICK p \in Offsets :
             /\ IsArgmax(p, b)
             /\ \/ /\ Strong(p)
                   /\ peak' = p
                   /\ FillCollect(Chips(p + PreLen, b.hi), 0, Chips(0, 0), p,
                                  Chips(0, 0))
                \/ /\ ~Strong(p)
                   /\ buf' = KeptTail(b)
                   /\ UNCHANGED <<state, collect, collectIdx, peak, decode>>
      BY <1>5 DEF Search
    <2>2. p \in Nat /\ buf.lo <= p /\ p + PreLen <= pos + n
      BY <2>1, <1>1, <1>3, SinkAssumption DEF IsArgmax, Offsets
    <2>3. \A q \in buf.lo .. pos + n - PreLen :
             corr[q] <= corr[p] /\ (q < p => corr[q] < corr[p])
      <3> HIDE DEF b
      <3> QED BY <2>1, <1>1, <1>3, SinkAssumption DEF IsArgmax
    <2> HIDE DEF b
    <2>4. CASE Strong(p)
      <3>1. peak' = p /\ FillCollect(Chips(p + PreLen, pos + n), 0, Chips(0, 0), p,
                                     Chips(0, 0))
        BY <2>1, <2>4, <1>3
      <3>2. /\ Chips(p + PreLen, pos + n).hi = pos + n
            /\ Count(Chips(0, 0)) = 0 /\ p + PreLen + 0 = p + PreLen
            /\ 0 \in 0 .. DataChips - 1
        BY <2>2, SinkAssumption DEF Chips, Count
      <3>3. Taken' = Append(Phases(dispatched), p) /\ Frontier' = p + FrameChips
        BY <3>1, <3>2, <1>1, <2>2, FillCollectTakes
      <3>4. \A q \in buf.lo .. p - 1 : corr[q] < corr[p]
        BY <2>2, <2>3, <1>1, SinkAssumption
      <3> QED BY <3>3, <3>4, <2>2, <2>4, <1>2, <1>4 DEF Takes
    <2>5. CASE ~Strong(p)
      <3>1. buf' = KeptTail(b) /\ state' = state /\ Taken' = Taken
        BY <2>1, <2>5 DEF Taken, decode, Phases
      <3>2. Frontier' = buf'.lo
        BY <3>1, <1>2 DEF Frontier
      <3>3. /\ buf'.lo \in Nat /\ buf.lo <= buf'.lo /\ buf'.lo <= StreamLen
            /\ buf'.lo <= pos + n - PreLen + 1
        BY <3>1, <1>1, <1>3, <2>2, SinkAssumption DEF KeptTail, Chips
      <3>4. corr[p] \in Nat /\ corr[p] < Threshold
        <4>1. p \in Offsets /\ corr \in [Offsets -> Nat] /\ Threshold \in Nat
          BY <2>1, SinkAssumption DEF IInv, TypeOK
        <4> QED BY <4>1, <2>5 DEF Strong
      <3>5. \A q \in buf.lo .. buf'.lo - 1 : ~Strong(q)
        <4> SUFFICES ASSUME NEW q \in buf.lo .. buf'.lo - 1, Strong(q) PROVE FALSE
          OBVIOUS
        <4>1. q \in Offsets /\ corr[q] \in Nat /\ corr[q] >= Threshold
          BY DEF Strong, IInv, TypeOK
        <4>2. q \in buf.lo .. pos + n - PreLen
          BY <3>3, <1>1, SinkAssumption
        <4> QED BY <4>1, <4>2, <2>3, <3>4, SinkAssumption
      <3> QED BY <3>1, <3>2, <3>3, <3>5, <1>2, <1>4 DEF Passes
    <2> QED BY <2>4, <2>5
  <1>6. CASE /\ newSamples + n < PreLen
             /\ buf' = b
             /\ UNCHANGED <<state, collect, collectIdx, peak, decode>>
    <2>1. Taken' = Taken /\ Frontier' = Frontier /\ Frontier \in Nat
      BY <1>1, <1>2, <1>3, <1>6 DEF Taken, Frontier, decode, Phases
    <2> QED BY <2>1, <1>2 DEF Passes
  <1> QED BY <1>2, <1>5, <1>6 DEF WorkSearching

LEMMA WorkCollectingDecides ==
  ASSUME IInv, IInv', NEW n \in 1 .. MaxChunk, WorkCollecting(n)
  PROVE  corr' = corr /\ Taken' = Taken /\ Frontier' = Frontier
  <1>1. /\ state = "COLLECTING" /\ pos' = pos + n /\ corr' = corr /\ peak' = peak
        /\ FillCollect(Chips(pos, pos'), collectIdx, collect, peak, buf)
    BY DEF WorkCollecting
  <1>2. /\ pos = peak + PreLen + collectIdx /\ peak \in Nat
        /\ collect = Chips(peak + PreLen, peak + PreLen + collectIdx)
        /\ pos' \in Nat /\ pos <= pos' /\ collectIdx \in 0 .. DataChips - 1
    BY <1>1, SinkAssumption DEF IInv, CollectIsTail, TypeOK
  <1>3. Chips(pos, pos').hi = pos'
    BY DEF Chips
  <1>4. Taken' = Append(Phases(dispatched), peak) /\ Frontier' = peak + FrameChips
    BY <1>1, <1>2, <1>3, FillCollectTakes
  <1> QED BY <1>1, <1>4 DEF Taken, Frontier

LEMMA OtherDecides ==
  ASSUME WorkerGet \/ WorkerCallback \/ UNCHANGED vars
  PROVE  corr' = corr /\ Taken' = Taken /\ Frontier' = Frontier
  BY DEF WorkerGet, WorkerCallback, vars, stream, search, Taken, Frontier, Phases

-----------------------------------------------------------------------------

(***************************************************************************)
(* The block implements the chunk-free detector: Init maps to Init, each   *)
(* work() call to one Skip, one Take or a stutter.                         *)
(***************************************************************************)
THEOREM ImplementsDetector == Spec => DetectorSpec
  <1>1. Init => Detector!Init
    BY SinkAssumption, PhasesSeq DEF Init, Detector!Init, Detector!Offsets, Offsets,
       Taken, Frontier, Chips, Phases
  <1>2. IInv /\ IInv' /\ [Next]_vars => [Detector!Next]_Detector!vars
    <2> SUFFICES ASSUME IInv, IInv', [Next]_vars
                 PROVE  [Detector!Next]_Detector!vars
      OBVIOUS
    <2>1. CASE corr' = corr /\ Taken' = Taken /\ Frontier' = Frontier
      BY <2>1 DEF Detector!vars
    <2>2. CASE corr' = corr /\ Passes /\ Frontier' # Frontier
      <3>1. Frontier \in Nat
        BY SinkAssumption DEF Frontier, IInv, TypeOK, FrameChips
      <3>2. Frontier' \in Frontier + 1 .. StreamLen
        BY <2>2, <3>1, SinkAssumption DEF Passes
      <3> QED BY <2>2, <3>2
              DEF Passes, Detector!Next, Detector!Skip, Detector!Strong, Strong,
                  Detector!Offsets, Offsets
    <2>3. CASE corr' = corr /\ Takes
      BY <2>3 DEF Takes, Detector!Next, Detector!Take, Detector!Strong, Strong,
                  Detector!Offsets, Offsets, Detector!FrameChips, FrameChips
    <2>4. CASE \E n \in 1 .. MaxChunk : WorkSearching(n)
      BY <2>4, <2>1, <2>2, <2>3, WorkSearchingDecides DEF Passes
    <2>5. CASE \E n \in 1 .. MaxChunk : WorkCollecting(n)
      BY <2>5, <2>1, WorkCollectingDecides
    <2>6. CASE WorkerGet \/ WorkerCallback \/ UNCHANGED vars
      BY <2>6, <2>1, OtherDecides
    <2> QED BY <2>4, <2>5, <2>6 DEF Next
  <1> QED BY <1>1, <1>2, IInvInvariant, PTL DEF Spec, DetectorSpec, Detector!Spec

LEMMA TakenType ==
  ASSUME IInv
  PROVE  Taken \in Seq(Nat) /\ DOMAIN Taken = 1 .. Len(Taken) /\ Len(Taken) \in Nat
  <1>1. Phases(dispatched) \in Seq(Nat) /\ peak \in Nat
    BY PhasesSeq DEF IInv, TypeOK
  <1>2. Taken \in Seq(Nat)
    BY <1>1, AppendProperties DEF Taken
  <1> QED BY <1>2, LenProperties

LEMMA FrontierType == ASSUME IInv PROVE Frontier \in Nat
  BY SinkAssumption DEF Frontier, IInv, TypeOK, FrameChips

LEMMA BelowInterval ==
  ASSUME NEW lo \in Int, NEW hi \in Int, NEW q \in Int,
         q < hi, q \notin lo .. hi - 1
  PROVE  q < lo
  OBVIOUS

(***************************************************************************)
(* No preamble is lost to a chunk boundary, for any chunking of any signal.*)
(***************************************************************************)
THEOREM PreamblesKept == Spec => []NoPreambleLost
  <1>1. Init => NoPreambleLost
    BY DEF Init, NoPreambleLost, Frontier, Chips, Offsets
  <1>2. IInv /\ IInv' /\ NoPreambleLost /\ [Next]_vars => NoPreambleLost'
    <2> SUFFICES ASSUME IInv, IInv', NoPreambleLost, [Next]_vars
                 PROVE  NoPreambleLost'
      OBVIOUS
    <2>1. corr' = corr /\ (Passes \/ Takes)
      <3>1. CASE \E n \in 1 .. MaxChunk : WorkSearching(n)
        BY <3>1, WorkSearchingDecides
      <3>2. CASE corr' = corr /\ Taken' = Taken /\ Frontier' = Frontier
        BY <3>2, FrontierType DEF Passes
      <3> QED BY <3>1, <3>2, WorkCollectingDecides, OtherDecides DEF Next
    <2>2. \A q : Strong(q)' <=> Strong(q)
      BY <2>1 DEF Strong, Offsets
    <2>3. CASE Passes
      <3> SUFFICES ASSUME NEW q \in Offsets, Strong(q), q < Frontier'
                   PROVE  \E i \in DOMAIN Taken :
                             \/ q \in Taken[i] .. Taken[i] + FrameChips - 1
                             \/ q < Taken[i] /\ corr[q] < corr[Taken[i]]
        BY <2>1, <2>2, <2>3 DEF NoPreambleLost, Passes
      <3>1. q < Frontier
        <4>1. q \in Int /\ Frontier \in Int /\ Frontier' \in Int
          BY <2>3, FrontierType DEF Passes, Offsets
        <4>2. \A r \in Frontier .. Frontier' - 1 : ~Strong(r)
          BY <2>3 DEF Passes
        <4>3. q \notin Frontier .. Frontier' - 1
          BY <4>2
        <4> QED BY <4>1, <4>3, BelowInterval
      <3> QED BY <3>1 DEF NoPreambleLost
    <2>4. CASE Takes
      <3>1. PICK p \in Offsets :
               /\ \A q \in Frontier .. p - 1 : corr[q] < corr[p]
               /\ Taken' = Append(Taken, p)
               /\ Frontier' = p + FrameChips
               /\ Frontier <= p
        BY <2>4 DEF Takes
      <3>2. p \in Nat
        BY SinkAssumption DEF Offsets
      <3>3. /\ DOMAIN Taken' = 1 .. Len(Taken) + 1
            /\ \A i \in DOMAIN Taken : Taken'[i] = Taken[i]
            /\ Taken'[Len(Taken) + 1] = p
        <4>1. Append(Taken, p) \in Seq(Nat)
          BY <3>2, TakenType, AppendProperties
        <4> QED BY <4>1, <3>1, <3>2, TakenType, AppendProperties, LenProperties
      <3> SUFFICES ASSUME NEW q \in Offsets, Strong(q), q < p + FrameChips
                   PROVE  \E i \in DOMAIN Taken' :
                             \/ q \in Taken'[i] .. Taken'[i] + FrameChips - 1
                             \/ q < Taken'[i] /\ corr[q] < corr[Taken'[i]]
        <4> HIDE DEF Takes
        <4>1. \A q \in Offsets : Strong(q)' => Strong(q)
          BY <2>2
        <4>2. \A q : corr'[q] = corr[q]
          BY <2>1
        <4> QED BY <4>1, <4>2, <3>1 DEF NoPreambleLost
      <3>4. q \in Int
        BY DEF Offsets
      <3>5. CASE q < Frontier
        BY <3>3, <3>5, TakenType DEF NoPreambleLost
      <3>6. CASE Frontier <= q /\ q < p
        <4>1. corr[q] < corr[p]
          BY <3>1, <3>2, <3>4, <3>6, FrontierType
        <4>2. Len(Taken) + 1 \in DOMAIN Taken'
          BY <3>3, TakenType
        <4> QED BY <4>1, <4>2, <3>3, <3>6
      <3>7. CASE p <= q
        <4>1. Len(Taken) + 1 \in DOMAIN Taken'
          BY <3>3, TakenType
        <4>2. q \in p .. p + FrameChips - 1
          BY <3>2, <3>4, <3>7, SinkAssumption DEF FrameChips
        <4> QED BY <4>1, <4>2, <3>3
      <3> QED BY <3>2, <3>4, <3>5, <3>6, <3>7, FrontierType
    <2> QED BY <2>1, <2>3, <2>4
  <1> QED BY <1>1, <1>2, IInvInvariant, PTL DEF Spec

-----------------------------------------------------------------------------

\* BufferBounded made inductive: what the buffer holds beyond the chips that
\* came since the last search.
ResidueBounded ==
    (PreLen > 1 /\ MaxChunk <= DataChips) =>
        IF state = "SEARCHING"
        THEN Count(buf) - newSamples <= Residue
        ELSE Count(buf) = 0

\* _fill_collect given a run longer than a frame by at most Residue chips.
LEMMA FillCollectResidue ==
  ASSUME NEW lo \in Nat, NEW hi \in Nat, lo <= hi, NEW idx \in 0 .. DataChips - 1,
         NEW held, NEW p, NEW b, Count(b) = 0, newSamples' = 0,
         FillCollect(Chips(lo, hi), idx, held, p, b),
         hi - lo <= Residue + (DataChips - idx), Residue \in Nat
  PROVE  ResidueBounded'
  <1> DEFINE c    == Chips(lo, hi)
             room == DataChips - idx
             take == IF Count(c) < room THEN Count(c) ELSE room
  <1>1. /\ c.lo = lo /\ c.hi = hi /\ take \in Nat
        /\ idx + take >= DataChips => take = room
    BY SinkAssumption DEF Chips, Count
  <1>2. CASE idx + take >= DataChips
    <2>1. buf' = Chips(lo + take, hi) /\ state' = "SEARCHING"
      BY <1>1, <1>2 DEF FillCollect, Leftover
    <2> QED BY <1>1, <1>2, <2>1, SinkAssumption
            DEF ResidueBounded, Chips, Count, Residue
  <1>3. CASE ~(idx + take >= DataChips)
    <2>1. buf' = b /\ state' = "COLLECTING"
      BY <1>3 DEF FillCollect, Leftover
    <2> QED BY <2>1 DEF ResidueBounded, Count
  <1> QED BY <1>2, <1>3

(***************************************************************************)
(* The search buffer never holds more than the residue of one search and   *)
(* the chips that have come since, if chunks are no longer than a frame's  *)
(* data and the preamble has more than one chip.                           *)
(***************************************************************************)
THEOREM BufferStaysBounded == Spec => []BufferBounded
  <1>0. CASE ~(PreLen > 1 /\ MaxChunk <= DataChips)
    <2>1. BufferBounded
      BY <1>0 DEF BufferBounded
    <2> QED BY <2>1, PTL
  <1>1. CASE PreLen > 1 /\ MaxChunk <= DataChips
    <2>1. Residue \in Nat /\ PreLen - 1 <= Residue /\ MaxChunk - 1 <= Residue
      BY SinkAssumption DEF Residue
    <2>2. Init => ResidueBounded
      BY <2>1 DEF Init, ResidueBounded, Chips, Count
    <2>3. IInv /\ ResidueBounded /\ [Next]_vars => ResidueBounded'
      <3> SUFFICES ASSUME IInv, ResidueBounded, [Next]_vars PROVE ResidueBounded'
        OBVIOUS
      <3>1. ASSUME NEW n \in 1 .. MaxChunk, WorkSearching(n) PROVE ResidueBounded'
        <4> DEFINE b == Concat(buf, Chips(pos, pos + n))
        <4>1. /\ state = "SEARCHING" /\ pos \in Nat /\ n \in Nat
              /\ buf = Chips(buf.lo, pos) /\ buf.lo \in Nat /\ buf.lo <= pos
              /\ newSamples \in 0 .. PreLen - 1 /\ pos - buf.lo - newSamples <= Residue
          BY <1>1, <3>1, SinkAssumption
             DEF WorkSearching, IInv, TypeOK, BufferIsTail, ResidueBounded, Chips, Count
        <4>2. b.lo = buf.lo /\ b.hi = pos + n /\ b = Chips(buf.lo, pos + n)
          <5>1. CASE Count(buf) = 0
            BY <5>1, <4>1 DEF Concat, Chips, Count
          <5>2. CASE Count(buf) # 0
            BY <5>2, <4>1 DEF Concat, Chips, Count
          <5> QED BY <5>1, <5>2
        <4>3. CASE newSamples + n >= PreLen /\ Search(b)
          <5>1. newSamples' = 0
            BY <4>3 DEF Search
          <5>2. PICK p \in Offsets :
                   /\ p \in b.lo .. b.hi - PreLen
                   /\ \/ FillCollect(Chips(p + PreLen, b.hi), 0, Chips(0, 0), p,
                                     Chips(0, 0))
                      \/ buf' = KeptTail(b) /\ state' = state
            BY <4>3 DEF Search, IsArgmax
          <5> HIDE DEF b
          <5>3. /\ p \in Nat /\ p + PreLen \in Nat /\ p + PreLen <= pos + n
                /\ buf.lo <= p /\ pos + n \in Nat
                /\ (pos + n) - (p + PreLen) <= Residue + (DataChips - 0)
            BY <1>1, <2>1, <4>1, <4>2, <5>2, SinkAssumption DEF Offsets
          <5>4. CASE buf' = KeptTail(b) /\ state' = state
            BY <5>4, <5>1, <4>1, <4>2, <2>1, <1>1, SinkAssumption
               DEF KeptTail, ResidueBounded, Chips, Count
          <5>5. CASE FillCollect(Chips(p + PreLen, pos + n), 0, Chips(0, 0), p,
                                 Chips(0, 0))
            <6>1. Count(Chips(0, 0)) = 0 /\ 0 \in 0 .. DataChips - 1
              BY SinkAssumption DEF Count, Chips
            <6> QED BY <6>1, <5>5, <5>1, <5>3, <2>1, FillCollectResidue
          <5> QED BY <5>2, <5>4, <5>5, <4>2
        <4>4. CASE buf' = b /\ newSamples' = newSamples + n /\ state' = state
          <5> HIDE DEF b
          <5> QED BY <4>4, <4>1, <4>2 DEF ResidueBounded, Count
        <4> QED BY <3>1, <4>3, <4>4 DEF WorkSearching
      <3>2. ASSUME NEW n \in 1 .. MaxChunk, WorkCollecting(n) PROVE ResidueBounded'
        <4>1. /\ pos \in Nat /\ pos + n \in Nat /\ pos <= pos + n
              /\ collectIdx \in 0 .. DataChips - 1
              /\ Count(buf) = 0 /\ newSamples' = 0
              /\ FillCollect(Chips(pos, pos + n), collectIdx, collect, peak, buf)
          BY <1>1, <3>2, SinkAssumption
             DEF WorkCollecting, IInv, TypeOK, CollectIsTail, ResidueBounded
        <4>2. (pos + n) - pos <= Residue + (DataChips - collectIdx)
          BY <2>1, <4>1, SinkAssumption
        <4> QED BY <4>1, <4>2, <2>1, FillCollectResidue
      <3>3. CASE WorkerGet \/ WorkerCallback \/ UNCHANGED vars
        BY <3>3 DEF WorkerGet, WorkerCallback, vars, search, ResidueBounded
      <3> QED BY <3>1, <3>2, <3>3 DEF Next
    <2>4. IInv /\ ResidueBounded => BufferBounded
      BY <2>1, SinkAssumption
         DEF IInv, TypeOK, ResidueBounded, BufferBounded, Count
    <2> QED BY <2>2, <2>3, <2>4, IInvInvariant, PTL DEF Spec
  <1> QED BY <1>0, <1>1

=============================================================================
