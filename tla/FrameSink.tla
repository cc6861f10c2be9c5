------------------------------ MODULE FrameSink ------------------------------
(***************************************************************************)
(* radio/blocks/frame_sink.py: the receive block that finds a preamble in  *)
(* the chip stream, collects the frame behind it and hands it to a decode  *)
(* thread through a bounded queue.                                         *)
(*                                                                         *)
(* Three threads meet here: the GNU Radio scheduler calls work() with      *)
(* chunks of any size, the decode worker empties the queue, and the stream *)
(* itself is whatever the radio received.  A chip is named by its place in *)
(* the stream, a run of consecutive chips by its two ends, and the signal  *)
(* by the magnitude of its correlation with the preamble at each offset.   *)
(***************************************************************************)
EXTENDS Integers, Sequences

CONSTANTS
    PreLen,      \* _pre_len, chips of the preamble
    DataChips,   \* _data_chips, chips of a frame behind its preamble
    Threshold,   \* _threshold, the correlation a detection needs
    QueueSize,   \* maxsize of _dispatch_queue
    MaxChunk,    \* BOUND: most chips the scheduler hands to one work()
    StreamLen,   \* BOUND: chips received before the flowgraph stops
    Signals      \* the signals that may be received

Offsets == 0 .. StreamLen - PreLen

FrameChips == PreLen + DataChips

ASSUME SinkAssumption ==
    /\ PreLen \in Nat \ {0}
    /\ DataChips \in Nat \ {0}
    /\ Threshold \in Nat
    /\ QueueSize \in Nat \ {0}
    /\ MaxChunk \in Nat \ {0}
    /\ StreamLen \in Nat
    /\ Signals \subseteq [Offsets -> Nat]

VARIABLES
    corr,            \* |np.correlate(stream, preamble)| at each offset
    pos,             \* chips of the stream work() has been given
    state,           \* "SEARCHING" or "COLLECTING"
    buf,             \* _buf: chips held for the next search
    newSamples,      \* _new_samples: chips since the last search
    collect,         \* _collect_buf: chips of the frame being collected
    collectIdx,      \* _collect_idx
    peak,            \* offset _phase_correction and last_snr come from
    framesReceived,  \* frames_received
    dispatched,      \* HISTORY: every frame that reached _dispatch
    dispatchQueue,   \* _dispatch_queue
    worker,          \* what the decode worker is calling back with
    delivered        \* HISTORY: frames passed to the callback

stream == <<corr, pos>>
search == <<state, buf, newSamples, collect, collectIdx, peak>>
decode == <<framesReceived, dispatched, dispatchQueue, worker, delivered>>
vars == <<corr, pos, state, buf, newSamples, collect, collectIdx, peak,
          framesReceived, dispatched, dispatchQueue, worker, delivered>>

-----------------------------------------------------------------------------
(* Runs of consecutive chips.                                              *)

\* The chips lo, lo + 1, ..., hi - 1.
Chips(lo, hi) == [lo |-> lo, hi |-> hi]

Count(c) == c.hi - c.lo

\* c appended behind b: one run only if c starts where b ends.
Concat(b, c) == IF Count(b) = 0 THEN c ELSE Chips(b.lo, c.hi)

Frames == [lo : Nat, hi : Nat, phase : Nat, snr : Nat]

NoFrame == [lo |-> 0, hi |-> 0, phase |-> 0, snr |-> 0]

\* MUTANT of Frame: the SNR is read before _search has updated it.
FrameStaleSnr(c, p) == [lo |-> c.lo, hi |-> c.hi, phase |-> p, snr |-> peak]

\* What is known of a frame: its chips and the preamble they are read with.
Frame(c, p) == [lo |-> c.lo, hi |-> c.hi, phase |-> p, snr |-> p]

Strong(p) == p \in Offsets /\ corr[p] >= Threshold

\* MUTANT of IsArgmax: among equal peaks the last one wins.
IsLastArgmax(p, b) ==
    /\ p \in b.lo .. b.hi - PreLen
    /\ \A q \in b.lo .. b.hi - PreLen :
          corr[q] <= corr[p] /\ (q > p => corr[q] < corr[p])

\* p is np.argmax(np.abs(corr)) over the offsets of b: the strongest, and
\* the first of them.
IsArgmax(p, b) ==
    /\ p \in b.lo .. b.hi - PreLen
    /\ \A q \in b.lo .. b.hi - PreLen :
          corr[q] <= corr[p] /\ (q < p => corr[q] < corr[p])

-----------------------------------------------------------------------------

Init ==
    /\ corr \in Signals
    /\ pos = 0
    /\ state = "SEARCHING"
    /\ buf = Chips(0, 0)
    /\ newSamples = 0
    /\ collect = Chips(0, 0)
    /\ collectIdx = 0
    /\ peak = 0
    /\ framesReceived = 0
    /\ dispatched = <<>>
    /\ dispatchQueue = <<>>
    /\ worker = NoFrame
    /\ delivered = <<>>

\* MUTANT of Offer: a queue without a bound.
OfferUnbounded(q, f) == Append(q, f)

\* put_nowait, with queue.Full caught and the frame forgotten.
Offer(q, f) == IF Len(q) < QueueSize THEN Append(q, f) ELSE q

\* _dispatch: every frame counts as received, but only one that finds room
\* in the queue is ever decoded.
Dispatch(f) ==
    /\ framesReceived' = framesReceived + 1
    /\ dispatched' = Append(dispatched, f)
    /\ dispatchQueue' = Offer(dispatchQueue, f)
    /\ UNCHANGED <<worker, delivered>>

\* MUTANT of Leftover: the chips just collected are searched again.
LeftoverAll(c, take) == c

\* The chips of c behind the take that completed a frame.
Leftover(c, take) == Chips(c.lo + take, c.hi)

\* _fill_collect: c fills the frame being collected from idx on; a full
\* frame is dispatched and the chips behind it go back to the search.
FillCollect(c, idx, held, p, b) ==
    LET room == DataChips - idx
        take == IF Count(c) < room THEN Count(c) ELSE room
        got  == Concat(held, Chips(c.lo, c.lo + take))
    IN  IF idx + take >= DataChips
        THEN /\ Dispatch(Frame(got, p))
             /\ buf' = Leftover(c, take)
             /\ state' = "SEARCHING"
             /\ collectIdx' = 0
             /\ collect' = Chips(0, 0)
        ELSE /\ state' = "COLLECTING"
             /\ buf' = b
             /\ collectIdx' = idx + take
             /\ collect' = got
             /\ UNCHANGED decode

\* MUTANT of KeptTail: one chip short of a preamble that straddles the cut.
KeptTailShort(b) == Chips(b.hi - (PreLen - 2), b.hi)

\* MUTANT of KeptTail: the buffer is never trimmed.
KeptTailAll(b) == b

\* The chips kept after a search that found nothing: buf[-(pl - 1):], which
\* for a one-chip preamble is buf[-0:], the whole buffer.
KeptTail(b) ==
    IF PreLen = 1 THEN b ELSE Chips(b.hi - (PreLen - 1), b.hi)

\* _search over the buffer b, which holds at least one preamble's worth.
Search(b) ==
    /\ newSamples' = 0
    /\ \E p \in Offsets :
          /\ IsArgmax(p, b)
          /\ \/ /\ Strong(p)
                /\ peak' = p
                /\ FillCollect(Chips(p + PreLen, b.hi), 0, Chips(0, 0), p,
                               Chips(0, 0))
             \/ /\ ~Strong(p)
                /\ buf' = KeptTail(b)
                /\ UNCHANGED <<state, collect, collectIdx, peak, decode>>

\* work() while searching: the chunk joins the buffer, and a search is made
\* once a preamble's worth of new chips has come in.
WorkSearching(n) ==
    LET b == Concat(buf, Chips(pos, pos + n))
    IN  /\ state = "SEARCHING"
        /\ pos + n <= StreamLen
        /\ pos' = pos + n
        /\ \/ /\ newSamples + n >= PreLen
              /\ Search(b)
           \/ /\ newSamples + n < PreLen
              /\ buf' = b
              /\ newSamples' = newSamples + n
              /\ UNCHANGED <<state, collect, collectIdx, peak, decode>>
        /\ UNCHANGED corr

\* work() while collecting: the whole chunk goes to _fill_collect.
WorkCollecting(n) ==
    /\ state = "COLLECTING"
    /\ pos + n <= StreamLen
    /\ pos' = pos + n
    /\ FillCollect(Chips(pos, pos + n), collectIdx, collect, peak, buf)
    /\ UNCHANGED <<corr, newSamples, peak>>

\* MUTANT of WorkerIdle: an exception of the first callback ends the thread.
WorkerIdleOnce == worker = NoFrame /\ delivered = <<>>

\* The worker is at its get().
WorkerIdle == worker = NoFrame

\* MUTANT of WorkerGet: the newest frame first, as of a LifoQueue.
WorkerGetNewest ==
    /\ WorkerIdle
    /\ dispatchQueue # <<>>
    /\ worker' = dispatchQueue[Len(dispatchQueue)]
    /\ dispatchQueue' = SubSeq(dispatchQueue, 1, Len(dispatchQueue) - 1)
    /\ UNCHANGED <<stream, search, framesReceived, dispatched, delivered>>

\* _decode_worker takes the oldest frame of the queue ...
WorkerGet ==
    /\ WorkerIdle
    /\ dispatchQueue # <<>>
    /\ worker' = Head(dispatchQueue)
    /\ dispatchQueue' = Tail(dispatchQueue)
    /\ UNCHANGED <<stream, search, framesReceived, dispatched, delivered>>

\* ... and calls back with it; an exception of the callback is only logged.
WorkerCallback ==
    /\ worker # NoFrame
    /\ delivered' = Append(delivered, worker)
    /\ worker' = NoFrame
    /\ UNCHANGED <<stream, search, framesReceived, dispatched, dispatchQueue>>

Next ==
    \/ \E n \in 1 .. MaxChunk : WorkSearching(n) \/ WorkCollecting(n)
    \/ WorkerGet
    \/ WorkerCallback

Spec == Init /\ [][Next]_vars

\* The decode thread is never stopped and its loop survives exceptions; no
\* fairness is asked of the radio.
FairSpec == Spec /\ WF_vars(WorkerGet) /\ WF_vars(WorkerCallback)

-----------------------------------------------------------------------------
(* Properties.                                                             *)

TypeOK ==
    /\ corr \in [Offsets -> Nat]
    /\ pos \in 0 .. StreamLen
    /\ state \in {"SEARCHING", "COLLECTING"}
    /\ buf \in [lo : Nat, hi : Nat]
    /\ newSamples \in 0 .. PreLen - 1
    /\ collect \in [lo : Nat, hi : Nat]
    /\ collectIdx \in 0 .. DataChips - 1
    /\ peak \in Nat
    /\ framesReceived \in Nat
    /\ dispatched \in Seq(Frames)
    /\ dispatchQueue \in Seq(Frames)
    /\ Len(dispatchQueue) <= QueueSize
    /\ worker \in Frames
    /\ delivered \in Seq(Frames)

Phases(frames) == [i \in DOMAIN frames |-> frames[i].phase]

\* The offsets of the frames taken so far, the one being collected included.
Taken ==
    IF state = "COLLECTING"
    THEN Append(Phases(dispatched), peak)
    ELSE Phases(dispatched)

\* Every offset below it has been decided.
Frontier == IF state = "SEARCHING" THEN buf.lo ELSE peak + FrameChips

(***************************************************************************)
(* However the scheduler cuts the stream into chunks, a dispatched frame   *)
(* is exactly the DataChips chips that follow a preamble at or above the   *)
(* threshold, and it is despread with the phase, and reported with the     *)
(* SNR, of that very preamble (_search, _fill_collect, _dispatch).         *)
(***************************************************************************)
FrameExtent ==
    \A i \in DOMAIN dispatched :
        LET f == dispatched[i]
        IN  /\ Strong(f.phase)
            /\ f.snr = f.phase
            /\ f.lo = f.phase + PreLen
            /\ f.hi = f.lo + DataChips

(***************************************************************************)
(* No chip is used by two frames: the leftover _fill_collect returns to    *)
(* the search starts behind the frame it has just completed.               *)
(***************************************************************************)
FramesDisjoint ==
    \A i, j \in DOMAIN dispatched :
        i < j => dispatched[i].hi <= dispatched[j].phase

(***************************************************************************)
(* No preamble is lost to a chunk boundary.  Once the detector has moved   *)
(* past an offset that reached the threshold, that offset lies in a frame  *)
(* it took, or a stronger one further on was taken from the same buffer.   *)
(***************************************************************************)
NoPreambleLost ==
    \A q \in Offsets :
        (Strong(q) /\ q < Frontier) =>
            \E i \in DOMAIN Taken :
                \/ q \in Taken[i] .. Taken[i] + FrameChips - 1
                \/ q < Taken[i] /\ corr[q] < corr[Taken[i]]

(***************************************************************************)
(* The decode thread sees a subsequence of the frames in stream order:     *)
(* frames may be dropped at the full queue, never repeated or reordered.   *)
(***************************************************************************)
DecodedInOrder ==
    LET inHand == IF worker = NoFrame THEN <<>> ELSE <<worker>>
        all    == delivered \o inHand \o dispatchQueue
    IN  /\ \A i \in DOMAIN all : \E j \in DOMAIN dispatched : all[i] = dispatched[j]
        /\ \A i, j \in DOMAIN all : i < j => all[i].phase < all[j].phase

(***************************************************************************)
(* The search buffer stays bounded while a chunk is no longer than the     *)
(* data of a frame: one search per work() call then keeps up with the      *)
(* stream.  (With a one-chip preamble buf[-0:] keeps everything.)          *)
(***************************************************************************)
Residue == IF PreLen > MaxChunk THEN PreLen - 1 ELSE MaxChunk - 1

BufferBounded ==
    (PreLen > 1 /\ MaxChunk <= DataChips) => Count(buf) <= Residue + PreLen - 1

(***************************************************************************)
(* Every frame the queue accepted reaches the callback: the decode thread  *)
(* outlives its own exceptions (_decode_worker).                           *)
(***************************************************************************)
Among(p, frames) == \E i \in DOMAIN frames : frames[i].phase = p

AcceptedIsDecoded ==
    \A p \in Offsets : Among(p, dispatchQueue) ~> Among(p, delivered)

\* The block implements the detector of FrameDetector.tla.
Detector == INSTANCE FrameDetector WITH frontier <- Frontier, taken <- Taken

DetectorSpec == Detector!Spec

=============================================================================
