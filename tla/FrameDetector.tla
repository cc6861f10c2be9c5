---------------------------- MODULE FrameDetector ----------------------------
(***************************************************************************)
(* What the receiver's frame detector promises, without chunks, buffers or *)
(* threads.  The chip stream is decided from left to right: the detector   *)
(* either passes over offsets whose correlation with the preamble stays    *)
(* below the threshold, or takes a frame at an offset that reaches it and  *)
(* is at least as strong as every offset it passes over to get there.      *)
(***************************************************************************)
EXTENDS Integers, Sequences

CONSTANTS
    PreLen,      \* chips of the preamble
    DataChips,   \* chips of a frame after its preamble
    Threshold,   \* the correlation a detection needs
    StreamLen    \* BOUND: chips of the stream

\* Offsets of the stream at which a whole preamble still fits.
Offsets == 0 .. StreamLen - PreLen

FrameChips == PreLen + DataChips

VARIABLES
    corr,      \* |correlation| of the stream with the preamble, per offset
    frontier,  \* every offset below it has been decided
    taken      \* the offsets of the frames taken, in order

vars == <<corr, frontier, taken>>

Init ==
    /\ corr \in [Offsets -> Nat]
    /\ frontier = 0
    /\ taken = <<>>

Strong(p) == p \in Offsets /\ corr[p] >= Threshold

\* Nothing worth a frame below f: pass over it.
Skip ==
    \E f \in frontier + 1 .. StreamLen :
        /\ \A q \in frontier .. f - 1 : ~Strong(q)
        /\ frontier' = f
        /\ UNCHANGED <<corr, taken>>

\* A frame at p, and everything up to its last chip belongs to it.
Take ==
    \E p \in Offsets :
        /\ p >= frontier
        /\ Strong(p)
        /\ \A q \in frontier .. p - 1 : corr[q] < corr[p]
        /\ frontier' = p + FrameChips
        /\ taken' = Append(taken, p)
        /\ UNCHANGED corr

Next == Skip \/ Take

Spec == Init /\ [][Next]_vars

=============================================================================
