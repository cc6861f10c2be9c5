----------------------------- MODULE MCFrameSink -----------------------------
(* Signals for the bounded runs of FrameSink. *)
EXTENDS FrameSink, FiniteSets

\* Correlations below, at and above the threshold, with at most three
\* offsets that could start a frame.
SparseSignals ==
    {s \in [Offsets -> {Threshold - 1, Threshold, Threshold + 1}] :
        Cardinality({p \in Offsets : s[p] >= Threshold}) \in 1 .. 3}

=============================================================================
