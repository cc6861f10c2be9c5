------------------------------- MODULE Hopping -------------------------------
(***************************************************************************)
(* Baseband frequency hopping: core/hop_scheduler.py and the two           *)
(* BasebandHoppers of a session (radio/blocks/baseband_hopper.py), one in  *)
(* the transmitter and one in the receiver, that share one scheduler but   *)
(* count samples each on their own.                                        *)
(*                                                                         *)
(* Each hopper's work() runs on a thread of its flowgraph, in chunks of    *)
(* whatever size, and asks the scheduler once per hop, with no lock held   *)
(* between the questions.  The scheduler may be given another list or seed *)
(* in between, by FlowgraphManager.set_hop_frequencies and set_hop_seed,   *)
(* which nothing in the program calls so far.  Its next_frequency, reset   *)
(* and _index, which nothing calls or changes either, are left out.        *)
(* A phase is an integer, in units of one frequency step over one sample.  *)
(* Without hopping there is no hopper, which is the same as one that       *)
(* passes its samples through.                                             *)
(***************************************************************************)
EXTENDS Integers, Sequences

CONSTANTS
    Centre,       \* rf.center_frequency
    Bandwidth,    \* rf.tx_bandwidth
    Spacing,      \* _HOP_SPACING_HZ
    Simulated,    \* rf.simulation
    Hoppings,     \* sections "hopping" a session may be built from
    Lists, Seeds, \* what update_frequencies and update_seed are given
    Draws,        \* per seed, what the random generator draws, from 0 on
    Tiles,        \* repetitions of a sequential list: 10000 in the program
    Period,       \* _period_samples
    MaxChunk,     \* BOUND: samples a call of work() is given
    MaxSamples,   \* BOUND: samples transmitted
    MaxLag,       \* BOUND: samples captured before the first of them
    MaxUpdates    \* BOUND: updates of the scheduler

(* HoppingConfig: a list of frequencies may be empty. *)
HoppingSection ==
    [enabled : BOOLEAN, type : {"sequential", "custom", "random"},
     freqs : Seq(Int), pattern : Seq(Int), seed : DOMAIN Draws]

ASSUME HoppingAssumption ==
    /\ {Period, MaxChunk, Tiles, Spacing} \subseteq Nat \ {0}
    /\ {MaxSamples, MaxLag, MaxUpdates, Bandwidth} \subseteq Nat
    /\ Simulated \in BOOLEAN
    /\ Centre \in Int
    /\ Hoppings \subseteq HoppingSection
    /\ Lists \subseteq Seq(Int) /\ Seeds \subseteq DOMAIN Draws
    /\ \A seed \in DOMAIN Draws : Draws[seed] \in Seq(Nat) \ {<<>>}

VARIABLES
    hopping,  \* HopScheduler._cfg
    sequence, \* HopScheduler._sequence
    version,  \* how often it has been replaced
    tuned,    \* the frequency the receiver has been tuned to
    tx, rx,   \* the hoppers
    air,      \* samples transmitted and not yet captured
    last      \* the last samples transmitted and received

scheduler == <<hopping, sequence, version>>
vars == <<scheduler, tuned, tx, rx, air, last>>

Idle == [k |-> 0]
NoVersion == -1

-----------------------------------------------------------------------------
(* HopScheduler                                                            *)

(* _auto_frequencies *)
AutoFrequencies ==
    LET half == (Bandwidth \div 2) \div Spacing
        hops == IF half < 1 THEN 1 ELSE half
    IN  [j \in 1 .. 2 * hops + 1 |-> Centre + (j - 1 - hops) * Spacing]

(* _build_sequence *)
BuildSequence(c) ==
    LET freqs == IF c.freqs = <<>> THEN AutoFrequencies ELSE c.freqs
    IN  CASE ~c.enabled -> <<Centre>>
          [] c.enabled /\ c.type = "sequential" ->
               [i \in 1 .. Tiles * Len(freqs) |-> freqs[((i - 1) % Len(freqs)) + 1]]
          [] c.enabled /\ c.type = "custom" ->
               IF c.pattern # <<>> THEN c.pattern ELSE freqs
          [] c.enabled /\ c.type = "random" ->
               [i \in DOMAIN Draws[c.seed] |-> freqs[(Draws[c.seed][i] % Len(freqs)) + 1]]

FrequencyAt(hop) == sequence[(hop % Len(sequence)) + 1]

Rebuilt(c) ==
    /\ version < MaxUpdates
    /\ hopping' = c
    /\ sequence' = BuildSequence(c)
    /\ version' = version + 1
    /\ UNCHANGED <<tuned, tx, rx, air, last>>

UpdateFrequencies == \E list \in Lists : Rebuilt([hopping EXCEPT !.freqs = list])

UpdateSeed == \E seed \in Seeds : Rebuilt([hopping EXCEPT !.seed = seed])

-----------------------------------------------------------------------------
(* BasebandHopper.work                                                     *)

Hop(n) == n \div Period

Shift(hop) == FrequencyAt(hop) - Centre

\* MUTANT of TurnedBefore: the last hop but one is left out.
TurnedBeforeShort(hop) ==
    LET cum_df[h \in 0 .. hop] == IF h <= 1 THEN 0 ELSE cum_df[h - 1] + Shift(h - 2)
    IN  cum_df[hop] * Period

(* cum_df, in samples: the phase at the start of a hop *)
TurnedBefore(hop) ==
    LET cum_df[h \in 0 .. hop] == IF h = 0 THEN 0 ELSE cum_df[h - 1] + Shift(h - 1)
    IN  cum_df[hop] * Period

\* MUTANT of Sign: the receiver rotates as the transmitter does.
SignSame(mode) == 1

Sign(mode) == IF mode = "tx" THEN 1 ELSE -1

(* Up to the loop over the chunk's hops: is there one frequency only, and  *)
(* where do the hops start.  The questions cum_df asks are taken at once:  *)
(* of a chunk in which the scheduler changes no property says anything.    *)
Begun(hopper, k) ==
    [k |-> k, from |-> version, alone |-> Len(sequence) = 1,
     turned |-> [h \in Hop(hopper.count) .. Hop(hopper.count + k - 1) |-> TurnedBefore(h)]]

(* The phase sample n is turned by *)
Rotation(mode, job, n) ==
    IF job.alone THEN 0
    ELSE Sign(mode) * (job.turned[Hop(n)] + Shift(Hop(n)) * (n % Period))

(* Every question of the chunk was answered from the present sequence. *)
Whole(job) == job.from = version

\* MUTANT of Finished: the next chunk's count starts one too far.
FinishedFar(hopper) == [count |-> hopper.count + hopper.job.k + 1, job |-> Idle]

Finished(hopper) == [count |-> hopper.count + hopper.job.k, job |-> Idle]

TxBegin ==
    \E k \in 1 .. MaxChunk :
        /\ tx.job = Idle
        /\ tx.count + k <= MaxSamples
        /\ tx' = [tx EXCEPT !.job = Begun(tx, k)]
        /\ UNCHANGED <<scheduler, tuned, rx, air, last>>

TxFinish ==
    LET sample(n) == [n |-> n, hop |-> Hop(n), shift |-> Shift(Hop(n)),
                      phase |-> Rotation("tx", tx.job, n),
                      whole |-> IF Whole(tx.job) THEN version ELSE NoVersion]
    IN  /\ tx.job # Idle
        /\ tx' = Finished(tx)
        /\ air' = air \o [i \in 1 .. tx.job.k |-> sample(tx.count + i - 1)]
        /\ UNCHANGED <<scheduler, tuned, rx, last>>

(* RXFlowgraph is started first: it captures noise until the first sample. *)
RxNoise ==
    /\ rx.job = Idle
    /\ tx.count = 0
    /\ rx.count < MaxLag
    /\ rx' = [rx EXCEPT !.count = @ + 1]
    /\ UNCHANGED <<scheduler, tuned, tx, air, last>>

(* UHD overflow: a sample no block ever counts *)
Lose ==
    /\ rx.job = Idle
    /\ air # <<>>
    /\ air' = Tail(air)
    /\ UNCHANGED <<scheduler, tuned, tx, rx, last>>

RxBegin ==
    \E k \in 1 .. MaxChunk :
        /\ rx.job = Idle
        /\ k <= Len(air)
        /\ rx' = [rx EXCEPT !.job = Begun(rx, k)]
        /\ UNCHANGED <<scheduler, tuned, tx, air, last>>

(* What is left of a sample's phase behind the receiver's hopper, of a     *)
(* signal sent around Centre and received around tuned *)
Received(m, sample) ==
    [n |-> sample.n, m |-> m, hop |-> sample.hop,
     residual |-> sample.phase + (Centre - tuned) * m + Rotation("rx", rx.job, m),
     whole |-> Whole(rx.job) /\ sample.whole = version,
     version |-> version]

RxFinish ==
    LET previous == IF last = <<>> THEN <<>> ELSE <<last[Len(last)]>>
    IN  /\ rx.job # Idle
        /\ rx' = Finished(rx)
        /\ last' = previous \o
                     [i \in 1 .. rx.job.k |-> Received(rx.count + i - 1, air[i])]
        /\ air' = SubSeq(air, rx.job.k + 1, Len(air))
        /\ UNCHANGED <<scheduler, tuned, tx>>

-----------------------------------------------------------------------------

(* _build_flowgraphs: the transmitter is tuned to Centre, the receiver to  *)
(* the first frequency of the sequence, the simulated one not at all.      *)
Init ==
    /\ hopping \in Hoppings
    /\ sequence = BuildSequence(hopping)
    /\ version = 0
    /\ tuned = IF Simulated THEN Centre ELSE FrequencyAt(0)
    /\ tx = [count |-> 0, job |-> Idle]
    /\ rx = [count |-> 0, job |-> Idle]
    /\ air = <<>>
    /\ last = <<>>

Next ==
    \/ UpdateFrequencies \/ UpdateSeed
    \/ TxBegin \/ TxFinish
    \/ RxNoise \/ Lose \/ RxBegin \/ RxFinish

Spec == Init /\ [][Next]_vars

-----------------------------------------------------------------------------
(* Properties                                                              *)

TypeOK ==
    /\ hopping.freqs \in Seq(Int)
    /\ sequence \in Seq(Int) \ {<<>>}
    /\ version \in 0 .. MaxUpdates
    /\ tuned \in Int
    /\ tx.count \in 0 .. MaxSamples
    /\ rx.count \in 0 .. MaxSamples + MaxLag
    /\ {tx.job.k, rx.job.k} \subseteq 0 .. MaxChunk

(* Samples sent one after the other and received one after the other *)
Consecutive(s, t) == t.m = s.m + 1 /\ t.n = s.n + 1

(***************************************************************************)
(* However the stream is cut into chunks, the transmitter's phase advances *)
(* from each sample to the next by the shift of the sample's hop, across   *)
(* chunks and hops, as long as the scheduler is left alone.  RESUME.md     *)
(* says so at line 13 ("phase continuity across hop boundaries"), and the  *)
(* opposite at line 100 ("Phase is reset to 0 at each hop boundary to      *)
(* avoid numerical drift"): work() sums the turns of all hops before and   *)
(* resets nothing.  The "Phase jumps at hop boundaries" of                 *)
(* baseband_hopper.py:21 are those of the received signal, by the hop's    *)
(* shift over the delay between the two counters.                          *)
(***************************************************************************)
PhaseIsContinuous ==
    \A i \in 1 .. Len(air) - 1 :
        LET s == air[i]  t == air[i + 1]
        IN  s.whole = t.whole /\ s.whole = version /\ Len(sequence) > 1 =>
                t.phase - s.phase = s.shift

(***************************************************************************)
(* Whatever the receiver's lead, its chunks, lost samples and updates of   *)
(* the scheduler: where both hoppers are in the same hop and have used one *)
(* sequence, the hops cancel: only the difference of the two tunings still *)
(* turns the signal.  RESUME.md:32 says there is none ("both TX and RX     *)
(* stay on a single fixed center frequency"); but RXFlowgraph tunes the    *)
(* receiver to the first hop, TXFlowgraph the transmitter to Centre.       *)
(***************************************************************************)
HopsCancel ==
    \A i \in 1 .. Len(last) - 1 :
        LET s == last[i]  t == last[i + 1]
        IN  /\ Consecutive(s, t)
            /\ s.whole /\ t.whole /\ s.version = t.version
            /\ Hop(s.m) = s.hop
            => t.residual - s.residual = Centre - tuned

=============================================================================
