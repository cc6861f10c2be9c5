------------------------------ MODULE LinkConfig ------------------------------
(***************************************************************************)
(* core/config_manager.py without its manager: what a configuration holds, *)
(* what is derived from it whenever it is validated, and what the GUI      *)
(* displays of it.                                                         *)
(*                                                                         *)
(* A configuration is a record of sections, each with the settings some    *)
(* property tells apart.  Rates are kHz, rounded down; hopping.offsets are *)
(* the distances of hop_frequencies from center_frequency.  burst is the   *)
(* burst duration, as chips at a chip rate.                                *)
(***************************************************************************)
EXTENDS FrameGenerator

CONSTANT Rolloff    \* pulse_shaping.rolloff, percent

ASSUME RolloffAssumption == Rolloff \in 0 .. 100

BitsPerSymbol == [bpsk |-> 1, qpsk |-> 2, psk8 |-> 3]

(* The Pydantic classes.  A list of hop frequencies is finite, so the set   *)
(* of their offsets has a largest unless it is empty.                      *)
Offsets == {S \in SUBSET Nat : S = {} \/ Max(S) \in S}

RfSection == [sampleRate : Nat \ {0}, gain : Int, bandwidth : Nat]
HoppingSection == [enabled : BOOLEAN, offsets : Offsets]
ModulationSection ==
    [type : DOMAIN BitsPerSymbol, chipRate : Nat \ {0}, codeLength : Nat \ {0}]
FecSection ==
    [enabled : BOOLEAN, primary : {"cc", "none"}, outer : {"rs", "none"},
     K : Nat \ {0}, rate : Nat \ {0}, nsym : Nat]
FrameSection ==
    [totalBits : Nat, preambleBits : Nat, invariantBits : Nat, fec : FecSection]
TimingSection == [transition : Nat, burst : [chips : Int, rate : Nat \ {0}]]
(* level is what AnomalyBlock applies: carrier offset, fade, IQ imbalance.  *)
AnomalySection ==
    [enabled : BOOLEAN, level : Nat,
     interference : BOOLEAN, source : {"awgn", "tone", "file", "zmq_stream"}]
LoggingSection == [format : {"cf32", "i8", "sigmf"}, recordTx : BOOLEAN, recordRx : BOOLEAN]

Configurations ==
    [rf : RfSection, hopping : HoppingSection, modulation : ModulationSection,
     frame : FrameSection, timing : TimingSection, anomaly : AnomalySection,
     logging : LoggingSection]

SymbolRate(c) == c.modulation.chipRate \div BitsPerSymbol[c.modulation.type]

(* Python's round() of a / b *)
Round(a, b) ==
    LET down == a \div b
        rest == 2 * (a % b)
    IN  IF rest < b \/ (rest = b /\ down % 2 = 0) THEN down ELSE down + 1

Magnitude(n) == IF n < 0 THEN -n ELSE n

-----------------------------------------------------------------------------
(* _derive_frame_params                                                    *)

(* min_sr: the rotated signal must fit *)
NeededRate(c) ==
    2 * Max(c.hopping.offsets) + (SymbolRate(c) * (100 + Rolloff)) \div 100

\* MUTANT of RaisedRate: the margin is added whether it is needed or not.
RaisedRateAlways(c) ==
    IF c.hopping.enabled /\ c.hopping.offsets # {}
    THEN (NeededRate(c) * 11) \div 10 ELSE c.rf.sampleRate

RaisedRate(c) ==
    IF /\ c.hopping.enabled /\ c.hopping.offsets # {}
       /\ c.rf.sampleRate < NeededRate(c)
    THEN (NeededRate(c) * 11) \div 10
    ELSE c.rf.sampleRate

(* sps_int, at least one *)
RoundedSps(c) ==
    LET sps == Round(c.rf.sampleRate * BitsPerSymbol[c.modulation.type],
                     c.modulation.chipRate)
    IN  IF sps < 1 THEN 1 ELSE sps

\* MUTANT of SnappedChipRate: the chip rate stays as it was entered.
SnappedChipRateNever(c) == c.modulation.chipRate

(* The chip rate stays where sps is within 0.02 of an integer. *)
SnappedChipRate(c) ==
    LET samples == c.rf.sampleRate * BitsPerSymbol[c.modulation.type]
        sps     == RoundedSps(c)
    IN  IF 50 * Magnitude(samples - sps * c.modulation.chipRate) > c.modulation.chipRate
        THEN samples \div sps ELSE c.modulation.chipRate

Derived(c) ==
    LET raised == [c EXCEPT !.rf.sampleRate = RaisedRate(c)]
    IN  [raised EXCEPT !.modulation.chipRate = SnappedChipRate(raised),
                       !.rf.bandwidth = raised.rf.sampleRate]

-----------------------------------------------------------------------------
(* SurrogateConfig                                                         *)

(* FrameConfig.payload_bits *)
PayloadLength(c) == c.frame.totalBits - c.frame.preambleBits - c.frame.invariantBits

(* The codecs FECCodec builds *)
Codec(fec) ==
    [enabled |-> fec.enabled,
     cc      |-> fec.enabled /\ fec.primary = "cc",
     rs      |-> fec.enabled /\ fec.outer = "rs",
     K |-> fec.K, rate |-> fec.rate, nsym |-> fec.nsym,
     taps |-> [j \in 1 .. fec.rate |-> {0}]]

(* The frame as FrameGenerator and the flowgraphs see it *)
FrameOf(c) ==
    [preamble    |-> [i \in 1 .. c.frame.preambleBits |-> 0],
     invariant   |-> [i \in 1 .. c.frame.invariantBits |-> 0],
     payloadBits |-> PayloadLength(c),
     fec         |-> Codec(c.frame.fec),
     code        |-> [i \in 1 .. c.modulation.codeLength |-> 0]]

(* compute_burst_duration: chips of a frame *)
BurstChips(c) ==
    LET info  == c.frame.invariantBits + PayloadLength(c)
        coded == IF c.frame.fec.enabled
                 THEN CodedLength(Codec(c.frame.fec), BytesFor(info) * ByteBits)
                 ELSE info
    IN  c.frame.preambleBits + coded * c.modulation.codeLength

(* SurrogateConfig.model_validate *)
Validated(c) ==
    LET d == Derived(c)
    IN  [d EXCEPT !.timing.burst = [chips |-> BurstChips(d),
                                    rate  |-> d.modulation.chipRate]]

-----------------------------------------------------------------------------
(* What is shown and what is built                                         *)

\* MUTANT of DisplayedChips: the outer code's bytes are forgotten.
DisplayedChipsNoOuter(c) ==
    LET fec  == c.frame.fec
        info == c.frame.invariantBits + PayloadLength(c)
        coded == IF fec.enabled /\ fec.primary = "cc"
                 THEN (BytesFor(info) * ByteBits + fec.K - 1) * fec.rate ELSE info
    IN  c.frame.preambleBits + coded * c.modulation.codeLength

(* compute_frame_stats: total_chips *)
DisplayedChips(c) ==
    LET fec   == c.frame.fec
        info  == c.frame.invariantBits + PayloadLength(c)
        bytes == BytesFor(info) + (IF fec.outer = "rs" THEN fec.nsym ELSE 0)
        coded == IF fec.enabled /\ fec.primary = "cc"
                 THEN (bytes * ByteBits + fec.K - 1) * fec.rate
                 ELSE info
    IN  c.frame.preambleBits + coded * c.modulation.codeLength

(* TXFlowgraph's interpolation: int(sps) *)
Interpolation(c) ==
    (c.rf.sampleRate * BitsPerSymbol[c.modulation.type]) \div c.modulation.chipRate

(* What the flowgraphs' constructors raise about *)
Buildable(c) ==
    /\ c.modulation.type \in {"bpsk", "qpsk"}
    /\ TxTotalChips(FrameOf(c)) % BitsPerSymbol[c.modulation.type] = 0

=============================================================================
