---------------------------- MODULE MCControlPlane ----------------------------
(***************************************************************************)
(* Small settings for TLC: bytes of four bits, rates such that hopping     *)
(* raises the sample rate, a chip rate that has to be snapped and one that *)
(* is just within the tolerance, frames that cannot be sent with QPSK, a   *)
(* modulation the flowgraphs do not support.                               *)
(***************************************************************************)
EXTENDS ControlPlane

K3 == [enabled |-> TRUE, primary |-> "cc", outer |-> "none", K |-> 3, rate |-> 2, nsym |-> 1]

Frame(total, fec) ==
    [totalBits |-> total, preambleBits |-> 4, invariantBits |-> 3, fec |-> fec]

SmallFrames ==
    {Frame(14, K3), Frame(11, [K3 EXCEPT !.enabled = FALSE]),
     Frame(11, [K3 EXCEPT !.outer = "rs"]),
     Frame(11, [K3 EXCEPT !.primary = "none", !.outer = "rs"])}

Bpsk(rate) == [type |-> "bpsk", chipRate |-> rate, codeLength |-> 3]

SmallModulations == {Bpsk(440), Bpsk(501), [Bpsk(250) EXCEPT !.type = "qpsk"], [Bpsk(250) EXCEPT !.type = "psk8"]}

NoHopping == [enabled |-> FALSE, offsets |-> {}]
SmallHoppings ==
    {NoHopping, [enabled |-> TRUE, offsets |-> {500, 1500}], [enabled |-> TRUE, offsets |-> {450}]}

SmallRfs == {[sampleRate |-> 2000, gain |-> 10], [sampleRate |-> 1500, gain |-> 20]}

Quiet == [enabled |-> FALSE, level |-> 0, interference |-> FALSE, source |-> "awgn"]
SmallAnomalies ==
    {Quiet, [Quiet EXCEPT !.interference = TRUE],
     [Quiet EXCEPT !.enabled = TRUE, !.level = 1, !.source = "file"]}

NoLogs == [format |-> "cf32", recordTx |-> FALSE, recordRx |-> FALSE]
SmallLogs == {[NoLogs EXCEPT !.format = "sigmf", !.recordTx = TRUE], [NoLogs EXCEPT !.recordRx = TRUE],
     [NoLogs EXCEPT !.format = "i8", !.recordTx = TRUE]}

Default ==
    [rf |-> [sampleRate |-> 1500, gain |-> 10, bandwidth |-> 1500],
     hopping |-> NoHopping, modulation |-> Bpsk(250), frame |-> Frame(14, K3),
     timing |-> [transition |-> 1, burst |-> [chips |-> 0, rate |-> 250]],
     anomaly |-> Quiet, logging |-> [format |-> "sigmf", recordTx |-> TRUE, recordRx |-> TRUE]]

SmallConfig == Validated(Default)

=============================================================================
