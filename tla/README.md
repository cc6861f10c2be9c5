# TLA+ models of the datalink surrogate

This directory holds TLA+ specifications of the surrogate's own logic, the TLC
configurations that check them on small instances, and proofs of their main
properties for every instance. `PROJECT.json` ties every definition to the
lines it models, lists the runs with their properties, and lists the hazards
of the code together with the property that would catch each going wrong.

To check one run: `tlc -config FrameSink.cfg MCFrameSink`. To check the proofs
of one module: `tlapm FrameSinkProofs.tla`.

## 1. Inventory

### Threads

| thread | created by | stopped by | runs |
|---|---|---|---|
| main (GUI or headless) | process | exit | every call of `FlowgraphManager`, `ConfigManager`, the panels, `get_stats` from a timer |
| feeder, one per TX flowgraph | `TXFlowgraph.start` | reads `_running` between frames, never joined | `_frame_feeder`, `FlowgraphManager._on_tx_frame` |
| GNU Radio threads | `top_block.start` | `stop()` and `wait()` | every block's `work()` |
| decode worker, one per `FrameSink` | `FrameSink.__init__` | never (`while True`) | `parse_frame`, `FlowgraphManager._dispatch_frame` |
| HW-Monitor, one per `start()` | `FlowgraphManager.start` | reads `_running` every 2 s, never joined | device queries under `_lock` |
| CSV worker | `SurrogateLogger` | `close()` lowers a flag it reads; daemon, never joined, and `main.py` never closes it | writes rows |

### Components

| component | state | operations | what is hard | what makes it correct |
|---|---|---|---|---|
| `radio/blocks/frame_sink.py` | search buffer, state, collect buffer and index, phase and SNR of the last peak, dispatch queue of 2 | `work`, `_search`, `_fill_collect`, `_dispatch`, decode worker | chunks of any size cut preambles and frames anywhere; attributes set in one call are used many calls later; a bounded queue between two threads | frames are whole, disjoint, read with their own preamble; no preamble lost at a cut; decoded in order; bounded buffer |
| `radio/tx_flowgraph.py` | chip queue of 2, frame ids, current frame and offset, `_running` | feeder thread, `FrameChipSource.work`, `start`, `stop`, recording taps | queue timeouts and burst dropout against frame ids; output buffers of any length; `stop()` without join | nothing lost, torn, repeated or reordered on the way to the antenna; contiguous ids; at most one late frame; the feeder ends |
| `radio/flowgraph_manager.py` | `_running`, `_tx_fg`, `_rx_fg`, `_official_tx_started`, `_stats` | `start`, `stop`, `restart`, `get_stats`, callbacks, monitor, live setters | threads of old sessions write the state of the new one; construction fails half way; counters with different lifetimes | one live session when running, none when not; counted frames were detected; monitors end |
| `radio/rx_flowgraph.py` | signal chain, `FrameSink` | callbacks, recording taps, getters | same session problems | part of the manager's sessions |
| `core/frame_generator.py`, `core/datalink_profile.py` | frame layout, header counters, sync word, CRC | build, parse, interleave, whiten, find sync | lengths rounded up to bytes and to coded blocks on both sides; a counter of fixed width; a sync word found at the wrong place | parse inverts build; lengths computed by the two sides agree |
| `core/fec_codec.py` | trellis of the convolutional code, RS parameters | encode, Viterbi decode, RS, `coded_length` | tail bits, ties, blocks cut short | decode inverts encode and corrects what the distance allows; `coded_length` is the encoder's length |
| `core/hop_scheduler.py`, `radio/blocks/baseband_hopper.py` | hop sequence, sample counter of each hopper | rebuild, `frequency_at`, live frequency and seed changes; `work` | the phase at a chunk that starts inside a hop is rebuilt from the counter; each end counts its own samples and is tuned from another setting | the phase is continuous however the stream is cut; the hops of the two ends cancel |
| `radio/hop_timing.py` | epoch, retune queue, refill thread | configure, start, stop, refill | not used at runtime any more | issued once, in order, ahead of time |
| `core/config_manager.py` | current configuration, path, listeners | load, reload, save, update, notify; derived rates, bandwidth and burst duration | every validation derives again, one setting from another, so an update of one section can change the next; frame lengths computed in three places | validating twice changes nothing; what is displayed is what is sent |
| `core/anomaly_injector.py`, `radio/blocks/anomaly_block.py` | one state object replaced by the GUI thread | `update_from_config`, `apply_*`, `work` | block is only connected if anomalies were on at build time; state read several times per call | an update takes effect as a whole |
| `gui/main_window.py`, `gui/panels/*` | start and stop buttons, recorder | routing of panel updates, recording | some sections need a restart, others reach the running session; load restarts nothing; restart while stopped | a live session has the radio, hopping, modulation and frame settings of the configuration, or the user has been told to restart |
| `radio/iq_recorder.py` and the recording taps | sinks, connected flag | enable, disable, start, stop | taps belong to a session, the recorder to the window; two record buttons share it | no tap without a recorder; metadata name the rate that is recorded |
| `logging_module/*` | row queue, writer thread | log, close | rows queued when the logger closes | rows in order, none lost without a sign |
| `radio/blocks/dsss_*`, `preamble_inserter.py`, `interleave.py`, `burst_gate.py` | sample-level state machines | `work` | no flowgraph creates them | |
| `core/modulation.py`, `demodulation.py`, `spreading_codes.py` | none | pure functions | lengths, code periods | inverse of each other |
| `main.py`, `diagnose_link.py`, `tools/` | none | command lines | | |

### How they interact

The main thread builds a *session*: a TX flowgraph and an RX flowgraph, each
with its threads. The feeder builds frames (`FrameGenerator`, `FECCodec`), puts
them in the chip queue and reports each official one to the manager. The chip
source drains the queue into the modulator. On the other side the chip stream
reaches `FrameSink.work`, which queues frames for the decode worker; the worker
parses them and reports to the manager, which ignores everything until the first
official frame has been reported. Configuration changes reach a session only
when it is built, except gains and anomaly state, which listeners push into
the running one. `stop()` joins the GNU Radio threads only: feeders, workers
and monitors of old sessions go on, and write the same manager.

## 2. Plan

The modules, in the order they were written:

1. `FrameSink` (component), `FrameDetector` (abstract), `MCFrameSink`,
   `FrameSinkProofs`.
2. `TxFeeder`.
3. `FlowgraphManager`: the lifecycle composed with a coarse view of 1 and 2,
   frame by frame, for several sessions.
4. The frame layer: `FecCodec`, `DatalinkProfile` and `FrameGenerator` (the
   algorithms), `FrameLink` (a link between two ends that use them),
   `MCFrameLink`; `CodecLemmas` (proofs about the algorithms) and `FrameLinkProofs`.

5. The control plane: `LinkConfig` (what a configuration holds and what is
   derived from it), `ControlPlane` (the operations of the main thread on the
   configuration, the session and the recorder), `MCControlPlane`.
6. `Hopping`: the scheduler and the two hoppers that share it, `MCHopping`.
7. Proofs: `TxFeederProofs`, `FlowgraphManagerProofs`, `ControlPlaneProofs`,
   `HoppingProofs`, and `NumberLemmas`, the arithmetic they share.

What could be added: an abstract Reed-Solomon code that corrects `nsym / 2`
bytes, with the branch of `parse_frame` that depends on it; `crc32`; and the
worker of `SurrogateLogger`, should anything come to depend on its files. What
could be proved: the rest of `OkIsRight`, a frame found in another place than it
was sent.

## 3. Modules

### FrameSink

A chip is named by its place in the stream, a run of chips by its two ends; the
signal is the magnitude of its correlation with the preamble at every offset
(`corr`), any function of the offsets. `WorkSearching(n)` and
`WorkCollecting(n)` are `work()` with a chunk of `n` chips in either state;
`Search` and `FillCollect` are the two methods of these names, with everything
they call. `IsArgmax` is `np.argmax`: the first of the largest. `Dispatch`
counts the frame and offers it to the queue; `WorkerGet` and `WorkerCallback`
are the decode worker, which outlives exceptions of its callback. Sample values,
logging, diagnostics and message ports are left out; the SNR is represented by
the peak it was computed from.

`FrameDetector` is the abstract specification: the stream is decided from left
to right by passing over offsets below the threshold (`Skip`) or taking a frame
at an offset that outdoes everything passed over (`Take`). `FrameSink` implements
it under the mapping `frontier <- Frontier, taken <- Taken`: `Frontier` is the
start of the search buffer, or the end of the frame being collected, and
`Taken` adds the frame being collected to those dispatched.

### TxFeeder

The feeder's program counter `pc` follows `_frame_feeder` from its delay
through the warmup loop to the official loop; each loop's top, `put`, callback
and count are actions of their own, since another thread may run between them.
`FrameChipSource.work` is one action per turn of its loop: fetch, copy, idle. The
symbol phase counts chips modulo the chips per symbol of the packed modulation
that follows. `Stop` lowers the flag, `StopStreaming` ends the GNU Radio threads
once no `work()` is in progress. Frame contents are left out; `time.sleep` is
the interval between any two actions.

### FlowgraphManager

The main thread's `pc` goes through the steps of `start`, `stop` and `restart`;
`_lock` is held whenever `pc # "idle"`. A session is a number; each build takes
the next. The session's TX side is `TxFeeder` without burst dropout and with one
frame on the air, its RX side is `FrameSink` frame by frame: a frame is missed, or
counted and offered to the dispatch queue. The frame at the head of `pending`
is the one the decode worker parses; `DispatchFrame` is the test of
`_official_tx_started`, `CountDecode` what follows it. `rx_fec_ok += 1` is one
step: the interpreter does not switch threads inside it. An exception out of
`restart()` is not modelled, since it leaves a Qt slot and ends the program.
Rates, rolling windows, SNR history, event strings and gains are left out.

### The frame layer

`FecCodec`, `DatalinkProfile` and `FrameGenerator` are the algorithms of the
three files of these names in `core/`, as operators on sequences of bits and
bytes. The number of bits in a byte is a constant: the lengths, not the values,
are what rounding to bytes can get wrong. The Viterbi decoder keeps, for every
register, the path that leads there instead of a table to trace back through;
order and ties are those of the code. A frame profile is the record of the
settings the YAML file gives. Its header has the fields `length`, `id` and
`counter`; a CRC is any polynomial with an initial register, which covers `crc8`
and `crc16_ccitt` and not the reflected `crc32`. What raises `ValueError` yields
a result with `raised` set, or, while building, disables the action.

`FrameLink` is a link: one end builds a frame, the channel damages it, the other
parses the rest. `BuildProfile` and `ParseProfile` are `FrameCodec.build` and
`parse`; `BuildGenerated` and `ParseGenerated` are what the flowgraphs do with
`FrameGenerator`, spreading and despreading included, where the receiver takes
as many chips as `RXFlowgraph` computes. The channel is external: it inverts a
frame, flips a burst of bits, cuts the frame, or lets other bits follow.

### The control plane

`LinkConfig` is `core/config_manager.py` without its manager: a configuration
is a record of sections, `Derived` is `_derive_frame_params` in the order of
the code (raise the sample rate to fit the hopping signal, then snap the chip
rate to an integer number of samples per symbol), `Validated` adds the burst
duration. `BurstChips`, `DisplayedChips` and `TxTotalChips` (of
`FrameGenerator`) are the three computations of a frame's length.

`ControlPlane` is the main thread, one slot per action: the panels' Apply
buttons, the live controls of the anomaly panel, start, stop and restart, load,
save, close, and the two record buttons. `OnConfigChanged` is
`ConfigManager.update`, the notification of the listener and, for the sections
of `RestartRequired`, the restart. A session is what it was built from and what
has been pushed into it since; its threads are those of `FlowgraphManager`, where
the same calls are taken apart into steps. `SessionIsCurrent` names the four
sections whose changes restart a session. Timing and anomaly settings are built
into a session too, but do not restart it: of the anomalies `Applied` says what
`AnomalyBlock` does to the signal (`level` stands for carrier offset, fade and
IQ imbalance), if the session has one. With anomalies or interference on at build
it does what the configuration asks (`LiveSettingsFollow`); what the comments
promise beyond that is refuted by `ControlPlaneLive`. A build raises for a modulation the
flowgraphs do not support or frames that do not fill whole symbols; out of
`start()` the exception ends in a message box, out of any other slot it ends the
program. Connecting a recording ends it too, where the tap is connected already or the
format `i8`, which the panel offers, asks for items of another size. Rates are whole kHz. A panel may hold any value of its set, which
includes what it showed before a configuration was loaded.

### Hopping

Two hoppers share one scheduler, each with a sample counter of its own. A call of
`work()` is two actions: `Begun` takes the number of frequencies and the phase at the
start of each hop, `TxFinish` and `RxFinish` ask for the chunk's own hops and
rotate; the scheduler may be given another list or seed in between. A sample's phase is
an integer number of steps. The receiver may capture noise before the first
sample is sent (it is started first) and lose any sample (an overflow). The draws of the
random generator are a constant. `update_frequencies` and `update_seed` are reached
through `set_hop_frequencies` and `set_hop_seed` of the manager, which nothing in
the program calls so far. `next_frequency` and `reset` are not called at all, so
`_index`, which `get_stats` shows as the hop index, stays 0; all three are left out.

## 4. Runs

| run | instance | result |
|---|---|---|
| `FrameSink` | preamble 2, data 3, 15 chips, chunks up to 3, every signal with 1 to 3 strong offsets, queue of 2 | all invariants, the refinement, and that accepted frames are decoded |
| `TxFeeder` | 1 warmup and 3 official frames of 2 chips, queue of 1, buffers up to 3 | all invariants; the feeder ends; queued frames are sent |
| `TxFeederAlign` | QPSK, frames of 4 chips, buffers up to 5 | **violated**: a frame starts inside a symbol after odd idle padding |
| `FlowgraphManager` | 2 sessions of 1 warmup and 1 official frame | all invariants; monitors end; warmup ends |
| `FlowgraphManagerWarmup` | 1 session | **violated**: a warmup frame is counted |
| `FlowgraphManagerOrphan` | a failing `start()` | **violated**: a live RX flowgraph nobody refers to |
| `FrameLink` | four profiles and four frame configurations, payloads up to 3 bytes, one error burst anywhere, cuts anywhere, both polarities | all invariants |
| `FrameLinkInverted` | the program's default code and invariant | **violated**: a frame of reversed polarity is not recovered from its inverted invariant |
| `ControlPlane` | 3 changes, saves or loads and 2 recordings; two or more values of every section, one good file and one that does not load | all invariants |
| `ControlPlaneNyquist` | the same | **violated**: a hopping signal wider than the sample rate, after the chip rate was snapped up |
| `ControlPlaneLive` | the same | **violated**: hop period, impairments and interference source of a running session are not those the user was told are live |
| `Hopping` | 6 hop configurations, hops of 3 samples, chunks up to 3, 7 samples, a lead of up to 2, 1 update of list or seed | all invariants |

Bounds. In `FrameSink` the queue has the size it has in the code and a stream of 15
chips holds three frames, so that two wait behind the one being decoded, or the
queue overflows; chunks are shorter and longer than the preamble, so that searches
cut preambles and frames end in the middle of chunks. In
`TxFeeder` three official frames fill the queue, the current frame and the
feeder's hand at once. In `FlowgraphManager` two sessions suffice for an old
thread to meet a new session; a frame of each kind crosses both. In
`FrameLink` a byte has four bits and the codes have constraint lengths 3 and
4, so that payloads with alignment, both CRCs, coding, whitening and four
interleaver rows stay short enough for every cut and every place of an error
(of bursts of one and two bits, where nothing decodes or interleaves the payload);
payloads include the empty one and some too long for a profile; what may follow
a frame is another sync word; the third frame exceeds the counter of one bit. The run of the inverted
frame uses bytes of eight bits and the real code. In `ControlPlane` three changes
are a load of what was saved after a change, or the change, snap and raise
that makes validation drift; anomaly settings are off, interference only, or
on with another source; chip rates include one within the 0.02 that is not
snapped, and one that has to be; two recordings are those of the two buttons. In
`Hopping` seven samples cross two hop boundaries, and chunks start and end
at every place of a hop. Every bound
that the code does not have is marked `BOUND` where it is declared.

Deadlock is not checked: a stopped system, or one that has used up its bounds,
stops.

Fairness. `FrameSink`: the decode thread runs. `TxFeeder`: the feeder's sleeps
and puts have timeouts, so its thread runs; GNU Radio calls `work()` while
the flowgraph runs. `FlowgraphManager`: calls of the main thread return, the
feeders, TX flowgraphs and monitors run, and a monitor waiting for the lock gets
it, since between two presses of a button the lock is free for a long time
(strong fairness). Nobody has to press a button and no frame has to be heard.

What the violated runs mean is told, with the document each contradicts, in
`PROJECT.json` under `findings`. Two findings belong to properties that hold:
`PhaseIsContinuous` is what RESUME.md:13 says and the opposite of
RESUME.md:100, and `HopsCancel` holds with a rotation left over, `Centre - tuned`,
that RESUME.md:32 says there is not.

`LiveClaimHolds` is a disjunction of three claims, so that the counterexample of
`ControlPlaneLive` refutes all of them: a session is started with hopping off
and anomalies off, hopping is switched on (which restarts it), then the
transition time is changed and anomalies are switched on with another
interference source. Nothing restarts and nobody is told to restart, but the
hoppers keep the old period (`TransitionIsLive`), no block applies the carrier
offset, fade or IQ imbalance (`ImpairmentsAreApplied`), and the source is one of those
the manager's list has for a restart (`SourceRestarts`).

## 5. Proofs

Every invariant the runs check is also a theorem, for every value
of the constants that the named assumption of its module allows (what TLC
evaluates on every run). The proofs that need more say so in their statement;
that of `OkIsRight` is about the frames found in their place.

| module | theorem | property | needs more than the module's assumption |
|---|---|---|---|
| `FrameSinkProofs` | `TypeCorrect`, `FramesWellFormed`, `FramesNeverOverlap`, `DecodedStayInOrder` | `TypeOK`, `FrameExtent`, `FramesDisjoint`, `DecodedInOrder` | |
| | `PreamblesKept`, `BufferStaysBounded`, `ImplementsDetector` | `NoPreambleLost`, `BufferBounded`, `DetectorSpec` | |
| `TxFeederProofs` | `TypeCorrect`, `FramesStayInOnePiece`, `OneLateFrame` | `TypeOK`, `FramesInOnePiece`, `AtMostOneLate` | |
| | `OfficialsStayInOrder`, `AnnouncementsAreTrue`, `NoFrameLost` | `OfficialInOrder`, `AnnouncedAreQueued`, `FramesConserved` | |
| | `WholeSymbolBuffers` | | output buffers of whole symbols |
| `FlowgraphManagerProofs` | `TypeCorrect`, `RunningMeansLive`, `CountedOnce` | `TypeOK`, `RunningIsLive`, `CountedWereDetected` | |
| | `NothingOrphaned` | `NoOrphans` | `~StartOverLive` |
| | `WarmupsEnd` | | |
| `FrameLinkProofs` | `TypeCorrect`, `LengthsMatch` | `TypeOK`, `LengthsAgree` | |
| | `RoundTrip`, `OneErrorCorrected`, `CutIsRejected`, `NoCounterTwice`, `GeneratedFramesSurvive` | `ProfileRoundTrip`, `SingleErrorHarmless`, `CutFrameRejected`, `CountersNeverRepeat`, `GeneratedRoundTrip` | `Chosen` |
| | `AcceptedIsRight` | `OkIsRight` | `Chosen`, `BurstsWithinReach`; the frame is found in its place |
| `ControlPlaneProofs` | `TypeCorrect`, `SettingsFollow`, `DisplayIsRight` | `TypeOK`, `LiveSettingsFollow`, `DisplayedIsSent` | |
| | `DerivationIsStable`, `InterpolationIsMeant`, `SessionStaysCurrent`, `RecordingsStayTrue` | `DerivationSettles`, `InterpolationIsSps`, `SessionIsCurrent`, `RecordingsAreTrue` | `FineRates` |
| | `OnlySnappingUpOverflows` | | |
| `HoppingProofs` | `TypeCorrect`, `PhaseContinuous`, `HopsCancelled` | `TypeOK`, `PhaseIsContinuous`, `HopsCancel` | |
| `CodecLemmas` | `DeinterleaveInverts`, `ViterbiCorrects` | | taps at both ends of the register |
| | `BurstIsNoticed` | | a polynomial as wide as the CRC, with a last place of one |

### FrameSinkProofs

The named assumption asks for positive lengths and sizes; a signal is any
function from offsets to naturals. The properties speak of dispatched frames; the
inductive invariant `IInv` adds what holds between dispatches: the search buffer
ends where the stream has been read to; while collecting, the collected chips are
those behind the peak, as many as `collectIdx` says; every frame dispatched ends
before the buffer, or the frame being collected, begins. For `PreamblesKept` it
adds that no offset left of the buffer is strong unless a frame covers or outdoes
it, and that whatever the search keeps is too short to have been decided. The
refinement then maps a successful search to `Take`, an unsuccessful one to
`Skip`, and everything else to a stutter. `DecodedStayInOrder` shows that what
the queue has accepted, in flight or decoded, is a subsequence of what was
dispatched.

### TxFeederProofs

`TypeInv` adds to the types that a frame is in one piece on the air (`Pieces`:
idle chips only while no frame is under way, all frames but the last complete)
and how `frameCount` follows `pc` (`Counting`). `Lateness` says that once a late
frame has been put the feeder has no other in hand to put; `Ordered` that the
queued frames are the warmups, then the official ids from 0 on, as far as
`warmupIdx` and `frameId` have come; `Announcing` relates what was announced to
both. `FramesConserved` is inductive with the types. `WholeSymbolBuffers` says what
the violated `FramesOnSymbolBoundary` lacks: the symbol phase is that of the place
in the frame, and the idle chips that fill a buffer keep it so only if GNU Radio
asks for whole symbols.

### FlowgraphManagerProofs

`RunningMeansLive` follows from `Lifecycle`: what each step of a build may rely
on, which flowgraphs are built, started or stopped at each `pc`. `NothingOrphaned`
supposes that `start()` is not called over flowgraphs that a failed start, or a
restart while stopped, has left behind; without it the property is the one
`FlowgraphManagerOrphan` shows violated. `CountedWereDetected` is
inductive with the types: it compares two sums over the sessions, what each has
detected and what it still holds, and every action changes one term of each at most.
`WarmupsEnd` limits what `FlowgraphManagerWarmup` shows: warmup frames are
counted, but none of a session after its first official frame. `InOrder` says of
the feeder, the chip queue, the air, the dispatch queue and the worker that no
warmup frame is behind an official one; frames are lost between them, never
overtaken.

### CodecLemmas and FrameLinkProofs

`CodecLemmas` says of every conversion what length it gives and that its inverse
undoes it: bits, bytes and integers, interleaving, whitening, padding, the
search for the sync word, despreading. A region that comes back whole passes its
CRC, which is a function of the bits.

`BurstIsNoticed` is about a region that does not: if the bits of the data and of
the CRC behind them differ only within a window as wide as the CRC's register,
and the CRC still fits, the data are the same. The register is run on both
(`Alike`): up to the window its states agree. Behind it the states would have to
agree again, and because the polynomial's last place is one a step can be undone
(`StepBack`), so they agree back to the end of the window; within it, no
difference shorter than the register can have cancelled. A window that reaches
into the CRC changes too few of its bits to fit a changed register.

`AcceptedIsRight` follows every part of a frame through `parse()`. A burst in the
header is noticed by the header's CRC, so an accepted frame has the header that was
sent and with it the right length; the zeros that fill the header up to whole
bytes lie between it and its CRC and lengthen the burst (`Filled`). A burst in
the payload or its CRC is noticed by that CRC, through the whitening, which leaves
a burst where it is; of an interleaved or coded region only one wrong bit is
covered, which the interleaver moves and the decoder corrects. The hypothesis
`Spared(codec.p, damage) \/ FoundInPlace` says where the proof ends: either
nothing hit the sync word (and its polarity is one the parser looks for), or the
parser took the right window nevertheless.

`ViterbiCorrects` is about the decoder itself, for any number of polynomials (at
least two) and any register: if every polynomial taps both ends of the
register, `decode` undoes `encode`, and does so with any one coded bit wrong. The
invariant of the decoder's loop (`Correcting`) says of the register the encoder
is in that its path is the sent one, and how it leads: before the error with
metric 0 while every other register has at least 2; from then on with metric 1
while every other has at least 1, and the one it competes with (the other
predecessor of the same registers) more. It survives a step because a path that
leaves the sent one, or is about to rejoin it, differs from it in every coded
bit of that step: a polynomial that taps an end of the register changes with
the bit there. At the end of the free-ended trellis other registers may be as near;
`decode` takes the lowest of them, and the padding has brought the encoder's to 0
or 1, of which the sent one is strictly nearer.

`LinkInv` is the link's inductive invariant: which frame is on its way and with
which counter, what the channel made of it, and that the result is what the
parser makes of that. The theorems about what arrives assume `Chosen`: for every codec,

- the polynomials of its convolutional code, if it has one, tap both ends of the
  register, and there are at least two;
- a profile's sync word differs from every earlier window of preamble and sync
  word in more bits than are tolerated, and in at least two, in each polarity the
  parser looks for; and
- a generated frame's bits have an odd number of chips.

These are conditions on settings, which the code does not check. The default
code (`[121, 91]`), the default spreading code of 31 chips and the profile
that the repository ships satisfy them (that profile's `crc32` is outside the
model). `BurstsWithinReach` bounds what the channel does by what the CRCs notice:
`crc8` and `crc16_ccitt` of `_crc_bytes` have polynomials of the kind it asks for, and
a profile with the convolutional code needs no payload CRC to survive single
errors. For the instances of both runs, the
default code and the shipped preamble and sync word, TLC evaluates `Chosen`
(`SmallWellChosen`, `DefaultWellChosen`, `ShippedStandsOut` in `MCFrameLink`), and
for the run that damages frames `BurstsWithinReach` (`SmallWithinReach`).
`LinkAssumption` says of all codecs that their settings have the right types,
that there are as many polynomials as coded bits per bit, and that no outer code
is used.

### ControlPlaneProofs

`SettingsFollow` rests on a manager that runs having a live session, and on every
session having its `AnomalyBlock` as it was built (`LiveInv`); the others on the configuration always being a validated one. `FineRates` asks for at
least 2 kHz of chip rate for each sample of a symbol (the default configuration
has 1000 kHz and 8 samples). It is the model's condition, not the code's: the
model rounds rates to whole kHz, and with coarser ones the rounded chip rate may
miss the 0.02 tolerance that the exact one meets. `DerivationIsStable` says that
validating a configuration whose signal fits again changes nothing; the
proofs of `SessionStaysCurrent` and `RecordingsStayTrue` use it for every update,
which validates also the sections it does not name. `InterpolationIsMeant` is a
fact of the same derivation, `DisplayIsRight` of the three computations of a
frame's length. `OnlySnappingUpOverflows` is the other side of the violated
`HoppingFits`: for whatever is entered, the hopping signal fits the sample rate
once validated, or the chip rate was snapped up.

### HoppingProofs

`Inv` says of a call of `work()` begun with the present sequence that the phases
it has taken are those of that sequence (`Begins`); of every sample on the air
that was rotated under it, that its phase is `Phase` of its number (`OnAir`): the
shifts of all hops before it plus its place in its own; and of every sample
received, what is left of that (`Heard`). `PhaseNext`, that `Phase` advances by the
hop's shift within a hop and into the next, is where an error in the sum over
hops would show. Lost samples shift the receiver's count only, so `HopsCancel`
speaks of samples both ends rotate in the same hop.

### NumberLemmas

Quotients, remainders and products; sums; and induction. Recursion in these modules is by recursive functions, and
what they compute is proved from the least-number principle: a set of naturals
for which a claim fails has a smallest member.

### Only model-checked

- Every liveness property (`AcceptedIsDecoded`, `FeederEnds`, `QueuedIsSent`,
  `MonitorsEnd`, `OfficialStarts`): fairness is out of the prover's reach.
- `OkIsRight` for a frame that is found in another place or polarity than it was
  sent: whether it passes there depends on the bits that follow the frame and on
  those the parser takes for a header, and no CRC rejects all of them. TLC shows
  it for four profiles, with every single error and, in the plain one, every burst
  of two bits, in the sync word too.

## 6. Not modelled

- The GNU Radio, UHD and ZMQ chain: external. Modulation, filtering, clock and
  carrier recovery are GNU Radio's; only what reaches `FrameSink` and what
  leaves `FrameChipSource` matters here, and the recording taps of both ends.
- `radio/hop_timing.py`, `burst_gate.py`, the DSSS, preamble and interleaver
  blocks: no flowgraph creates them. `hop_controller.py` passes its samples through.
- `core/modulation.py`, `demodulation.py`, `spreading_codes.py` and the `apply_*`
  functions of the anomaly injector: numeric, without state. Burst dropout is a
  choice in `TxFeeder`.
- `logging_module`: a daemon thread that writes rows to a file nothing reads back.
- Widgets, layout, log wording, the figures of the status panel: `get_stats`, its
  rates and rolling windows only read. Auto-detection of devices, YAML syntax.
- A `stop()` or `wait()` of a flowgraph that raises: `_stop_flowgraphs` logs it and
  drops the reference, whatever still runs.
- Exceptions of constructors other than those `Buildable` names (an empty custom
  code, an odd Kasami degree, UHD errors), and, in `ControlPlane`, those after
  `_tx_fg` has been assigned, which are steps of `FlowgraphManager`; and
  exceptions of `ConfigManager.update` itself (more polynomials than `rate_inv`,
  no Reed-Solomon library).
- The fourth header field of the shipped profile, `flags`, which like `id` is a
  default.
- The contents of Reed-Solomon codewords (a library's; so also the branch of
  `parse_frame` that handles its exceptions), `crc32`.
- `main.py`, `diagnose_link.py`, `tools/`: argument parsing and wiring.
