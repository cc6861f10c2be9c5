------------------------------- MODULE FrameLink -------------------------------
(***************************************************************************)
(* One end of a link builds frames, the channel damages them, the other    *)
(* end parses what is left: FrameCodec of core/datalink_profile.py for a   *)
(* profile, FrameGenerator with the spreading around it for a frame        *)
(* configuration of the running flowgraphs.                                *)
(*                                                                         *)
(* A codec is a record: kind tells the two apart, p is its profile or      *)
(* frame configuration, bursts the lengths of the error bursts it meets.   *)
(***************************************************************************)
EXTENDS DatalinkProfile, FrameGenerator

CONSTANTS
    Codecs,     \* the codecs that may be in use
    Payloads,   \* the payloads that may be sent
    Ids,        \* the header ids that may be asked for
    Tails,      \* what the channel may append to a frame
    MaxFrames   \* BOUND: frames built by one codec

(* The codes in use have no Reed-Solomon part: its bytes are a library's.  *)
CodeOK(code) ==
    /\ code.K \in Nat \ {0} /\ code.rate \in Nat \ {0}
    /\ Len(code.taps) = code.rate
    /\ \A j \in 1 .. code.rate : code.taps[j] \subseteq Nat /\ IsFiniteSet(code.taps[j])
    /\ code.nsym \in Nat /\ ~ code.rs /\ (code.cc => code.enabled)

CrcOK(crc) ==
    /\ crc.bytes \in Nat
    /\ crc.init \in Seq(Bit) /\ crc.poly \in Seq(Bit) /\ Len(crc.init) = Len(crc.poly)

Byte == 0 .. Pow2[ByteBits] - 1

ProfileOK(p) ==
    /\ p.preamble \in Seq(Bit) /\ p.sync \in Seq(Bit)
    /\ p.maxErrors \in Int /\ p.allowInverted \in BOOLEAN
    /\ {p.lengthBits, p.idBits, p.counterBits} \subseteq Nat \ {0}
    /\ CrcOK(p.headerCrc) /\ CrcOK(p.payloadCrc)
    /\ p.alignBits \in Int /\ p.padByte \in Byte /\ p.rows \in Nat \ {0}
    /\ p.whitening.seed \in Nat
    /\ p.whitening.mask \subseteq Nat /\ IsFiniteSet(p.whitening.mask)
    /\ CodeOK(p.fec)

FrameOK(f) ==
    /\ f.preamble \in Seq(Bit) /\ f.invariant \in Seq(Bit) /\ f.code \in Seq(Bit)
    /\ f.payloadBits \in Nat
    /\ CodeOK(f.fec)

ASSUME LinkAssumption ==
    /\ \A c \in Codecs : \/ c.kind = "profile" /\ ProfileOK(c.p)
                         \/ c.kind = "generator" /\ FrameOK(c.p)
    /\ \A c \in Codecs : c.bursts \subseteq Nat
    /\ Payloads \subseteq Seq(Byte) /\ Tails \subseteq Seq(Bit)
    /\ MaxFrames \in Nat

VARIABLES
    codec,      \* the codec in use
    counter,    \* FrameCodec._counter
    phase,      \* "idle", "built" or "received"
    sent,       \* the frame on its way: payload, header and bits
    damage,     \* what the channel did to it
    air,        \* the bits that arrived
    result,     \* what the parser made of them
    used        \* HISTORY: the counters of the frames built so far

vars == <<codec, counter, phase, sent, damage, air, result, used>>

None == [none |-> TRUE]

-----------------------------------------------------------------------------
(* The channel *)

Flip(bits, from, n) ==
    [i \in 1 .. Len(bits) |-> IF i \in from .. from + n - 1 THEN 1 - bits[i] ELSE bits[i]]

(* A change of polarity, a tail, a burst of n errors, a cut. *)
Intact(bits) == [from |-> 1, n |-> 0, inverted |-> FALSE, kept |-> Len(bits), tail |-> <<>>]
Tailed(bits, i, t) == [Intact(bits) EXCEPT !.inverted = i, !.tail = t]
Hit(bits, k, n) == [Intact(bits) EXCEPT !.from = k, !.n = n]
Cut(bits, k) == [Intact(bits) EXCEPT !.kept = k]

Damages(bits, bursts, tails) ==
    {Tailed(bits, i, t) : i \in BOOLEAN, t \in tails}
        \cup {Hit(bits, k, n) : k \in 1 .. Len(bits), n \in bursts}
        \cup {Cut(bits, k) : k \in 0 .. Len(bits) - 1}

Damaged(bits, d) ==
    LET kept == SubSeq(Flip(bits, d.from, d.n), 1, d.kept) \o d.tail
    IN  IF d.inverted THEN Inverse1(kept) ELSE kept

-----------------------------------------------------------------------------
Init ==
    /\ codec \in Codecs
    /\ counter = 0
    /\ phase = "idle"
    /\ sent = None /\ damage = None /\ air = <<>> /\ result = None
    /\ used = <<>>

Idle == phase = "idle" /\ Len(used) < MaxFrames

\* MUTANT of NextCounter: the counter wraps with its field.
NextCounterWraps == IF codec.kind = "profile" THEN (counter + 1) % Pow2[codec.p.counterBits] ELSE counter

NextCounter == counter + 1

(* FrameCodec.build.  A build that raises changes nothing. *)
BuildProfile(payload, id) ==
    /\ Idle /\ codec.kind = "profile"
    /\ CanBuild(codec.p, payload, id, counter)
    /\ sent' = [payload |-> payload, header |-> ResolveHeader(payload, id, counter),
                bits |-> BuildBits(codec.p, payload, id, counter)]
    /\ counter' = NextCounter
    /\ used' = Append(used, counter)
    /\ phase' = "built" /\ damage' = None /\ air' = <<>> /\ result' = None
    /\ UNCHANGED codec

(* FrameGenerator is stateless; the frames' ids belong to the feeder. *)
BuildGenerated(payload) ==
    /\ Idle /\ codec.kind = "generator"
    /\ sent' = [payload |-> payload, bits |-> BuildChips(codec.p, payload)]
    /\ used' = Append(used, Len(used))
    /\ phase' = "built" /\ damage' = None /\ air' = <<>> /\ result' = None
    /\ UNCHANGED <<codec, counter>>

(* The chips behind the preamble, as many as FrameSink collects, reach the *)
(* receiver of a generated frame; a profile's parser sees everything.      *)
Transmit ==
    /\ phase = "built"
    /\ IF codec.kind = "profile"
       THEN damage' \in Damages(sent.bits, codec.bursts, Tails) /\ air' = Damaged(sent.bits, damage')
       ELSE LET chips == SubSeq(sent.bits, Len(codec.p.preamble) + 1,
                                Len(codec.p.preamble) + RxCodedBits(codec.p) * Len(codec.p.code))
            IN  /\ damage' \in {d \in Damages(chips, codec.bursts, {<<>>}) : d.kept = Len(chips)}
                /\ air' = Damaged(chips, damage')
    /\ phase' = "received"
    /\ UNCHANGED <<codec, counter, sent, result, used>>

ParseProfile ==
    /\ phase = "received" /\ codec.kind = "profile"
    /\ result' = Parse(codec.p, air)
    /\ phase' = "idle"
    /\ UNCHANGED <<codec, counter, sent, damage, air, used>>

(* _dispatch of FrameSink, then parse_frame on the decode thread *)
ParseGenerated ==
    /\ phase = "received" /\ codec.kind = "generator"
    /\ result' = ParseFrame(codec.p, Despread(codec.p.code, air))
    /\ phase' = "idle"
    /\ UNCHANGED <<codec, counter, sent, damage, air, used>>

Next ==
    \/ \E payload \in Payloads : (\E id \in Ids : BuildProfile(payload, id)) \/ BuildGenerated(payload)
    \/ Transmit
    \/ ParseProfile
    \/ ParseGenerated

Spec == Init /\ [][Next]_vars

-----------------------------------------------------------------------------
(* Properties *)

TypeOK ==
    /\ codec \in Codecs
    /\ counter \in 0 .. MaxFrames
    /\ phase \in {"idle", "built", "received"}
    /\ air \in Seq(Bit)
    /\ used \in Seq(Nat)

(* What codecs need for their frames to survive, and the program's have:   *)
(* nothing before the sync word's place resembles it, in a polarity that   *)
(* is looked for, every polynomial looks at the newest and the oldest bit  *)
(* of the register, and the chips of a bit cannot tie.                     *)
SyncStandsOut(p) ==
    /\ p.maxErrors \in Nat /\ Len(p.sync) > 1
    /\ \A w \in 0 .. Len(p.preamble) - 1, inverted \in Polarities(p) :
          LET distance == SyncDistance(p, p.preamble \o p.sync, w, inverted)
          IN  distance > 1 /\ distance > p.maxErrors

TapsReach(code) ==
    code.cc => /\ code.K > 1 /\ code.rate > 1
               /\ \A j \in 1 .. code.rate :
                     {0, code.K - 1} \subseteq code.taps[j] /\ code.taps[j] \subseteq 0 .. code.K - 1

WellChosen(c) ==
    /\ TapsReach(c.p.fec)
    /\ c.kind = "profile" => SyncStandsOut(c.p)
    /\ c.kind = "generator" => Len(c.p.code) % 2 = 1

(* A burst is within reach of the CRCs, polynomials as wide as their bytes *)
(* with a last place of one: it is no longer than the header's, with the   *)
(* zeros that fill the header up to whole bytes, and no decoder or         *)
(* interleaver makes more of it than fits into the payload's.              *)
Divisor(crc) == /\ crc.poly # <<>> /\ Len(crc.poly) = crc.bytes * ByteBits
                /\ crc.poly[Len(crc.poly)] = 1

Filled(p) == BytesFor(HeaderBits(p)) * ByteBits - HeaderBits(p)

WithinReach(p, n) ==
    /\ Divisor(p.headerCrc) /\ n + Filled(p) <= Len(p.headerCrc.poly)
    /\ n <= 1 \/ (p.rows <= 1 /\ ~ p.fec.cc)
    /\ ~ p.fec.cc => Divisor(p.payloadCrc) /\ n <= Len(p.payloadCrc.poly)

BurstsWithinReach(c) == c.kind = "profile" => \A n \in c.bursts : WithinReach(c.p, n)

Parsed(kind) == phase = "idle" /\ result # None /\ codec.kind = kind

Right == Ok(result) /\ result.payload = sent.payload /\ result.header = sent.header

(* A frame of a profile that arrives without errors, upright or, where the *)
(* profile allows it, inverted, is parsed into what was built, from the    *)
(* right place, whatever bits follow it in the stream.                     *)
ProfileRoundTrip ==
    Parsed("profile") /\ damage.n = 0 /\ damage.kept = Len(sent.bits)
        /\ (damage.inverted => codec.p.allowInverted)
    => /\ Right
       /\ result.inverted = damage.inverted
       /\ result.syncIndex = Len(codec.p.preamble)

(* What parse() calls ok is what build() was given, also when the errors   *)
(* hit the sync word and another window fits better, or hit the length     *)
(* field that decides where the payload ends.                              *)
OkIsRight == Parsed("profile") /\ Ok(result) => Right

(* An error in the preamble or in a convolutionally coded payload does not *)
(* harm a frame, nor does one in a sync word that may have it, unless the  *)
(* header, the payload or the tail hold the sync word too: the best window *)
(* wins, not the first that is good enough.                                *)
SingleErrorHarmless ==
    Parsed("profile") /\ damage.n = 1
    => LET preLen  == Len(codec.p.preamble)
           syncEnd == preLen + Len(codec.p.sync)
           coded   == Len(sent.bits) - EncodedBits(codec.p, Len(sent.payload))
           stolen  == \E w \in (0 .. Len(air) - Len(codec.p.sync)) \ {preLen}, i \in BOOLEAN :
                          SyncDistance(codec.p, air, w, i) <= codec.p.maxErrors
       IN  \/ damage.from <= preLen
           \/ damage.from <= syncEnd /\ codec.p.maxErrors > 0 /\ ~ stolen
           \/ damage.from > coded /\ codec.p.fec.cc
           => Right

(* A frame cut anywhere is never taken for a whole one. *)
CutFrameRejected ==
    Parsed("profile") /\ damage.kept < Len(sent.bits) => ~ Ok(result)

(* The helpers that compute a frame's length agree with what is built, and *)
(* for a generated frame the receiver's with the transmitter's: with one   *)
(* chip too few or too many FrameSink cuts every frame that follows.       *)
LengthsAgree ==
    phase = "built" =>
        IF codec.kind = "profile"
        THEN Len(sent.bits) = FrameBits(codec.p, Len(sent.payload))
        ELSE /\ Len(sent.bits) = TxTotalChips(codec.p)
             /\ Len(sent.bits) = Len(codec.p.preamble) + RxCodedBits(codec.p) * Len(codec.p.code)

(* No two frames of a codec carry the same counter: it stops at the width  *)
(* of its field.                                                           *)
CountersNeverRepeat ==
    phase = "built" /\ codec.kind = "profile"
    => /\ \A i, j \in DOMAIN used : i # j => used[i] # used[j]
       /\ FindSync(codec.p, sent.bits).index >= 0
       /\ Parse(codec.p, sent.bits).header.counter = used[Len(used)]

(* parse_frame recovers a frame whose polarity was lost, from its          *)
(* invariant (the comment "Check if it's just inverted").                  *)
InvertedRecovered ==
    Parsed("generator") /\ damage.inverted /\ codec.p.invariant # <<>>
    => result.fecOk /\ result.bits = PayloadBits(codec.p, sent.payload)

(* The payload a generated frame was built from, cut to payload_bits,      *)
(* comes back when less than half the chips of every bit are wrong, or,    *)
(* with the convolutional code, when one bit is.  It also comes back from  *)
(* a frame of reversed polarity, without that code: its decoder starts     *)
(* from a register of zeros and misreads the first bits of such a frame.   *)
GeneratedRoundTrip ==
    /\ Parsed("generator") /\ ~ damage.inverted
          /\ (2 * damage.n < Len(codec.p.code) \/ (codec.p.fec.cc /\ damage.n <= Len(codec.p.code)))
       => /\ result.fecOk
          /\ result.bits = PayloadBits(codec.p, sent.payload)
    /\ ~ codec.p.fec.enabled => InvertedRecovered

=============================================================================
