--------------------------- MODULE DatalinkProfile ---------------------------
(***************************************************************************)
(* core/datalink_profile.py: building and parsing the frames of a profile. *)
(*                                                                         *)
(* A profile is a record of the settings FrameProfile reads from YAML.     *)
(* The header has the fields of the profile that ships with the program    *)
(* and of its tests: length, id and counter, in this order.  A CRC is its  *)
(* polynomial and its initial register, sequences of bits, and its length  *)
(* in bytes, 0 for none.  What raises ValueError gives a result with       *)
(* raised set.                                                             *)
(***************************************************************************)
EXTENDS FecCodec

(* _int_to_bits, for a value that fits *)
IntToBits(value, width) == [i \in 1 .. width |-> (value \div Pow2[width - i]) % 2]

Fits(value, width) == value \in 0 .. Pow2[width] - 1

-----------------------------------------------------------------------------
(* _crc_bytes: a shift register, highest place first, with no final xor *)

CrcStep(crc, register, bit) ==
    LET w       == Len(register)
        shifted == [i \in 1 .. w |-> IF i < w THEN register[i + 1] ELSE 0]
    IN  IF register[1] # bit THEN Xor(shifted, crc.poly) ELSE shifted

(* to_bytes(n, "big") *)
IntToBytes(value, n) ==
    [b \in 1 .. n |-> (value \div Pow2[ByteBits * (n - b)]) % Pow2[ByteBits]]

CrcRegister(crc, data) ==
    LET bits == BytesToBits(data)
        register[k \in 0 .. Len(bits)] ==
            IF k = 0 THEN crc.init ELSE CrcStep(crc, register[k - 1], bits[k])
    IN  register[Len(bits)]

Crc(crc, data) == IntToBytes(BitsToInt(CrcRegister(crc, data)), crc.bytes)

-----------------------------------------------------------------------------
(* Whitening and interleaving *)

(* The register of _lfsr_mask is eight bits wide, mask the places it feeds *)
(* back.                                                                   *)
LfsrNext(state, mask) == ((2 * state) % 256) + Parity(state, mask)

Lfsr(length, seed, mask) ==
    LET states[k \in 1 .. length] ==
            IF k = 1 THEN <<seed % 256>>
            ELSE LET before == states[k - 1] IN Append(before, LfsrNext(Last(before), mask))
    IN  states[length]

Whiten(p, bits) ==
    IF ~ p.whitening.enabled \/ bits = <<>> THEN bits
    ELSE LET states == Lfsr(Len(bits), p.whitening.seed, p.whitening.mask)
         IN  Xor(bits, states)

(* rows is 1 when interleaving is off *)
Divides(rows, n) == rows <= 1 \/ n % rows = 0

(* Written row by row, read column by column. *)
MatrixInterleave(bits, rows) ==
    IF rows <= 1 THEN bits
    ELSE LET cols == Len(bits) \div rows
         IN  [k \in 1 .. Len(bits) |->
                 bits[((k - 1) % rows) * cols + (k - 1) \div rows + 1]]

\* MUTANT of MatrixDeinterleave: the same permutation on both sides.
MatrixDeinterleaveSame(bits, rows) == MatrixInterleave(bits, rows)

MatrixDeinterleave(bits, rows) ==
    IF rows <= 1 THEN bits
    ELSE LET cols == Len(bits) \div rows
         IN  [k \in 1 .. Len(bits) |->
                 bits[((k - 1) % cols) * rows + (k - 1) \div cols + 1]]

-----------------------------------------------------------------------------
(* Lengths *)

(* Bytes that fill the region up to a multiple of the alignment *)
Padding(p, length) ==
    IF p.alignBits <= 0 THEN 0
    ELSE LET unit == BytesFor(p.alignBits)
         IN  (unit - (length % unit)) % unit

(* payload_region_bytes_for_length *)
RegionBytes(p, rawLen) ==
    LET length == rawLen + p.payloadCrc.bytes IN length + Padding(p, length)

(* encoded_payload_bits_for_length; HasLength says that it does not raise *)
EncodedBits(p, rawLen) ==
    LET bits == RegionBytes(p, rawLen) * ByteBits
    IN  IF p.fec.enabled THEN CodedLength(p.fec, bits) ELSE bits

HasLength(p, rawLen) == Divides(p.rows, EncodedBits(p, rawLen))

HeaderBits(p) == p.lengthBits + p.idBits + p.counterBits

(* frame_bits_for_length *)
FrameBits(p, rawLen) ==
    Len(p.preamble) + Len(p.sync) + HeaderBits(p)
        + p.headerCrc.bytes * ByteBits + EncodedBits(p, rawLen)

-----------------------------------------------------------------------------
(* build *)

(* _resolve_header: only id is overridden by the callers *)
ResolveHeader(payload, id, counter) ==
    [length |-> Len(payload), id |-> id, counter |-> counter]

(* _serialize_header *)
SerializeHeader(p, header) ==
    IntToBits(header.length, p.lengthBits)
        \o IntToBits(header.id, p.idBits) \o IntToBits(header.counter, p.counterBits)

(* _pad_payload_region *)
PadRegion(p, region) ==
    region \o [i \in 1 .. Padding(p, Len(region)) |-> p.padByte]

(* _encode_payload_region *)
Coded(p, region) == IF p.fec.enabled THEN FecEncode(p.fec, region) ELSE BytesToBits(region)

EncodeRegion(p, region) == Whiten(p, MatrixInterleave(Coded(p, region), p.rows))

PayloadRegion(p, payload) == PadRegion(p, payload \o Crc(p.payloadCrc, payload))

(* The payload is too long, a field does not fit, or the bits do not fill  *)
(* the rows of the interleaver: build raises and counts nothing.           *)
CanBuild(p, payload, id, counter) ==
    /\ p.maxBytes = 0 \/ Len(payload) <= p.maxBytes
    /\ Fits(Len(payload), p.lengthBits)
    /\ Fits(id, p.idBits)
    /\ Fits(counter, p.counterBits)
    /\ Divides(p.rows, Len(Coded(p, PayloadRegion(p, payload))))
    /\ p.whitening.enabled => p.whitening.seed % 256 # 0

BuildBits(p, payload, id, counter) ==
    LET header == SerializeHeader(p, ResolveHeader(payload, id, counter))
    IN  p.preamble \o p.sync \o header
            \o BytesToBits(Crc(p.headerCrc, BitsToBytes(header)))
            \o EncodeRegion(p, PayloadRegion(p, payload))

-----------------------------------------------------------------------------
(* parse *)

SyncDistance(p, bits, i, inverted) ==
    Cardinality({k \in 1 .. Len(p.sync) :
        (bits[i + k] = p.sync[k]) = inverted})

\* MUTANT of Tolerated: off by one.
ToleratedLess(p) == 0 .. p.maxErrors - 1

Tolerated(p) == 0 .. p.maxErrors

Polarities(p) == IF p.allowInverted THEN BOOLEAN ELSE {FALSE}

(* _find_sync: of the windows closest to the sync word the first, and of   *)
(* its two polarities the upright one if they tie; -1 when none is near.   *)
FindSync(p, bits) ==
    LET windows == 0 .. Len(bits) - Len(p.sync)
        distance == [w \in windows \X Polarities(p) |-> SyncDistance(p, bits, w[1], w[2])]
        near == {d \in Tolerated(p) : \E w \in DOMAIN distance : distance[w] = d}
    IN  IF near = {} THEN [index |-> -1, inverted |-> FALSE]
        ELSE LET best  == {w \in DOMAIN distance : distance[w] = Min(near)}
                 index == Min({w[1] : w \in best})
             IN  [index |-> index, inverted |-> <<index, FALSE>> \notin best]

(* s[from:to], both counted from 0 *)
Slice(s, from, to) == SubSeq(s, from + 1, Min({to, Len(s)}))

(* _parse_header *)
ParseHeader(p, bits) ==
    LET idAt == p.lengthBits
        counterAt == p.lengthBits + p.idBits
    IN  [length  |-> BitsToInt(Slice(bits, 0, idAt)),
         id      |-> BitsToInt(Slice(bits, idAt, counterAt)),
         counter |-> BitsToInt(Slice(bits, counterAt, HeaderBits(p)))]

(* _decode_payload_region *)
DecodeRegion(p, bits) ==
    LET coded == MatrixDeinterleave(Whiten(p, bits), p.rows)
    IN  IF p.fec.enabled THEN FecDecode(p.fec, coded) ELSE BitsToBytes(coded)

Raised == [raised |-> TRUE]

\* MUTANT of TooShort: the slice takes what there is.
TooShortNever(bits, n) == FALSE

TooShort(bits, n) == Len(bits) < n

(* What follows the header: length is believed even if its CRC is wrong,   *)
(* and a wrong one may ask for more bits than there are.                   *)
ParseRegion(p, bits, start, header, headerCrcOk, sync) ==
    LET rawLen == header.length
        end    == Min({start + EncodedBits(p, rawLen), Len(bits)})
        coded  == Slice(bits, start, end)
        fecOk  == Divides(p.rows, Len(coded))
        region == IF fecOk THEN DecodeRegion(p, coded) ELSE <<>>
        payload == Slice(region, 0, rawLen)
    IN  IF ~ HasLength(p, rawLen) \/ (headerCrcOk /\ TooShort(bits, start + EncodedBits(p, rawLen)))
        THEN Raised
        ELSE [raised |-> FALSE, payload |-> payload, header |-> header,
              headerCrcOk |-> headerCrcOk,
              payloadCrcOk |-> Slice(region, rawLen, rawLen + p.payloadCrc.bytes)
                                   = Crc(p.payloadCrc, payload),
              fecOk |-> fecOk, inverted |-> sync.inverted, syncIndex |-> sync.index]

Parse(p, received) ==
    LET sync        == FindSync(p, received)
        bits        == IF sync.inverted THEN Inverse1(received) ELSE received
        headerStart == sync.index + Len(p.sync)
        headerEnd   == headerStart + HeaderBits(p)
        crcEnd      == headerEnd + p.headerCrc.bytes * ByteBits
        headerBits  == Slice(bits, headerStart, headerEnd)
        headerCrc   == BitsToBytes(Slice(bits, headerEnd, crcEnd))
    IN  IF sync.index < 0 \/ TooShort(bits, crcEnd) THEN Raised
        ELSE ParseRegion(p, bits, crcEnd, ParseHeader(p, headerBits),
                         headerCrc = Crc(p.headerCrc, BitsToBytes(headerBits)), sync)

\* MUTANT of Ok: the header's CRC is not asked.
OkPayload(parsed) == ~ parsed.raised /\ parsed.payloadCrcOk /\ parsed.fecOk

(* ParsedFrame.ok *)
Ok(parsed) == ~ parsed.raised /\ parsed.headerCrcOk /\ parsed.payloadCrcOk /\ parsed.fecOk

=============================================================================
