------------------------------- MODULE FecCodec -------------------------------
(***************************************************************************)
(* core/fec_codec.py: the convolutional encoder, the hard-decision Viterbi *)
(* decoder and the length every other module computes with.                *)
(*                                                                         *)
(* A code is a record: enabled, cc and rs say which codecs FECCodec built; *)
(* K is the constraint length, rate the coded bits per input bit, taps[j]  *)
(* the register places polynomial j adds up, nsym the Reed-Solomon bytes.  *)
(* Bit sequences are sequences of 0 and 1.  The Reed-Solomon code itself   *)
(* belongs to a library: only its length is known here.                    *)
(***************************************************************************)
EXTENDS Integers, Sequences, SequencesExt, FiniteSetsExt

CONSTANT ByteBits   \* bits of a byte: 8 in the program

ASSUME ByteAssumption == ByteBits \in Nat \ {0}

Bit == {0, 1}

\* MUTANT of Xor: sums instead of parities.
XorSum(a, b) == [i \in 1 .. Len(a) |-> a[i] + b[i]]

Xor(a, b) == [i \in 1 .. Len(a) |-> (a[i] + b[i]) % 2]

Inverse1(bits) == [i \in 1 .. Len(bits) |-> 1 - bits[i]]

(* 1 << n *)
Pow2[n \in Nat] == IF n = 0 THEN 1 ELSE 2 * Pow2[n - 1]

(* (n + 7) // 8 *)
BytesFor(n) == (n + ByteBits - 1) \div ByteBits

(* np.unpackbits, and np.packbits, which fills up the last byte with zeros *)
BytesToBits(data) ==
    [k \in 1 .. Len(data) * ByteBits |->
        (data[(k - 1) \div ByteBits + 1] \div Pow2[ByteBits - 1 - ((k - 1) % ByteBits)]) % 2]

BitsToInt(bits) ==
    LET value[k \in 0 .. Len(bits)] == IF k = 0 THEN 0 ELSE 2 * value[k - 1] + bits[k]
    IN  value[Len(bits)]

BitsToBytes(bits) ==
    [b \in 1 .. BytesFor(Len(bits)) |->
        BitsToInt([k \in 1 .. ByteBits |->
            LET at == (b - 1) * ByteBits + k
            IN  IF at <= Len(bits) THEN bits[at] ELSE 0])]

-----------------------------------------------------------------------------
(* ConvolutionalCodec.  The register holds the last K bits, the latest in  *)
(* its highest place.                                                      *)

(* bin(register & poly).count("1") % 2 *)
Parity(register, taps) == Cardinality({t \in taps : (register \div Pow2[t]) % 2 = 1}) % 2

(* The K - 1 zeros behind the data flush the register. *)
Padded(code, bits) ==
    [i \in 1 .. Len(bits) + code.K - 1 |-> IF i <= Len(bits) THEN bits[i] ELSE 0]

Register(code, padded, i) ==
    BitsToInt([p \in 1 .. code.K |-> IF p <= i THEN padded[i - p + 1] ELSE 0])

ConvEncode(code, bits) ==
    LET padded == Padded(code, bits)
    IN  [k \in 1 .. Len(padded) * code.rate |->
            Parity(Register(code, padded, (k - 1) \div code.rate + 1),
                   code.taps[((k - 1) % code.rate) + 1])]

(* _n_states: the registers with the same latest bit *)
Half(code) == Pow2[code.K - 1]

Infinite == Pow2[30]

\* MUTANT of Better: the worse path survives.
Worse(p0, p1) == IF p0.metric < p1.metric THEN p1 ELSE p0

(* sel = m0 > m1 *)
Better(p0, p1) == IF p0.metric > p1.metric THEN p1 ELSE p0

(* _output_table: what entering a register sends *)
Output(code, register) == [j \in 1 .. code.rate |-> Parity(register, code.taps[j])]

Distance(a, b) == Cardinality({i \in DOMAIN a : a[i] # b[i]})

(* One turn of the add-compare-select loop over the registers 0, 1, 2, ... *)
(* in order, those with a zero in the highest place first.  Registers l    *)
(* and Half + l have the predecessors 2l and 2l + 1; ties go to the even   *)
(* one.  A survivor is kept as the path it stands for.                     *)
SelectInto(code, paths, rx, bit) ==
    [l \in 1 .. Half(code) |->
        LET best == Better(paths[2 * l - 1], paths[2 * l])
        IN  [metric |-> best.metric + Distance(Output(code, bit * Half(code) + l - 1), rx),
             bits   |-> Append(best.bits, bit)]]

Select(code, paths, rx) ==
    SelectInto(code, paths, rx, 0) \o SelectInto(code, paths, rx, 1)

(* decoded[:n]: a negative n counts from the end *)
UpTo(s, n) == SubSeq(s, 1, IF n >= 0 THEN Min({n, Len(s)}) ELSE Max({0, Len(s) + n}))

(* decode: the first of the registers at the least distance ends the path *)
ConvDecode(code, received) ==
    LET n     == Len(received) \div code.rate
        bits  == SubSeq(received, 1, n * code.rate)
        rx    == [i \in 1 .. n |-> SubSeq(bits, (i - 1) * code.rate + 1, i * code.rate)]
        start == [s \in 1 .. 2 * Half(code) |->
                    [metric |-> IF s = 1 THEN 0 ELSE Infinite, bits |-> <<>>]]
        paths[i \in 0 .. n] == IF i = 0 THEN start ELSE Select(code, paths[i - 1], rx[i])
        ends  == paths[n]
        least == Min({ends[s].metric : s \in DOMAIN ends})
        final == Min({s \in DOMAIN ends : ends[s].metric = least})
    IN  UpTo(ends[final].bits, n - (code.K - 1))

-----------------------------------------------------------------------------
(* FECCodec, without an outer code: encode_bytes, decode_bits *)

FecEncode(code, data) ==
    LET bits == BytesToBits(data)
    IN  IF code.cc THEN ConvEncode(code, bits) ELSE bits

FecDecode(code, bits) ==
    BitsToBytes(IF code.cc THEN ConvDecode(code, bits) ELSE bits)

\* MUTANT of CodedLength: the tail bits are forgotten.
CodedLengthNoTail(code, infoBits) == IF code.cc THEN infoBits * code.rate ELSE infoBits

(* coded_length *)
CodedLength(code, infoBits) ==
    LET n == IF code.rs THEN (BytesFor(infoBits) + code.nsym) * ByteBits ELSE infoBits
    IN  IF code.cc THEN (n + code.K - 1) * code.rate ELSE n

=============================================================================
