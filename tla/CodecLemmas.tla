----------------------------- MODULE CodecLemmas -----------------------------
(***************************************************************************)
(* What the operators of FecCodec, DatalinkProfile and FrameGenerator do,  *)
(* for every code, profile, frame configuration and payload.               *)
(*                                                                         *)
(* First the lengths of what is built; then bits, numbers and bytes, CRC,  *)
(* whitening and interleaving; then the convolutional code, up to the      *)
(* theorem that its decoder corrects one error; then the parts of a        *)
(* frame, the search for its sync word and what parse and parse_frame      *)
(* read from it; then, up to the theorem that a CRC notices every burst    *)
(* that is no longer than its register, a frame that a burst has hit.      *)
(***************************************************************************)
EXTENDS FrameLink, NumberLemmas, SequenceTheorems, FiniteSetTheorems

-----------------------------------------------------------------------------
(* Arithmetic *)

LEMMA BytesForNat == ASSUME NEW n \in Nat PROVE BytesFor(n) \in Nat
  BY ByteAssumption, QuotientNat DEF BytesFor

LEMMA BytesForPositive == ASSUME NEW n \in Nat \ {0} PROVE BytesFor(n) \in Nat \ {0}
<1>1. n + ByteBits - 1 >= ByteBits
  BY ByteAssumption
<1>2. ASSUME NEW m \in Nat, m >= ByteBits PROVE m \div ByteBits # 0
  <2>1. m = ByteBits * (m \div ByteBits) + (m % ByteBits)
    BY ByteAssumption
  <2>2. m % ByteBits < ByteBits
    BY ByteAssumption
  <2> QED BY <1>2, <2>1, <2>2, ByteAssumption
<1> QED BY <1>1, <1>2, BytesForNat, ByteAssumption DEF BytesFor

-----------------------------------------------------------------------------
(* Sequences of anything: whose length is known, whatever they hold *)

Sequence(s) == \E S : s \in Seq(S)

LEMMA SequenceLength == ASSUME NEW s, Sequence(s) PROVE Len(s) \in Nat
  BY DEF Sequence

LEMMA ListIsSequence ==
  ASSUME NEW n \in Nat, NEW f, f = [i \in 1 .. n |-> f[i]]
  PROVE  Sequence(f) /\ Len(f) = n
<1> DEFINE S == {f[i] : i \in 1 .. n}
<1>1. f \in [1 .. n -> S]
  OBVIOUS
<1>2. f \in Seq(S)
  BY <1>1
<1>3. Len(f) = n
  BY <1>1
<1> QED BY <1>2, <1>3 DEF Sequence

LEMMA Concatenation ==
  ASSUME NEW a, NEW b, Sequence(a), Sequence(b)
  PROVE  Sequence(a \o b) /\ Len(a \o b) = Len(a) + Len(b)
<1>1. PICK S : a \in Seq(S)
  BY DEF Sequence
<1>2. PICK T : b \in Seq(T)
  BY DEF Sequence
<1>3. a \in Seq(S \cup T) /\ b \in Seq(S \cup T)
  BY <1>1, <1>2
<1>4. a \o b \in Seq(S \cup T) /\ Len(a \o b) = Len(a) + Len(b)
  BY <1>3
<1> QED BY <1>4 DEF Sequence

-----------------------------------------------------------------------------
(* The length of every conversion *)

LEMMA BytesToBitsLength ==
  ASSUME NEW data, Len(data) \in Nat
  PROVE  Sequence(BytesToBits(data)) /\ Len(BytesToBits(data)) = Len(data) * ByteBits
<1>1. Len(data) * ByteBits \in Nat
  BY ByteAssumption, ProductNat
<1> QED BY <1>1, ListIsSequence DEF BytesToBits

LEMMA BitsToBytesLength ==
  ASSUME NEW bits, Len(bits) \in Nat
  PROVE  Sequence(BitsToBytes(bits)) /\ Len(BitsToBytes(bits)) = BytesFor(Len(bits))
  BY BytesForNat, ListIsSequence DEF BitsToBytes

LEMMA ConvEncodeLength ==
  ASSUME NEW code, CodeOK(code), NEW bits, Len(bits) \in Nat
  PROVE  /\ Sequence(ConvEncode(code, bits))
         /\ Len(ConvEncode(code, bits)) = (Len(bits) + code.K - 1) * code.rate
<1>1. Len(bits) + code.K - 1 \in Nat
  BY DEF CodeOK
<1>2. Len(Padded(code, bits)) = Len(bits) + code.K - 1
  BY <1>1 DEF Padded
<1>3. (Len(bits) + code.K - 1) * code.rate \in Nat
  BY <1>1, ProductNat DEF CodeOK
<1> QED BY <1>2, <1>3, ListIsSequence DEF ConvEncode

(* coded_length is the length of what encode_bytes returns. *)
LEMMA FecEncodeLength ==
  ASSUME NEW code, CodeOK(code), NEW data, Len(data) \in Nat
  PROVE  /\ Sequence(FecEncode(code, data))
         /\ Len(FecEncode(code, data)) = CodedLength(code, Len(data) * ByteBits)
<1>1. Len(data) * ByteBits \in Nat
  BY ByteAssumption, ProductNat
<1>2. Sequence(BytesToBits(data)) /\ Len(BytesToBits(data)) = Len(data) * ByteBits
  BY BytesToBitsLength
<1>3. CASE code.cc
  BY <1>1, <1>2, <1>3, ConvEncodeLength DEF FecEncode, CodedLength, CodeOK
<1>4. CASE ~ code.cc
  BY <1>2, <1>4 DEF FecEncode, CodedLength, CodeOK
<1> QED BY <1>3, <1>4

LEMMA CodedLengthNat ==
  ASSUME NEW code, CodeOK(code), NEW n \in Nat
  PROVE  CodedLength(code, n) \in Nat
<1>1. n + code.K - 1 \in Nat
  BY DEF CodeOK
<1>2. (n + code.K - 1) * code.rate \in Nat
  BY <1>1, ProductNat DEF CodeOK
<1> QED BY <1>2 DEF CodedLength, CodeOK

LEMMA IntToBitsLength ==
  ASSUME NEW v, NEW w \in Nat
  PROVE  Sequence(IntToBits(v, w)) /\ Len(IntToBits(v, w)) = w
  BY ListIsSequence DEF IntToBits

LEMMA IntToBytesLength ==
  ASSUME NEW v, NEW n \in Nat
  PROVE  Sequence(IntToBytes(v, n)) /\ Len(IntToBytes(v, n)) = n
  BY ListIsSequence DEF IntToBytes

LEMMA CrcLength ==
  ASSUME NEW crc, crc.bytes \in Nat, NEW data
  PROVE  Sequence(Crc(crc, data)) /\ Len(Crc(crc, data)) = crc.bytes
  BY IntToBytesLength DEF Crc

LEMMA WhitenLength ==
  ASSUME NEW p, NEW bits, Sequence(bits)
  PROVE  Sequence(Whiten(p, bits)) /\ Len(Whiten(p, bits)) = Len(bits)
<1>1. ASSUME NEW states
      PROVE  Sequence(Xor(bits, states)) /\ Len(Xor(bits, states)) = Len(bits)
  BY ListIsSequence, SequenceLength DEF Xor
<1> QED BY <1>1 DEF Whiten

LEMMA InterleaveLength ==
  ASSUME NEW bits, Sequence(bits), NEW rows
  PROVE  /\ Sequence(MatrixInterleave(bits, rows))
         /\ Len(MatrixInterleave(bits, rows)) = Len(bits)
  BY ListIsSequence, SequenceLength DEF MatrixInterleave

-----------------------------------------------------------------------------
(* Profiles *)

LEMMA PaddingNat ==
  ASSUME NEW p, ProfileOK(p), NEW n \in Nat
  PROVE  Padding(p, n) \in Nat
<1>1. CASE p.alignBits <= 0
  BY <1>1 DEF Padding
<1>2. CASE ~ (p.alignBits <= 0)
  <2> DEFINE unit == BytesFor(p.alignBits)
  <2>1. unit \in Nat \ {0}
    BY <1>2, BytesForPositive DEF ProfileOK
  <2> HIDE DEF unit
  <2>2. (unit - (n % unit)) % unit \in Nat
    BY <2>1, RemainderNat
  <2> QED BY <1>2, <2>2 DEF Padding, unit
<1> QED BY <1>1, <1>2

LEMMA RegionLength ==
  ASSUME NEW p, ProfileOK(p), NEW payload \in Seq(Byte)
  PROVE  /\ Sequence(PayloadRegion(p, payload))
         /\ Len(PayloadRegion(p, payload)) = RegionBytes(p, Len(payload))
<1> DEFINE crc  == Crc(p.payloadCrc, payload)
           body == payload \o crc
           pad  == [i \in 1 .. Padding(p, Len(body)) |-> p.padByte]
<1>1. Sequence(payload)
  BY DEF Sequence
<1>2. Sequence(crc) /\ Len(crc) = p.payloadCrc.bytes
  BY CrcLength DEF ProfileOK, CrcOK
<1> HIDE DEF crc
<1>3. Sequence(body) /\ Len(body) = Len(payload) + p.payloadCrc.bytes
  BY <1>1, <1>2, Concatenation
<1>4. Len(body) \in Nat
  BY <1>3, SequenceLength
<1> HIDE DEF body
<1>5. Sequence(pad) /\ Len(pad) = Padding(p, Len(body))
  BY <1>4, PaddingNat, ListIsSequence
<1> HIDE DEF pad
<1>6. Sequence(body \o pad) /\ Len(body \o pad) = Len(body) + Padding(p, Len(body))
  BY <1>3, <1>5, Concatenation
<1>7. PayloadRegion(p, payload) = body \o pad
  BY DEF PayloadRegion, PadRegion, body, pad, crc
<1> QED BY <1>3, <1>6, <1>7 DEF RegionBytes

LEMMA EncodedLength ==
  ASSUME NEW p, ProfileOK(p), NEW payload \in Seq(Byte)
  PROVE  LET bits == EncodeRegion(p, PayloadRegion(p, payload))
         IN  Sequence(bits) /\ Len(bits) = EncodedBits(p, Len(payload))
<1> DEFINE region == PayloadRegion(p, payload)
           coded  == Coded(p, region)
<1>1. Sequence(region) /\ Len(region) = RegionBytes(p, Len(payload)) /\ Len(region) \in Nat
  BY RegionLength, SequenceLength
<1> HIDE DEF region
<1>2. Sequence(coded) /\ Len(coded) = EncodedBits(p, Len(payload))
  <2>1. CASE p.fec.enabled
    BY <1>1, <2>1, FecEncodeLength DEF Coded, EncodedBits, ProfileOK
  <2>2. CASE ~ p.fec.enabled
    BY <1>1, <2>2, BytesToBitsLength DEF Coded, EncodedBits
  <2> QED BY <2>1, <2>2
<1> HIDE DEF coded
<1>3. /\ Sequence(MatrixInterleave(coded, p.rows))
      /\ Len(MatrixInterleave(coded, p.rows)) = Len(coded)
  BY <1>2, InterleaveLength
<1> QED BY <1>2, <1>3, WhitenLength DEF EncodeRegion, coded, region

LEMMA HeaderLength ==
  ASSUME NEW p, ProfileOK(p), NEW header
  PROVE  /\ Sequence(SerializeHeader(p, header))
         /\ Len(SerializeHeader(p, header)) = HeaderBits(p)
<1>1. /\ Sequence(IntToBits(header.length, p.lengthBits))
      /\ Len(IntToBits(header.length, p.lengthBits)) = p.lengthBits
      /\ Sequence(IntToBits(header.id, p.idBits))
      /\ Len(IntToBits(header.id, p.idBits)) = p.idBits
      /\ Sequence(IntToBits(header.counter, p.counterBits))
      /\ Len(IntToBits(header.counter, p.counterBits)) = p.counterBits
  BY IntToBitsLength DEF ProfileOK
<1> QED BY <1>1, Concatenation DEF SerializeHeader, HeaderBits

(* frame_bits_for_length is the length of what build() returns. *)
LEMMA BuildLength ==
  ASSUME NEW p, ProfileOK(p), NEW payload \in Seq(Byte), NEW id, NEW count
  PROVE  Len(BuildBits(p, payload, id, count)) = FrameBits(p, Len(payload))
<1> DEFINE header  == SerializeHeader(p, ResolveHeader(payload, id, count))
           crc     == Crc(p.headerCrc, BitsToBytes(header))
           crcBits == BytesToBits(crc)
           body    == EncodeRegion(p, PayloadRegion(p, payload))
<1>1. Sequence(p.preamble) /\ Sequence(p.sync)
  BY DEF ProfileOK, Sequence
<1>2. Sequence(header) /\ Len(header) = HeaderBits(p)
  BY HeaderLength
<1>3. Len(crc) = p.headerCrc.bytes
  BY CrcLength DEF ProfileOK, CrcOK
<1>4. Sequence(crcBits) /\ Len(crcBits) = p.headerCrc.bytes * ByteBits
  BY <1>3, BytesToBitsLength DEF ProfileOK
<1>5. Sequence(body) /\ Len(body) = EncodedBits(p, Len(payload))
  BY EncodedLength
<1>6. BuildBits(p, payload, id, count) = p.preamble \o p.sync \o header \o crcBits \o body
  BY DEF BuildBits
<1> HIDE DEF header, crc, crcBits, body
<1>7. Sequence(p.preamble \o p.sync) /\ Len(p.preamble \o p.sync) = Len(p.preamble) + Len(p.sync)
  BY <1>1, Concatenation
<1>8. /\ Sequence(p.preamble \o p.sync \o header)
      /\ Len(p.preamble \o p.sync \o header) = Len(p.preamble) + Len(p.sync) + HeaderBits(p)
  BY <1>2, <1>7, Concatenation
<1>9. /\ Sequence(p.preamble \o p.sync \o header \o crcBits)
      /\ Len(p.preamble \o p.sync \o header \o crcBits)
            = Len(p.preamble) + Len(p.sync) + HeaderBits(p) + p.headerCrc.bytes * ByteBits
  BY <1>4, <1>8, Concatenation
<1>10. Len(p.preamble \o p.sync \o header \o crcBits \o body)
            = Len(p.preamble) + Len(p.sync) + HeaderBits(p) + p.headerCrc.bytes * ByteBits
              + EncodedBits(p, Len(payload))
  BY <1>5, <1>9, Concatenation
<1> QED BY <1>6, <1>10 DEF FrameBits

-----------------------------------------------------------------------------
(* Frame configurations *)

(* What the transmitter builds is as long as it and the receiver compute. *)
LEMMA ChipsLength ==
  ASSUME NEW f, FrameOK(f), NEW payload \in Seq(Byte)
  PROVE  /\ Len(BuildChips(f, payload)) = TxTotalChips(f)
         /\ Len(BuildChips(f, payload)) = Len(f.preamble) + RxCodedBits(f) * Len(f.code)
<1> DEFINE bits  == PayloadBits(f, payload)
           data  == f.invariant \o bits
           bytes == BitsToBytes(data)
           coded == CodedFrame(f, payload)
<1>1. Sequence(bits) /\ Len(bits) = f.payloadBits
  BY ListIsSequence DEF PayloadBits, FrameOK
<1>2. Sequence(f.invariant) /\ Sequence(f.preamble) /\ Sequence(f.code)
  BY DEF FrameOK, Sequence
<1> HIDE DEF bits
<1>3. Sequence(data) /\ Len(data) = InfoBits(f) /\ InfoBits(f) \in Nat
  BY <1>1, <1>2, Concatenation, SequenceLength DEF InfoBits, FrameOK
<1> HIDE DEF data
<1>4. Len(bytes) = BytesFor(InfoBits(f)) /\ Len(bytes) \in Nat
  BY <1>3, BitsToBytesLength, BytesForNat
<1> HIDE DEF bytes
<1>5. Sequence(coded) /\ Len(coded) = RxCodedBits(f)
  <2>1. CASE f.fec.enabled
    <3>1. coded = FecEncode(f.fec, bytes)
      BY <2>1 DEF CodedFrame, bytes, data, bits
    <3>2. Sequence(coded) /\ Len(coded) = CodedLength(f.fec, Len(bytes) * ByteBits)
      BY <1>4, <3>1, FecEncodeLength DEF FrameOK
    <3> QED BY <1>4, <2>1, <3>2 DEF RxCodedBits
  <2>2. CASE ~ f.fec.enabled
    <3>1. coded = data
      BY <2>2 DEF CodedFrame, data, bits
    <3> QED BY <1>3, <2>2, <3>1 DEF RxCodedBits
  <2> QED BY <2>1, <2>2
<1> HIDE DEF coded
<1>6. Len(coded) * Len(f.code) \in Nat
  BY <1>2, <1>5, SequenceLength, ProductNat
<1>7. /\ Sequence(Spread(f.code, coded))
      /\ Len(Spread(f.code, coded)) = Len(coded) * Len(f.code)
  BY <1>6, ListIsSequence DEF Spread
<1>8. Len(BuildChips(f, payload)) = Len(f.preamble) + Len(coded) * Len(f.code)
  BY <1>2, <1>7, Concatenation DEF BuildChips, coded
<1> QED BY <1>5, <1>8 DEF TxTotalChips, RxCodedBits

-----------------------------------------------------------------------------
(* The matrix interleaver is undone by the deinterleaver *)

LEMMA Cell ==
  ASSUME NEW rows \in Nat \ {0}, NEW cols \in Nat \ {0}, NEW i \in 0 .. rows * cols - 1
  PROVE  /\ i \div cols \in 0 .. rows - 1
         /\ i % cols \in 0 .. cols - 1
         /\ (i \div cols) * cols + (i % cols) = i
<1>1. rows * cols \in Nat /\ i \in Nat
  BY ProductNat
<1>2. i \div cols \in Nat /\ i % cols \in 0 .. cols - 1
  BY <1>1, DivisionRanges
<1>3. (i \div cols) * cols + (i % cols) = i
  BY <1>1
<1>4. i \div cols < rows
  <2>1. SUFFICES ASSUME rows <= i \div cols PROVE FALSE
    BY <1>2
  <2>2. CASE rows = i \div cols
    BY <1>1, <1>2, <1>3, <2>2
  <2>3. CASE rows < i \div cols
    <3>1. rows * cols + cols <= (i \div cols) * cols
      BY <1>2, <2>3, Multiples
    <3>2. (i \div cols) * cols \in Nat
      BY <1>2, ProductNat
    <3> QED BY <1>1, <1>2, <1>3, <3>1, <3>2
  <2> QED BY <1>2, <2>1, <2>2, <2>3
<1> QED BY <1>2, <1>3, <1>4

(* _matrix_deinterleave undoes _matrix_interleave whenever the bits fill   *)
(* the rows: a codec never loses a bit to its interleaver.                 *)
THEOREM DeinterleaveInverts ==
  ASSUME NEW S, NEW bits \in Seq(S), NEW rows \in Nat \ {0}, Divides(rows, Len(bits))
  PROVE  MatrixDeinterleave(MatrixInterleave(bits, rows), rows) = bits
<1>1. CASE rows <= 1
  BY <1>1 DEF MatrixInterleave, MatrixDeinterleave
<1>2. CASE ~ (rows <= 1)
  <2> DEFINE n     == Len(bits)
             cols  == n \div rows
             inter == MatrixInterleave(bits, rows)
  <2>1. n \in Nat /\ cols \in Nat /\ n = rows * cols
    <3>1. n \in Nat /\ n % rows = 0
      BY <1>2 DEF Divides
    <3>2. n = rows * (n \div rows) + (n % rows)
      BY <3>1
    <3> QED BY <3>1, <3>2, QuotientNat
  <2>2. inter = [k \in 1 .. n |-> bits[((k - 1) % rows) * cols + (k - 1) \div rows + 1]]
    BY <1>2 DEF MatrixInterleave
  <2>3. Len(inter) = n
    BY <2>1, <2>2
  <2>4. MatrixDeinterleave(inter, rows)
          = [k \in 1 .. n |-> inter[((k - 1) % cols) * rows + (k - 1) \div cols + 1]]
    BY <1>2, <2>3 DEF MatrixDeinterleave
  <2>5. bits = [k \in 1 .. n |-> bits[k]]
    OBVIOUS
  <2> HIDE DEF n, cols, inter
  <2>6. ASSUME NEW k \in 1 .. n
        PROVE  inter[((k - 1) % cols) * rows + (k - 1) \div cols + 1] = bits[k]
    <3> DEFINE i   == k - 1
               row == i \div cols
               col == i % cols
               j   == col * rows + row
    <3>1. cols # 0
      BY <2>1, <2>6
    <3>2. i \in 0 .. rows * cols - 1
      BY <2>1
    <3>3. row \in 0 .. rows - 1 /\ col \in 0 .. cols - 1 /\ row * cols + col = i
      BY <2>1, <3>1, <3>2, Cell
    <3> HIDE DEF i, row, col
    <3>4. j \div rows = col /\ j % rows = row
      BY <3>3, DivisionUnique
    <3>5. j + 1 \in 1 .. n
      <4>1. col * rows + rows <= cols * rows
        BY <2>1, <3>3, Multiples
      <4>2. col * rows \in Nat /\ cols * rows = n
        BY <2>1, <3>3, ProductNat
      <4> QED BY <2>1, <3>3, <4>1, <4>2
    <3>6. j \in Nat
      BY <3>3, ProductNat
    <3> HIDE DEF j
    <3>7. inter[j + 1] = bits[(j % rows) * cols + j \div rows + 1]
      <4>1. (j + 1) - 1 = j
        BY <3>6
      <4> QED BY <2>2, <3>5, <4>1
    <3>8. inter[j + 1] = bits[i + 1]
      BY <3>3, <3>4, <3>7
    <3>9. i + 1 = k
      BY DEF i
    <3> QED BY <3>8, <3>9 DEF j, row, col, i
  <2> QED BY <2>4, <2>5, <2>6 DEF inter
<1> QED BY <1>1, <1>2

-----------------------------------------------------------------------------
(* Powers of two *)

LEMMA Pow2Is ==
  /\ Pow2[0] = 1
  /\ \A n \in Nat : Pow2[n + 1] = 2 * Pow2[n]
<1> DEFINE Rec(g) == g = [n \in Nat |-> IF n = 0 THEN 1 ELSE 2 * g[n - 1]]
           step == [q \in Nat \X Nat |-> 2 * q[2]]
<1>1. \A n \in Nat, x \in Nat : step[<<n, x>>] = 2 * x
  OBVIOUS
<1>2. StepOn(step, Nat)
  BY DEF StepOn
<1> HIDE DEF step
<1>3. 1 \in Nat
  OBVIOUS
<1>4. PICK f : Iterates(f, Nat, 1, step)
  BY <1>2, <1>3, Iteration
<1>5. Rec(f)
  <2>1. f \in [Nat -> Nat] /\ f[0] = 1 /\ \A n \in Nat : f[n + 1] = 2 * f[n]
    BY <1>1, <1>4 DEF Iterates
  <2>2. ASSUME NEW n \in Nat PROVE f[n] = IF n = 0 THEN 1 ELSE 2 * f[n - 1]
    <3>1. CASE n = 0
      BY <2>1, <3>1
    <3>2. CASE n # 0
      <4>1. n - 1 \in Nat /\ (n - 1) + 1 = n
        BY <3>2
      <4> QED BY <2>1, <3>2, <4>1
    <3> QED BY <3>1, <3>2
  <2>3. f = [n \in Nat |-> f[n]]
    BY <2>1
  <2> QED BY <2>2, <2>3
<1>6. Pow2 = CHOOSE g : Rec(g)
  BY DEF Pow2
<1>7. Rec(Pow2)
  <2> HIDE DEF Rec
  <2> QED BY <1>5, <1>6
<1>8. Pow2[0] = 1
  BY <1>7
<1>9. ASSUME NEW n \in Nat PROVE Pow2[n + 1] = 2 * Pow2[n]
  <2>1. n + 1 \in Nat /\ n + 1 # 0 /\ (n + 1) - 1 = n
    OBVIOUS
  <2> QED BY <1>7, <2>1
<1> QED BY <1>8, <1>9

LEMMA Pow2Type == ASSUME NEW n \in Nat PROVE Pow2[n] \in Nat \ {0}
<1> DEFINE T == {m \in Nat : Pow2[m] \in Nat \ {0}}
<1>1. 0 \in T
  BY Pow2Is
<1>2. ASSUME NEW m \in Nat, m \in T PROVE m + 1 \in T
  BY <1>2, Pow2Is
<1> HIDE DEF T
<1>3. n \in T
  BY <1>1, <1>2, SetInduction
<1> QED BY <1>3 DEF T

LEMMA Pow2Before ==
  ASSUME NEW n \in Nat \ {0}
  PROVE  n - 1 \in Nat /\ Pow2[n - 1] \in Nat \ {0} /\ Pow2[n] = 2 * Pow2[n - 1]
<1>1. n - 1 \in Nat /\ (n - 1) + 1 = n
  OBVIOUS
<1> QED BY <1>1, Pow2Is, Pow2Type

LEMMA Pow2Sum ==
  ASSUME NEW a \in Nat, NEW b \in Nat
  PROVE  Pow2[a + b] = Pow2[a] * Pow2[b]
<1> DEFINE T == {m \in Nat : Pow2[a + m] = Pow2[a] * Pow2[m]}
<1>1. 0 \in T
  <2>1. a + 0 = a
    OBVIOUS
  <2> QED BY <2>1, Pow2Is, Pow2Type
<1>2. ASSUME NEW m \in Nat, m \in T PROVE m + 1 \in T
  <2> DEFINE x == Pow2[a]
             y == Pow2[m]
  <2>1. Pow2[m + 1] = 2 * y /\ Pow2[a + m] = x * y
    BY <1>2, Pow2Is
  <2>2. a + m \in Nat /\ a + (m + 1) = (a + m) + 1
    OBVIOUS
  <2>3. Pow2[a + (m + 1)] = 2 * (x * y)
    BY <2>1, <2>2, Pow2Is
  <2>4. x \in Nat /\ y \in Nat
    BY Pow2Type
  <2> HIDE DEF x, y
  <2>5. 2 * (x * y) = x * (2 * y)
    BY <2>4
  <2> QED BY <2>1, <2>3, <2>5 DEF x
<1> HIDE DEF T
<1>3. b \in T
  BY <1>1, <1>2, SetInduction
<1> QED BY <1>3 DEF T

LEMMA Halved ==
  ASSUME NEW v \in Nat, NEW a \in Nat \ {0}
  PROVE  (v \div a) \div 2 = v \div (2 * a)
<1> DEFINE q == v \div a
           r == v % a
           h == q \div 2
           b == q % 2
<1>1. q \in Nat /\ r \in 0 .. a - 1 /\ v = a * q + r
  BY Quotient
<1> HIDE DEF q, r
<1>2. h \in Nat /\ b \in 0 .. 1 /\ q = 2 * h + b
  BY <1>1
<1> HIDE DEF h, b
<1>3. CASE b = 0
  <2>1. a * q = h * (2 * a)
    BY <1>1, <1>2, <1>3
  <2>2. r \in 0 .. (2 * a) - 1 /\ 2 * a \in Nat \ {0} /\ h \in Int
    BY <1>1, <1>2
  <2>3. (h * (2 * a) + r) \div (2 * a) = h
    BY <2>2, DivisionUnique
  <2> QED BY <1>1, <2>1, <2>3 DEF h, q
<1>4. CASE b = 1
  <2>1. a * q = h * (2 * a) + a
    BY <1>1, <1>2, <1>4
  <2>2. a + r \in 0 .. (2 * a) - 1 /\ 2 * a \in Nat \ {0} /\ h \in Int
    BY <1>1, <1>2
  <2>3. (h * (2 * a) + (a + r)) \div (2 * a) = h
    BY <2>2, DivisionUnique
  <2>4. h * (2 * a) \in Int
    BY <2>2, ProductInt
  <2>5. v = h * (2 * a) + (a + r)
    BY <1>1, <2>1, <2>4
  <2> QED BY <2>3, <2>5 DEF h, q
<1> QED BY <1>2, <1>3, <1>4

LEMMA TooSmall ==
  ASSUME NEW d \in Nat \ {0}, NEW v \in 0 .. d - 1
  PROVE  v \div d = 0 /\ v % d = v
<1>1. 0 \in Int /\ 0 * d + v = v
  OBVIOUS
<1> QED BY <1>1, DivisionUnique

-----------------------------------------------------------------------------
(* Bits and numbers *)

LEMMA BitIs == \A b \in Bit : b \in Nat /\ b \in 0 .. 1
  BY DEF Bit

LEMMA Remainder2 == ASSUME NEW n \in Int PROVE n % 2 \in Bit
<1>1. n % 2 \in 0 .. 1
  OBVIOUS
<1> QED BY <1>1 DEF Bit

(* The values BitsToInt passes on its way through the bits *)
Values(v, bits) ==
    /\ v[0] = 0
    /\ \A k \in 1 .. Len(bits) : v[k] = 2 * v[k - 1] + bits[k]
    /\ \A k \in 0 .. Len(bits) : v[k] \in Nat

LEMMA BitsToIntIs ==
  ASSUME NEW bits \in Seq(Bit)
  PROVE  \E v : Values(v, bits) /\ BitsToInt(bits) = v[Len(bits)]
<1> DEFINE n == Len(bits)
           bit(k) == IF k \in 1 .. n THEN bits[k] ELSE 0
           step == [q \in Nat \X Nat |-> 2 * q[2] + bit(q[1] + 1)]
           Rec(g) == g = [k \in 0 .. n |-> IF k = 0 THEN 0 ELSE 2 * g[k - 1] + bits[k]]
           v == CHOOSE g : Rec(g)
<1>1. n \in Nat /\ \A k \in 1 .. n : bits[k] \in Nat
  BY LenProperties, ElementOfSeq, BitIs
<1>2. \A k \in Nat : bit(k) \in Nat
  BY <1>1
<1> HIDE DEF n
<1>3. \A k \in Nat, x \in Nat : step[<<k, x>>] = 2 * x + bit(k + 1)
  OBVIOUS
<1>4. StepOn(step, Nat)
  <2> HIDE DEF bit
  <2>1. ASSUME NEW q \in Nat \X Nat PROVE 2 * q[2] + bit(q[1] + 1) \in Nat
    <3>1. q[1] + 1 \in Nat /\ q[2] \in Nat
      OBVIOUS
    <3>2. bit(q[1] + 1) \in Nat
      BY <1>2, <3>1
    <3> QED BY <3>1, <3>2
  <2> QED BY <2>1 DEF StepOn
<1> HIDE DEF step
<1>5. 0 \in Nat
  OBVIOUS
<1>6. PICK f : Iterates(f, Nat, 0, step)
  BY <1>4, <1>5, Iteration
<1>7. /\ f[0] = 0
      /\ \A k \in 1 .. n : f[k] = 2 * f[k - 1] + bits[k]
      /\ \A k \in Nat : f[k] \in Nat
  <2>1. f \in [Nat -> Nat] /\ f[0] = 0 /\ \A k \in Nat : f[k + 1] = 2 * f[k] + bit(k + 1)
    BY <1>3, <1>6 DEF Iterates
  <2>2. ASSUME NEW k \in 1 .. n PROVE f[k] = 2 * f[k - 1] + bits[k]
    <3>1. k - 1 \in Nat /\ (k - 1) + 1 = k
      BY <1>1
    <3> QED BY <2>1, <3>1
  <2> HIDE DEF bit
  <2> QED BY <2>1, <2>2
<1>8. Rec([k \in 0 .. n |-> f[k]])
  <2> DEFINE c == [k \in 0 .. n |-> f[k]]
  <2>1. ASSUME NEW k \in 0 .. n PROVE c[k] = IF k = 0 THEN 0 ELSE 2 * c[k - 1] + bits[k]
    <3>1. CASE k = 0
      BY <1>7, <3>1
    <3>2. CASE k # 0
      <4>1. k \in 1 .. n /\ k - 1 \in 0 .. n
        BY <1>1, <3>2
      <4> QED BY <1>7, <3>2, <4>1
    <3> QED BY <3>1, <3>2
  <2>2. c = [k \in 0 .. n |-> c[k]]
    OBVIOUS
  <2> HIDE DEF c
  <2>3. Rec(c)
    BY <2>1, <2>2
  <2> QED BY <2>3 DEF c
<1>9. Rec(v)
  <2> HIDE DEF Rec
  <2> QED BY <1>8
<1>10. BitsToInt(bits) = v[n]
  BY DEF BitsToInt, n
<1> HIDE DEF v
<1>11. v[0] = 0 /\ \A k \in 1 .. n : v[k] = 2 * v[k - 1] + bits[k]
  <2>1. 0 \in 0 .. n
    BY <1>1
  <2>2. \A k \in 1 .. n : k \in 0 .. n /\ k # 0
    BY <1>1
  <2> QED BY <1>9, <2>1, <2>2
<1>12. \A k \in 0 .. n : v[k] \in Nat
  <2> DEFINE T == {k \in Nat : k <= n => v[k] \in Nat}
  <2>1. 0 \in T
    BY <1>11
  <2>2. ASSUME NEW k \in Nat, k \in T PROVE k + 1 \in T
    <3>1. CASE k + 1 <= n
      <4>1. k + 1 \in 1 .. n /\ (k + 1) - 1 = k /\ k <= n
        BY <1>1, <3>1
      <4>2. v[k] \in Nat /\ v[k + 1] = 2 * v[k] + bits[k + 1]
        BY <1>11, <2>2, <4>1
      <4> QED BY <1>1, <4>1, <4>2
    <3>2. CASE ~ (k + 1 <= n)
      BY <3>2
    <3> QED BY <3>1, <3>2
  <2> HIDE DEF T
  <2>3. Nat \subseteq T
    BY <2>1, <2>2, SetInduction
  <2> QED BY <1>1, <2>3 DEF T
<1> QED BY <1>10, <1>11, <1>12 DEF Values, n

LEMMA ValuesBound ==
  ASSUME NEW bits \in Seq(Bit), NEW v, Values(v, bits), NEW k \in 0 .. Len(bits)
  PROVE  v[k] \in 0 .. Pow2[k] - 1
<1> DEFINE n == Len(bits)
           T == {i \in 0 .. n : v[i] \in 0 .. Pow2[i] - 1}
<1>1. n \in Nat /\ \A i \in 1 .. n : bits[i] \in 0 .. 1
  BY LenProperties, ElementOfSeq, BitIs
<1>2. /\ v[0] = 0 /\ \A i \in 1 .. n : v[i] = 2 * v[i - 1] + bits[i]
  BY DEF Values
<1> HIDE DEF n
<1>3. 0 \in T
  <2>1. 0 \in 0 .. n /\ v[0] \in 0 .. Pow2[0] - 1
    BY <1>1, <1>2, Pow2Is
  <2> QED BY <2>1
<1>4. ASSUME NEW i \in 0 .. n - 1, i \in T PROVE i + 1 \in T
  <2>1. i \in Nat /\ i + 1 \in 1 .. n /\ i + 1 \in 0 .. n /\ (i + 1) - 1 = i
    BY <1>1
  <2>2. v[i] \in 0 .. Pow2[i] - 1 /\ v[i + 1] = 2 * v[i] + bits[i + 1] /\ bits[i + 1] \in 0 .. 1
    BY <1>1, <1>2, <1>4, <2>1
  <2>3. Pow2[i + 1] = 2 * Pow2[i] /\ Pow2[i] \in Nat
    BY <2>1, Pow2Is, Pow2Type
  <2>4. v[i + 1] \in 0 .. Pow2[i + 1] - 1
    BY <2>2, <2>3
  <2> QED BY <2>1, <2>4
<1> HIDE DEF T
<1>5. 0 .. n \subseteq T
  BY <1>1, <1>3, <1>4, BoundedInduction
<1> QED BY <1>5 DEF T, n

LEMMA BitsToIntType ==
  ASSUME NEW bits \in Seq(Bit)
  PROVE  BitsToInt(bits) \in 0 .. Pow2[Len(bits)] - 1 /\ BitsToInt(bits) \in Nat
<1>1. PICK v : Values(v, bits) /\ BitsToInt(bits) = v[Len(bits)]
  BY BitsToIntIs
<1>2. Len(bits) \in Nat
  BY LenProperties
<1> DEFINE n == Len(bits)
<1>3. n \in 0 .. n
  BY <1>2
<1>4. v[n] \in 0 .. Pow2[n] - 1 /\ v[n] \in Nat
  BY <1>1, <1>3, ValuesBound DEF Values
<1> QED BY <1>1, <1>4

(* The values are the number's quotients by the powers of two. *)
LEMMA ValuesAre ==
  ASSUME NEW bits \in Seq(Bit), NEW v, Values(v, bits), NEW k \in 0 .. Len(bits)
  PROVE  v[Len(bits)] \div Pow2[Len(bits) - k] = v[k]
<1> DEFINE n == Len(bits)
           Is(i) == v[n] \div Pow2[i] = v[n - i]
           T == {i \in Nat : i <= n => Is(i)}
<1>1. n \in Nat /\ \A i \in 1 .. n : bits[i] \in 0 .. 1
  BY LenProperties, ElementOfSeq, BitIs
<1>2. /\ v[0] = 0 /\ \A i \in 1 .. n : v[i] = 2 * v[i - 1] + bits[i]
      /\ \A i \in 0 .. n : v[i] \in Nat
  BY DEF Values
<1>3. k \in 0 .. n
  OBVIOUS
<1> HIDE DEF n
<1>4. 0 \in T
  <2>1. n - 0 = n /\ v[n] \in Nat
    BY <1>1, <1>2
  <2>2. v[n] \div 1 = v[n]
    BY <2>1
  <2>3. Is(0)
    BY <2>1, <2>2, Pow2Is
  <2> HIDE DEF Is
  <2> QED BY <2>3
<1>5. ASSUME NEW i \in Nat, i \in T PROVE i + 1 \in T
  <2>1. CASE i + 1 <= n
    <3> DEFINE w == v[n - (i + 1)]
               b == bits[n - i]
    <3>1. n - i \in 1 .. n /\ (n - i) - 1 = n - (i + 1) /\ i <= n
          /\ n - (i + 1) \in 0 .. n /\ n \in 0 .. n
      BY <1>1, <2>1
    <3>2. v[n - i] = 2 * w + b /\ w \in Nat /\ b \in 0 .. 1 /\ v[n] \in Nat
      BY <1>1, <1>2, <3>1
    <3>3. v[n] \div Pow2[i] = v[n - i]
      BY <1>5, <3>1
    <3>4. (v[n] \div Pow2[i]) \div 2 = v[n] \div (2 * Pow2[i])
      BY <3>2, Pow2Type, Halved
    <3>5. Pow2[i + 1] = 2 * Pow2[i]
      BY Pow2Is
    <3> HIDE DEF w, b
    <3>6. (2 * w + b) \div 2 = w
      BY <3>2
    <3>7. Is(i + 1)
      BY <3>2, <3>3, <3>4, <3>5, <3>6 DEF w
    <3> HIDE DEF Is
    <3> QED BY <3>7
  <2>2. CASE ~ (i + 1 <= n)
    <3>1. i + 1 \in Nat
      OBVIOUS
    <3> HIDE DEF Is
    <3> QED BY <2>2, <3>1
  <2> QED BY <2>1, <2>2
<1>6. n - k \in Nat /\ n - k <= n /\ n - (n - k) = k
  BY <1>1, <1>3
<1> HIDE DEF T
<1>7. n - k \in T
  BY <1>4, <1>5, <1>6, SetInduction
<1> QED BY <1>6, <1>7 DEF T, n

(* Reading a number's bits back: _bits_to_int, then _int_to_bits. *)
LEMMA BitsIntBits ==
  ASSUME NEW bits \in Seq(Bit)
  PROVE  IntToBits(BitsToInt(bits), Len(bits)) = bits
<1> DEFINE n == Len(bits)
<1>1. PICK v : Values(v, bits) /\ BitsToInt(bits) = v[n]
  BY BitsToIntIs
<1>2. n \in Nat /\ \A i \in 1 .. n : bits[i] \in 0 .. 1
  BY LenProperties, ElementOfSeq, BitIs
<1>3. IntToBits(BitsToInt(bits), n) = [i \in 1 .. n |-> (v[n] \div Pow2[n - i]) % 2]
  BY <1>1 DEF IntToBits
<1>4. ASSUME NEW i \in 1 .. n PROVE (v[n] \div Pow2[n - i]) % 2 = bits[i]
  <2>1. i \in 0 .. n /\ i - 1 \in 0 .. n
    <3> HIDE DEF n
    <3> QED BY <1>2
  <2>2. v[n] \div Pow2[n - i] = v[i]
    BY <1>1, <2>1, ValuesAre
  <2>3. v[i] = 2 * v[i - 1] + bits[i] /\ v[i - 1] \in Nat /\ bits[i] \in 0 .. 1
    BY <1>1, <1>2, <2>1 DEF Values
  <2> DEFINE w == v[i - 1]
             b == bits[i]
  <2>4. v[i] = 2 * w + b /\ w \in Nat /\ b \in 0 .. 1
    BY <2>3
  <2> HIDE DEF w, b
  <2>5. (2 * w + b) % 2 = b
    BY <2>4
  <2> QED BY <2>2, <2>4, <2>5 DEF b
<1>5. bits = [i \in 1 .. n |-> bits[i]]
  OBVIOUS
<1> QED BY <1>3, <1>4, <1>5

LEMMA IntToBitsType ==
  ASSUME NEW value \in Nat, NEW width \in Nat
  PROVE  IntToBits(value, width) \in Seq(Bit) /\ Len(IntToBits(value, width)) = width
<1>1. ASSUME NEW i \in 1 .. width PROVE (value \div Pow2[width - i]) % 2 \in Bit
  <2>1. width - i \in Nat
    OBVIOUS
  <2>2. Pow2[width - i] \in Nat \ {0}
    BY <2>1, Pow2Type
  <2> DEFINE q == value \div Pow2[width - i]
  <2>3. q \in Nat
    BY <2>2, QuotientNat
  <2> HIDE DEF q
  <2>4. q % 2 \in Bit
    BY <2>3, Remainder2
  <2> QED BY <2>4 DEF q
<1> DEFINE e(i) == (value \div Pow2[width - i]) % 2
<1>2. IntToBits(value, width) = [i \in 1 .. width |-> e(i)]
  BY DEF IntToBits
<1>3. \A i \in 1 .. width : e(i) \in Bit
  BY <1>1
<1> HIDE DEF e
<1> QED BY <1>2, <1>3

(* _int_to_bits, then _bits_to_int, for a value that fits the field *)
LEMMA IntBitsInt ==
  ASSUME NEW width \in Nat, NEW value \in 0 .. Pow2[width] - 1
  PROVE  BitsToInt(IntToBits(value, width)) = value
<1> DEFINE bits == IntToBits(value, width)
           q(k) == value \div Pow2[width - k]
<1>1. value \in Nat
  BY Pow2Type
<1>2. bits \in Seq(Bit) /\ Len(bits) = width
  BY <1>1, IntToBitsType
<1>3. \A i \in 1 .. width : bits[i] = q(i) % 2
  BY DEF IntToBits
<1> HIDE DEF bits
<1>4. PICK v : Values(v, bits) /\ BitsToInt(bits) = v[width]
  BY <1>2, BitsToIntIs
<1>5. /\ v[0] = 0 /\ \A k \in 1 .. width : v[k] = 2 * v[k - 1] + bits[k]
  BY <1>2, <1>4 DEF Values
<1> DEFINE T == {k \in Nat : k <= width => v[k] = q(k)}
<1>6. 0 \in T
  <2>1. width - 0 = width
    OBVIOUS
  <2>2. value \div Pow2[width] = 0
    BY Pow2Type, TooSmall
  <2> QED BY <1>5, <2>1, <2>2
<1>7. ASSUME NEW k \in Nat, k \in T PROVE k + 1 \in T
  <2>1. CASE k + 1 <= width
    <3> DEFINE a == Pow2[width - (k + 1)]
               w == value \div a
    <3>1. /\ width - (k + 1) \in Nat /\ width - k \in Nat \ {0}
          /\ (width - k) - 1 = width - (k + 1) /\ k + 1 \in 1 .. width /\ (k + 1) - 1 = k
          /\ k <= width
      BY <2>1
    <3>2. a \in Nat \ {0} /\ Pow2[width - k] = 2 * a
      BY <3>1, Pow2Type, Pow2Before
    <3>3. v[k + 1] = 2 * v[k] + (w % 2)
      BY <1>3, <1>5, <3>1
    <3>4. v[k] = value \div (2 * a)
      BY <1>7, <3>1, <3>2
    <3> HIDE DEF a
    <3>5. value \div (2 * a) = w \div 2 /\ w \in Nat
      BY <1>1, <3>2, Halved, QuotientNat
    <3> HIDE DEF w
    <3>6. 2 * (w \div 2) + (w % 2) = w
      BY <3>5
    <3>7. v[k + 1] = w
      BY <3>3, <3>4, <3>5, <3>6
    <3> QED BY <3>7 DEF w, a
  <2>2. CASE ~ (k + 1 <= width)
    BY <2>2
  <2> QED BY <2>1, <2>2
<1> HIDE DEF T
<1>8. width \in T
  BY <1>6, <1>7, SetInduction
<1>9. v[width] = value \div Pow2[0]
  <2>1. width - width = 0 /\ width <= width
    OBVIOUS
  <2> QED BY <1>8, <2>1 DEF T
<1>10. value \div 1 = value
  BY <1>1
<1> QED BY <1>4, <1>9, <1>10, Pow2Is DEF bits

-----------------------------------------------------------------------------
(* Bytes and bits *)

LEMMA Place ==
  ASSUME NEW d \in Nat \ {0}, NEW b \in Nat \ {0}, NEW k \in 1 .. d,
         NEW i, i = (b - 1) * d + k
  PROVE  /\ i \in Nat \ {0}
         /\ (i - 1) \div d = b - 1
         /\ (i - 1) % d = k - 1
<1> DEFINE q == b - 1
           r == k - 1
           x == q * d
<1>1. q \in Int /\ q \in Nat /\ r \in 0 .. d - 1 /\ x \in Nat
  BY ProductNat
<1>2. (q * d + r) \div d = q /\ (q * d + r) % d = r
  <2> HIDE DEF q, r
  <2> QED BY <1>1, DivisionUnique
<1>3. i = x + k /\ x = q * d
  OBVIOUS
<1> HIDE DEF q, x
<1>4. i \in Nat \ {0} /\ i - 1 = x + r
  BY <1>1, <1>3
<1> QED BY <1>2, <1>3, <1>4 DEF q

LEMMA InPlaces ==
  ASSUME NEW d \in Nat \ {0}, NEW n \in Nat, NEW b \in 1 .. n, NEW k \in 1 .. d
  PROVE  (b - 1) * d + k \in 1 .. n * d
<1>1. b - 1 \in Nat /\ b - 1 < n
  OBVIOUS
<1>2. (b - 1) * d + d <= n * d
  BY <1>1, Multiples
<1>3. (b - 1) * d \in Nat /\ n * d \in Nat
  BY <1>1, ProductNat
<1> QED BY <1>2, <1>3

(* Where a place of n groups of d is *)
LEMMA PlaceOf ==
  ASSUME NEW d \in Nat \ {0}, NEW n \in Nat, NEW i \in 1 .. n * d
  PROVE  \E b \in 1 .. n, k \in 1 .. d : i = (b - 1) * d + k
<1>1. n * d \in Nat
  BY ProductNat
<1> DEFINE q == (i - 1) \div d
           r == (i - 1) % d
<1>2. i - 1 \in Nat
  BY <1>1
<1>3. q \in Nat /\ r \in 0 .. d - 1 /\ i - 1 = d * q + r
  BY <1>2, Quotient
<1> HIDE DEF q, r
<1>4. q < n
  <2>1. CASE n < q
    <3>1. n * d + d <= q * d
      BY <1>3, <2>1, Multiples
    <3>2. q * d = d * q
      BY <1>3
    <3> DEFINE x == d * q
               y == n * d
    <3>3. x \in Nat /\ y \in Nat
      BY <1>1, <1>3, ProductNat
    <3>4. y + d <= x /\ i - 1 = x + r /\ i \in 1 .. y
      BY <1>3, <3>1, <3>2
    <3> HIDE DEF x, y
    <3> QED BY <1>3, <3>3, <3>4
  <2>2. CASE n = q
    <3> DEFINE y == n * d
    <3>1. y \in Nat /\ i - 1 = y + r /\ i \in 1 .. y
      BY <1>1, <1>3, <2>2
    <3> HIDE DEF y
    <3> QED BY <1>3, <3>1
  <2> QED BY <1>3, <2>1, <2>2
<1>5. q + 1 \in 1 .. n /\ r + 1 \in 1 .. d
  BY <1>3, <1>4
<1>6. i = ((q + 1) - 1) * d + (r + 1)
  <2> DEFINE x == d * q
  <2>1. x \in Nat /\ i - 1 = x + r /\ q * d = x /\ (q + 1) - 1 = q
    BY <1>3, ProductNat
  <2> HIDE DEF x
  <2>2. i = x + (r + 1)
    BY <1>1, <1>3, <2>1
  <2> QED BY <2>1, <2>2
<1> QED BY <1>5, <1>6

LEMMA BytesToBitsAt ==
  ASSUME NEW data \in Seq(Nat), NEW b \in 1 .. Len(data), NEW k \in 1 .. ByteBits
  PROVE  BytesToBits(data)[(b - 1) * ByteBits + k] = IntToBits(data[b], ByteBits)[k]
<1> DEFINE i == (b - 1) * ByteBits + k
<1>1. Len(data) \in Nat
  BY LenProperties
<1>2. b \in Nat \ {0}
  BY <1>1
<1>3. /\ i \in 1 .. Len(data) * ByteBits
      /\ (i - 1) \div ByteBits = b - 1 /\ (i - 1) % ByteBits = k - 1
  <2>1. i \in 1 .. Len(data) * ByteBits
    BY <1>1, ByteAssumption, InPlaces
  <2>2. i = (b - 1) * ByteBits + k
    OBVIOUS
  <2> HIDE DEF i
  <2>3. (i - 1) \div ByteBits = b - 1 /\ (i - 1) % ByteBits = k - 1
    BY <1>2, <2>2, ByteAssumption, Place
  <2> QED BY <2>1, <2>3
<1> HIDE DEF i
<1>4. BytesToBits(data)[i] = (data[(b - 1) + 1] \div Pow2[ByteBits - 1 - (k - 1)]) % 2
  BY <1>3 DEF BytesToBits
<1>5. (b - 1) + 1 = b /\ ByteBits - 1 - (k - 1) = ByteBits - k
  BY <1>2, ByteAssumption
<1>6. IntToBits(data[b], ByteBits)[k] = (data[b] \div Pow2[ByteBits - k]) % 2
  BY DEF IntToBits
<1> QED BY <1>4, <1>5, <1>6 DEF i

LEMMA BytesToBitsType ==
  ASSUME NEW data \in Seq(Nat)
  PROVE  BytesToBits(data) \in Seq(Bit) /\ Len(BytesToBits(data)) = Len(data) * ByteBits
<1> DEFINE n == Len(data)
           bits == BytesToBits(data)
           e(k) == (data[(k - 1) \div ByteBits + 1] \div Pow2[ByteBits - 1 - ((k - 1) % ByteBits)]) % 2
<1>1. n \in Nat
  BY LenProperties
<1>2. n * ByteBits \in Nat
  BY <1>1, ByteAssumption, ProductNat
<1>3. bits = [k \in 1 .. n * ByteBits |-> e(k)]
  BY DEF BytesToBits
<1> HIDE DEF e, bits
<1>4. ASSUME NEW i \in 1 .. n * ByteBits PROVE bits[i] \in Bit
  <2>1. PICK b \in 1 .. n, k \in 1 .. ByteBits : i = (b - 1) * ByteBits + k
    BY <1>1, ByteAssumption, PlaceOf
  <2>2. bits[i] = IntToBits(data[b], ByteBits)[k]
    BY <2>1, BytesToBitsAt DEF bits
  <2>3. data[b] \in Nat
    BY ElementOfSeq
  <2>4. IntToBits(data[b], ByteBits) \in Seq(Bit) /\ Len(IntToBits(data[b], ByteBits)) = ByteBits
    BY <2>3, ByteAssumption, IntToBitsType
  <2> QED BY <2>2, <2>4, ElementOfSeq
<1>5. \A i \in 1 .. n * ByteBits : e(i) \in Bit
  BY <1>3, <1>4
<1> QED BY <1>2, <1>3, <1>5 DEF bits

LEMMA ByteIs == Byte \subseteq Nat /\ \A b \in Byte : b \in 0 .. Pow2[ByteBits] - 1
<1>1. Pow2[ByteBits] \in Nat
  BY ByteAssumption, Pow2Type
<1> QED BY <1>1 DEF Byte

LEMMA BytesAreNumbers == ASSUME NEW s \in Seq(Byte) PROVE s \in Seq(Nat)
<1>1. \A i \in 1 .. Len(s) : s[i] \in Nat
  BY ByteIs, ElementOfSeq
<1>2. s = [i \in 1 .. Len(s) |-> s[i]] /\ Len(s) \in Nat
  BY LenProperties
<1> QED BY <1>1, <1>2

(* The bits of the b-th byte, filled up with zeros *)
Group(bits, b) ==
    [k \in 1 .. ByteBits |->
        LET at == (b - 1) * ByteBits + k IN IF at <= Len(bits) THEN bits[at] ELSE 0]

LEMMA GroupType ==
  ASSUME NEW bits \in Seq(Bit), NEW b \in Nat \ {0}
  PROVE  Group(bits, b) \in Seq(Bit) /\ Len(Group(bits, b)) = ByteBits
<1> DEFINE at(k) == (b - 1) * ByteBits + k
           e(k) == IF at(k) <= Len(bits) THEN bits[at(k)] ELSE 0
<1>1. ASSUME NEW k \in 1 .. ByteBits PROVE e(k) \in Bit
  <2>1. at(k) \in Nat \ {0}
    BY ByteAssumption, Place
  <2>2. Len(bits) \in Nat
    BY LenProperties
  <2> HIDE DEF at
  <2>3. CASE at(k) <= Len(bits)
    <3>1. at(k) \in 1 .. Len(bits)
      BY <2>1, <2>2, <2>3
    <3> QED BY <2>3, <3>1, ElementOfSeq
  <2>4. CASE ~ (at(k) <= Len(bits))
    BY <2>4 DEF Bit
  <2> QED BY <2>3, <2>4
<1>2. Group(bits, b) = [k \in 1 .. ByteBits |-> e(k)]
  BY DEF Group
<1> HIDE DEF e
<1> QED BY <1>1, <1>2, ByteAssumption

LEMMA BitsToBytesIs ==
  ASSUME NEW bits \in Seq(Bit)
  PROVE  /\ BitsToBytes(bits) = [b \in 1 .. BytesFor(Len(bits)) |-> BitsToInt(Group(bits, b))]
         /\ BitsToBytes(bits) \in Seq(Byte)
         /\ Len(BitsToBytes(bits)) = BytesFor(Len(bits))
         /\ BytesFor(Len(bits)) \in Nat
<1> DEFINE n == BytesFor(Len(bits))
           e(b) == BitsToInt(Group(bits, b))
<1>1. n \in Nat
  BY LenProperties, BytesForNat
<1>2. BitsToBytes(bits) = [b \in 1 .. n |-> e(b)]
  BY DEF BitsToBytes, Group
<1>3. ASSUME NEW b \in 1 .. n PROVE e(b) \in Byte
  <2>1. Group(bits, b) \in Seq(Bit) /\ Len(Group(bits, b)) = ByteBits
    BY <1>1, GroupType
  <2> QED BY <2>1, BitsToIntType DEF Byte
<1>4. BitsToBytes(bits) = [b \in 1 .. n |-> BitsToInt(Group(bits, b))]
  BY <1>2
<1> HIDE DEF e, n
<1> QED BY <1>1, <1>2, <1>3, <1>4 DEF n

LEMMA BytesForEnough ==
  ASSUME NEW n \in Nat
  PROVE  n <= BytesFor(n) * ByteBits /\ BytesFor(n) * ByteBits \in Nat
<1> DEFINE y == (n + ByteBits) - 1
           q == BytesFor(n)
           r == y % ByteBits
           x == q * ByteBits
<1>1. y \in Nat /\ n + ByteBits - 1 = y
  BY ByteAssumption
<1>2. q = y \div ByteBits
  BY <1>1 DEF BytesFor
<1>3. q \in Nat
  BY BytesForNat
<1> HIDE DEF q
<1>4. r \in 0 .. ByteBits - 1 /\ y = ByteBits * q + r
  BY <1>1, <1>2, ByteAssumption, Quotient
<1>5. x \in Nat /\ ByteBits * q = x
  BY <1>3, ByteAssumption, ProductNat
<1>6. y = x + r
  BY <1>4, <1>5
<1> HIDE DEF x, r
<1>7. n <= x
  BY <1>4, <1>5, <1>6, ByteAssumption
<1> QED BY <1>5, <1>7 DEF x, q

LEMMA BytesForWhole ==
  ASSUME NEW n \in Nat
  PROVE  BytesFor(n * ByteBits) = n
<1> DEFINE r == ByteBits - 1
           x == n * ByteBits
<1>1. r \in 0 .. ByteBits - 1 /\ x \in Nat
  BY ByteAssumption, ProductNat
<1>2. (x + r) \div ByteBits = n
  BY <1>1, ByteAssumption, DivisionUnique
<1> HIDE DEF x
<1>3. x + ByteBits - 1 = x + r
  BY <1>1, ByteAssumption
<1> QED BY <1>2, <1>3 DEF BytesFor, x

(* np.packbits undoes np.unpackbits. *)
LEMMA BytesRoundTrip ==
  ASSUME NEW data \in Seq(Byte)
  PROVE  BitsToBytes(BytesToBits(data)) = data
<1> DEFINE bits == BytesToBits(data)
           n == Len(data)
<1>1. data \in Seq(Nat) /\ n \in Nat
  BY BytesAreNumbers, LenProperties
<1>2. bits \in Seq(Bit) /\ Len(bits) = n * ByteBits
  BY <1>1, BytesToBitsType
<1>3. BytesFor(Len(bits)) = n
  BY <1>1, <1>2, BytesForWhole
<1>4. ASSUME NEW b \in 1 .. n PROVE BitsToInt(Group(bits, b)) = data[b]
  <2>1. data[b] \in Byte
    BY ElementOfSeq
  <2>2. data[b] \in 0 .. Pow2[ByteBits] - 1
    BY <2>1, ByteIs
  <2>3. ASSUME NEW k \in 1 .. ByteBits PROVE Group(bits, b)[k] = IntToBits(data[b], ByteBits)[k]
    <3> DEFINE at == (b - 1) * ByteBits + k
    <3>1. at \in 1 .. n * ByteBits
      BY <1>1, ByteAssumption, InPlaces
    <3>2. bits[at] = IntToBits(data[b], ByteBits)[k]
      BY <1>1, BytesToBitsAt
    <3>3. n * ByteBits \in Nat
      BY <1>1, ByteAssumption, ProductNat
    <3>4. Group(bits, b)[k] = IF at <= Len(bits) THEN bits[at] ELSE 0
      BY DEF Group
    <3> HIDE DEF at, bits
    <3> QED BY <1>2, <3>1, <3>2, <3>3, <3>4
  <2>4. Group(bits, b) = IntToBits(data[b], ByteBits)
    BY <2>3 DEF Group, IntToBits
  <2> QED BY <2>2, <2>4, ByteAssumption, IntBitsInt
<1>5. BitsToBytes(bits) = [b \in 1 .. n |-> BitsToInt(Group(bits, b))]
  BY <1>2, <1>3, BitsToBytesIs
<1>6. data = [b \in 1 .. n |-> data[b]]
  OBVIOUS
<1> QED BY <1>4, <1>5, <1>6

(* np.unpackbits gives back what np.packbits was given, and zeros behind. *)
LEMMA BitsFilled ==
  ASSUME NEW bits \in Seq(Bit)
  PROVE  /\ BytesToBits(BitsToBytes(bits)) \in Seq(Bit)
         /\ Len(BytesToBits(BitsToBytes(bits))) = BytesFor(Len(bits)) * ByteBits
         /\ \A i \in 1 .. BytesFor(Len(bits)) * ByteBits :
               BytesToBits(BitsToBytes(bits))[i] = IF i <= Len(bits) THEN bits[i] ELSE 0
<1> DEFINE data == BitsToBytes(bits)
           back == BytesToBits(data)
           n == BytesFor(Len(bits))
           len == Len(bits)
<1>1. data \in Seq(Byte) /\ Len(data) = n /\ n \in Nat /\ data \in Seq(Nat)
      /\ data = [b \in 1 .. n |-> BitsToInt(Group(bits, b))]
  BY BitsToBytesIs, BytesAreNumbers
<1>2. back \in Seq(Bit) /\ Len(back) = n * ByteBits
  BY <1>1, BytesToBitsType
<1>3. ASSUME NEW i \in 1 .. n * ByteBits PROVE back[i] = IF i <= len THEN bits[i] ELSE 0
  <2>1. PICK b \in 1 .. n, k \in 1 .. ByteBits : i = (b - 1) * ByteBits + k
    BY <1>1, ByteAssumption, PlaceOf
  <2>2. back[i] = IntToBits(data[b], ByteBits)[k]
    BY <1>1, <2>1, BytesToBitsAt
  <2>3. Group(bits, b) \in Seq(Bit) /\ Len(Group(bits, b)) = ByteBits
    BY <1>1, GroupType
  <2>4. IntToBits(data[b], ByteBits) = Group(bits, b)
    BY <1>1, <2>3, BitsIntBits
  <2>5. Group(bits, b)[k] = IF i <= len THEN bits[i] ELSE 0
    BY <2>1 DEF Group
  <2> QED BY <2>2, <2>4, <2>5
<1> QED BY <1>2, <1>3

LEMMA BitsRoundTrip ==
  ASSUME NEW bits \in Seq(Bit)
  PROVE  /\ BytesToBits(BitsToBytes(bits)) \in Seq(Bit)
         /\ Len(bits) <= Len(BytesToBits(BitsToBytes(bits)))
         /\ \A i \in 1 .. Len(bits) : BytesToBits(BitsToBytes(bits))[i] = bits[i]
<1> DEFINE len == Len(bits)
           filled == BytesFor(len) * ByteBits
           back == BytesToBits(BitsToBytes(bits))
<1>1. /\ back \in Seq(Bit) /\ Len(back) = filled
      /\ \A i \in 1 .. filled : back[i] = IF i <= len THEN bits[i] ELSE 0
  BY BitsFilled
<1>2. len \in Nat /\ len <= filled /\ filled \in Nat
  BY LenProperties, BytesForEnough
<1> HIDE DEF len, filled, back
<1>3. \A i \in 1 .. len : i \in 1 .. filled
  BY <1>2
<1> QED BY <1>1, <1>2, <1>3 DEF len, back

(* A whole number of bytes *)
LEMMA WholeBytes ==
  ASSUME NEW bits \in Seq(Bit), NEW n \in Nat, Len(bits) = n * ByteBits
  PROVE  BytesToBits(BitsToBytes(bits)) = bits
<1> DEFINE len == n * ByteBits
           back == BytesToBits(BitsToBytes(bits))
<1>1. BytesFor(len) = n /\ len \in Nat
  BY BytesForWhole, ByteAssumption, ProductNat
<1>2. back \in Seq(Bit) /\ Len(back) = len /\ \A i \in 1 .. len : back[i] = IF i <= len THEN bits[i] ELSE 0
  BY <1>1, BitsFilled
<1> HIDE DEF back, len
<1>3. \A i \in 1 .. len : back[i] = bits[i]
  BY <1>1, <1>2
<1> QED BY <1>2, <1>3, SeqEqual DEF back, len

-----------------------------------------------------------------------------
(* Parities, sums of bits, checksums *)

LEMMA ParityIsBit ==
  ASSUME NEW register \in Nat, NEW taps, taps \subseteq Nat, IsFiniteSet(taps)
  PROVE  Parity(register, taps) \in Bit
<1> DEFINE T == {t \in taps : (register \div Pow2[t]) % 2 = 1}
<1>1. IsFiniteSet(T)
  BY FS_Subset
<1> HIDE DEF T
<1>2. Cardinality(T) \in Int
  BY <1>1, FS_CardinalityType
<1> QED BY <1>2, Remainder2 DEF Parity, T

LEMMA BitSum ==
  /\ \A a \in Bit, b \in Nat : (a + b) % 2 \in Bit
  /\ \A a, b \in Bit, s \in Nat : ((a + s) % 2 = (b + s) % 2) => a = b
  /\ \A a \in Bit, s \in Nat : (((a + s) % 2) + s) % 2 = a
<1>1. ASSUME NEW a \in Bit, NEW s \in Nat PROVE (a + s) % 2 \in Bit
  <2>1. a + s \in Int
    BY BitIs
  <2> QED BY <2>1, Remainder2
<1>2. ASSUME NEW a \in Bit, NEW b \in Bit, NEW s \in Nat, (a + s) % 2 = (b + s) % 2
      PROVE  a = b
  BY <1>2, BitIs
<1>3. ASSUME NEW a \in Bit, NEW s \in Nat PROVE (((a + s) % 2) + s) % 2 = a
  BY BitIs
<1> QED BY <1>1, <1>2, <1>3

LEMMA XorType ==
  ASSUME NEW a \in Seq(Bit), NEW b, \A i \in 1 .. Len(a) : b[i] \in Nat
  PROVE  Xor(a, b) \in Seq(Bit) /\ Len(Xor(a, b)) = Len(a)
<1> DEFINE e(i) == (a[i] + b[i]) % 2
<1>1. Len(a) \in Nat
  BY LenProperties
<1>2. \A i \in 1 .. Len(a) : e(i) \in Bit
  BY ElementOfSeq, BitSum
<1>3. Xor(a, b) = [i \in 1 .. Len(a) |-> e(i)]
  BY DEF Xor
<1> HIDE DEF e
<1> QED BY <1>1, <1>2, <1>3

LEMMA CrcStepType ==
  ASSUME NEW crc, CrcOK(crc), NEW register \in Seq(Bit), Len(register) = Len(crc.poly), NEW bit
  PROVE  CrcStep(crc, register, bit) \in Seq(Bit) /\ Len(CrcStep(crc, register, bit)) = Len(crc.poly)
<1> DEFINE w == Len(register)
           e(i) == IF i < w THEN register[i + 1] ELSE 0
           shifted == [i \in 1 .. w |-> e(i)]
<1>1. w \in Nat
  BY LenProperties
<1>2. ASSUME NEW i \in 1 .. w PROVE e(i) \in Bit
  <2>1. CASE i < w
    <3>1. i + 1 \in 1 .. Len(register)
      BY <1>1, <2>1
    <3> QED BY <2>1, <3>1, ElementOfSeq
  <2>2. CASE ~ (i < w)
    BY <2>2 DEF Bit
  <2> QED BY <2>1, <2>2
<1>3. CrcStep(crc, register, bit) = IF register[1] # bit THEN Xor(shifted, crc.poly) ELSE shifted
  BY DEF CrcStep
<1> HIDE DEF e
<1>4. shifted \in Seq(Bit) /\ Len(shifted) = w
  BY <1>1, <1>2
<1> HIDE DEF shifted
<1>5. \A i \in 1 .. Len(shifted) : crc.poly[i] \in Nat
  BY <1>4, ElementOfSeq, BitIs DEF CrcOK
<1>6. Xor(shifted, crc.poly) \in Seq(Bit) /\ Len(Xor(shifted, crc.poly)) = w
  BY <1>4, <1>5, XorType
<1> QED BY <1>3, <1>4, <1>6

(* The registers of a CRC over bits *)
Run(crc, bits, X) ==
    /\ X[0] = crc.init
    /\ \A j \in 0 .. Len(bits) : X[j] \in Seq(Bit) /\ Len(X[j]) = Len(crc.poly)
    /\ \A j \in 1 .. Len(bits) : X[j] = CrcStep(crc, X[j - 1], bits[j])

LEMMA CrcRuns ==
  ASSUME NEW crc, CrcOK(crc), NEW data \in Seq(Nat)
  PROVE  \E X : Run(crc, BytesToBits(data), X) /\ CrcRegister(crc, data) = X[Len(BytesToBits(data))]
<1> DEFINE bits == BytesToBits(data)
           n == Len(bits)
           S == {r \in Seq(Bit) : Len(r) = Len(crc.poly)}
           step == [q \in Nat \X S |-> CrcStep(crc, q[2], bits[q[1]])]
           Rec(g) == g = [k \in 0 .. n |-> IF k = 0 THEN crc.init ELSE CrcStep(crc, g[k - 1], bits[k])]
           g == CHOOSE f : Rec(f)
<1>1. n \in Nat
  BY BytesToBitsType, LenProperties
<1>2. crc.init \in S
  BY DEF CrcOK
<1>3. \A r \in S : \A bit : CrcStep(crc, r, bit) \in S
  BY CrcStepType
<1> HIDE DEF S, n
<1>4. StepOn(step, S)
  BY <1>3 DEF StepOn
<1>5. \A k \in Nat, r \in S : step[<<k, r>>] = CrcStep(crc, r, bits[k])
  OBVIOUS
<1> HIDE DEF step
<1>6. PICK h : Iterated(h, n, S, crc.init, step)
  BY <1>1, <1>2, <1>4, BoundedIteration
<1>7. Rec(h)
  <2>1. ASSUME NEW k \in 0 .. n
        PROVE  h[k] = IF k = 0 THEN crc.init ELSE CrcStep(crc, h[k - 1], bits[k])
    <3>1. CASE k = 0
      BY <1>6, <3>1 DEF Iterated
    <3>2. CASE k # 0
      <4>1. k \in 1 .. n /\ k \in Nat /\ k - 1 \in 0 .. n
        BY <1>1, <3>2
      <4> QED BY <1>5, <1>6, <3>2, <4>1 DEF Iterated
    <3> QED BY <3>1, <3>2
  <2>2. h = [k \in 0 .. n |-> h[k]]
    BY <1>6 DEF Iterated
  <2> QED BY <2>1, <2>2
<1>8. CrcRegister(crc, data) = g[n]
  BY DEF CrcRegister, n
<1>9. Rec(g)
  <2> HIDE DEF Rec
  <2> QED BY <1>7
<1> HIDE DEF g
<1>10. g[0] = crc.init
  BY <1>1, <1>9
<1>11. ASSUME NEW k \in 1 .. n PROVE g[k] = CrcStep(crc, g[k - 1], bits[k])
  <2>1. k \in 0 .. n /\ k # 0
    BY <1>1
  <2> QED BY <1>9, <2>1
<1>12. \A k \in 0 .. n : g[k] \in S
  <2>1. ASSUME NEW k \in 1 .. n, g[k - 1] \in S PROVE g[k] \in S
    BY <1>3, <1>11, <2>1
  <2> QED BY <1>1, <1>2, <1>10, <2>1, StaysIn
<1>13. Run(crc, bits, g)
  BY <1>10, <1>11, <1>12 DEF Run, S, n
<1> QED BY <1>8, <1>13 DEF n

LEMMA CrcRegisterType ==
  ASSUME NEW crc, CrcOK(crc), NEW data \in Seq(Nat)
  PROVE  CrcRegister(crc, data) \in Seq(Bit)
<1> DEFINE n == Len(BytesToBits(data))
<1>1. PICK X : Run(crc, BytesToBits(data), X) /\ CrcRegister(crc, data) = X[n]
  BY CrcRuns
<1>2. n \in 0 .. n
  <2>1. n \in Nat
    BY BytesToBitsType, LenProperties
  <2> HIDE DEF n
  <2> QED BY <2>1
<1> QED BY <1>1, <1>2 DEF Run

LEMMA IntToBytesType ==
  ASSUME NEW value \in Nat, NEW n \in Nat
  PROVE  IntToBytes(value, n) \in Seq(Byte) /\ Len(IntToBytes(value, n)) = n
<1> DEFINE e(b) == (value \div Pow2[ByteBits * (n - b)]) % Pow2[ByteBits]
<1>1. ASSUME NEW b \in 1 .. n PROVE e(b) \in Byte
  <2>1. n - b \in Nat
    OBVIOUS
  <2>2. ByteBits * (n - b) \in Nat
    BY <2>1, ByteAssumption, ProductNat
  <2>3. Pow2[ByteBits * (n - b)] \in Nat \ {0} /\ Pow2[ByteBits] \in Nat \ {0}
    BY <2>2, ByteAssumption, Pow2Type
  <2> DEFINE q == value \div Pow2[ByteBits * (n - b)]
  <2>4. q \in Int
    BY <2>3, QuotientNat
  <2> HIDE DEF q
  <2>5. q % Pow2[ByteBits] \in 0 .. Pow2[ByteBits] - 1
    BY <2>3, <2>4, RemainderNat
  <2> QED BY <2>5 DEF Byte, q
<1>2. IntToBytes(value, n) = [b \in 1 .. n |-> e(b)]
  BY DEF IntToBytes
<1> HIDE DEF e
<1> QED BY <1>1, <1>2

LEMMA CrcType ==
  ASSUME NEW crc, CrcOK(crc), NEW data \in Seq(Nat)
  PROVE  Crc(crc, data) \in Seq(Byte) /\ Len(Crc(crc, data)) = crc.bytes
<1>1. BitsToInt(CrcRegister(crc, data)) \in Nat
  BY CrcRegisterType, BitsToIntType
<1>2. crc.bytes \in Nat
  BY DEF CrcOK
<1> QED BY <1>1, <1>2, IntToBytesType DEF Crc

(* The lower places of a number do not see what is above them. *)
LEMMA PlaceOfRemainder ==
  ASSUME NEW x \in Nat, NEW w \in Nat, NEW k \in 1 .. w
  PROVE  ((x % Pow2[w]) \div Pow2[w - k]) % 2 = (x \div Pow2[w - k]) % 2
<1> DEFINE B == Pow2[w]
           C == Pow2[w - k]
           D == Pow2[k - 1]
           q == x \div B
           r == x % B
           e == r \div C
           s == r % C
           m == D * q
<1>1. w - k \in Nat /\ k \in Nat /\ k - 1 \in Nat /\ w = (w - k) + k
  OBVIOUS
<1>2. B \in Nat \ {0} /\ C \in Nat \ {0} /\ D \in Nat \ {0}
  BY <1>1, Pow2Type
<1>3. B = C * (2 * D)
  <2>1. Pow2[k] = 2 * D
    BY Pow2Before
  <2>2. Pow2[w] = Pow2[w - k] * Pow2[k]
    BY <1>1, Pow2Sum
  <2> QED BY <2>1, <2>2
<1> HIDE DEF B, C, D
<1>4. q \in Nat /\ r \in 0 .. B - 1 /\ x = B * q + r
  BY <1>2, Quotient
<1> HIDE DEF q, r
<1>5. e \in Nat /\ s \in 0 .. C - 1 /\ r = C * e + s
  <2>1. r \in Nat
    BY <1>2, <1>4
  <2> QED BY <1>2, <2>1, Quotient
<1> HIDE DEF e, s
<1>6. m \in Nat
  BY <1>2, <1>4, ProductNat
<1>7. x = (2 * m + e) * C + s
  <2>1. B * q = C * (2 * m)
    BY <1>2, <1>3, <1>4
  <2> HIDE DEF m
  <2>2. C * (2 * m) + C * e = (2 * m + e) * C
    BY <1>2, <1>5, <1>6
  <2>3. C * (2 * m) \in Nat /\ C * e \in Nat
    BY <1>2, <1>5, <1>6, ProductNat
  <2> QED BY <1>2, <1>4, <1>5, <2>1, <2>2, <2>3
<1> HIDE DEF m
<1>8. x \div C = 2 * m + e
  <2>1. 2 * m + e \in Int
    BY <1>5, <1>6
  <2> QED BY <1>2, <1>5, <1>7, <2>1, DivisionUnique
<1>9. (2 * m + e) % 2 = e % 2
  BY <1>5, <1>6
<1> QED BY <1>8, <1>9 DEF e, r, B, C

(* to_bytes, then np.unpackbits: the bits the number was made of *)
LEMMA BitsOfNumber ==
  ASSUME NEW bits \in Seq(Bit), NEW n \in Nat, Len(bits) = n * ByteBits
  PROVE  BytesToBits(IntToBytes(BitsToInt(bits), n)) = bits
<1> DEFINE V == BitsToInt(bits)
           data == IntToBytes(V, n)
           back == BytesToBits(data)
           len == n * ByteBits
<1>1. V \in Nat
  BY BitsToIntType
<1>2. data \in Seq(Byte) /\ data \in Seq(Nat) /\ Len(data) = n
  BY <1>1, IntToBytesType, BytesAreNumbers
<1>3. back \in Seq(Bit) /\ Len(back) = len
  BY <1>2, BytesToBitsType
<1>4. len \in Nat
  BY ByteAssumption, ProductNat
<1>5. ASSUME NEW i \in 1 .. len PROVE back[i] = bits[i]
  <2>1. PICK b \in 1 .. n, k \in 1 .. ByteBits : i = (b - 1) * ByteBits + k
    BY ByteAssumption, PlaceOf
  <2> DEFINE low == ByteBits * (n - b)
             c == ByteBits - k
             q == V \div Pow2[low]
  <2>2. back[i] = IntToBits(data[b], ByteBits)[k]
    BY <1>2, <2>1, BytesToBitsAt
  <2>3. IntToBits(data[b], ByteBits)[k] = (data[b] \div Pow2[c]) % 2
    BY DEF IntToBits
  <2>4. data[b] = q % Pow2[ByteBits]
    BY DEF IntToBytes
  <2>5. n - b \in Nat /\ c \in Nat /\ low \in Nat
    BY ByteAssumption, ProductNat
  <2>6. Pow2[low] \in Nat \ {0} /\ Pow2[c] \in Nat \ {0}
    BY <2>5, Pow2Type
  <2> HIDE DEF low
  <2>7. q \in Nat
    BY <1>1, <2>6, QuotientNat
  <2> HIDE DEF q, V
  <2>8. ((q % Pow2[ByteBits]) \div Pow2[c]) % 2 = (q \div Pow2[c]) % 2
    BY <2>7, ByteAssumption, PlaceOfRemainder
  <2>9. q \div Pow2[c] = V \div (Pow2[low] * Pow2[c])
    BY <1>1, <2>6, QuotientOfQuotient DEF q
  <2>10. Pow2[low] * Pow2[c] = Pow2[low + c]
    BY <2>5, Pow2Sum
  <2>11. low + c = len - i
    <3> DEFINE x == (b - 1) * ByteBits
               y == n * ByteBits
    <3>1. low = y - x - ByteBits
      BY ByteAssumption DEF low
    <3>2. x \in Int /\ y \in Int
      <4>1. b - 1 \in Int /\ n \in Int /\ ByteBits \in Int
        BY ByteAssumption
      <4> QED BY <4>1, ProductInt
    <3>3. i = x + k /\ len = y
      BY <2>1
    <3> HIDE DEF x, y, len
    <3> QED BY <3>1, <3>2, <3>3, ByteAssumption
  <2>12. back[i] = (V \div Pow2[len - i]) % 2
    BY <2>2, <2>3, <2>4, <2>8, <2>9, <2>10, <2>11
  <2>13. IntToBits(V, len)[i] = (V \div Pow2[len - i]) % 2
    BY DEF IntToBits
  <2>14. IntToBits(V, len) = bits
    BY BitsIntBits DEF V
  <2> QED BY <2>12, <2>13, <2>14
<1> HIDE DEF back, len
<1> QED BY <1>3, <1>5, SeqEqual DEF back, len

-----------------------------------------------------------------------------
(* Whitening *)

LEMMA LfsrType ==
  ASSUME NEW length \in Nat \ {0}, NEW seed \in Nat,
         NEW mask, mask \subseteq Nat, IsFiniteSet(mask)
  PROVE  Lfsr(length, seed, mask) \in Seq(Nat) /\ Len(Lfsr(length, seed, mask)) = length
<1> DEFINE S == {s \in Seq(Nat) : s # <<>>}
           next(s) == Append(s, LfsrNext(Last(s), mask))
           base == <<seed % 256>>
           step == [q \in Nat \X S |-> next(q[2])]
           Rec(g) == g = [k \in 1 .. length |->
                            IF k = 1 THEN base
                            ELSE LET before == g[k - 1] IN Append(before, LfsrNext(Last(before), mask))]
           g == CHOOSE f : Rec(f)
<1>1. base \in S /\ Len(base) = 1
  OBVIOUS
<1>2. ASSUME NEW s \in S PROVE next(s) \in S /\ Len(next(s)) = Len(s) + 1
  <2>1. Len(s) \in Nat \ {0}
    BY EmptySeq
  <2>2. Last(s) \in Nat
    BY <2>1, ElementOfSeq DEF Last
  <2>3. Parity(Last(s), mask) \in Nat
    BY <2>2, ParityIsBit, BitIs
  <2>4. LfsrNext(Last(s), mask) \in Nat
    BY <2>2, <2>3 DEF LfsrNext
  <2> QED BY <2>4, AppendProperties
<1> HIDE DEF S, base
<1>3. StepOn(step, S)
  BY <1>2 DEF StepOn
<1>4. \A k \in Nat, s \in S : step[<<k, s>>] = next(s)
  OBVIOUS
<1> HIDE DEF step
<1> DEFINE n == length - 1
<1>5. n \in Nat
  OBVIOUS
<1>6. PICK h : Iterated(h, n, S, base, step)
  <2> HIDE DEF n
  <2> QED BY <1>1, <1>3, <1>5, BoundedIteration
<1> DEFINE c == [k \in 1 .. length |-> h[k - 1]]
<1>7. Rec(c)
  <2>1. ASSUME NEW k \in 1 .. length
        PROVE  c[k] = IF k = 1 THEN base ELSE next(c[k - 1])
    <3>1. CASE k = 1
      BY <1>6, <3>1 DEF Iterated
    <3>2. CASE k # 1
      <4>1. k - 1 \in 1 .. n /\ k - 1 \in Nat /\ (k - 1) - 1 \in 0 .. n /\ k - 1 \in 1 .. length
        BY <3>2
      <4>2. h[k - 1] = next(h[(k - 1) - 1])
        BY <1>4, <1>6, <4>1 DEF Iterated
      <4> QED BY <3>2, <4>1, <4>2
    <3> QED BY <3>1, <3>2
  <2>2. c = [k \in 1 .. length |-> c[k]]
    OBVIOUS
  <2> HIDE DEF c
  <2> QED BY <2>1, <2>2
<1>8. Lfsr(length, seed, mask) = g[length]
  BY DEF Lfsr, base
<1>9. Rec(g)
  <2> HIDE DEF Rec, c
  <2> QED BY <1>7
<1> HIDE DEF g
<1>10. g[1] = base /\ \A k \in 2 .. length : g[k] = next(g[k - 1])
  <2>1. ASSUME NEW k \in 1 .. length PROVE g[k] = IF k = 1 THEN base ELSE next(g[k - 1])
    BY <1>9
  <2>2. 1 \in 1 .. length /\ \A k \in 2 .. length : k \in 1 .. length /\ k # 1
    OBVIOUS
  <2> HIDE DEF next
  <2> QED BY <2>1, <2>2
<1> DEFINE T == {k \in 0 .. n : g[k + 1] \in S /\ Len(g[k + 1]) = k + 1}
<1>11. 0 \in T
  BY <1>1, <1>10
<1>12. ASSUME NEW k \in 0 .. n - 1, k \in T PROVE k + 1 \in T
  <2>1. (k + 1) + 1 \in 2 .. length /\ ((k + 1) + 1) - 1 = k + 1 /\ k + 1 \in 0 .. n
    OBVIOUS
  <2>2. g[(k + 1) + 1] = next(g[k + 1])
    BY <1>10, <2>1
  <2> HIDE DEF next
  <2> QED BY <1>2, <1>12, <2>1, <2>2
<1> HIDE DEF T
<1>13. 0 .. n \subseteq T
  <2> HIDE DEF n
  <2> QED BY <1>5, <1>11, <1>12, BoundedInduction
<1>14. n \in T /\ n + 1 = length
  BY <1>13
<1> QED BY <1>8, <1>14 DEF T, S

(* The states of the register whiten the bits; whitening again undoes it. *)
LEMMA WhitenIs ==
  ASSUME NEW p, ProfileOK(p), NEW bits \in Seq(Bit), Len(bits) # 0, p.whitening.enabled
  PROVE  \E states \in Seq(Nat) :
            /\ Len(states) = Len(bits)
            /\ \A b \in Seq(Bit) : Len(b) = Len(bits) => Whiten(p, b) = Xor(b, states)
<1> DEFINE states == Lfsr(Len(bits), p.whitening.seed, p.whitening.mask)
<1>1. Len(bits) \in Nat \ {0}
  BY LenProperties
<1>2. states \in Seq(Nat) /\ Len(states) = Len(bits)
  BY <1>1, LfsrType DEF ProfileOK
<1>3. ASSUME NEW b \in Seq(Bit), Len(b) = Len(bits) PROVE Whiten(p, b) = Xor(b, states)
  <2>1. b # <<>>
    BY <1>1, <1>3
  <2> QED BY <1>3, <2>1 DEF Whiten
<1> QED BY <1>2, <1>3

LEMMA WhitenOff ==
  ASSUME NEW p, NEW bits \in Seq(Bit), ~ p.whitening.enabled \/ Len(bits) = 0
  PROVE  Whiten(p, bits) = bits
<1>1. Len(bits) = 0 => bits = <<>>
  BY EmptySeq
<1> QED BY <1>1 DEF Whiten

LEMMA WhitenType ==
  ASSUME NEW p, ProfileOK(p), NEW bits \in Seq(Bit)
  PROVE  Whiten(p, bits) \in Seq(Bit) /\ Len(Whiten(p, bits)) = Len(bits)
<1>1. CASE ~ p.whitening.enabled \/ Len(bits) = 0
  BY <1>1, WhitenOff
<1>2. CASE p.whitening.enabled /\ Len(bits) # 0
  <2>1. PICK states \in Seq(Nat) : Len(states) = Len(bits) /\ Whiten(p, bits) = Xor(bits, states)
    BY <1>2, WhitenIs
  <2>2. \A i \in 1 .. Len(bits) : states[i] \in Nat
    BY <2>1, ElementOfSeq
  <2> QED BY <2>1, <2>2, XorType
<1> QED BY <1>1, <1>2

(* _apply_whitening undoes itself. *)
LEMMA WhitenTwice ==
  ASSUME NEW p, ProfileOK(p), NEW bits \in Seq(Bit)
  PROVE  Whiten(p, Whiten(p, bits)) = bits
<1>1. CASE ~ p.whitening.enabled \/ Len(bits) = 0
  BY <1>1, WhitenOff
<1>2. CASE p.whitening.enabled /\ Len(bits) # 0
  <2> DEFINE w == Whiten(p, bits)
  <2>1. w \in Seq(Bit) /\ Len(w) = Len(bits)
    BY WhitenType
  <2> HIDE DEF w
  <2>2. PICK states \in Seq(Nat) :
            /\ Len(states) = Len(bits)
            /\ \A b \in Seq(Bit) : Len(b) = Len(bits) => Whiten(p, b) = Xor(b, states)
    BY <1>2, WhitenIs
  <2>3. w = Xor(bits, states) /\ Whiten(p, w) = Xor(w, states)
    BY <2>1, <2>2 DEF w
  <2>4. ASSUME NEW i \in 1 .. Len(bits) PROVE (w[i] + states[i]) % 2 = bits[i]
    <3>1. bits[i] \in Bit /\ states[i] \in Nat
      BY <2>2, ElementOfSeq
    <3>2. w[i] = (bits[i] + states[i]) % 2
      BY <2>3 DEF Xor
    <3> QED BY <3>1, <3>2, BitSum
  <2>5. Whiten(p, w) = [i \in 1 .. Len(bits) |-> (w[i] + states[i]) % 2]
    BY <2>1, <2>3 DEF Xor
  <2>6. bits = [i \in 1 .. Len(bits) |-> bits[i]]
    OBVIOUS
  <2> QED BY <2>4, <2>5, <2>6 DEF w
<1> QED BY <1>1, <1>2

-----------------------------------------------------------------------------
(* One error: two sequences of bits that differ in no place but one. *)

NearAt(a, b, e) ==
    /\ a \in Seq(Bit) /\ b \in Seq(Bit) /\ Len(a) = Len(b)
    /\ \A i \in 1 .. Len(b) : i # e => a[i] = b[i]

LEMMA WhitenNear ==
  ASSUME NEW p, ProfileOK(p), NEW a, NEW b, NEW e, NearAt(a, b, e)
  PROVE  NearAt(Whiten(p, a), Whiten(p, b), e)
<1>1. a \in Seq(Bit) /\ b \in Seq(Bit) /\ Len(a) = Len(b)
  BY DEF NearAt
<1>2. CASE ~ p.whitening.enabled \/ Len(b) = 0
  BY <1>1, <1>2, WhitenOff
<1>3. CASE p.whitening.enabled /\ Len(b) # 0
  <2>1. PICK states \in Seq(Nat) :
            /\ Len(states) = Len(b)
            /\ \A c \in Seq(Bit) : Len(c) = Len(b) => Whiten(p, c) = Xor(c, states)
    BY <1>1, <1>3, WhitenIs
  <2>2. Whiten(p, a) = Xor(a, states) /\ Whiten(p, b) = Xor(b, states)
    BY <1>1, <2>1
  <2>3. ASSUME NEW i \in 1 .. Len(b), i # e PROVE Xor(a, states)[i] = Xor(b, states)[i]
    BY <1>1, <2>3 DEF NearAt, Xor
  <2>4. /\ Xor(a, states) \in Seq(Bit) /\ Len(Xor(a, states)) = Len(b)
        /\ Xor(b, states) \in Seq(Bit) /\ Len(Xor(b, states)) = Len(b)
    BY <1>1, <2>2, WhitenType
  <2> QED BY <2>2, <2>3, <2>4 DEF NearAt
<1> QED BY <1>2, <1>3

-----------------------------------------------------------------------------
(* The permutations of the interleaver *)

Transposed(k, a, b) == ((k - 1) % b) * a + (k - 1) \div b + 1

LEMMA TransposedIs ==
  ASSUME NEW a \in Nat \ {0}, NEW b \in Nat \ {0}, NEW k \in 1 .. a * b
  PROVE  /\ Transposed(k, a, b) \in 1 .. a * b
         /\ Transposed(Transposed(k, a, b), b, a) = k
<1> DEFINE i   == k - 1
           row == i \div b
           col == i % b
           j   == col * a + row
<1>1. a * b \in Nat /\ a * b = b * a
  BY ProductNat
<1>2. i \in 0 .. a * b - 1 /\ i + 1 = k
  BY <1>1
<1>3. row \in 0 .. a - 1 /\ col \in 0 .. b - 1 /\ row * b + col = i
  BY <1>2, Cell
<1>4. Transposed(k, a, b) = j + 1
  BY DEF Transposed
<1> HIDE DEF i, row, col
<1>5. j \div a = col /\ j % a = row
  BY <1>3, DivisionUnique
<1>6. col + 1 \in 1 .. b /\ row + 1 \in 1 .. a /\ (col + 1) - 1 = col
  BY <1>3
<1>7. (col + 1 - 1) * a + (row + 1) \in 1 .. b * a
  BY <1>6, InPlaces
<1>8. col * a \in Nat
  BY <1>3, ProductNat
<1>9. col * a + (row + 1) = j + 1 /\ (j + 1) - 1 = j
  BY <1>3, <1>8
<1>10. j + 1 \in 1 .. a * b
  BY <1>1, <1>6, <1>7, <1>9
<1> HIDE DEF j
<1>11. Transposed(j + 1, b, a) = row * b + col + 1
  BY <1>5, <1>9 DEF Transposed
<1>12. Transposed(j + 1, b, a) = k
  <2> DEFINE x == row * b
  <2>1. x \in Nat
    BY <1>3, ProductNat
  <2>2. x + col = i /\ Transposed(j + 1, b, a) = x + col + 1
    BY <1>3, <1>11
  <2> HIDE DEF x
  <2> QED BY <1>2, <1>3, <2>1, <2>2
<1> QED BY <1>4, <1>10, <1>12

LEMMA Rows ==
  ASSUME NEW n \in Nat \ {0}, NEW rows \in Nat \ {0}, ~ (rows <= 1), Divides(rows, n)
  PROVE  n \div rows \in Nat \ {0} /\ n = rows * (n \div rows)
<1>1. n % rows = 0
  BY DEF Divides
<1>2. n \div rows \in Nat /\ n = rows * (n \div rows) + (n % rows)
  BY Quotient
<1> DEFINE c == n \div rows
<1>3. c \in Nat /\ n = rows * c + 0
  BY <1>1, <1>2
<1> HIDE DEF c
<1>4. rows * c \in Nat
  BY <1>3, ProductNat
<1>5. n = rows * c
  BY <1>3, <1>4
<1>6. c # 0
  BY <1>5
<1> QED BY <1>3, <1>5, <1>6 DEF c

LEMMA InterleaveType ==
  ASSUME NEW bits \in Seq(Bit), NEW rows \in Nat \ {0}, Divides(rows, Len(bits))
  PROVE  /\ MatrixInterleave(bits, rows) \in Seq(Bit)
         /\ Len(MatrixInterleave(bits, rows)) = Len(bits)
<1> DEFINE n == Len(bits)
           cols == n \div rows
           e(k) == bits[Transposed(k, cols, rows)]
<1>1. n \in Nat
  BY LenProperties
<1>2. CASE rows <= 1
  BY <1>2 DEF MatrixInterleave
<1>3. CASE ~ (rows <= 1)
  <2>1. ASSUME NEW k \in 1 .. n PROVE e(k) \in Bit
    <3>1. cols \in Nat \ {0} /\ n = rows * cols
      BY <1>1, <1>3, Rows
    <3> HIDE DEF cols
    <3>2. n = cols * rows
      BY <3>1
    <3>3. Transposed(k, cols, rows) \in 1 .. n
      BY <3>1, <3>2, TransposedIs
    <3> QED BY <3>3, ElementOfSeq
  <2>2. MatrixInterleave(bits, rows) = [k \in 1 .. n |-> e(k)]
    BY <1>3 DEF MatrixInterleave, Transposed
  <2> HIDE DEF e
  <2> QED BY <1>1, <2>1, <2>2
<1> QED BY <1>2, <1>3

(* A single error stays one when the bits are put in order again. *)
LEMMA DeinterleaveNear ==
  ASSUME NEW a, NEW b, NEW e, NearAt(a, b, e), NEW rows \in Nat \ {0}, Divides(rows, Len(b))
  PROVE  \E f : NearAt(MatrixDeinterleave(a, rows), MatrixDeinterleave(b, rows), f)
<1> DEFINE n == Len(b)
           cols == n \div rows
           at(k) == Transposed(k, rows, cols)
<1>1. n \in Nat /\ a \in Seq(Bit) /\ b \in Seq(Bit) /\ Len(a) = n
      /\ \A i \in 1 .. n : i # e => a[i] = b[i]
  BY LenProperties DEF NearAt
<1>2. CASE rows <= 1
  BY <1>2 DEF MatrixDeinterleave
<1>3. CASE ~ (rows <= 1)
  <2>1. ASSUME NEW k \in 1 .. n
        PROVE  at(k) \in 1 .. n /\ Transposed(at(k), cols, rows) = k
    <3>1. cols \in Nat \ {0} /\ n = rows * cols
      BY <1>1, <1>3, Rows
    <3> HIDE DEF cols
    <3> QED BY <3>1, TransposedIs
  <2>2. /\ MatrixDeinterleave(a, rows) = [k \in 1 .. n |-> a[at(k)]]
        /\ MatrixDeinterleave(b, rows) = [k \in 1 .. n |-> b[at(k)]]
    BY <1>1, <1>3 DEF MatrixDeinterleave, Transposed
  <2> DEFINE f == Transposed(e, cols, rows)
             x == [k \in 1 .. n |-> a[at(k)]]
             y == [k \in 1 .. n |-> b[at(k)]]
  <2> HIDE DEF n, at
  <2>3. ASSUME NEW k \in 1 .. n, k # f PROVE a[at(k)] = b[at(k)]
    <3>1. at(k) # e
      BY <2>1, <2>3
    <3> QED BY <1>1, <2>1, <3>1
  <2>4. x \in Seq(Bit) /\ y \in Seq(Bit) /\ Len(x) = n /\ Len(y) = n
    <3> DEFINE u(k) == a[at(k)]
               v(k) == b[at(k)]
    <3>1. \A k \in 1 .. n : u(k) \in Bit /\ v(k) \in Bit
      BY <1>1, <2>1, ElementOfSeq DEF n
    <3>2. x = [k \in 1 .. n |-> u(k)] /\ y = [k \in 1 .. n |-> v(k)]
      OBVIOUS
    <3> HIDE DEF u, v, x, y
    <3> QED BY <1>1, <3>1, <3>2
  <2>5. \A k \in 1 .. n : k # f => x[k] = y[k]
    BY <2>3
  <2>6. NearAt(x, y, f)
    <3> HIDE DEF x, y, f
    <3> QED BY <2>4, <2>5 DEF NearAt
  <2> QED BY <2>2, <2>6
<1> QED BY <1>2, <1>3

-----------------------------------------------------------------------------
(* The encoder *)

LEMMA PaddedType ==
  ASSUME NEW code, CodeOK(code), NEW bits \in Seq(Bit)
  PROVE  /\ Padded(code, bits) \in Seq(Bit)
         /\ Len(Padded(code, bits)) = Len(bits) + (code.K - 1)
         /\ Len(bits) + (code.K - 1) \in Nat
<1> DEFINE n == Len(bits) + (code.K - 1)
           e(i) == IF i <= Len(bits) THEN bits[i] ELSE 0
<1>1. Len(bits) \in Nat /\ n \in Nat
  BY LenProperties DEF CodeOK
<1>2. ASSUME NEW i \in 1 .. n PROVE e(i) \in Bit
  <2>1. CASE i <= Len(bits)
    <3>1. i \in 1 .. Len(bits)
      BY <1>1, <2>1
    <3> QED BY <2>1, <3>1, ElementOfSeq
  <2>2. CASE ~ (i <= Len(bits))
    BY <2>2 DEF Bit
  <2> QED BY <2>1, <2>2
<1>3. Padded(code, bits) = [i \in 1 .. n |-> e(i)]
  BY DEF Padded
<1> HIDE DEF e
<1> QED BY <1>1, <1>2, <1>3

(* The register's bits, the highest place first *)
Window(code, padded, i) == [p \in 1 .. code.K |-> IF p <= i THEN padded[i - p + 1] ELSE 0]

LEMMA WindowType ==
  ASSUME NEW code, CodeOK(code), NEW padded \in Seq(Bit), NEW i \in 0 .. Len(padded)
  PROVE  Window(code, padded, i) \in Seq(Bit) /\ Len(Window(code, padded, i)) = code.K
<1> DEFINE e(p) == IF p <= i THEN padded[i - p + 1] ELSE 0
<1>1. Len(padded) \in Nat /\ code.K \in Nat
  BY LenProperties DEF CodeOK
<1>2. ASSUME NEW p \in 1 .. code.K PROVE e(p) \in Bit
  <2>1. CASE p <= i
    <3>1. i - p + 1 \in 1 .. Len(padded)
      BY <1>1, <2>1
    <3> QED BY <2>1, <3>1, ElementOfSeq
  <2>2. CASE ~ (p <= i)
    BY <2>2 DEF Bit
  <2> QED BY <2>1, <2>2
<1>3. Window(code, padded, i) = [p \in 1 .. code.K |-> e(p)]
  BY DEF Window
<1> HIDE DEF e
<1> QED BY <1>1, <1>2, <1>3

LEMMA RegisterType ==
  ASSUME NEW code, CodeOK(code), NEW padded \in Seq(Bit), NEW i \in 0 .. Len(padded)
  PROVE  Register(code, padded, i) \in 0 .. Pow2[code.K] - 1 /\ Register(code, padded, i) \in Nat
<1>1. Register(code, padded, i) = BitsToInt(Window(code, padded, i))
  BY DEF Register, Window
<1> QED BY <1>1, WindowType, BitsToIntType

LEMMA ConvEncodeAt ==
  ASSUME NEW code, CodeOK(code), NEW bits \in Seq(Bit),
         NEW i \in 1 .. Len(bits) + (code.K - 1), NEW j \in 1 .. code.rate
  PROVE  ConvEncode(code, bits)[(i - 1) * code.rate + j]
            = Parity(Register(code, Padded(code, bits), i), code.taps[j])
<1> DEFINE n == Len(bits) + (code.K - 1)
           k == (i - 1) * code.rate + j
           rate == code.rate
<1>1. n \in Nat /\ rate \in Nat \ {0} /\ Len(Padded(code, bits)) = n
  BY PaddedType DEF CodeOK
<1> HIDE DEF n
<1>2. k \in 1 .. n * rate
  BY <1>1, InPlaces DEF n
<1>3. k = (i - 1) * rate + j /\ i \in Nat \ {0}
  BY <1>1 DEF n
<1> HIDE DEF k
<1>4. (k - 1) \div rate = i - 1 /\ (k - 1) % rate = j - 1
  BY <1>1, <1>3, Place
<1>5. (i - 1) + 1 = i /\ (j - 1) + 1 = j
  BY <1>1, <1>3
<1>6. ConvEncode(code, bits)[k]
        = Parity(Register(code, Padded(code, bits), (k - 1) \div rate + 1),
                 code.taps[((k - 1) % rate) + 1])
  BY <1>1, <1>2 DEF ConvEncode
<1> QED BY <1>4, <1>5, <1>6 DEF k

LEMMA ConvEncodeType ==
  ASSUME NEW code, CodeOK(code), NEW bits \in Seq(Bit)
  PROVE  /\ ConvEncode(code, bits) \in Seq(Bit)
         /\ Len(ConvEncode(code, bits)) = (Len(bits) + (code.K - 1)) * code.rate
<1> DEFINE n == Len(bits) + (code.K - 1)
           rate == code.rate
           padded == Padded(code, bits)
           coded == ConvEncode(code, bits)
           e(k) == Parity(Register(code, padded, (k - 1) \div rate + 1),
                          code.taps[((k - 1) % rate) + 1])
<1>1. n \in Nat /\ rate \in Nat \ {0} /\ padded \in Seq(Bit) /\ Len(padded) = n
  BY PaddedType DEF CodeOK
<1>2. n * rate \in Nat
  BY <1>1, ProductNat
<1>3. coded = [k \in 1 .. n * rate |-> e(k)]
  BY <1>1 DEF ConvEncode
<1>4. ASSUME NEW k \in 1 .. n * rate PROVE coded[k] \in Bit
  <2>1. PICK i \in 1 .. n, j \in 1 .. rate : k = (i - 1) * rate + j
    BY <1>1, PlaceOf
  <2>2. coded[k] = Parity(Register(code, padded, i), code.taps[j])
    BY <2>1, ConvEncodeAt
  <2>3. Register(code, padded, i) \in Nat
    BY <1>1, RegisterType
  <2> QED BY <2>2, <2>3, ParityIsBit DEF CodeOK
<1> HIDE DEF e, coded
<1>5. \A k \in 1 .. n * rate : e(k) \in Bit
  BY <1>3, <1>4
<1> QED BY <1>2, <1>3, <1>5 DEF coded

LEMMA FecEncodeType ==
  ASSUME NEW code, CodeOK(code), NEW data \in Seq(Byte)
  PROVE  FecEncode(code, data) \in Seq(Bit)
<1>1. BytesToBits(data) \in Seq(Bit)
  BY BytesAreNumbers, BytesToBitsType
<1> QED BY <1>1, ConvEncodeType DEF FecEncode

-----------------------------------------------------------------------------
(* What is built and sent are bits *)

LEMMA PayloadRegionType ==
  ASSUME NEW p, ProfileOK(p), NEW payload \in Seq(Byte)
  PROVE  PayloadRegion(p, payload) \in Seq(Byte)
<1> DEFINE crc  == Crc(p.payloadCrc, payload)
           body == payload \o crc
           pad  == [i \in 1 .. Padding(p, Len(body)) |-> p.padByte]
<1>1. crc \in Seq(Byte)
  BY BytesAreNumbers, CrcType DEF ProfileOK
<1> HIDE DEF crc
<1>2. body \in Seq(Byte) /\ Len(body) \in Nat
  BY <1>1, ConcatProperties, LenProperties
<1> HIDE DEF body
<1>3. Padding(p, Len(body)) \in Nat /\ p.padByte \in Byte
  BY <1>2, PaddingNat DEF ProfileOK
<1>4. pad \in Seq(Byte)
  BY <1>3
<1> HIDE DEF pad
<1>5. body \o pad \in Seq(Byte)
  BY <1>2, <1>4, ConcatProperties
<1> QED BY <1>5 DEF PayloadRegion, PadRegion, body, pad, crc

LEMMA CodedType ==
  ASSUME NEW p, ProfileOK(p), NEW region \in Seq(Byte)
  PROVE  Coded(p, region) \in Seq(Bit)
<1>1. BytesToBits(region) \in Seq(Bit)
  BY BytesAreNumbers, BytesToBitsType
<1>2. FecEncode(p.fec, region) \in Seq(Bit)
  BY FecEncodeType DEF ProfileOK
<1> QED BY <1>1, <1>2 DEF Coded

LEMMA EncodeRegionType ==
  ASSUME NEW p, ProfileOK(p), NEW region \in Seq(Byte),
         Divides(p.rows, Len(Coded(p, region)))
  PROVE  /\ EncodeRegion(p, region) \in Seq(Bit)
         /\ Len(EncodeRegion(p, region)) = Len(Coded(p, region))
<1> DEFINE inter == MatrixInterleave(Coded(p, region), p.rows)
<1>1. p.rows \in Nat \ {0}
  BY DEF ProfileOK
<1>2. inter \in Seq(Bit) /\ Len(inter) = Len(Coded(p, region))
  BY <1>1, CodedType, InterleaveType
<1> HIDE DEF inter
<1>3. Whiten(p, inter) \in Seq(Bit) /\ Len(Whiten(p, inter)) = Len(inter)
  BY <1>2, WhitenType
<1> QED BY <1>2, <1>3 DEF EncodeRegion, inter

LEMMA HeaderType ==
  ASSUME NEW p, ProfileOK(p), NEW payload \in Seq(Byte), NEW id, NEW count,
         CanBuild(p, payload, id, count)
  PROVE  /\ SerializeHeader(p, ResolveHeader(payload, id, count)) \in Seq(Bit)
         /\ Len(SerializeHeader(p, ResolveHeader(payload, id, count))) = HeaderBits(p)
<1> DEFINE header == ResolveHeader(payload, id, count)
           bits(v, w) == IntToBits(v, w)
<1>1. header.length = Len(payload) /\ header.id = id /\ header.counter = count
  BY DEF ResolveHeader
<1>2. /\ Len(payload) \in Nat /\ id \in Nat /\ count \in Nat
      /\ p.lengthBits \in Nat /\ p.idBits \in Nat /\ p.counterBits \in Nat
  <2>1. p.lengthBits \in Nat /\ p.idBits \in Nat /\ p.counterBits \in Nat
    BY DEF ProfileOK
  <2>2. \A w \in Nat : Pow2[w] \in Nat
    BY Pow2Type
  <2>3. id \in 0 .. Pow2[p.idBits] - 1 /\ count \in 0 .. Pow2[p.counterBits] - 1
    BY DEF CanBuild, Fits
  <2> QED BY <2>1, <2>2, <2>3, LenProperties
<1> HIDE DEF header
<1>3. bits(header.length, p.lengthBits) \in Seq(Bit)
      /\ bits(header.id, p.idBits) \in Seq(Bit)
      /\ bits(header.counter, p.counterBits) \in Seq(Bit)
  BY <1>1, <1>2, IntToBitsType
<1>4. SerializeHeader(p, header) = bits(header.length, p.lengthBits)
        \o bits(header.id, p.idBits) \o bits(header.counter, p.counterBits)
  BY DEF SerializeHeader
<1> HIDE DEF bits
<1>5. SerializeHeader(p, header) \in Seq(Bit)
  BY <1>3, <1>4, ConcatProperties
<1>6. Len(SerializeHeader(p, header)) = HeaderBits(p)
  BY HeaderLength
<1> QED BY <1>5, <1>6 DEF header

(* The bits behind the header that check it *)
HeaderCrcBits(p, header) == BytesToBits(Crc(p.headerCrc, BitsToBytes(header)))

LEMMA HeaderCrcType ==
  ASSUME NEW p, ProfileOK(p), NEW header \in Seq(Bit)
  PROVE  /\ HeaderCrcBits(p, header) \in Seq(Bit)
         /\ Len(HeaderCrcBits(p, header)) = p.headerCrc.bytes * ByteBits
<1>1. BitsToBytes(header) \in Seq(Nat)
  BY BitsToBytesIs, BytesAreNumbers
<1>2. Crc(p.headerCrc, BitsToBytes(header)) \in Seq(Nat)
      /\ Len(Crc(p.headerCrc, BitsToBytes(header))) = p.headerCrc.bytes
  BY <1>1, CrcType, BytesAreNumbers DEF ProfileOK
<1> QED BY <1>2, BytesToBitsType DEF HeaderCrcBits

LEMMA BuildBitsType ==
  ASSUME NEW p, ProfileOK(p), NEW payload \in Seq(Byte), NEW id, NEW count,
         CanBuild(p, payload, id, count)
  PROVE  BuildBits(p, payload, id, count) \in Seq(Bit)
<1> DEFINE header == SerializeHeader(p, ResolveHeader(payload, id, count))
           crc    == HeaderCrcBits(p, header)
           region == PayloadRegion(p, payload)
           body   == EncodeRegion(p, region)
<1>1. header \in Seq(Bit)
  BY HeaderType
<1>2. crc \in Seq(Bit)
  BY <1>1, HeaderCrcType
<1>3. Divides(p.rows, Len(Coded(p, region))) /\ region \in Seq(Byte)
  BY PayloadRegionType DEF CanBuild
<1>4. body \in Seq(Bit)
  BY <1>3, EncodeRegionType
<1>5. p.preamble \in Seq(Bit) /\ p.sync \in Seq(Bit)
  BY DEF ProfileOK
<1>6. BuildBits(p, payload, id, count) = p.preamble \o p.sync \o header \o crc \o body
  BY DEF BuildBits, HeaderCrcBits
<1> HIDE DEF header, crc, body
<1> QED BY <1>1, <1>2, <1>4, <1>5, <1>6, ConcatProperties

LEMMA PayloadBitsType ==
  ASSUME NEW f, FrameOK(f), NEW payload \in Seq(Byte)
  PROVE  PayloadBits(f, payload) \in Seq(Bit) /\ Len(PayloadBits(f, payload)) = f.payloadBits
<1> DEFINE n == BytesFor(f.payloadBits)
           v(i) == IF i <= Len(payload) THEN payload[i] ELSE 0
           padded == [i \in 1 .. n |-> v(i)]
           bits == BytesToBits(padded)
           e(i) == bits[i]
<1>1. f.payloadBits \in Nat /\ n \in Nat /\ Len(payload) \in Nat
  BY BytesForNat, LenProperties DEF FrameOK
<1>2. f.payloadBits <= n * ByteBits /\ n * ByteBits \in Nat
  BY <1>1, BytesForEnough
<1>3. ASSUME NEW i \in 1 .. n PROVE v(i) \in Nat
  <2>1. CASE i <= Len(payload)
    <3>1. i \in 1 .. Len(payload)
      BY <1>1, <2>1
    <3> QED BY <2>1, <3>1, ElementOfSeq, ByteIs
  <2>2. CASE ~ (i <= Len(payload))
    BY <2>2
  <2> QED BY <2>1, <2>2
<1>4. PayloadBits(f, payload) = [i \in 1 .. f.payloadBits |-> e(i)]
  BY DEF PayloadBits
<1> HIDE DEF v, n
<1>5. padded \in Seq(Nat) /\ Len(padded) = n
  BY <1>1, <1>3
<1> HIDE DEF padded
<1>6. bits \in Seq(Bit) /\ Len(bits) = n * ByteBits
  BY <1>5, BytesToBitsType
<1> HIDE DEF bits
<1>7. \A i \in 1 .. f.payloadBits : i \in 1 .. Len(bits)
  BY <1>1, <1>2, <1>6
<1>8. \A i \in 1 .. f.payloadBits : e(i) \in Bit
  BY <1>6, <1>7, ElementOfSeq
<1> HIDE DEF e
<1> QED BY <1>1, <1>4, <1>8

LEMMA CodedFrameType ==
  ASSUME NEW f, FrameOK(f), NEW payload \in Seq(Byte)
  PROVE  CodedFrame(f, payload) \in Seq(Bit)
<1> DEFINE data == f.invariant \o PayloadBits(f, payload)
<1>1. data \in Seq(Bit)
  BY PayloadBitsType, ConcatProperties DEF FrameOK
<1> HIDE DEF data
<1>2. BitsToBytes(data) \in Seq(Byte)
  BY <1>1, BitsToBytesIs
<1>3. FecEncode(f.fec, BitsToBytes(data)) \in Seq(Bit)
  BY <1>2, FecEncodeType DEF FrameOK
<1> QED BY <1>1, <1>3 DEF CodedFrame, data

LEMMA SpreadAt ==
  ASSUME NEW code, NEW bits, NEW n \in Nat, NEW d \in Nat \ {0}, Len(bits) = n, Len(code) = d,
         NEW b \in 1 .. n, NEW c \in 1 .. d
  PROVE  Spread(code, bits)[(b - 1) * d + c] = (bits[b] + code[c]) % 2
<1> DEFINE k == (b - 1) * d + c
<1>1. k \in 1 .. n * d
  BY InPlaces
<1>2. b \in Nat \ {0} /\ k = (b - 1) * d + c
  OBVIOUS
<1> HIDE DEF k
<1>3. (k - 1) \div d = b - 1 /\ (k - 1) % d = c - 1
  BY <1>2, Place
<1>4. Spread(code, bits)[k] = (bits[(k - 1) \div d + 1] + code[((k - 1) % d) + 1]) % 2
  BY <1>1 DEF Spread
<1>5. (b - 1) + 1 = b /\ (c - 1) + 1 = c
  OBVIOUS
<1> QED BY <1>3, <1>4, <1>5 DEF k

LEMMA SpreadType ==
  ASSUME NEW code \in Seq(Bit), NEW bits \in Seq(Bit)
  PROVE  /\ Spread(code, bits) \in Seq(Bit)
         /\ Len(Spread(code, bits)) = Len(bits) * Len(code)
<1> DEFINE d == Len(code)
           n == Len(bits)
           chips == Spread(code, bits)
           e(k) == (bits[(k - 1) \div d + 1] + code[((k - 1) % d) + 1]) % 2
<1>1. n \in Nat /\ d \in Nat /\ n * d \in Nat
  BY LenProperties, ProductNat
<1>2. chips = [k \in 1 .. n * d |-> e(k)]
  BY DEF Spread
<1>3. ASSUME NEW k \in 1 .. n * d PROVE chips[k] \in Bit
  <2>1. d \in Nat \ {0}
    <3>1. CASE d = 0
      <4>1. n * d = 0
        <5> HIDE DEF n, d
        <5> QED BY <1>1, <3>1
      <4> QED BY <4>1
    <3> HIDE DEF d
    <3> QED BY <1>1, <3>1
  <2>2. PICK b \in 1 .. n, c \in 1 .. d : k = (b - 1) * d + c
    BY <1>1, <2>1, PlaceOf
  <2>3. chips[k] = (bits[b] + code[c]) % 2
    BY <1>1, <2>1, <2>2, SpreadAt
  <2>4. bits[b] \in Bit /\ code[c] \in Nat
    BY ElementOfSeq, BitIs
  <2>5. (bits[b] + code[c]) % 2 \in Bit
    BY <2>4, BitSum
  <2> QED BY <2>3, <2>5
<1> HIDE DEF e, chips, n, d
<1>4. \A k \in 1 .. n * d : e(k) \in Bit
  BY <1>2, <1>3
<1> QED BY <1>1, <1>2, <1>4 DEF chips, n, d

LEMMA BuildChipsType ==
  ASSUME NEW f, FrameOK(f), NEW payload \in Seq(Byte)
  PROVE  BuildChips(f, payload) \in Seq(Bit)
<1>1. f.preamble \in Seq(Bit) /\ Spread(f.code, CodedFrame(f, payload)) \in Seq(Bit)
  BY CodedFrameType, SpreadType DEF FrameOK
<1> QED BY <1>1, ConcatProperties DEF BuildChips

-----------------------------------------------------------------------------
(* What arrives are bits *)

LEMMA InverseType ==
  ASSUME NEW bits \in Seq(Bit)
  PROVE  Inverse1(bits) \in Seq(Bit) /\ Len(Inverse1(bits)) = Len(bits)
<1> DEFINE e(i) == 1 - bits[i]
<1>1. Len(bits) \in Nat /\ \A i \in 1 .. Len(bits) : e(i) \in Bit
  BY LenProperties, ElementOfSeq DEF Bit
<1>2. Inverse1(bits) = [i \in 1 .. Len(bits) |-> e(i)]
  BY DEF Inverse1
<1> HIDE DEF e
<1> QED BY <1>1, <1>2

LEMMA FlipType ==
  ASSUME NEW bits \in Seq(Bit), NEW from, NEW n
  PROVE  Flip(bits, from, n) \in Seq(Bit) /\ Len(Flip(bits, from, n)) = Len(bits)
<1> DEFINE e(i) == IF i \in from .. from + n - 1 THEN 1 - bits[i] ELSE bits[i]
<1>1. Len(bits) \in Nat /\ \A i \in 1 .. Len(bits) : e(i) \in Bit
  BY LenProperties, ElementOfSeq DEF Bit
<1>2. Flip(bits, from, n) = [i \in 1 .. Len(bits) |-> e(i)]
  BY DEF Flip
<1> HIDE DEF e
<1> QED BY <1>1, <1>2

LEMMA FirstPart ==
  ASSUME NEW S, NEW s \in Seq(S), NEW n \in 0 .. Len(s)
  PROVE  /\ SubSeq(s, 1, n) \in Seq(S) /\ Len(SubSeq(s, 1, n)) = n
         /\ \A i \in 1 .. n : SubSeq(s, 1, n)[i] = s[i]
<1>1. Len(s) \in Nat
  BY LenProperties
<1>2. n \in Int /\ 1 \in Int /\ \A i \in 1 .. n : s[i] \in S
  BY <1>1, ElementOfSeq
<1>3. \A i \in 1 .. n : i \in 1 .. n - 1 + 1 /\ 1 + i - 1 = i
  BY <1>2
<1> QED BY <1>1, <1>2, <1>3, SubSeqProperties

(* The kinds of damage: none or a change of polarity with a tail, a burst, *)
(* a cut.                                                                  *)
DamageKinds(bits, d, bursts, tails) ==
    \/ d.from = 1 /\ d.n = 0 /\ d.kept = Len(bits) /\ d.inverted \in BOOLEAN /\ d.tail \in tails
    \/ d.from \in 1 .. Len(bits) /\ d.n \in bursts
        /\ d.kept = Len(bits) /\ d.inverted = FALSE /\ d.tail = <<>>
    \/ d.from = 1 /\ d.n = 0 /\ d.kept \in 0 .. Len(bits) - 1 /\ d.inverted = FALSE /\ d.tail = <<>>

LEMMA DamageIs ==
  ASSUME NEW bits, NEW bursts, NEW tails, NEW d \in Damages(bits, bursts, tails)
  PROVE  DamageKinds(bits, d, bursts, tails)
<1>1. CASE \E i \in BOOLEAN, t \in tails : d = Tailed(bits, i, t)
  BY <1>1 DEF Intact, DamageKinds, Tailed
<1>2. CASE \E k \in 1 .. Len(bits), n \in bursts : d = Hit(bits, k, n)
  BY <1>2 DEF Intact, DamageKinds, Hit
<1>3. CASE \E k \in 0 .. Len(bits) - 1 : d = Cut(bits, k)
  BY <1>3 DEF Intact, DamageKinds, Cut
<1> QED BY <1>1, <1>2, <1>3 DEF Damages

LEMMA DamagedType ==
  ASSUME NEW bits \in Seq(Bit), NEW bursts, NEW tails, tails \subseteq Seq(Bit),
         NEW d \in Damages(bits, bursts, tails)
  PROVE  Damaged(bits, d) \in Seq(Bit)
<1> DEFINE flipped == Flip(bits, d.from, d.n)
           kept == SubSeq(flipped, 1, d.kept) \o d.tail
<1>1. flipped \in Seq(Bit) /\ Len(flipped) = Len(bits) /\ Len(bits) \in Nat
  BY FlipType, LenProperties
<1> HIDE DEF flipped
<1>2. d.kept \in 0 .. Len(bits) /\ d.tail \in Seq(Bit)
  <2>1. DamageKinds(bits, d, bursts, tails)
    BY DamageIs
  <2>2. Len(bits) \in 0 .. Len(bits) /\ 0 .. Len(bits) - 1 \subseteq 0 .. Len(bits)
    BY <1>1
  <2>3. <<>> \in Seq(Bit)
    BY EmptySeq
  <2> QED BY <2>1, <2>2, <2>3 DEF DamageKinds
<1>3. SubSeq(flipped, 1, d.kept) \in Seq(Bit)
  BY <1>1, <1>2, FirstPart
<1>4. kept \in Seq(Bit)
  BY <1>2, <1>3, ConcatProperties
<1> HIDE DEF kept
<1>5. Inverse1(kept) \in Seq(Bit)
  BY <1>4, InverseType
<1> QED BY <1>4, <1>5 DEF Damaged, kept, flipped

-----------------------------------------------------------------------------
(* The register of the encoder *)

LEMMA LeadingZeros ==
  ASSUME NEW bits \in Seq(Bit), NEW v, Values(v, bits), NEW n \in 0 .. Len(bits),
         \A k \in 1 .. n : bits[k] = 0
  PROVE  v[n] = 0
<1> DEFINE T == {k \in 0 .. n : v[k] = 0}
<1>1. n \in Nat /\ \A k \in 1 .. n : k \in 1 .. Len(bits)
  BY LenProperties
<1>2. v[0] = 0 /\ \A k \in 1 .. n : v[k] = 2 * v[k - 1] + bits[k]
  BY <1>1 DEF Values
<1>3. 0 \in T
  BY <1>1, <1>2
<1>4. ASSUME NEW i \in 0 .. n - 1, i \in T PROVE i + 1 \in T
  <2>1. i + 1 \in 1 .. n /\ (i + 1) - 1 = i /\ i + 1 \in 0 .. n
    BY <1>1
  <2>2. v[i + 1] = 2 * v[i] + bits[i + 1] /\ v[i] = 0 /\ bits[i + 1] = 0
    BY <1>2, <1>4, <2>1
  <2> QED BY <2>1, <2>2
<1> HIDE DEF T
<1>5. 0 .. n \subseteq T
  BY <1>1, <1>3, <1>4, BoundedInduction
<1> QED BY <1>1, <1>5 DEF T

LEMMA RegisterStart ==
  ASSUME NEW code, CodeOK(code), NEW padded \in Seq(Bit)
  PROVE  Register(code, padded, 0) = 0
<1> DEFINE w == Window(code, padded, 0)
<1>1. 0 \in 0 .. Len(padded) /\ code.K \in Nat
  BY LenProperties DEF CodeOK
<1>2. w \in Seq(Bit) /\ Len(w) = code.K
  BY <1>1, WindowType
<1>3. \A k \in 1 .. code.K : w[k] = 0
  BY <1>1 DEF Window
<1>4. Register(code, padded, 0) = BitsToInt(w)
  BY DEF Register, Window
<1> HIDE DEF w
<1>5. PICK v : Values(v, w) /\ BitsToInt(w) = v[code.K]
  BY <1>2, BitsToIntIs
<1>6. code.K \in 0 .. Len(w)
  BY <1>1, <1>2
<1> QED BY <1>2, <1>3, <1>4, <1>5, <1>6, LeadingZeros

(* Behind the zeros that flush it only the oldest bit may be left. *)
LEMMA RegisterEnd ==
  ASSUME NEW code, CodeOK(code), NEW bits \in Seq(Bit)
  PROVE  Register(code, Padded(code, bits), Len(bits) + (code.K - 1)) \in 0 .. 1
<1> DEFINE n == Len(bits) + (code.K - 1)
           padded == Padded(code, bits)
           w == Window(code, padded, n)
           K == code.K
           len == Len(bits)
<1>1. K \in Nat \ {0} /\ len \in Nat /\ n = len + (K - 1) /\ n \in Nat
  BY LenProperties DEF CodeOK
<1>2. padded \in Seq(Bit) /\ Len(padded) = n
  BY PaddedType
<1>3. padded = [i \in 1 .. n |-> IF i <= len THEN bits[i] ELSE 0]
  BY DEF Padded
<1> HIDE DEF n, padded, len
<1>4. n \in 0 .. Len(padded)
  BY <1>1, <1>2
<1>5. w \in Seq(Bit) /\ Len(w) = K
  BY <1>2, <1>4, WindowType
<1>6. ASSUME NEW k \in 1 .. K - 1 PROVE w[k] = 0
  <2>1. k \in 1 .. K /\ k <= n /\ n - k + 1 \in 1 .. n /\ ~ (n - k + 1 <= len)
    BY <1>1
  <2> QED BY <1>3, <2>1 DEF Window
<1>7. Register(code, padded, n) = BitsToInt(w)
  BY DEF Register, Window
<1> HIDE DEF w, K
<1>8. PICK v : Values(v, w) /\ BitsToInt(w) = v[K]
  BY <1>5, BitsToIntIs
<1>9. K - 1 \in 0 .. Len(w) /\ K \in 1 .. Len(w)
  BY <1>1, <1>5
<1>10. v[K - 1] = 0
  BY <1>5, <1>6, <1>8, <1>9, LeadingZeros
<1>11. v[K] = 2 * v[K - 1] + w[K] /\ w[K] \in 0 .. 1
  BY <1>5, <1>8, <1>9, ElementOfSeq, BitIs DEF Values
<1>12. v[K] \in 0 .. 1
  BY <1>10, <1>11
<1> QED BY <1>7, <1>8, <1>12 DEF n, padded, len

(* A bit enters at the highest place, the oldest one leaves. *)
LEMMA RegisterNext ==
  ASSUME NEW code, CodeOK(code), NEW padded \in Seq(Bit), NEW i \in 1 .. Len(padded)
  PROVE  Register(code, padded, i)
           = padded[i] * Half(code) + Register(code, padded, i - 1) \div 2
<1> DEFINE K == code.K
           b == padded[i]
           w == Window(code, padded, i)
           u == Window(code, padded, i - 1)
<1>1. K \in Nat \ {0} /\ i \in Nat \ {0} /\ i \in 0 .. Len(padded) /\ i - 1 \in 0 .. Len(padded)
      /\ b \in 0 .. 1
  BY LenProperties, ElementOfSeq, BitIs DEF CodeOK
<1>2. w \in Seq(Bit) /\ Len(w) = K /\ u \in Seq(Bit) /\ Len(u) = K
  BY <1>1, WindowType
<1>3. w[1] = b
  BY <1>1 DEF Window
<1>4. ASSUME NEW k \in 1 .. K - 1 PROVE w[k + 1] = u[k]
  <2>1. k + 1 \in 1 .. K /\ k \in 1 .. K /\ i - (k + 1) + 1 = i - 1 - k + 1
        /\ (k + 1 <= i <=> k <= i - 1)
    BY <1>1
  <2>2. w[k + 1] = (IF k + 1 <= i THEN padded[i - (k + 1) + 1] ELSE 0)
        /\ u[k] = (IF k <= i - 1 THEN padded[(i - 1) - k + 1] ELSE 0)
    BY <2>1 DEF Window
  <2>3. i - (k + 1) + 1 = (i - 1) - k + 1
    BY <1>1
  <2> QED BY <2>1, <2>2, <2>3
<1>5. Register(code, padded, i) = BitsToInt(w) /\ Register(code, padded, i - 1) = BitsToInt(u)
  BY DEF Register, Window
<1> HIDE DEF w, u, K, b
<1>6. PICK v : Values(v, w) /\ BitsToInt(w) = v[K]
  BY <1>2, BitsToIntIs
<1>7. PICK x : Values(x, u) /\ BitsToInt(u) = x[K]
  BY <1>2, BitsToIntIs
<1>8. /\ v[0] = 0 /\ \A k \in 1 .. K : v[k] = 2 * v[k - 1] + w[k]
      /\ x[0] = 0 /\ \A k \in 1 .. K : x[k] = 2 * x[k - 1] + u[k]
      /\ \A k \in 0 .. K : v[k] \in Nat /\ x[k] \in Nat
  BY <1>2, <1>6, <1>7 DEF Values
<1>9. \A k \in 1 .. K : w[k] \in 0 .. 1 /\ u[k] \in 0 .. 1
  BY <1>2, ElementOfSeq, BitIs
<1> DEFINE T == {k \in 0 .. K - 1 : v[k + 1] = b * Pow2[k] + x[k]}
<1>10. 0 \in T
  <2>1. 1 \in 1 .. K /\ 1 - 1 = 0 /\ 0 + 1 = 1 /\ 0 \in 0 .. K - 1
    BY <1>1
  <2>2. v[1] = b
    BY <1>1, <1>3, <1>8, <2>1
  <2>3. v[1] = b * Pow2[0] + x[0]
    BY <1>1, <1>8, <2>2, Pow2Is
  <2> QED BY <2>1, <2>3
<1>11. ASSUME NEW k \in 0 .. (K - 1) - 1, k \in T PROVE k + 1 \in T
  <2>1. k \in Nat /\ k + 1 \in 1 .. K /\ k + 1 \in 1 .. K - 1 /\ (k + 1) + 1 \in 1 .. K
        /\ ((k + 1) + 1) - 1 = k + 1 /\ (k + 1) - 1 = k /\ k + 1 \in 0 .. K - 1 /\ k \in 0 .. K
    BY <1>1
  <2>2. v[(k + 1) + 1] = 2 * v[k + 1] + w[(k + 1) + 1] /\ w[(k + 1) + 1] = u[k + 1]
    BY <1>4, <1>8, <2>1
  <2>3. x[k + 1] = 2 * x[k] + u[k + 1] /\ v[k + 1] = b * Pow2[k] + x[k]
    BY <1>8, <1>11, <2>1
  <2>4. Pow2[k + 1] = 2 * Pow2[k] /\ Pow2[k] \in Nat
    BY <2>1, Pow2Is, Pow2Type
  <2>5. u[k + 1] \in 0 .. 1 /\ x[k] \in Nat
    BY <1>8, <1>9, <2>1
  <2> DEFINE y == Pow2[k]
             d == u[k + 1]
             e == x[k]
  <2>6. v[(k + 1) + 1] = 2 * (b * y + e) + d /\ x[k + 1] = 2 * e + d /\ Pow2[k + 1] = 2 * y
        /\ y \in Nat /\ d \in 0 .. 1 /\ e \in Nat
    BY <2>2, <2>3, <2>4, <2>5
  <2> HIDE DEF y, d, e
  <2>7. CASE b = 0
    BY <2>1, <2>6, <2>7
  <2>8. CASE b = 1
    BY <2>1, <2>6, <2>8
  <2> QED BY <1>1, <2>7, <2>8
<1> HIDE DEF T
<1>12. K - 1 \in Nat
  BY <1>1
<1>13. 0 .. K - 1 \subseteq T
  BY <1>10, <1>11, <1>12, BoundedInduction
<1>14. v[K] = b * Pow2[K - 1] + x[K - 1]
  <2>1. K - 1 \in T /\ (K - 1) + 1 = K
    BY <1>1, <1>13
  <2> QED BY <2>1 DEF T
<1>15. x[K] \div 2 = x[K - 1]
  <2>1. K \in 1 .. K /\ K - 1 \in 0 .. K
    BY <1>1
  <2> DEFINE y == x[K - 1]
             d == u[K]
  <2>2. x[K] = 2 * y + d /\ y \in Nat /\ d \in 0 .. 1
    BY <1>8, <1>9, <2>1
  <2> HIDE DEF y, d
  <2>3. (2 * y + d) \div 2 = y
    BY <2>2
  <2> QED BY <2>2, <2>3 DEF y
<1> QED BY <1>5, <1>6, <1>7, <1>14, <1>15 DEF Half, K, b

-----------------------------------------------------------------------------
(* Registers that differ in one place *)

BitAt(r, t) == (r \div Pow2[t]) % 2

LEMMA BitAtIs ==
  ASSUME NEW r \in Nat, NEW t \in Nat
  PROVE  BitAt(r, t) \in {0, 1}
<1>1. r \div Pow2[t] \in Nat
  BY Pow2Type, QuotientNat
<1> QED BY <1>1, Remainder2 DEF BitAt, Bit

DifferOnlyAt(r, s, u, taps) ==
    BitAt(r, u) # BitAt(s, u) /\ \A t \in taps : t # u => BitAt(r, t) = BitAt(s, t)

LEMMA ParityFlips ==
  ASSUME NEW taps, taps \subseteq Nat, IsFiniteSet(taps), NEW u \in taps,
         NEW r \in Nat, NEW s \in Nat, DifferOnlyAt(r, s, u, taps)
  PROVE  Parity(r, taps) # Parity(s, taps)
<1> DEFINE P(x) == {t \in taps : BitAt(x, t) = 1}
<1>1. ASSUME NEW x \in Nat, NEW y \in Nat, DifferOnlyAt(x, y, u, taps), BitAt(x, u) = 1
      PROVE  Parity(x, taps) # Parity(y, taps)
  <2>1. BitAt(y, u) # 1
    BY <1>1 DEF DifferOnlyAt
  <2>2. P(x) = P(y) \cup {u} /\ u \notin P(y)
    <3>1. \A t \in taps : t # u => BitAt(x, t) = BitAt(y, t)
      BY <1>1 DEF DifferOnlyAt
    <3>2. P(x) \subseteq P(y) \cup {u}
      BY <3>1
    <3>3. P(y) \cup {u} \subseteq P(x)
      BY <1>1, <2>1, <3>1
    <3> QED BY <2>1, <3>2, <3>3
  <2>3. IsFiniteSet(P(y))
    BY FS_Subset
  <2> DEFINE n == Cardinality(P(y))
  <2>4. Cardinality(P(x)) = n + 1 /\ n \in Nat
    <3> HIDE DEF P
    <3> QED BY <2>2, <2>3, FS_AddElement, FS_CardinalityType
  <2>5. Parity(x, taps) = (n + 1) % 2 /\ Parity(y, taps) = n % 2
    BY <2>4 DEF Parity, BitAt
  <2> HIDE DEF n
  <2>6. (n + 1) % 2 # n % 2
    BY <2>4
  <2> QED BY <2>5, <2>6
<1>2. DifferOnlyAt(s, r, u, taps)
  BY DEF DifferOnlyAt
<1>3. u \in Nat
  OBVIOUS
<1>4. BitAt(r, u) = 1 \/ BitAt(s, u) = 1
  BY <1>3, BitAtIs DEF DifferOnlyAt
<1> QED BY <1>1, <1>2, <1>4

(* Registers that have the same successors differ in the lowest place. *)
LEMMA LowestPlace ==
  ASSUME NEW r \in Nat, NEW s \in Nat, r # s, r \div 2 = s \div 2, NEW taps, taps \subseteq Nat
  PROVE  DifferOnlyAt(r, s, 0, taps)
<1>1. BitAt(r, 0) # BitAt(s, 0)
  <2>1. r \div 1 = r /\ s \div 1 = s
    OBVIOUS
  <2>2. r % 2 # s % 2
    <3>1. r = 2 * (r \div 2) + (r % 2) /\ s = 2 * (s \div 2) + (s % 2)
      BY Quotient
    <3> QED BY <3>1
  <2> QED BY <2>1, <2>2, Pow2Is DEF BitAt
<1>2. ASSUME NEW t \in taps, t # 0 PROVE BitAt(r, t) = BitAt(s, t)
  <2>1. t \in Nat \ {0}
    BY <1>2
  <2> DEFINE a == Pow2[t - 1]
  <2>2. a \in Nat \ {0} /\ Pow2[t] = a * 2
    BY <2>1, Pow2Before
  <2> HIDE DEF a
  <2>3. ASSUME NEW x \in Nat PROVE x \div (a * 2) = (x \div 2) \div a
    <3> DEFINE h == x \div 2
               c == x % 2
               q == h \div a
               e == h % a
    <3>1. h \in Nat /\ c \in 0 .. 1 /\ x = 2 * h + c
      BY Quotient
    <3> HIDE DEF h, c
    <3>2. q \in Nat /\ e \in 0 .. a - 1 /\ h = a * q + e
      BY <2>2, <3>1, Quotient
    <3> HIDE DEF q, e
    <3>3. 2 * e + c \in 0 .. a * 2 - 1 /\ a * 2 \in Nat \ {0} /\ q \in Int
      BY <2>2, <3>1, <3>2
    <3>4. (q * (a * 2) + (2 * e + c)) \div (a * 2) = q
      BY <3>3, DivisionUnique
    <3>5. x = q * (a * 2) + (2 * e + c)
      <4> DEFINE z == a * q
      <4>1. z \in Nat /\ q * (a * 2) = 2 * z
        BY <2>2, <3>2
      <4>2. h = z + e
        BY <3>2
      <4> HIDE DEF z
      <4> QED BY <2>2, <3>1, <3>2, <4>1, <4>2
    <3> QED BY <3>4, <3>5 DEF q, h
  <2>4. r \div (a * 2) = s \div (a * 2)
    BY <2>3
  <2> QED BY <2>2, <2>4 DEF BitAt
<1> QED BY <1>1, <1>2 DEF DifferOnlyAt

(* Registers with the same predecessors differ in the highest place. *)
LEMMA HighestPlace ==
  ASSUME NEW K \in Nat \ {0}, NEW m \in 0 .. Pow2[K - 1] - 1,
         NEW c \in Bit, NEW d \in Bit, c # d, NEW taps, taps \subseteq 0 .. K - 1
  PROVE  DifferOnlyAt(c * Pow2[K - 1] + m, d * Pow2[K - 1] + m, K - 1, taps)
<1> DEFINE H == Pow2[K - 1]
<1>1. K - 1 \in Nat /\ H \in Nat \ {0}
  BY Pow2Type
<1>2. ASSUME NEW b \in Bit PROVE BitAt(b * H + m, K - 1) = b
  <2>1. b \in Int /\ m \in 0 .. H - 1
    BY BitIs
  <2>2. (b * H + m) \div H = b
    <3> HIDE DEF H
    <3> QED BY <1>1, <2>1, DivisionUnique
  <2>3. b % 2 = b
    BY DEF Bit
  <2> QED BY <2>2, <2>3 DEF BitAt
<1>3. ASSUME NEW t \in taps, t # K - 1, NEW b \in Bit
      PROVE  BitAt(b * H + m, t) = BitAt(m, t)
  <2> DEFINE a == Pow2[t]
             e == (K - 1) - t
             y == Pow2[e - 1]
             q == m \div a
             z == m % a
  <2>1. t \in Nat /\ e \in Nat \ {0} /\ t + e = K - 1
    BY <1>3
  <2>2. a \in Nat \ {0} /\ y \in Nat /\ H = a * (2 * y)
    <3> HIDE DEF e
    <3>1. a \in Nat \ {0} /\ y \in Nat /\ Pow2[e] = 2 * y
      BY <2>1, Pow2Type, Pow2Before
    <3>2. Pow2[t + e] = a * Pow2[e]
      BY <2>1, Pow2Sum
    <3> QED BY <2>1, <3>1, <3>2
  <2>3. m \in Nat
    BY <1>1
  <2> HIDE DEF a, y, H
  <2>4. q \in Nat /\ z \in 0 .. a - 1 /\ m = a * q + z
    BY <2>2, <2>3, Quotient
  <2> HIDE DEF q, z
  <2>5. CASE b = 0
    <3>1. b * H + m = m
      BY <1>1, <2>3, <2>5
    <3> QED BY <3>1
  <2>6. CASE b = 1
    <3> DEFINE g == 2 * y + q
    <3>1. g \in Int
      BY <2>2, <2>4
    <3>2. (g * a + z) \div a = g
      <4> HIDE DEF g
      <4> QED BY <2>2, <2>4, <3>1, DivisionUnique
    <3>3. b * H + m = g * a + z
      <4>1. b * H = a * (2 * y)
        BY <1>1, <2>2, <2>6
      <4>2. a * (2 * y) + (a * q + z) = (2 * y + q) * a + z
        BY <2>2, <2>4
      <4> QED BY <2>4, <4>1, <4>2
    <3>4. g % 2 = q % 2
      BY <2>2, <2>4
    <3>5. (b * H + m) \div a = g
      BY <3>2, <3>3
    <3> HIDE DEF g
    <3> QED BY <3>4, <3>5 DEF BitAt, a, q
  <2> QED BY <2>5, <2>6 DEF Bit
<1> QED BY <1>2, <1>3 DEF DifferOnlyAt

-----------------------------------------------------------------------------
(* Distances *)

LEMMA MinIs ==
  ASSUME NEW S, S \subseteq Int, NEW m \in S, \A x \in S : m <= x
  PROVE  Min(S) = m
<1> DEFINE c == CHOOSE x \in S : \A y \in S : x <= y
<1>1. \E x \in S : \A y \in S : x <= y
  OBVIOUS
<1>2. c \in S /\ \A y \in S : c <= y
  BY <1>1
<1>3. Min(S) = c
  BY DEF Min
<1> HIDE DEF c
<1>4. c <= m /\ m <= c /\ c \in Int /\ m \in Int
  BY <1>2
<1>5. c = m
  BY <1>4
<1> QED BY <1>3, <1>5

LEMMA HalfIs ==
  ASSUME NEW code, CodeOK(code)
  PROVE  Half(code) \in Nat \ {0} /\ Half(code) = Pow2[code.K - 1]
<1>1. code.K - 1 \in Nat
  BY DEF CodeOK
<1> QED BY <1>1, Pow2Type DEF Half

LEMMA OutputType ==
  ASSUME NEW code, CodeOK(code), NEW r \in Nat
  PROVE  /\ DOMAIN Output(code, r) = 1 .. code.rate
         /\ \A j \in 1 .. code.rate :
               Output(code, r)[j] = Parity(r, code.taps[j]) /\ Output(code, r)[j] \in Bit
<1>1. \A j \in 1 .. code.rate : Parity(r, code.taps[j]) \in Bit
  BY ParityIsBit DEF CodeOK
<1> QED BY <1>1 DEF Output

LEMMA DistanceType ==
  ASSUME NEW code, CodeOK(code), NEW r \in Nat, NEW rx
  PROVE  /\ Distance(Output(code, r), rx) \in Nat
         /\ IsFiniteSet({j \in 1 .. code.rate : Output(code, r)[j] # rx[j]})
         /\ Distance(Output(code, r), rx)
              = Cardinality({j \in 1 .. code.rate : Output(code, r)[j] # rx[j]})
<1> DEFINE D == {j \in 1 .. code.rate : Output(code, r)[j] # rx[j]}
<1>1. IsFiniteSet(1 .. code.rate)
  BY FS_Interval DEF CodeOK
<1>2. D \in SUBSET (1 .. code.rate)
  OBVIOUS
<1>3. Distance(Output(code, r), rx) = Cardinality(D)
  BY OutputType DEF Distance
<1> HIDE DEF D
<1>4. IsFiniteSet(D)
  BY <1>1, <1>2, FS_Subset
<1> QED BY <1>3, <1>4, FS_CardinalityType DEF D

Flipped(code, r, t) == \A j \in 1 .. code.rate : Parity(r, code.taps[j]) # Parity(t, code.taps[j])

(* A register whose every output is flipped is as far from what arrives as *)
(* another is near.                                                        *)
LEMMA FlippedDistance ==
  ASSUME NEW code, CodeOK(code), NEW r \in Nat, NEW t \in Nat, Flipped(code, r, t),
         NEW rx, \A j \in 1 .. code.rate : rx[j] \in Bit
  PROVE  Distance(Output(code, r), rx) = code.rate - Distance(Output(code, t), rx)
<1> DEFINE I == 1 .. code.rate
           D(x) == {j \in I : Output(code, x)[j] # rx[j]}
<1>1. /\ Distance(Output(code, r), rx) = Cardinality(D(r))
      /\ Distance(Output(code, t), rx) = Cardinality(D(t))
      /\ IsFiniteSet(D(t))
  BY DistanceType
<1>2. \A j \in I : /\ Output(code, r)[j] \in {0, 1} /\ Output(code, t)[j] \in {0, 1}
                   /\ rx[j] \in {0, 1} /\ Output(code, r)[j] # Output(code, t)[j]
  BY OutputType DEF Flipped, Bit
<1>3. D(r) = I \ D(t) /\ I \cap D(t) = D(t)
  <2>1. ASSUME NEW j \in I PROVE (Output(code, r)[j] # rx[j]) <=> ~ (Output(code, t)[j] # rx[j])
    BY <1>2
  <2> QED BY <2>1
<1>4. IsFiniteSet(I) /\ Cardinality(I) = code.rate
  <2> DEFINE n == code.rate
  <2>1. n \in Int /\ 1 \in Int /\ ~ (1 > n) /\ n - 1 + 1 = n
    BY DEF CodeOK
  <2> HIDE DEF n
  <2>2. IsFiniteSet(1 .. n) /\ Cardinality(1 .. n) = n
    BY <2>1, FS_Interval
  <2> QED BY <2>2 DEF n
<1> DEFINE E == D(t)
<1>5. Cardinality(I \ E) = Cardinality(I) - Cardinality(I \cap E)
  <2> HIDE DEF E, I
  <2> QED BY <1>4, FS_Difference
<1>6. D(r) = I \ E /\ I \cap E = E
  BY <1>3
<1> HIDE DEF D, I
<1>7. Cardinality(D(r)) = code.rate - Cardinality(D(t))
  BY <1>4, <1>5, <1>6
<1> QED BY <1>1, <1>7

-----------------------------------------------------------------------------
(* One turn of the decoder *)

Survivor == [metric : Nat, bits : Seq(Bit)]

Trellis(code) == {s \in Seq(Survivor) : Len(s) = 2 * Half(code)}

BestOf(paths, m) == Better(paths[2 * m + 1], paths[2 * m + 2])

LEMMA SurvivorOf ==
  ASSUME NEW code, CodeOK(code), NEW paths \in Trellis(code), NEW r \in 0 .. 2 * Half(code) - 1
  PROVE  paths[r + 1] \in Survivor /\ paths[r + 1].metric \in Nat /\ paths[r + 1].bits \in Seq(Bit)
<1>1. paths \in Seq(Survivor) /\ r + 1 \in 1 .. Len(paths)
  BY HalfIs DEF Trellis
<1>2. paths[r + 1] \in Survivor
  BY <1>1, ElementOfSeq
<1> QED BY <1>2 DEF Survivor

LEMMA BestIs ==
  ASSUME NEW code, CodeOK(code), NEW paths \in Trellis(code), NEW m \in 0 .. Half(code) - 1
  PROVE  /\ 2 * m \in 0 .. 2 * Half(code) - 1 /\ 2 * m + 1 \in 0 .. 2 * Half(code) - 1
         /\ BestOf(paths, m) \in Survivor
         /\ BestOf(paths, m) = IF paths[2 * m + 1].metric > paths[2 * m + 2].metric
                               THEN paths[2 * m + 2] ELSE paths[2 * m + 1]
<1>1. /\ 2 * m \in 0 .. 2 * Half(code) - 1 /\ 2 * m + 1 \in 0 .. 2 * Half(code) - 1
      /\ (2 * m + 1) + 1 = 2 * m + 2
  BY HalfIs
<1>2. paths[2 * m + 1] \in Survivor /\ paths[(2 * m + 1) + 1] \in Survivor
  BY <1>1, SurvivorOf
<1> QED BY <1>1, <1>2 DEF BestOf, Better

LEMMA SelectIntoIs ==
  ASSUME NEW code, CodeOK(code), NEW paths \in Trellis(code), NEW rx, NEW c \in Bit
  PROVE  /\ SelectInto(code, paths, rx, c) \in Seq(Survivor)
         /\ Len(SelectInto(code, paths, rx, c)) = Half(code)
         /\ \A m \in 0 .. Half(code) - 1 : SelectInto(code, paths, rx, c)[m + 1]
               = [metric |-> BestOf(paths, m).metric
                               + Distance(Output(code, c * Half(code) + m), rx),
                  bits   |-> Append(BestOf(paths, m).bits, c)]
<1> DEFINE H == Half(code)
           e(l) == [metric |-> Better(paths[2 * l - 1], paths[2 * l]).metric
                                 + Distance(Output(code, c * H + l - 1), rx),
                    bits   |-> Append(Better(paths[2 * l - 1], paths[2 * l]).bits, c)]
           g(m) == [metric |-> BestOf(paths, m).metric + Distance(Output(code, c * H + m), rx),
                    bits   |-> Append(BestOf(paths, m).bits, c)]
<1>1. H \in Nat \ {0}
  BY HalfIs
<1>2. SelectInto(code, paths, rx, c) = [l \in 1 .. H |-> e(l)]
  BY DEF SelectInto
<1>3. ASSUME NEW m \in 0 .. H - 1 PROVE g(m) \in Survivor
  <2>1. BestOf(paths, m) \in Survivor
    BY BestIs
  <2>2. c * H + m \in Nat
    BY <1>1, BitIs
  <2>3. Distance(Output(code, c * H + m), rx) \in Nat
    BY <2>2, DistanceType
  <2>4. Append(BestOf(paths, m).bits, c) \in Seq(Bit)
    BY <2>1, AppendProperties DEF Survivor
  <2> QED BY <2>1, <2>3, <2>4 DEF Survivor
<1>4. ASSUME NEW l \in 1 .. H PROVE e(l) = g(l - 1) /\ l - 1 \in 0 .. H - 1
  <2> HIDE DEF H
  <2>1. 2 * (l - 1) + 1 = 2 * l - 1 /\ 2 * (l - 1) + 2 = 2 * l
    BY <1>1
  <2>2. BestOf(paths, l - 1) = Better(paths[2 * l - 1], paths[2 * l])
    BY <2>1 DEF BestOf
  <2>3. c * H + (l - 1) = c * H + l - 1
    BY <1>1
  <2> QED BY <1>1, <2>2, <2>3
<1> HIDE DEF e, g, H
<1>5. \A l \in 1 .. H : e(l) \in Survivor
  BY <1>3, <1>4
<1>6. ASSUME NEW m \in 0 .. H - 1 PROVE SelectInto(code, paths, rx, c)[m + 1] = g(m)
  <2>1. m + 1 \in 1 .. H /\ (m + 1) - 1 = m
    BY <1>1
  <2> QED BY <1>2, <1>4, <2>1
<1>7. [l \in 1 .. H |-> e(l)] \in Seq(Survivor) /\ Len([l \in 1 .. H |-> e(l)]) = H
  BY <1>1, <1>5
<1> QED BY <1>2, <1>6, <1>7 DEF H, g

LEMMA SelectIs ==
  ASSUME NEW code, CodeOK(code), NEW paths \in Trellis(code), NEW rx
  PROVE  /\ Select(code, paths, rx) \in Trellis(code)
         /\ \A c \in Bit, m \in 0 .. Half(code) - 1 :
               Select(code, paths, rx)[(c * Half(code) + m) + 1]
                 = [metric |-> BestOf(paths, m).metric
                                 + Distance(Output(code, c * Half(code) + m), rx),
                    bits   |-> Append(BestOf(paths, m).bits, c)]
<1> DEFINE H == Half(code)
           low == SelectInto(code, paths, rx, 0)
           high == SelectInto(code, paths, rx, 1)
           g(c, m) == [metric |-> BestOf(paths, m).metric + Distance(Output(code, c * H + m), rx),
                       bits   |-> Append(BestOf(paths, m).bits, c)]
           all == Select(code, paths, rx)
<1>1. H \in Nat \ {0} /\ 0 \in Bit /\ 1 \in Bit
  BY HalfIs DEF Bit
<1>2. low \in Seq(Survivor) /\ Len(low) = H /\ high \in Seq(Survivor) /\ Len(high) = H
  BY <1>1, SelectIntoIs
<1>3. \A m \in 0 .. H - 1 : low[m + 1] = g(0, m) /\ high[m + 1] = g(1, m)
  BY <1>1, SelectIntoIs
<1>4. all = low \o high
  BY DEF Select
<1> HIDE DEF H, low, high, g, all
<1>5. /\ all \in Seq(Survivor) /\ Len(all) = 2 * H
      /\ \A i \in 1 .. H + H : all[i] = IF i <= H THEN low[i] ELSE high[i - H]
  <2>1. H + H = 2 * H
    BY <1>1
  <2>2. /\ low \o high \in Seq(Survivor) /\ Len(low \o high) = Len(low) + Len(high)
        /\ \A i \in 1 .. Len(low) + Len(high) :
              (low \o high)[i] = IF i <= Len(low) THEN low[i] ELSE high[i - Len(low)]
    BY <1>2, ConcatProperties
  <2> QED BY <1>2, <1>4, <2>1, <2>2
<1>6. ASSUME NEW m \in 0 .. H - 1 PROVE all[(0 * H + m) + 1] = g(0, m)
  <2>1. (0 * H + m) + 1 = m + 1 /\ m + 1 \in 1 .. H + H /\ m + 1 <= H
    BY <1>1
  <2> QED BY <1>3, <1>5, <2>1
<1>7. ASSUME NEW m \in 0 .. H - 1 PROVE all[(1 * H + m) + 1] = g(1, m)
  <2>1. (1 * H + m) + 1 \in 1 .. H + H /\ ~ ((1 * H + m) + 1 <= H) /\ ((1 * H + m) + 1) - H = m + 1
    BY <1>1
  <2> QED BY <1>3, <1>5, <2>1
<1>8. \A c \in Bit, m \in 0 .. H - 1 : all[(c * H + m) + 1] = g(c, m)
  BY <1>6, <1>7 DEF Bit
<1> QED BY <1>5, <1>8 DEF Trellis, H, all, g

(* One register leads: no other is as near, and the one that shares its    *)
(* successors is further away.                                             *)
Leads(code, paths, t, m, o) ==
    /\ paths[t + 1].metric <= m
    /\ \A r \in 0 .. 2 * Half(code) - 1 : r # t => o <= paths[r + 1].metric
    /\ \A r \in 0 .. 2 * Half(code) - 1 : r # t /\ r \div 2 = t \div 2 => m < paths[r + 1].metric

LEMMA TheLeadersPath ==
  ASSUME NEW code, CodeOK(code), NEW paths \in Trellis(code),
         NEW t \in 0 .. 2 * Half(code) - 1, NEW m \in Nat, NEW o \in Nat,
         Leads(code, paths, t, m, o)
  PROVE  t \div 2 \in 0 .. Half(code) - 1 /\ BestOf(paths, t \div 2) = paths[t + 1]
<1> DEFINE H == Half(code)
           q == t \div 2
           c == t % 2
<1>1. H \in Nat \ {0} /\ t \in Nat
  BY HalfIs
<1>2. q \in Nat /\ c \in 0 .. 1 /\ t = 2 * q + c
  BY <1>1, Quotient
<1> HIDE DEF H, q, c
<1>3. q \in 0 .. H - 1
  BY <1>1, <1>2 DEF H
<1>4. /\ 2 * q \in 0 .. 2 * H - 1 /\ 2 * q + 1 \in 0 .. 2 * H - 1
      /\ (2 * q) \div 2 = q /\ (2 * q + 1) \div 2 = q /\ (2 * q + 1) + 1 = 2 * q + 2
  BY <1>1, <1>3
<1>5. /\ paths[2 * q + 1].metric \in Nat /\ paths[2 * q + 2].metric \in Nat
      /\ BestOf(paths, q) = IF paths[2 * q + 1].metric > paths[2 * q + 2].metric
                            THEN paths[2 * q + 2] ELSE paths[2 * q + 1]
  <2>1. paths[2 * q + 1].metric \in Nat /\ paths[(2 * q + 1) + 1].metric \in Nat
    BY <1>4, SurvivorOf DEF H
  <2>2. BestOf(paths, q) = IF paths[2 * q + 1].metric > paths[2 * q + 2].metric
                           THEN paths[2 * q + 2] ELSE paths[2 * q + 1]
    BY <1>3, BestIs DEF H
  <2> QED BY <1>4, <2>1, <2>2
<1>6. /\ paths[t + 1].metric <= m
      /\ \A r \in 0 .. 2 * H - 1 : r # t /\ r \div 2 = q => m < paths[r + 1].metric
  BY DEF Leads, H, q
<1>7. CASE c = 0
  <2>1. t = 2 * q /\ 2 * q + 1 # t
    BY <1>2, <1>7
  <2>2. m < paths[(2 * q + 1) + 1].metric
    BY <1>4, <1>6, <2>1
  <2>3. ~ (paths[2 * q + 1].metric > paths[2 * q + 2].metric)
    BY <1>4, <1>5, <1>6, <2>1, <2>2
  <2> QED BY <1>3, <1>5, <2>1, <2>3 DEF q, H
<1>8. CASE c = 1
  <2>1. t = 2 * q + 1 /\ 2 * q # t
    BY <1>2, <1>8
  <2>2. m < paths[2 * q + 1].metric
    BY <1>4, <1>6, <2>1
  <2>3. paths[t + 1] = paths[2 * q + 2]
    BY <1>4, <2>1
  <2>4. paths[2 * q + 1].metric > paths[2 * q + 2].metric
    BY <1>5, <1>6, <2>2, <2>3
  <2> QED BY <1>3, <1>5, <2>3, <2>4 DEF q, H
<1> QED BY <1>2, <1>7, <1>8

(* Registers that enter with the same latest bit or not *)
LEMMA RegisterIs ==
  ASSUME NEW code, CodeOK(code), NEW r \in 0 .. 2 * Half(code) - 1
  PROVE  \E c \in Bit, q \in 0 .. Half(code) - 1 : r = c * Half(code) + q
<1> DEFINE H == Half(code)
           c == r \div H
           q == r % H
<1>1. H \in Nat \ {0} /\ 2 \in Nat \ {0}
  BY HalfIs
<1>2. r \in 0 .. 2 * H - 1
  OBVIOUS
<1>3. c \in 0 .. 1 /\ q \in 0 .. H - 1 /\ c * H + q = r
  <2> HIDE DEF H
  <2>1. c \in 0 .. 2 - 1 /\ q \in 0 .. H - 1 /\ c * H + q = r
    BY <1>1, <1>2, Cell
  <2> QED BY <2>1
<1> HIDE DEF c, q
<1> QED BY <1>3 DEF Bit

FarOrAhead(metric, o, d) == o <= metric \/ d <= metric

(* A turn: before it register t leads and bit b enters it.                 *)
Turn(code, paths, t, m, o, b, rx, u, err) ==
    /\ CodeOK(code) /\ TapsReach(code) /\ code.cc
    /\ paths \in Trellis(code) /\ t \in 0 .. 2 * Half(code) - 1
    /\ m \in Nat /\ o \in Nat /\ Leads(code, paths, t, m, o)
    /\ b \in Bit /\ \A j \in 1 .. code.rate : rx[j] \in Bit
    /\ u = b * Half(code) + t \div 2
    /\ err = Distance(Output(code, u), rx) /\ err <= 1

Turned(code, new, path, m, o, b, u, err) ==
    /\ u \in 0 .. 2 * Half(code) - 1 /\ err \in Nat
    /\ new[u + 1].metric <= m + err
    /\ new[u + 1].bits = Append(path, b)
    /\ \A r \in 0 .. 2 * Half(code) - 1 : r # u =>
          FarOrAhead(new[r + 1].metric, o, code.rate - err)
    /\ \A r \in 0 .. 2 * Half(code) - 1 : r # u /\ r \div 2 = u \div 2 =>
          o + (code.rate - err) <= new[r + 1].metric

(* What a turn makes of a leader: as long as no more than one bit of what  *)
(* arrives is wrong it still leads, by as much as before or by one less.   *)
LEMMA StepLeads ==
  ASSUME NEW code, NEW paths, NEW t, NEW m, NEW o, NEW b, NEW rx, NEW u, NEW err,
         Turn(code, paths, t, m, o, b, rx, u, err)
  PROVE  Turned(code, Select(code, paths, rx), paths[t + 1].bits, m, o, b, u, err)
<1> DEFINE H == Half(code)
           q == t \div 2
           new == Select(code, paths, rx)
           far == code.rate - err
           D(r) == Distance(Output(code, r), rx)
<1>0. /\ CodeOK(code) /\ TapsReach(code) /\ code.cc
      /\ paths \in Trellis(code) /\ t \in 0 .. 2 * H - 1
      /\ m \in Nat /\ o \in Nat /\ Leads(code, paths, t, m, o)
      /\ b \in Bit /\ \A j \in 1 .. code.rate : rx[j] \in Bit
      /\ u = b * H + q
      /\ err = Distance(Output(code, u), rx) /\ err <= 1
  BY DEF Turn
<1> USE <1>0
<1>1. H \in Nat \ {0} /\ H = Pow2[code.K - 1] /\ t \in Nat
  BY HalfIs
<1>2. q \in 0 .. H - 1 /\ BestOf(paths, q) = paths[t + 1]
  BY TheLeadersPath
<1>3. paths[t + 1] \in Survivor /\ paths[t + 1].metric \in Nat
  BY SurvivorOf
<1>4. b \in 0 .. 1 /\ u = b * H + q
  BY BitIs
<1>5. u \in 0 .. 2 * H - 1 /\ u \in Nat
  <2> HIDE DEF H, q
  <2>1. CASE b = 0
    BY <1>1, <1>2, <1>4, <2>1
  <2>2. CASE b = 1
    BY <1>1, <1>2, <1>4, <2>2
  <2> QED BY <1>4, <2>1, <2>2
<1>6. /\ code.K \in Nat \ {0} /\ code.K > 1 /\ code.rate \in Nat /\ code.rate > 1
      /\ \A j \in 1 .. code.rate : /\ code.taps[j] \subseteq Nat /\ IsFiniteSet(code.taps[j])
                                   /\ 0 \in code.taps[j] /\ code.K - 1 \in code.taps[j]
                                   /\ code.taps[j] \subseteq 0 .. code.K - 1
  BY DEF TapsReach, CodeOK
<1>7. err \in Nat /\ far \in Nat /\ far >= 1
  <2>1. err \in Nat
    BY <1>5, DistanceType
  <2> QED BY <1>6, <2>1
<1>8. \A c \in Bit, k \in 0 .. H - 1 :
         new[(c * H + k) + 1] = [metric |-> BestOf(paths, k).metric + D(c * H + k),
                                 bits   |-> Append(BestOf(paths, k).bits, c)]
  BY SelectIs
<1> HIDE DEF new, q, far
<1>9. new[u + 1].metric <= m + err /\ new[u + 1].bits = Append(paths[t + 1].bits, b)
  <2>1. new[u + 1] = [metric |-> paths[t + 1].metric + err, bits |-> Append(paths[t + 1].bits, b)]
    BY <1>2, <1>4, <1>8
  <2>2. paths[t + 1].metric <= m
    BY DEF Leads
  <2> QED BY <1>3, <1>7, <2>1, <2>2
<1>10. ASSUME NEW k \in 0 .. H - 1, k # q
       PROVE  o <= BestOf(paths, k).metric /\ BestOf(paths, k).metric \in Nat
  <2> HIDE DEF H
  <2>1. /\ 2 * k # t /\ 2 * k + 1 # t /\ (2 * k + 1) + 1 = 2 * k + 2
    BY <1>1, <1>10 DEF q
  <2>2. /\ 2 * k \in 0 .. 2 * H - 1 /\ 2 * k + 1 \in 0 .. 2 * H - 1
        /\ BestOf(paths, k) = IF paths[2 * k + 1].metric > paths[2 * k + 2].metric
                              THEN paths[2 * k + 2] ELSE paths[2 * k + 1]
        /\ BestOf(paths, k) \in Survivor
    BY BestIs DEF H
  <2>3. o <= paths[2 * k + 1].metric /\ o <= paths[(2 * k + 1) + 1].metric
    BY <2>1, <2>2 DEF Leads, H
  <2> QED BY <2>1, <2>2, <2>3 DEF Survivor
<1>11. ASSUME NEW r \in Nat, Flipped(code, r, u) PROVE D(r) = far
  BY <1>5, <1>11, FlippedDistance DEF far
<1>12. ASSUME NEW r \in 0 .. 2 * H - 1, r # u
       PROVE  FarOrAhead(new[r + 1].metric, o, far)
  <2>1. PICK c \in Bit, k \in 0 .. H - 1 : r = c * H + k
    BY RegisterIs
  <2>2. new[r + 1].metric = BestOf(paths, k).metric + D(r)
    <3> HIDE DEF H, D
    <3>1. new[(c * H + k) + 1] = [metric |-> BestOf(paths, k).metric + D(c * H + k),
                                  bits   |-> Append(BestOf(paths, k).bits, c)]
      BY <1>8
    <3> QED BY <2>1, <3>1
  <2>3. r \in Nat /\ D(r) \in Nat
    <3>1. r \in Nat
      BY <1>1
    <3> QED BY <3>1, DistanceType
  <2>4. CASE k # q
    <3>1. o <= BestOf(paths, k).metric /\ BestOf(paths, k).metric \in Nat
      BY <1>10, <2>4
    <3> HIDE DEF D
    <3>2. o <= new[r + 1].metric
      BY <2>2, <2>3, <3>1
    <3> QED BY <3>2 DEF FarOrAhead
  <2>5. CASE k = q
    <3>1. c # b
      BY <1>4, <1>12, <2>1, <2>5
    <3>2. ASSUME NEW j \in 1 .. code.rate PROVE Parity(r, code.taps[j]) # Parity(u, code.taps[j])
      <4>1. DifferOnlyAt(r, u, code.K - 1, code.taps[j])
        <5>1. q \in 0 .. Pow2[code.K - 1] - 1
          BY <1>1, <1>2
        <5>2. r = c * Pow2[code.K - 1] + q /\ u = b * Pow2[code.K - 1] + q
          BY <1>1, <1>4, <2>1, <2>5
        <5>3. code.taps[j] \subseteq 0 .. code.K - 1
          BY <1>6
        <5> QED BY <1>6, <3>1, <5>1, <5>2, <5>3, HighestPlace
      <4> QED BY <1>5, <1>6, <2>3, <4>1, ParityFlips
    <3>3. D(r) = far
      BY <1>11, <2>3, <3>2 DEF Flipped
    <3>4. BestOf(paths, k).metric \in Nat
      BY <1>2, <1>3, <2>5
    <3> HIDE DEF D
    <3>5. far <= new[r + 1].metric
      BY <1>7, <2>2, <3>3, <3>4
    <3> QED BY <3>5 DEF FarOrAhead
  <2> QED BY <2>4, <2>5
<1>13. ASSUME NEW r \in 0 .. 2 * H - 1, r # u, r \div 2 = u \div 2
       PROVE  o + far <= new[r + 1].metric
  <2>1. PICK c \in Bit, k \in 0 .. H - 1 : r = c * H + k
    BY RegisterIs
  <2>2. new[r + 1].metric = BestOf(paths, k).metric + D(r)
    <3> HIDE DEF H, D
    <3>1. new[(c * H + k) + 1] = [metric |-> BestOf(paths, k).metric + D(c * H + k),
                                  bits   |-> Append(BestOf(paths, k).bits, c)]
      BY <1>8
    <3> QED BY <2>1, <3>1
  <2>3. r \in Nat
    BY <1>1
  <2>4. k # q
    <3>1. ASSUME k = q PROVE FALSE
      <4>1. c # b /\ c \in 0 .. 1
        BY <1>4, <1>13, <2>1, <3>1, BitIs
      <4>2. H >= 2
        <5>1. code.K - 1 \in Nat \ {0} /\ (code.K - 1) - 1 \in Nat
          BY <1>6
        <5> DEFINE a == Pow2[(code.K - 1) - 1]
        <5>2. a \in Nat \ {0}
          BY <5>1, Pow2Type
        <5>3. H = 2 * a
          BY <1>1, <5>1, Pow2Before
        <5> HIDE DEF H, a
        <5> QED BY <5>2, <5>3
      <4> DEFINE x == r \div 2
                 y == r % 2
                 z == u % 2
      <4>3. r = 2 * x + y /\ u = 2 * x + z /\ x \in Nat /\ y \in 0 .. 1 /\ z \in 0 .. 1
        <5>1. r = 2 * (r \div 2) + (r % 2) /\ r \div 2 \in Nat /\ r % 2 \in 0 .. 1
          BY <2>3, Quotient
        <5>2. u = 2 * (u \div 2) + (u % 2) /\ u % 2 \in 0 .. 1
          BY ONLY <1>5, Quotient
        <5> QED BY <1>13, <5>1, <5>2
      <4> HIDE DEF x, y, z, H
      <4>4. CASE c = 0
        <5>1. r = q /\ u = H + q
          BY <1>1, <1>2, <1>4, <2>1, <3>1, <4>1, <4>4
        <5> QED BY <1>1, <1>2, <4>2, <4>3, <5>1
      <4>5. CASE c = 1
        <5>1. r = H + q /\ u = q
          BY <1>1, <1>2, <1>4, <2>1, <3>1, <4>1, <4>5
        <5> QED BY <1>1, <1>2, <4>2, <4>3, <5>1
      <4> QED BY <4>1, <4>4, <4>5
    <3> QED BY <3>1
  <2>5. o <= BestOf(paths, k).metric /\ BestOf(paths, k).metric \in Nat
    BY <1>10, <2>4
  <2>6. ASSUME NEW j \in 1 .. code.rate PROVE Parity(r, code.taps[j]) # Parity(u, code.taps[j])
    <3>1. DifferOnlyAt(r, u, 0, code.taps[j])
      BY <1>5, <1>6, <1>13, <2>3, LowestPlace
    <3> QED BY <1>5, <1>6, <2>3, <3>1, ParityFlips
  <2>7. D(r) = far
    BY <1>11, <2>3, <2>6 DEF Flipped
  <2> HIDE DEF D
  <2> QED BY <1>7, <2>2, <2>5, <2>7
<1> QED BY <1>5, <1>7, <1>9, <1>12, <1>13 DEF new, far, Turned

-----------------------------------------------------------------------------
(* The decoder's loop *)

Start(code) ==
    [s \in 1 .. 2 * Half(code) |-> [metric |-> IF s = 1 THEN 0 ELSE Infinite, bits |-> <<>>]]

Chunks(code, received) ==
    LET n    == Len(received) \div code.rate
        bits == SubSeq(received, 1, n * code.rate)
    IN  [i \in 1 .. n |-> SubSeq(bits, (i - 1) * code.rate + 1, i * code.rate)]

Ended(code, ends, n) ==
    LET least == Min({ends[s].metric : s \in DOMAIN ends})
        final == Min({s \in DOMAIN ends : ends[s].metric = least})
    IN  UpTo(ends[final].bits, n - (code.K - 1))

LEMMA StartIs ==
  ASSUME NEW code, CodeOK(code)
  PROVE  Start(code) \in Trellis(code) /\ Infinite \in Nat /\ Infinite >= 2
<1>1. Half(code) \in Nat \ {0}
  BY HalfIs
<1>2. Infinite \in Nat /\ Infinite >= 2
  <2>1. 29 \in Nat /\ 30 \in Nat \ {0} /\ 30 - 1 = 29
    OBVIOUS
  <2>2. Pow2[30] = 2 * Pow2[30 - 1] /\ Pow2[30 - 1] \in Nat \ {0}
    BY <2>1, Pow2Before
  <2> DEFINE a == Pow2[30 - 1]
             b == Pow2[30]
  <2>3. b = 2 * a /\ a \in Nat \ {0}
    BY <2>2
  <2> HIDE DEF a, b
  <2>4. b \in Nat /\ b >= 2
    BY <2>3
  <2> QED BY <2>4 DEF Infinite, b
<1> DEFINE e(s) == [metric |-> IF s = 1 THEN 0 ELSE Infinite, bits |-> <<>>]
           n == 2 * Half(code)
<1>3. n \in Nat
  BY <1>1
<1>4. \A s \in 1 .. n : e(s) \in Survivor
  <2>1. <<>> \in Seq(Bit)
    BY EmptySeq
  <2> QED BY <1>2, <2>1 DEF Survivor
<1>5. Start(code) = [s \in 1 .. n |-> e(s)]
  BY DEF Start
<1> HIDE DEF e, n
<1>6. Start(code) \in Seq(Survivor) /\ Len(Start(code)) = n
  BY <1>3, <1>4, <1>5
<1> QED BY <1>2, <1>6 DEF Trellis, n

Loop(paths, code, received, n) ==
    /\ paths[0] = Start(code)
    /\ \A k \in 1 .. n : paths[k] = Select(code, paths[k - 1], Chunks(code, received)[k])
    /\ \A k \in 0 .. n : paths[k] \in Trellis(code)

LEMMA TrellisPaths ==
  ASSUME NEW code, CodeOK(code), NEW received \in Seq(Bit),
         NEW n \in Nat, n = Len(received) \div code.rate
  PROVE  \E paths : /\ Loop(paths, code, received, n)
                    /\ ConvDecode(code, received) = Ended(code, paths[n], n)
<1> DEFINE S == Trellis(code)
           rx == Chunks(code, received)
           step == [q \in Nat \X S |-> Select(code, q[2], rx[q[1]])]
           Rec(g) == g = [k \in 0 .. n |-> IF k = 0 THEN Start(code) ELSE Select(code, g[k - 1], rx[k])]
           g == CHOOSE f : Rec(f)
<1>1. Start(code) \in S
  BY StartIs
<1>2. \A r \in S : \A x : Select(code, r, x) \in S
  BY SelectIs
<1>3. ConvDecode(code, received) = Ended(code, g[n], n)
  BY DEF ConvDecode, Ended, Chunks, Start
<1> HIDE DEF S, rx
<1>4. StepOn(step, S)
  BY <1>2 DEF StepOn
<1>5. \A k \in Nat, r \in S : step[<<k, r>>] = Select(code, r, rx[k])
  OBVIOUS
<1> HIDE DEF step
<1>6. PICK h : Iterated(h, n, S, Start(code), step)
  BY <1>1, <1>4, BoundedIteration
<1>7. Rec(h)
  <2>1. ASSUME NEW k \in 0 .. n
        PROVE  h[k] = IF k = 0 THEN Start(code) ELSE Select(code, h[k - 1], rx[k])
    <3>1. CASE k = 0
      BY <1>6, <3>1 DEF Iterated
    <3>2. CASE k # 0
      <4>1. k \in 1 .. n /\ k \in Nat /\ k - 1 \in 0 .. n
        BY <3>2
      <4> QED BY <1>5, <1>6, <3>2, <4>1 DEF Iterated
    <3> QED BY <3>1, <3>2
  <2>2. h = [k \in 0 .. n |-> h[k]]
    BY <1>6 DEF Iterated
  <2> QED BY <2>1, <2>2
<1>8. Rec(g)
  <2> HIDE DEF Rec
  <2> QED BY <1>7
<1> HIDE DEF g
<1>9. g[0] = Start(code) /\ \A k \in 1 .. n : g[k] = Select(code, g[k - 1], rx[k])
  BY <1>8
<1>10. \A k \in 1 .. n : g[k - 1] \in S => g[k] \in S
  BY <1>2, <1>9
<1>11. \A k \in 0 .. n : g[k] \in S
  BY <1>1, <1>9, <1>10, StaysIn
<1> QED BY <1>3, <1>9, <1>11 DEF S, rx, Loop

LEMMA ChunkIs ==
  ASSUME NEW code, CodeOK(code), NEW received \in Seq(Bit), NEW N \in Nat,
         Len(received) = N * code.rate
  PROVE  /\ Len(received) \div code.rate = N
         /\ \A i \in 1 .. N, j \in 1 .. code.rate :
               /\ (i - 1) * code.rate + j \in 1 .. Len(received)
               /\ Chunks(code, received)[i][j] = received[(i - 1) * code.rate + j]
               /\ Chunks(code, received)[i][j] \in Bit
<1> DEFINE d == code.rate
           all == SubSeq(received, 1, N * d)
<1>1. d \in Nat \ {0} /\ N * d \in Nat /\ Len(received) = N * d
  BY ProductNat DEF CodeOK
<1>2. (N * d) \div d = N
  <2> HIDE DEF d
  <2>1. 0 \in 0 .. d - 1 /\ N * d + 0 = N * d
    BY <1>1
  <2>2. (N * d + 0) \div d = N
    BY <1>1, <2>1, DivisionUnique
  <2> QED BY <2>1, <2>2
<1>3. /\ all \in Seq(Bit) /\ Len(all) = N * d
      /\ \A i \in 1 .. N * d : all[i] = received[i]
  <2>1. N * d \in 0 .. Len(received)
    BY <1>1
  <2> QED BY <2>1, FirstPart
<1>4. Chunks(code, received) = [i \in 1 .. N |-> SubSeq(all, (i - 1) * d + 1, i * d)]
  BY <1>1, <1>2 DEF Chunks
<1> HIDE DEF all
<1>5. ASSUME NEW i \in 1 .. N, NEW j \in 1 .. d
      PROVE  /\ (i - 1) * d + j \in 1 .. Len(received)
             /\ Chunks(code, received)[i][j] = received[(i - 1) * d + j]
             /\ Chunks(code, received)[i][j] \in Bit
  <2> DEFINE a == (i - 1) * d
             b == i * d
             k == (i - 1) * d + j
  <2>1. k \in 1 .. N * d
    BY <1>1, InPlaces
  <2>2. d \in 1 .. d /\ 1 \in 1 .. d
    BY <1>1
  <2>3. (i - 1) * d + d \in 1 .. N * d /\ (i - 1) * d + 1 \in 1 .. N * d
    BY <1>1, <2>2, InPlaces
  <2>4. a \in Nat /\ b = a + d /\ i - 1 \in Nat /\ i \in Nat
    <3>1. i - 1 \in Nat /\ i \in Nat
      OBVIOUS
    <3>2. a \in Nat
      BY <1>1, <3>1, ProductNat
    <3> QED BY <1>1, <3>1, <3>2
  <2>5. k = a + j /\ a + d \in 1 .. N * d /\ a + 1 \in 1 .. N * d
    BY <2>3
  <2> DEFINE M == N * d
  <2>6. M \in Nat /\ M = N * d
    BY <1>1
  <2> HIDE DEF a, b, k, d, M
  <2>7. a + 1 \in Int /\ b \in Int /\ j \in 1 .. b - (a + 1) + 1 /\ (a + 1) + j - 1 = k
        /\ a + 1 \in 1 .. M /\ b \in 1 .. M /\ \A x \in (a + 1) .. b : x \in 1 .. M
    BY <1>1, <2>4, <2>5, <2>6
  <2>8. \A x \in (a + 1) .. b : all[x] \in Bit
    BY <1>3, <2>6, <2>7, ElementOfSeq
  <2>9. SubSeq(all, a + 1, b)[j] = all[(a + 1) + j - 1]
    BY <2>7, <2>8, SubSeqProperties
  <2>10. Chunks(code, received)[i][j] = all[k]
    BY <1>4, <2>7, <2>9 DEF a, b, d
  <2>11. all[k] = received[k] /\ all[k] \in Bit /\ k \in 1 .. Len(received)
    BY <1>1, <1>3, <2>1, ElementOfSeq DEF k
  <2> QED BY <2>10, <2>11 DEF k
<1> QED BY <1>1, <1>2, <1>5

-----------------------------------------------------------------------------
(* What one error does to the distances *)

Noise(code, bits, received, i) ==
    Distance(Output(code, Register(code, Padded(code, bits), i)), Chunks(code, received)[i])

LEMMA Alone ==
  ASSUME NEW S, NEW x, S \subseteq {x}
  PROVE  IsFiniteSet(S) /\ Cardinality(S) <= 1 /\ Cardinality(S) \in Nat
<1>1. IsFiniteSet({x}) /\ Cardinality({x}) = 1
  BY FS_Singleton
<1>2. S \in SUBSET {x}
  OBVIOUS
<1>3. IsFiniteSet(S) /\ Cardinality(S) <= Cardinality({x})
  BY <1>1, <1>2, FS_Subset
<1> QED BY <1>1, <1>3, FS_CardinalityType

(* The error is in one chunk, and is one bit of it. *)
LEMMA OneNoisyChunk ==
  ASSUME NEW code, CodeOK(code), NEW bits \in Seq(Bit), NEW received, NEW e,
         NearAt(received, ConvEncode(code, bits), e),
         NEW N, N = Len(bits) + (code.K - 1)
  PROVE  /\ \A i \in 1 .. N : /\ Noise(code, bits, received, i) \in Nat
                              /\ Noise(code, bits, received, i) <= 1
         /\ \A i \in 1 .. N, k \in 1 .. N :
               Noise(code, bits, received, i) # 0 /\ Noise(code, bits, received, k) # 0 => i = k
<1> DEFINE d == code.rate
           coded == ConvEncode(code, bits)
           padded == Padded(code, bits)
           R(i) == Register(code, padded, i)
           rx == Chunks(code, received)
           noise(i) == Noise(code, bits, received, i)
           W(i) == {j \in 1 .. d : Output(code, R(i))[j] # rx[i][j]}
<1>1. /\ d \in Nat \ {0} /\ N \in Nat /\ padded \in Seq(Bit) /\ Len(padded) = N
  BY PaddedType DEF CodeOK
<1>2. received \in Seq(Bit) /\ Len(received) = N * d /\ Len(coded) = N * d
      /\ \A k \in 1 .. N * d : k # e => received[k] = coded[k]
  BY ConvEncodeType DEF NearAt
<1>3. ASSUME NEW i \in 1 .. N
      PROVE  /\ noise(i) = Cardinality(W(i)) /\ IsFiniteSet(W(i))
             /\ \A j \in W(i) : (i - 1) * d + j = e
  <2>1. i \in 0 .. Len(padded)
    BY <1>1
  <2>2. R(i) \in Nat
    BY <1>1, <2>1, RegisterType
  <2>3. noise(i) = Cardinality(W(i)) /\ IsFiniteSet(W(i))
    <3> DEFINE r == R(i)
               c == rx[i]
    <3>1. noise(i) = Distance(Output(code, r), c)
      BY DEF Noise
    <3>2. W(i) = {j \in 1 .. code.rate : Output(code, r)[j] # c[j]}
      OBVIOUS
    <3>3. r \in Nat
      BY <2>2
    <3> HIDE DEF noise, W, r, c
    <3>4. /\ Distance(Output(code, r), c) = Cardinality({j \in 1 .. code.rate : Output(code, r)[j] # c[j]})
          /\ IsFiniteSet({j \in 1 .. code.rate : Output(code, r)[j] # c[j]})
      BY <3>3, DistanceType
    <3> QED BY <3>1, <3>2, <3>4
  <2>4. ASSUME NEW j \in 1 .. d, (i - 1) * d + j # e PROVE Output(code, R(i))[j] = rx[i][j]
    <3>1. rx[i][j] = received[(i - 1) * d + j] /\ (i - 1) * d + j \in 1 .. N * d
      BY <1>1, <1>2, ChunkIs
    <3>2. Output(code, R(i))[j] = Parity(R(i), code.taps[j])
      BY <2>2, OutputType
    <3>3. coded[(i - 1) * d + j] = Parity(R(i), code.taps[j])
      BY ConvEncodeAt
    <3> QED BY <1>2, <2>4, <3>1, <3>2, <3>3
  <2> QED BY <2>3, <2>4
<1> HIDE DEF noise, W
<1>4. ASSUME NEW i \in 1 .. N PROVE noise(i) \in Nat /\ noise(i) <= 1
  <2>1. W(i) \subseteq 1 .. d
    BY DEF W
  <2>2. ASSUME NEW x \in W(i) PROVE W(i) \subseteq {x}
    <3>1. ASSUME NEW y \in W(i) PROVE y = x
      <4>1. (i - 1) * d + x = (i - 1) * d + y /\ x \in Int /\ y \in Int
        BY <1>3, <2>1
      <4> DEFINE a == (i - 1) * d
      <4>2. a \in Int
        BY <1>1, ProductInt
      <4> HIDE DEF a
      <4>3. a + x = a + y
        BY <4>1 DEF a
      <4> QED BY <4>1, <4>2, <4>3
    <3> QED BY <3>1
  <2>3. \E x : W(i) \subseteq {x}
    BY <2>2
  <2>4. Cardinality(W(i)) <= 1 /\ Cardinality(W(i)) \in Nat
    BY <2>3, Alone
  <2> QED BY <1>3, <2>4
<1>5. ASSUME NEW i \in 1 .. N, noise(i) # 0 PROVE \E j \in 1 .. d : e = (i - 1) * d + j
  <2>1. W(i) # {}
    <3>1. ASSUME W(i) = {} PROVE FALSE
      BY <1>3, <1>5, <3>1, FS_EmptySet
    <3> QED BY <3>1
  <2>2. W(i) \subseteq 1 .. d
    BY DEF W
  <2> QED BY <1>3, <2>1, <2>2
<1>6. ASSUME NEW i \in 1 .. N, NEW k \in 1 .. N, noise(i) # 0, noise(k) # 0 PROVE i = k
  <2>1. PICK j \in 1 .. d : e = (i - 1) * d + j
    BY <1>5, <1>6
  <2>2. PICK l \in 1 .. d : e = (k - 1) * d + l
    BY <1>5, <1>6
  <2>3. i \in Nat \ {0} /\ k \in Nat \ {0}
    BY <1>1
  <2> HIDE DEF d
  <2>4. (e - 1) \div d = i - 1
    BY <1>1, <2>1, <2>3, Place
  <2>5. (e - 1) \div d = k - 1
    <3>1. e = (k - 1) * d + l /\ d \in Nat \ {0} /\ k \in Nat \ {0} /\ l \in 1 .. d
      BY <1>1, <2>2, <2>3
    <3> QED BY ONLY <3>1, Place
  <2> QED BY <2>3, <2>4, <2>5
<1> QED BY <1>4, <1>6 DEF noise

-----------------------------------------------------------------------------
(* The decoder corrects a single error *)

(* At every place the encoder's register leads: by two while nothing is    *)
(* wrong, by one after the error, and by more where paths meet again.      *)
Correcting(code, bits, received, paths, i) ==
    LET padded == Padded(code, bits)
        r      == Register(code, padded, i)
        path   == paths[i][r + 1].bits
    IN  /\ r \in 0 .. 2 * Half(code) - 1
        /\ path \in Seq(Bit) /\ Len(path) = i /\ \A k \in 1 .. i : path[k] = padded[k]
        /\ \/ Leads(code, paths[i], r, 0, 2)
           \/ /\ Leads(code, paths[i], r, 1, 1)
              /\ \E k \in 1 .. i : Noise(code, bits, received, k) # 0

LEMMA CorrectingStart ==
  ASSUME NEW code, CodeOK(code), NEW bits \in Seq(Bit), NEW received,
         NEW paths, paths[0] = Start(code)
  PROVE  Correcting(code, bits, received, paths, 0)
<1> DEFINE H == Half(code)
           padded == Padded(code, bits)
<1>1. H \in Nat \ {0} /\ padded \in Seq(Bit)
  BY HalfIs, PaddedType
<1>2. Register(code, padded, 0) = 0
  BY <1>1, RegisterStart
<1>3. /\ 0 \in 0 .. 2 * H - 1 /\ 0 + 1 = 1 /\ 1 \in 1 .. 2 * H
      /\ \A r \in 0 .. 2 * H - 1 : r + 1 \in 1 .. 2 * H /\ (r # 0 => r + 1 # 1)
  BY <1>1
<1>4. Start(code) = [s \in 1 .. 2 * H |-> [metric |-> IF s = 1 THEN 0 ELSE Infinite, bits |-> <<>>]]
  BY DEF Start
<1> HIDE DEF H
<1>5. /\ paths[0][0 + 1].metric = 0 /\ paths[0][0 + 1].bits = <<>>
      /\ \A r \in 0 .. 2 * H - 1 : r # 0 => paths[0][r + 1].metric = Infinite
  BY <1>3, <1>4
<1>6. Infinite \in Nat /\ Infinite >= 2
  BY StartIs
<1>7. Leads(code, paths[0], 0, 0, 2)
  <2>1. 0 < Infinite /\ 2 <= Infinite
    BY <1>6
  <2> QED BY <1>5, <2>1 DEF Leads, H
<1>8. <<>> \in Seq(Bit) /\ Len(<<>>) = 0 /\ \A k \in 1 .. 0 : FALSE
  BY EmptySeq
<1> QED BY <1>2, <1>3, <1>5, <1>7, <1>8 DEF Correcting, H

(* What StepLeads says of the distances is a lead again. *)
LEMMA LeadsAgain ==
  ASSUME NEW code, CodeOK(code), TapsReach(code), code.cc, NEW new \in Trellis(code),
         NEW u, NEW err, err <= 1, NEW path, NEW b,
         NEW m \in Nat, NEW o \in Nat, (m = 0 /\ o = 2) \/ (m = 1 /\ o = 1 /\ err = 0),
         Turned(code, new, path, m, o, b, u, err)
  PROVE  Leads(code, new, u, m + err, o - err)
<1> DEFINE rate == code.rate
<1>1. rate \in Nat /\ rate > 1
  BY DEF TapsReach, CodeOK
<1> USE DEF Turned
<1>2. ASSUME NEW r \in 0 .. 2 * Half(code) - 1, r # u
      PROVE  /\ o - err <= new[r + 1].metric
             /\ r \div 2 = u \div 2 => m + err < new[r + 1].metric
  <2> DEFINE x == new[r + 1].metric
  <2>1. x \in Nat
    BY SurvivorOf
  <2>2. o <= x \/ rate - err <= x
    BY <1>2 DEF FarOrAhead
  <2>3. r \div 2 = u \div 2 => o + (rate - err) <= x
    BY <1>2
  <2> HIDE DEF x, rate
  <2>4. o - err <= x
    BY <1>1, <2>1, <2>2
  <2>5. ASSUME r \div 2 = u \div 2 PROVE m + err < x
    <3>1. o + (rate - err) <= x
      BY <2>3, <2>5
    <3>2. err \in Nat
      OBVIOUS
    <3> QED BY ONLY <1>1, <2>1, <3>1, <3>2, m \in Nat, o \in Nat, err <= 1,
                (m = 0 /\ o = 2) \/ (m = 1 /\ o = 1 /\ err = 0)
  <2> QED BY <2>4, <2>5 DEF x
<1> QED BY <1>2 DEF Leads

LEMMA CorrectingStep ==
  ASSUME NEW code, CodeOK(code), TapsReach(code), code.cc, NEW bits \in Seq(Bit),
         NEW received, NEW e, NearAt(received, ConvEncode(code, bits), e),
         NEW N, N = Len(bits) + (code.K - 1),
         NEW paths, Loop(paths, code, received, N), NEW i \in 0 .. N - 1,
         Correcting(code, bits, received, paths, i)
  PROVE  Correcting(code, bits, received, paths, i + 1)
<1> DEFINE padded == Padded(code, bits)
           t == Register(code, padded, i)
           u == Register(code, padded, i + 1)
           b == padded[i + 1]
           rx == Chunks(code, received)[i + 1]
           err == Noise(code, bits, received, i + 1)
           path == paths[i][t + 1].bits
           new == paths[i + 1]
           H == Half(code)
<1>1. N \in Nat /\ padded \in Seq(Bit) /\ Len(padded) = N /\ i + 1 \in 1 .. N /\ (i + 1) - 1 = i
      /\ i \in 0 .. N /\ i + 1 \in 0 .. N /\ i \in Nat
  <2>1. N \in Nat /\ padded \in Seq(Bit) /\ Len(padded) = N
    BY PaddedType
  <2> QED BY <2>1
<1>2. /\ t \in 0 .. 2 * H - 1 /\ path \in Seq(Bit) /\ Len(path) = i
      /\ \A k \in 1 .. i : path[k] = padded[k]
      /\ \/ Leads(code, paths[i], t, 0, 2)
         \/ /\ Leads(code, paths[i], t, 1, 1)
            /\ \E k \in 1 .. i : Noise(code, bits, received, k) # 0
  BY DEF Correcting
<1>3. paths[i] \in Trellis(code) /\ new \in Trellis(code) /\ new = Select(code, paths[i], rx)
  BY <1>1 DEF Loop
<1>4. b \in Bit
  BY <1>1, ElementOfSeq
<1>5. \A j \in 1 .. code.rate : rx[j] \in Bit
  <2>1. received \in Seq(Bit) /\ Len(received) = N * code.rate
    BY ConvEncodeType DEF NearAt
  <2> QED BY <1>1, <2>1, ChunkIs
<1>6. u = b * H + t \div 2
  <2>1. i + 1 \in 1 .. Len(padded)
    BY <1>1
  <2>2. Register(code, padded, i + 1) = padded[i + 1] * H + Register(code, padded, (i + 1) - 1) \div 2
    BY <1>1, <2>1, RegisterNext
  <2> QED BY <1>1, <2>2
<1>7. err = Distance(Output(code, u), rx)
  BY DEF Noise
<1>8. /\ err \in Nat /\ err <= 1
      /\ \A k \in 1 .. N : Noise(code, bits, received, k) # 0 /\ err # 0 => k = i + 1
  BY <1>1, OneNoisyChunk
<1> HIDE DEF t, u, b, rx, err, new, path, padded, H
<1>9. ASSUME NEW m \in Nat, NEW o \in Nat, Leads(code, paths[i], t, m, o),
             (m = 0 /\ o = 2) \/ (m = 1 /\ o = 1 /\ err = 0)
      PROVE  /\ u \in 0 .. 2 * H - 1
             /\ new[u + 1].bits = Append(path, b)
             /\ Leads(code, new, u, m + err, o - err)
  <2>1. Turn(code, paths[i], t, m, o, b, rx, u, err)
    BY <1>2, <1>3, <1>4, <1>5, <1>6, <1>7, <1>8, <1>9 DEF Turn, H
  <2>2. Turned(code, new, path, m, o, b, u, err)
    BY <1>3, <2>1, StepLeads DEF path
  <2>3. Leads(code, new, u, m + err, o - err)
    BY <1>3, <1>8, <1>9, <2>2, LeadsAgain
  <2> QED BY <2>2, <2>3 DEF Turned, H
<1>10. err = 0 \/ err = 1
  BY <1>8
<1>11. ASSUME \E k \in 1 .. i : Noise(code, bits, received, k) # 0 PROVE err = 0
  <2>1. PICK k \in 1 .. i : Noise(code, bits, received, k) # 0
    BY <1>11
  <2>2. k \in 1 .. N /\ k # i + 1
    BY <1>1, <2>1
  <2> QED BY <1>8, <2>1, <2>2
<1>12. /\ u \in 0 .. 2 * H - 1
       /\ new[u + 1].bits = Append(path, b)
       /\ \/ Leads(code, new, u, 0, 2)
          \/ /\ Leads(code, new, u, 1, 1)
             /\ \E k \in 1 .. i + 1 : Noise(code, bits, received, k) # 0
  <2>1. CASE Leads(code, paths[i], t, 0, 2)
    <3>1. /\ u \in 0 .. 2 * H - 1
          /\ new[u + 1].bits = Append(path, b)
          /\ Leads(code, new, u, 0 + err, 2 - err)
      BY <1>9, <2>1
    <3>2. CASE err = 0
      BY <3>1, <3>2
    <3>3. CASE err = 1
      <4>1. 0 + err = 1 /\ 2 - err = 1 /\ i + 1 \in 1 .. i + 1
        BY <1>1, <3>3
      <4>2. Noise(code, bits, received, i + 1) # 0
        BY <3>3 DEF err
      <4> QED BY <3>1, <4>1, <4>2
    <3> QED BY <1>10, <3>2, <3>3
  <2>2. CASE Leads(code, paths[i], t, 1, 1) /\ \E k \in 1 .. i : Noise(code, bits, received, k) # 0
    <3>1. err = 0
      BY <1>11, <2>2
    <3>2. /\ u \in 0 .. 2 * H - 1
          /\ new[u + 1].bits = Append(path, b)
          /\ Leads(code, new, u, 1 + err, 1 - err)
      BY <1>9, <2>2, <3>1
    <3>3. 1 + err = 1 /\ 1 - err = 1 /\ \A k \in 1 .. i : k \in 1 .. i + 1
      BY <1>1, <3>1
    <3> QED BY <2>2, <3>2, <3>3
  <2> QED BY <1>2, <2>1, <2>2
<1>13. /\ Append(path, b) \in Seq(Bit) /\ Len(Append(path, b)) = i + 1
       /\ \A k \in 1 .. i + 1 : Append(path, b)[k] = padded[k]
  <2>1. /\ Append(path, b) \in Seq(Bit) /\ Len(Append(path, b)) = i + 1
        /\ \A k \in 1 .. i : Append(path, b)[k] = path[k]
        /\ Append(path, b)[i + 1] = b
    BY <1>2, <1>4, AppendProperties
  <2>2. ASSUME NEW k \in 1 .. i + 1 PROVE Append(path, b)[k] = padded[k]
    <3>1. k = i + 1 \/ k \in 1 .. i
      BY <1>1
    <3>2. CASE k = i + 1
      BY <2>1, <3>2 DEF b
    <3>3. CASE k \in 1 .. i
      BY <1>2, <2>1, <3>3
    <3> QED BY <3>1, <3>2, <3>3
  <2> QED BY <2>1, <2>2
<1> QED BY <1>12, <1>13 DEF Correcting, u, new, padded, H

LEMMA CorrectingAlways ==
  ASSUME NEW code, CodeOK(code), TapsReach(code), code.cc, NEW bits \in Seq(Bit),
         NEW received, NEW e, NearAt(received, ConvEncode(code, bits), e),
         NEW N, N = Len(bits) + (code.K - 1),
         NEW paths, Loop(paths, code, received, N)
  PROVE  Correcting(code, bits, received, paths, N)
<1> DEFINE T == {i \in 0 .. N : Correcting(code, bits, received, paths, i)}
<1>1. N \in Nat
  BY PaddedType
<1>2. 0 \in T
  BY <1>1, CorrectingStart DEF Loop
<1>3. ASSUME NEW i \in 0 .. N - 1, i \in T PROVE i + 1 \in T
  <2>1. Correcting(code, bits, received, paths, i)
    BY <1>3
  <2>2. Correcting(code, bits, received, paths, i + 1)
    BY <2>1, CorrectingStep
  <2> QED BY <1>1, <2>2
<1> HIDE DEF T
<1>4. 0 .. N \subseteq T
  BY <1>1, <1>2, <1>3, BoundedInduction
<1> QED BY <1>1, <1>4 DEF T

(* The register that leads at the end is a zero in all places but one, and *)
(* the first of the nearest ones.                                          *)
LEMMA LeaderEnds ==
  ASSUME NEW code, CodeOK(code), NEW ends \in Trellis(code), NEW n,
         NEW r \in 0 .. 1, r \in 0 .. 2 * Half(code) - 1,
         NEW m \in Nat, NEW o \in Nat, Leads(code, ends, r, m, o), m <= o
  PROVE  Ended(code, ends, n) = UpTo(ends[r + 1].bits, n - (code.K - 1))
<1> DEFINE H == Half(code)
           D == DOMAIN ends
           M == {ends[s].metric : s \in D}
           least == ends[r + 1].metric
           F == {s \in D : ends[s].metric = least}
<1>1. H \in Nat \ {0}
  BY HalfIs
<1>2. D = 1 .. 2 * H
  BY LenProperties DEF Trellis
<1>3. ASSUME NEW s \in D
      PROVE  /\ s \in Nat \ {0} /\ s - 1 \in 0 .. 2 * H - 1 /\ (s - 1) + 1 = s
             /\ ends[s].metric \in Nat
  <2>1. s \in Nat \ {0} /\ s - 1 \in 0 .. 2 * H - 1 /\ (s - 1) + 1 = s
    BY <1>1, <1>2
  <2> QED BY <2>1, SurvivorOf
<1>4. r + 1 \in D /\ (r + 1) - 1 = r
  BY <1>1, <1>2
<1>5. least \in Nat /\ least <= m
  BY SurvivorOf DEF Leads
<1> HIDE DEF H
<1>6. ASSUME NEW s \in D PROVE least <= ends[s].metric
  <2>1. CASE s - 1 = r
    BY <1>3, <1>4, <1>5, <2>1
  <2>2. CASE s - 1 # r
    <3>1. o <= ends[(s - 1) + 1].metric
      BY <1>3, <2>2 DEF Leads, H
    <3> QED BY <1>3, <1>5, <3>1
  <2> QED BY <2>1, <2>2
<1>7. Min(M) = least
  <2>1. M \subseteq Int /\ least \in M
    BY <1>3, <1>4
  <2>2. \A x \in M : least <= x
    BY <1>6
  <2> HIDE DEF M, least
  <2> QED BY <2>1, <2>2, MinIs
<1>8. Min(F) = r + 1
  <2>1. F \subseteq Int /\ r + 1 \in F
    BY <1>3, <1>4
  <2>2. ASSUME NEW s \in F PROVE r + 1 <= s
    <3>1. s \in D /\ ends[s].metric = least
      OBVIOUS
    <3>2. ASSUME s < r + 1 PROVE FALSE
      <4>1. r = 1 /\ s = 1
        BY <1>3, <3>1, <3>2
      <4>2. 0 \in 0 .. 2 * H - 1 /\ 0 # r /\ 0 \div 2 = r \div 2 /\ 0 + 1 = s
        BY <1>1, <4>1
      <4>3. m < ends[0 + 1].metric
        BY <4>2 DEF Leads, H
      <4>4. ends[0 + 1].metric = least
        BY <3>1, <4>2
      <4>5. m < least
        BY <4>3, <4>4
      <4> HIDE DEF least
      <4> QED BY <1>5, <4>5
    <3> QED BY <1>3, <1>4, <3>1, <3>2
  <2> HIDE DEF F
  <2> QED BY <2>1, <2>2, MinIs
<1>9. Ended(code, ends, n) = UpTo(ends[Min({s \in D : ends[s].metric = Min(M)})].bits, n - (code.K - 1))
  BY DEF Ended
<1>10. {s \in D : ends[s].metric = Min(M)} = F
  BY <1>7
<1> HIDE DEF F, M, D
<1> QED BY <1>8, <1>9, <1>10

LEMMA UpToIs ==
  ASSUME NEW S, NEW s \in Seq(S), NEW n \in 0 .. Len(s)
  PROVE  UpTo(s, n) = SubSeq(s, 1, n)
<1>1. Len(s) \in Nat
  BY LenProperties
<1>2. Min({n, Len(s)}) = n
  <2>1. {n, Len(s)} \subseteq Int /\ n \in {n, Len(s)} /\ \A x \in {n, Len(s)} : n <= x
    BY <1>1
  <2> QED BY <2>1, MinIs
<1>3. n >= 0
  BY <1>1
<1>4. UpTo(s, n) = SubSeq(s, 1, IF n >= 0 THEN Min({n, Len(s)}) ELSE Max({0, Len(s) + n}))
  BY DEF UpTo
<1> QED BY <1>2, <1>3, <1>4

(* With taps at both ends of the register the decoder undoes the encoder,  *)
(* also when one of the coded bits is wrong.                               *)
THEOREM ViterbiCorrects ==
  ASSUME NEW code, CodeOK(code), TapsReach(code), code.cc, NEW bits \in Seq(Bit),
         NEW received, NEW e, NearAt(received, ConvEncode(code, bits), e)
  PROVE  ConvDecode(code, received) = bits
<1> DEFINE N == Len(bits) + (code.K - 1)
           padded == Padded(code, bits)
           r == Register(code, padded, N)
<1>1. /\ N \in Nat /\ padded \in Seq(Bit) /\ Len(padded) = N /\ Len(bits) \in Nat
      /\ N - (code.K - 1) = Len(bits) /\ Len(bits) \in 0 .. N
  <2>1. N \in Nat /\ padded \in Seq(Bit) /\ Len(padded) = N /\ Len(bits) \in Nat
    <3>1. Len(bits) \in Nat
      BY LenProperties
    <3> QED BY <3>1, PaddedType
  <2>2. code.K \in Nat \ {0}
    BY DEF CodeOK
  <2> DEFINE K == code.K
             len == Len(bits)
  <2> HIDE DEF K, len
  <2>3. (len + (K - 1)) - (K - 1) = len /\ len \in 0 .. len + (K - 1)
    <3>1. len \in Nat /\ K \in Nat \ {0}
      BY <2>1, <2>2 DEF K, len
    <3> QED BY <3>1
  <2> QED BY <2>1, <2>3 DEF K, len
<1>2. received \in Seq(Bit) /\ Len(received) = N * code.rate
  BY ConvEncodeType DEF NearAt
<1>3. Len(received) \div code.rate = N
  BY <1>1, <1>2, ChunkIs
<1>4. PICK paths : /\ Loop(paths, code, received, N)
                   /\ ConvDecode(code, received) = Ended(code, paths[N], N)
  BY <1>1, <1>2, <1>3, TrellisPaths
<1>5. Correcting(code, bits, received, paths, N)
  BY <1>4, CorrectingAlways
<1> DEFINE path == paths[N][r + 1].bits
<1>6. /\ r \in 0 .. 2 * Half(code) - 1
      /\ path \in Seq(Bit) /\ Len(path) = N /\ \A k \in 1 .. N : path[k] = padded[k]
      /\ Leads(code, paths[N], r, 0, 2) \/ Leads(code, paths[N], r, 1, 1)
  BY <1>5 DEF Correcting
<1>7. r \in 0 .. 1
  BY RegisterEnd
<1>8. paths[N] \in Trellis(code)
  BY <1>1, <1>4 DEF Loop
<1>9. padded = [i \in 1 .. N |-> IF i <= Len(bits) THEN bits[i] ELSE 0]
  BY DEF Padded
<1> HIDE DEF N, r, padded
<1>10. Ended(code, paths[N], N) = UpTo(path, N - (code.K - 1))
  <2>1. CASE Leads(code, paths[N], r, 0, 2)
    <3>1. 0 \in Nat /\ 2 \in Nat /\ 0 <= 2
      OBVIOUS
    <3> QED BY <1>6, <1>7, <1>8, <2>1, <3>1, LeaderEnds
  <2>2. CASE Leads(code, paths[N], r, 1, 1)
    <3>1. 1 \in Nat /\ 1 <= 1
      OBVIOUS
    <3> QED BY <1>6, <1>7, <1>8, <2>2, <3>1, LeaderEnds
  <2> QED BY <1>6, <2>1, <2>2
<1> HIDE DEF path
<1>11. UpTo(path, Len(bits)) = SubSeq(path, 1, Len(bits))
  BY <1>1, <1>6, UpToIs
<1>12. /\ SubSeq(path, 1, Len(bits)) \in Seq(Bit) /\ Len(SubSeq(path, 1, Len(bits))) = Len(bits)
       /\ \A i \in 1 .. Len(bits) : SubSeq(path, 1, Len(bits))[i] = path[i]
  BY <1>1, <1>6, FirstPart
<1>13. ASSUME NEW i \in 1 .. Len(bits) PROVE path[i] = bits[i]
  BY <1>1, <1>6, <1>9
<1>14. SubSeq(path, 1, Len(bits)) = bits
  BY <1>12, <1>13, SeqEqual
<1> QED BY <1>1, <1>4, <1>10, <1>11, <1>14

-----------------------------------------------------------------------------
(* The payload region *)

(* What is decoded from an encoded region, as it was sent or, when it is   *)
(* convolutionally coded, with a single error in it, is the region.        *)
LEMMA RegionDecoded ==
  ASSUME NEW p, ProfileOK(p), TapsReach(p.fec), NEW region \in Seq(Byte),
         Divides(p.rows, Len(Coded(p, region))),
         NEW r, NEW e, NearAt(r, EncodeRegion(p, region), e),
         r = EncodeRegion(p, region) \/ p.fec.cc
  PROVE  DecodeRegion(p, r) = region
<1> DEFINE coded == Coded(p, region)
           rows == p.rows
           M == MatrixInterleave(coded, rows)
           E == EncodeRegion(p, region)
           back == MatrixDeinterleave(Whiten(p, r), rows)
           data == BytesToBits(region)
<1>1. coded \in Seq(Bit) /\ rows \in Nat \ {0} /\ CodeOK(p.fec)
  BY CodedType DEF ProfileOK
<1>2. M \in Seq(Bit) /\ Len(M) = Len(coded)
  BY <1>1, InterleaveType
<1>3. E = Whiten(p, M)
  BY DEF EncodeRegion
<1>4. Whiten(p, E) = M
  BY <1>2, <1>3, WhitenTwice
<1>5. MatrixDeinterleave(M, rows) = coded
  BY <1>1, DeinterleaveInverts
<1>6. region \in Seq(Nat) /\ data \in Seq(Bit) /\ BitsToBytes(data) = region
  BY BytesAreNumbers, BytesToBitsType, BytesRoundTrip
<1>7. coded = IF p.fec.enabled THEN IF p.fec.cc THEN ConvEncode(p.fec, data) ELSE data ELSE data
  BY DEF Coded, FecEncode
<1>8. p.fec.cc => p.fec.enabled
  BY <1>1 DEF CodeOK
<1>9. DecodeRegion(p, r) = IF p.fec.enabled
                           THEN BitsToBytes(IF p.fec.cc THEN ConvDecode(p.fec, back) ELSE back)
                           ELSE BitsToBytes(back)
  BY DEF DecodeRegion, FecDecode
<1>10. CASE ~ p.fec.cc
  <2>1. back = coded
    BY <1>4, <1>5, <1>10
  <2> QED BY <1>6, <1>7, <1>9, <1>10, <2>1
<1>11. CASE p.fec.cc
  <2>1. NearAt(Whiten(p, r), M, e)
    BY <1>4, WhitenNear
  <2>2. \E f : NearAt(back, coded, f)
    BY <1>1, <1>2, <1>5, <2>1, DeinterleaveNear
  <2>3. ConvDecode(p.fec, back) = data
    BY <1>1, <1>6, <1>7, <1>8, <1>11, <2>2, ViterbiCorrects
  <2> QED BY <1>6, <1>8, <1>9, <1>11, <2>3
<1> QED BY <1>10, <1>11

-----------------------------------------------------------------------------
(* The sync word *)

SyncWindows(p, bits) == 0 .. Len(bits) - Len(p.sync)

SyncHits(p, bits, w, i) == {k \in 1 .. Len(p.sync) : (bits[w + k] = p.sync[k]) = i}

LEMMA SyncDistanceIs ==
  ASSUME NEW p, ProfileOK(p), NEW bits, NEW w, NEW i
  PROVE  /\ SyncDistance(p, bits, w, i) \in Nat
         /\ SyncDistance(p, bits, w, i) = Cardinality(SyncHits(p, bits, w, i))
         /\ IsFiniteSet(SyncHits(p, bits, w, i))
<1> DEFINE D == SyncHits(p, bits, w, i)
<1>1. Len(p.sync) \in Nat
  BY LenProperties DEF ProfileOK
<1>2. IsFiniteSet(1 .. Len(p.sync))
  BY <1>1, FS_Interval
<1>3. D \in SUBSET (1 .. Len(p.sync))
  BY DEF SyncHits
<1>4. SyncDistance(p, bits, w, i) = Cardinality(D)
  BY DEF SyncDistance, SyncHits
<1> HIDE DEF D
<1>5. IsFiniteSet(D)
  BY <1>2, <1>3, FS_Subset
<1> QED BY <1>4, <1>5, FS_CardinalityType DEF D

(* Two streams have the same bits in a window, but perhaps at place e.     *)
SameWindow(p, a, b, w, e) == \A k \in 1 .. Len(p.sync) : w + k # e => a[w + k] = b[w + k]

Elsewhere(p, w, e) == \A k \in 1 .. Len(p.sync) : w + k # e

LEMMA SyncSame ==
  ASSUME NEW p, NEW a, NEW b, NEW w, NEW i, NEW e,
         SameWindow(p, a, b, w, e), Elsewhere(p, w, e)
  PROVE  SyncDistance(p, a, w, i) = SyncDistance(p, b, w, i)
<1>1. {k \in 1 .. Len(p.sync) : (a[w + k] = p.sync[k]) = i}
        = {k \in 1 .. Len(p.sync) : (b[w + k] = p.sync[k]) = i}
  BY DEF SameWindow, Elsewhere
<1> QED BY <1>1 DEF SyncDistance

(* An error in one place changes a distance by no more than one. *)
LEMMA SyncAlmost ==
  ASSUME NEW p, ProfileOK(p), NEW a, NEW b, NEW w \in Int, NEW i, NEW e \in Int,
         SameWindow(p, a, b, w, e)
  PROVE  SyncDistance(p, a, w, i) <= SyncDistance(p, b, w, i) + 1
<1> DEFINE A == SyncHits(p, a, w, i)
           B == SyncHits(p, b, w, i)
           x == e - w
<1>1. SyncDistance(p, a, w, i) = Cardinality(A) /\ SyncDistance(p, b, w, i) = Cardinality(B)
  BY SyncDistanceIs
<1>2. IsFiniteSet(A) /\ IsFiniteSet(B)
  BY SyncDistanceIs
<1>3. A \subseteq B \cup {x}
  <2>1. ASSUME NEW k \in A, k # x PROVE k \in B
    <3>1. k \in 1 .. Len(p.sync) /\ (a[w + k] = p.sync[k]) = i
      BY DEF SyncHits
    <3>2. w + k # e
      <4>1. k \in Int /\ Len(p.sync) \in Int
        BY <3>1, LenProperties DEF ProfileOK
      <4> HIDE DEF A, B
      <4> QED BY <2>1, <4>1
    <3>3. a[w + k] = b[w + k]
      BY <3>1, <3>2 DEF SameWindow
    <3> QED BY <3>1, <3>3 DEF SyncHits
  <2> QED BY <2>1
<1> HIDE DEF A, B, x
<1>4. IsFiniteSet(B \cup {x}) /\ Cardinality(B \cup {x}) <= Cardinality(B) + 1
  <2>1. /\ IsFiniteSet(B \cup {x})
        /\ Cardinality(B \cup {x}) = IF x \in B THEN Cardinality(B) ELSE Cardinality(B) + 1
    BY <1>2, FS_AddElement
  <2>2. Cardinality(B) \in Nat
    BY <1>2, FS_CardinalityType
  <2> QED BY <2>1, <2>2
<1>5. A \in SUBSET (B \cup {x})
  BY <1>3
<1>6. Cardinality(A) <= Cardinality(B \cup {x})
  BY <1>4, <1>5, FS_Subset
<1>7. Cardinality(A) \in Nat /\ Cardinality(B) \in Nat /\ Cardinality(B \cup {x}) \in Nat
  BY <1>2, <1>4, FS_CardinalityType
<1> QED BY <1>1, <1>4, <1>6, <1>7

(* A stream of the other polarity is as far from the sync word as the      *)
(* stream from its inverse.                                                *)
LEMMA SyncInverse ==
  ASSUME NEW p, ProfileOK(p), NEW bits \in Seq(Bit), NEW w \in SyncWindows(p, bits), NEW i \in BOOLEAN
  PROVE  SyncDistance(p, Inverse1(bits), w, i) = SyncDistance(p, bits, w, ~ i)
<1> DEFINE n == Len(p.sync)
           len == Len(bits)
<1>1. n \in Nat /\ len \in Nat /\ w \in 0 .. len - n
  BY LenProperties DEF ProfileOK, SyncWindows
<1>2. Inverse1(bits) = [k \in 1 .. len |-> 1 - bits[k]]
  BY DEF Inverse1
<1>3. ASSUME NEW k \in 1 .. n
      PROVE  (Inverse1(bits)[w + k] = p.sync[k]) = i <=> (bits[w + k] = p.sync[k]) = ~ i
  <2> HIDE DEF n, len
  <2>1. w + k \in 1 .. len
    BY <1>1
  <2>2. bits[w + k] \in Bit /\ p.sync[k] \in Bit
    BY <2>1, ElementOfSeq DEF len, n, ProfileOK
  <2>3. Inverse1(bits)[w + k] = 1 - bits[w + k]
    BY <1>2, <2>1
  <2> DEFINE x == bits[w + k]
             y == p.sync[k]
  <2>4. (1 - x = y) <=> ~ (x = y)
    <3>1. x \in {0, 1} /\ y \in {0, 1}
      BY <2>2 DEF Bit
    <3> HIDE DEF x, y
    <3> QED BY <3>1
  <2> HIDE DEF x, y
  <2> QED BY <2>3, <2>4 DEF x, y
<1>4. {k \in 1 .. n : (Inverse1(bits)[w + k] = p.sync[k]) = i}
        = {k \in 1 .. n : (bits[w + k] = p.sync[k]) = ~ i}
  BY <1>3
<1> QED BY <1>4 DEF SyncDistance

(* The two polarities of a window share the bits of the sync word. *)
LEMMA SyncOpposite ==
  ASSUME NEW p, ProfileOK(p), NEW bits, NEW w
  PROVE  SyncDistance(p, bits, w, FALSE) + SyncDistance(p, bits, w, TRUE) = Len(p.sync)
<1> DEFINE n == Len(p.sync)
           I == 1 .. n
           F == SyncHits(p, bits, w, FALSE)
           T == SyncHits(p, bits, w, TRUE)
<1>1. n \in Nat
  BY LenProperties DEF ProfileOK
<1>2. SyncDistance(p, bits, w, FALSE) = Cardinality(F) /\ SyncDistance(p, bits, w, TRUE) = Cardinality(T)
  BY SyncDistanceIs
<1>3. IsFiniteSet(F) /\ IsFiniteSet(T)
  BY SyncDistanceIs
<1>4. T = I \ F /\ I \cap F = F
  BY DEF SyncHits
<1>5. IsFiniteSet(I) /\ Cardinality(I) = n
  <2> HIDE DEF n
  <2>1. 1 \in Int /\ n \in Int /\ ~ (1 > n) => n - 1 + 1 = n
    BY <1>1
  <2>2. IsFiniteSet(1 .. n) /\ Cardinality(1 .. n) = IF 1 > n THEN 0 ELSE n - 1 + 1
    BY <1>1, FS_Interval
  <2> QED BY <1>1, <2>2
<1> HIDE DEF F, T, I
<1>6. Cardinality(I \ F) = Cardinality(I) - Cardinality(I \cap F)
  BY <1>3, <1>5, FS_Difference
<1>7. Cardinality(F) \in Nat
  BY <1>3, FS_CardinalityType
<1> DEFINE x == Cardinality(F)
           y == Cardinality(T)
<1>8. y = n - x /\ x \in Nat
  BY <1>4, <1>5, <1>6, <1>7
<1> HIDE DEF n, x, y
<1>9. x + y = n
  BY <1>1, <1>8
<1> QED BY <1>2, <1>9 DEF n, x, y

-----------------------------------------------------------------------------
(* _find_sync *)

SyncDistances(p, bits) ==
    [w \in SyncWindows(p, bits) \X Polarities(p) |-> SyncDistance(p, bits, w[1], w[2])]

SyncNear(p, bits) ==
    {d \in Tolerated(p) : \E w \in DOMAIN SyncDistances(p, bits) : SyncDistances(p, bits)[w] = d}

SyncBest(p, bits) ==
    {w \in DOMAIN SyncDistances(p, bits) : SyncDistances(p, bits)[w] = Min(SyncNear(p, bits))}

LEMMA FindSyncIs ==
  ASSUME NEW p, NEW bits
  PROVE  FindSync(p, bits)
           = IF SyncNear(p, bits) = {} THEN [index |-> 0 - 1, inverted |-> FALSE]
             ELSE [index |-> Min({w[1] : w \in SyncBest(p, bits)}),
                   inverted |-> <<Min({w[1] : w \in SyncBest(p, bits)}), FALSE>> \notin SyncBest(p, bits)]
<1>1. 0 - 1 = -1
  OBVIOUS
<1> QED BY <1>1 DEF FindSync, SyncDistances, SyncWindows, SyncNear, SyncBest

(* Window at, in polarity v, is the one that is found: none is closer, no  *)
(* earlier one is as close, and it is not as close upright if v inverts.   *)
Found(p, bits, at, v) ==
    LET d == SyncDistance(p, bits, at, v)
    IN  /\ at \in SyncWindows(p, bits) /\ v \in Polarities(p) /\ d \in Tolerated(p)
        /\ \A w \in SyncWindows(p, bits), i \in Polarities(p) :
              /\ d <= SyncDistance(p, bits, w, i)
              /\ w < at => d < SyncDistance(p, bits, w, i)
        /\ v => d < SyncDistance(p, bits, at, FALSE)

LEMMA SyncFound ==
  ASSUME NEW p, ProfileOK(p), NEW bits \in Seq(Bit), NEW at, NEW v, Found(p, bits, at, v)
  PROVE  FindSync(p, bits) = [index |-> at, inverted |-> v]
<1> DEFINE W == SyncWindows(p, bits)
           P == Polarities(p)
           f == SyncDistances(p, bits)
           near == SyncNear(p, bits)
           best == SyncBest(p, bits)
           firsts == {w[1] : w \in best}
           d0 == SyncDistance(p, bits, at, v)
           SD(w, i) == SyncDistance(p, bits, w, i)
<1>1. /\ at \in W /\ v \in P /\ d0 \in Tolerated(p)
      /\ \A w \in W, i \in P : d0 <= SD(w, i) /\ (w < at => d0 < SD(w, i))
      /\ v => d0 < SD(at, FALSE)
  BY DEF Found
<1>2. /\ Tolerated(p) \subseteq Int /\ W \subseteq Int /\ P \subseteq BOOLEAN /\ FALSE \in P
      /\ d0 \in Nat /\ \A w \in W, i \in P : SD(w, i) \in Nat
  <2>1. Tolerated(p) \subseteq Int /\ W \subseteq Int
    BY DEF Tolerated, SyncWindows
  <2>2. P \subseteq BOOLEAN /\ FALSE \in P
    BY DEF Polarities
  <2>3. d0 \in Nat /\ \A w \in W, i \in P : SD(w, i) \in Nat
    BY SyncDistanceIs
  <2> QED BY <2>1, <2>2, <2>3
<1>3. DOMAIN f = W \X P /\ \A w \in W, i \in P : f[<<w, i>>] = SD(w, i)
  BY DEF SyncDistances
<1>4. FindSync(p, bits) = IF near = {} THEN [index |-> 0 - 1, inverted |-> FALSE]
                          ELSE [index |-> Min(firsts), inverted |-> <<Min(firsts), FALSE>> \notin best]
  BY FindSyncIs
<1>0. /\ near = {d \in Tolerated(p) : \E w \in DOMAIN f : f[w] = d}
      /\ best = {w \in DOMAIN f : f[w] = Min(near)}
  BY DEF SyncNear, SyncBest
<1> HIDE DEF f, d0, W, P, SD, near, best
<1>5. Min(near) = d0 /\ near # {}
  <2>1. d0 \in near
    <3>1. <<at, v>> \in DOMAIN f /\ f[<<at, v>>] = d0
      BY <1>1, <1>3 DEF d0, SD
    <3> QED BY <1>0, <1>1, <3>1
  <2>2. near \subseteq Int
    BY <1>0, <1>2
  <2>3. ASSUME NEW d \in near PROVE d0 <= d
    <3>1. PICK w \in DOMAIN f : f[w] = d
      BY <1>0
    <3>2. PICK x \in W, i \in P : w = <<x, i>>
      BY <1>3, <3>1
    <3> QED BY <1>1, <1>3, <3>1, <3>2
  <2> QED BY <2>1, <2>2, <2>3, MinIs
<1>6. ASSUME NEW x \in W, NEW i \in P PROVE <<x, i>> \in best <=> SD(x, i) = d0
  BY <1>0, <1>3, <1>5, <1>6
<1>7. ASSUME NEW w \in best PROVE \E x \in W, i \in P : w = <<x, i>> /\ SD(x, i) = d0
  <2>1. w \in DOMAIN f /\ f[w] = d0
    BY <1>0, <1>5
  <2>2. PICK x \in W, i \in P : w = <<x, i>>
    BY <1>3, <2>1
  <2> QED BY <1>3, <2>1, <2>2
<1>8. <<at, v>> \in best
  BY <1>1, <1>6 DEF d0, SD
<1>9. Min(firsts) = at
  <2>1. at \in firsts
    <3>1. <<at, v>>[1] = at
      OBVIOUS
    <3> QED BY <1>8, <3>1
  <2>2. ASSUME NEW x \in firsts PROVE x \in W /\ at <= x
    <3>1. PICK w \in best : x = w[1]
      OBVIOUS
    <3>2. PICK y \in W, i \in P : w = <<y, i>> /\ SD(y, i) = d0
      BY <1>7
    <3>3. x = y
      BY <3>1, <3>2
    <3>4. ~ (y < at)
      BY <1>1, <1>2, <3>2
    <3> QED BY <1>1, <1>2, <3>3, <3>4
  <2>3. firsts \subseteq Int
    BY <1>2, <2>2
  <2> HIDE DEF firsts
  <2> QED BY <2>1, <2>2, <2>3, MinIs
<1>10. (<<at, FALSE>> \notin best) = v
  <2>1. <<at, FALSE>> \in best <=> SD(at, FALSE) = d0
    BY <1>1, <1>2, <1>6
  <2>2. v \in BOOLEAN
    BY <1>1, <1>2
  <2>3. CASE v = TRUE
    <3>1. d0 < SD(at, FALSE) /\ SD(at, FALSE) \in Nat
      BY <1>1, <1>2, <2>3
    <3>2. SD(at, FALSE) # d0
      <4> DEFINE x == SD(at, FALSE)
      <4>1. d0 < x /\ x \in Nat /\ d0 \in Nat
        BY <1>2, <3>1
      <4> HIDE DEF x
      <4>2. x # d0
        BY ONLY <4>1
      <4> QED BY <4>2 DEF x
    <3> QED BY <2>1, <2>3, <3>2
  <2>4. CASE v = FALSE
    <3>1. SD(at, FALSE) = d0
      BY <2>4 DEF SD, d0
    <3> QED BY <2>1, <2>4, <3>1
  <2> QED BY <2>2, <2>3, <2>4
<1> HIDE DEF firsts
<1> QED BY <1>4, <1>5, <1>9, <1>10

LEMMA SyncMissed ==
  ASSUME NEW p, NEW bits,
         \A w \in SyncWindows(p, bits), i \in Polarities(p) : SyncDistance(p, bits, w, i) \notin Tolerated(p)
  PROVE  FindSync(p, bits).index = 0 - 1
<1>1. SyncNear(p, bits) = {}
  <2>1. ASSUME NEW w \in DOMAIN SyncDistances(p, bits) PROVE SyncDistances(p, bits)[w] \notin Tolerated(p)
    <3>1. PICK x \in SyncWindows(p, bits), i \in Polarities(p) : w = <<x, i>>
      BY DEF SyncDistances
    <3> QED BY <3>1 DEF SyncDistances
  <2> QED BY <2>1 DEF SyncNear
<1> QED BY <1>1, FindSyncIs

-----------------------------------------------------------------------------
(* A frame starts with its preamble and sync word.                         *)
StartsAs(p, a, e) ==
    /\ a \in Seq(Bit) /\ Len(p.preamble) + Len(p.sync) <= Len(a)
    /\ \A k \in 1 .. Len(p.preamble) + Len(p.sync) : k # e => a[k] = (p.preamble \o p.sync)[k]

LEMMA SyncSizes ==
  ASSUME NEW p, ProfileOK(p)
  PROVE  /\ Len(p.preamble) \in Nat /\ Len(p.sync) \in Nat
         /\ \A k \in 1 .. Len(p.sync) : (p.preamble \o p.sync)[Len(p.preamble) + k] = p.sync[k]
<1> DEFINE n == Len(p.preamble)
           m == Len(p.sync)
<1>1. p.preamble \in Seq(Bit) /\ p.sync \in Seq(Bit) /\ n \in Nat /\ m \in Nat
  BY LenProperties DEF ProfileOK
<1>2. \A i \in 1 .. n + m : (p.preamble \o p.sync)[i] = IF i <= n THEN p.preamble[i] ELSE p.sync[i - n]
  BY <1>1, ConcatProperties
<1> HIDE DEF n, m
<1>3. ASSUME NEW k \in 1 .. m PROVE (p.preamble \o p.sync)[n + k] = p.sync[k]
  <2>1. n + k \in 1 .. n + m /\ ~ (n + k <= n) /\ (n + k) - n = k
    BY <1>1
  <2> QED BY <1>2, <2>1
<1> QED BY <1>1, <1>3 DEF n, m

(* Before its place nothing is as near as the sync word. *)
LEMMA NothingBefore ==
  ASSUME NEW p, ProfileOK(p), SyncStandsOut(p), NEW a, NEW e \in Int, StartsAs(p, a, e),
         NEW w \in 0 .. Len(p.preamble) - 1, NEW i \in Polarities(p)
  PROVE  /\ 0 < SyncDistance(p, a, w, i)
         /\ e \notin 1 .. Len(p.preamble) + Len(p.sync) =>
               SyncDistance(p, a, w, i) \notin Tolerated(p)
<1> DEFINE n == Len(p.preamble)
           m == Len(p.sync)
           h == p.preamble \o p.sync
           x == SyncDistance(p, a, w, i)
           y == SyncDistance(p, h, w, i)
<1>1. n \in Nat /\ m \in Nat /\ w \in Nat
  BY SyncSizes
<1>2. y > 1 /\ y > p.maxErrors /\ p.maxErrors \in Nat
  BY DEF SyncStandsOut
<1>3. x \in Nat /\ y \in Nat
  BY SyncDistanceIs
<1>4. \A k \in 1 .. n + m : k # e => a[k] = h[k]
  BY DEF StartsAs
<1>5. \A k \in 1 .. m : w + k \in 1 .. n + m
  <2> HIDE DEF n, m
  <2> QED BY <1>1 DEF n
<1>6. y <= x + 1
  <2>1. SameWindow(p, h, a, w, e)
    BY <1>4, <1>5 DEF SameWindow
  <2> QED BY <1>1, <2>1, SyncAlmost
<1>7. ASSUME e \notin 1 .. n + m PROVE x = y
  <2>1. SameWindow(p, a, h, w, e) /\ Elsewhere(p, w, e)
    BY <1>4, <1>5, <1>7 DEF SameWindow, Elsewhere
  <2> QED BY <2>1, SyncSame
<1> HIDE DEF x, y, h
<1>8. 0 < x
  BY <1>2, <1>3, <1>6
<1>9. ASSUME e \notin 1 .. n + m PROVE x \notin Tolerated(p)
  BY <1>2, <1>3, <1>7, <1>9 DEF Tolerated
<1> QED BY <1>8, <1>9 DEF x

LEMMA AtItsPlace ==
  ASSUME NEW p, ProfileOK(p), SyncStandsOut(p), NEW a, NEW e \in Int, StartsAs(p, a, e)
  PROVE  /\ Len(p.preamble) \in SyncWindows(p, a)
         /\ SyncDistance(p, a, Len(p.preamble), FALSE) \in 0 .. 1
         /\ SyncDistance(p, a, Len(p.preamble), TRUE) > 0
         /\ e \notin Len(p.preamble) + 1 .. Len(p.preamble) + Len(p.sync) =>
               SyncDistance(p, a, Len(p.preamble), FALSE) = 0
<1> DEFINE n == Len(p.preamble)
           m == Len(p.sync)
           h == p.preamble \o p.sync
           x == SyncDistance(p, a, n, FALSE)
           y == SyncDistance(p, h, n, FALSE)
           z == SyncDistance(p, a, n, TRUE)
           len == Len(a)
<1>1. n \in Nat /\ m \in Nat /\ m > 1
  BY SyncSizes DEF SyncStandsOut
<1>2. len \in Nat /\ n + m <= len /\ \A k \in 1 .. n + m : k # e => a[k] = h[k]
  BY LenProperties DEF StartsAs
<1>3. n \in SyncWindows(p, a)
  <2> HIDE DEF n, m, len
  <2>1. n \in 0 .. len - m
    BY <1>1, <1>2
  <2> QED BY <2>1 DEF SyncWindows, len, m
<1>4. x \in Nat /\ y \in Nat /\ z \in Nat
  BY SyncDistanceIs
<1>5. y = 0
  <2>1. SyncHits(p, h, n, FALSE) = {}
    BY SyncSizes DEF SyncHits
  <2> QED BY <2>1, SyncDistanceIs, FS_EmptySet
<1>6. \A k \in 1 .. m : n + k \in 1 .. n + m /\ n + k \in n + 1 .. n + m
  <2> HIDE DEF n, m
  <2> QED BY <1>1
<1>7. x <= y + 1
  <2>1. SameWindow(p, a, h, n, e)
    BY <1>2, <1>6 DEF SameWindow
  <2>2. n \in Int
    BY <1>1
  <2> HIDE DEF n, h
  <2> QED BY <2>1, <2>2, SyncAlmost
<1>8. ASSUME e \notin n + 1 .. n + m PROVE x = y
  <2>1. SameWindow(p, a, h, n, e) /\ Elsewhere(p, n, e)
    BY <1>2, <1>6, <1>8 DEF SameWindow, Elsewhere
  <2> DEFINE i == FALSE
  <2> HIDE DEF n, h, i
  <2>2. SyncDistance(p, a, n, i) = SyncDistance(p, h, n, i)
    BY <2>1, SyncSame
  <2> QED BY <2>2 DEF i
<1>9. x + z = m
  BY SyncOpposite
<1> HIDE DEF n, m, x, y, z, h
<1>10. x \in 0 .. 1 /\ z > 0
  BY <1>1, <1>4, <1>5, <1>7, <1>9
<1> QED BY <1>3, <1>5, <1>8, <1>10 DEF n, m, x, z

LEMMA FoundUpright ==
  ASSUME NEW p, ProfileOK(p), SyncStandsOut(p), NEW a, NEW e \in Int, StartsAs(p, a, e),
         e \notin Len(p.preamble) + 1 .. Len(p.preamble) + Len(p.sync)
  PROVE  Found(p, a, Len(p.preamble), FALSE)
<1> DEFINE n == Len(p.preamble)
<1>1. n \in SyncWindows(p, a) /\ SyncDistance(p, a, n, FALSE) = 0
  BY AtItsPlace
<1>2. FALSE \in Polarities(p) /\ 0 \in Tolerated(p)
  <2>1. FALSE \in Polarities(p)
    BY DEF Polarities
  <2>2. 0 \in Tolerated(p)
    BY DEF Tolerated, SyncStandsOut
  <2> QED BY <2>1, <2>2
<1>3. n \in Nat
  BY SyncSizes
<1>4. ASSUME NEW w \in SyncWindows(p, a), NEW i \in Polarities(p)
      PROVE  /\ 0 <= SyncDistance(p, a, w, i)
             /\ w < n => 0 < SyncDistance(p, a, w, i)
  <2>1. SyncDistance(p, a, w, i) \in Nat
    BY SyncDistanceIs
  <2>2. ASSUME w < n PROVE 0 < SyncDistance(p, a, w, i)
    <3>1. w \in 0 .. n - 1
      BY <1>3, <2>2 DEF SyncWindows
    <3> QED BY <3>1, NothingBefore
  <2>3. 0 <= SyncDistance(p, a, w, i)
    BY <2>1
  <2> QED BY <2>2, <2>3
<1> QED BY <1>1, <1>2, <1>4 DEF Found

LEMMA FoundInverted ==
  ASSUME NEW p, ProfileOK(p), SyncStandsOut(p), p.allowInverted, NEW a, StartsAs(p, a, 0)
  PROVE  Found(p, Inverse1(a), Len(p.preamble), TRUE)
<1> DEFINE n == Len(p.preamble)
           b == Inverse1(a)
<1>1. /\ n \in SyncWindows(p, a) /\ SyncDistance(p, a, n, FALSE) = 0
      /\ SyncDistance(p, a, n, TRUE) > 0
  <2>1. 0 \in Int /\ 0 \notin n + 1 .. n + Len(p.sync)
    <3> DEFINE m == Len(p.sync)
    <3>1. n \in Nat /\ m \in Nat
      BY SyncSizes
    <3> HIDE DEF n, m
    <3>2. 0 \in Int /\ 0 \notin n + 1 .. n + m
      BY <3>1
    <3> QED BY <3>2 DEF m
  <2> QED BY <2>1, AtItsPlace
<1>2. TRUE \in Polarities(p) /\ 0 \in Tolerated(p) /\ Polarities(p) = BOOLEAN
  BY DEF Polarities, Tolerated, SyncStandsOut
<1>3. n \in Nat /\ a \in Seq(Bit)
  BY SyncSizes DEF StartsAs
<1>4. SyncWindows(p, b) = SyncWindows(p, a)
  BY <1>3, InverseType DEF SyncWindows
<1>5. ASSUME NEW w \in SyncWindows(p, a), NEW i \in BOOLEAN
      PROVE  /\ SyncDistance(p, b, w, i) = SyncDistance(p, a, w, ~ i)
             /\ SyncDistance(p, b, w, i) \in Nat
             /\ w < n => 0 < SyncDistance(p, b, w, i)
  <2>1. SyncDistance(p, b, w, i) = SyncDistance(p, a, w, ~ i)
    BY <1>3, SyncInverse
  <2>2. SyncDistance(p, b, w, i) \in Nat
    BY SyncDistanceIs
  <2>3. ASSUME w < n PROVE 0 < SyncDistance(p, a, w, ~ i)
    <3>1. w \in 0 .. n - 1 /\ 0 \in Int
      BY <1>3, <2>3 DEF SyncWindows
    <3> DEFINE j == ~ i
    <3>2. j \in Polarities(p)
      BY <1>2
    <3> HIDE DEF j
    <3>3. 0 < SyncDistance(p, a, w, j)
      BY <3>1, <3>2, NothingBefore
    <3> QED BY <3>3 DEF j
  <2> QED BY <2>1, <2>2, <2>3
<1>6. SyncDistance(p, b, n, TRUE) = 0 /\ SyncDistance(p, b, n, FALSE) > 0
  <2>1. SyncDistance(p, b, n, TRUE) = SyncDistance(p, a, n, ~ TRUE)
    BY <1>1, <1>5
  <2>2. SyncDistance(p, b, n, FALSE) = SyncDistance(p, a, n, ~ FALSE)
    BY <1>1, <1>5
  <2>3. (~ TRUE) = FALSE /\ (~ FALSE) = TRUE
    OBVIOUS
  <2> QED BY <1>1, <2>1, <2>2, <2>3
<1> HIDE DEF b
<1>7. \A w \in SyncWindows(p, b), i \in Polarities(p) :
         /\ 0 <= SyncDistance(p, b, w, i)
         /\ w < n => 0 < SyncDistance(p, b, w, i)
  BY <1>2, <1>4, <1>5
<1> QED BY <1>1, <1>2, <1>4, <1>6, <1>7 DEF Found, b

(* With an error in the sync word its place is the best there is if no     *)
(* other window is near enough at all.                                     *)
LEMMA FoundHit ==
  ASSUME NEW p, ProfileOK(p), SyncStandsOut(p), p.maxErrors > 0,
         NEW a, NEW e \in Int, StartsAs(p, a, e),
         \A w \in SyncWindows(p, a) \ {Len(p.preamble)}, i \in BOOLEAN :
            ~ (SyncDistance(p, a, w, i) <= p.maxErrors)
  PROVE  Found(p, a, Len(p.preamble), FALSE)
<1> DEFINE n == Len(p.preamble)
           d == SyncDistance(p, a, n, FALSE)
<1>1. /\ n \in SyncWindows(p, a) /\ d \in 0 .. 1
      /\ SyncDistance(p, a, n, TRUE) > 0
  BY AtItsPlace
<1>2. FALSE \in Polarities(p) /\ d \in Tolerated(p) /\ p.maxErrors \in Nat /\ Polarities(p) \subseteq BOOLEAN
  <2>1. p.maxErrors \in Nat
    BY DEF SyncStandsOut
  <2>2. d \in Tolerated(p)
    <3> HIDE DEF d
    <3> QED BY <1>1, <2>1 DEF Tolerated
  <2>3. FALSE \in Polarities(p) /\ Polarities(p) \subseteq BOOLEAN
    BY DEF Polarities
  <2> QED BY <2>1, <2>2, <2>3
<1>3. n \in Nat
  BY SyncSizes
<1>4. ASSUME NEW w \in SyncWindows(p, a), NEW i \in Polarities(p)
      PROVE  /\ d <= SyncDistance(p, a, w, i)
             /\ w < n => d < SyncDistance(p, a, w, i)
  <2> DEFINE x == SyncDistance(p, a, w, i)
  <2>1. x \in Nat /\ w \in Int
    BY SyncDistanceIs DEF SyncWindows
  <2>2. CASE w # n
    <3>1. ~ (x <= p.maxErrors)
      BY <1>2, <2>2
    <3> HIDE DEF x, d
    <3>2. d < x
      BY <1>1, <1>2, <2>1, <3>1
    <3> QED BY <1>1, <2>1, <3>2 DEF x
  <2>3. CASE w = n /\ i = FALSE
    <3>1. x = d
      BY <2>3
    <3> HIDE DEF x, d
    <3>2. d <= x
      BY <2>1, <3>1
    <3>3. ~ (w < n)
      BY <1>3, <2>3
    <3> QED BY <3>2, <3>3 DEF x
  <2>4. CASE w = n /\ i = TRUE
    <3>1. x > 0
      BY <1>1, <2>4
    <3> HIDE DEF x, d
    <3>2. d <= x
      BY <1>1, <2>1, <3>1
    <3>3. ~ (w < n)
      BY <1>3, <2>4
    <3> QED BY <3>2, <3>3 DEF x
  <2> QED BY <1>2, <2>2, <2>3, <2>4
<1> QED BY <1>1, <1>2, <1>4 DEF Found

-----------------------------------------------------------------------------
(* The parts of a frame, and slices of it *)

LEMMA ConcatAt ==
  ASSUME NEW S, NEW s \in Seq(S), NEW t \in Seq(S), NEW n, NEW m, Len(s) = n, Len(t) = m
  PROVE  /\ s \o t \in Seq(S) /\ Len(s \o t) = n + m /\ n \in Nat /\ m \in Nat
         /\ \A k \in 1 .. n : (s \o t)[k] = s[k]
         /\ \A k \in 1 .. m : (s \o t)[n + k] = t[k]
<1>1. n \in Nat /\ m \in Nat
  BY LenProperties
<1>2. /\ s \o t \in Seq(S) /\ Len(s \o t) = n + m
      /\ \A i \in 1 .. n + m : (s \o t)[i] = IF i <= n THEN s[i] ELSE t[i - n]
  BY ConcatProperties
<1>3. ASSUME NEW k \in 1 .. n PROVE (s \o t)[k] = s[k]
  BY <1>1, <1>2
<1>4. ASSUME NEW k \in 1 .. m PROVE (s \o t)[n + k] = t[k]
  <2>1. n + k \in 1 .. n + m /\ ~ (n + k <= n) /\ (n + k) - n = k
    BY <1>1
  <2> QED BY <1>2, <2>1
<1> QED BY <1>1, <1>2, <1>3, <1>4

(* Part t of s starts behind its first n elements. *)
PartAt(s, n, t) == \A k \in 1 .. Len(t) : s[n + k] = t[k]

LEMMA SliceIs ==
  ASSUME NEW S, NEW s \in Seq(S), NEW from \in Nat, NEW to \in Nat, from <= to, to <= Len(s)
  PROVE  /\ Slice(s, from, to) \in Seq(S) /\ Len(Slice(s, from, to)) = to - from
         /\ \A k \in 1 .. to - from : Slice(s, from, to)[k] = s[from + k]
<1> DEFINE n == Len(s)
<1>1. n \in Nat /\ to <= n
  BY LenProperties
<1>2. Min({to, n}) = to
  <2>1. {to, n} \subseteq Int /\ to \in {to, n} /\ \A x \in {to, n} : to <= x
    BY <1>1
  <2> QED BY <2>1, MinIs
<1>3. Slice(s, from, to) = SubSeq(s, from + 1, to)
  BY <1>2 DEF Slice
<1> HIDE DEF n
<1>4. /\ from + 1 \in Int /\ to \in Int
      /\ \A i \in (from + 1) .. to : i \in 1 .. n
      /\ (IF from + 1 <= to THEN to - (from + 1) + 1 ELSE 0) = to - from
      /\ \A k \in 1 .. to - from : k \in 1 .. to - (from + 1) + 1 /\ (from + 1) + k - 1 = from + k
  BY <1>1
<1>5. \A i \in (from + 1) .. to : s[i] \in S
  BY <1>4, ElementOfSeq DEF n
<1>6. /\ SubSeq(s, from + 1, to) \in Seq(S)
      /\ Len(SubSeq(s, from + 1, to)) = IF from + 1 <= to THEN to - (from + 1) + 1 ELSE 0
      /\ \A i \in 1 .. to - (from + 1) + 1 : SubSeq(s, from + 1, to)[i] = s[(from + 1) + i - 1]
  BY <1>4, <1>5, SubSeqProperties
<1>7. \A k \in 1 .. to - from : SubSeq(s, from + 1, to)[k] = s[from + k]
  BY <1>4, <1>6
<1> QED BY <1>3, <1>4, <1>6, <1>7

LEMMA SliceOfPart ==
  ASSUME NEW S, NEW s \in Seq(S), NEW t \in Seq(S), NEW from \in Nat, NEW to,
         to = from + Len(t), to <= Len(s), PartAt(s, from, t)
  PROVE  Slice(s, from, to) = t
<1>1. Len(t) \in Nat /\ to \in Nat /\ from <= to /\ to - from = Len(t)
  BY LenProperties
<1> DEFINE n == Len(t)
<1> HIDE DEF n
<1>0. n = Len(t) /\ n = to - from
  BY <1>1 DEF n
<1>2. /\ Slice(s, from, to) \in Seq(S) /\ Len(Slice(s, from, to)) = Len(t)
      /\ \A k \in 1 .. Len(t) : Slice(s, from, to)[k] = s[from + k]
  <2>1. /\ Slice(s, from, to) \in Seq(S) /\ Len(Slice(s, from, to)) = to - from
        /\ \A k \in 1 .. to - from : Slice(s, from, to)[k] = s[from + k]
    <3>1. s \in Seq(S) /\ from \in Nat /\ to \in Nat /\ from <= to /\ to <= Len(s)
      BY <1>1
    <3> QED BY ONLY <3>1, SliceIs
  <2> QED BY ONLY <1>0, <2>1
<1>3. \A k \in 1 .. Len(t) : Slice(s, from, to)[k] = t[k]
  BY <1>2 DEF PartAt
<1> QED BY <1>2, <1>3, SeqEqual

LEMMA PartsOfTwo ==
  ASSUME NEW S, NEW s \in Seq(S), NEW t \in Seq(S)
  PROVE  s \o t \in Seq(S) /\ PartAt(s \o t, 0, s) /\ PartAt(s \o t, Len(s), t)
<1>1. /\ s \o t \in Seq(S) /\ Len(s) \in Nat
      /\ \A k \in 1 .. Len(s) : (s \o t)[k] = s[k]
      /\ \A k \in 1 .. Len(t) : (s \o t)[Len(s) + k] = t[k]
  BY ConcatAt
<1>2. \A k \in 1 .. Len(s) : 0 + k = k
  BY <1>1
<1> QED BY <1>1, <1>2 DEF PartAt

(* A part of a part *)
LEMMA PartOfFirst ==
  ASSUME NEW S, NEW s \in Seq(S), NEW t \in Seq(S), NEW u \in Seq(S), NEW n \in Nat,
         n + Len(u) <= Len(s), PartAt(s, n, u)
  PROVE  PartAt(s \o t, n, u)
<1>1. Len(s) \in Nat /\ Len(u) \in Nat /\ \A k \in 1 .. Len(s) : (s \o t)[k] = s[k]
  BY ConcatAt
<1>2. \A k \in 1 .. Len(u) : n + k \in 1 .. Len(s)
  BY <1>1
<1> QED BY <1>1, <1>2 DEF PartAt

-----------------------------------------------------------------------------
(* Where the parts of a frame start *)

HeaderAt(p) == Len(p.preamble) + Len(p.sync)
CrcAt(p) == HeaderAt(p) + HeaderBits(p)
RegionAt(p) == CrcAt(p) + p.headerCrc.bytes * ByteBits

SerializedHeader(p, payload, id, count) == SerializeHeader(p, ResolveHeader(payload, id, count))

EncodedPayload(p, payload) == EncodeRegion(p, PayloadRegion(p, payload))

LEMMA PartSizes ==
  ASSUME NEW p, ProfileOK(p)
  PROVE  /\ HeaderAt(p) \in Nat /\ CrcAt(p) \in Nat /\ RegionAt(p) \in Nat
         /\ HeaderBits(p) \in Nat /\ p.headerCrc.bytes * ByteBits \in Nat
         /\ HeaderAt(p) <= CrcAt(p) /\ CrcAt(p) <= RegionAt(p)
<1>1. HeaderAt(p) \in Nat
  <2> DEFINE n == Len(p.preamble)
             m == Len(p.sync)
  <2>1. n \in Nat /\ m \in Nat
    BY SyncSizes
  <2>2. HeaderAt(p) = n + m
    BY DEF HeaderAt
  <2> HIDE DEF n, m
  <2> QED BY <2>1, <2>2
<1>2. HeaderBits(p) \in Nat
  BY DEF HeaderBits, ProfileOK
<1>3. p.headerCrc.bytes * ByteBits \in Nat
  BY ByteAssumption, ProductNat DEF ProfileOK, CrcOK
<1> DEFINE x == p.headerCrc.bytes * ByteBits
<1>4. RegionAt(p) = CrcAt(p) + x
  BY DEF RegionAt
<1> HIDE DEF x
<1>5. x \in Nat
  BY <1>3 DEF x
<1>6. CrcAt(p) \in Nat /\ HeaderAt(p) <= CrcAt(p)
  BY <1>1, <1>2 DEF CrcAt
<1> QED BY <1>1, <1>2, <1>3, <1>4, <1>5, <1>6

Layout(p, payload, id, count, s) ==
    /\ s \in Seq(Bit) /\ Len(s) = RegionAt(p) + EncodedBits(p, Len(payload))
    /\ PartAt(s, 0, p.preamble \o p.sync)
    /\ PartAt(s, HeaderAt(p), SerializedHeader(p, payload, id, count))
    /\ PartAt(s, CrcAt(p), HeaderCrcBits(p, SerializedHeader(p, payload, id, count)))
    /\ PartAt(s, RegionAt(p), EncodedPayload(p, payload))

(* What is known of a frame's parts *)
Parts(p, payload, id, count) ==
    /\ SerializedHeader(p, payload, id, count) \in Seq(Bit)
    /\ Len(SerializedHeader(p, payload, id, count)) = HeaderBits(p)
    /\ HeaderCrcBits(p, SerializedHeader(p, payload, id, count)) \in Seq(Bit)
    /\ Len(HeaderCrcBits(p, SerializedHeader(p, payload, id, count))) = p.headerCrc.bytes * ByteBits
    /\ PayloadRegion(p, payload) \in Seq(Byte)
    /\ EncodedPayload(p, payload) \in Seq(Bit)
    /\ Len(EncodedPayload(p, payload)) = EncodedBits(p, Len(payload))
    /\ EncodedBits(p, Len(payload)) \in Nat
    /\ Divides(p.rows, EncodedBits(p, Len(payload)))
    /\ Divides(p.rows, Len(Coded(p, PayloadRegion(p, payload))))

LEMMA FrameParts ==
  ASSUME NEW p, ProfileOK(p), NEW payload \in Seq(Byte), NEW id, NEW count,
         CanBuild(p, payload, id, count)
  PROVE  Parts(p, payload, id, count)
<1> DEFINE h == SerializedHeader(p, payload, id, count)
           region == PayloadRegion(p, payload)
           body == EncodedPayload(p, payload)
<1>1. h \in Seq(Bit) /\ Len(h) = HeaderBits(p)
  BY HeaderType DEF SerializedHeader
<1>2. HeaderCrcBits(p, h) \in Seq(Bit) /\ Len(HeaderCrcBits(p, h)) = p.headerCrc.bytes * ByteBits
  BY <1>1, HeaderCrcType
<1>3. region \in Seq(Byte) /\ Divides(p.rows, Len(Coded(p, region)))
  BY PayloadRegionType DEF CanBuild
<1>4. body \in Seq(Bit) /\ Len(body) = Len(Coded(p, region))
  BY <1>3, EncodeRegionType DEF EncodedPayload
<1>5. Len(body) = EncodedBits(p, Len(payload))
  BY EncodedLength DEF EncodedPayload
<1>6. Len(body) \in Nat
  BY <1>4, LenProperties
<1> HIDE DEF h, body, region
<1>7. EncodedBits(p, Len(payload)) \in Nat /\ Divides(p.rows, EncodedBits(p, Len(payload)))
  BY <1>3, <1>4, <1>5, <1>6
<1> QED BY <1>1, <1>2, <1>3, <1>4, <1>5, <1>7 DEF Parts, h, body, region

LEMMA FrameLayout ==
  ASSUME NEW p, ProfileOK(p), NEW payload \in Seq(Byte), NEW id, NEW count,
         CanBuild(p, payload, id, count)
  PROVE  Layout(p, payload, id, count, BuildBits(p, payload, id, count))
<1> DEFINE h == SerializedHeader(p, payload, id, count)
           c == HeaderCrcBits(p, h)
           r == EncodedPayload(p, payload)
           s1 == p.preamble \o p.sync
           s2 == s1 \o h
           s3 == s2 \o c
           s4 == s3 \o r
           C == p.headerCrc.bytes * ByteBits
<1>1. /\ h \in Seq(Bit) /\ Len(h) = HeaderBits(p)
      /\ c \in Seq(Bit) /\ Len(c) = C
      /\ r \in Seq(Bit) /\ Len(r) = EncodedBits(p, Len(payload))
      /\ EncodedBits(p, Len(payload)) \in Nat
  BY FrameParts DEF Parts
<1>2. BuildBits(p, payload, id, count) = s4
  BY DEF BuildBits, HeaderCrcBits, SerializedHeader, EncodedPayload
<1>3. p.preamble \in Seq(Bit) /\ p.sync \in Seq(Bit)
  BY DEF ProfileOK
<1>4. /\ HeaderAt(p) \in Nat /\ CrcAt(p) \in Nat /\ RegionAt(p) \in Nat
      /\ HeaderBits(p) \in Nat /\ C \in Nat /\ CrcAt(p) = HeaderAt(p) + HeaderBits(p)
      /\ RegionAt(p) = CrcAt(p) + C
  BY PartSizes DEF CrcAt, RegionAt
<1> HIDE DEF h, c, r, C
<1>5. s1 \in Seq(Bit) /\ Len(s1) = HeaderAt(p)
  BY <1>3, ConcatProperties DEF HeaderAt
<1> HIDE DEF s1
<1>6. s2 \in Seq(Bit) /\ Len(s2) = CrcAt(p) /\ PartAt(s2, 0, s1) /\ PartAt(s2, HeaderAt(p), h)
  <2>1. s2 \in Seq(Bit) /\ Len(s2) = Len(s1) + Len(h)
    BY <1>1, <1>5, ConcatProperties
  <2>2. PartAt(s2, 0, s1) /\ PartAt(s2, Len(s1), h)
    BY <1>1, <1>5, PartsOfTwo
  <2> QED BY <1>1, <1>4, <1>5, <2>1, <2>2
<1> HIDE DEF s2
<1>7. /\ s3 \in Seq(Bit) /\ Len(s3) = RegionAt(p)
      /\ PartAt(s3, 0, s1) /\ PartAt(s3, HeaderAt(p), h) /\ PartAt(s3, CrcAt(p), c)
  <2>1. s3 \in Seq(Bit) /\ Len(s3) = Len(s2) + Len(c)
    BY <1>1, <1>6, ConcatProperties
  <2>2. PartAt(s3, Len(s2), c)
    BY <1>1, <1>6, PartsOfTwo
  <2>3. 0 + Len(s1) <= Len(s2) /\ HeaderAt(p) + Len(h) <= Len(s2)
    BY <1>1, <1>4, <1>5, <1>6
  <2>4. PartAt(s3, 0, s1) /\ PartAt(s3, HeaderAt(p), h)
    BY <1>1, <1>4, <1>5, <1>6, <2>3, PartOfFirst
  <2> QED BY <1>1, <1>4, <1>6, <2>1, <2>2, <2>4
<1> HIDE DEF s3
<1>8. /\ s4 \in Seq(Bit) /\ Len(s4) = RegionAt(p) + EncodedBits(p, Len(payload))
      /\ PartAt(s4, 0, s1) /\ PartAt(s4, HeaderAt(p), h) /\ PartAt(s4, CrcAt(p), c)
      /\ PartAt(s4, RegionAt(p), r)
  <2>1. s4 \in Seq(Bit) /\ Len(s4) = Len(s3) + Len(r)
    BY <1>1, <1>7, ConcatProperties
  <2>2. PartAt(s4, Len(s3), r)
    BY <1>1, <1>7, PartsOfTwo
  <2>3. /\ 0 + Len(s1) <= Len(s3) /\ HeaderAt(p) + Len(h) <= Len(s3)
        /\ CrcAt(p) + Len(c) <= Len(s3)
    BY <1>1, <1>4, <1>5, <1>7
  <2>4. PartAt(s4, 0, s1) /\ PartAt(s4, HeaderAt(p), h) /\ PartAt(s4, CrcAt(p), c)
    BY <1>1, <1>4, <1>5, <1>7, <2>3, PartOfFirst
  <2> QED BY <1>1, <1>7, <2>1, <2>2, <2>4
<1> QED BY <1>2, <1>8 DEF Layout, h, c, r, s1

-----------------------------------------------------------------------------
(* parse *)

LEMMA ParseNone ==
  ASSUME NEW p, NEW received, FindSync(p, received).index = 0 - 1
  PROVE  Parse(p, received) = Raised
<1> DEFINE i == FindSync(p, received).index
<1>1. i < 0
  <2>1. i = 0 - 1
    OBVIOUS
  <2> HIDE DEF i
  <2> QED BY <2>1
<1> QED BY <1>1 DEF Parse

LEMMA ParseAt ==
  ASSUME NEW p, ProfileOK(p), NEW received, NEW v \in BOOLEAN,
         FindSync(p, received) = [index |-> Len(p.preamble), inverted |-> v],
         NEW bits, bits = IF v THEN Inverse1(received) ELSE received,
         NEW h, h = Slice(bits, HeaderAt(p), CrcAt(p)),
         NEW c, c = Slice(bits, CrcAt(p), RegionAt(p))
  PROVE  Parse(p, received)
           = IF TooShort(bits, RegionAt(p)) THEN Raised
             ELSE ParseRegion(p, bits, RegionAt(p), ParseHeader(p, h),
                              BitsToBytes(c) = Crc(p.headerCrc, BitsToBytes(h)),
                              [index |-> Len(p.preamble), inverted |-> v])
<1> DEFINE n == Len(p.preamble)
           sync == [index |-> n, inverted |-> v]
<1>1. sync.index = n /\ sync.inverted = v
  OBVIOUS
<1>2. ~ (n < 0)
  BY SyncSizes
<1> HIDE DEF n, sync
<1>3. FindSync(p, received) = sync
  BY DEF sync, n
<1>4. HeaderAt(p) = n + Len(p.sync)
  BY DEF HeaderAt, n
<1>5. Parse(p, received)
        = IF sync.index < 0 \/ TooShort(bits, RegionAt(p)) THEN Raised
          ELSE ParseRegion(p, bits, RegionAt(p), ParseHeader(p, h),
                           BitsToBytes(c) = Crc(p.headerCrc, BitsToBytes(h)), sync)
  BY <1>1, <1>3, <1>4 DEF Parse, CrcAt, RegionAt
<1> QED BY <1>1, <1>2, <1>5 DEF sync, n

(* What _parse_header reads is what _serialize_header wrote. *)
LEMMA HeaderRoundTrip ==
  ASSUME NEW p, ProfileOK(p), NEW payload \in Seq(Byte), NEW id, NEW count,
         CanBuild(p, payload, id, count)
  PROVE  ParseHeader(p, SerializedHeader(p, payload, id, count)) = ResolveHeader(payload, id, count)
<1> DEFINE len == Len(payload)
           L == p.lengthBits
           I == p.idBits
           C == p.counterBits
           a == IntToBits(len, L)
           b == IntToBits(id, I)
           c == IntToBits(count, C)
           ab == a \o b
           h == ab \o c
<1>1. L \in Nat /\ I \in Nat /\ C \in Nat
  BY DEF ProfileOK
<1>2. len \in 0 .. Pow2[L] - 1 /\ id \in 0 .. Pow2[I] - 1 /\ count \in 0 .. Pow2[C] - 1
  BY DEF CanBuild, Fits
<1>3. len \in Nat /\ id \in Nat /\ count \in Nat
  <2>1. \A w \in Nat : Pow2[w] \in Nat
    BY Pow2Type
  <2> HIDE DEF len, L, I, C
  <2> QED BY <1>1, <1>2, <2>1
<1>4. SerializedHeader(p, payload, id, count) = h
  BY DEF SerializedHeader, SerializeHeader, ResolveHeader
<1>5. BitsToInt(a) = len /\ BitsToInt(b) = id /\ BitsToInt(c) = count
  BY <1>1, <1>2, IntBitsInt
<1>6. /\ a \in Seq(Bit) /\ Len(a) = L /\ b \in Seq(Bit) /\ Len(b) = I
      /\ c \in Seq(Bit) /\ Len(c) = C
  BY <1>1, <1>3, IntToBitsType
<1> HIDE DEF len, L, I, C, a, b, c
<1>7. ab \in Seq(Bit) /\ Len(ab) = L + I /\ PartAt(ab, 0, a) /\ PartAt(ab, L, b)
  <2>1. ab \in Seq(Bit) /\ Len(ab) = Len(a) + Len(b)
    BY <1>6, ConcatProperties
  <2>2. PartAt(ab, 0, a) /\ PartAt(ab, Len(a), b)
    BY <1>6, PartsOfTwo
  <2> QED BY <1>6, <2>1, <2>2
<1> HIDE DEF ab
<1>8. /\ h \in Seq(Bit) /\ Len(h) = L + I + C
      /\ PartAt(h, 0, a) /\ PartAt(h, L, b) /\ PartAt(h, L + I, c)
  <2>1. h \in Seq(Bit) /\ Len(h) = Len(ab) + Len(c)
    BY <1>6, <1>7, ConcatProperties
  <2>2. PartAt(h, Len(ab), c)
    BY <1>6, <1>7, PartsOfTwo
  <2>3. 0 + Len(a) <= Len(ab) /\ L + Len(b) <= Len(ab)
    BY <1>1, <1>6, <1>7
  <2>4. PartAt(h, 0, a) /\ PartAt(h, L, b)
    BY <1>1, <1>6, <1>7, <2>3, PartOfFirst
  <2> QED BY <1>6, <1>7, <2>1, <2>2, <2>4
<1> HIDE DEF h
<1>9. Slice(h, 0, L) = a
  <2>1. 0 \in Nat /\ L = 0 + Len(a) /\ L <= Len(h)
    BY <1>1, <1>6, <1>8
  <2> QED BY <1>6, <1>8, <2>1, SliceOfPart
<1>10. Slice(h, L, L + I) = b
  <2> DEFINE to == L + I
  <2>1. /\ L \in Nat /\ to = L + Len(b) /\ to <= Len(h)
        /\ h \in Seq(Bit) /\ b \in Seq(Bit) /\ PartAt(h, L, b)
    BY <1>1, <1>6, <1>8
  <2> HIDE DEF to
  <2>2. Slice(h, L, to) = b
    BY ONLY <2>1, SliceOfPart
  <2> QED BY <2>2 DEF to
<1>11. Slice(h, L + I, L + I + C) = c
  <2>1. L + I \in Nat /\ L + I + C = (L + I) + Len(c) /\ L + I + C <= Len(h)
    BY <1>1, <1>6, <1>8
  <2> QED BY <1>6, <1>8, <2>1, SliceOfPart
<1>12. HeaderBits(p) = L + I + C
  BY DEF HeaderBits, L, I, C
<1>13. ParseHeader(p, h) = [length |-> BitsToInt(Slice(h, 0, L)),
                            id |-> BitsToInt(Slice(h, L, L + I)),
                            counter |-> BitsToInt(Slice(h, L + I, L + I + C))]
  BY <1>12 DEF ParseHeader, L, I
<1> QED BY <1>4, <1>5, <1>9, <1>10, <1>11, <1>13 DEF ResolveHeader, len

(* The payload and its CRC in the region they share with the padding *)
LEMMA RegionSlices ==
  ASSUME NEW p, ProfileOK(p), NEW payload \in Seq(Byte), NEW n, n = Len(payload)
  PROVE  /\ Slice(PayloadRegion(p, payload), 0, n) = payload
         /\ Slice(PayloadRegion(p, payload), n, n + p.payloadCrc.bytes) = Crc(p.payloadCrc, payload)
<1> DEFINE crc == Crc(p.payloadCrc, payload)
           body == payload \o crc
           pad == [i \in 1 .. Padding(p, Len(body)) |-> p.padByte]
           region == body \o pad
           B == p.payloadCrc.bytes
<1>1. crc \in Seq(Byte) /\ Len(crc) = B /\ B \in Nat
  BY BytesAreNumbers, CrcType DEF ProfileOK, CrcOK
<1> HIDE DEF crc, B
<1>2. /\ body \in Seq(Byte) /\ Len(body) = n + B /\ n \in Nat
      /\ PartAt(body, 0, payload) /\ PartAt(body, n, crc)
  <2>1. body \in Seq(Byte) /\ Len(body) = Len(payload) + Len(crc) /\ Len(payload) \in Nat
    BY <1>1, ConcatProperties, LenProperties
  <2>2. PartAt(body, 0, payload) /\ PartAt(body, Len(payload), crc)
    BY <1>1, PartsOfTwo
  <2> QED BY <1>1, <2>1, <2>2
<1> HIDE DEF body
<1>3. Padding(p, Len(body)) \in Nat
  <2> DEFINE m == Len(body)
  <2>1. m \in Nat
    BY <1>2, LenProperties
  <2> HIDE DEF m
  <2>2. Padding(p, m) \in Nat
    BY <2>1, PaddingNat
  <2> QED BY <2>2 DEF m
<1>4. pad \in Seq(Byte)
  <2>1. p.padByte \in Byte
    BY DEF ProfileOK
  <2> QED BY <1>3, <2>1
<1> HIDE DEF pad
<1>5. /\ region \in Seq(Byte) /\ Len(region) = Len(body) + Len(pad) /\ Len(pad) \in Nat
  BY <1>2, <1>4, ConcatProperties, LenProperties
<1>6. PartAt(region, 0, payload) /\ PartAt(region, n, crc)
  <2>1. 0 + Len(payload) <= Len(body) /\ n + Len(crc) <= Len(body)
    BY <1>1, <1>2
  <2> QED BY <1>1, <1>2, <1>4, <2>1, PartOfFirst
<1>7. PayloadRegion(p, payload) = region
  BY DEF PayloadRegion, PadRegion, pad, body, crc
<1> HIDE DEF region
<1>8. Slice(region, 0, n) = payload
  <2>1. 0 \in Nat /\ n = 0 + Len(payload) /\ n <= Len(region)
    BY <1>1, <1>2, <1>5
  <2> QED BY <1>5, <1>6, <2>1, SliceOfPart
<1>9. Slice(region, n, n + B) = crc
  <2> DEFINE to == n + B
  <2>1. /\ n \in Nat /\ to = n + Len(crc) /\ to <= Len(region)
        /\ region \in Seq(Byte) /\ crc \in Seq(Byte) /\ PartAt(region, n, crc)
    BY <1>1, <1>2, <1>5, <1>6
  <2> HIDE DEF to
  <2>2. Slice(region, n, to) = crc
    BY ONLY <2>1, SliceOfPart
  <2> QED BY <2>2 DEF to
<1> QED BY <1>7, <1>8, <1>9 DEF crc, B

-----------------------------------------------------------------------------
(* A frame that arrives behind its sync word as it was sent, but perhaps   *)
(* for one bit of a convolutionally coded payload                          *)

Arrives(p, s, bits, e) ==
    /\ bits \in Seq(Bit) /\ Len(s) <= Len(bits) /\ e \in Int
    /\ \A k \in HeaderAt(p) + 1 .. Len(s) : k # e => bits[k] = s[k]
    /\ e \notin HeaderAt(p) + 1 .. Len(s) \/ (p.fec.cc /\ e > RegionAt(p))

LEMMA ArrivedPart ==
  ASSUME NEW p, NEW s \in Seq(Bit), NEW bits, NEW e, Arrives(p, s, bits, e), HeaderAt(p) \in Nat,
         NEW t \in Seq(Bit), NEW n \in Nat, NEW to, PartAt(s, n, t), to = n + Len(t), to <= Len(s),
         HeaderAt(p) <= n, e \notin n + 1 .. to
  PROVE  Slice(bits, n, to) = t
<1>1. Len(t) \in Nat /\ Len(s) \in Nat /\ Len(bits) \in Nat /\ bits \in Seq(Bit)
  BY LenProperties DEF Arrives
<1> DEFINE m == Len(t)
           N == Len(s)
           H == HeaderAt(p)
<1>2. to \in Nat /\ to <= Len(bits)
  BY <1>1 DEF Arrives
<1>3. ASSUME NEW k \in 1 .. m PROVE n + k \in H + 1 .. N /\ n + k # e
  <2> HIDE DEF m, N, H
  <2>1. m \in Nat /\ N \in Nat /\ H \in Nat /\ to = n + m /\ to <= N /\ H <= n
    BY <1>1 DEF m, N, H
  <2>2. n + k \in H + 1 .. N /\ n + k \in n + 1 .. to
    BY <2>1
  <2> QED BY <2>2
<1>4. PartAt(bits, n, t)
  BY <1>3 DEF Arrives, PartAt
<1> QED BY ONLY <1>1, <1>2, <1>4, to = n + Len(t), t \in Seq(Bit), n \in Nat, SliceOfPart

(* The three parts behind the sync word *)
LEMMA ArrivedHeader ==
  ASSUME NEW p, ProfileOK(p), NEW payload \in Seq(Byte), NEW id, NEW count,
         CanBuild(p, payload, id, count), NEW s, s = BuildBits(p, payload, id, count),
         NEW bits, NEW e, Arrives(p, s, bits, e)
  PROVE  /\ Slice(bits, HeaderAt(p), CrcAt(p)) = SerializedHeader(p, payload, id, count)
         /\ Slice(bits, CrcAt(p), RegionAt(p))
              = HeaderCrcBits(p, SerializedHeader(p, payload, id, count))
<1> DEFINE h == SerializedHeader(p, payload, id, count)
           c == HeaderCrcBits(p, h)
           H == HeaderAt(p)
           C == CrcAt(p)
           R == RegionAt(p)
           b == p.headerCrc.bytes * ByteBits
           E == EncodedBits(p, Len(payload))
           N == Len(s)
<1>1. /\ H \in Nat /\ C \in Nat /\ R \in Nat /\ b \in Nat /\ H <= C /\ C <= R
      /\ C = H + HeaderBits(p) /\ R = C + b
  BY PartSizes DEF CrcAt, RegionAt
<1>2. h \in Seq(Bit) /\ Len(h) = HeaderBits(p) /\ c \in Seq(Bit) /\ Len(c) = b /\ E \in Nat
  BY FrameParts DEF Parts
<1>3. s \in Seq(Bit) /\ N = R + E /\ PartAt(s, H, h) /\ PartAt(s, C, c)
  BY FrameLayout DEF Layout
<1>4. e \in Int /\ (e \notin H + 1 .. N \/ e > R)
  BY DEF Arrives
<1> HIDE DEF h, c, H, C, R, b, E, N
<1>5. e \notin H + 1 .. C /\ e \notin C + 1 .. R /\ C <= N /\ R <= N
  BY <1>1, <1>2, <1>3, <1>4
<1>6. Slice(bits, H, C) = h
  <2>1. /\ s \in Seq(Bit) /\ Arrives(p, s, bits, e) /\ HeaderAt(p) \in Nat
        /\ h \in Seq(Bit) /\ H \in Nat /\ PartAt(s, H, h) /\ C = H + Len(h) /\ C <= Len(s)
        /\ HeaderAt(p) <= H /\ e \notin H + 1 .. C
    BY <1>1, <1>2, <1>3, <1>5 DEF H, N
  <2> QED BY ONLY <2>1, ArrivedPart
<1>7. Slice(bits, C, R) = c
  <2>1. /\ s \in Seq(Bit) /\ Arrives(p, s, bits, e) /\ HeaderAt(p) \in Nat
        /\ c \in Seq(Bit) /\ C \in Nat /\ PartAt(s, C, c) /\ R = C + Len(c) /\ R <= Len(s)
        /\ HeaderAt(p) <= C /\ e \notin C + 1 .. R
    BY <1>1, <1>2, <1>3, <1>5 DEF H, N
  <2> QED BY ONLY <2>1, ArrivedPart
<1> QED BY <1>6, <1>7 DEF h, c, H, C, R

LEMMA ArrivedRegion ==
  ASSUME NEW p, ProfileOK(p), TapsReach(p.fec), NEW payload \in Seq(Byte), NEW id, NEW count,
         CanBuild(p, payload, id, count), NEW s, s = BuildBits(p, payload, id, count),
         NEW bits, NEW e, Arrives(p, s, bits, e), NEW n, n = Len(payload),
         NEW end, end = RegionAt(p) + EncodedBits(p, n)
  PROVE  /\ Len(Slice(bits, RegionAt(p), end)) = EncodedBits(p, n)
         /\ DecodeRegion(p, Slice(bits, RegionAt(p), end)) = PayloadRegion(p, payload)
         /\ end \in Nat /\ end <= Len(bits)
<1> DEFINE region == PayloadRegion(p, payload)
           t == EncodedPayload(p, payload)
           R == RegionAt(p)
           H == HeaderAt(p)
           E == EncodedBits(p, n)
           N == Len(s)
           r == Slice(bits, R, end)
           f == e - R
<1>1. /\ H \in Nat /\ R \in Nat /\ H <= R
  <2>1. HeaderAt(p) \in Nat /\ CrcAt(p) \in Nat /\ RegionAt(p) \in Nat
        /\ HeaderAt(p) <= CrcAt(p) /\ CrcAt(p) <= RegionAt(p)
    BY PartSizes
  <2> QED BY <2>1
<1>2. /\ region \in Seq(Byte) /\ t \in Seq(Bit) /\ Len(t) = E /\ E \in Nat
      /\ Divides(p.rows, Len(Coded(p, region)))
  BY FrameParts DEF Parts
<1>3. s \in Seq(Bit) /\ N = R + E /\ PartAt(s, R, t)
  BY FrameLayout DEF Layout
<1>4. /\ bits \in Seq(Bit) /\ N <= Len(bits) /\ e \in Int
      /\ \A k \in H + 1 .. N : k # e => bits[k] = s[k]
      /\ e \notin H + 1 .. N \/ (p.fec.cc /\ e > R)
  BY DEF Arrives
<1>0. t = EncodeRegion(p, region)
  BY DEF EncodedPayload
<1> HIDE DEF H, R, E, N, t, region
<1>5. /\ end \in Nat /\ end = N /\ R <= end /\ end - R = E /\ end <= Len(bits)
  BY <1>1, <1>2, <1>3, <1>4 DEF R, E
<1>6. r \in Seq(Bit) /\ Len(r) = E /\ \A k \in 1 .. E : r[k] = bits[R + k]
  <2>1. /\ r \in Seq(Bit) /\ Len(r) = end - R
        /\ \A k \in 1 .. end - R : r[k] = bits[R + k]
    BY <1>1, <1>4, <1>5, SliceIs
  <2> QED BY <1>5, <2>1
<1> HIDE DEF r
<1>7. ASSUME NEW k \in 1 .. E, k # f PROVE r[k] = t[k]
  <2>1. R + k \in H + 1 .. N /\ R + k # e
    BY <1>1, <1>2, <1>3, <1>4, <1>7
  <2>2. bits[R + k] = s[R + k]
    BY <1>4, <2>1
  <2>3. s[R + k] = t[k]
    BY <1>2, <1>3 DEF PartAt
  <2> QED BY <1>6, <2>2, <2>3
<1>8. NearAt(r, t, f)
  BY <1>2, <1>6, <1>7 DEF NearAt
<1>9. r = t \/ p.fec.cc
  <2>1. ASSUME ~ p.fec.cc PROVE r = t
    <3>1. \A k \in 1 .. E : k # f
      BY <1>1, <1>2, <1>3, <1>4, <2>1
    <3>2. \A k \in 1 .. Len(t) : r[k] = t[k]
      BY <1>2, <1>7, <3>1
    <3> QED BY <1>2, <1>6, <3>2, SeqEqual
  <2> QED BY <2>1
<1>10. DecodeRegion(p, r) = region
  BY <1>0, <1>2, <1>8, <1>9, RegionDecoded
<1> QED BY <1>5, <1>6, <1>10 DEF r, R, E, region

-----------------------------------------------------------------------------
(* What parse makes of such a frame *)

WellParsed(p, payload, id, count, v) ==
    [raised |-> FALSE, payload |-> payload, header |-> ResolveHeader(payload, id, count),
     headerCrcOk |-> TRUE, payloadCrcOk |-> TRUE, fecOk |-> TRUE,
     inverted |-> v, syncIndex |-> Len(p.preamble)]

LEMMA HeaderCrcRead ==
  ASSUME NEW p, ProfileOK(p), NEW h \in Seq(Bit)
  PROVE  BitsToBytes(HeaderCrcBits(p, h)) = Crc(p.headerCrc, BitsToBytes(h))
<1>1. BitsToBytes(h) \in Seq(Nat)
  BY BitsToBytesIs, BytesAreNumbers
<1>2. Crc(p.headerCrc, BitsToBytes(h)) \in Seq(Byte)
  BY <1>1, CrcType DEF ProfileOK
<1> QED BY <1>2, BytesRoundTrip DEF HeaderCrcBits

(* What parse makes of a region of bits: region is the bytes it decodes to. *)
Read(p, region, header, v) ==
    LET payload == Slice(region, 0, header.length)
    IN  [raised |-> FALSE, payload |-> payload, header |-> header, headerCrcOk |-> TRUE,
         payloadCrcOk |-> Slice(region, header.length, header.length + p.payloadCrc.bytes)
                              = Crc(p.payloadCrc, payload),
         fecOk |-> TRUE, inverted |-> v, syncIndex |-> Len(p.preamble)]

LEMMA RegionRead ==
  ASSUME NEW p, ProfileOK(p), NEW bits \in Seq(Bit), NEW header,
         NEW sync, sync.index = Len(p.preamble),
         HasLength(p, header.length), EncodedBits(p, header.length) \in Nat,
         NEW end, end = RegionAt(p) + EncodedBits(p, header.length), end <= Len(bits)
  PROVE  ParseRegion(p, bits, RegionAt(p), header, TRUE, sync)
           = Read(p, DecodeRegion(p, Slice(bits, RegionAt(p), end)), header, sync.inverted)
<1> DEFINE n == header.length
           R == RegionAt(p)
           E == EncodedBits(p, n)
           len == Len(bits)
           coded == Slice(bits, R, end)
           region == DecodeRegion(p, coded)
<1>1. len \in Nat /\ R \in Nat /\ E \in Nat
  BY PartSizes, LenProperties
<1>2. end = R + E /\ end \in Nat /\ R <= end /\ end <= len /\ end - R = E
  <2> HIDE DEF R, len
  <2>1. E \in Nat /\ end = R + E /\ end <= len
    BY <1>1 DEF R, len
  <2> HIDE DEF E
  <2> QED BY <1>1, <2>1
<1>3. Len(coded) = E
  <2>1. bits \in Seq(Bit) /\ R \in Nat /\ end \in Nat /\ R <= end /\ end <= Len(bits)
    BY <1>1, <1>2
  <2>2. Len(coded) = end - R
    BY ONLY <2>1, SliceIs
  <2> QED BY <1>2, <2>2
<1>4. Min({end, len}) = end
  <2> HIDE DEF len
  <2>1. {end, len} \subseteq Int /\ end \in {end, len} /\ \A x \in {end, len} : end <= x
    BY <1>1, <1>2
  <2> QED BY ONLY <2>1, MinIs
<1>5. ~ TooShort(bits, end)
  <2>1. TooShort(bits, end) <=> len < end
    BY DEF TooShort
  <2> HIDE DEF len
  <2> QED BY <1>1, <1>2, <2>1
<1> DEFINE end2 == Min({R + EncodedBits(p, n), Len(bits)})
           coded2 == Slice(bits, R, end2)
           fecOk2 == Divides(p.rows, Len(coded2))
           region2 == IF fecOk2 THEN DecodeRegion(p, coded2) ELSE <<>>
           payload2 == Slice(region2, 0, n)
<1>7. ParseRegion(p, bits, R, header, TRUE, sync)
        = IF ~ HasLength(p, n) \/ (TRUE /\ TooShort(bits, R + EncodedBits(p, n)))
          THEN Raised
          ELSE [raised |-> FALSE, payload |-> payload2, header |-> header,
                headerCrcOk |-> TRUE,
                payloadCrcOk |-> Slice(region2, n, n + p.payloadCrc.bytes) = Crc(p.payloadCrc, payload2),
                fecOk |-> fecOk2, inverted |-> sync.inverted, syncIndex |-> sync.index]
  BY DEF ParseRegion
<1>8. coded2 = coded
  BY <1>2, <1>4
<1>9. fecOk2 = TRUE
  BY <1>3, <1>8 DEF HasLength
<1>10. region2 = region
  BY <1>8, <1>9
<1> HIDE DEF region2, fecOk2, coded2, end2
<1>11. ParseRegion(p, bits, R, header, TRUE, sync)
        = [raised |-> FALSE, payload |-> Slice(region, 0, n), header |-> header,
           headerCrcOk |-> TRUE,
           payloadCrcOk |-> Slice(region, n, n + p.payloadCrc.bytes)
                                = Crc(p.payloadCrc, Slice(region, 0, n)),
           fecOk |-> TRUE, inverted |-> sync.inverted, syncIndex |-> Len(p.preamble)]
  BY <1>2, <1>5, <1>7, <1>9, <1>10
<1> QED BY <1>11 DEF Read

LEMMA RegionParsed ==
  ASSUME NEW p, ProfileOK(p), TapsReach(p.fec), NEW payload \in Seq(Byte), NEW id, NEW count,
         CanBuild(p, payload, id, count), NEW s, s = BuildBits(p, payload, id, count),
         NEW bits, NEW e, Arrives(p, s, bits, e), NEW v
  PROVE  ParseRegion(p, bits, RegionAt(p), ResolveHeader(payload, id, count), TRUE,
                     [index |-> Len(p.preamble), inverted |-> v])
           = WellParsed(p, payload, id, count, v)
<1> DEFINE n == Len(payload)
           E == EncodedBits(p, n)
           end == RegionAt(p) + E
           region == PayloadRegion(p, payload)
           header == ResolveHeader(payload, id, count)
           sync == [index |-> Len(p.preamble), inverted |-> v]
<1>1. DecodeRegion(p, Slice(bits, RegionAt(p), end)) = region /\ end <= Len(bits)
  BY ArrivedRegion
<1>2. HasLength(p, n) /\ E \in Nat
  BY FrameParts DEF Parts, HasLength
<1>3. /\ Slice(region, 0, n) = payload
      /\ Slice(region, n, n + p.payloadCrc.bytes) = Crc(p.payloadCrc, payload)
  BY RegionSlices
<1>4. header.length = n /\ sync.index = Len(p.preamble) /\ sync.inverted = v
  BY DEF ResolveHeader
<1>5. bits \in Seq(Bit)
  BY DEF Arrives
<1> HIDE DEF header, sync, n, region
<1>6. ParseRegion(p, bits, RegionAt(p), header, TRUE, sync) = Read(p, region, header, v)
  <2>1. /\ HasLength(p, header.length) /\ EncodedBits(p, header.length) \in Nat
        /\ end = RegionAt(p) + EncodedBits(p, header.length)
    BY <1>2, <1>4
  <2> HIDE DEF end
  <2>2. ParseRegion(p, bits, RegionAt(p), header, TRUE, sync)
          = Read(p, DecodeRegion(p, Slice(bits, RegionAt(p), end)), header, sync.inverted)
    BY ONLY ProfileOK(p), <1>1, <1>4, <1>5, <2>1, RegionRead
  <2> QED BY <1>1, <1>4, <2>2
<1>7. Read(p, region, header, v) = WellParsed(p, payload, id, count, v)
  BY <1>3, <1>4 DEF Read, WellParsed, header
<1> QED BY <1>6, <1>7 DEF header, sync

LEMMA ParseWell ==
  ASSUME NEW p, ProfileOK(p), TapsReach(p.fec), NEW payload \in Seq(Byte), NEW id, NEW count,
         CanBuild(p, payload, id, count), NEW s, s = BuildBits(p, payload, id, count),
         NEW received, NEW v \in BOOLEAN,
         FindSync(p, received) = [index |-> Len(p.preamble), inverted |-> v],
         NEW bits, bits = IF v THEN Inverse1(received) ELSE received,
         NEW e, Arrives(p, s, bits, e)
  PROVE  Parse(p, received) = WellParsed(p, payload, id, count, v)
<1> DEFINE h == SerializedHeader(p, payload, id, count)
           c == HeaderCrcBits(p, h)
           header == ResolveHeader(payload, id, count)
           sync == [index |-> Len(p.preamble), inverted |-> v]
           R == RegionAt(p)
<1>1. Slice(bits, HeaderAt(p), CrcAt(p)) = h /\ Slice(bits, CrcAt(p), R) = c
  BY ArrivedHeader
<1>2. h \in Seq(Bit)
  BY FrameParts DEF Parts
<1>3. (BitsToBytes(c) = Crc(p.headerCrc, BitsToBytes(h))) = TRUE
  BY <1>2, HeaderCrcRead
<1>4. ParseHeader(p, h) = header
  BY HeaderRoundTrip
<1>5. ParseRegion(p, bits, R, header, TRUE, sync) = WellParsed(p, payload, id, count, v)
  BY RegionParsed
<1>6. ~ TooShort(bits, R)
  <2> DEFINE len == Len(bits)
             N == Len(s)
             E == EncodedBits(p, Len(payload))
  <2>1. len \in Nat /\ N <= len
    BY LenProperties DEF Arrives
  <2>2. N = R + E /\ E \in Nat /\ R \in Nat
    BY FrameLayout, FrameParts, PartSizes DEF Layout, Parts
  <2>3. TooShort(bits, R) <=> len < R
    BY DEF TooShort
  <2> HIDE DEF len, N, E, R
  <2> QED BY <2>1, <2>2, <2>3
<1> HIDE DEF h, c, header, R
<1>7. Parse(p, received) = IF TooShort(bits, RegionAt(p)) THEN Raised
             ELSE ParseRegion(p, bits, RegionAt(p), ParseHeader(p, h),
                              BitsToBytes(c) = Crc(p.headerCrc, BitsToBytes(h)), sync)
  BY <1>1, ParseAt DEF R
<1> QED BY <1>3, <1>4, <1>5, <1>6, <1>7 DEF R

-----------------------------------------------------------------------------
(* What a CRC detects *)

(* One step of two registers *)
Alike(a, b, i) == a[i] = b[i]

LEMMA StepBack ==
  ASSUME NEW crc, CrcOK(crc), NEW W, W = Len(crc.poly), W # 0, crc.poly[W] = 1,
         NEW a \in Seq(Bit), NEW b \in Seq(Bit), Len(a) = W, Len(b) = W,
         NEW x \in Bit, NEW y \in Bit,
         Alike(CrcStep(crc, a, x), CrcStep(crc, b, y), W)
  PROVE  /\ Alike(a, b, 1) <=> x = y
         /\ \A i \in 1 .. W - 1 :
               Alike(a, b, i + 1) <=> Alike(CrcStep(crc, a, x), CrcStep(crc, b, y), i)
<1> DEFINE sa == [i \in 1 .. W |-> IF i < W THEN a[i + 1] ELSE 0]
           sb == [i \in 1 .. W |-> IF i < W THEN b[i + 1] ELSE 0]
           A == CrcStep(crc, a, x)
           B == CrcStep(crc, b, y)
<1>1. W \in Nat \ {0} /\ crc.poly \in Seq(Bit)
  BY LenProperties DEF CrcOK
<1>2. A = IF a[1] # x THEN [i \in 1 .. W |-> (sa[i] + crc.poly[i]) % 2] ELSE sa
  <2>1. Len(sa) = W
    BY <1>1
  <2> QED BY <2>1 DEF CrcStep, Xor
<1>3. B = IF b[1] # y THEN [i \in 1 .. W |-> (sb[i] + crc.poly[i]) % 2] ELSE sb
  <2>1. Len(sb) = W
    BY <1>1
  <2> QED BY <2>1 DEF CrcStep, Xor
<1>4. a[1] \in Bit /\ b[1] \in Bit
  <2>1. 1 \in 1 .. Len(a) /\ 1 \in 1 .. Len(b)
    BY <1>1
  <2> QED BY <2>1, ElementOfSeq
<1>5. A[W] = (IF a[1] # x THEN 1 ELSE 0) /\ B[W] = (IF b[1] # y THEN 1 ELSE 0)
  <2>1. W \in 1 .. W /\ sa[W] = 0 /\ sb[W] = 0 /\ (0 + 1) % 2 = 1
    BY <1>1
  <2> HIDE DEF sa, sb, A, B
  <2> QED BY <1>2, <1>3, <2>1
<1>6. (a[1] # x) <=> (b[1] # y)
  <2>1. A[W] = B[W]
    BY DEF Alike
  <2> HIDE DEF A, B
  <2> QED BY <1>5, <2>1
<1>7. Alike(a, b, 1) <=> x = y
  BY <1>4, <1>6 DEF Alike, Bit
<1>8. ASSUME NEW i \in 1 .. W - 1 PROVE Alike(a, b, i + 1) <=> Alike(A, B, i)
  <2>1. i \in 1 .. W /\ i + 1 \in 1 .. W /\ i < W
    BY <1>1
  <2>2. sa[i] = a[i + 1] /\ sb[i] = b[i + 1]
    BY <2>1
  <2>3. a[i + 1] \in Bit /\ b[i + 1] \in Bit /\ crc.poly[i] \in Nat
    BY <1>1, <2>1, ElementOfSeq, BitIs
  <2> HIDE DEF sa, sb, A, B
  <2>4. CASE a[1] # x
    <3>1. A[i] = (a[i + 1] + crc.poly[i]) % 2 /\ B[i] = (b[i + 1] + crc.poly[i]) % 2
      BY <1>2, <1>3, <1>6, <2>1, <2>2, <2>4
    <3> DEFINE u == a[i + 1]
               v == b[i + 1]
               s == crc.poly[i]
    <3>2. u \in Bit /\ v \in Bit /\ s \in Nat
      BY <2>3
    <3>3. A[i] = (u + s) % 2 /\ B[i] = (v + s) % 2
      BY <3>1
    <3> HIDE DEF u, v, s
    <3>4. (u + s) % 2 = (v + s) % 2 => u = v
      BY <3>2, BitSum
    <3>5. A[i] = B[i] <=> u = v
      BY <3>3, <3>4
    <3> QED BY <3>5 DEF Alike, u, v
  <2>5. CASE ~ (a[1] # x)
    BY <1>2, <1>3, <1>6, <2>2, <2>5 DEF Alike
  <2> QED BY <2>4, <2>5
<1> QED BY <1>7, <1>8

(* Bits and their CRC, when a burst no longer than the CRC hits them, are  *)
(* not bits and their CRC again, unless the bits are the same.             *)
Hits(x, y, c, e, lo, m) ==
    /\ \A i \in 1 .. Len(x) : i \notin lo + 1 .. lo + m => x[i] = y[i]
    /\ \A i \in 1 .. Len(c) : Len(x) + i \notin lo + 1 .. lo + m => c[i] = e[i]

LEMMA CrcCatches ==
  ASSUME NEW crc, CrcOK(crc), NEW W, W = Len(crc.poly), W # 0, crc.poly[W] = 1,
         NEW x \in Seq(Bit), NEW y \in Seq(Bit), NEW N, N = Len(x), N = Len(y),
         NEW X, NEW Y, Run(crc, x, X), Run(crc, y, Y),
         NEW lo \in Int, NEW m \in Nat, m <= W, Hits(x, y, X[N], Y[N], lo, m)
  PROVE  x = y
<1> DEFINE U(t) == IF t <= N THEN x[t] = y[t] ELSE X[N][t - N] = Y[N][t - N]
           Agree(j) == \A i \in 1 .. W : Alike(X[j], Y[j], i) <=> U(j + i)
           first == IF lo < 0 THEN 0 ELSE lo
<1>1. W \in Nat \ {0} /\ N \in Nat
  BY LenProperties DEF CrcOK
<1>2. /\ \A j \in 0 .. N : X[j] \in Seq(Bit) /\ Len(X[j]) = W /\ Y[j] \in Seq(Bit) /\ Len(Y[j]) = W
      /\ \A j \in 1 .. N : X[j] = CrcStep(crc, X[j - 1], x[j]) /\ Y[j] = CrcStep(crc, Y[j - 1], y[j])
      /\ X[0] = Y[0]
  BY DEF Run
<1>3. first \in Nat /\ lo <= first /\ (first # 0 => first = lo)
  OBVIOUS
<1>4. ASSUME NEW t \in 1 .. N + W, t <= first \/ first + W < t PROVE U(t)
  <2>1. t \notin lo + 1 .. lo + m
    <3>1. t \in Int /\ t >= 1
      BY <1>1
    <3> HIDE DEF first
    <3>2. CASE t <= first
      BY <1>3, <3>1, <3>2
    <3>3. CASE first + W < t
      BY <1>1, <1>3, <3>1, <3>3
    <3> QED BY <1>4, <3>2, <3>3
  <2>2. CASE t <= N
    <3>1. t \in 1 .. Len(x)
      BY <1>1, <2>2
    <3> QED BY <2>1, <2>2, <3>1 DEF Hits
  <2>3. CASE ~ (t <= N)
    <3>1. t - N \in 1 .. W /\ N + (t - N) = t
      BY <1>1, <2>3
    <3>2. Len(X[N]) = W
      BY <1>1, <1>2
    <3>3. t - N \in 1 .. Len(X[N]) /\ Len(x) + (t - N) = t
      BY <3>1, <3>2
    <3>4. X[N][t - N] = Y[N][t - N]
      BY <2>1, <3>3 DEF Hits
    <3> QED BY <2>3, <3>4
  <2> QED BY <2>2, <2>3
<1>5. Agree(N)
  <2>1. ASSUME NEW i \in 1 .. W PROVE Alike(X[N], Y[N], i) <=> U(N + i)
    <3>1. ~ (N + i <= N) /\ (N + i) - N = i
      BY <1>1
    <3> QED BY <3>1 DEF Alike
  <2> QED BY <2>1
<1>6. ASSUME NEW j \in 1 .. N, first < j, Agree(j) PROVE Agree(j - 1)
  <2> DEFINE a == X[j - 1]
             b == Y[j - 1]
  <2>1. j - 1 \in 0 .. N /\ j \in 0 .. N /\ j \in Nat
    BY <1>1
  <2>2. a \in Seq(Bit) /\ Len(a) = W /\ b \in Seq(Bit) /\ Len(b) = W
        /\ X[j] = CrcStep(crc, a, x[j]) /\ Y[j] = CrcStep(crc, b, y[j])
        /\ x[j] \in Bit /\ y[j] \in Bit
    BY <1>2, <2>1, ElementOfSeq
  <2>3. U(j + W)
    <3>1. j + W \in 1 .. N + W /\ first + W < j + W
      <4> HIDE DEF first
      <4> QED BY <1>1, <1>3, <1>6
    <3> HIDE DEF U, first
    <3> QED BY <1>4, <3>1
  <2>4. Alike(X[j], Y[j], W)
    <3> HIDE DEF U
    <3>1. W \in 1 .. W
      BY <1>1
    <3> QED BY <1>6, <2>3, <3>1
  <2> HIDE DEF a, b
  <2>5. /\ Alike(a, b, 1) <=> x[j] = y[j]
        /\ \A i \in 1 .. W - 1 : Alike(a, b, i + 1) <=> Alike(X[j], Y[j], i)
    <3> DEFINE xj == x[j]
               yj == y[j]
    <3>1. /\ a \in Seq(Bit) /\ b \in Seq(Bit) /\ Len(a) = W /\ Len(b) = W
          /\ xj \in Bit /\ yj \in Bit
          /\ Alike(CrcStep(crc, a, xj), CrcStep(crc, b, yj), W)
      BY <2>2, <2>4
    <3> HIDE DEF xj, yj
    <3>2. /\ Alike(a, b, 1) <=> xj = yj
          /\ \A i \in 1 .. W - 1 :
                Alike(a, b, i + 1) <=> Alike(CrcStep(crc, a, xj), CrcStep(crc, b, yj), i)
      BY ONLY CrcOK(crc), W = Len(crc.poly), W # 0, crc.poly[W] = 1, <3>1, StepBack
    <3> QED BY <2>2, <3>2 DEF xj, yj
  <2>6. U(j) <=> x[j] = y[j]
    BY <1>1
  <2> HIDE DEF U
  <2>7. ASSUME NEW i \in 1 .. W PROVE Alike(a, b, i) <=> U((j - 1) + i)
    <3>1. CASE i = 1
      <4>1. (j - 1) + 1 = j
        BY <2>1
      <4> QED BY <2>5, <2>6, <3>1, <4>1
    <3>2. CASE i # 1
      <4>1. i - 1 \in 1 .. W - 1 /\ (i - 1) + 1 = i /\ (j - 1) + i = j + (i - 1) /\ i - 1 \in 1 .. W
        BY <1>1, <2>1, <3>2
      <4>2. Alike(a, b, i) <=> Alike(X[j], Y[j], i - 1)
        BY <2>5, <4>1
      <4>3. Alike(X[j], Y[j], i - 1) <=> U(j + (i - 1))
        BY <1>6, <4>1
      <4> QED BY <4>1, <4>2, <4>3
    <3> QED BY <3>1, <3>2
  <2> QED BY <2>7 DEF a, b
<1> HIDE DEF Agree, first
<1>7. ASSUME first < N PROVE Agree(first)
  <2> DEFINE n == N - first
             T == {k \in 0 .. n : Agree(N - k)}
  <2>1. n \in Nat
    BY <1>1, <1>3, <1>7
  <2>2. 0 \in T
    <3>1. N - 0 = N /\ 0 \in 0 .. n
      BY <1>1, <2>1
    <3> QED BY <1>5, <3>1
  <2>3. ASSUME NEW k \in 0 .. n - 1, k \in T PROVE k + 1 \in T
    <3>1. N - k \in 1 .. N /\ first < N - k /\ (N - k) - 1 = N - (k + 1) /\ k + 1 \in 0 .. n
      BY <1>1, <1>3, <2>1
    <3> QED BY <1>6, <2>3, <3>1
  <2>4. n \in 0 .. n /\ N - n = first
    BY <1>1, <1>3, <2>1
  <2> HIDE DEF T, n
  <2>5. n \in T
    BY <2>1, <2>2, <2>3, <2>4, BoundedInduction
  <2> QED BY <2>4, <2>5 DEF T
<1>8. ASSUME first < N PROVE X[first] = Y[first]
  <2> DEFINE S == {j \in 0 .. first : X[j] = Y[j]}
  <2>1. 0 \in S
    BY <1>2, <1>3
  <2>2. ASSUME NEW j \in 0 .. first - 1, j \in S PROVE j + 1 \in S
    <3>1. j + 1 \in 1 .. N /\ j + 1 <= first /\ (j + 1) - 1 = j /\ j + 1 \in 1 .. N + W /\ j + 1 \in 0 .. first
      BY <1>1, <1>3, <1>8
    <3>2. x[j + 1] = y[j + 1]
      <4>1. U(j + 1)
        <5> HIDE DEF U
        <5> QED BY <1>4, <3>1
      <4>2. j + 1 <= N
        BY <1>1, <3>1
      <4> QED BY <4>1, <4>2
    <3> QED BY <1>2, <2>2, <3>1, <3>2
  <2>3. first \in 0 .. first
    BY <1>3
  <2> HIDE DEF S
  <2>4. first \in S
    BY <1>3, <2>1, <2>2, <2>3, BoundedInduction
  <2> QED BY <2>4 DEF S
<1>9. ASSUME NEW t \in 1 .. N PROVE x[t] = y[t]
  <2>1. U(t) => x[t] = y[t]
    BY <1>1
  <2>2. CASE t <= first \/ first + W < t
    <3>1. t \in 1 .. N + W
      BY <1>1
    <3> HIDE DEF U
    <3> QED BY <1>4, <2>1, <2>2, <3>1
  <2>3. CASE ~ (t <= first \/ first + W < t)
    <3>1. first < N /\ t - first \in 1 .. W /\ first + (t - first) = t
      BY <1>1, <1>3, <2>3
    <3>2. Alike(X[first], Y[first], t - first)
      BY <1>8, <3>1 DEF Alike
    <3> HIDE DEF U
    <3>3. U(t)
      BY <1>7, <3>1, <3>2 DEF Agree
    <3> QED BY <2>1, <3>3
  <2> QED BY <2>2, <2>3
<1> QED BY <1>9, SeqEqual

LEMMA CrcBits ==
  ASSUME NEW crc, CrcOK(crc), Len(crc.poly) = crc.bytes * ByteBits, NEW data \in Seq(Nat)
  PROVE  /\ BytesToBits(Crc(crc, data)) = CrcRegister(crc, data)
         /\ BytesToBits(Crc(crc, data)) \in Seq(Bit)
         /\ Len(BytesToBits(Crc(crc, data))) = Len(crc.poly)
<1> DEFINE bits == BytesToBits(data)
           n == Len(bits)
           r == CrcRegister(crc, data)
<1>1. PICK X : Run(crc, bits, X) /\ r = X[n]
  BY CrcRuns
<1>2. n \in 0 .. n
  <2>1. n \in Nat
    BY BytesToBitsType, LenProperties
  <2> HIDE DEF n
  <2> QED BY <2>1
<1>3. r \in Seq(Bit) /\ Len(r) = Len(crc.poly)
  BY <1>1, <1>2 DEF Run
<1> HIDE DEF r
<1>4. BytesToBits(IntToBytes(BitsToInt(r), crc.bytes)) = r
  <2>1. crc.bytes \in Nat
    BY DEF CrcOK
  <2> QED BY <1>3, <2>1, BitsOfNumber
<1> QED BY <1>3, <1>4 DEF Crc, r

(* No burst as long as the CRC's register goes unnoticed, wherever it hits *)
(* the bytes and the CRC behind them: what passes the check is what was    *)
(* sent.                                                                   *)
THEOREM BurstIsNoticed ==
  ASSUME NEW crc, CrcOK(crc), Divisor(crc),
         NEW sentBytes \in Seq(Byte), NEW heard \in Seq(Byte), Len(sentBytes) = Len(heard),
         NEW lo \in Int, NEW m \in Nat, m <= Len(crc.poly),
         Hits(BytesToBits(sentBytes), BytesToBits(heard),
              BytesToBits(Crc(crc, sentBytes)), BytesToBits(Crc(crc, heard)), lo, m)
  PROVE  heard = sentBytes
<1> DEFINE x == BytesToBits(sentBytes)
           y == BytesToBits(heard)
           N == Len(x)
           W == Len(crc.poly)
<1>1. sentBytes \in Seq(Nat) /\ heard \in Seq(Nat)
  BY BytesAreNumbers
<1>2. x \in Seq(Bit) /\ y \in Seq(Bit) /\ Len(y) = N
  <2>1. /\ x \in Seq(Bit) /\ Len(x) = Len(sentBytes) * ByteBits
        /\ y \in Seq(Bit) /\ Len(y) = Len(heard) * ByteBits
    BY <1>1, BytesToBitsType
  <2> QED BY <2>1
<1>3. PICK X : Run(crc, x, X) /\ CrcRegister(crc, sentBytes) = X[N]
  BY <1>1, CrcRuns
<1>4. PICK Y : Run(crc, y, Y) /\ CrcRegister(crc, heard) = Y[Len(y)]
  BY <1>1, CrcRuns
<1>5. /\ BytesToBits(Crc(crc, sentBytes)) = X[N]
      /\ BytesToBits(Crc(crc, heard)) = Y[N]
  <2>1. Len(crc.poly) = crc.bytes * ByteBits
    BY DEF Divisor
  <2> QED BY <1>1, <1>2, <1>3, <1>4, <2>1, CrcBits
<1>6. W # 0 /\ crc.poly[W] = 1
  <2>1. crc.poly \in Seq(Bit) /\ crc.poly # <<>> /\ crc.poly[W] = 1
    BY DEF Divisor, CrcOK
  <2> QED BY <2>1, EmptySeq
<1>7. Hits(x, y, X[N], Y[N], lo, m)
  BY <1>5
<1> HIDE DEF x, y, N, W
<1>8. x = y
  <2>1. W = Len(crc.poly) /\ N = Len(x) /\ N = Len(y) /\ m <= W
    BY <1>2 DEF W, N
  <2>2. Run(crc, x, X) /\ Run(crc, y, Y)
    BY <1>3, <1>4
  <2> QED BY <1>2, <1>6, <1>7, <2>1, <2>2, CrcCatches
<1> QED BY <1>8, BytesRoundTrip DEF x, y

(* The header, filled up to whole bytes, and its CRC *)
LEMMA HeaderCaught ==
  ASSUME NEW p, ProfileOK(p), Divisor(p.headerCrc),
         NEW h \in Seq(Bit), NEW g \in Seq(Bit), Len(h) = HeaderBits(p), Len(g) = HeaderBits(p),
         NEW e \in Seq(Bit), Len(e) = p.headerCrc.bytes * ByteBits,
         BitsToBytes(e) = Crc(p.headerCrc, BitsToBytes(g)),
         NEW lo \in Int, NEW n \in Nat, n + Filled(p) <= Len(p.headerCrc.poly),
         Hits(h, g, HeaderCrcBits(p, h), e, lo, n)
  PROVE  g = h /\ e = HeaderCrcBits(p, h)
<1> DEFINE HB == HeaderBits(p)
           F == Filled(p)
           N == BytesFor(HB) * ByteBits
           crc == p.headerCrc
           W == Len(crc.poly)
           u == BitsToBytes(h)
           v == BitsToBytes(g)
           x == BytesToBits(u)
           y == BytesToBits(v)
           c == HeaderCrcBits(p, h)
<1>0. CrcOK(crc) /\ Len(crc.poly) = crc.bytes * ByteBits /\ crc.bytes \in Nat
  BY DEF Divisor, ProfileOK, CrcOK
<1>1. HB \in Nat /\ N \in Nat /\ HB <= N /\ F = N - HB
  <2>1. HB \in Nat
    BY DEF HeaderBits, ProfileOK
  <2> HIDE DEF HB
  <2> QED BY <2>1, BytesForEnough DEF Filled, HB
<1>2. u \in Seq(Byte) /\ v \in Seq(Byte) /\ Len(u) = Len(v)
  BY BitsToBytesIs
<1>3. /\ Len(x) = N /\ Len(y) = N
      /\ \A i \in 1 .. N : x[i] = IF i <= HB THEN h[i] ELSE 0
      /\ \A i \in 1 .. N : y[i] = IF i <= HB THEN g[i] ELSE 0
  BY BitsFilled
<1>4. e = BytesToBits(Crc(crc, v)) /\ c = BytesToBits(Crc(crc, u)) /\ Len(e) = W /\ Len(c) = W
  <2>1. BytesToBits(BitsToBytes(e)) = e
    BY <1>0, WholeBytes
  <2>2. u \in Seq(Nat)
    BY <1>2, BytesAreNumbers
  <2>3. Len(BytesToBits(Crc(crc, u))) = W
    BY <1>0, <2>2, CrcBits
  <2> QED BY <1>0, <2>1, <2>3 DEF HeaderCrcBits
<1>5. W \in Nat
  BY <1>0, LenProperties DEF CrcOK
<1>h. /\ \A i \in 1 .. HB : i \notin lo + 1 .. lo + n => g[i] = h[i]
      /\ \A i \in 1 .. W : HB + i \notin lo + 1 .. lo + n => e[i] = c[i]
  BY <1>4 DEF Hits
<1> HIDE DEF HB, N, F, W, x, y, u, v, c
<1>6. Hits(x, y, c, e, lo, n + F)
  <2>1. ASSUME NEW i \in 1 .. Len(x), i \notin lo + 1 .. lo + (n + F) PROVE x[i] = y[i]
    <3>1. i \in 1 .. N
      BY <1>3
    <3>2. CASE i <= HB
      <4>1. i \in 1 .. HB /\ i \notin lo + 1 .. lo + n
        BY <1>1, <2>1, <3>1, <3>2
      <4>2. g[i] = h[i]
        BY <1>h, <4>1
      <4> QED BY <1>3, <3>1, <3>2, <4>2
    <3>3. CASE ~ (i <= HB)
      BY <1>3, <3>1, <3>3
    <3> QED BY <3>2, <3>3
  <2>2. ASSUME NEW i \in 1 .. Len(c), Len(x) + i \notin lo + 1 .. lo + (n + F) PROVE c[i] = e[i]
    <3>1. i \in 1 .. W /\ N + i \notin lo + 1 .. lo + (n + F) /\ i \in 1 .. Len(e)
      BY <1>3, <1>4, <2>2
    <3>2. HB + i \notin lo + 1 .. lo + n
      BY <1>1, <1>5, <3>1
    <3> QED BY <1>h, <3>1, <3>2
  <2> QED BY <2>1, <2>2 DEF Hits
<1>7. n + F \in Nat /\ n + F <= W
  BY <1>1 DEF F, W
<1>8. v = u
  BY <1>0, <1>2, <1>4, <1>6, <1>7, BurstIsNoticed DEF x, y, W
<1>9. ASSUME NEW i \in 1 .. HB PROVE g[i] = h[i]
  <2>1. i \in 1 .. N /\ i <= HB
    BY <1>1
  <2> QED BY <1>3, <1>8, <2>1 DEF x, y
<1>10. g = h
  BY <1>9, SeqEqual DEF HB
<1> QED BY <1>4, <1>8, <1>10 DEF c

(* The bits of a part of the bytes *)
BitsIn(t, s, n, at) ==
    /\ t \in Seq(Byte) /\ Len(t) = n
    /\ Len(BytesToBits(t)) = n * ByteBits
    /\ \A i \in 1 .. n * ByteBits :
          at + i \in 1 .. Len(s) * ByteBits /\ BytesToBits(t)[i] = BytesToBits(s)[at + i]

LEMMA SliceBits ==
  ASSUME NEW s \in Seq(Byte), NEW from \in Nat, NEW n \in Nat,
         NEW to, to = from + n, to <= Len(s), NEW at, at = from * ByteBits
  PROVE  BitsIn(Slice(s, from, to), s, n, at)
<1> DEFINE t == Slice(s, from, to)
           len == Len(s)
<1>1. t \in Seq(Byte) /\ Len(t) = n /\ \A k \in 1 .. n : t[k] = s[from + k]
  <2>1. from <= to /\ to \in Nat /\ to - from = n
    OBVIOUS
  <2>2. /\ t \in Seq(Byte) /\ Len(t) = to - from
        /\ \A k \in 1 .. to - from : t[k] = s[from + k]
    <3>1. s \in Seq(Byte) /\ from \in Nat /\ to \in Nat /\ from <= to /\ to <= Len(s)
      BY <2>1
    <3> QED BY ONLY <3>1, SliceIs
  <2> QED BY <2>1, <2>2
<1>2. s \in Seq(Nat) /\ t \in Seq(Nat) /\ len \in Nat /\ to <= len
  BY <1>1, BytesAreNumbers, LenProperties
<1> HIDE DEF t, len
<1>3. Len(BytesToBits(t)) = n * ByteBits
  BY <1>1, <1>2, BytesToBitsType
<1>4. ASSUME NEW i \in 1 .. n * ByteBits
      PROVE  /\ at + i \in 1 .. len * ByteBits
             /\ BytesToBits(t)[i] = BytesToBits(s)[at + i]
  <2>1. PICK b \in 1 .. n, k \in 1 .. ByteBits : i = (b - 1) * ByteBits + k
    BY <1>2, ByteAssumption, PlaceOf
  <2>2. from + b \in 1 .. len
    BY <1>2
  <2>3. at + i = ((from + b) - 1) * ByteBits + k
    <3>1. ((from + b) - 1) * ByteBits = from * ByteBits + (b - 1) * ByteBits
      BY ByteAssumption
    <3> DEFINE x == from * ByteBits
               y == (b - 1) * ByteBits
    <3>2. x \in Int /\ y \in Int
      <4>1. b - 1 \in Int /\ from \in Int /\ ByteBits \in Int
        BY ByteAssumption
      <4> QED BY <4>1, ProductInt
    <3> HIDE DEF x, y
    <3>3. x + (y + k) = (x + y) + k
      BY <3>2
    <3> QED BY <2>1, <3>1, <3>3 DEF x, y
  <2>4. ((from + b) - 1) * ByteBits + k \in 1 .. len * ByteBits
    BY <1>2, <2>2, ByteAssumption, InPlaces
  <2>5. BytesToBits(s)[((from + b) - 1) * ByteBits + k] = IntToBits(s[from + b], ByteBits)[k]
    BY <1>2, <2>2, BytesToBitsAt DEF len
  <2>6. b \in 1 .. Len(t)
    BY <1>1
  <2>7. BytesToBits(t)[i] = IntToBits(t[b], ByteBits)[k]
    BY <1>2, <2>1, <2>6, BytesToBitsAt
  <2> QED BY <1>1, <2>3, <2>4, <2>5, <2>7
<1> QED BY <1>1, <1>3, <1>4 DEF BitsIn, t, len

LEMMA RegionHolds ==
  ASSUME NEW p, ProfileOK(p), NEW payload \in Seq(Byte)
  PROVE  Len(payload) + p.payloadCrc.bytes <= Len(PayloadRegion(p, payload))
<1> DEFINE n == Len(payload)
           B == p.payloadCrc.bytes
           crc == Crc(p.payloadCrc, payload)
           body == payload \o crc
           pad == [i \in 1 .. Padding(p, Len(body)) |-> p.padByte]
<1>1. crc \in Seq(Byte) /\ Len(crc) = B /\ B \in Nat /\ n \in Nat
  BY BytesAreNumbers, CrcType, LenProperties DEF ProfileOK, CrcOK
<1> HIDE DEF crc, B
<1>2. body \in Seq(Byte) /\ Len(body) = n + B
  BY <1>1, ConcatProperties
<1> HIDE DEF body, n
<1>3. pad \in Seq(Byte)
  <2>1. n + B \in Nat
    BY <1>1
  <2>2. Padding(p, Len(body)) \in Nat /\ p.padByte \in Byte
    BY <1>2, <2>1, PaddingNat DEF ProfileOK
  <2> QED BY <2>2
<1> HIDE DEF pad
<1>4. Len(body \o pad) = (n + B) + Len(pad) /\ Len(pad) \in Nat
  BY <1>2, <1>3, ConcatProperties, LenProperties
<1>5. PayloadRegion(p, payload) = body \o pad
  BY DEF PayloadRegion, PadRegion, pad, body, crc
<1>6. n + B <= Len(body \o pad)
  BY <1>1, <1>4
<1> QED BY <1>5, <1>6 DEF n, B

(* Bits that differ from others in n places behind lo, and nowhere else *)
Struck(a, b, lo, n) ==
    /\ a \in Seq(Bit) /\ b \in Seq(Bit) /\ Len(a) = Len(b)
    /\ \A i \in 1 .. Len(b) : i \notin lo + 1 .. lo + n => a[i] = b[i]

(* The payload and its CRC, in the region they share with the padding *)
LEMMA PayloadCaught ==
  ASSUME NEW p, ProfileOK(p), Divisor(p.payloadCrc), NEW payload \in Seq(Byte),
         NEW len, len = Len(payload), NEW B, B = p.payloadCrc.bytes,
         NEW data, data = BytesToBits(PayloadRegion(p, payload)),
         NEW q, NEW lo \in Int, NEW n \in Nat, n <= Len(p.payloadCrc.poly), Struck(q, data, lo, n),
         NEW got, got = BitsToBytes(q),
         Slice(got, len, len + B) = Crc(p.payloadCrc, Slice(got, 0, len))
  PROVE  Slice(got, 0, len) = payload
<1> DEFINE region == PayloadRegion(p, payload)
           crc == p.payloadCrc
           heard == Slice(got, 0, len)
           N == len * ByteBits
           W == B * ByteBits
           M == Len(region) * ByteBits
<1>0. /\ q \in Seq(Bit) /\ Len(q) = Len(data)
      /\ \A i \in 1 .. Len(data) : i \notin lo + 1 .. lo + n => q[i] = data[i]
  BY DEF Struck
<1>1. /\ CrcOK(crc) /\ B \in Nat /\ len \in Nat /\ W = Len(crc.poly)
  BY LenProperties DEF ProfileOK, CrcOK, Divisor
<1>2. region \in Seq(Byte) /\ Len(region) \in Nat /\ len + B <= Len(region)
  BY PayloadRegionType, RegionHolds, LenProperties
<1>3. data \in Seq(Bit) /\ Len(data) = M
  BY <1>2, BytesAreNumbers, BytesToBitsType
<1>4. got \in Seq(Byte) /\ Len(got) = Len(region) /\ BytesToBits(got) = q
  <2>1. Len(q) = M
    BY <1>0, <1>3
  <2>2. BytesToBits(got) = q
    BY <1>0, <1>2, <2>1, WholeBytes
  <2>3. BytesFor(M) = Len(region)
    BY <1>2, BytesForWhole
  <2> QED BY <1>0, <2>1, <2>2, <2>3, BitsToBytesIs
<1>5. Slice(region, 0, len) = payload /\ Slice(region, len, len + B) = Crc(crc, payload)
  BY RegionSlices
<1>6. Slice(got, len, len + B) = Crc(crc, heard)
  OBVIOUS
<1> HIDE DEF region, W, N, M, crc
<1> DEFINE end == len + B
           zero == 0
<1>7. /\ zero \in Nat /\ len = zero + len /\ zero = zero * ByteBits /\ end = len + B
      /\ len <= Len(region) /\ len <= Len(got) /\ end <= Len(got) /\ end <= Len(region)
  BY <1>1, <1>2, <1>4, ByteAssumption
<1>12. \A i \in 1 .. N : zero + i = i
  <2>1. N \in Nat
    BY <1>1, ByteAssumption, ProductNat DEF N
  <2> QED BY <2>1
<1>14. Slice(region, len, end) = Crc(crc, payload) /\ Slice(got, len, end) = Crc(crc, heard)
      /\ Slice(region, zero, len) = payload /\ Slice(got, zero, len) = heard
  BY <1>5, <1>6
<1> HIDE DEF end, zero, heard
<1>8. /\ BitsIn(heard, got, len, zero) /\ BitsIn(payload, region, len, zero)
      /\ BitsIn(Crc(crc, heard), got, B, N) /\ BitsIn(Crc(crc, payload), region, B, N)
  <2>1. N = len * ByteBits
    BY DEF N
  <2>2. /\ BitsIn(Slice(got, zero, len), got, len, zero)
        /\ BitsIn(Slice(region, zero, len), region, len, zero)
    BY <1>1, <1>2, <1>4, <1>7, SliceBits
  <2>3. /\ BitsIn(Slice(got, len, end), got, B, N)
        /\ BitsIn(Slice(region, len, end), region, B, N)
    BY <1>1, <1>2, <1>4, <1>7, <2>1, SliceBits
  <2> QED BY <1>14, <2>2, <2>3
<1>9. /\ heard \in Seq(Byte) /\ Len(heard) = len
      /\ Len(BytesToBits(payload)) = N
      /\ \A i \in 1 .. N : /\ zero + i \in 1 .. M
                           /\ BytesToBits(heard)[i] = q[zero + i]
                           /\ BytesToBits(payload)[i] = data[zero + i]
  <2>1. BytesToBits(region) = data
    BY DEF region
  <2> QED BY <1>4, <1>8, <2>1 DEF BitsIn, N, M
<1>10. /\ Len(BytesToBits(Crc(crc, payload))) = W
       /\ \A i \in 1 .. W : /\ N + i \in 1 .. M
                            /\ BytesToBits(Crc(crc, heard))[i] = q[N + i]
                            /\ BytesToBits(Crc(crc, payload))[i] = data[N + i]
  <2>1. BytesToBits(region) = data
    BY DEF region
  <2> QED BY <1>4, <1>8, <2>1 DEF BitsIn, W, M
<1>13. Hits(BytesToBits(payload), BytesToBits(heard),
            BytesToBits(Crc(crc, payload)), BytesToBits(Crc(crc, heard)), lo, n)
  <2>1. ASSUME NEW i \in 1 .. N, i \notin lo + 1 .. lo + n
        PROVE  BytesToBits(payload)[i] = BytesToBits(heard)[i]
    <3>1. zero + i = i /\ zero + i \in 1 .. Len(data)
      BY <1>3, <1>9, <1>12
    <3> QED BY <1>0, <1>9, <2>1, <3>1
  <2>2. ASSUME NEW i \in 1 .. W, N + i \notin lo + 1 .. lo + n
        PROVE  BytesToBits(Crc(crc, payload))[i] = BytesToBits(Crc(crc, heard))[i]
    BY <1>0, <1>3, <1>10, <2>2
  <2> QED BY <1>9, <1>10, <2>1, <2>2 DEF Hits
<1>15. heard = payload
  <2>1. Divisor(crc) /\ n <= Len(crc.poly)
    BY DEF crc
  <2> QED BY <1>1, <1>9, <1>13, <2>1, BurstIsNoticed
<1> QED BY <1>15 DEF heard

-----------------------------------------------------------------------------
(* A frame whose bits a burst hits *)

LEMMA WhitenStruck ==
  ASSUME NEW p, ProfileOK(p), NEW a, NEW b, NEW lo, NEW n, Struck(a, b, lo, n)
  PROVE  Struck(Whiten(p, a), Whiten(p, b), lo, n)
<1>1. a \in Seq(Bit) /\ b \in Seq(Bit) /\ Len(a) = Len(b)
  BY DEF Struck
<1>2. CASE ~ p.whitening.enabled \/ Len(b) = 0
  BY <1>1, <1>2, WhitenOff
<1>3. CASE p.whitening.enabled /\ Len(b) # 0
  <2>1. PICK states \in Seq(Nat) :
            /\ Len(states) = Len(b)
            /\ \A c \in Seq(Bit) : Len(c) = Len(b) => Whiten(p, c) = Xor(c, states)
    BY <1>1, <1>3, WhitenIs
  <2>2. Whiten(p, a) = Xor(a, states) /\ Whiten(p, b) = Xor(b, states)
    BY <1>1, <2>1
  <2>3. ASSUME NEW i \in 1 .. Len(b), i \notin lo + 1 .. lo + n
        PROVE  Xor(a, states)[i] = Xor(b, states)[i]
    BY <1>1, <2>3 DEF Struck, Xor
  <2>4. /\ Xor(a, states) \in Seq(Bit) /\ Len(Xor(a, states)) = Len(b)
        /\ Xor(b, states) \in Seq(Bit) /\ Len(Xor(b, states)) = Len(b)
    BY <1>1, <2>2, WhitenType
  <2> QED BY <2>2, <2>3, <2>4 DEF Struck
<1> QED BY <1>2, <1>3

LEMMA NearIsStruck ==
  ASSUME NEW a, NEW b, NEW f, NearAt(a, b, f)
  PROVE  \E l \in Int : Struck(a, b, l, 1)
<1>1. a \in Seq(Bit) /\ b \in Seq(Bit) /\ Len(a) = Len(b) /\ Len(b) \in Nat
      /\ \A i \in 1 .. Len(b) : i # f => a[i] = b[i]
  BY LenProperties DEF NearAt
<1> DEFINE N == Len(b)
           l == IF f \in 1 .. N THEN f - 1 ELSE 0
<1>2. N \in Nat
  BY <1>1
<1> HIDE DEF N
<1>3. l \in Int
  BY <1>2
<1>4. ASSUME NEW i \in 1 .. N, i \notin l + 1 .. l + 1 PROVE i # f
  BY <1>2, <1>4
<1> HIDE DEF l
<1>5. Struck(a, b, l, 1)
  BY <1>1, <1>4 DEF Struck, N
<1> QED BY <1>3, <1>5

(* What a burst makes of the data: one error stays one, a longer burst     *)
(* stays together where nothing is interleaved.                            *)
LEMMA RegionStruck ==
  ASSUME NEW p, ProfileOK(p), ~ p.fec.cc, NEW region \in Seq(Byte),
         Divides(p.rows, Len(Coded(p, region))),
         NEW r, NEW lo \in Int, NEW n \in Nat \ {0}, n <= 1 \/ p.rows <= 1,
         Struck(r, EncodeRegion(p, region), lo, n)
  PROVE  \E q \in Seq(Bit), l \in Int : /\ Struck(q, BytesToBits(region), l, n)
                                       /\ DecodeRegion(p, r) = BitsToBytes(q)
<1> DEFINE data == BytesToBits(region)
           rows == p.rows
           M == MatrixInterleave(data, rows)
           E == EncodeRegion(p, region)
           q == MatrixDeinterleave(Whiten(p, r), rows)
<1>1. data \in Seq(Bit) /\ rows \in Nat \ {0}
  BY BytesAreNumbers, BytesToBitsType DEF ProfileOK
<1>2. Coded(p, region) = data
  BY DEF Coded, FecEncode
<1>3. Divides(rows, Len(data))
  BY <1>2
<1>4. M \in Seq(Bit) /\ Len(M) = Len(data)
  BY <1>1, <1>3, InterleaveType
<1>5. E = Whiten(p, M)
  BY <1>2 DEF EncodeRegion
<1>6. Whiten(p, E) = M
  BY <1>4, <1>5, WhitenTwice
<1>7. MatrixDeinterleave(M, rows) = data
  BY <1>1, <1>3, DeinterleaveInverts
<1>8. DecodeRegion(p, r) = BitsToBytes(q)
  BY DEF DecodeRegion, FecDecode
<1> HIDE DEF data, E, q
<1>9. Struck(Whiten(p, r), M, lo, n)
  BY <1>6, WhitenStruck DEF E
<1>10. CASE rows <= 1
  <2>1. q = Whiten(p, r) /\ M = data
    BY <1>10 DEF MatrixDeinterleave, MatrixInterleave, q
  <2>2. Struck(q, data, lo, n) /\ q \in Seq(Bit)
    BY <1>9, <2>1 DEF Struck
  <2> QED BY <1>8, <2>2 DEF data
<1>11. CASE ~ (rows <= 1)
  <2>1. n = 1
    BY <1>11
  <2>2. NearAt(Whiten(p, r), M, lo + 1)
    <3>1. ASSUME NEW i, i # lo + 1 PROVE i \notin lo + 1 .. lo + 1
      BY <3>1
    <3> QED BY <1>9, <2>1, <3>1 DEF Struck, NearAt
  <2>3. \E f : NearAt(q, data, f)
    BY <1>1, <1>3, <1>4, <1>7, <2>2, DeinterleaveNear DEF q
  <2>4. q \in Seq(Bit) /\ \E l \in Int : Struck(q, data, l, 1)
    BY <2>3, NearIsStruck DEF NearAt
  <2> QED BY <1>8, <2>1, <2>4 DEF data
<1> QED BY <1>10, <1>11

(* A frame as it arrives, with a burst within reach of its CRCs *)
HitBy(p, s, bits, lo, n) ==
    /\ bits \in Seq(Bit) /\ Len(s) <= Len(bits)
    /\ lo \in Int /\ n \in Nat \ {0} /\ WithinReach(p, n)
    /\ \A i \in 1 .. Len(s) : i \notin lo + 1 .. lo + n => bits[i] = s[i]

(* A header the parser accepts, hit by a burst within reach, is the one    *)
(* that was built.                                                         *)
LEMMA StruckHeader ==
  ASSUME NEW p, ProfileOK(p), NEW payload \in Seq(Byte), NEW id, NEW count,
         CanBuild(p, payload, id, count), NEW s, s = BuildBits(p, payload, id, count),
         NEW bits, NEW lo, NEW n, HitBy(p, s, bits, lo, n),
         NEW g, g = Slice(bits, HeaderAt(p), CrcAt(p)),
         NEW e, e = Slice(bits, CrcAt(p), RegionAt(p)),
         BitsToBytes(e) = Crc(p.headerCrc, BitsToBytes(g))
  PROVE  g = SerializedHeader(p, payload, id, count) /\ e = HeaderCrcBits(p, g)
<1> DEFINE h == SerializedHeader(p, payload, id, count)
           c == HeaderCrcBits(p, h)
           H == HeaderAt(p)
           C == CrcAt(p)
           R == RegionAt(p)
           W == HeaderBits(p)
           b == p.headerCrc.bytes * ByteBits
           E == EncodedBits(p, Len(payload))
           N == Len(s)
           len == Len(bits)
           l == lo - H
<1>0. /\ bits \in Seq(Bit) /\ Len(s) <= Len(bits)
      /\ lo \in Int /\ n \in Nat \ {0} /\ WithinReach(p, n)
      /\ \A i \in 1 .. Len(s) : i \notin lo + 1 .. lo + n => bits[i] = s[i]
  BY DEF HitBy
<1>1. /\ H \in Nat /\ C \in Nat /\ R \in Nat /\ b \in Nat /\ W \in Nat
      /\ C = H + W /\ R = C + b
  BY PartSizes DEF CrcAt, RegionAt
<1>2. h \in Seq(Bit) /\ Len(h) = W /\ c \in Seq(Bit) /\ Len(c) = b /\ E \in Nat
  BY FrameParts DEF Parts
<1>3. s \in Seq(Bit) /\ N = R + E /\ PartAt(s, H, h) /\ PartAt(s, C, c)
  BY FrameLayout DEF Layout
<1>4. len \in Nat /\ N <= len
  BY <1>0, LenProperties
<1> HIDE DEF h, c, H, C, R, W, b, E, N, len
<1>5. g \in Seq(Bit) /\ Len(g) = W /\ \A k \in 1 .. W : g[k] = bits[H + k]
  <2>1. H <= C /\ C <= Len(bits) /\ C - H = W
    BY <1>1, <1>2, <1>3, <1>4 DEF len
  <2>2. bits \in Seq(Bit) /\ H \in Nat /\ C \in Nat /\ H <= C /\ C <= Len(bits)
        /\ g = Slice(bits, H, C)
    BY <1>0, <1>1, <2>1 DEF H, C
  <2>3. g \in Seq(Bit) /\ Len(g) = C - H /\ \A k \in 1 .. C - H : g[k] = bits[H + k]
    BY ONLY <2>2, SliceIs
  <2> QED BY <2>1, <2>3
<1>6. e \in Seq(Bit) /\ Len(e) = b /\ \A k \in 1 .. b : e[k] = bits[C + k]
  <2>1. C <= R /\ R <= Len(bits) /\ R - C = b
    BY <1>1, <1>2, <1>3, <1>4 DEF len
  <2>2. bits \in Seq(Bit) /\ C \in Nat /\ R \in Nat /\ C <= R /\ R <= Len(bits)
        /\ e = Slice(bits, C, R)
    BY <1>0, <1>1, <2>1 DEF R, C
  <2>3. e \in Seq(Bit) /\ Len(e) = R - C /\ \A k \in 1 .. R - C : e[k] = bits[C + k]
    BY ONLY <2>2, SliceIs
  <2> QED BY <2>1, <2>3
<1>7. l \in Int
  BY <1>0, <1>1
<1>8. ASSUME NEW i \in 1 .. W, i \notin l + 1 .. l + n PROVE g[i] = h[i]
  <2>1. H + i \in 1 .. N /\ H + i \notin lo + 1 .. lo + n
    BY <1>0, <1>1, <1>2, <1>3, <1>8
  <2>2. bits[H + i] = s[H + i]
    BY <1>0, <2>1 DEF N
  <2>3. s[H + i] = h[i]
    BY <1>2, <1>3 DEF PartAt
  <2> QED BY <1>5, <2>2, <2>3
<1>9. ASSUME NEW i \in 1 .. b, W + i \notin l + 1 .. l + n PROVE e[i] = c[i]
  <2>1. C + i \in 1 .. N /\ C + i \notin lo + 1 .. lo + n
    BY <1>0, <1>1, <1>2, <1>3, <1>9
  <2>2. bits[C + i] = s[C + i]
    BY <1>0, <2>1 DEF N
  <2>3. s[C + i] = c[i]
    BY <1>2, <1>3 DEF PartAt
  <2> QED BY <1>6, <2>2, <2>3
<1>10. Divisor(p.headerCrc) /\ n + Filled(p) <= Len(p.headerCrc.poly)
  BY <1>0 DEF WithinReach
<1> HIDE DEF l
<1>11. g = h /\ e = HeaderCrcBits(p, h)
  <2>1. /\ g \in Seq(Bit) /\ h \in Seq(Bit) /\ Len(h) = HeaderBits(p) /\ Len(g) = HeaderBits(p)
        /\ e \in Seq(Bit) /\ Len(e) = p.headerCrc.bytes * ByteBits
    BY <1>2, <1>5, <1>6 DEF W, b
  <2>2. Hits(h, g, HeaderCrcBits(p, h), e, l, n)
    BY <1>2, <1>8, <1>9 DEF Hits, c
  <2> QED BY ONLY ProfileOK(p), BitsToBytes(e) = Crc(p.headerCrc, BitsToBytes(g)),
                  <1>0, <1>7, <1>10, <2>1, <2>2, HeaderCaught
<1> QED BY <1>11 DEF h

(* The same for the payload: what the check of its CRC accepts was sent. *)
LEMMA StruckPayload ==
  ASSUME NEW p, ProfileOK(p), ~ p.fec.cc, NEW payload \in Seq(Byte), NEW id, NEW count,
         CanBuild(p, payload, id, count), NEW s, s = BuildBits(p, payload, id, count),
         NEW bits, NEW lo, NEW n, HitBy(p, s, bits, lo, n),
         NEW len, len = Len(payload), NEW end, end = RegionAt(p) + EncodedBits(p, len),
         NEW region, region = DecodeRegion(p, Slice(bits, RegionAt(p), end)),
         NEW B, B = p.payloadCrc.bytes,
         Slice(region, len, len + B) = Crc(p.payloadCrc, Slice(region, 0, len))
  PROVE  Slice(region, 0, len) = payload
<1> DEFINE R == RegionAt(p)
           E == EncodedBits(p, len)
           N == Len(s)
           M == Len(bits)
           t == EncodedPayload(p, payload)
           r == Slice(bits, R, end)
           l == lo - R
           whole == PayloadRegion(p, payload)
           data == BytesToBits(whole)
<1>0. /\ bits \in Seq(Bit) /\ Len(s) <= Len(bits)
      /\ lo \in Int /\ n \in Nat \ {0} /\ WithinReach(p, n)
      /\ \A i \in 1 .. Len(s) : i \notin lo + 1 .. lo + n => bits[i] = s[i]
  BY DEF HitBy
<1>1. R \in Nat /\ M \in Nat /\ N <= M
  BY <1>0, PartSizes, LenProperties
<1>2. /\ whole \in Seq(Byte) /\ Divides(p.rows, Len(Coded(p, whole)))
      /\ t \in Seq(Bit) /\ Len(t) = E /\ E \in Nat
  BY FrameParts DEF Parts
<1>3. N = R + E /\ PartAt(s, R, t)
  BY FrameLayout DEF Layout
<1>4. t = EncodeRegion(p, whole)
  BY DEF EncodedPayload
<1> HIDE DEF R, E, N, M, t, whole
<1>5. r \in Seq(Bit) /\ Len(r) = E /\ \A k \in 1 .. E : r[k] = bits[R + k]
  <2>1. end = R + E
    BY DEF R, E
  <2>2. R <= end /\ end <= Len(bits) /\ end - R = E /\ end \in Nat
    <3>1. R <= end /\ end - R = E /\ end \in Nat /\ end = N
      BY ONLY <1>1, <1>2, <1>3, <2>1
    <3>2. end <= M
      BY ONLY <1>1, <3>1
    <3> QED BY <3>1, <3>2 DEF M
  <2>3. bits \in Seq(Bit) /\ R \in Nat /\ end \in Nat /\ R <= end /\ end <= Len(bits)
    BY <1>0, <1>1, <2>2
  <2>4. r \in Seq(Bit) /\ Len(r) = end - R /\ \A k \in 1 .. end - R : r[k] = bits[R + k]
    BY ONLY <2>3, SliceIs
  <2> QED BY <2>2, <2>4
<1>6. l \in Int
  BY <1>0, <1>1
<1>7. ASSUME NEW i \in 1 .. E, i \notin l + 1 .. l + n PROVE r[i] = t[i]
  <2>1. R + i \in 1 .. N /\ R + i \notin lo + 1 .. lo + n
    BY <1>0, <1>1, <1>2, <1>3, <1>7
  <2>2. bits[R + i] = s[R + i]
    BY <1>0, <2>1 DEF N
  <2>3. s[R + i] = t[i]
    BY <1>2, <1>3 DEF PartAt
  <2> QED BY <1>5, <2>2, <2>3
<1> HIDE DEF l
<1>8. region = DecodeRegion(p, r)
  BY DEF R
<1> HIDE DEF r
<1>9. Struck(r, EncodeRegion(p, whole), l, n)
  BY <1>2, <1>4, <1>5, <1>7 DEF Struck
<1>10. PICK q \in Seq(Bit), k \in Int :
          Struck(q, data, k, n) /\ region = BitsToBytes(q)
  <2>1. n <= 1 \/ p.rows <= 1
    BY <1>0 DEF WithinReach
  <2> QED BY <1>0, <1>2, <1>6, <1>8, <1>9, <2>1, RegionStruck
<1>11. Divisor(p.payloadCrc) /\ n <= Len(p.payloadCrc.poly)
  BY <1>0 DEF WithinReach
<1>12. data = BytesToBits(PayloadRegion(p, payload))
  BY DEF whole
<1> HIDE DEF data
<1> QED BY <1>0, <1>10, <1>11, <1>12, PayloadCaught

(* Where a slice is the part that was sent, so is every bit of it. *)
LEMMA SlicedPart ==
  ASSUME NEW bits \in Seq(Bit), NEW s, NEW t, NEW from \in Nat, NEW to \in Nat,
         from <= to, to <= Len(bits), Slice(bits, from, to) = t,
         Len(t) = to - from, PartAt(s, from, t), NEW k \in from + 1 .. to
  PROVE  bits[k] = s[k]
<1> DEFINE i == k - from
<1>1. i \in 1 .. to - from /\ from + i = k
  OBVIOUS
<1> HIDE DEF i
<1>2. t[i] = bits[from + i]
  <2>1. \A j \in 1 .. to - from : Slice(bits, from, to)[j] = bits[from + j]
    BY SliceIs
  <2> QED BY <1>1, <2>1
<1>3. s[from + i] = t[i]
  BY <1>1 DEF PartAt
<1> QED BY <1>1, <1>2, <1>3

(* What the parser accepts of a frame that was hit within reach of its     *)
(* CRCs, where the sync word is found, is what was built.                  *)
LEMMA StruckParsed ==
  ASSUME NEW p, ProfileOK(p), TapsReach(p.fec), NEW payload \in Seq(Byte), NEW id, NEW count,
         CanBuild(p, payload, id, count), NEW s, s = BuildBits(p, payload, id, count),
         NEW received, NEW v \in BOOLEAN,
         FindSync(p, received) = [index |-> Len(p.preamble), inverted |-> v],
         NEW bits, bits = IF v THEN Inverse1(received) ELSE received,
         NEW lo, NEW n, HitBy(p, s, bits, lo, n),
         Ok(Parse(p, received))
  PROVE  /\ Parse(p, received).payload = payload
         /\ Parse(p, received).header = ResolveHeader(payload, id, count)
<1> DEFINE g == Slice(bits, HeaderAt(p), CrcAt(p))
           e == Slice(bits, CrcAt(p), RegionAt(p))
           h == SerializedHeader(p, payload, id, count)
           header == ResolveHeader(payload, id, count)
           sync == [index |-> Len(p.preamble), inverted |-> v]
           right == BitsToBytes(e) = Crc(p.headerCrc, BitsToBytes(g))
           parsed == ParseRegion(p, bits, RegionAt(p), ParseHeader(p, g), right, sync)
<1>0. /\ bits \in Seq(Bit) /\ Len(s) <= Len(bits)
      /\ lo \in Int /\ n \in Nat \ {0} /\ WithinReach(p, n)
      /\ \A i \in 1 .. Len(s) : i \notin lo + 1 .. lo + n => bits[i] = s[i]
  BY DEF HitBy
<1>1. Parse(p, received) = parsed
  <2>1. Parse(p, received) = IF TooShort(bits, RegionAt(p)) THEN Raised ELSE parsed
    BY ParseAt
  <2>2. ~ Ok(Raised)
    BY DEF Ok, Raised
  <2> QED BY <2>1, <2>2
<1>2. Ok(parsed)
  BY <1>1
<1>3. parsed.headerCrcOk = right /\ parsed # Raised
  <2>1. Raised.raised
    BY DEF Raised
  <2>2. parsed # Raised
    BY <1>2, <2>1 DEF Ok
  <2>3. parsed = Raised \/ parsed.headerCrcOk = right
    BY DEF ParseRegion
  <2> QED BY <2>2, <2>3
<1>4. right
  BY <1>2, <1>3 DEF Ok
<1>5. g = h /\ e = HeaderCrcBits(p, g)
  BY <1>4, StruckHeader
<1>6. ParseHeader(p, g) = header /\ right = TRUE
  BY <1>4, <1>5, HeaderRoundTrip
<1> HIDE DEF g, e, right, h
<1>7. parsed = ParseRegion(p, bits, RegionAt(p), header, TRUE, sync)
  BY <1>6
<1>8. CASE ~ p.fec.cc
  <2> DEFINE len == Len(payload)
             R == RegionAt(p)
             E == EncodedBits(p, len)
             end == R + E
             region == DecodeRegion(p, Slice(bits, R, end))
             M == Len(bits)
  <2>1. header.length = len
    BY DEF ResolveHeader
  <2>2. HasLength(p, len) /\ E \in Nat /\ end <= Len(bits)
    <3>1. HasLength(p, len) /\ E \in Nat
      BY FrameParts DEF Parts, HasLength
    <3>2. Len(s) = end
      BY FrameLayout DEF Layout
    <3> QED BY <1>0, <3>1, <3>2
  <2> HIDE DEF header, sync, len
  <2>3. parsed = Read(p, region, header, v)
    <3>1. /\ ProfileOK(p) /\ bits \in Seq(Bit)
          /\ HasLength(p, header.length) /\ EncodedBits(p, header.length) \in Nat
          /\ end = RegionAt(p) + EncodedBits(p, header.length) /\ end <= Len(bits)
      BY <1>0, <2>1, <2>2
    <3>2. sync.index = Len(p.preamble) /\ sync.inverted = v
      BY DEF sync
    <3> HIDE DEF end, sync
    <3>3. ParseRegion(p, bits, RegionAt(p), header, TRUE, sync)
            = Read(p, DecodeRegion(p, Slice(bits, RegionAt(p), end)), header, sync.inverted)
      BY ONLY <3>1, <3>2, RegionRead
    <3> QED BY <1>7, <3>2, <3>3
  <2> HIDE DEF R, E, end
  <2>4. /\ parsed.payload = Slice(region, 0, len) /\ parsed.header = header
        /\ parsed.payloadCrcOk
              = (Slice(region, len, len + p.payloadCrc.bytes) = Crc(p.payloadCrc, Slice(region, 0, len)))
    BY <2>1, <2>3 DEF Read
  <2>5. Slice(region, len, len + p.payloadCrc.bytes) = Crc(p.payloadCrc, Slice(region, 0, len))
    BY <1>2, <2>4 DEF Ok
  <2>6. Slice(region, 0, len) = payload
    BY <1>8, <2>5, StruckPayload DEF R, E, end, len
  <2> QED BY <1>1, <2>4, <2>6 DEF header
<1>9. CASE p.fec.cc
  <2> DEFINE x == IF lo + 1 > RegionAt(p) THEN lo + 1 ELSE 0
  <2>1. n = 1
    BY <1>0, <1>9 DEF WithinReach
  <2>2. Arrives(p, s, bits, x)
    <3> DEFINE H == HeaderAt(p)
               C == CrcAt(p)
               R == RegionAt(p)
               N == Len(s)
               M == Len(bits)
               c == HeaderCrcBits(p, h)
    <3>1. /\ H \in Nat /\ C \in Nat /\ R \in Nat /\ H <= C /\ C <= R
      BY PartSizes
    <3>2. x \in Int /\ (x \notin H + 1 .. N \/ x > R)
      <4> HIDE DEF H, R, N
      <4> QED BY <1>0, <3>1 DEF H, R
    <3>3. ASSUME NEW k \in H + 1 .. N, k # x PROVE bits[k] = s[k]
      <4>1. /\ Len(h) = C - H /\ Len(c) = R - C
            /\ PartAt(s, H, h) /\ PartAt(s, C, c) /\ R <= N /\ N <= M /\ N \in Nat /\ M \in Nat
        <5> DEFINE W == HeaderBits(p)
                   b == p.headerCrc.bytes * ByteBits
                   E == EncodedBits(p, Len(payload))
        <5>1. C = H + W /\ R = C + b /\ W \in Nat /\ b \in Nat
          BY PartSizes DEF CrcAt, RegionAt
        <5>2. Len(h) = W /\ Len(c) = b /\ E \in Nat
          BY FrameParts DEF Parts, h
        <5>3. s \in Seq(Bit) /\ N = R + E /\ PartAt(s, H, h) /\ PartAt(s, C, c)
          BY FrameLayout DEF Layout, h
        <5>4. N \in Nat /\ M \in Nat /\ N <= M
          BY <1>0, <5>3, LenProperties
        <5> HIDE DEF W, b, E, H, C, R, N, M, c
        <5> QED BY <3>1, <5>1, <5>2, <5>3, <5>4
      <4>2. g = Slice(bits, H, C) /\ e = Slice(bits, C, R)
        BY DEF g, e
      <4>3. g = h /\ e = c
        BY <1>5
      <4> HIDE DEF x, H, C, R, N, M, c
      <4>4. CASE k # lo + 1
        <5>1. k \in 1 .. N /\ k \notin lo + 1 .. lo + n
          BY <1>0, <2>1, <3>1, <4>1, <4>4
        <5> QED BY <1>0, <5>1 DEF N
      <4>5. CASE k = lo + 1
        <5>1. k \in H + 1 .. C \/ k \in C + 1 .. R
          <6>1. ~ (lo + 1 > R)
            BY <3>3, <4>5 DEF x, R
          <6> QED BY <1>0, <3>1, <4>1, <4>5, <6>1
        <5>2. C <= Len(bits) /\ R <= Len(bits)
          BY <3>1, <4>1 DEF M
        <5>3. CASE k \in H + 1 .. C
          <6>1. /\ bits \in Seq(Bit) /\ H \in Nat /\ C \in Nat /\ H <= C /\ C <= Len(bits)
                /\ Len(h) = C - H /\ PartAt(s, H, h)
            BY <1>0, <3>1, <4>1, <5>2
          <6>2. Slice(bits, H, C) = h
            BY <4>2, <4>3
          <6> QED BY ONLY <5>3, <6>1, <6>2, SlicedPart
        <5>4. CASE k \in C + 1 .. R
          <6>1. /\ bits \in Seq(Bit) /\ C \in Nat /\ R \in Nat /\ C <= R /\ R <= Len(bits)
                /\ Len(c) = R - C /\ PartAt(s, C, c)
            BY <1>0, <3>1, <4>1, <5>2
          <6>2. Slice(bits, C, R) = c
            BY <4>2, <4>3
          <6> QED BY ONLY <5>4, <6>1, <6>2, SlicedPart
        <5> QED BY <5>1, <5>3, <5>4
      <4> QED BY <4>4, <4>5
    <3> HIDE DEF x
    <3> QED BY <1>0, <1>9, <3>2, <3>3 DEF Arrives
  <2>3. Parse(p, received) = WellParsed(p, payload, id, count, v)
    BY <2>2, ParseWell
  <2> QED BY <2>3 DEF WellParsed
<1> QED BY <1>8, <1>9

-----------------------------------------------------------------------------
(* Despreading *)

Against(code, a, b, d) == {c \in 1 .. d : a[(b - 1) * d + c] # code[c]}

Wrong(a, s, b, d) == {c \in 1 .. d : a[(b - 1) * d + c] # s[(b - 1) * d + c]}

(* Chips of n bits, d a bit, and the bits they stand for *)
Chips(code, a, bits, n, d) ==
    /\ n \in Nat /\ d \in Nat \ {0}
    /\ code \in Seq(Bit) /\ Len(code) = d /\ bits \in Seq(Bit) /\ Len(bits) = n
    /\ a \in Seq(Bit) /\ Len(a) = n * d

LEMMA DespreadIs ==
  ASSUME NEW code, NEW a, NEW bits, NEW n, NEW d, Chips(code, a, bits, n, d)
  PROVE  /\ Despread(code, a) \in Seq(Bit) /\ Len(Despread(code, a)) = n
         /\ \A b \in 1 .. n : Despread(code, a)[b]
               = IF 2 * Cardinality(Against(code, a, b, d)) > d THEN 1 ELSE 0
<1>1. n \in Nat /\ d \in Nat \ {0} /\ Len(code) = d /\ Len(a) = n * d
  BY DEF Chips
<1>2. (n * d) \div d = n
  <2>1. 0 \in 0 .. d - 1 /\ n \in Int
    BY <1>1
  <2>2. (n * d + 0) \div d = n
    BY <1>1, <2>1, DivisionUnique
  <2>3. n * d + 0 = n * d
    <3> DEFINE x == n * d
    <3>1. x \in Nat
      BY <1>1, ProductNat
    <3> HIDE DEF x
    <3>2. x + 0 = x
      BY <3>1
    <3> QED BY <3>2 DEF x
  <2> QED BY <2>2, <2>3
<1> DEFINE e(b) == IF 2 * Cardinality(Against(code, a, b, d)) > d THEN 1 ELSE 0
<1>3. Despread(code, a) = [b \in 1 .. n |-> e(b)]
  BY <1>1, <1>2 DEF Despread, Against
<1>4. \A b \in 1 .. n : e(b) \in Bit
  BY DEF Bit
<1> HIDE DEF e
<1>5. [b \in 1 .. n |-> e(b)] \in Seq(Bit) /\ Len([b \in 1 .. n |-> e(b)]) = n
  BY <1>1, <1>4
<1> QED BY <1>3, <1>5 DEF e

LEMMA AgainstIs ==
  ASSUME NEW code, NEW a, NEW bits, NEW n, NEW d, Chips(code, a, bits, n, d), NEW b \in 1 .. n
  PROVE  /\ bits[b] \in Bit
         /\ bits[b] = 0 => Against(code, a, b, d) = Wrong(a, Spread(code, bits), b, d)
         /\ bits[b] = 1 => Against(code, a, b, d) = (1 .. d) \ Wrong(a, Spread(code, bits), b, d)
<1> DEFINE s == Spread(code, bits)
<1>1. /\ n \in Nat /\ d \in Nat \ {0} /\ code \in Seq(Bit) /\ Len(code) = d
      /\ bits \in Seq(Bit) /\ Len(bits) = n /\ a \in Seq(Bit) /\ Len(a) = n * d
  BY DEF Chips
<1>2. bits[b] \in Bit
  BY <1>1, ElementOfSeq
<1>3. ASSUME NEW c \in 1 .. d
      PROVE  /\ bits[b] = 0 => (a[(b - 1) * d + c] # code[c] <=> a[(b - 1) * d + c] # s[(b - 1) * d + c])
             /\ bits[b] = 1 => (a[(b - 1) * d + c] # code[c] <=> ~ (a[(b - 1) * d + c] # s[(b - 1) * d + c]))
  <2>1. s[(b - 1) * d + c] = (bits[b] + code[c]) % 2
    <3>1. /\ n \in Nat /\ d \in Nat \ {0} /\ Len(bits) = n /\ Len(code) = d
          /\ b \in 1 .. n /\ c \in 1 .. d
      BY <1>1
    <3>2. Len(bits) \in Nat /\ Len(code) \in Nat \ {0} /\ b \in 1 .. Len(bits) /\ c \in 1 .. Len(code)
      BY <3>1
    <3>3. Spread(code, bits)[(b - 1) * Len(code) + c] = (bits[b] + code[c]) % 2
      BY ONLY <3>2, SpreadAt
    <3> QED BY <3>1, <3>3
  <2>2. code[c] \in Bit
    BY <1>1, ElementOfSeq
  <2>3. (b - 1) * d + c \in 1 .. n * d
    BY <1>1, InPlaces
  <2>4. a[(b - 1) * d + c] \in Bit
    BY <1>1, <2>3, ElementOfSeq
  <2> DEFINE x == bits[b]
             y == code[c]
             z == a[(b - 1) * d + c]
             w == s[(b - 1) * d + c]
  <2>5. x \in {0, 1} /\ y \in {0, 1} /\ z \in {0, 1} /\ w = (x + y) % 2
    BY <1>2, <2>1, <2>2, <2>4 DEF Bit
  <2> HIDE DEF x, y, z, w
  <2>6. (0 + 0) % 2 = 0 /\ (0 + 1) % 2 = 1 /\ (1 + 0) % 2 = 1 /\ (1 + 1) % 2 = 0
    OBVIOUS
  <2>7. /\ x = 0 => (z # y <=> z # w)
        /\ x = 1 => (z # y <=> ~ (z # w))
    BY <2>5, <2>6
  <2> QED BY <2>7 DEF x, y, z, w
<1> HIDE DEF s
<1>4. bits[b] = 0 => Against(code, a, b, d) = Wrong(a, s, b, d)
  BY <1>3 DEF Against, Wrong
<1>5. bits[b] = 1 => Against(code, a, b, d) = (1 .. d) \ Wrong(a, s, b, d)
  BY <1>3 DEF Against, Wrong
<1> QED BY <1>2, <1>4, <1>5 DEF s

LEMMA WrongIs ==
  ASSUME NEW a, NEW s, NEW b, NEW d \in Nat
  PROVE  /\ IsFiniteSet(Wrong(a, s, b, d)) /\ Cardinality(Wrong(a, s, b, d)) \in Nat
         /\ IsFiniteSet(1 .. d) /\ Cardinality(1 .. d) = d
         /\ Cardinality((1 .. d) \ Wrong(a, s, b, d)) = d - Cardinality(Wrong(a, s, b, d))
<1> DEFINE W == Wrong(a, s, b, d)
           I == 1 .. d
<1>1. IsFiniteSet(I) /\ Cardinality(I) = d
  <2>1. 1 \in Int /\ d \in Int /\ (IF 1 > d THEN 0 ELSE d - 1 + 1) = d
    OBVIOUS
  <2> QED BY <2>1, FS_Interval
<1>2. W \in SUBSET I /\ I \cap W = W
  BY DEF Wrong
<1> HIDE DEF W, I
<1>3. IsFiniteSet(W)
  BY <1>1, <1>2, FS_Subset
<1>4. Cardinality(W) \in Nat
  BY <1>3, FS_CardinalityType
<1>5. Cardinality(I \ W) = Cardinality(I) - Cardinality(I \cap W)
  BY <1>1, FS_Difference
<1> QED BY <1>1, <1>2, <1>3, <1>4, <1>5 DEF W, I

(* A bit is heard as it was sent when less than half its chips are wrong,  *)
(* and as the other one when all of them are.                              *)
LEMMA BitHeard ==
  ASSUME NEW code, NEW a, NEW bits, NEW n, NEW d, Chips(code, a, bits, n, d), NEW b \in 1 .. n
  PROVE  /\ 2 * Cardinality(Wrong(a, Spread(code, bits), b, d)) < d => Despread(code, a)[b] = bits[b]
         /\ Wrong(a, Spread(code, bits), b, d) = 1 .. d => Despread(code, a)[b] = 1 - bits[b]
<1> DEFINE W == Wrong(a, Spread(code, bits), b, d)
           A == Against(code, a, b, d)
           w == Cardinality(W)
           g == Cardinality(A)
           x == bits[b]
           y == Despread(code, a)[b]
<1>1. d \in Nat \ {0}
  BY DEF Chips
<1>2. y = IF 2 * g > d THEN 1 ELSE 0
  BY DespreadIs
<1>3. x \in Bit /\ (x = 0 => A = W) /\ (x = 1 => A = (1 .. d) \ W)
  BY AgainstIs
<1>4. w \in Nat /\ Cardinality((1 .. d) \ W) = d - w /\ Cardinality(1 .. d) = d
  BY <1>1, WrongIs
<1> HIDE DEF W, A
<1>5. (x = 0 => g = w) /\ (x = 1 => g = d - w) /\ (W = 1 .. d => w = d)
  BY <1>3, <1>4
<1>6. x \in {0, 1}
  BY <1>3 DEF Bit
<1> HIDE DEF x, y, w, g
<1>7. 2 * w < d => y = x
  BY <1>1, <1>2, <1>4, <1>5, <1>6
<1>8. w = d => y = 1 - x
  BY <1>1, <1>2, <1>4, <1>5, <1>6
<1> QED BY <1>5, <1>7, <1>8 DEF W, w, x, y

-----------------------------------------------------------------------------
(* A burst of m wrong chips from place k *)

OnlyIn(a, s, len, k, m) == \A i \in 1 .. len : i \notin k .. k + m - 1 => a[i] = s[i]

LEMMA WithinInterval ==
  ASSUME NEW x \in Int, NEW y \in Int, NEW S, S \subseteq x .. y, x <= y
  PROVE  IsFiniteSet(S) /\ Cardinality(S) \in Nat /\ Cardinality(S) <= y - x + 1
<1>1. IsFiniteSet(x .. y) /\ Cardinality(x .. y) = y - x + 1
  <2>1. (IF x > y THEN 0 ELSE y - x + 1) = y - x + 1
    OBVIOUS
  <2> QED BY <2>1, FS_Interval
<1>2. S \in SUBSET (x .. y)
  OBVIOUS
<1>3. IsFiniteSet(S) /\ Cardinality(S) <= Cardinality(x .. y)
  BY <1>1, <1>2, FS_Subset
<1>4. Cardinality(S) \in Nat
  BY <1>3, FS_CardinalityType
<1> QED BY <1>1, <1>3, <1>4

LEMMA BurstCount ==
  ASSUME NEW a, NEW s, NEW n \in Nat, NEW d \in Nat \ {0}, NEW k \in Nat, NEW m \in Nat,
         OnlyIn(a, s, n * d, k, m), NEW b \in 1 .. n, NEW lo, lo = k - (b - 1) * d,
         NEW w, w = Cardinality(Wrong(a, s, b, d))
  PROVE  /\ lo \in Int /\ w \in Nat /\ w <= m
         /\ w # 0 => w <= d - lo + 1 /\ w <= lo + m - 1
<1> DEFINE W == Wrong(a, s, b, d)
           x == (b - 1) * d
<1>1. x \in Int
  <2>1. b - 1 \in Nat
    OBVIOUS
  <2> QED BY <2>1, ProductNat
<1>2. ASSUME NEW c \in W PROVE c \in 1 .. d /\ c \in lo .. lo + m - 1
  <2>1. c \in 1 .. d /\ a[x + c] # s[x + c]
    BY DEF Wrong
  <2>2. x + c \in 1 .. n * d
    BY <2>1, InPlaces
  <2> HIDE DEF x, W
  <2>3. x + c \in k .. k + m - 1
    BY <2>1, <2>2 DEF OnlyIn
  <2>4. lo = k - x
    BY DEF x
  <2>5. c \in Int
    BY <2>1
  <2>6. c \in lo .. lo + m - 1
    BY <1>1, <2>3, <2>4, <2>5
  <2> QED BY <2>1, <2>6
<1>3. lo \in Int /\ lo = k - x
  <2>1. lo = k - x
    OBVIOUS
  <2> HIDE DEF x
  <2> QED BY <1>1, <2>1
<1>4. IsFiniteSet(W) /\ w \in Nat
  BY WrongIs
<1> HIDE DEF W, x
<1>5. W = {} => w = 0
  BY FS_EmptySet DEF W
<1>6. ASSUME W # {} PROVE w <= m /\ w <= d - lo + 1 /\ w <= lo + m - 1
  <2>1. PICK c : c \in W
    BY <1>6
  <2>2. lo <= d /\ 1 <= lo + m - 1 /\ lo <= lo + m - 1
    BY <1>2, <1>3, <2>1
  <2>3. W \subseteq lo .. d /\ W \subseteq 1 .. lo + m - 1 /\ W \subseteq lo .. lo + m - 1
    BY <1>2, <1>3
  <2> DEFINE y == lo + m - 1
  <2>4. y \in Int /\ d \in Int /\ 1 \in Int
    BY <1>3
  <2>5. lo <= d /\ 1 <= y /\ lo <= y /\ W \subseteq lo .. d /\ W \subseteq 1 .. y /\ W \subseteq lo .. y
    BY <2>2, <2>3
  <2> HIDE DEF y
  <2>6. Cardinality(W) <= d - lo + 1
    BY <1>3, <2>4, <2>5, WithinInterval
  <2>7. Cardinality(W) <= y
    <3> DEFINE one == 1
    <3>1. one \in Int /\ one <= y /\ W \subseteq one .. y
      BY <2>5
    <3> HIDE DEF one
    <3>2. Cardinality(W) \in Nat /\ Cardinality(W) <= y - one + 1
      BY ONLY <2>4, <3>1, WithinInterval
    <3> QED BY <2>4, <3>2 DEF one
  <2>8. Cardinality(W) <= y - lo + 1
    BY <1>3, <2>4, <2>5, WithinInterval
  <2>9. w = Cardinality(W)
    BY DEF W
  <2>10. w <= y /\ w <= y - lo + 1 /\ w <= d - lo + 1 /\ y = lo + m - 1
    BY <2>6, <2>7, <2>8, <2>9 DEF y
  <2> QED BY <1>3, <1>4, <2>10
<1> QED BY <1>3, <1>4, <1>5, <1>6

(* With an odd number of chips a bit, a burst no longer than a bit can     *)
(* turn the majority of one bit only.                                      *)
LEMMA OneBitTurned ==
  ASSUME NEW a, NEW s, NEW n \in Nat, NEW d \in Nat \ {0}, d % 2 = 1, NEW k \in Nat, NEW m \in Nat,
         m <= d, OnlyIn(a, s, n * d, k, m), NEW b \in 1 .. n, NEW c \in 1 .. n, b < c
  PROVE  \/ 2 * Cardinality(Wrong(a, s, b, d)) < d
         \/ 2 * Cardinality(Wrong(a, s, c, d)) < d
<1> DEFINE v == Cardinality(Wrong(a, s, b, d))
           w == Cardinality(Wrong(a, s, c, d))
           x == (b - 1) * d
           y == (c - 1) * d
           lo == k - x
           hi == k - y
           q == d \div 2
<1>1. lo \in Int /\ v \in Nat /\ (v # 0 => v <= d - lo + 1)
  BY BurstCount
<1>2. hi \in Int /\ w \in Nat /\ (w # 0 => w <= hi + m - 1)
  BY BurstCount
<1>3. x \in Nat /\ y \in Nat /\ x + d <= y
  <2>1. b - 1 \in Nat /\ c - 1 \in Nat /\ b - 1 < c - 1
    OBVIOUS
  <2> QED BY <2>1, ProductNat, Multiples
<1>4. q \in Nat /\ d = 2 * q + 1
  <2>1. q \in Nat /\ d = 2 * q + (d % 2)
    BY Quotient
  <2> QED BY <2>1
<1>5. lo = k - x /\ hi = k - y
  OBVIOUS
<1> HIDE DEF v, w, x, y, lo, hi, q
<1>6. hi <= lo - d
  BY <1>3, <1>5
<1>7. 2 * v < d \/ 2 * w < d
  BY <1>1, <1>2, <1>4, <1>6
<1> QED BY <1>7 DEF v, w

LEMMA DespreadClean ==
  ASSUME NEW code, NEW a, NEW bits, NEW n, NEW d, Chips(code, a, bits, n, d),
         NEW k \in Nat, NEW m \in Nat, 2 * m < d, OnlyIn(a, Spread(code, bits), n * d, k, m)
  PROVE  Despread(code, a) = bits
<1> DEFINE s == Spread(code, bits)
<1>1. n \in Nat /\ d \in Nat \ {0} /\ bits \in Seq(Bit) /\ Len(bits) = n
  BY DEF Chips
<1>2. Despread(code, a) \in Seq(Bit) /\ Len(Despread(code, a)) = n
  BY DespreadIs
<1>3. ASSUME NEW b \in 1 .. n PROVE Despread(code, a)[b] = bits[b]
  <2> DEFINE w == Cardinality(Wrong(a, s, b, d))
             lo == k - (b - 1) * d
  <2>1. w \in Nat /\ w <= m
    <3>1. lo = k - (b - 1) * d /\ w = Cardinality(Wrong(a, s, b, d))
      OBVIOUS
    <3> HIDE DEF w, lo, s
    <3> QED BY <1>1, <3>1, BurstCount DEF s
  <2>2. 2 * w < d
    <3> HIDE DEF w
    <3> QED BY <1>1, <2>1
  <2> QED BY <2>2, BitHeard
<1> QED BY <1>1, <1>2, <1>3, SeqEqual

LEMMA DespreadNear ==
  ASSUME NEW code, NEW a, NEW bits, NEW n, NEW d, Chips(code, a, bits, n, d), d % 2 = 1,
         NEW k \in Nat, NEW m \in Nat, m <= d, OnlyIn(a, Spread(code, bits), n * d, k, m)
  PROVE  \E e : NearAt(Despread(code, a), bits, e)
<1> DEFINE s == Spread(code, bits)
           Turns(b) == ~ (2 * Cardinality(Wrong(a, s, b, d)) < d)
           e == CHOOSE b \in 1 .. n : Turns(b)
<1>1. n \in Nat /\ d \in Nat \ {0} /\ bits \in Seq(Bit) /\ Len(bits) = n
  BY DEF Chips
<1>2. Despread(code, a) \in Seq(Bit) /\ Len(Despread(code, a)) = n
  BY DespreadIs
<1>3. ASSUME NEW b \in 1 .. n, NEW c \in 1 .. n, b < c PROVE ~ Turns(b) \/ ~ Turns(c)
  BY <1>1, <1>3, OneBitTurned
<1> HIDE DEF Turns
<1>4. ASSUME NEW b \in 1 .. n, b # e PROVE ~ Turns(b)
  <2> SUFFICES ASSUME Turns(b) PROVE FALSE
    OBVIOUS
  <2>1. e \in 1 .. n /\ Turns(e)
    OBVIOUS
  <2> HIDE DEF e
  <2>2. b < e \/ e < b
    BY <1>4, <2>1
  <2> QED BY <1>3, <2>1, <2>2
<1> HIDE DEF e
<1>5. ASSUME NEW b \in 1 .. n, b # e PROVE Despread(code, a)[b] = bits[b]
  BY <1>4, <1>5, BitHeard DEF Turns
<1>6. NearAt(Despread(code, a), bits, e)
  BY <1>1, <1>2, <1>5 DEF NearAt
<1> QED BY <1>6

LEMMA DespreadInverse ==
  ASSUME NEW code, NEW a, NEW bits, NEW n, NEW d, Chips(code, a, bits, n, d),
         a = Inverse1(Spread(code, bits))
  PROVE  Despread(code, a) = Inverse1(bits)
<1> DEFINE s == Spread(code, bits)
<1>1. n \in Nat /\ d \in Nat \ {0} /\ bits \in Seq(Bit) /\ Len(bits) = n /\ code \in Seq(Bit)
      /\ Len(code) = d
  BY DEF Chips
<1>2. Despread(code, a) \in Seq(Bit) /\ Len(Despread(code, a)) = n
  BY DespreadIs
<1>3. Inverse1(bits) \in Seq(Bit) /\ Len(Inverse1(bits)) = n
  BY <1>1, InverseType
<1>4. s \in Seq(Bit) /\ Len(s) = n * d
  BY <1>1, SpreadType
<1> HIDE DEF s
<1>5. ASSUME NEW b \in 1 .. n PROVE Despread(code, a)[b] = Inverse1(bits)[b]
  <2>1. ASSUME NEW c \in 1 .. d PROVE c \in Wrong(a, s, b, d)
    <3> DEFINE i == (b - 1) * d + c
    <3>1. i \in 1 .. n * d
      BY <1>1, InPlaces
    <3> HIDE DEF i
    <3>2. a[i] = 1 - s[i] /\ s[i] \in {0, 1}
      <4>1. s[i] \in Bit
        BY <1>4, <3>1, ElementOfSeq
      <4>2. a[i] = 1 - s[i]
        BY <1>4, <3>1 DEF Inverse1, s
      <4> QED BY <4>1, <4>2 DEF Bit
    <3>3. a[i] # s[i]
      <4> DEFINE x == s[i]
                 y == a[i]
      <4>1. y = 1 - x /\ x \in {0, 1}
        BY <3>2
      <4> HIDE DEF x, y
      <4>2. y # x
        BY <4>1
      <4> QED BY <4>2 DEF x, y
    <3> QED BY <3>3 DEF Wrong, i
  <2>2. Wrong(a, s, b, d) = 1 .. d
    BY <2>1 DEF Wrong
  <2>3. Despread(code, a)[b] = 1 - bits[b]
    BY <2>2, BitHeard DEF s
  <2>4. Inverse1(bits)[b] = 1 - bits[b]
    BY <1>1 DEF Inverse1
  <2> QED BY <2>3, <2>4
<1> QED BY <1>2, <1>3, <1>5, SeqEqual

-----------------------------------------------------------------------------
(* parse_frame *)

FrameData(f, payload) == f.invariant \o PayloadBits(f, payload)

(* The bytes parse_frame looks at *)
HeardBytes(f, coded) == IF f.fec.enabled THEN FecDecode(f.fec, coded) ELSE BitsToBytes(coded)

LEMMA FrameDecoded ==
  ASSUME NEW f, FrameOK(f), TapsReach(f.fec), NEW payload \in Seq(Byte),
         NEW r, NEW e, NearAt(r, CodedFrame(f, payload), e),
         r = CodedFrame(f, payload) \/ f.fec.cc
  PROVE  HeardBytes(f, r) = BitsToBytes(FrameData(f, payload))
<1> DEFINE data == FrameData(f, payload)
           bytes == BitsToBytes(data)
           bits == BytesToBits(bytes)
           coded == CodedFrame(f, payload)
<1>1. data \in Seq(Bit)
  BY PayloadBitsType, ConcatProperties DEF FrameOK, FrameData
<1>2. coded = IF f.fec.enabled THEN FecEncode(f.fec, bytes) ELSE data
  BY DEF CodedFrame, FrameData
<1> HIDE DEF data
<1>3. bytes \in Seq(Byte)
  BY <1>1, BitsToBytesIs
<1> HIDE DEF bytes, coded
<1>4. bits \in Seq(Bit) /\ BitsToBytes(bits) = bytes
  BY <1>3, BytesAreNumbers, BytesToBitsType, BytesRoundTrip
<1>5. CodeOK(f.fec) /\ (f.fec.cc => f.fec.enabled)
  BY DEF FrameOK, CodeOK
<1>6. FecEncode(f.fec, bytes) = IF f.fec.cc THEN ConvEncode(f.fec, bits) ELSE bits
  BY DEF FecEncode
<1> HIDE DEF bits
<1>7. HeardBytes(f, r) = IF f.fec.enabled
                         THEN BitsToBytes(IF f.fec.cc THEN ConvDecode(f.fec, r) ELSE r)
                         ELSE BitsToBytes(r)
  BY DEF HeardBytes, FecDecode
<1>8. CASE f.fec.cc
  <2>1. NearAt(r, ConvEncode(f.fec, bits), e)
    BY <1>2, <1>5, <1>6, <1>8 DEF coded
  <2>2. ConvDecode(f.fec, r) = bits
    BY <1>4, <1>5, <1>8, <2>1, ViterbiCorrects
  <2> QED BY <1>4, <1>5, <1>7, <1>8, <2>2 DEF bytes, data
<1>9. CASE ~ f.fec.cc
  <2>1. r = coded
    BY <1>9 DEF coded
  <2> QED BY <1>2, <1>4, <1>6, <1>7, <1>9, <2>1 DEF bytes, data
<1> QED BY <1>8, <1>9

LEMMA SubSeqOfPart ==
  ASSUME NEW S, NEW s \in Seq(S), NEW t \in Seq(S), NEW from \in Nat, NEW to,
         to = from + Len(t), to <= Len(s), PartAt(s, from, t)
  PROVE  SubSeq(s, from + 1, to) = t
<1> DEFINE n == Len(s)
           m == Len(t)
<1>1. n \in Nat /\ m \in Nat /\ to \in Nat /\ to <= n
  BY LenProperties
<1>2. Slice(s, from, to) = t
  BY SliceOfPart
<1>3. Min({to, n}) = to
  <2> HIDE DEF n, m
  <2> DEFINE two == {to, n}
  <2>1. two \subseteq Int /\ to \in two /\ \A x \in two : to <= x
    BY ONLY <1>1
  <2> HIDE DEF two
  <2>2. Min(two) = to
    BY ONLY <2>1, MinIs
  <2> QED BY <2>2 DEF two
<1> QED BY <1>2, <1>3 DEF Slice

(* Bits packed into bytes, and unpacked: the first ones are still there.   *)
LEMMA FrameRead ==
  ASSUME NEW f, FrameOK(f), NEW payload \in Seq(Byte), NEW v \in BOOLEAN,
         v => f.invariant # <<>>, NEW coded,
         HeardBytes(f, coded) = BitsToBytes(IF v THEN Inverse1(FrameData(f, payload))
                                            ELSE FrameData(f, payload))
  PROVE  ParseFrame(f, coded) = [bits |-> PayloadBits(f, payload), fecOk |-> TRUE]
<1> DEFINE pb == PayloadBits(f, payload)
           inv == f.invariant
           data == FrameData(f, payload)
           t == IF v THEN Inverse1(data) ELSE data
           x == BytesToBits(HeardBytes(f, coded))
           y == Upright(x, v)
           n == Len(inv)
           P == f.payloadBits
           len == Len(x)
           to == n + P
<1>1. /\ pb \in Seq(Bit) /\ Len(pb) = P /\ P \in Nat /\ inv \in Seq(Bit) /\ n \in Nat
  BY PayloadBitsType, LenProperties DEF FrameOK
<1>0. data = inv \o pb
  BY DEF FrameData
<1> HIDE DEF pb, data, inv
<1>2. /\ data \in Seq(Bit) /\ Len(data) = to /\ PartAt(data, 0, inv) /\ PartAt(data, n, pb)
  <2>1. data \in Seq(Bit) /\ Len(data) = n + P
    BY <1>0, <1>1, ConcatProperties
  <2> QED BY <1>0, <1>1, <2>1, PartsOfTwo
<1>3. t \in Seq(Bit) /\ Len(t) = to
  BY <1>2, InverseType
<1>4. to \in Nat
  <2> HIDE DEF n, P
  <2> QED BY <1>1
<1> HIDE DEF to, n, P
<1>5. \A i \in 1 .. to : data[i] \in {0, 1} /\ t[i] = IF v THEN 1 - data[i] ELSE data[i]
  <2> TAKE i \in 1 .. to
  <2>1. data[i] \in Bit
    BY <1>2, ElementOfSeq
  <2>2. v => Inverse1(data)[i] = 1 - data[i]
    BY <1>2 DEF Inverse1
  <2> QED BY <2>1, <2>2 DEF Bit
<1> HIDE DEF t
<1>6. x \in Seq(Bit) /\ len \in Nat /\ to <= len /\ \A i \in 1 .. to : x[i] = t[i]
  <2>1. x = BytesToBits(BitsToBytes(t))
    BY DEF t, data
  <2>2. x \in Seq(Bit) /\ Len(t) <= Len(x) /\ \A i \in 1 .. Len(t) : x[i] = t[i]
    BY <1>3, <2>1, BitsRoundTrip
  <2> HIDE DEF x
  <2> QED BY <1>3, <2>2, LenProperties
<1>7. ParseFrame(f, coded) =
        LET heard == SubSeq(x, 1, n)
            inverted == heard # inv /\ Inverse1(heard) = inv
        IN  [bits |-> SubSeq(Upright(x, inverted), n + 1, to), fecOk |-> heard = inv \/ inverted]
  BY DEF ParseFrame, HeardBytes, inv, n, to, P
<1> HIDE DEF x, len
<1>8. y \in Seq(Bit) /\ Len(y) = len /\ \A i \in 1 .. to : y[i] = data[i]
  <2>1. CASE v = TRUE
    <3>1. y = Inverse1(x)
      BY <2>1 DEF Upright
    <3>2. Inverse1(x) \in Seq(Bit) /\ Len(Inverse1(x)) = len
      BY <1>6, InverseType DEF len
    <3>3. ASSUME NEW i \in 1 .. to PROVE y[i] = data[i]
      <4>1. i \in 1 .. len
        BY <1>4, <1>6
      <4>2. Inverse1(x)[i] = 1 - x[i]
        BY <4>1 DEF Inverse1, len
      <4>3. x[i] = 1 - data[i] /\ data[i] \in {0, 1}
        BY <1>5, <1>6, <2>1
      <4> DEFINE z == data[i]
      <4>4. z \in {0, 1} /\ x[i] = 1 - z
        BY <4>3
      <4> HIDE DEF z
      <4>5. 1 - (1 - z) = z
        BY <4>4
      <4> QED BY <3>1, <4>2, <4>4, <4>5 DEF z
    <3> QED BY <3>1, <3>2, <3>3
  <2>2. CASE v = FALSE
    <3>1. y = x
      BY <2>2 DEF Upright
    <3> QED BY <1>5, <1>6, <2>2, <3>1 DEF len
  <2> QED BY <2>1, <2>2
<1> HIDE DEF y
<1>9. SubSeq(y, n + 1, to) = pb
  <2>1. PartAt(y, n, pb)
    <3>1. ASSUME NEW i \in 1 .. P PROVE n + i \in 1 .. to
      BY <1>1 DEF to, n, P
    <3> QED BY <1>1, <1>2, <1>8, <3>1 DEF PartAt, P
  <2>2. to = n + Len(pb) /\ to <= Len(y)
    BY <1>1, <1>6, <1>8 DEF to, P, n
  <2>3. n \in Nat
    BY <1>1 DEF n
  <2> QED BY ONLY <1>1, <1>8, <2>1, <2>2, <2>3, SubSeqOfPart
<1> DEFINE heard == SubSeq(x, 1, n)
<1>10. heard \in Seq(Bit) /\ Len(heard) = n /\ \A i \in 1 .. n : heard[i] = x[i] /\ data[i] = inv[i] /\ i \in 1 .. to
  <2>1. n \in 0 .. len /\ n \in Nat /\ \A i \in 1 .. n : i \in 1 .. to /\ 0 + i = i
    BY <1>1, <1>4, <1>6 DEF to, n, P
  <2>2. heard \in Seq(Bit) /\ Len(heard) = n /\ \A i \in 1 .. n : heard[i] = x[i]
    BY <1>6, <2>1, FirstPart DEF len
  <2>3. \A i \in 1 .. n : data[i] = inv[i]
    BY <1>2, <2>1 DEF PartAt, n
  <2> QED BY <2>1, <2>2, <2>3
<1> HIDE DEF heard
<1>11. (heard # inv /\ Inverse1(heard) = inv) = v
  <2>1. CASE v = TRUE
    <3>1. n # 0
      BY <1>1, <2>1, EmptySeq DEF inv, n
    <3>2. \A i \in 1 .. n : heard[i] = 1 - inv[i] /\ inv[i] \in {0, 1}
      BY <1>5, <1>6, <1>10, <2>1
    <3>3. heard # inv
      <4>1. 1 \in 1 .. n
        BY <1>1, <3>1 DEF n
      <4>2. heard[1] = 1 - inv[1] /\ inv[1] \in {0, 1}
        BY <3>2, <4>1
      <4> DEFINE z == inv[1]
      <4>3. z \in {0, 1}
        BY <4>2
      <4> HIDE DEF z
      <4>4. 1 - z # z
        BY <4>3
      <4> QED BY <4>2, <4>4 DEF z
    <3>4. Inverse1(heard) = inv
      <4>1. Inverse1(heard) \in Seq(Bit) /\ Len(Inverse1(heard)) = n
        BY <1>10, InverseType
      <4>2. ASSUME NEW i \in 1 .. n PROVE Inverse1(heard)[i] = inv[i]
        <5>1. Inverse1(heard)[i] = 1 - heard[i]
          BY <1>10 DEF Inverse1
        <5> DEFINE z == inv[i]
        <5>2. z \in {0, 1} /\ heard[i] = 1 - z
          BY <3>2
        <5> HIDE DEF z
        <5>3. 1 - (1 - z) = z
          BY <5>2
        <5> QED BY <5>1, <5>2, <5>3 DEF z
      <4> QED BY <1>1, <4>1, <4>2, SeqEqual DEF n
    <3> QED BY <2>1, <3>3, <3>4
  <2>2. CASE v = FALSE
    <3>1. \A i \in 1 .. n : heard[i] = inv[i]
      BY <1>5, <1>6, <1>10, <2>2
    <3>2. heard = inv
      BY <1>1, <1>10, <3>1, SeqEqual DEF n
    <3> QED BY <2>2, <3>2
  <2> QED BY <2>1, <2>2
<1>12. (heard = inv \/ (heard # inv /\ Inverse1(heard) = inv)) = TRUE
  <2>1. CASE v = TRUE
    BY <1>11, <2>1
  <2>2. CASE v = FALSE
    <3>1. \A i \in 1 .. n : heard[i] = inv[i]
      BY <1>5, <1>6, <1>10, <2>2
    <3>2. heard = inv
      BY <1>1, <1>10, <3>1, SeqEqual DEF n
    <3> QED BY <3>2
  <2> QED BY <2>1, <2>2
<1>13. ParseFrame(f, coded) = [bits |-> SubSeq(Upright(x, v), n + 1, to), fecOk |-> TRUE]
  BY <1>7, <1>11, <1>12 DEF heard
<1> QED BY <1>9, <1>13 DEF y, pb

=============================================================================
