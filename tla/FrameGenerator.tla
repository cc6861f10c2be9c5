---------------------------- MODULE FrameGenerator ----------------------------
(***************************************************************************)
(* core/frame_generator.py with the spreading around it: the frame on its  *)
(* way from payload bytes to chips (TXFlowgraph) and from the chips behind *)
(* a preamble back to payload bytes (FrameSink, FrameGenerator).           *)
(*                                                                         *)
(* A frame configuration is a record: preamble and invariant are bits (no  *)
(* bits: no invariant), payloadBits, fec, and code, the spreading code.    *)
(***************************************************************************)
EXTENDS FecCodec

InfoBits(f) == Len(f.invariant) + f.payloadBits

-----------------------------------------------------------------------------
(* The length of a frame, as the receiver and the transmitter compute it   *)

(* RXFlowgraph: the bits FrameSink collects *)
RxCodedBits(f) ==
    IF f.fec.enabled THEN CodedLength(f.fec, BytesFor(InfoBits(f)) * ByteBits)
    ELSE InfoBits(f)

(* TXFlowgraph._frame_total_chips *)
TxTotalChips(f) ==
    LET coded == IF f.fec.enabled
                 THEN CodedLength(f.fec, BytesFor(InfoBits(f)) * ByteBits)
                 ELSE InfoBits(f)
    IN  Len(f.preamble) + coded * Len(f.code)

-----------------------------------------------------------------------------
(* Transmitter *)

(* The payload cut or filled up to payloadBits *)
PayloadBits(f, payload) ==
    LET bytes  == BytesFor(f.payloadBits)
        padded == [i \in 1 .. bytes |-> IF i <= Len(payload) THEN payload[i] ELSE 0]
        bits   == BytesToBits(padded)
    IN  [i \in 1 .. f.payloadBits |-> bits[i]]

(* build_frame behind the preamble; packing fills up the last byte *)
CodedFrame(f, payload) ==
    LET data == f.invariant \o PayloadBits(f, payload)
    IN  IF f.fec.enabled THEN FecEncode(f.fec, BitsToBytes(data)) ELSE data

Spread(code, bits) ==
    [c \in 1 .. Len(bits) * Len(code) |->
        (bits[(c - 1) \div Len(code) + 1] + code[((c - 1) % Len(code)) + 1]) % 2]

(* _build_frame_chips: the preamble is not spread *)
BuildChips(f, payload) == f.preamble \o Spread(f.code, CodedFrame(f, payload))

-----------------------------------------------------------------------------
(* Receiver *)

(* _despread and the hard decision of _dispatch: a bit is set when most of *)
(* its chips disagree with the code, and clear when they tie.              *)
Despread(code, chips) ==
    LET against(b) == Cardinality({c \in 1 .. Len(code) :
                                    chips[(b - 1) * Len(code) + c] # code[c]})
    IN  [b \in 1 .. Len(chips) \div Len(code) |->
            IF 2 * against(b) > Len(code) THEN 1 ELSE 0]

Upright(data, inverted) == IF inverted THEN Inverse1(data) ELSE data

(* parse_frame.  Neither the convolutional decoder nor packing can raise,  *)
(* so fec_ok speaks of the invariant alone, and of an inverted one as of a *)
(* right one.                                                              *)
ParseFrame(f, coded) ==
    LET bytes == IF f.fec.enabled THEN FecDecode(f.fec, coded)
                 ELSE BitsToBytes(coded)
        data  == BytesToBits(bytes)
        n     == Len(f.invariant)
        heard == SubSeq(data, 1, n)
        inverted == heard # f.invariant /\ Inverse1(heard) = f.invariant
    IN  [bits  |-> SubSeq(Upright(data, inverted), n + 1, n + f.payloadBits),
         fecOk |-> heard = f.invariant \/ inverted]

=============================================================================
