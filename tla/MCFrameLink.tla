------------------------------ MODULE MCFrameLink ------------------------------
(***************************************************************************)
(* Small codecs for TLC: bytes of four bits, codes of constraint length 3  *)
(* and 4, and a sync word that, as the program's own, does not appear in   *)
(* the preamble before it.                                                 *)
(***************************************************************************)
EXTENDS FrameLink

NoFec == [enabled |-> FALSE, cc |-> FALSE, rs |-> FALSE,
          K |-> 1, rate |-> 1, taps |-> <<{0}>>, nsym |-> 0]

K3 == [NoFec EXCEPT !.enabled = TRUE, !.cc = TRUE, !.K = 3, !.rate = 2,
                    !.taps = <<{0, 1, 2}, {0, 2}>>]

NoCode == [NoFec EXCEPT !.enabled = TRUE]

Crc4 == [bytes |-> 1, poly |-> <<0, 0, 1, 1>>, init |-> <<0, 0, 0, 0>>]
Crc8 == [bytes |-> 2, poly |-> <<0, 0, 0, 1, 1, 1, 0, 1>>, init |-> <<1, 1, 1, 1, 1, 1, 1, 1>>]

Plain == [preamble |-> <<1, 0, 1, 0>>, sync |-> <<0, 0, 1, 1, 1, 1, 0, 1>>,
          maxErrors |-> 1, allowInverted |-> TRUE,
          lengthBits |-> 3, idBits |-> 2, counterBits |-> 1,
          headerCrc |-> Crc4, payloadCrc |-> Crc8, maxBytes |-> 2,
          alignBits |-> 4, padByte |-> 9, fec |-> NoFec, rows |-> 1,
          whitening |-> [enabled |-> FALSE, seed |-> 127, mask |-> {3, 6}]]

WhitenedK3 == [Plain EXCEPT !.fec = K3, !.whitening.enabled = TRUE, !.alignBits = 8,
                            !.payloadCrc = Crc4, !.maxErrors = 0, !.allowInverted = FALSE]

Interleaved == [Plain EXCEPT !.rows = 4, !.alignBits = 12, !.maxBytes = 0,
                             !.whitening.enabled = TRUE]

InterleavedK3 == [Plain EXCEPT !.rows = 4, !.fec = K3, !.headerCrc = Crc8]

Short == [preamble |-> <<1, 0, 1, 0>>, invariant |-> <<0, 1, 1>>, payloadBits |-> 6,
          fec |-> K3, code |-> <<1, 0, 0>>]

K4 == [K3 EXCEPT !.K = 4, !.taps = <<{0, 1, 3}, {0, 2, 3}>>]

Profile(p) == [kind |-> "profile", p |-> p, bursts |-> {1}]
Frame(f) == [kind |-> "generator", p |-> f, bursts |-> 1 .. Len(f.code)]

SmallCodecs ==
    {Profile(p) : p \in {WhitenedK3, Interleaved, InterleavedK3}}
        \cup {[Profile(Plain) EXCEPT !.bursts = {1, 2}]}
        \cup {Frame(f) : f \in {Short, [Short EXCEPT !.fec = NoFec],
                                [Short EXCEPT !.fec = K4, !.payloadBits = 9],
                                [Short EXCEPT !.fec = NoCode, !.invariant = <<>>]}}

ASSUME SmallWellChosen == \A c \in SmallCodecs : WellChosen(c)

(* Their CRCs are of one and two bytes of four bits. *)
ASSUME SmallWithinReach == ByteBits = 4 => \A c \in SmallCodecs : BurstsWithinReach(c)

SmallPayloads == {<<>>, <<5>>, <<0, 0>>, <<1, 2, 3>>} \cup {15, 6} \X {2, 9, 12}

SmallTails == {<<>>, Plain.sync}

(* The default code and invariant of the program, with a short payload. *)
DefaultCodecs ==
    LET k7 == [K3 EXCEPT !.K = 7, !.taps = <<{0, 3, 4, 5, 6}, {0, 1, 3, 4, 6}>>]
        f  == [Short EXCEPT !.invariant = IntToBits(4660, 16), !.payloadBits = 8,
                            !.fec = k7]
    IN  {[Frame(f) EXCEPT !.bursts = {}]}

ASSUME DefaultWellChosen == \A c \in DefaultCodecs : WellChosen(c)

(* The preamble and sync word of config/profiles/bpsk_static_v1.yaml.      *)
Shipped ==
    [preamble |-> [i \in 1 .. 32 |-> i % 2], sync |-> IntToBits(15692, 16) \o IntToBits(23402, 16),
     maxErrors |-> 2, allowInverted |-> TRUE]

ASSUME ShippedStandsOut == SyncStandsOut(Shipped)

DefaultPayloads == {<<170>>}

=============================================================================
