---------------------------- MODULE FrameLinkProofs ----------------------------
(***************************************************************************)
(* Proofs about FrameLink for every set of profiles and frame              *)
(* configurations, payload, burst and tail.                                *)
(*                                                                         *)
(* LinkInv says of every state which frame is on its way and what became   *)
(* of it; CodecLemmas says what the parsers make of that.  The theorems    *)
(* about what arrives assume Chosen: the sync words stand out of what      *)
(* comes before them, the polynomials reach both ends of the register and  *)
(* a bit has an odd number of chips.  AcceptedIsRight also assumes that    *)
(* the bursts are within reach of the CRCs.                                *)
(***************************************************************************)
EXTENDS CodecLemmas

-----------------------------------------------------------------------------
(* FrameLink *)

LengthInv == codec \in Codecs /\ LengthsAgree

(* The lengths every module computes with, frame_bits_for_length and the   *)
(* chips TXFlowgraph and RXFlowgraph count, are those of the frames built. *)
THEOREM LengthsMatch == Spec => []LengthsAgree
<1>1. Init => LengthInv
  BY DEF Init, LengthInv, LengthsAgree
<1>2. LengthInv /\ [Next]_vars => LengthInv'
  <2> SUFFICES ASSUME LengthInv, [Next]_vars
               PROVE  LengthInv'
    OBVIOUS
  <2>1. ASSUME NEW payload \in Payloads, NEW id \in Ids, BuildProfile(payload, id)
        PROVE  LengthInv'
    <3>1. codec \in Codecs /\ codec.kind = "profile" /\ codec' = codec
      BY <2>1 DEF BuildProfile, LengthInv
    <3>2. ProfileOK(codec.p) /\ payload \in Seq(Byte)
      BY <3>1, LinkAssumption
    <3>3. sent'.payload = payload /\ sent'.bits = BuildBits(codec.p, payload, id, counter)
      BY <2>1 DEF BuildProfile
    <3>4. Len(sent'.bits) = FrameBits(codec.p, Len(payload))
      BY <3>2, <3>3, BuildLength
    <3> QED BY <3>1, <3>3, <3>4 DEF LengthInv, LengthsAgree
  <2>2. ASSUME NEW payload \in Payloads, BuildGenerated(payload)
        PROVE  LengthInv'
    <3>1. codec \in Codecs /\ codec.kind = "generator" /\ codec' = codec
      BY <2>2 DEF BuildGenerated, LengthInv
    <3>2. FrameOK(codec.p) /\ payload \in Seq(Byte)
      BY <3>1, LinkAssumption
    <3>3. sent'.bits = BuildChips(codec.p, payload)
      BY <2>2 DEF BuildGenerated
    <3>4. /\ Len(sent'.bits) = TxTotalChips(codec.p)
          /\ Len(sent'.bits) = Len(codec.p.preamble) + RxCodedBits(codec.p) * Len(codec.p.code)
      BY <3>2, <3>3, ChipsLength
    <3> QED BY <3>1, <3>4 DEF LengthInv, LengthsAgree
  <2>3. CASE Transmit
    BY <2>3 DEF Transmit, LengthInv, LengthsAgree
  <2>4. CASE ParseProfile
    BY <2>4 DEF ParseProfile, LengthInv, LengthsAgree
  <2>5. CASE ParseGenerated
    BY <2>5 DEF ParseGenerated, LengthInv, LengthsAgree
  <2>6. CASE UNCHANGED vars
    BY <2>6 DEF vars, LengthInv, LengthsAgree
  <2> QED BY <2>1, <2>2, <2>3, <2>4, <2>5, <2>6 DEF Next
<1>3. LengthInv => LengthsAgree
  BY DEF LengthInv
<1> QED BY <1>1, <1>2, <1>3, PTL DEF Spec

-----------------------------------------------------------------------------
(* FrameLink: what every state remembers of the frame on its way *)

CountersInv ==
    /\ codec \in Codecs
    /\ phase \in {"idle", "built", "received"}
    /\ used \in Seq(Nat) /\ Len(used) <= MaxFrames
    /\ counter \in Nat /\ counter <= Len(used)
    /\ codec.kind = "profile" => counter = Len(used) /\ \A i \in 1 .. Len(used) : used[i] = i - 1

(* A frame on its way, or parsed: it was built from a payload. *)
OnItsWay == phase # "idle" \/ result # None

ProfileFrame(payload, id, count) ==
    /\ CanBuild(codec.p, payload, id, count)
    /\ sent = [payload |-> payload, header |-> ResolveHeader(payload, id, count),
               bits |-> BuildBits(codec.p, payload, id, count)]

GeneratedFrame(payload) == sent = [payload |-> payload, bits |-> BuildChips(codec.p, payload)]

FrameInv ==
    /\ OnItsWay /\ codec.kind = "profile" =>
          Len(used) # 0 /\ \E payload \in Payloads, id \in Ids : ProfileFrame(payload, id, counter - 1)
    /\ OnItsWay /\ codec.kind = "generator" => \E payload \in Payloads : GeneratedFrame(payload)

(* The chips a receiver collects *)
Heard(f, chips) == SubSeq(chips, Len(f.preamble) + 1, Len(f.preamble) + RxCodedBits(f) * Len(f.code))

Arrived == phase = "received" \/ (phase = "idle" /\ result # None)

AirInv ==
    /\ air \in Seq(Bit)
    /\ Arrived /\ codec.kind = "profile" =>
          damage \in Damages(sent.bits, codec.bursts, Tails) /\ air = Damaged(sent.bits, damage)
    /\ Arrived /\ codec.kind = "generator" =>
          LET chips == Heard(codec.p, sent.bits)
          IN  /\ damage \in Damages(chips, codec.bursts, {<<>>}) /\ damage.kept = Len(chips)
              /\ air = Damaged(chips, damage)
    /\ phase = "idle" /\ result # None =>
          /\ codec.kind = "profile" => result = Parse(codec.p, air)
          /\ codec.kind = "generator" => result = ParseFrame(codec.p, Despread(codec.p.code, air))

LinkInv == CountersInv /\ FrameInv /\ AirInv

LEMMA LinkInit == Init => LinkInv
<1>1. <<>> \in Seq(Bit) /\ <<>> \in Seq(Nat) /\ Len(<<>>) = 0
  BY EmptySeq
<1> QED BY <1>1, LinkAssumption
        DEF Init, LinkInv, CountersInv, FrameInv, AirInv, OnItsWay, Arrived

LEMMA CodecIs ==
  ASSUME codec \in Codecs
  PROVE  /\ \/ codec.kind = "profile" /\ ProfileOK(codec.p)
            \/ codec.kind = "generator" /\ FrameOK(codec.p)
         /\ codec.bursts \subseteq Nat
  BY LinkAssumption

LEMMA BuildProfileKeeps ==
  ASSUME LinkInv, NEW payload \in Payloads, NEW id \in Ids, BuildProfile(payload, id)
  PROVE  LinkInv'
<1>1. /\ codec' = codec /\ codec.kind = "profile" /\ phase = "idle" /\ Len(used) < MaxFrames
      /\ CanBuild(codec.p, payload, id, counter)
      /\ sent' = [payload |-> payload, header |-> ResolveHeader(payload, id, counter),
                  bits |-> BuildBits(codec.p, payload, id, counter)]
      /\ counter' = counter + 1 /\ used' = Append(used, counter)
      /\ phase' = "built" /\ air' = <<>> /\ result' = None
  BY DEF BuildProfile, Idle, NextCounter
<1>2. /\ codec \in Codecs /\ used \in Seq(Nat) /\ counter \in Nat /\ counter = Len(used)
      /\ \A i \in 1 .. Len(used) : used[i] = i - 1
  BY <1>1 DEF LinkInv, CountersInv
<1>3. MaxFrames \in Nat
  BY LinkAssumption
<1>4. CountersInv'
  <2>1. used' \in Seq(Nat) /\ Len(used') = Len(used) + 1 /\ used'[Len(used) + 1] = counter
        /\ \A i \in 1 .. Len(used) : used'[i] = used[i]
    BY <1>1, <1>2, AppendProperties
  <2>2. Len(used) \in Nat
    BY <1>2
  <2>3. counter' \in Nat /\ counter' = Len(used') /\ Len(used') <= MaxFrames
    BY <1>1, <1>2, <1>3, <2>1, <2>2
  <2>4. ASSUME NEW i \in 1 .. Len(used') PROVE used'[i] = i - 1
    <3>1. CASE i \in 1 .. Len(used)
      BY <1>2, <2>1, <3>1
    <3>2. CASE i = Len(used) + 1
      BY <1>2, <2>1, <2>2, <3>2
    <3> QED BY <2>1, <2>2, <3>1, <3>2
  <2> QED BY <1>1, <1>2, <2>1, <2>3, <2>4 DEF CountersInv
<1>5. FrameInv'
  <2>1. ProfileFrame(payload, id, counter - 1)'
    <3>1. counter' - 1 = counter
      BY <1>1, <1>2
    <3> QED BY <1>1, <3>1 DEF ProfileFrame
  <2>2. Len(used') # 0
    BY <1>1, <1>2, AppendProperties
  <2>3. codec'.kind # "generator"
    BY <1>1
  <2> QED BY <2>1, <2>2, <2>3 DEF FrameInv
<1>6. AirInv'
  BY <1>1, EmptySeq DEF AirInv, Arrived
<1> QED BY <1>4, <1>5, <1>6 DEF LinkInv

LEMMA BuildGeneratedKeeps ==
  ASSUME LinkInv, NEW payload \in Payloads, BuildGenerated(payload)
  PROVE  LinkInv'
<1>1. /\ codec' = codec /\ codec.kind = "generator" /\ phase = "idle" /\ Len(used) < MaxFrames
      /\ sent' = [payload |-> payload, bits |-> BuildChips(codec.p, payload)]
      /\ counter' = counter /\ used' = Append(used, Len(used))
      /\ phase' = "built" /\ air' = <<>> /\ result' = None
  BY DEF BuildGenerated, Idle
<1>2. codec \in Codecs /\ used \in Seq(Nat) /\ counter \in Nat /\ counter <= Len(used)
  BY <1>1 DEF LinkInv, CountersInv
<1>3. MaxFrames \in Nat /\ Len(used) \in Nat
  BY <1>2, LinkAssumption
<1>4. CountersInv'
  <2>1. used' \in Seq(Nat) /\ Len(used') = Len(used) + 1
    BY <1>1, <1>2, <1>3, AppendProperties
  <2>2. counter' <= Len(used') /\ Len(used') <= MaxFrames
    BY <1>1, <1>2, <1>3, <2>1
  <2> QED BY <1>1, <1>2, <2>1, <2>2 DEF CountersInv
<1>5. FrameInv'
  <2>1. GeneratedFrame(payload)'
    BY <1>1 DEF GeneratedFrame
  <2> QED BY <1>1, <2>1 DEF FrameInv
<1>6. AirInv'
  BY <1>1, EmptySeq DEF AirInv, Arrived
<1> QED BY <1>4, <1>5, <1>6 DEF LinkInv

LEMMA HeardType ==
  ASSUME NEW f, FrameOK(f), NEW payload \in Seq(Byte)
  PROVE  /\ Heard(f, BuildChips(f, payload)) = Spread(f.code, CodedFrame(f, payload))
         /\ Spread(f.code, CodedFrame(f, payload)) \in Seq(Bit)
<1> DEFINE spread == Spread(f.code, CodedFrame(f, payload))
           chips  == BuildChips(f, payload)
           a == Len(f.preamble)
           m == RxCodedBits(f) * Len(f.code)
           heard == SubSeq(chips, a + 1, a + m)
<1>1. f.preamble \in Seq(Bit) /\ spread \in Seq(Bit)
  BY CodedFrameType, SpreadType DEF FrameOK
<1>2. Len(chips) = a + m
  BY ChipsLength
<1>3. chips = f.preamble \o spread
  BY DEF BuildChips
<1> HIDE DEF spread
<1>4. /\ Len(chips) = a + Len(spread) /\ chips \in Seq(Bit)
      /\ \A i \in 1 .. a + Len(spread) : chips[i] = IF i <= a THEN f.preamble[i] ELSE spread[i - a]
  BY <1>1, <1>3, ConcatProperties
<1>5. a \in Nat /\ Len(spread) \in Nat
  BY <1>1, LenProperties
<1> DEFINE b == a + m
           n == Len(spread)
<1>6. b = a + n /\ Len(chips) = b
  BY <1>2, <1>4
<1> HIDE DEF a, b, n, chips
<1>7. b \in Nat /\ a \in Nat /\ n \in Nat
  BY <1>5, <1>6 DEF n
<1>8. \A i \in a + 1 .. b : chips[i] \in Bit
  BY <1>4, <1>6, <1>7, ElementOfSeq
<1>9. /\ SubSeq(chips, a + 1, b) \in Seq(Bit)
      /\ Len(SubSeq(chips, a + 1, b)) = n
      /\ \A i \in 1 .. n : SubSeq(chips, a + 1, b)[i] = chips[a + i]
  <2>1. a + 1 \in Int /\ b \in Int /\ b - (a + 1) + 1 = n
    BY <1>6, <1>7
  <2>2. \A i \in 1 .. n : (a + 1) + i - 1 = a + i
    BY <1>7
  <2>3. /\ SubSeq(chips, a + 1, b) \in Seq(Bit)
        /\ Len(SubSeq(chips, a + 1, b)) = IF a + 1 <= b THEN b - (a + 1) + 1 ELSE 0
        /\ \A i \in 1 .. b - (a + 1) + 1 : SubSeq(chips, a + 1, b)[i] = chips[(a + 1) + i - 1]
    BY <1>8, <2>1, SubSeqProperties
  <2>4. Len(SubSeq(chips, a + 1, b)) = n
    BY <1>6, <1>7, <2>1, <2>3
  <2> QED BY <2>1, <2>2, <2>3, <2>4
<1>10. \A i \in 1 .. n : chips[a + i] = spread[i]
  <2>1. ASSUME NEW i \in 1 .. n PROVE chips[a + i] = spread[i]
    <3>1. a + i \in 1 .. a + n /\ ~ (a + i <= a) /\ (a + i) - a = i
      BY <1>7
    <3> QED BY <1>4, <3>1 DEF n
  <2> QED BY <2>1
<1>11. SubSeq(chips, a + 1, b) = spread
  <2> DEFINE sub == SubSeq(chips, a + 1, b)
  <2>1. /\ sub \in Seq(Bit) /\ Len(sub) = n /\ Len(spread) = n
        /\ \A i \in 1 .. n : sub[i] = spread[i]
    BY <1>9, <1>10 DEF n
  <2> HIDE DEF sub
  <2>2. sub = spread
    BY <1>1, <2>1, SeqEqual
  <2> QED BY <2>2 DEF sub
<1> QED BY <1>1, <1>11 DEF Heard, a, b, chips, spread

LEMMA TransmitKeeps ==
  ASSUME LinkInv, Transmit
  PROVE  LinkInv'
<1>1. /\ phase = "built" /\ phase' = "received"
      /\ codec' = codec /\ counter' = counter /\ sent' = sent /\ result' = result /\ used' = used
  BY DEF Transmit
<1>2. codec \in Codecs /\ OnItsWay
  BY <1>1 DEF LinkInv, CountersInv, OnItsWay
<1>3. CountersInv'
  BY <1>1 DEF LinkInv, CountersInv
<1>4. FrameInv'
  BY <1>1, <1>2 DEF LinkInv, FrameInv, ProfileFrame, GeneratedFrame
<1>5. CASE codec.kind = "profile"
  <2>1. damage' \in Damages(sent.bits, codec.bursts, Tails) /\ air' = Damaged(sent.bits, damage')
    BY <1>5 DEF Transmit
  <2>2. PICK payload \in Payloads, id \in Ids : ProfileFrame(payload, id, counter - 1)
    BY <1>2, <1>5 DEF LinkInv, FrameInv
  <2>3. ProfileOK(codec.p) /\ payload \in Seq(Byte) /\ Tails \subseteq Seq(Bit)
    BY <1>2, <1>5, LinkAssumption
  <2>4. sent.bits \in Seq(Bit)
    BY <2>2, <2>3, BuildBitsType DEF ProfileFrame
  <2>5. air' \in Seq(Bit)
    BY <2>1, <2>3, <2>4, DamagedType
  <2>6. AirInv'
    BY <1>1, <1>5, <2>1, <2>5 DEF AirInv
  <2> QED BY <1>3, <1>4, <2>6 DEF LinkInv
<1>6. CASE codec.kind = "generator"
  <2> DEFINE chips == Heard(codec.p, sent.bits)
  <2>1. /\ damage' \in Damages(chips, codec.bursts, {<<>>}) /\ damage'.kept = Len(chips)
        /\ air' = Damaged(chips, damage')
    BY <1>6 DEF Transmit, Heard
  <2>2. PICK payload \in Payloads : GeneratedFrame(payload)
    BY <1>2, <1>6 DEF LinkInv, FrameInv
  <2>3. FrameOK(codec.p) /\ payload \in Seq(Byte)
    BY <1>2, <1>6, LinkAssumption
  <2>4. chips \in Seq(Bit)
    BY <2>2, <2>3, HeardType DEF GeneratedFrame
  <2>5. {<<>>} \subseteq Seq(Bit)
    BY EmptySeq
  <2> HIDE DEF chips
  <2>6. air' \in Seq(Bit)
    BY <2>1, <2>4, <2>5, DamagedType
  <2>7. AirInv'
    BY <1>1, <1>6, <2>1, <2>6 DEF AirInv, chips
  <2> QED BY <1>3, <1>4, <2>7 DEF LinkInv
<1> QED BY <1>2, <1>5, <1>6, LinkAssumption

LEMMA ParseKeeps ==
  ASSUME LinkInv, ParseProfile \/ ParseGenerated
  PROVE  LinkInv'
<1>1. /\ phase = "received" /\ phase' = "idle" /\ codec' = codec /\ counter' = counter
      /\ sent' = sent /\ damage' = damage /\ air' = air /\ used' = used
      /\ codec.kind = "profile" => result' = Parse(codec.p, air)
      /\ codec.kind = "generator" => result' = ParseFrame(codec.p, Despread(codec.p.code, air))
  BY DEF ParseProfile, ParseGenerated
<1>2. CountersInv'
  BY <1>1 DEF LinkInv, CountersInv
<1>3. FrameInv'
  BY <1>1 DEF LinkInv, FrameInv, OnItsWay, ProfileFrame, GeneratedFrame
<1>4. AirInv'
  BY <1>1 DEF LinkInv, AirInv, Arrived
<1> QED BY <1>2, <1>3, <1>4 DEF LinkInv

LEMMA LinkNext == LinkInv /\ [Next]_vars => LinkInv'
<1> SUFFICES ASSUME LinkInv, [Next]_vars
             PROVE  LinkInv'
  OBVIOUS
<1>1. CASE UNCHANGED vars
  BY <1>1 DEF vars, LinkInv, CountersInv, FrameInv, AirInv, OnItsWay, Arrived,
              ProfileFrame, GeneratedFrame
<1> QED BY <1>1, BuildProfileKeeps, BuildGeneratedKeeps, TransmitKeeps, ParseKeeps DEF Next

LEMMA LinkInvariant == Spec => []LinkInv
  BY LinkInit, LinkNext, PTL DEF Spec

(* The states of a link, with bits where bits are meant: no conversion and *)
(* no damage makes anything else of them.                                  *)
THEOREM TypeCorrect == Spec => []TypeOK
<1>1. LinkInv => TypeOK
  <2>1. MaxFrames \in Nat
    BY LinkAssumption
  <2>2. ASSUME LinkInv PROVE counter \in 0 .. MaxFrames
    <3>1. Len(used) \in Nat /\ Len(used) <= MaxFrames /\ counter \in Nat /\ counter <= Len(used)
      BY <2>2 DEF LinkInv, CountersInv
    <3> QED BY <2>1, <3>1
  <2> QED BY <2>2 DEF LinkInv, CountersInv, AirInv, TypeOK
<1> QED BY <1>1, LinkInvariant, PTL

-----------------------------------------------------------------------------
(* What a damage leaves of a frame *)

LEMMA InverseTwice ==
  ASSUME NEW bits \in Seq(Bit)
  PROVE  Inverse1(Inverse1(bits)) = bits
<1> DEFINE b == Inverse1(bits)
           n == Len(bits)
<1>1. b \in Seq(Bit) /\ Len(b) = n /\ n \in Nat
  BY InverseType, LenProperties
<1>2. Inverse1(b) \in Seq(Bit) /\ Len(Inverse1(b)) = n
  BY <1>1, InverseType
<1>3. ASSUME NEW k \in 1 .. n PROVE Inverse1(b)[k] = bits[k]
  <2>1. bits[k] \in Bit
    BY ElementOfSeq
  <2>2. b[k] = 1 - bits[k]
    BY DEF Inverse1
  <2>3. Inverse1(b)[k] = 1 - b[k]
    <3> HIDE DEF b
    <3> QED BY <1>1 DEF Inverse1
  <2> DEFINE x == bits[k]
  <2>4. x \in {0, 1}
    BY <2>1 DEF Bit
  <2> HIDE DEF x
  <2>5. 1 - (1 - x) = x
    BY <2>4
  <2> QED BY <2>2, <2>3, <2>5 DEF x
<1> HIDE DEF b
<1> QED BY <1>2, <1>3, SeqEqual DEF b

LEMMA FlipIs ==
  ASSUME NEW bits \in Seq(Bit), NEW from \in Nat, NEW n \in {0, 1}, NEW k \in 1 .. Len(bits),
         n = 0 \/ k # from
  PROVE  Flip(bits, from, n)[k] = bits[k]
<1>1. k \in Int
  BY LenProperties
<1>2. k \notin from .. from + n - 1
  <2>1. CASE n = 0
    BY <1>1, <2>1
  <2>2. CASE n = 1
    BY <1>1, <2>2
  <2> QED BY <2>1, <2>2
<1> QED BY <1>2 DEF Flip

(* A whole frame with no error, or one at place e, and a tail *)
Like(s, a, e) ==
    /\ a \in Seq(Bit) /\ Len(s) <= Len(a) /\ e \in Int
    /\ \A k \in 1 .. Len(s) : k # e => a[k] = s[k]

LEMMA WholeArrives ==
  ASSUME NEW s \in Seq(Bit), NEW bursts, NEW tails, tails \subseteq Seq(Bit),
         NEW d \in Damages(s, bursts, tails), d.kept = Len(s), d.n \in {0, 1},
         NEW e, e = IF d.n = 0 THEN 0 ELSE d.from
  PROVE  \E a : Like(s, a, e) /\ Damaged(s, d) = IF d.inverted THEN Inverse1(a) ELSE a
<1> DEFINE flipped == Flip(s, d.from, d.n)
           len == Len(s)
           kept == SubSeq(flipped, 1, len)
           a == kept \o d.tail
<1>1. len \in Nat /\ flipped \in Seq(Bit) /\ Len(flipped) = len
  BY LenProperties, FlipType
<1>2. d.from \in Nat /\ d.tail \in Seq(Bit)
  <2>1. DamageKinds(s, d, bursts, tails)
    BY DamageIs
  <2>2. 1 \in Nat /\ 1 .. len \subseteq Nat
    BY <1>1
  <2>3. <<>> \in Seq(Bit)
    BY EmptySeq
  <2> QED BY <2>1, <2>2, <2>3 DEF DamageKinds
<1>3. e \in Int
  BY <1>2
<1>4. ASSUME NEW k \in 1 .. len, k # e PROVE flipped[k] = s[k]
  <2>1. d.n = 0 \/ k # d.from
    BY <1>4
  <2> QED BY <1>2, <2>1, FlipIs
<1> HIDE DEF flipped
<1>5. kept \in Seq(Bit) /\ Len(kept) = len /\ \A k \in 1 .. len : kept[k] = flipped[k]
  <2>1. len \in 0 .. Len(flipped)
    BY <1>1
  <2> QED BY <1>1, <2>1, FirstPart
<1> HIDE DEF kept
<1>6. /\ a \in Seq(Bit) /\ Len(a) = len + Len(d.tail) /\ Len(d.tail) \in Nat
      /\ \A k \in 1 .. len : a[k] = kept[k]
  <2> DEFINE t == d.tail
             m == Len(t)
  <2>1. kept \in Seq(Bit) /\ t \in Seq(Bit) /\ Len(kept) = len /\ Len(t) = m
    BY <1>2, <1>5
  <2> HIDE DEF t, m, len
  <2>2. /\ kept \o t \in Seq(Bit) /\ Len(kept \o t) = len + m /\ m \in Nat
        /\ \A k \in 1 .. len : (kept \o t)[k] = kept[k]
    BY ONLY <2>1, ConcatAt
  <2> QED BY <2>2 DEF t, m
<1>7. len <= Len(a)
  BY <1>1, <1>6
<1>8. Damaged(s, d) = IF d.inverted THEN Inverse1(a) ELSE a
  BY DEF Damaged, a, kept, flipped
<1> HIDE DEF a
<1>9. Like(s, a, e)
  BY <1>3, <1>4, <1>5, <1>6, <1>7 DEF Like
<1> QED BY <1>8, <1>9

(* A frame whose preamble and sync word arrive, but perhaps for one place *)
BeginsLike(p, s, a, e) ==
    /\ a \in Seq(Bit) /\ Len(s) <= Len(a)
    /\ \A k \in 1 .. HeaderAt(p) : k # e => a[k] = s[k]

LEMMA BeginningStarts ==
  ASSUME NEW p, ProfileOK(p), NEW payload \in Seq(Byte), NEW id, NEW count,
         CanBuild(p, payload, id, count), NEW s, s = BuildBits(p, payload, id, count),
         NEW a, NEW e, BeginsLike(p, s, a, e)
  PROVE  StartsAs(p, a, e)
<1> DEFINE t == p.preamble \o p.sync
           H == HeaderAt(p)
           R == RegionAt(p)
           E == EncodedBits(p, Len(payload))
           N == Len(s)
           len == Len(a)
<1>1. PartAt(s, 0, t) /\ N = R + E
  BY FrameLayout DEF Layout
<1>2. E \in Nat
  BY FrameParts DEF Parts
<1>3. R \in Nat /\ H \in Nat /\ H <= R
  <2>1. HeaderAt(p) \in Nat /\ CrcAt(p) \in Nat /\ RegionAt(p) \in Nat
        /\ HeaderAt(p) <= CrcAt(p) /\ CrcAt(p) <= RegionAt(p)
    BY PartSizes
  <2> QED BY <2>1
<1>4. p.preamble \in Seq(Bit) /\ p.sync \in Seq(Bit)
  BY DEF ProfileOK
<1>5. t \in Seq(Bit) /\ Len(t) = H
  BY <1>4, ConcatProperties DEF HeaderAt
<1>6. a \in Seq(Bit) /\ len \in Nat /\ N <= len
  BY LenProperties DEF BeginsLike
<1>0. H = Len(p.preamble) + Len(p.sync)
  BY DEF HeaderAt
<1> HIDE DEF t, H, R, E, N, len
<1>7. H <= len /\ H <= N /\ N \in Nat
  BY <1>1, <1>2, <1>3, <1>6
<1>8. ASSUME NEW k \in 1 .. H, k # e PROVE a[k] = t[k]
  <2>1. k \in 1 .. N /\ 0 + k = k
    BY <1>3, <1>7
  <2>2. a[k] = s[k]
    BY <1>8, <2>1 DEF BeginsLike, H
  <2>3. s[0 + k] = t[k]
    BY <1>1, <1>5 DEF PartAt
  <2> QED BY <2>1, <2>2, <2>3
<1> QED BY <1>0, <1>6, <1>7, <1>8 DEF StartsAs, t, len

LEMMA FrameReaches ==
  ASSUME NEW p, ProfileOK(p), NEW payload \in Seq(Byte), NEW id, NEW count,
         CanBuild(p, payload, id, count), NEW s, s = BuildBits(p, payload, id, count)
  PROVE  HeaderAt(p) \in Nat /\ Len(s) \in Nat /\ HeaderAt(p) <= Len(s)
<1> DEFINE H == HeaderAt(p)
           R == RegionAt(p)
           E == EncodedBits(p, Len(payload))
           N == Len(s)
<1>1. H \in Nat /\ H <= R /\ R \in Nat
  <2>1. HeaderAt(p) \in Nat /\ CrcAt(p) \in Nat /\ RegionAt(p) \in Nat
        /\ HeaderAt(p) <= CrcAt(p) /\ CrcAt(p) <= RegionAt(p)
    BY PartSizes
  <2> QED BY <2>1
<1>2. N = R + E /\ E \in Nat
  BY FrameLayout, FrameParts DEF Layout, Parts
<1> HIDE DEF H, R, E, N
<1>3. N \in Nat /\ H <= N
  BY <1>1, <1>2
<1> QED BY <1>1, <1>3 DEF H, N

LEMMA LikeStarts ==
  ASSUME NEW p, ProfileOK(p), NEW payload \in Seq(Byte), NEW id, NEW count,
         CanBuild(p, payload, id, count), NEW s, s = BuildBits(p, payload, id, count),
         NEW a, NEW e, Like(s, a, e)
  PROVE  StartsAs(p, a, e)
<1> DEFINE H == HeaderAt(p)
           N == Len(s)
<1>1. H \in Nat /\ N \in Nat /\ H <= N
  BY FrameReaches
<1> HIDE DEF H, N
<1>2. \A k \in 1 .. H : k \in 1 .. N
  BY <1>1
<1>3. BeginsLike(p, s, a, e)
  BY <1>2 DEF BeginsLike, Like, H, N
<1> QED BY <1>3, BeginningStarts

Harmless(p, s, e) == e \notin HeaderAt(p) + 1 .. Len(s) \/ (p.fec.cc /\ e > RegionAt(p))

LEMMA LikeArrives ==
  ASSUME NEW p, ProfileOK(p), NEW s, NEW a, NEW e, Like(s, a, e), Harmless(p, s, e), HeaderAt(p) \in Nat,
         Len(s) \in Nat
  PROVE  Arrives(p, s, a, e)
<1>1. HeaderAt(p) + 1 .. Len(s) \subseteq 1 .. Len(s)
  <2> DEFINE n == HeaderAt(p)
             m == Len(s)
  <2>1. n \in Nat /\ m \in Nat
    OBVIOUS
  <2> HIDE DEF n, m
  <2>2. n + 1 .. m \subseteq 1 .. m
    BY <2>1
  <2> QED BY <2>2 DEF n, m
<1> QED BY <1>1 DEF Like, Harmless, Arrives

LEMMA LikeParses ==
  ASSUME NEW p, ProfileOK(p), TapsReach(p.fec), NEW payload \in Seq(Byte), NEW id, NEW count,
         CanBuild(p, payload, id, count), NEW s, s = BuildBits(p, payload, id, count),
         NEW a, NEW e, Like(s, a, e), Harmless(p, s, e),
         NEW v \in BOOLEAN, NEW received, received = IF v THEN Inverse1(a) ELSE a,
         Found(p, received, Len(p.preamble), v)
  PROVE  Parse(p, received) = WellParsed(p, payload, id, count, v)
<1>1. a \in Seq(Bit)
  BY DEF Like
<1>2. received \in Seq(Bit)
  BY <1>1, InverseType
<1>3. FindSync(p, received) = [index |-> Len(p.preamble), inverted |-> v]
  BY <1>2, SyncFound
<1>4. a = IF v THEN Inverse1(received) ELSE received
  BY <1>1, InverseTwice
<1>5. s \in Seq(Bit) /\ Len(s) \in Nat
  BY BuildBitsType, LenProperties
<1>6. Arrives(p, s, a, e)
  BY <1>5, PartSizes, LikeArrives
<1> QED BY <1>3, <1>4, <1>6, ParseWell

-----------------------------------------------------------------------------
(* The frames of a profile, in the states of the link *)

Chosen == \A c \in Codecs : WellChosen(c)

LEMMA FrameOf ==
  ASSUME LinkInv, OnItsWay, codec.kind = "profile", Chosen
  PROVE  /\ ProfileOK(codec.p) /\ SyncStandsOut(codec.p) /\ TapsReach(codec.p.fec)
         /\ \E payload \in Seq(Byte) : \E id : ProfileFrame(payload, id, counter - 1)
<1>1. codec \in Codecs
  BY DEF LinkInv, CountersInv
<1>2. ProfileOK(codec.p) /\ Payloads \subseteq Seq(Byte)
  BY <1>1, LinkAssumption
<1>3. SyncStandsOut(codec.p) /\ TapsReach(codec.p.fec)
  BY <1>1 DEF Chosen, WellChosen
<1>4. \E payload \in Payloads, id \in Ids : ProfileFrame(payload, id, counter - 1)
  BY DEF LinkInv, FrameInv
<1> QED BY <1>2, <1>3, <1>4

LEMMA LikeItself ==
  ASSUME NEW s \in Seq(Bit)
  PROVE  Like(s, s, 0)
<1>1. Len(s) <= Len(s)
  BY LenProperties
<1> QED BY <1>1 DEF Like

LEMMA NoErrorIsHarmless ==
  ASSUME NEW p, ProfileOK(p), NEW s \in Seq(Bit)
  PROVE  /\ Harmless(p, s, 0)
         /\ 0 \notin Len(p.preamble) + 1 .. Len(p.preamble) + Len(p.sync)
<1> DEFINE H == HeaderAt(p)
           n == Len(p.preamble)
           m == Len(p.sync)
           N == Len(s)
<1>1. H \in Nat /\ n \in Nat /\ m \in Nat /\ N \in Nat
  BY PartSizes, SyncSizes, LenProperties
<1> HIDE DEF H, n, m, N
<1>2. 0 \notin H + 1 .. N /\ 0 \notin n + 1 .. n + m
  BY <1>1
<1> QED BY <1>2 DEF Harmless, H, n, m, N

(* Frames are counted from zero, each with its own number: build raises    *)
(* instead of starting over.  What is sent carries its counter where the   *)
(* parser finds it.                                                        *)
THEOREM NoCounterTwice ==
  ASSUME Chosen
  PROVE  Spec => []CountersNeverRepeat
<1>1. ASSUME LinkInv PROVE CountersNeverRepeat
  <2> SUFFICES ASSUME phase = "built", codec.kind = "profile"
               PROVE  /\ \A i, j \in DOMAIN used : i # j => used[i] # used[j]
                      /\ FindSync(codec.p, sent.bits).index >= 0
                      /\ Parse(codec.p, sent.bits).header.counter = used[Len(used)]
    BY DEF CountersNeverRepeat
  <2> DEFINE p == codec.p
             s == sent.bits
             N == Len(used)
  <2>1. /\ used \in Seq(Nat) /\ counter = N /\ N \in Nat
        /\ \A i \in 1 .. N : used[i] = i - 1
    BY <1>1, LenProperties DEF LinkInv, CountersInv
  <2>2. OnItsWay
    BY DEF OnItsWay
  <2>3. N # 0
    BY <1>1, <2>2 DEF LinkInv, FrameInv
  <2>4. used[N] = counter - 1
    <3> HIDE DEF N
    <3>1. N \in 1 .. N
      BY <2>1, <2>3
    <3> QED BY <2>1, <3>1
  <2>5. \A i, j \in DOMAIN used : i # j => used[i] # used[j]
    <3>1. DOMAIN used = 1 .. N
      BY <2>1
    <3> HIDE DEF N
    <3>2. ASSUME NEW i \in 1 .. N, NEW j \in 1 .. N, i # j PROVE used[i] # used[j]
      <4>1. used[i] = i - 1 /\ used[j] = j - 1 /\ i - 1 # j - 1
        BY <2>1, <3>2
      <4> QED BY <4>1
    <3> QED BY <3>1, <3>2
  <2>6. ProfileOK(p) /\ SyncStandsOut(p) /\ TapsReach(p.fec)
    BY <1>1, <2>2, FrameOf
  <2>frame. PICK payload \in Seq(Byte) : \E id : ProfileFrame(payload, id, counter - 1)
    BY <1>1, <2>2, FrameOf
  <2>7. PICK id : ProfileFrame(payload, id, counter - 1)
    BY <2>frame
  <2> DEFINE count == counter - 1
  <2>8. CanBuild(p, payload, id, count) /\ s = BuildBits(p, payload, id, count)
    BY <2>7 DEF ProfileFrame
  <2>9. s \in Seq(Bit)
    BY <2>6, <2>8, BuildBitsType
  <2> HIDE DEF p, s, count
  <2>10. Like(s, s, 0) /\ Harmless(p, s, 0)
         /\ 0 \notin Len(p.preamble) + 1 .. Len(p.preamble) + Len(p.sync)
    BY <2>6, <2>9, LikeItself, NoErrorIsHarmless
  <2>11. StartsAs(p, s, 0)
    BY <2>6, <2>8, <2>10, LikeStarts
  <2>12. 0 \in Int
    OBVIOUS
  <2>13. Found(p, s, Len(p.preamble), FALSE)
    BY <2>6, <2>10, <2>11, <2>12, FoundUpright
  <2> DEFINE v == FALSE
  <2>14. v \in BOOLEAN /\ s = (IF v THEN Inverse1(s) ELSE s) /\ Found(p, s, Len(p.preamble), v)
    BY <2>13
  <2> HIDE DEF v
  <2>15. Parse(p, s) = WellParsed(p, payload, id, count, v)
    BY <2>6, <2>8, <2>10, <2>14, LikeParses
  <2>16. Parse(p, s).header.counter = count
    BY <2>15 DEF WellParsed, ResolveHeader
  <2>17. FindSync(p, s).index = Len(p.preamble) /\ Len(p.preamble) >= 0
    <3>1. FindSync(p, s) = [index |-> Len(p.preamble), inverted |-> v]
      BY <2>6, <2>9, <2>14, SyncFound
    <3>2. Len(p.preamble) \in Nat
      BY <2>6, SyncSizes
    <3> QED BY <3>1, <3>2
  <2> QED BY <2>4, <2>5, <2>16, <2>17 DEF p, s, count
<1> QED BY <1>1, LinkInvariant, PTL

LEMMA WellParsedIsRight ==
  ASSUME NEW payload, NEW id, NEW count, NEW v, ProfileFrame(payload, id, count),
         result = WellParsed(codec.p, payload, id, count, v)
  PROVE  Right /\ result.inverted = v /\ result.syncIndex = Len(codec.p.preamble)
<1>1. sent.payload = payload /\ sent.header = ResolveHeader(payload, id, count)
  BY DEF ProfileFrame
<1> QED BY <1>1 DEF Right, Ok, WellParsed

(* Whatever arrives without errors is parsed into what was built, for any  *)
(* payload, header and bits behind the frame.                              *)
THEOREM RoundTrip ==
  ASSUME Chosen
  PROVE  Spec => []ProfileRoundTrip
<1>1. ASSUME LinkInv PROVE ProfileRoundTrip
  <2> SUFFICES ASSUME Parsed("profile"), damage.n = 0, damage.kept = Len(sent.bits),
                      damage.inverted => codec.p.allowInverted
               PROVE  Right /\ result.inverted = damage.inverted
                      /\ result.syncIndex = Len(codec.p.preamble)
    BY DEF ProfileRoundTrip
  <2> DEFINE p == codec.p
             s == sent.bits
             v == damage.inverted
             count == counter - 1
  <2>1. OnItsWay /\ Arrived /\ phase = "idle" /\ result # None /\ codec.kind = "profile"
    BY DEF OnItsWay, Arrived, Parsed
  <2>2. /\ damage \in Damages(s, codec.bursts, Tails) /\ air = Damaged(s, damage)
        /\ result = Parse(p, air)
    BY <1>1, <2>1 DEF LinkInv, AirInv
  <2>3. ProfileOK(p) /\ SyncStandsOut(p) /\ TapsReach(p.fec)
    BY <1>1, <2>1, FrameOf
  <2>frame. PICK payload \in Seq(Byte) : \E id : ProfileFrame(payload, id, count)
    BY <1>1, <2>1, FrameOf
  <2>4. PICK id : ProfileFrame(payload, id, count)
    BY <2>frame
  <2>5. CanBuild(p, payload, id, count) /\ s = BuildBits(p, payload, id, count)
    BY <2>4 DEF ProfileFrame
  <2>6. s \in Seq(Bit) /\ Tails \subseteq Seq(Bit)
    BY <2>3, <2>5, BuildBitsType, LinkAssumption
  <2>7. v \in BOOLEAN
    <3>1. DamageKinds(s, damage, codec.bursts, Tails)
      BY <2>2, DamageIs
    <3> QED BY <3>1 DEF DamageKinds
  <2> DEFINE e == 0
  <2>8. PICK a : Like(s, a, e) /\ air = IF v THEN Inverse1(a) ELSE a
    <3>1. e = (IF damage.n = 0 THEN 0 ELSE damage.from) /\ damage.n \in {0, 1} /\ damage.kept = Len(s)
      OBVIOUS
    <3> HIDE DEF s, e
    <3> QED BY <2>2, <2>6, <3>1, WholeArrives
  <2> HIDE DEF p, s, v, count
  <2>9. /\ Harmless(p, s, e)
        /\ e \notin Len(p.preamble) + 1 .. Len(p.preamble) + Len(p.sync)
    BY <2>3, <2>6, NoErrorIsHarmless
  <2>10. StartsAs(p, a, e)
    BY <2>3, <2>5, <2>8, LikeStarts
  <2>11. Found(p, air, Len(p.preamble), v)
    <3>1. CASE v = TRUE
      <4>1. p.allowInverted /\ air = Inverse1(a)
        BY <2>8, <3>1 DEF p, v
      <4>2. Found(p, Inverse1(a), Len(p.preamble), TRUE)
        BY <2>3, <2>10, <4>1, FoundInverted
      <4> QED BY <3>1, <4>1, <4>2
    <3>2. CASE v = FALSE
      <4>1. Found(p, a, Len(p.preamble), FALSE)
        <5>1. e \in Int
          OBVIOUS
        <5> HIDE DEF e
        <5> QED BY <2>3, <2>9, <2>10, <5>1, FoundUpright
      <4> QED BY <2>8, <3>2, <4>1
    <3> QED BY <2>7, <3>1, <3>2
  <2> HIDE DEF e
  <2>12. Parse(p, air) = WellParsed(p, payload, id, count, v)
    BY <2>3, <2>5, <2>7, <2>8, <2>9, <2>11, LikeParses
  <2>13. result = WellParsed(codec.p, payload, id, count, v)
    BY <2>2, <2>12 DEF p
  <2> QED BY <2>4, <2>13, WellParsedIsRight DEF v
<1> QED BY <1>1, LinkInvariant, PTL

-----------------------------------------------------------------------------
(* One error, and frames cut short *)

HitCase(d, s) == d.n = 1 /\ d.from \in 1 .. Len(s) /\ d.kept = Len(s) /\ d.inverted = FALSE /\ d.tail = <<>>

LEMMA OneErrorIsHit ==
  ASSUME NEW s, NEW bursts, NEW tails, NEW d \in Damages(s, bursts, tails), d.n = 1
  PROVE  HitCase(d, s)
<1>1. DamageKinds(s, d, bursts, tails)
  BY DamageIs
<1>2. d.n # 0
  OBVIOUS
<1> QED BY <1>1, <1>2 DEF DamageKinds, HitCase

(* An error in the preamble, in a sync word that may have one and that     *)
(* nothing else resembles, or in a convolutionally coded payload: the      *)
(* frame is found in its place and the decoder corrects its payload.       *)
THEOREM OneErrorCorrected ==
  ASSUME Chosen
  PROVE  Spec => []SingleErrorHarmless
<1>1. ASSUME LinkInv PROVE SingleErrorHarmless
  <2> DEFINE p == codec.p
             s == sent.bits
             e == damage.from
             n == Len(p.preamble)
             m == Len(p.sync)
             H == HeaderAt(p)
             R == RegionAt(p)
             E == EncodedBits(p, Len(sent.payload))
             N == Len(s)
             stolen == \E w \in (0 .. Len(air) - Len(codec.p.sync)) \ {n}, i \in BOOLEAN :
                          SyncDistance(codec.p, air, w, i) <= codec.p.maxErrors
             count == counter - 1
  <2> SUFFICES ASSUME Parsed("profile"), damage.n = 1,
                      \/ e <= n
                      \/ e <= n + m /\ p.maxErrors > 0 /\ ~ stolen
                      \/ e > N - E /\ p.fec.cc
               PROVE  Right
    BY DEF SingleErrorHarmless
  <2>1. OnItsWay /\ Arrived /\ phase = "idle" /\ result # None /\ codec.kind = "profile"
    BY DEF OnItsWay, Arrived, Parsed
  <2>2. /\ damage \in Damages(s, codec.bursts, Tails) /\ air = Damaged(s, damage)
        /\ result = Parse(p, air)
    BY <1>1, <2>1 DEF LinkInv, AirInv
  <2>3. ProfileOK(p) /\ SyncStandsOut(p) /\ TapsReach(p.fec)
    BY <1>1, <2>1, FrameOf
  <2>frame. PICK payload \in Seq(Byte) : \E id : ProfileFrame(payload, id, count)
    BY <1>1, <2>1, FrameOf
  <2>4. PICK id : ProfileFrame(payload, id, count)
    BY <2>frame
  <2>5. CanBuild(p, payload, id, count) /\ s = BuildBits(p, payload, id, count)
        /\ sent.payload = payload
    BY <2>4 DEF ProfileFrame
  <2>6. s \in Seq(Bit) /\ Tails \subseteq Seq(Bit) /\ N \in Nat
    <3>1. s \in Seq(Bit) /\ Tails \subseteq Seq(Bit)
      BY <2>3, <2>5, BuildBitsType, LinkAssumption
    <3> QED BY <3>1, LenProperties
  <2>7. HitCase(damage, s)
    BY <2>2, OneErrorIsHit
  <2>8. e \in 1 .. N /\ damage.kept = N /\ damage.inverted = FALSE
    BY <2>7 DEF HitCase
  <2>9. PICK a : Like(s, a, e) /\ air = IF damage.inverted THEN Inverse1(a) ELSE a
    <3>1. e = (IF damage.n = 0 THEN 0 ELSE damage.from) /\ damage.n \in {0, 1} /\ damage.kept = Len(s)
      BY <2>8
    <3> HIDE DEF s, e
    <3> QED BY <2>2, <2>6, <3>1, WholeArrives
  <2>10. Like(s, air, e)
    BY <2>8, <2>9
  <2>11. n \in Nat /\ m \in Nat /\ H = n + m /\ R \in Nat /\ H \in Nat /\ H <= R
    <3>1. HeaderAt(p) \in Nat /\ CrcAt(p) \in Nat /\ RegionAt(p) \in Nat
          /\ HeaderAt(p) <= CrcAt(p) /\ CrcAt(p) <= RegionAt(p)
      BY <2>3, PartSizes
    <3>2. n \in Nat /\ m \in Nat
      BY <2>3, SyncSizes
    <3>3. H = n + m
      BY DEF HeaderAt
    <3>4. H \in Nat /\ R \in Nat /\ H <= R
      <4> DEFINE C == CrcAt(p)
      <4>1. H \in Nat /\ R \in Nat /\ C \in Nat /\ H <= C /\ C <= R
        BY <3>1
      <4> HIDE DEF H, R, C
      <4> QED BY <4>1
    <3> HIDE DEF n, m, H, R
    <3> QED BY <3>2, <3>3, <3>4
  <2>12. N = R + E /\ E \in Nat
    <3> HIDE DEF p, s, count
    <3>1. N = RegionAt(p) + EncodedBits(p, Len(payload))
      BY <2>3, <2>5, FrameLayout DEF Layout
    <3>2. EncodedBits(p, Len(payload)) \in Nat
      BY <2>3, <2>5, FrameParts DEF Parts
    <3> QED BY <2>5, <3>1, <3>2
  <2>13. StartsAs(p, air, e)
    <3> HIDE DEF p, s, count, e
    <3> QED BY <2>3, <2>5, <2>10, LikeStarts
  <2>14. e \in Int
    <3> HIDE DEF e, N
    <3> QED BY <2>6, <2>8
  <2>15. /\ p.fec.cc /\ e > N - E => Harmless(p, s, e) /\ e \notin n + 1 .. n + m
         /\ e <= n => Harmless(p, s, e) /\ e \notin n + 1 .. n + m
         /\ e <= n + m => Harmless(p, s, e)
    <3> HIDE DEF e, n, m, H, R, E, N
    <3>1. e > N - E => e > R /\ e \notin n + 1 .. n + m
      BY <2>11, <2>12, <2>14
    <3>2. e <= n => e \notin H + 1 .. N /\ e \notin n + 1 .. n + m
      BY <2>6, <2>11, <2>14
    <3>3. e <= n + m => e \notin H + 1 .. N
      BY <2>6, <2>11, <2>14
    <3> QED BY <3>1, <3>2, <3>3 DEF Harmless, H, R, N
  <2>16. Found(p, air, n, FALSE) /\ Harmless(p, s, e)
    <3>1. CASE Harmless(p, s, e) /\ e \notin n + 1 .. n + m
      <4> HIDE DEF p, e
      <4>1. Found(p, air, Len(p.preamble), FALSE)
        BY <2>3, <2>13, <2>14, <3>1, FoundUpright
      <4> QED BY <3>1, <4>1
    <3>2. CASE e <= n + m /\ p.maxErrors > 0 /\ ~ stolen
      <4>1. \A w \in SyncWindows(p, air) \ {Len(p.preamble)}, i \in BOOLEAN :
               ~ (SyncDistance(p, air, w, i) <= p.maxErrors)
        BY <3>2 DEF SyncWindows
      <4> HIDE DEF p, e
      <4>2. Found(p, air, Len(p.preamble), FALSE)
        BY <2>3, <2>13, <2>14, <3>2, <4>1, FoundHit
      <4> QED BY <2>15, <3>2, <4>2
    <3> HIDE DEF stolen, e, n, m, N, E
    <3> QED BY <2>15, <3>1, <3>2
  <2> DEFINE v == FALSE
  <2>17. v \in BOOLEAN /\ air = (IF v THEN Inverse1(air) ELSE air) /\ Found(p, air, Len(p.preamble), v)
    BY <2>16
  <2> HIDE DEF v, p, s, e, count
  <2>18. Parse(p, air) = WellParsed(p, payload, id, count, v)
    BY <2>3, <2>5, <2>10, <2>16, <2>17, LikeParses
  <2>19. result = WellParsed(codec.p, payload, id, count, v)
    BY <2>2, <2>18 DEF p
  <2> QED BY <2>4, <2>19, WellParsedIsRight
<1> QED BY <1>1, LinkInvariant, PTL

-----------------------------------------------------------------------------
(* A frame cut short *)

Beginning(s, a) ==
    /\ a \in Seq(Bit) /\ Len(a) < Len(s)
    /\ \A k \in 1 .. Len(a) : a[k] = s[k]

LEMMA ConcatEmpty ==
  ASSUME NEW S, NEW s \in Seq(S)
  PROVE  s \o <<>> = s
OBVIOUS

LEMMA CutArrives ==
  ASSUME NEW s \in Seq(Bit), NEW bursts, NEW tails,
         NEW d \in Damages(s, bursts, tails), d.kept < Len(s)
  PROVE  Beginning(s, Damaged(s, d))
<1> DEFINE len == Len(s)
           flipped == Flip(s, d.from, d.n)
           kept == SubSeq(flipped, 1, d.kept)
<1>1. len \in Nat /\ flipped \in Seq(Bit) /\ Len(flipped) = len
  BY LenProperties, FlipType
<1>2. ~ (len < len)
  <2> HIDE DEF len
  <2> QED BY <1>1
<1>3. d.from = 1 /\ d.n = 0 /\ d.kept \in 0 .. len - 1 /\ d.inverted = FALSE /\ d.tail = <<>>
  <2>1. DamageKinds(s, d, bursts, tails)
    BY DamageIs
  <2>2. d.kept # len
    BY <1>2
  <2> HIDE DEF len
  <2> QED BY <2>1, <2>2 DEF DamageKinds, len
<1>4. ASSUME NEW k \in 1 .. len PROVE flipped[k] = s[k]
  <2>1. d.from \in Nat /\ d.n \in {0, 1} /\ d.n = 0
    BY <1>3
  <2> QED BY <2>1, FlipIs
<1> HIDE DEF flipped
<1>5. kept \in Seq(Bit) /\ Len(kept) = d.kept /\ \A k \in 1 .. d.kept : kept[k] = flipped[k]
  <2>1. d.kept \in 0 .. Len(flipped)
    <3> HIDE DEF len
    <3> QED BY <1>1, <1>3
  <2> QED BY <1>1, <2>1, FirstPart
<1>6. kept \o d.tail = kept
  BY <1>3, <1>5, ConcatEmpty
<1>7. Damaged(s, d) = kept
  BY <1>3, <1>6 DEF Damaged, kept, flipped
<1> HIDE DEF kept
<1>8. Len(kept) < len /\ \A k \in 1 .. Len(kept) : kept[k] = s[k]
  <2> DEFINE n == d.kept
  <2>1. n \in 0 .. len - 1
    BY <1>3
  <2> HIDE DEF n, len
  <2>2. n < len /\ \A k \in 1 .. n : k \in 1 .. len
    BY <1>1, <2>1
  <2>3. \A k \in 1 .. n : kept[k] = flipped[k] /\ flipped[k] = s[k]
    BY <1>4, <1>5, <2>2 DEF n, len
  <2> QED BY <1>5, <2>2, <2>3 DEF n
<1> QED BY <1>5, <1>7, <1>8 DEF Beginning

(* Cut before the end of the sync word: nothing is found. *)
LEMMA CutEarly ==
  ASSUME NEW p, ProfileOK(p), SyncStandsOut(p), NEW s, StartsAs(p, s, 0),
         NEW a, Beginning(s, a), Len(a) < HeaderAt(p)
  PROVE  Parse(p, a) = Raised
<1> DEFINE n == Len(p.preamble)
           m == Len(p.sync)
           len == Len(a)
<1>1. n \in Nat /\ m \in Nat /\ len \in Nat /\ len < n + m
  <2>1. len \in Nat
    BY LenProperties DEF Beginning
  <2> QED BY <2>1, SyncSizes DEF HeaderAt
<1>2. ASSUME NEW w \in SyncWindows(p, a), NEW i \in Polarities(p)
      PROVE  SyncDistance(p, a, w, i) \notin Tolerated(p)
  <2>1. w \in 0 .. len - m
    BY DEF SyncWindows
  <2>2. w \in 0 .. n - 1 /\ \A k \in 1 .. m : w + k \in 1 .. len /\ w + k # 0
    <3> HIDE DEF n, m, len
    <3> QED BY <1>1, <2>1
  <2>3. 0 \in Int /\ 0 \notin 1 .. n + m
    <3> HIDE DEF n, m
    <3> QED BY <1>1
  <2>4. SyncDistance(p, s, w, i) \notin Tolerated(p)
    BY <2>2, <2>3, NothingBefore
  <2>5. SameWindow(p, a, s, w, 0) /\ Elsewhere(p, w, 0)
    BY <2>2 DEF SameWindow, Elsewhere, Beginning
  <2>6. SyncDistance(p, a, w, i) = SyncDistance(p, s, w, i)
    BY <2>5, SyncSame
  <2> QED BY <2>4, <2>6
<1>3. FindSync(p, a).index = 0 - 1
  BY <1>2, SyncMissed
<1> QED BY <1>3, ParseNone

LEMMA BeginningPart ==
  ASSUME NEW s \in Seq(Bit), NEW a, Beginning(s, a), NEW t \in Seq(Bit), NEW n \in Nat,
         PartAt(s, n, t), NEW to, to = n + Len(t), to <= Len(a)
  PROVE  Slice(a, n, to) = t
<1> DEFINE m == Len(t)
           len == Len(a)
<1>1. a \in Seq(Bit) /\ len \in Nat /\ m \in Nat
  BY LenProperties DEF Beginning
<1> HIDE DEF m, len
<1>2. \A k \in 1 .. m : n + k \in 1 .. len
  BY <1>1 DEF m, len
<1>3. PartAt(a, n, t)
  BY <1>2 DEF Beginning, PartAt, m, len
<1> QED BY ONLY <1>1, <1>3, to = n + Len(t), to <= Len(a), t \in Seq(Bit), n \in Nat, SliceOfPart

(* Cut behind it: the header, if it is whole, asks for more than there is. *)
LEMMA CutLate ==
  ASSUME NEW p, ProfileOK(p), SyncStandsOut(p), NEW payload \in Seq(Byte), NEW id, NEW count,
         CanBuild(p, payload, id, count), NEW s, s = BuildBits(p, payload, id, count),
         NEW a, Beginning(s, a), HeaderAt(p) <= Len(a)
  PROVE  Parse(p, a) = Raised
<1> DEFINE h == SerializedHeader(p, payload, id, count)
           c == HeaderCrcBits(p, h)
           header == ResolveHeader(payload, id, count)
           H == HeaderAt(p)
           C == CrcAt(p)
           R == RegionAt(p)
           b == p.headerCrc.bytes * ByteBits
           E == EncodedBits(p, Len(payload))
           N == Len(s)
           len == Len(a)
           v == FALSE
           sync == [index |-> Len(p.preamble), inverted |-> v]
<1>1. /\ H \in Nat /\ C \in Nat /\ R \in Nat /\ b \in Nat /\ H <= C /\ C <= R
      /\ C = H + HeaderBits(p) /\ R = C + b
  BY PartSizes DEF CrcAt, RegionAt
<1>2. h \in Seq(Bit) /\ Len(h) = HeaderBits(p) /\ c \in Seq(Bit) /\ Len(c) = b /\ E \in Nat
      /\ HasLength(p, Len(payload))
  BY FrameParts DEF Parts, HasLength
<1>3. /\ s \in Seq(Bit) /\ N = R + E /\ PartAt(s, H, h) /\ PartAt(s, C, c)
      /\ PartAt(s, 0, p.preamble \o p.sync)
  BY FrameLayout DEF Layout
<1>4. a \in Seq(Bit) /\ len \in Nat /\ len < N /\ H <= len
  BY LenProperties DEF Beginning
<1>5. StartsAs(p, a, 0)
  <2>1. p.preamble \in Seq(Bit) /\ p.sync \in Seq(Bit)
    BY DEF ProfileOK
  <2> DEFINE t == p.preamble \o p.sync
  <2>2. Len(t) = H /\ H = Len(p.preamble) + Len(p.sync)
    BY <2>1, ConcatProperties DEF HeaderAt
  <2> HIDE DEF t, H, len
  <2>3. ASSUME NEW k \in 1 .. H PROVE a[k] = t[k]
    <3>1. k \in 1 .. len /\ 0 + k = k
      BY <1>1, <1>4
    <3>2. a[k] = s[k]
      BY <3>1 DEF Beginning, len
    <3>3. s[0 + k] = t[k]
      BY <1>3, <2>2 DEF PartAt, t
    <3> QED BY <3>1, <3>2, <3>3
  <2> QED BY <1>4, <2>2, <2>3 DEF StartsAs, t, len
<1>6. FindSync(p, a) = sync
  <2>0. s \in Seq(Bit)
    BY <1>3
  <2>1. 0 \notin Len(p.preamble) + 1 .. Len(p.preamble) + Len(p.sync)
    <3>1. /\ Harmless(p, s, 0)
          /\ 0 \notin Len(p.preamble) + 1 .. Len(p.preamble) + Len(p.sync)
      BY <2>0, NoErrorIsHarmless
    <3> QED BY <3>1
  <2>2. Found(p, a, Len(p.preamble), v)
    <3>1. 0 \in Int
      OBVIOUS
    <3> QED BY <1>5, <2>1, <3>1, FoundUpright
  <2> HIDE DEF v
  <2> QED BY <1>4, <2>2, SyncFound
<1>7. v \in BOOLEAN /\ a = IF v THEN Inverse1(a) ELSE a
  OBVIOUS
<1> HIDE DEF v
<1> DEFINE h2 == Slice(a, H, C)
           c2 == Slice(a, C, R)
<1>8. Parse(p, a) = IF TooShort(a, R) THEN Raised
                    ELSE ParseRegion(p, a, R, ParseHeader(p, h2),
                                     BitsToBytes(c2) = Crc(p.headerCrc, BitsToBytes(h2)), sync)
  BY <1>6, <1>7, ParseAt
<1>9. CASE len < R
  <2>1. TooShort(a, R)
    BY <1>9 DEF TooShort
  <2> QED BY <1>8, <2>1
<1>10. CASE R <= len
  <2> HIDE DEF H, C, R, b, E, N, len, h, c
  <2>0. C <= len
    BY <1>1, <1>4, <1>10
  <2>1. h2 = h
    <3>1. /\ s \in Seq(Bit) /\ Beginning(s, a) /\ h \in Seq(Bit) /\ H \in Nat
          /\ PartAt(s, H, h) /\ C = H + Len(h) /\ C <= Len(a)
      BY <1>1, <1>2, <1>3, <2>0 DEF len
    <3> QED BY ONLY <3>1, BeginningPart
  <2>2. c2 = c
    <3>1. /\ s \in Seq(Bit) /\ Beginning(s, a) /\ c \in Seq(Bit) /\ C \in Nat
          /\ PartAt(s, C, c) /\ R = C + Len(c) /\ R <= Len(a)
      BY <1>1, <1>2, <1>3, <1>10 DEF len
    <3> QED BY ONLY <3>1, BeginningPart
  <2>3. (BitsToBytes(c) = Crc(p.headerCrc, BitsToBytes(h))) = TRUE
    BY <1>2, HeaderCrcRead DEF c
  <2>4. ParseHeader(p, h) = header
    BY HeaderRoundTrip DEF h
  <2>5. header.length = Len(payload)
    BY DEF ResolveHeader
  <2>6. TooShort(a, R + E)
    <3>1. len < R + E
      BY <1>1, <1>2, <1>3, <1>4
    <3> QED BY <3>1 DEF TooShort, len
  <2>7. ~ TooShort(a, R)
    <3>1. ~ (len < R)
      BY <1>1, <1>4, <1>10
    <3> QED BY <3>1 DEF TooShort, len
  <2> HIDE DEF header, sync, h2, c2
  <2>8. ParseRegion(p, a, R, header, TRUE, sync) = Raised
    BY <2>5, <2>6 DEF ParseRegion, E
  <2> QED BY <1>8, <2>1, <2>2, <2>3, <2>4, <2>7, <2>8
<1> HIDE DEF len, R
<1> QED BY <1>1, <1>4, <1>9, <1>10

LEMMA CutInLink ==
  ASSUME LinkInv, Chosen
  PROVE  CutFrameRejected
<1> SUFFICES ASSUME Parsed("profile"), damage.kept < Len(sent.bits)
             PROVE  ~ Ok(result)
  BY DEF CutFrameRejected
<1> DEFINE p == codec.p
           s == sent.bits
           count == counter - 1
<1>1. OnItsWay /\ Arrived /\ phase = "idle" /\ result # None /\ codec.kind = "profile"
  BY DEF OnItsWay, Arrived, Parsed
<1>2. /\ damage \in Damages(s, codec.bursts, Tails) /\ air = Damaged(s, damage)
      /\ result = Parse(p, air)
  BY <1>1 DEF LinkInv, AirInv
<1>3. ProfileOK(p) /\ SyncStandsOut(p)
  BY <1>1, FrameOf
<1>frame. PICK payload \in Seq(Byte) : \E id : ProfileFrame(payload, id, count)
  BY <1>1, FrameOf
<1>4. PICK id : ProfileFrame(payload, id, count)
  BY <1>frame
<1>5. CanBuild(p, payload, id, count) /\ s = BuildBits(p, payload, id, count)
  BY <1>4 DEF ProfileFrame
<1>6. s \in Seq(Bit)
  BY <1>3, <1>5, BuildBitsType
<1>7. damage.kept < Len(s)
  OBVIOUS
<1> HIDE DEF p, s, count
<1>8. Beginning(s, air)
  BY <1>2, <1>6, <1>7, CutArrives
<1>9. StartsAs(p, s, 0)
  BY <1>3, <1>5, <1>6, LikeItself, LikeStarts
<1>10. Parse(p, air) = Raised
  <2> DEFINE len == Len(air)
             H == HeaderAt(p)
  <2>1. len \in Nat /\ H \in Nat
    BY <1>3, <1>8, PartSizes, LenProperties DEF Beginning
  <2>2. CASE len < H
    BY <1>3, <1>8, <1>9, <2>2, CutEarly
  <2>3. CASE H <= len
    BY <1>3, <1>5, <1>8, <2>3, CutLate
  <2> HIDE DEF len, H
  <2> QED BY <2>1, <2>2, <2>3
<1> QED BY <1>2, <1>10 DEF Ok, Raised

(* Wherever a frame is cut, even inside its sync word, parse() raises.     *)
THEOREM CutIsRejected ==
  ASSUME Chosen
  PROVE  Spec => []CutFrameRejected
<1>1. LinkInv => CutFrameRejected
  BY CutInLink
<1> QED BY <1>1, LinkInvariant, PTL

-----------------------------------------------------------------------------
(* The chips of a generated frame that arrive: all of them, some wrong, or *)
(* all of the other polarity                                               *)

LEMMA WholeChips ==
  ASSUME NEW s \in Seq(Bit), NEW bursts, bursts \subseteq Nat,
         NEW d \in Damages(s, bursts, {<<>>}), d.kept = Len(s)
  PROVE  /\ d.from \in Nat /\ d.n \in Nat /\ d.inverted \in BOOLEAN
         /\ \E a \in Seq(Bit) :
               /\ Len(a) = Len(s) /\ OnlyIn(a, s, Len(s), d.from, d.n)
               /\ d.inverted => a = s
               /\ Damaged(s, d) = IF d.inverted THEN Inverse1(a) ELSE a
<1> DEFINE a == Flip(s, d.from, d.n)
           len == Len(s)
<1>1. DamageKinds(s, d, bursts, {<<>>})
  BY DamageIs
<1>2. len \in Nat /\ a \in Seq(Bit) /\ Len(a) = len
  BY LenProperties, FlipType
<1>3. d.from \in Nat /\ d.n \in Nat /\ d.inverted \in BOOLEAN /\ d.tail = <<>>
      /\ (d.inverted => d.n = 0 /\ d.from = 1)
  <2>1. \/ d.from = 1 /\ d.n = 0 /\ d.inverted \in BOOLEAN /\ d.tail \in {<<>>}
        \/ d.from \in 1 .. len /\ d.n \in bursts /\ d.inverted = FALSE /\ d.tail = <<>>
        \/ d.from = 1 /\ d.n = 0 /\ d.inverted = FALSE /\ d.tail = <<>>
    BY <1>1 DEF DamageKinds
  <2>2. 1 .. len \subseteq Nat /\ 0 \in Nat /\ 1 \in Nat
    <3> HIDE DEF len
    <3> QED BY <1>2
  <2>3. CASE d.from = 1 /\ d.n = 0 /\ d.inverted \in BOOLEAN /\ d.tail \in {<<>>}
    BY <2>2, <2>3
  <2>4. CASE d.from \in 1 .. len /\ d.n \in bursts /\ d.inverted = FALSE /\ d.tail = <<>>
    <3> HIDE DEF len
    <3>1. d.from \in Nat /\ d.n \in Nat
      BY <2>2, <2>4
    <3> QED BY <2>4, <3>1
  <2> HIDE DEF len
  <2> QED BY <2>1, <2>2, <2>3, <2>4
<1>4. OnlyIn(a, s, len, d.from, d.n)
  BY DEF OnlyIn, Flip
<1>5. d.inverted => a = s
  <2>1. ASSUME d.inverted, NEW i \in 1 .. len PROVE a[i] = s[i]
    <3>1. d.n \in {0, 1} /\ d.n = 0
      BY <1>3, <2>1
    <3> QED BY <1>3, <3>1, FlipIs
  <2> HIDE DEF a
  <2> QED BY <1>2, <2>1, SeqEqual
<1>6. SubSeq(a, 1, len) = a
  <2> HIDE DEF a
  <2>1. len \in 0 .. Len(a)
    BY <1>2
  <2>2. SubSeq(a, 1, len) \in Seq(Bit) /\ Len(SubSeq(a, 1, len)) = len
        /\ \A i \in 1 .. len : SubSeq(a, 1, len)[i] = a[i]
    BY <1>2, <2>1, FirstPart
  <2> QED BY <1>2, <2>2, SeqEqual
<1>7. a \o d.tail = a
  BY <1>2, <1>3, ConcatEmpty
<1>8. Damaged(s, d) = IF d.inverted THEN Inverse1(a) ELSE a
  BY <1>6, <1>7 DEF Damaged
<1> HIDE DEF a
<1> QED BY <1>2, <1>3, <1>4, <1>5, <1>8

GeneratedIn(f, payload, chips) ==
    /\ FrameOK(f) /\ TapsReach(f.fec) /\ Len(f.code) % 2 = 1
    /\ payload \in Seq(Byte) /\ chips = Spread(f.code, CodedFrame(f, payload))

LEMMA ChipsOf ==
  ASSUME NEW f, NEW payload, NEW chips, GeneratedIn(f, payload, chips),
         NEW a \in Seq(Bit), Len(a) = Len(chips)
  PROVE  /\ Chips(f.code, a, CodedFrame(f, payload), Len(CodedFrame(f, payload)), Len(f.code))
         /\ Len(chips) = Len(CodedFrame(f, payload)) * Len(f.code)
<1> DEFINE coded == CodedFrame(f, payload)
           n == Len(coded)
           d == Len(f.code)
<1>1. coded \in Seq(Bit) /\ f.code \in Seq(Bit) /\ n \in Nat /\ d \in Nat
  BY CodedFrameType, LenProperties DEF GeneratedIn, FrameOK
<1>2. Len(chips) = n * d
  <2> HIDE DEF coded
  <2> QED BY <1>1, SpreadType DEF GeneratedIn, coded
<1>3. d # 0
  <2>1. d % 2 = 1
    BY DEF GeneratedIn
  <2> HIDE DEF d
  <2>2. 0 % 2 = 0
    OBVIOUS
  <2> QED BY <2>1, <2>2
<1> HIDE DEF coded
<1> QED BY <1>1, <1>2, <1>3 DEF Chips, coded

(* A frame of the right polarity *)
LEMMA UprightHeard ==
  ASSUME NEW f, NEW payload, NEW chips, GeneratedIn(f, payload, chips),
         NEW a \in Seq(Bit), Len(a) = Len(chips), NEW k \in Nat, NEW m \in Nat,
         OnlyIn(a, chips, Len(chips), k, m),
         2 * m < Len(f.code) \/ (f.fec.cc /\ m <= Len(f.code))
  PROVE  ParseFrame(f, Despread(f.code, a)) = [bits |-> PayloadBits(f, payload), fecOk |-> TRUE]
<1> DEFINE coded == CodedFrame(f, payload)
           n == Len(coded)
           d == Len(f.code)
           r == Despread(f.code, a)
<1>1. FrameOK(f) /\ TapsReach(f.fec) /\ payload \in Seq(Byte) /\ d % 2 = 1
      /\ chips = Spread(f.code, coded)
  BY DEF GeneratedIn
<1>2. Chips(f.code, a, coded, n, d) /\ Len(chips) = n * d
  BY ChipsOf
<1>3. coded \in Seq(Bit)
  BY <1>1, CodedFrameType
<1>4. OnlyIn(a, Spread(f.code, coded), n * d, k, m)
  BY <1>1, <1>2
<1> HIDE DEF coded, n, d, r
<1>5. (\E e : NearAt(r, coded, e)) /\ (r = coded \/ f.fec.cc)
  <2>1. CASE 2 * m < d
    <3>1. r = coded
      BY <1>2, <1>4, <2>1, DespreadClean DEF r
    <3>2. NearAt(r, coded, 0)
      BY <1>3, <3>1 DEF NearAt
    <3> QED BY <3>1, <3>2
  <2>2. CASE f.fec.cc /\ m <= d
    <3>1. \E e : NearAt(r, coded, e)
      BY <1>1, <1>2, <1>4, <2>2, DespreadNear DEF r
    <3> QED BY <2>2, <3>1
  <2> QED BY <2>1, <2>2 DEF d
<1>6. PICK e : NearAt(r, coded, e)
  BY <1>5
<1>7. HeardBytes(f, r) = BitsToBytes(FrameData(f, payload))
  BY <1>1, <1>5, <1>6, FrameDecoded DEF coded
<1> DEFINE v == FALSE
<1>8. v \in BOOLEAN /\ (v => f.invariant # <<>>)
      /\ HeardBytes(f, r) = BitsToBytes(IF v THEN Inverse1(FrameData(f, payload)) ELSE FrameData(f, payload))
  BY <1>7
<1> HIDE DEF v
<1> QED BY <1>1, <1>8, FrameRead DEF r

(* A frame of the other polarity, without a code that depends on it *)
LEMMA InvertedHeard ==
  ASSUME NEW f, NEW payload, NEW chips, GeneratedIn(f, payload, chips),
         ~ f.fec.enabled, f.invariant # <<>>
  PROVE  ParseFrame(f, Despread(f.code, Inverse1(chips)))
           = [bits |-> PayloadBits(f, payload), fecOk |-> TRUE]
<1> DEFINE coded == CodedFrame(f, payload)
           a == Inverse1(chips)
           r == Despread(f.code, a)
<1>1. FrameOK(f) /\ payload \in Seq(Byte) /\ chips = Spread(f.code, coded) /\ f.code \in Seq(Bit)
  BY DEF GeneratedIn, FrameOK
<1>2. coded \in Seq(Bit) /\ chips \in Seq(Bit)
  BY <1>1, CodedFrameType, SpreadType
<1>3. a \in Seq(Bit) /\ Len(a) = Len(chips)
  BY <1>2, InverseType
<1> HIDE DEF a
<1>4. Chips(f.code, a, coded, Len(coded), Len(f.code))
  BY <1>3, ChipsOf
<1>5. r = Inverse1(coded)
  BY <1>1, <1>4, DespreadInverse DEF a
<1>6. coded = FrameData(f, payload)
  BY DEF CodedFrame, FrameData
<1> HIDE DEF r, coded
<1>7. HeardBytes(f, r) = BitsToBytes(Inverse1(FrameData(f, payload)))
  BY <1>5, <1>6 DEF HeardBytes
<1> DEFINE v == TRUE
<1>8. v \in BOOLEAN /\ (v => f.invariant # <<>>)
      /\ HeardBytes(f, r) = BitsToBytes(IF v THEN Inverse1(FrameData(f, payload)) ELSE FrameData(f, payload))
  BY <1>7
<1> HIDE DEF v
<1> QED BY <1>1, <1>8, FrameRead DEF r, a

(* What parse_frame makes of a generated frame is the payload: a minority  *)
(* of wrong chips a bit is outvoted, one wrong bit is corrected by the     *)
(* convolutional code, and a lost polarity is seen in the invariant.       *)
THEOREM GeneratedFramesSurvive ==
  ASSUME Chosen
  PROVE  Spec => []GeneratedRoundTrip
<1>1. ASSUME LinkInv PROVE GeneratedRoundTrip
  <2> DEFINE f == codec.p
             chips == Heard(f, sent.bits)
             wanted == [bits |-> PayloadBits(f, sent.payload), fecOk |-> TRUE]
  <2>1. ASSUME Parsed("generator")
        PROVE  /\ GeneratedIn(f, sent.payload, chips)
               /\ damage.from \in Nat /\ damage.n \in Nat /\ damage.inverted \in BOOLEAN
               /\ result = ParseFrame(f, Despread(f.code, air))
               /\ \E a \in Seq(Bit) :
                     /\ Len(a) = Len(chips) /\ OnlyIn(a, chips, Len(chips), damage.from, damage.n)
                     /\ damage.inverted => a = chips
                     /\ air = IF damage.inverted THEN Inverse1(a) ELSE a
    <3>1. OnItsWay /\ Arrived /\ phase = "idle" /\ result # None /\ codec.kind = "generator"
      BY <2>1 DEF OnItsWay, Arrived, Parsed
    <3>2. codec \in Codecs
      BY <1>1 DEF LinkInv, CountersInv
    <3>3. FrameOK(f) /\ codec.bursts \subseteq Nat /\ Payloads \subseteq Seq(Byte)
      BY <3>1, <3>2, LinkAssumption
    <3>4. TapsReach(f.fec) /\ Len(f.code) % 2 = 1
      BY <3>1, <3>2 DEF Chosen, WellChosen
    <3>5. PICK payload \in Payloads : GeneratedFrame(payload)
      BY <1>1, <3>1 DEF LinkInv, FrameInv
    <3>6. payload \in Seq(Byte) /\ sent.payload = payload /\ sent.bits = BuildChips(f, payload)
      BY <3>3, <3>5 DEF GeneratedFrame
    <3>7. /\ damage \in Damages(chips, codec.bursts, {<<>>}) /\ damage.kept = Len(chips)
          /\ air = Damaged(chips, damage)
          /\ result = ParseFrame(f, Despread(f.code, air))
      BY <1>1, <3>1 DEF LinkInv, AirInv
    <3> HIDE DEF f
    <3>8. chips = Spread(f.code, CodedFrame(f, payload)) /\ chips \in Seq(Bit)
      BY <3>3, <3>6, HeardType
    <3> HIDE DEF chips
    <3>9. GeneratedIn(f, sent.payload, chips)
      BY <3>3, <3>4, <3>6, <3>8 DEF GeneratedIn
    <3>10. /\ damage.from \in Nat /\ damage.n \in Nat /\ damage.inverted \in BOOLEAN
           /\ \E a \in Seq(Bit) :
                 /\ Len(a) = Len(chips) /\ OnlyIn(a, chips, Len(chips), damage.from, damage.n)
                 /\ damage.inverted => a = chips
                 /\ Damaged(chips, damage) = IF damage.inverted THEN Inverse1(a) ELSE a
      BY <3>3, <3>7, <3>8, WholeChips
    <3> QED BY <3>7, <3>9, <3>10
  <2> HIDE DEF chips
  <2>2. ASSUME Parsed("generator"), ~ damage.inverted,
               2 * damage.n < Len(f.code) \/ (f.fec.cc /\ damage.n <= Len(f.code))
        PROVE  result = wanted
    <3>1. PICK a \in Seq(Bit) :
             /\ Len(a) = Len(chips) /\ OnlyIn(a, chips, Len(chips), damage.from, damage.n)
             /\ air = IF damage.inverted THEN Inverse1(a) ELSE a
      BY <2>1, <2>2
    <3>2. air = a
      BY <2>2, <3>1
    <3> HIDE DEF f
    <3>3. ParseFrame(f, Despread(f.code, a)) = wanted
      BY <2>1, <2>2, <3>1, UprightHeard
    <3> QED BY <2>1, <2>2, <3>2, <3>3
  <2>3. ASSUME Parsed("generator"), damage.inverted, ~ f.fec.enabled, f.invariant # <<>>
        PROVE  result = wanted
    <3>1. air = Inverse1(chips)
      BY <2>1, <2>3
    <3> HIDE DEF f
    <3>2. ParseFrame(f, Despread(f.code, Inverse1(chips))) = wanted
      BY <2>1, <2>3, InvertedHeard
    <3> QED BY <2>1, <2>3, <3>1, <3>2
  <2>4. wanted.fecOk = TRUE /\ wanted.bits = PayloadBits(f, sent.payload)
    OBVIOUS
  <2> HIDE DEF wanted
  <2> QED BY <2>2, <2>3, <2>4 DEF GeneratedRoundTrip, InvertedRecovered
<1> QED BY <1>1, LinkInvariant, PTL

-----------------------------------------------------------------------------
(* What the parser accepts *)

(* Damage that leaves the frame whole *)
Hurt(s, bursts, tails, d) ==
    /\ bursts \subseteq Nat /\ tails \subseteq Seq(Bit)
    /\ d \in Damages(s, bursts, tails) /\ d.kept = Len(s)

(* What a burst leaves of a frame *)
Burst(s, bursts, d, a) ==
    /\ d.from \in 1 .. Len(s) /\ d.n \in bursts /\ d.inverted = FALSE
    /\ a \in Seq(Bit) /\ Len(a) = Len(s) /\ OnlyIn(a, s, Len(s), d.from, d.n)

LEMMA BurstArrives ==
  ASSUME NEW s \in Seq(Bit), NEW bursts, NEW tails, NEW d, Hurt(s, bursts, tails, d), d.n # 0
  PROVE  Burst(s, bursts, d, Damaged(s, d))
<1>0. bursts \subseteq Nat /\ d \in Damages(s, bursts, tails)
  BY DEF Hurt
<1>1. DamageKinds(s, d, bursts, tails)
  BY <1>0, DamageIs
<1>2. d.from \in 1 .. Len(s) /\ d.n \in bursts /\ d.inverted = FALSE /\ d.kept = Len(s)
  BY <1>1 DEF DamageKinds
<1>3. d \in Damages(s, bursts, {<<>>})
  <2>1. \A i, t : d # Tailed(s, i, t)
    BY DEF Tailed, Intact
  <2>2. \A k : d # Cut(s, k)
    BY DEF Cut, Intact
  <2>3. d \in {Hit(s, k, n) : k \in 1 .. Len(s), n \in bursts}
    BY <1>0, <2>1, <2>2 DEF Damages
  <2> QED BY <2>3 DEF Damages
<1>4. PICK a \in Seq(Bit) :
         /\ Len(a) = Len(s) /\ OnlyIn(a, s, Len(s), d.from, d.n)
         /\ Damaged(s, d) = IF d.inverted THEN Inverse1(a) ELSE a
  BY <1>0, <1>2, <1>3, WholeChips
<1> QED BY <1>2, <1>4 DEF Burst

(* What is accepted was found where the result says. *)
LEMMA AcceptedIsFound ==
  ASSUME NEW p, NEW received, Ok(Parse(p, received))
  PROVE  FindSync(p, received) = [index |-> Parse(p, received).syncIndex,
                                  inverted |-> Parse(p, received).inverted]
<1> DEFINE sync == FindSync(p, received)
           bits == IF sync.inverted THEN Inverse1(received) ELSE received
           at == sync.index + Len(p.sync)
           end == at + HeaderBits(p)
           crcEnd == end + p.headerCrc.bytes * ByteBits
           h == Slice(bits, at, end)
           ok == BitsToBytes(Slice(bits, end, crcEnd)) = Crc(p.headerCrc, BitsToBytes(h))
           parsed == ParseRegion(p, bits, crcEnd, ParseHeader(p, h), ok, sync)
<1>1. sync = [index |-> sync.index, inverted |-> sync.inverted]
  <2> DEFINE i == Min({w[1] : w \in SyncBest(p, received)})
             v == <<i, FALSE>> \notin SyncBest(p, received)
  <2>1. sync = IF SyncNear(p, received) = {} THEN [index |-> 0 - 1, inverted |-> FALSE]
               ELSE [index |-> i, inverted |-> v]
    BY FindSyncIs
  <2> HIDE DEF sync, i, v
  <2> QED BY <2>1
<1> HIDE DEF sync
<1>2. Parse(p, received) = Raised \/ Parse(p, received) = parsed
  BY DEF Parse, sync
<1>3. ~ Ok(Raised)
  BY DEF Ok, Raised
<1>4. Parse(p, received) = parsed /\ parsed # Raised
  BY <1>2, <1>3
<1> HIDE DEF bits, crcEnd, h, ok
<1>5. parsed.syncIndex = sync.index /\ parsed.inverted = sync.inverted
  BY <1>4 DEF ParseRegion
<1> QED BY <1>1, <1>4, <1>5 DEF sync

(* Nothing hit the sync word, and its polarity is one that is looked for. *)
Spared(p, d) ==
    \/ d.from > Len(p.preamble) + Len(p.sync)
    \/ d.n = 0 /\ (d.inverted => p.allowInverted)

LEMMA WholeIsLike ==
  ASSUME NEW s \in Seq(Bit), NEW bursts, NEW tails, NEW d, Hurt(s, bursts, tails, d), d.n = 0
  PROVE  /\ d.inverted \in BOOLEAN /\ (d.inverted => d.from = 1)
         /\ \E a : Like(s, a, 0) /\ Damaged(s, d) = IF d.inverted THEN Inverse1(a) ELSE a
<1>1. DamageKinds(s, d, bursts, tails)
  BY DamageIs DEF Hurt
<1>2. d.inverted \in BOOLEAN /\ (d.inverted => d.from = 1)
  BY <1>1 DEF DamageKinds
<1> DEFINE e == 0
<1>3. e = (IF d.n = 0 THEN 0 ELSE d.from) /\ d.n \in {0, 1}
  OBVIOUS
<1> HIDE DEF e
<1>4. \E a : Like(s, a, e) /\ Damaged(s, d) = IF d.inverted THEN Inverse1(a) ELSE a
  BY <1>3, WholeArrives DEF Hurt
<1> QED BY <1>2, <1>4 DEF e

LEMMA FoundEither ==
  ASSUME NEW p, ProfileOK(p), NEW bits \in Seq(Bit), NEW at
  PROVE  /\ Found(p, bits, at, TRUE)
               => FindSync(p, bits) = [index |-> at, inverted |-> TRUE]
         /\ Found(p, bits, at, FALSE)
               => FindSync(p, bits) = [index |-> at, inverted |-> FALSE]
<1>1. ASSUME NEW v, Found(p, bits, at, v)
      PROVE  FindSync(p, bits) = [index |-> at, inverted |-> v]
  BY <1>1, SyncFound
<1>2. ASSUME Found(p, bits, at, TRUE)
      PROVE  FindSync(p, bits) = [index |-> at, inverted |-> TRUE]
  <2> DEFINE v == TRUE
  <2>1. Found(p, bits, at, v)
    BY <1>2
  <2> HIDE DEF v
  <2>2. FindSync(p, bits) = [index |-> at, inverted |-> v]
    BY <1>1, <2>1
  <2> QED BY <2>2 DEF v
<1>3. ASSUME Found(p, bits, at, FALSE)
      PROVE  FindSync(p, bits) = [index |-> at, inverted |-> FALSE]
  <2> DEFINE v == FALSE
  <2>1. Found(p, bits, at, v)
    BY <1>3
  <2> HIDE DEF v
  <2>2. FindSync(p, bits) = [index |-> at, inverted |-> v]
    BY <1>1, <2>1
  <2> QED BY <2>2 DEF v
<1> QED BY <1>2, <1>3

LEMMA SparedIsFound ==
  ASSUME NEW p, ProfileOK(p), SyncStandsOut(p), NEW payload \in Seq(Byte), NEW id, NEW count,
         CanBuild(p, payload, id, count), NEW s, s = BuildBits(p, payload, id, count),
         NEW bursts, NEW tails, NEW d, Hurt(s, bursts, tails, d), Spared(p, d)
  PROVE  FindSync(p, Damaged(s, d)) = [index |-> Len(p.preamble), inverted |-> d.inverted]
<1> DEFINE n == Len(p.preamble)
           m == Len(p.sync)
           H == HeaderAt(p)
           heard == Damaged(s, d)
<1>1. s \in Seq(Bit) /\ Len(s) \in Nat
  BY BuildBitsType, LenProperties
<1>2. n \in Nat /\ m \in Nat /\ H = n + m
  BY SyncSizes DEF HeaderAt
<1>3. 0 \in Int /\ 0 \notin Len(p.preamble) + 1 .. Len(p.preamble) + Len(p.sync)
  <2> HIDE DEF n, m, heard, H
  <2>1. 0 \notin n + 1 .. n + m
    BY <1>2
  <2>2. 0 \in Int
    OBVIOUS
  <2> QED BY <2>1, <2>2 DEF n, m
<1>4. CASE d.n = 0
  <2>1. PICK a : Like(s, a, 0) /\ heard = IF d.inverted THEN Inverse1(a) ELSE a
    BY <1>1, <1>4, WholeIsLike
  <2>2. d.inverted \in BOOLEAN
    BY <1>1, <1>4, WholeIsLike
  <2>3. StartsAs(p, a, 0) /\ a \in Seq(Bit)
    BY <2>1, LikeStarts DEF Like
  <2>6. d.inverted => d.from = 1
    BY <1>1, <1>4, WholeIsLike
  <2>4. CASE d.inverted
    <3>1. ~ (d.from > n + m)
      <4>1. d.from = 1
        BY <2>4, <2>6
      <4>2. m > 1
        BY DEF SyncStandsOut
      <4> HIDE DEF n, m
      <4> QED BY <1>2, <4>1, <4>2
    <3>2. p.allowInverted
      BY <2>4, <3>1 DEF Spared
    <3>3. Found(p, Inverse1(a), n, TRUE)
      BY <2>3, <3>2, FoundInverted
    <3>6. Inverse1(a) \in Seq(Bit)
      BY <2>3, InverseType
    <3>4. FindSync(p, Inverse1(a)) = [index |-> n, inverted |-> TRUE]
      BY <3>3, <3>6, FoundEither
    <3>5. heard = Inverse1(a) /\ d.inverted = TRUE
      BY <2>1, <2>2, <2>4
    <3> HIDE DEF heard
    <3> QED BY <3>4, <3>5 DEF heard
  <2>5. CASE ~ d.inverted
    <3>1. Found(p, a, n, FALSE)
      BY <1>3, <2>3, FoundUpright
    <3>2. FindSync(p, a) = [index |-> n, inverted |-> FALSE]
      BY <2>3, <3>1, FoundEither
    <3>3. heard = a /\ d.inverted = FALSE
      BY <2>1, <2>2, <2>5
    <3> HIDE DEF heard
    <3> QED BY <3>2, <3>3 DEF heard
  <2> QED BY <2>4, <2>5
<1>5. CASE d.n # 0
  <2>1. d.from > n + m
    BY <1>5 DEF Spared
  <2>2. /\ heard \in Seq(Bit) /\ Len(heard) = Len(s) /\ d.inverted = FALSE
        /\ d.from \in 1 .. Len(s) /\ OnlyIn(heard, s, Len(s), d.from, d.n)
    BY <1>1, <1>5, BurstArrives DEF Burst
  <2>3. BeginsLike(p, s, heard, 0)
    <3> DEFINE N == Len(s)
    <3>1. H <= N
      BY FrameReaches DEF H, N
    <3>2. ASSUME NEW k \in 1 .. H PROVE heard[k] = s[k]
      <4>1. k \in 1 .. N /\ k \notin d.from .. d.from + d.n - 1
        <5> HIDE DEF n, m, H, N
        <5> QED BY <1>1, <1>2, <2>1, <2>2, <3>1 DEF N
      <4> HIDE DEF heard
      <4> QED BY <2>2, <4>1 DEF OnlyIn, N
    <3>3. Len(s) <= Len(heard)
      BY <1>1, <2>2
    <3> HIDE DEF heard
    <3> QED BY <2>2, <3>2, <3>3 DEF BeginsLike, H
  <2>4. StartsAs(p, heard, 0)
    BY <2>3, BeginningStarts
  <2>5. Found(p, heard, n, FALSE)
    BY <1>3, <2>4, FoundUpright
  <2>6. FindSync(p, heard) = [index |-> n, inverted |-> FALSE]
    BY <2>2, <2>5, FoundEither
  <2> HIDE DEF heard
  <2> QED BY <2>2, <2>6 DEF heard
<1> QED BY <1>4, <1>5

LEMMA AcceptedIsSent ==
  ASSUME NEW p, ProfileOK(p), TapsReach(p.fec), NEW payload \in Seq(Byte), NEW id, NEW count,
         CanBuild(p, payload, id, count), NEW s, s = BuildBits(p, payload, id, count),
         NEW bursts, NEW tails, NEW d, Hurt(s, bursts, tails, d),
         \A n \in bursts : WithinReach(p, n), NEW received, received = Damaged(s, d),
         FindSync(p, received) = [index |-> Len(p.preamble), inverted |-> d.inverted],
         Ok(Parse(p, received))
  PROVE  /\ Parse(p, received).payload = payload
         /\ Parse(p, received).header = ResolveHeader(payload, id, count)
<1>1. s \in Seq(Bit) /\ Len(s) \in Nat
  BY BuildBitsType, LenProperties
<1>2. CASE d.n = 0
  <2> DEFINE v == d.inverted
  <2>1. v \in BOOLEAN
    BY <1>1, <1>2, WholeIsLike
  <2>2. PICK a : Like(s, a, 0) /\ received = IF v THEN Inverse1(a) ELSE a
    BY <1>1, <1>2, WholeIsLike
  <2>3. a = IF v THEN Inverse1(received) ELSE received
    BY <2>2, InverseTwice DEF Like
  <2>4. Arrives(p, s, a, 0)
    BY <1>1, <2>2, NoErrorIsHarmless, PartSizes, LikeArrives
  <2> HIDE DEF v
  <2>5. Parse(p, received) = WellParsed(p, payload, id, count, v)
    BY <2>1, <2>3, <2>4, ParseWell DEF v
  <2> QED BY <2>5 DEF WellParsed
<1>3. CASE d.n # 0
  <2> DEFINE v == FALSE
             lo == d.from - 1
             N == Len(s)
  <2>1. /\ d.from \in 1 .. N /\ d.n \in bursts /\ d.inverted = v
        /\ received \in Seq(Bit) /\ Len(received) = N
        /\ OnlyIn(received, s, N, d.from, d.n)
    BY <1>1, <1>3, BurstArrives DEF Burst
  <2>2. v \in BOOLEAN /\ received = IF v THEN Inverse1(received) ELSE received
    OBVIOUS
  <2> HIDE DEF v
  <2>3. d.n \in Nat \ {0} /\ WithinReach(p, d.n)
    BY <1>3, <2>1 DEF Hurt
  <2>4. lo \in Int /\ N \in Nat /\ N <= Len(received)
    BY <1>1, <2>1
  <2>5. ASSUME NEW i \in 1 .. N, i \notin lo + 1 .. lo + d.n PROVE received[i] = s[i]
    <3>1. i \notin d.from .. d.from + d.n - 1
      <4> HIDE DEF N
      <4> QED BY <2>1, <2>3, <2>4, <2>5
    <3> QED BY <2>1, <3>1 DEF OnlyIn
  <2> HIDE DEF lo
  <2>6. HitBy(p, s, received, lo, d.n)
    BY <2>1, <2>3, <2>4, <2>5 DEF HitBy
  <2>7. FindSync(p, received) = [index |-> Len(p.preamble), inverted |-> v]
    BY <2>1
  <2> QED BY <2>2, <2>6, <2>7, StruckParsed
<1> QED BY <1>2, <1>3

(* parse() took the sync word where build() put it, in its polarity *)
FoundInPlace == result.syncIndex = Len(codec.p.preamble) /\ result.inverted = damage.inverted

(* A frame that parse() calls ok is the one built, whatever its errors do  *)
(* to the length field, the payload, the tail or the CRCs themselves: when *)
(* they spare the sync word, or when parse() found it in its place all the *)
(* same, and the bursts are within reach of the CRCs.  These are CRCs      *)
(* whose polynomial is as wide as their bytes, crc8 and crc16_ccitt of     *)
(* _crc_bytes; the reflected crc32 is not in the model.  Left to the run:  *)
(* a sync word whose errors make another window fit better.                *)
THEOREM AcceptedIsRight ==
  ASSUME Chosen, \A c \in Codecs : BurstsWithinReach(c)
  PROVE  Spec => [](Spared(codec.p, damage) \/ FoundInPlace => OkIsRight)
<1>1. ASSUME LinkInv PROVE Spared(codec.p, damage) \/ FoundInPlace => OkIsRight
  <2> SUFFICES ASSUME Spared(codec.p, damage) \/ FoundInPlace, Parsed("profile"), Ok(result)
               PROVE  Right
    BY DEF OkIsRight
  <2> DEFINE p == codec.p
             s == sent.bits
             d == damage
             bursts == codec.bursts
             count == counter - 1
  <2>1. OnItsWay /\ Arrived /\ phase = "idle" /\ result # None /\ codec.kind = "profile"
    BY DEF OnItsWay, Arrived, Parsed
  <2>2. d \in Damages(s, bursts, Tails) /\ air = Damaged(s, d) /\ result = Parse(p, air)
    BY <1>1, <2>1 DEF LinkInv, AirInv
  <2>3. ProfileOK(p) /\ SyncStandsOut(p) /\ TapsReach(p.fec)
    BY <1>1, <2>1, FrameOf
  <2>frame. PICK payload \in Seq(Byte) : \E id : ProfileFrame(payload, id, count)
    BY <1>1, <2>1, FrameOf
  <2>4. PICK id : ProfileFrame(payload, id, count)
    BY <2>frame
  <2>5. /\ CanBuild(p, payload, id, count) /\ s = BuildBits(p, payload, id, count)
        /\ sent.payload = payload /\ sent.header = ResolveHeader(payload, id, count)
    BY <2>4 DEF ProfileFrame
  <2>6. s \in Seq(Bit)
    BY <2>3, <2>5, BuildBitsType
  <2>7. /\ codec \in Codecs /\ bursts \subseteq Nat /\ Tails \subseteq Seq(Bit)
        /\ \A n \in bursts : WithinReach(p, n)
    <3>1. codec \in Codecs
      BY <1>1 DEF LinkInv, CountersInv
    <3> QED BY <2>1, <3>1, CodecIs, LinkAssumption DEF BurstsWithinReach
  <2>8. d.kept = Len(s)
    <3>1. ~ (d.kept < Len(s))
      BY <1>1, CutInLink DEF CutFrameRejected
    <3>2. DamageKinds(s, d, bursts, Tails)
      BY <2>2, DamageIs
    <3>3. Len(s) \in Nat
      BY <2>6, LenProperties
    <3>4. ASSUME d.kept \in 0 .. Len(s) - 1 PROVE FALSE
      <4> DEFINE k == d.kept
                 N == Len(s)
      <4> HIDE DEF k, N, s, d
      <4>1. N \in Nat /\ k \in 0 .. N - 1 /\ ~ (k < N)
        BY <3>1, <3>3, <3>4 DEF k, N
      <4> QED BY ONLY <4>1
    <3> QED BY <3>2, <3>4 DEF DamageKinds
  <2>9. Hurt(s, bursts, Tails, d)
    BY <2>2, <2>7, <2>8 DEF Hurt
  <2>10. Spared(p, d) \/ FoundInPlace
    OBVIOUS
  <2>11. Ok(Parse(p, air))
    BY <2>2
  <2>12. FoundInPlace => result.syncIndex = Len(p.preamble) /\ result.inverted = d.inverted
    BY DEF FoundInPlace
  <2> HIDE DEF p, s, d, bursts, count
  <2>13. FindSync(p, air) = [index |-> Len(p.preamble), inverted |-> d.inverted]
    <3>1. CASE Spared(p, d)
      BY <2>2, <2>3, <2>5, <2>9, <3>1, SparedIsFound
    <3>2. CASE FoundInPlace
      BY <2>2, <2>11, <2>12, <3>2, AcceptedIsFound
    <3> QED BY <2>10, <3>1, <3>2
  <2>14. /\ Parse(p, air).payload = payload
         /\ Parse(p, air).header = ResolveHeader(payload, id, count)
    <3> DEFINE received == air
    <3>1. /\ ProfileOK(p) /\ TapsReach(p.fec) /\ payload \in Seq(Byte)
          /\ CanBuild(p, payload, id, count) /\ s = BuildBits(p, payload, id, count)
          /\ Hurt(s, bursts, Tails, d) /\ (\A n \in bursts : WithinReach(p, n))
          /\ received = Damaged(s, d) /\ Ok(Parse(p, received))
          /\ FindSync(p, received) = [index |-> Len(p.preamble), inverted |-> d.inverted]
      BY <2>2, <2>3, <2>5, <2>7, <2>9, <2>11, <2>13
    <3> HIDE DEF received
    <3> QED BY ONLY <3>1, AcceptedIsSent DEF received
  <2> QED BY <2>2, <2>5, <2>11, <2>14 DEF Right
<1> QED BY <1>1, LinkInvariant, PTL

=============================================================================
