---------------------------- MODULE HoppingProofs ----------------------------
(***************************************************************************)
(* Proofs about Hopping: for every list of hops, every period, chunk size  *)
(* and number of samples, losses and updates.                              *)
(***************************************************************************)
EXTENDS Hopping, NumberLemmas, SequenceTheorems

LEMMA Constants ==
  /\ Period \in Nat \ {0} /\ MaxChunk \in Nat \ {0} /\ Tiles \in Nat \ {0}
  /\ Spacing \in Nat \ {0}
  /\ MaxSamples \in Nat /\ MaxLag \in Nat /\ MaxUpdates \in Nat /\ Bandwidth \in Nat
  /\ Centre \in Int
  BY HoppingAssumption

-----------------------------------------------------------------------------
(* Samples and hops *)

\* The place of sample n in its hop
Place(n) == n % Period

LEMMA HopType ==
  ASSUME NEW n \in Nat
  PROVE  Hop(n) \in Nat /\ Place(n) \in 0 .. Period - 1 /\ n = Hop(n) * Period + Place(n)
<1> DEFINE q == n \div Period
           r == n % Period
<1>1. Period \in Nat \ {0}
  BY Constants
<1>2. q \in Nat
  BY <1>1
<1>3. r \in 0 .. Period - 1
  BY <1>1
<1>4. n = Period * q + r
  BY <1>1
<1> HIDE DEF q, r
<1>5. Period * q = q * Period
  BY <1>1, <1>2
<1>6. q \in Nat /\ r \in 0 .. Period - 1 /\ n = q * Period + r
  BY <1>2, <1>3, <1>4, <1>5
<1> QED BY <1>6 DEF Hop, Place, q, r

LEMMA HopUnique ==
  ASSUME NEW h \in Nat, NEW r \in 0 .. Period - 1
  PROVE  Hop(h * Period + r) = h /\ Place(h * Period + r) = r
<1>1. h \in Int
  OBVIOUS
<1> QED BY <1>1, Constants, DivisionUnique DEF Hop, Place

LEMMA HopNext ==
  ASSUME NEW n \in Nat
  PROVE  \/ /\ Hop(n + 1) = Hop(n)
            /\ Place(n + 1) = Place(n) + 1
         \/ /\ Hop(n + 1) = Hop(n) + 1
            /\ Place(n) = Period - 1 /\ Place(n + 1) = 0
<1> DEFINE h == Hop(n)
           r == Place(n)
<1>1. h \in Nat /\ r \in 0 .. Period - 1 /\ n = h * Period + r
  BY HopType
<1>2. Period \in Nat \ {0} /\ h * Period \in Nat
  BY <1>1, Constants, ProductNat
<1> HIDE DEF h, r
<1>3. CASE r < Period - 1
  <2>1. r + 1 \in 0 .. Period - 1 /\ n + 1 = h * Period + (r + 1)
    BY <1>1, <1>2, <1>3
  <2>2. Hop(n + 1) = h /\ Place(n + 1) = r + 1
    BY <1>1, <2>1, HopUnique
  <2> QED BY <2>2 DEF h, r
<1>4. CASE r = Period - 1
  <2>1. (h + 1) * Period = h * Period + Period
    BY <1>1, <1>2
  <2>2. 0 \in 0 .. Period - 1 /\ h + 1 \in Nat /\ n + 1 = (h + 1) * Period + 0
    BY <1>1, <1>2, <1>4, <2>1
  <2>3. Hop(n + 1) = h + 1 /\ Place(n + 1) = 0
    BY <2>2, HopUnique
  <2> QED BY <1>4, <2>3 DEF h, r
<1> QED BY <1>1, <1>2, <1>3, <1>4

LEMMA HopOrder ==
  ASSUME NEW a \in Nat, NEW b \in Nat, a <= b
  PROVE  Hop(a) <= Hop(b)
<1> DEFINE p == Hop(a)
           q == Hop(b)
<1>1. /\ p \in Nat /\ Place(a) \in 0 .. Period - 1 /\ a = p * Period + Place(a)
      /\ q \in Nat /\ Place(b) \in 0 .. Period - 1 /\ b = q * Period + Place(b)
  BY HopType
<1> HIDE DEF p, q
<1>2. SUFFICES ASSUME q < p PROVE FALSE
  BY <1>1 DEF p, q
<1>3. q * Period + Period <= p * Period
  BY <1>1, <1>2, Constants, Multiples
<1>4. q * Period \in Nat /\ p * Period \in Nat
  BY <1>1, Constants, ProductNat
<1> DEFINE x == q * Period
           y == p * Period
           ra == Place(a)
           rb == Place(b)
<1>5. /\ x \in Nat /\ y \in Nat /\ Period \in Nat /\ x + Period <= y
      /\ ra \in 0 .. Period - 1 /\ rb \in 0 .. Period - 1 /\ a = y + ra /\ b = x + rb
  BY <1>1, <1>3, <1>4, Constants
<1> HIDE DEF x, y, ra, rb
<1> QED BY <1>5

-----------------------------------------------------------------------------
(* Phases *)

SequenceType == sequence \in Seq(Int) \ {<<>>}

LEMMA ShiftType ==
  ASSUME SequenceType, NEW hop \in Nat
  PROVE  FrequencyAt(hop) \in Int /\ Shift(hop) \in Int
<1>1. sequence \in Seq(Int) /\ Len(sequence) \in Nat \ {0}
  BY LenProperties, EmptySeq DEF SequenceType
<1>2. (hop % Len(sequence)) + 1 \in 1 .. Len(sequence)
  <2> DEFINE r == hop % Len(sequence)
  <2>1. hop \in Int
    OBVIOUS
  <2>2. r \in 0 .. Len(sequence) - 1
    BY <1>1, <2>1, RemainderNat
  <2> HIDE DEF r
  <2>3. r + 1 \in 1 .. Len(sequence)
    BY <1>1, <2>2
  <2> QED BY <2>3 DEF r
<1>3. sequence[(hop % Len(sequence)) + 1] \in Int
  BY <1>1, <1>2, ElementOfSeq
<1> QED BY <1>3, Constants DEF FrequencyAt, Shift

(* The phase at the start of a hop, in samples, for all hops at once *)
Accumulates(cum) ==
    /\ cum \in [Nat -> Int]
    /\ cum[0] = 0
    /\ \A h \in Nat : cum[h + 1] = cum[h] + Shift(h)

LEMMA TurnedIs ==
  ASSUME SequenceType
  PROVE  \E cum : Accumulates(cum) /\ \A hop \in Nat : TurnedBefore(hop) = cum[hop] * Period
<1> DEFINE step == [p \in Nat \X Int |-> p[2] + Shift(p[1])]
<1>1. \A h \in Nat, k \in Int : step[<<h, k>>] = k + Shift(h)
  OBVIOUS
<1>2. StepOn(step, Int)
  BY ShiftType DEF StepOn
<1> HIDE DEF step
<1>3. 0 \in Int
  OBVIOUS
<1>4. PICK cum : Iterates(cum, Int, 0, step)
  BY <1>2, <1>3, Iteration
<1>5. Accumulates(cum)
  BY <1>1, <1>4 DEF Iterates, Accumulates
<1>6. ASSUME NEW hop \in Nat PROVE TurnedBefore(hop) = cum[hop] * Period
  <2> DEFINE Rec(g) == g = [h \in 0 .. hop |-> IF h = 0 THEN 0 ELSE g[h - 1] + Shift(h - 1)]
             g == CHOOSE g : Rec(g)
             c == [h \in 0 .. hop |-> cum[h]]
  <2>1. Rec(c)
    <3>1. ASSUME NEW h \in 0 .. hop PROVE c[h] = IF h = 0 THEN 0 ELSE c[h - 1] + Shift(h - 1)
      <4>1. CASE h = 0
        BY <1>5, <4>1 DEF Accumulates
      <4>2. CASE h # 0
        <5>1. h - 1 \in Nat /\ (h - 1) + 1 = h /\ h - 1 \in 0 .. hop
          BY <4>2
        <5>2. cum[h] = cum[h - 1] + Shift(h - 1)
          BY <1>5, <5>1 DEF Accumulates
        <5> QED BY <4>2, <5>1, <5>2
      <4> QED BY <4>1, <4>2
    <3>2. c = [h \in 0 .. hop |-> c[h]]
      OBVIOUS
    <3> HIDE DEF c
    <3> QED BY <3>1, <3>2
  <2>2. Rec(g)
    <3> HIDE DEF Rec
    <3> QED BY <2>1
  <2>3. TurnedBefore(hop) = g[hop] * Period
    BY DEF TurnedBefore
  <2> HIDE DEF g
  <2> DEFINE T == {h \in Nat : h <= hop => g[h] = cum[h]}
  <2>4. 0 \in T
    BY <1>5, <2>2 DEF Accumulates
  <2>5. ASSUME NEW h \in Nat, h \in T PROVE h + 1 \in T
    <3>1. CASE h + 1 <= hop
      <4>1. h + 1 \in 0 .. hop /\ h + 1 # 0 /\ (h + 1) - 1 = h
        BY <3>1
      <4>2. g[h + 1] = g[h] + Shift(h)
        BY <2>2, <4>1
      <4>3. cum[h + 1] = cum[h] + Shift(h)
        BY <1>5 DEF Accumulates
      <4> QED BY <2>5, <3>1, <4>2, <4>3
    <3>2. CASE ~ (h + 1 <= hop)
      BY <3>2
    <3> QED BY <3>1, <3>2
  <2> HIDE DEF T
  <2>6. hop \in T
    BY <2>4, <2>5, SetInduction
  <2>7. g[hop] = cum[hop]
    BY <2>6 DEF T
  <2> QED BY <2>3, <2>7
<1> QED BY <1>5, <1>6

LEMMA TurnedNext ==
  ASSUME SequenceType, NEW hop \in Nat
  PROVE  /\ TurnedBefore(hop) \in Int
         /\ TurnedBefore(hop + 1) = TurnedBefore(hop) + Shift(hop) * Period
<1>1. PICK cum : Accumulates(cum) /\ \A h \in Nat : TurnedBefore(h) = cum[h] * Period
  BY TurnedIs
<1>2. /\ cum[hop] \in Int /\ Shift(hop) \in Int /\ Period \in Int
      /\ cum[hop + 1] = cum[hop] + Shift(hop)
  BY <1>1, ShiftType, Constants DEF Accumulates
<1>3. /\ TurnedBefore(hop) = cum[hop] * Period
      /\ TurnedBefore(hop + 1) = cum[hop + 1] * Period
  BY <1>1
<1>4. (cum[hop] + Shift(hop)) * Period = cum[hop] * Period + Shift(hop) * Period
  BY <1>2
<1>5. cum[hop] * Period \in Int
  BY <1>2, ProductInt
<1> QED BY <1>2, <1>3, <1>4, <1>5

Alone == Len(sequence) = 1

LEMMA NotAlone == ASSUME SequenceType, Len(sequence) > 1 PROVE ~ Alone
<1> DEFINE hops == Len(sequence)
<1>1. hops \in Nat /\ hops > 1
  BY LenProperties DEF SequenceType
<1> HIDE DEF hops
<1>2. hops # 1
  BY <1>1
<1> QED BY <1>2 DEF Alone, hops

(* What sample n is turned by when one sequence answers every question *)
Phase(n) ==
    IF Alone THEN 0 ELSE TurnedBefore(Hop(n)) + Shift(Hop(n)) * (Place(n))

(* The phase advances by the hop's shift, within a hop and into the next. *)
LEMMA PhaseNext ==
  ASSUME SequenceType, NEW n \in Nat
  PROVE  /\ Phase(n) \in Int /\ Phase(n + 1) \in Int
         /\ Phase(n + 1) = Phase(n) + (IF Alone THEN 0 ELSE Shift(Hop(n)))
<1> DEFINE h == Hop(n)
           r == Place(n)
           s == Shift(h)
<1>1. h \in Nat /\ r \in 0 .. Period - 1 /\ Period \in Nat \ {0}
  BY HopType, Constants
<1>2. /\ s \in Int /\ TurnedBefore(h) \in Int
      /\ TurnedBefore(h + 1) = TurnedBefore(h) + s * Period
  BY <1>1, ShiftType, TurnedNext
<1>3. Phase(n) = IF Alone THEN 0 ELSE TurnedBefore(h) + s * r
  BY DEF Phase
<1>4. /\ s * r \in Int /\ s * (r + 1) = s * r + s /\ s * Period \in Int
      /\ s * (Period - 1) = s * Period - s
  <2> HIDE DEF h, r, s
  <2>1. r \in Int /\ r + 1 \in Int /\ Period \in Int
    BY <1>1
  <2>2. s * r \in Int /\ s * Period \in Int
    BY <1>2, <2>1, ProductInt
  <2>3. s * (r + 1) = s * r + s
    BY <1>2, <2>1
  <2>4. s * (Period - 1) = s * Period - s
    BY <1>2, <2>1
  <2> QED BY <2>2, <2>3, <2>4
<1>5. CASE Hop(n + 1) = h /\ Place(n + 1) = r + 1
  <2>1. Phase(n + 1) = IF Alone THEN 0 ELSE TurnedBefore(h) + s * (r + 1)
    BY <1>5 DEF Phase
  <2> HIDE DEF h, r, s
  <2> QED BY <1>2, <1>3, <1>4, <2>1 DEF h, s
<1>6. CASE Hop(n + 1) = h + 1 /\ r = Period - 1 /\ Place(n + 1) = 0
  <2>1. Shift(h + 1) \in Int
    BY <1>1, ShiftType
  <2>2. Phase(n + 1) = IF Alone THEN 0 ELSE TurnedBefore(h + 1) + Shift(h + 1) * 0
    BY <1>6 DEF Phase
  <2>3. Shift(h + 1) * 0 = 0
    BY <2>1
  <2> HIDE DEF h, r, s
  <2>4. s * r = s * Period - s
    BY <1>4, <1>6
  <2> QED BY <1>2, <1>3, <1>4, <2>2, <2>3, <2>4 DEF h, s
<1> QED BY <1>5, <1>6, HopNext

-----------------------------------------------------------------------------
(* The inductive invariant *)

SchedulerType ==
    /\ hopping \in HoppingSection
    /\ SequenceType
    /\ version \in 0 .. MaxUpdates
    /\ tuned \in Int

(* No more is on its way than was sent, and the receiver is ahead of it by *)
(* the noise at most.                                                      *)
Counts ==
    /\ tx = [count |-> tx.count, job |-> tx.job]
    /\ rx = [count |-> rx.count, job |-> rx.job]
    /\ tx.count \in Nat /\ rx.count \in Nat
    /\ tx.job.k \in 0 .. MaxChunk /\ rx.job.k \in 0 .. MaxChunk
    /\ tx.count + tx.job.k <= MaxSamples
    /\ rx.job.k <= Len(air)
    /\ Len(air) <= tx.count
    /\ rx.count + Len(air) <= tx.count + MaxLag

(* A chunk begun with the present sequence has its answers from it. *)
Begins(hopper) ==
    hopper.job # Idle =>
        /\ hopper.job.k > 0
        /\ hopper.job.from \in 0 .. version
        /\ hopper.job.alone \in BOOLEAN
        /\ \A n \in hopper.count .. hopper.count + hopper.job.k - 1 :
              hopper.job.turned[Hop(n)] \in Int
        /\ Whole(hopper.job) =>
              /\ hopper.job.alone = Alone
              /\ \A n \in hopper.count .. hopper.count + hopper.job.k - 1 :
                    hopper.job.turned[Hop(n)] = TurnedBefore(Hop(n))

Samples == [n : Nat, hop : Nat, shift : Int, phase : Int, whole : Int]

(* The samples on their way, the last transmitted at their end *)
OnAir ==
    /\ air \in Seq(Samples)
    /\ \A i \in 1 .. Len(air) :
          /\ air[i].n = tx.count - Len(air) + i - 1
          /\ air[i].hop = Hop(air[i].n)
          /\ air[i].whole <= version
          /\ air[i].whole = version =>
                air[i].phase = Phase(air[i].n) /\ air[i].shift = Shift(Hop(air[i].n))

Receptions == [n : Nat, m : Nat, hop : Nat, residual : Int, whole : BOOLEAN, version : Nat]

(* What the two ends leave of a sample's phase *)
Residual(n, m) == Phase(n) - Phase(m) + (Centre - tuned) * m

Heard ==
    /\ last \in Seq(Receptions)
    /\ \A i \in 1 .. Len(last) :
          /\ last[i].hop = Hop(last[i].n)
          /\ last[i].version <= version
          /\ last[i].whole /\ last[i].version = version =>
                last[i].residual = Residual(last[i].n, last[i].m)

Inv == SchedulerType /\ Counts /\ Begins(tx) /\ Begins(rx) /\ OnAir /\ Heard

-----------------------------------------------------------------------------
(* The scheduler *)

LEMMA AutoType == AutoFrequencies \in Seq(Int) /\ AutoFrequencies # <<>>
<1> DEFINE half == (Bandwidth \div 2) \div Spacing
           hops == IF half < 1 THEN 1 ELSE half
           freq(j) == Centre + (j - 1 - hops) * Spacing
<1>1. half \in Nat
  <2> DEFINE b == Bandwidth \div 2
  <2>1. b \in Nat
    BY Constants
  <2> HIDE DEF b
  <2>2. b \div Spacing \in Nat
    BY <2>1, Constants, QuotientNat
  <2> QED BY <2>2 DEF b
<1>2. hops \in Nat \ {0}
  <2> HIDE DEF half
  <2> QED BY <1>1
<1> HIDE DEF hops
<1>3. ASSUME NEW j \in 1 .. 2 * hops + 1 PROVE freq(j) \in Int
  <2>1. j - 1 - hops \in Int
    BY <1>2
  <2>2. (j - 1 - hops) * Spacing \in Int
    BY <2>1, Constants, ProductInt
  <2> QED BY <2>2, Constants
<1>4. AutoFrequencies = [j \in 1 .. 2 * hops + 1 |-> freq(j)]
  BY DEF AutoFrequencies, hops
<1> HIDE DEF freq
<1>5. 2 * hops + 1 \in Nat \ {0}
  BY <1>2
<1>6. AutoFrequencies \in Seq(Int) /\ Len(AutoFrequencies) = 2 * hops + 1
  BY <1>3, <1>4, <1>5
<1> QED BY <1>5, <1>6

(* Whatever it is built from, a sequence has a frequency for every hop. *)
LEMMA BuildType ==
  ASSUME NEW c \in HoppingSection
  PROVE  BuildSequence(c) \in Seq(Int) \ {<<>>}
<1> DEFINE freqs == IF c.freqs = <<>> THEN AutoFrequencies ELSE c.freqs
           len == Len(freqs)
<1>1. /\ c.enabled \in BOOLEAN /\ c.type \in {"sequential", "custom", "random"}
      /\ c.freqs \in Seq(Int) /\ c.pattern \in Seq(Int) /\ c.seed \in DOMAIN Draws
  BY DEF HoppingSection
<1>2. freqs \in Seq(Int) /\ freqs # <<>>
  BY <1>1, AutoType
<1>3. len \in Nat \ {0} /\ \A i \in 1 .. len : freqs[i] \in Int
  BY <1>2, LenProperties, EmptySeq, ElementOfSeq
<1>4. CASE ~ c.enabled
  <2>1. BuildSequence(c) = <<Centre>>
    BY <1>4 DEF BuildSequence
  <2> QED BY <2>1, Constants
<1>5. CASE c.enabled /\ c.type = "sequential"
  <2> DEFINE tile(i) == freqs[((i - 1) % len) + 1]
  <2>1. BuildSequence(c) = [i \in 1 .. Tiles * len |-> tile(i)]
    BY <1>5 DEF BuildSequence
  <2> HIDE DEF freqs, len
  <2>2. ASSUME NEW i \in Nat PROVE tile(i) \in Int
    <3> DEFINE r == (i - 1) % len
    <3>1. i - 1 \in Int
      OBVIOUS
    <3>2. r \in 0 .. len - 1
      BY <1>3, <3>1, RemainderNat
    <3> HIDE DEF r
    <3>3. r + 1 \in 1 .. len
      BY <1>3, <3>2
    <3>4. freqs[r + 1] \in Int
      BY <1>3, <3>3
    <3> QED BY <3>4 DEF r
  <2> HIDE DEF tile
  <2>3. Tiles * len \in Nat \ {0}
    BY <1>3, Constants, ProductPositive
  <2>4. BuildSequence(c) \in Seq(Int) /\ Len(BuildSequence(c)) = Tiles * len
    BY <2>1, <2>2, <2>3
  <2> QED BY <2>3, <2>4
<1>6. CASE c.enabled /\ c.type = "custom"
  <2>1. BuildSequence(c) = IF c.pattern # <<>> THEN c.pattern ELSE freqs
    BY <1>6 DEF BuildSequence
  <2> HIDE DEF freqs
  <2> QED BY <1>1, <1>2, <2>1
<1>7. CASE c.enabled /\ c.type = "random"
  <2> DEFINE draws == Draws[c.seed]
             drawn(i) == freqs[(draws[i] % len) + 1]
  <2>1. BuildSequence(c) = [i \in DOMAIN draws |-> drawn(i)]
    BY <1>7 DEF BuildSequence
  <2>2. draws \in Seq(Nat) /\ draws # <<>>
    BY <1>1, HoppingAssumption
  <2> HIDE DEF freqs, len, draws
  <2>3. Len(draws) \in Nat \ {0} /\ DOMAIN draws = 1 .. Len(draws)
    BY <2>2, LenProperties, EmptySeq
  <2>4. ASSUME NEW i \in 1 .. Len(draws) PROVE drawn(i) \in Int
    <3> DEFINE r == draws[i] % len
    <3>1. draws[i] \in Int
      BY <2>2, ElementOfSeq
    <3>2. r \in 0 .. len - 1
      BY <1>3, <3>1, RemainderNat
    <3> HIDE DEF r
    <3>3. r + 1 \in 1 .. len
      BY <1>3, <3>2
    <3>4. freqs[r + 1] \in Int
      BY <1>3, <3>3
    <3> QED BY <3>4 DEF r
  <2> HIDE DEF drawn
  <2>5. BuildSequence(c) \in Seq(Int) /\ Len(BuildSequence(c)) = Len(draws)
    BY <2>1, <2>3, <2>4
  <2> QED BY <2>3, <2>5
<1> QED BY <1>1, <1>4, <1>5, <1>6, <1>7

LEMMA SameSequence ==
  ASSUME sequence' = sequence
  PROVE  /\ Alone' = Alone
         /\ \A h : Shift(h)' = Shift(h)
         /\ \A h : TurnedBefore(h)' = TurnedBefore(h)
         /\ \A n : Phase(n)' = Phase(n)
<1>1. Alone' = Alone
  BY DEF Alone
<1>2. \A h : Shift(h)' = Shift(h)
  BY DEF Shift, FrequencyAt
<1>3. \A h : TurnedBefore(h)' = TurnedBefore(h)
  BY DEF TurnedBefore, Shift, FrequencyAt
<1>4. \A n : Phase(n)' = Phase(n)
  BY <1>1, <1>2, <1>3 DEF Phase
<1> QED BY <1>1, <1>2, <1>3, <1>4

LEMMA InitInv == Init => Inv
<1> SUFFICES ASSUME Init PROVE Inv
  OBVIOUS
<1>1. hopping \in HoppingSection
  BY HoppingAssumption DEF Init
<1>2. SequenceType
  BY <1>1, BuildType DEF Init, SequenceType
<1>3. tuned \in Int
  <2>1. 0 \in Nat
    OBVIOUS
  <2> QED BY <1>2, <2>1, ShiftType, Constants DEF Init
<1>4. SchedulerType
  BY <1>1, <1>2, <1>3, Constants DEF Init, SchedulerType
<1>5. Counts
  BY Constants DEF Init, Counts, Idle
<1>6. Begins(tx) /\ Begins(rx)
  BY DEF Init, Begins
<1>7. OnAir /\ Heard
  BY DEF Init, OnAir, Heard
<1> QED BY <1>4, <1>5, <1>6, <1>7 DEF Inv

LEMMA SampleFields ==
  ASSUME OnAir, NEW i \in 1 .. Len(air)
  PROVE  /\ air[i] \in Samples
         /\ air[i].n \in Nat /\ air[i].hop \in Nat /\ air[i].shift \in Int
         /\ air[i].phase \in Int /\ air[i].whole \in Int
<1>1. air[i] \in Samples
  BY ElementOfSeq DEF OnAir
<1> QED BY <1>1 DEF Samples

LEMMA ReceptionFields ==
  ASSUME Heard, NEW i \in 1 .. Len(last)
  PROVE  /\ last[i] \in Receptions
         /\ last[i].n \in Nat /\ last[i].m \in Nat /\ last[i].hop \in Nat
         /\ last[i].residual \in Int /\ last[i].whole \in BOOLEAN
         /\ last[i].version \in Nat
<1>1. last[i] \in Receptions
  BY ElementOfSeq DEF Heard
<1> QED BY <1>1 DEF Receptions

LEMMA RebuiltInv ==
  ASSUME Inv, NEW c \in HoppingSection, Rebuilt(c)
  PROVE  Inv'
<1>1. /\ hopping' = c /\ sequence' = BuildSequence(c)
      /\ version < MaxUpdates /\ version' = version + 1
      /\ UNCHANGED <<tuned, tx, rx, air, last>>
  BY DEF Rebuilt
<1>2. SchedulerType /\ Counts /\ Begins(tx) /\ Begins(rx) /\ OnAir /\ Heard
      /\ version \in Nat
  BY DEF Inv, SchedulerType
<1>3. SchedulerType'
  BY <1>1, <1>2, BuildType, Constants DEF SchedulerType, SequenceType
<1>4. Counts'
  BY <1>1, <1>2 DEF Counts
<1>5. Begins(tx)' /\ Begins(rx)'
  BY <1>1, <1>2 DEF Begins, Whole
<1>6. OnAir'
  <2>1. \A i \in 1 .. Len(air) : air[i].whole \in Int
    BY <1>2, SampleFields
  <2> QED BY <1>1, <1>2, <2>1 DEF OnAir
<1>7. Heard'
  <2>1. \A i \in 1 .. Len(last) : last[i].version \in Nat
    BY <1>2, ReceptionFields
  <2> QED BY <1>1, <1>2, <2>1 DEF Heard
<1> QED BY <1>3, <1>4, <1>5, <1>6, <1>7 DEF Inv

-----------------------------------------------------------------------------
(* The hoppers *)

(* The samples of a chunk are in the hops that work() asks for. *)
LEMMA BegunBegins ==
  ASSUME SequenceType, version \in Nat, NEW hopper, hopper.count \in Nat,
         NEW k \in 1 .. MaxChunk
  PROVE  LET job == Begun(hopper, k)
         IN  /\ job.k = k /\ job.from = version
             /\ job.alone \in BOOLEAN /\ job.alone = Alone
             /\ \A n \in hopper.count .. hopper.count + k - 1 :
                   /\ job.turned[Hop(n)] \in Int
                   /\ job.turned[Hop(n)] = TurnedBefore(Hop(n))
<1> DEFINE job == Begun(hopper, k)
           first == Hop(hopper.count)
           final == Hop(hopper.count + k - 1)
<1>1. /\ job.k = k /\ job.from = version /\ job.alone = Alone
      /\ job.turned = [h \in first .. final |-> TurnedBefore(h)]
  BY DEF Begun, Alone
<1>2. Alone \in BOOLEAN
  BY DEF Alone
<1>3. ASSUME NEW n \in hopper.count .. hopper.count + k - 1
      PROVE  job.turned[Hop(n)] = TurnedBefore(Hop(n)) /\ TurnedBefore(Hop(n)) \in Int
  <2>1. /\ n \in Nat /\ hopper.count <= n /\ n <= hopper.count + k - 1
        /\ hopper.count + k - 1 \in Nat
    BY Constants
  <2>2. Hop(n) \in Nat /\ first \in Nat /\ final \in Nat
    BY <2>1, HopType
  <2>3. first <= Hop(n) /\ Hop(n) <= final
    BY <2>1, HopOrder
  <2> HIDE DEF first, final, job
  <2>4. Hop(n) \in first .. final
    BY <2>2, <2>3
  <2> QED BY <1>1, <2>2, <2>4, TurnedNext
<1> QED BY <1>1, <1>2, <1>3

LEMMA TxBeginInv == ASSUME Inv, TxBegin PROVE Inv'
<1>1. PICK k \in 1 .. MaxChunk :
        /\ tx.job = Idle /\ tx.count + k <= MaxSamples
        /\ tx' = [tx EXCEPT !.job = Begun(tx, k)]
        /\ UNCHANGED <<scheduler, tuned, rx, air, last>>
  BY DEF TxBegin
<1>2. SchedulerType /\ Counts /\ Begins(tx) /\ Begins(rx) /\ OnAir /\ Heard
      /\ version \in Nat /\ SequenceType
  BY DEF Inv, SchedulerType
<1>3. UNCHANGED <<hopping, sequence, version, tuned, rx, air, last>>
  BY <1>1 DEF scheduler
<1>4. tx = [count |-> tx.count, job |-> tx.job] /\ tx.count \in Nat
  BY <1>2 DEF Counts
<1>5. tx'.count = tx.count /\ tx'.job = Begun(tx, k)
      /\ tx' = [count |-> tx'.count, job |-> tx'.job]
  BY <1>1, <1>4
<1>6. /\ tx'.job.k = k /\ tx'.job.from = version
      /\ tx'.job.alone \in BOOLEAN /\ tx'.job.alone = Alone
      /\ \A n \in tx.count .. tx.count + k - 1 :
            /\ tx'.job.turned[Hop(n)] \in Int
            /\ tx'.job.turned[Hop(n)] = TurnedBefore(Hop(n))
  BY <1>2, <1>4, <1>5, BegunBegins
<1>7. /\ Alone' = Alone /\ (\A h : TurnedBefore(h)' = TurnedBefore(h))
      /\ (\A h : Shift(h)' = Shift(h)) /\ (\A n : Phase(n)' = Phase(n))
  BY <1>3, SameSequence
<1>8. SchedulerType'
  BY <1>2, <1>3 DEF SchedulerType, SequenceType
<1>9. Counts'
  BY <1>1, <1>2, <1>3, <1>5, <1>6, Constants DEF Counts
<1>10. Begins(tx)'
  BY <1>1, <1>2, <1>3, <1>5, <1>6, <1>7 DEF Begins
<1>11. Begins(rx)'
  BY <1>2, <1>3, <1>7 DEF Begins, Whole
<1>12. OnAir'
  BY <1>2, <1>3, <1>5, <1>7 DEF OnAir
<1>13. Heard'
  BY <1>2, <1>3, <1>7 DEF Heard, Residual
<1> QED BY <1>8, <1>9, <1>10, <1>11, <1>12, <1>13 DEF Inv

LEMMA RxBeginInv == ASSUME Inv, RxBegin PROVE Inv'
<1>1. PICK k \in 1 .. MaxChunk :
        /\ rx.job = Idle /\ k <= Len(air)
        /\ rx' = [rx EXCEPT !.job = Begun(rx, k)]
        /\ UNCHANGED <<scheduler, tuned, tx, air, last>>
  BY DEF RxBegin
<1>2. SchedulerType /\ Counts /\ Begins(tx) /\ Begins(rx) /\ OnAir /\ Heard
      /\ version \in Nat /\ SequenceType
  BY DEF Inv, SchedulerType
<1>3. UNCHANGED <<hopping, sequence, version, tuned, tx, air, last>>
  BY <1>1 DEF scheduler
<1>4. rx = [count |-> rx.count, job |-> rx.job] /\ rx.count \in Nat
  BY <1>2 DEF Counts
<1>5. rx'.count = rx.count /\ rx'.job = Begun(rx, k)
      /\ rx' = [count |-> rx'.count, job |-> rx'.job]
  BY <1>1, <1>4
<1>6. /\ rx'.job.k = k /\ rx'.job.from = version
      /\ rx'.job.alone \in BOOLEAN /\ rx'.job.alone = Alone
      /\ \A n \in rx.count .. rx.count + k - 1 :
            /\ rx'.job.turned[Hop(n)] \in Int
            /\ rx'.job.turned[Hop(n)] = TurnedBefore(Hop(n))
  BY <1>2, <1>4, <1>5, BegunBegins
<1>7. /\ Alone' = Alone /\ (\A h : TurnedBefore(h)' = TurnedBefore(h))
      /\ (\A h : Shift(h)' = Shift(h)) /\ (\A n : Phase(n)' = Phase(n))
  BY <1>3, SameSequence
<1>8. SchedulerType'
  BY <1>2, <1>3 DEF SchedulerType, SequenceType
<1>9. Counts'
  BY <1>1, <1>2, <1>3, <1>5, <1>6, Constants DEF Counts
<1>10. Begins(rx)'
  BY <1>1, <1>2, <1>3, <1>5, <1>6, <1>7 DEF Begins
<1>11. Begins(tx)'
  BY <1>2, <1>3, <1>7 DEF Begins, Whole
<1>12. OnAir'
  BY <1>2, <1>3, <1>7 DEF OnAir
<1>13. Heard'
  BY <1>2, <1>3, <1>7 DEF Heard, Residual
<1> QED BY <1>8, <1>9, <1>10, <1>11, <1>12, <1>13 DEF Inv

LEMMA NoiseInv == ASSUME Inv, RxNoise PROVE Inv'
<1>1. /\ rx.job = Idle /\ tx.count = 0 /\ rx.count < MaxLag
      /\ rx' = [rx EXCEPT !.count = @ + 1]
      /\ UNCHANGED <<hopping, sequence, version, tuned, tx, air, last>>
  BY DEF RxNoise, scheduler
<1>2. SchedulerType /\ Counts /\ Begins(tx) /\ OnAir /\ Heard
  BY DEF Inv
<1>3. rx'.count = rx.count + 1 /\ rx'.job = Idle
      /\ rx' = [count |-> rx'.count, job |-> rx'.job]
  BY <1>1, <1>2 DEF Counts
<1>4. Len(air) = 0
  <2>1. Len(air) \in Nat
    BY <1>2, LenProperties DEF OnAir
  <2> QED BY <1>1, <1>2, <2>1 DEF Counts
<1>5. /\ Alone' = Alone /\ (\A h : TurnedBefore(h)' = TurnedBefore(h))
      /\ (\A h : Shift(h)' = Shift(h)) /\ (\A n : Phase(n)' = Phase(n))
  BY <1>1, SameSequence
<1>6. Counts'
  BY <1>1, <1>2, <1>3, <1>4, Constants DEF Counts, Idle
<1>7. SchedulerType' /\ Begins(tx)' /\ Begins(rx)'
  BY <1>1, <1>2, <1>3, <1>5 DEF SchedulerType, SequenceType, Begins, Whole
<1>8. OnAir'
  BY <1>1, <1>2, <1>5 DEF OnAir
<1>9. Heard'
  BY <1>1, <1>2, <1>5 DEF Heard, Residual
<1> QED BY <1>6, <1>7, <1>8, <1>9 DEF Inv

LEMMA LoseInv == ASSUME Inv, Lose PROVE Inv'
<1>1. /\ rx.job = Idle /\ air # <<>> /\ air' = Tail(air)
      /\ UNCHANGED <<hopping, sequence, version, tuned, tx, rx, last>>
  BY DEF Lose, scheduler
<1>2. SchedulerType /\ Counts /\ Begins(tx) /\ Begins(rx) /\ OnAir /\ Heard
  BY DEF Inv
<1>3. /\ air' \in Seq(Samples) /\ Len(air) \in Nat /\ Len(air') = Len(air) - 1
      /\ Len(air) # 0
      /\ \A i \in 1 .. Len(air') : air'[i] = air[i + 1]
  BY <1>1, <1>2, HeadTailProperties, LenProperties, EmptySeq DEF OnAir
<1>4. /\ Alone' = Alone /\ (\A h : TurnedBefore(h)' = TurnedBefore(h))
      /\ (\A h : Shift(h)' = Shift(h)) /\ (\A n : Phase(n)' = Phase(n))
  BY <1>1, SameSequence
<1>5. SchedulerType' /\ Begins(tx)' /\ Begins(rx)'
  BY <1>1, <1>2, <1>4 DEF SchedulerType, SequenceType, Begins, Whole
<1>6. Counts'
  <2> DEFINE len == Len(air)
             newLen == Len(air')
  <2>1. len \in Nat /\ len # 0 /\ newLen = len - 1
    BY <1>3
  <2>2. /\ tx.count \in Nat /\ rx.count \in Nat
        /\ tx.job.k \in 0 .. MaxChunk /\ rx.job.k = 0
        /\ len <= tx.count /\ rx.count + len <= tx.count + MaxLag
    BY <1>1, <1>2 DEF Counts, Idle
  <2> HIDE DEF len, newLen
  <2>3. /\ 0 <= newLen /\ newLen <= tx.count
        /\ rx.count + newLen <= tx.count + MaxLag
    BY <2>1, <2>2, Constants
  <2> QED BY <1>1, <1>2, <2>2, <2>3 DEF Counts, newLen
<1>7. OnAir'
  <2> DEFINE len == Len(air)
             newLen == Len(air')
  <2>1. ASSUME NEW i \in 1 .. newLen
        PROVE  /\ air'[i].n = tx.count - newLen + i - 1
               /\ air'[i].hop = Hop(air'[i].n)
               /\ air'[i].whole <= version
               /\ air'[i].whole = version =>
                    air'[i].phase = Phase(air'[i].n) /\ air'[i].shift = Shift(Hop(air'[i].n))
    <3>1. i + 1 \in 1 .. Len(air) /\ air'[i] = air[i + 1]
      BY <1>3
    <3>2. /\ air[i + 1].n = tx.count - len + (i + 1) - 1
          /\ air[i + 1].hop = Hop(air[i + 1].n)
          /\ air[i + 1].whole <= version
          /\ air[i + 1].whole = version =>
               air[i + 1].phase = Phase(air[i + 1].n) /\ air[i + 1].shift = Shift(Hop(air[i + 1].n))
      BY <1>2, <3>1 DEF OnAir
    <3>3. len \in Nat /\ newLen = len - 1 /\ tx.count \in Nat
      BY <1>2, <1>3 DEF Counts
    <3> HIDE DEF len, newLen
    <3>4. tx.count - newLen + i - 1 = tx.count - len + (i + 1) - 1
      BY <3>3
    <3> QED BY <3>1, <3>2, <3>4
  <2>2. \A i \in 1 .. newLen :
          /\ air'[i].n = tx.count - newLen + i - 1
          /\ air'[i].hop = Hop(air'[i].n)
          /\ air'[i].whole <= version
          /\ air'[i].whole = version =>
               air'[i].phase = Phase(air'[i].n) /\ air'[i].shift = Shift(Hop(air'[i].n))
    BY <2>1
  <2> QED BY <1>1, <1>3, <1>4, <2>2 DEF OnAir
<1>8. Heard'
  BY <1>1, <1>2, <1>4 DEF Heard, Residual
<1> QED BY <1>5, <1>6, <1>7, <1>8 DEF Inv

(* A chunk answered from one sequence is turned by its phases. *)
LEMMA RotationIs ==
  ASSUME SequenceType, NEW hopper, hopper.count \in Nat, hopper.job.k \in Nat,
         Begins(hopper), hopper.job # Idle,
         NEW n \in hopper.count .. hopper.count + hopper.job.k - 1,
         NEW mode \in {"tx", "rx"}
  PROVE  /\ Rotation(mode, hopper.job, n) \in Int
         /\ Phase(n) \in Int
         /\ Whole(hopper.job) =>
              /\ mode = "tx" => Rotation(mode, hopper.job, n) = Phase(n)
              /\ mode = "rx" => Rotation(mode, hopper.job, n) = 0 - Phase(n)
<1> DEFINE job == hopper.job
           turned == job.turned[Hop(n)]
           moved == Shift(Hop(n)) * Place(n)
           sign == Sign(mode)
<1>1. n \in Nat
  OBVIOUS
<1>2. Hop(n) \in Nat /\ Place(n) \in Int /\ Shift(Hop(n)) \in Int
  <2>1. Hop(n) \in Nat /\ Place(n) \in 0 .. Period - 1
    BY <1>1, HopType
  <2> QED BY <2>1, ShiftType, Constants
<1>3. moved \in Int
  BY <1>2, ProductInt
<1>4. /\ turned \in Int /\ job.alone \in BOOLEAN
      /\ Whole(job) => job.alone = Alone /\ turned = TurnedBefore(Hop(n))
  BY DEF Begins
<1>5. Rotation(mode, job, n) = IF job.alone THEN 0 ELSE sign * (turned + moved)
  BY DEF Rotation, Place
<1>6. Phase(n) = IF Alone THEN 0 ELSE TurnedBefore(Hop(n)) + moved
  BY DEF Phase
<1>7. Phase(n) \in Int
  BY <1>1, PhaseNext
<1>8. (mode = "tx" => sign = 1) /\ (mode = "rx" => sign = -1)
  BY DEF Sign
<1>9. sign \in Int
  BY <1>8
<1> HIDE DEF moved, turned, job, sign
<1>10. turned + moved \in Int /\ sign * (turned + moved) \in Int
  BY <1>3, <1>4, <1>9, ProductInt
<1>11. mode = "tx" => sign * (turned + moved) = turned + moved
  BY <1>3, <1>4, <1>8
<1>12. mode = "rx" => sign * (turned + moved) = 0 - (turned + moved)
  BY <1>3, <1>4, <1>8
<1>13. Rotation(mode, job, n) \in Int
  BY <1>5, <1>10
<1>14. ASSUME Whole(job), mode = "tx" PROVE Rotation(mode, job, n) = Phase(n)
  BY <1>4, <1>5, <1>6, <1>11, <1>14
<1>15. ASSUME Whole(job), mode = "rx" PROVE Rotation(mode, job, n) = 0 - Phase(n)
  <2>1. CASE Alone
    <3>1. Rotation(mode, job, n) = 0 /\ Phase(n) = 0
      BY <1>4, <1>5, <1>6, <1>15, <2>1
    <3> QED BY <3>1
  <2>2. CASE ~ Alone
    BY <1>4, <1>5, <1>6, <1>12, <1>15, <2>2
  <2> QED BY <2>1, <2>2
<1> QED BY <1>7, <1>13, <1>14, <1>15 DEF job

LEMMA TxFinishInv == ASSUME Inv, TxFinish PROVE Inv'
<1> DEFINE sample(n) == [n |-> n, hop |-> Hop(n), shift |-> Shift(Hop(n)),
                         phase |-> Rotation("tx", tx.job, n),
                         whole |-> IF Whole(tx.job) THEN version ELSE NoVersion]
           k == tx.job.k
           count == tx.count
           new == [i \in 1 .. k |-> sample(count + i - 1)]
           len == Len(air)
           newLen == Len(air')
<1>1. /\ tx.job # Idle /\ tx' = Finished(tx) /\ air' = air \o new
      /\ UNCHANGED <<hopping, sequence, version, tuned, rx, last>>
  BY DEF TxFinish, scheduler
<1>2. SchedulerType /\ Counts /\ Begins(tx) /\ Begins(rx) /\ OnAir /\ Heard
      /\ SequenceType /\ version \in Nat
  BY DEF Inv, SchedulerType
<1>3. /\ count \in Nat /\ k \in Nat /\ k <= MaxChunk /\ count + k <= MaxSamples
      /\ tx' = [count |-> count + k, job |-> Idle]
      /\ len \in Nat /\ len <= count
  <2>1. len \in Nat
    BY <1>2, LenProperties DEF OnAir
  <2>2. count \in Nat /\ k \in 0 .. MaxChunk /\ count + k <= MaxSamples /\ len <= count
    BY <1>2 DEF Counts
  <2>3. k \in Nat /\ k <= MaxChunk
    BY <2>2, Constants
  <2> QED BY <1>1, <2>1, <2>2, <2>3 DEF Finished
<1>4. /\ Alone' = Alone /\ (\A h : TurnedBefore(h)' = TurnedBefore(h))
      /\ (\A h : Shift(h)' = Shift(h)) /\ (\A n : Phase(n)' = Phase(n))
  BY <1>1, SameSequence
<1>5. ASSUME NEW n \in count .. count + k - 1
      PROVE  /\ sample(n) \in Samples
             /\ sample(n).n = n /\ sample(n).hop = Hop(n) /\ sample(n).whole <= version
             /\ sample(n).whole = version =>
                  sample(n).phase = Phase(n) /\ sample(n).shift = Shift(Hop(n))
  <2>1. n \in Nat
    BY <1>3
  <2>2. Hop(n) \in Nat /\ Shift(Hop(n)) \in Int
    BY <1>2, <2>1, HopType, ShiftType
  <2>3. /\ Rotation("tx", tx.job, n) \in Int
        /\ Whole(tx.job) => Rotation("tx", tx.job, n) = Phase(n)
    BY <1>1, <1>2, <1>3, RotationIs
  <2>4. (IF Whole(tx.job) THEN version ELSE NoVersion) \in Int
    BY <1>2 DEF NoVersion
  <2>5. sample(n) \in Samples
    BY <2>1, <2>2, <2>3, <2>4 DEF Samples
  <2>6. sample(n).whole = version <=> Whole(tx.job)
    BY <1>2 DEF NoVersion
  <2>7. sample(n).whole <= version
    BY <1>2 DEF NoVersion
  <2> QED BY <2>3, <2>5, <2>6, <2>7
<1>6. ASSUME NEW i \in 1 .. k PROVE count + i - 1 \in count .. count + k - 1
  BY <1>3
<1>7. new \in Seq(Samples) /\ Len(new) = k
  <2> HIDE DEF sample, k, count
  <2> QED BY <1>3, <1>5, <1>6
<1>8. /\ air' \in Seq(Samples) /\ newLen = len + k
      /\ \A i \in 1 .. newLen : air'[i] = IF i <= len THEN air[i] ELSE new[i - len]
  <2>1. air \in Seq(Samples)
    BY <1>2 DEF OnAir
  <2> HIDE DEF new
  <2> QED BY <1>1, <1>7, <2>1, ConcatProperties
<1>9. SchedulerType' /\ Begins(tx)' /\ Begins(rx)'
  <2>1. tx'.job = Idle
    BY <1>3
  <2> QED BY <1>1, <1>2, <1>4, <2>1 DEF SchedulerType, SequenceType, Begins, Whole
<1>10. Counts'
  <2>1. tx'.count = count + k /\ tx'.job.k = 0 /\ tx' = [count |-> tx'.count, job |-> tx'.job]
    BY <1>3 DEF Idle
  <2>2. /\ rx.count \in Nat /\ rx.job.k \in 0 .. MaxChunk /\ rx.job.k <= len
        /\ rx.count + len <= count + MaxLag /\ rx = [count |-> rx.count, job |-> rx.job]
    BY <1>2 DEF Counts
  <2>3. newLen = len + k
    BY <1>8
  <2> HIDE DEF len, newLen, count, k
  <2>4. /\ tx'.count \in Nat /\ tx'.job.k \in 0 .. MaxChunk
        /\ tx'.count + tx'.job.k <= MaxSamples
        /\ rx.job.k <= newLen /\ newLen <= tx'.count /\ rx.count + newLen <= tx'.count + MaxLag
    BY <1>3, <2>1, <2>2, <2>3, Constants
  <2> QED BY <1>1, <2>1, <2>2, <2>4 DEF Counts, newLen
<1>11. OnAir'
  <2>1. ASSUME NEW i \in 1 .. newLen
        PROVE  /\ air'[i].n = (count + k) - newLen + i - 1
               /\ air'[i].hop = Hop(air'[i].n)
               /\ air'[i].whole <= version
               /\ air'[i].whole = version =>
                    air'[i].phase = Phase(air'[i].n) /\ air'[i].shift = Shift(Hop(air'[i].n))
    <3>1. CASE i <= len
      <4>1. air'[i] = air[i] /\ i \in 1 .. len
        <5> HIDE DEF len, newLen, count, k, new
        <5>1. i \in 1 .. len
          BY <1>3, <1>8, <3>1
        <5> QED BY <1>8, <3>1, <5>1
      <4>2. /\ air[i].n = count - len + i - 1 /\ air[i].hop = Hop(air[i].n)
            /\ air[i].whole <= version
            /\ air[i].whole = version =>
                 air[i].phase = Phase(air[i].n) /\ air[i].shift = Shift(Hop(air[i].n))
        BY <1>2, <4>1 DEF OnAir
      <4>3. newLen = len + k
        BY <1>8
      <4> HIDE DEF len, newLen, count, k
      <4>4. (count + k) - newLen + i - 1 = count - len + i - 1
        BY <1>3, <4>3
      <4> QED BY <4>1, <4>2, <4>4
    <3>2. CASE ~ (i <= len)
      <4>1. newLen = len + k
        BY <1>8
      <4> HIDE DEF len, newLen, count, k, sample
      <4>2. /\ i - len \in 1 .. k
            /\ count + (i - len) - 1 = (count + k) - newLen + i - 1
        BY <1>3, <3>2, <4>1
      <4>3. air'[i] = sample(count + (i - len) - 1)
        BY <1>8, <3>2, <4>2
      <4>4. count + (i - len) - 1 \in count .. count + k - 1
        BY <1>6, <4>2
      <4> DEFINE m == count + (i - len) - 1
      <4>5. /\ sample(m).n = m /\ sample(m).hop = Hop(m) /\ sample(m).whole <= version
            /\ sample(m).whole = version =>
                  sample(m).phase = Phase(m) /\ sample(m).shift = Shift(Hop(m))
        BY <1>5, <4>4
      <4>6. air'[i] = sample(m) /\ m = (count + k) - newLen + i - 1
        BY <4>2, <4>3
      <4> HIDE DEF m
      <4> QED BY <4>5, <4>6
    <3> QED BY <3>1, <3>2
  <2>2. \A i \in 1 .. newLen :
          /\ air'[i].n = (count + k) - newLen + i - 1
          /\ air'[i].hop = Hop(air'[i].n)
          /\ air'[i].whole <= version
          /\ air'[i].whole = version =>
               air'[i].phase = Phase(air'[i].n) /\ air'[i].shift = Shift(Hop(air'[i].n))
    BY <2>1
  <2>3. tx'.count = count + k
    BY <1>3
  <2> HIDE DEF count, k, new
  <2> QED BY <1>1, <1>4, <1>8, <2>2, <2>3 DEF OnAir
<1>12. Heard'
  BY <1>1, <1>2, <1>4 DEF Heard, Residual
<1> QED BY <1>9, <1>10, <1>11, <1>12 DEF Inv

(* What is received of a sample whose two chunks used the present sequence *)
LEMMA ReceivedIs ==
  ASSUME Inv, rx.job # Idle, NEW i \in 1 .. rx.job.k
  PROVE  LET m == rx.count + i - 1
             r == Received(m, air[i])
         IN  /\ r \in Receptions
             /\ r.m = m /\ r.n = air[i].n /\ r.hop = Hop(r.n) /\ r.version = version
             /\ r.whole => r.residual = Residual(r.n, r.m)
<1> DEFINE k == rx.job.k
           len == Len(air)
           count == rx.count
           m == count + i - 1
           sample == air[i]
           rotation == Rotation("rx", rx.job, m)
           drift == (Centre - tuned) * m
           r == Received(m, sample)
<1>1. /\ SequenceType /\ Begins(rx) /\ OnAir /\ version \in Nat /\ tuned \in Int
  BY DEF Inv, SchedulerType
<1>2. count \in Nat /\ k \in 0 .. MaxChunk /\ k <= len
  BY DEF Inv, Counts
<1>3. len \in Nat
  BY <1>1, LenProperties DEF OnAir
<1>4. k \in Nat /\ i \in 1 .. k
  BY <1>2, Constants
<1>5. i \in 1 .. len /\ m \in Nat /\ m \in count .. count + k - 1
  <2> HIDE DEF len, count, k
  <2> QED BY <1>2, <1>3, <1>4
<1>6. /\ sample.n \in Nat /\ sample.hop \in Nat /\ sample.phase \in Int
      /\ sample.hop = Hop(sample.n)
      /\ sample.whole = version => sample.phase = Phase(sample.n)
  BY <1>1, <1>5, SampleFields DEF OnAir
<1>7. /\ rotation \in Int /\ Phase(m) \in Int
      /\ Whole(rx.job) => rotation = 0 - Phase(m)
  <2> HIDE DEF m
  <2> QED BY <1>1, <1>2, <1>4, <1>5, RotationIs
<1>8. drift \in Int
  <2>1. Centre - tuned \in Int /\ m \in Int
    BY <1>1, <1>5, Constants
  <2> HIDE DEF m
  <2> QED BY <2>1, ProductInt
<1>9. /\ r.n = sample.n /\ r.m = m /\ r.hop = sample.hop /\ r.version = version
      /\ r.residual = sample.phase + drift + rotation
      /\ r.whole = (Whole(rx.job) /\ sample.whole = version)
      /\ r = [n |-> r.n, m |-> r.m, hop |-> r.hop, residual |-> r.residual,
              whole |-> r.whole, version |-> r.version]
  BY DEF Received
<1>10. Phase(sample.n) \in Int
  BY <1>1, <1>6, PhaseNext
<1>11. Residual(sample.n, m) = Phase(sample.n) - Phase(m) + drift
  BY DEF Residual
<1> HIDE DEF r, m, sample, rotation, drift
<1>12. r \in Receptions
  <2>1. r.residual \in Int
    BY <1>6, <1>7, <1>8, <1>9
  <2>2. r.whole \in BOOLEAN
    BY <1>9, Zenon
  <2> QED BY <1>1, <1>5, <1>6, <1>9, <2>1, <2>2 DEF Receptions
<1>13. ASSUME r.whole PROVE r.residual = Residual(sample.n, m)
  <2>1. Whole(rx.job) /\ sample.whole = version
    BY <1>9, <1>13
  <2> QED BY <1>6, <1>7, <1>8, <1>9, <1>10, <1>11, <2>1
<1> QED BY <1>6, <1>9, <1>12, <1>13 DEF r, m, sample

(* The last sample of the chunk before, if any, and then those of this one *)
LEMMA LastIs ==
  ASSUME Inv, RxFinish
  PROVE  /\ last' \in Seq(Receptions)
         /\ \E d \in {0, 1} :
              /\ Len(last') = d + rx.job.k
              /\ d = 1 => last # <<>> /\ last'[1] = last[Len(last)]
              /\ \A i \in 1 .. rx.job.k :
                    last'[i + d] = Received(rx.count + i - 1, air[i])
<1> DEFINE previous == IF last = <<>> THEN <<>> ELSE <<last[Len(last)]>>
           k == rx.job.k
           e(i) == Received(rx.count + i - 1, air[i])
           new == [i \in 1 .. k |-> e(i)]
           d == Len(previous)
<1>1. rx.job # Idle /\ last' = previous \o new
  BY DEF RxFinish
<1>2. last \in Seq(Receptions) /\ k \in Nat
  <2>1. last \in Seq(Receptions) /\ k \in 0 .. MaxChunk
    BY DEF Inv, Heard, Counts
  <2> QED BY <2>1, Constants
<1>3. /\ previous \in Seq(Receptions) /\ d \in {0, 1}
      /\ d = 1 => last # <<>> /\ previous[1] = last[Len(last)]
  <2>1. CASE last = <<>>
    BY <2>1
  <2>2. CASE last # <<>>
    <3> DEFINE l == last[Len(last)]
    <3>1. Len(last) \in Nat \ {0}
      BY <1>2, <2>2, EmptySeq
    <3>2. l \in Receptions
      BY <1>2, <3>1, ElementOfSeq
    <3>3. previous = <<l>>
      BY <2>2
    <3> HIDE DEF previous, l
    <3>4. previous \in Seq(Receptions) /\ Len(previous) = 1 /\ previous[1] = l
      BY <3>2, <3>3
    <3> QED BY <2>2, <3>4 DEF l
  <2> QED BY <2>1, <2>2
<1>4. \A i \in 1 .. k : e(i) \in Receptions
  BY <1>1, ReceivedIs
<1> HIDE DEF e, k, previous
<1>5. new \in Seq(Receptions) /\ Len(new) = k /\ \A i \in 1 .. k : new[i] = e(i)
  BY <1>2, <1>4
<1> HIDE DEF new, d
<1>6. /\ last' \in Seq(Receptions) /\ Len(last') = d + k
      /\ \A i \in 1 .. d + k : last'[i] = IF i <= d THEN previous[i] ELSE new[i - d]
  BY <1>1, <1>3, <1>5, ConcatProperties DEF d
<1>7. d = 1 => last'[1] = previous[1]
  BY <1>2, <1>6
<1>8. ASSUME NEW i \in 1 .. k PROVE last'[i + d] = e(i)
  <2>1. i + d \in 1 .. d + k /\ ~ (i + d <= d) /\ (i + d) - d = i
    BY <1>2, <1>3
  <2> QED BY <1>5, <1>6, <2>1
<1> QED BY <1>3, <1>6, <1>7, <1>8 DEF e, k

LEMMA RxFinishInv == ASSUME Inv, RxFinish PROVE Inv'
<1> DEFINE k == rx.job.k
           count == rx.count
           len == Len(air)
           newLen == Len(air')
<1>1. /\ rx.job # Idle /\ rx' = Finished(rx) /\ air' = SubSeq(air, k + 1, len)
      /\ UNCHANGED <<hopping, sequence, version, tuned, tx>>
  BY DEF RxFinish, scheduler
<1>2. SchedulerType /\ Counts /\ Begins(tx) /\ Begins(rx) /\ OnAir /\ Heard
      /\ SequenceType /\ version \in Nat
  BY DEF Inv, SchedulerType
<1>3. /\ count \in Nat /\ k \in Nat /\ k <= MaxChunk /\ k <= len /\ len \in Nat
      /\ len <= tx.count /\ tx.count \in Nat /\ count + len <= tx.count + MaxLag
      /\ rx' = [count |-> count + k, job |-> Idle]
  <2>1. len \in Nat
    BY <1>2, LenProperties DEF OnAir
  <2>2. /\ count \in Nat /\ k \in 0 .. MaxChunk /\ k <= len /\ len <= tx.count
        /\ tx.count \in Nat /\ count + len <= tx.count + MaxLag
    BY <1>2 DEF Counts
  <2>3. k \in Nat /\ k <= MaxChunk
    BY <2>2, Constants
  <2> QED BY <1>1, <2>1, <2>2, <2>3 DEF Finished
<1>4. /\ Alone' = Alone /\ (\A h : TurnedBefore(h)' = TurnedBefore(h))
      /\ (\A h : Shift(h)' = Shift(h)) /\ (\A n : Phase(n)' = Phase(n))
  BY <1>1, SameSequence
<1>5. SchedulerType' /\ Begins(tx)' /\ Begins(rx)'
  <2>1. rx'.job = Idle
    BY <1>3
  <2> QED BY <1>1, <1>2, <1>4, <2>1 DEF SchedulerType, SequenceType, Begins, Whole
<1>6. /\ air' \in Seq(Samples) /\ newLen = len - k
      /\ \A i \in 1 .. newLen : air'[i] = air[k + i]
  <2>1. \A i \in 1 .. len : air[i] \in Samples
    BY <1>2, SampleFields
  <2> HIDE DEF len, k
  <2>2. /\ k + 1 \in Int /\ len \in Int
        /\ \A i \in (k + 1) .. len : air[i] \in Samples
    BY <1>3, <2>1
  <2>3. /\ air' \in Seq(Samples)
        /\ newLen = IF k + 1 <= len THEN len - (k + 1) + 1 ELSE 0
        /\ \A i \in 1 .. len - (k + 1) + 1 : air'[i] = air[(k + 1) + i - 1]
    BY <1>1, <2>2, SubSeqProperties
  <2> HIDE DEF newLen
  <2>4. newLen = len - k
    BY <1>3, <2>3
  <2>5. \A i \in 1 .. newLen : i \in 1 .. len - (k + 1) + 1 /\ (k + 1) + i - 1 = k + i
    BY <1>3, <2>4
  <2> QED BY <2>3, <2>4, <2>5
<1>7. Counts'
  <2>1. rx'.count = count + k /\ rx'.job.k = 0 /\ rx' = [count |-> rx'.count, job |-> rx'.job]
    BY <1>3 DEF Idle
  <2>2. newLen = len - k
    BY <1>6
  <2>3. /\ tx = [count |-> tx.count, job |-> tx.job] /\ tx.job.k \in 0 .. MaxChunk
        /\ tx.count + tx.job.k <= MaxSamples
    BY <1>2 DEF Counts
  <2> HIDE DEF len, newLen, count, k
  <2>4. /\ rx'.count \in Nat /\ rx'.job.k \in 0 .. MaxChunk /\ rx'.job.k <= newLen
        /\ newLen <= tx.count /\ rx'.count + newLen <= tx.count + MaxLag
    BY <1>3, <2>1, <2>2, Constants
  <2> QED BY <1>1, <1>3, <2>1, <2>3, <2>4 DEF Counts, newLen
<1>8. OnAir'
  <2>1. ASSUME NEW i \in 1 .. newLen
        PROVE  /\ air'[i].n = tx.count - newLen + i - 1
               /\ air'[i].hop = Hop(air'[i].n)
               /\ air'[i].whole <= version
               /\ air'[i].whole = version =>
                    air'[i].phase = Phase(air'[i].n) /\ air'[i].shift = Shift(Hop(air'[i].n))
    <3>1. k + i \in 1 .. len /\ tx.count - len + (k + i) - 1 = tx.count - newLen + i - 1
      <4>1. newLen = len - k
        BY <1>6
      <4> HIDE DEF len, newLen, k
      <4> QED BY <1>3, <4>1
    <3>2. air'[i] = air[k + i]
      BY <1>6
    <3>3. /\ air[k + i].n = tx.count - len + (k + i) - 1
          /\ air[k + i].hop = Hop(air[k + i].n)
          /\ air[k + i].whole <= version
          /\ air[k + i].whole = version =>
               air[k + i].phase = Phase(air[k + i].n)
               /\ air[k + i].shift = Shift(Hop(air[k + i].n))
      BY <1>2, <3>1 DEF OnAir
    <3> HIDE DEF k, len, newLen
    <3> QED BY <3>1, <3>2, <3>3
  <2>2. \A i \in 1 .. newLen :
          /\ air'[i].n = tx.count - newLen + i - 1
          /\ air'[i].hop = Hop(air'[i].n)
          /\ air'[i].whole <= version
          /\ air'[i].whole = version =>
               air'[i].phase = Phase(air'[i].n) /\ air'[i].shift = Shift(Hop(air'[i].n))
    BY <2>1
  <2> QED BY <1>1, <1>4, <1>6, <2>2 DEF OnAir
<1>9. Heard'
  <2>1. PICK d \in {0, 1} :
          /\ Len(last') = d + k
          /\ d = 1 => last # <<>> /\ last'[1] = last[Len(last)]
          /\ \A i \in 1 .. k : last'[i + d] = Received(count + i - 1, air[i])
    BY LastIs
  <2>2. ASSUME NEW i \in 1 .. Len(last')
        PROVE  /\ last'[i].hop = Hop(last'[i].n)
               /\ last'[i].version <= version
               /\ last'[i].whole /\ last'[i].version = version =>
                    last'[i].residual = Residual(last'[i].n, last'[i].m)
    <3>1. CASE i <= d
      <4>1. d = 1 /\ i = 1
        BY <3>1
      <4>2. last'[i] = last[Len(last)] /\ Len(last) \in 1 .. Len(last)
        <5>1. last \in Seq(Receptions) /\ last # <<>>
          BY <1>2, <2>1, <4>1 DEF Heard
        <5>2. Len(last) \in Nat \ {0}
          BY <5>1, EmptySeq
        <5> QED BY <2>1, <4>1, <5>2
      <4> QED BY <1>2, <4>2 DEF Heard
    <3>2. CASE ~ (i <= d)
      <4> HIDE DEF k
      <4>1. i - d \in 1 .. k /\ (i - d) + d = i
        BY <1>3, <2>1, <3>2
      <4> DEFINE j == i - d
                 m == count + j - 1
                 r == Received(m, air[j])
      <4>2. last'[i] = r
        BY <2>1, <4>1
      <4>3. /\ r.m = m /\ r.n = air[j].n /\ r.hop = Hop(r.n) /\ r.version = version
            /\ r.whole => r.residual = Residual(r.n, r.m)
        BY <1>1, <4>1, ReceivedIs DEF k
      <4> HIDE DEF r, m, j
      <4> QED BY <1>2, <4>2, <4>3
    <3> QED BY <3>1, <3>2
  <2>3. last' \in Seq(Receptions)
    BY LastIs
  <2> QED BY <1>1, <1>4, <2>2, <2>3 DEF Heard, Residual
<1> QED BY <1>5, <1>7, <1>8, <1>9 DEF Inv

-----------------------------------------------------------------------------
(* What is heard of two samples *)

LEMMA ResidualNext ==
  ASSUME SequenceType, tuned \in Int, NEW n \in Nat, NEW m \in Nat, Hop(m) = Hop(n)
  PROVE  Residual(n + 1, m + 1) - Residual(n, m) = Centre - tuned
<1> DEFINE drift == Centre - tuned
           turn == IF Alone THEN 0 ELSE Shift(Hop(n))
           now == drift * m
           next == drift * (m + 1)
<1>1. drift \in Int
  BY Constants
<1>2. /\ Phase(n) \in Int /\ Phase(m) \in Int
      /\ Phase(n + 1) = Phase(n) + turn /\ Phase(m + 1) = Phase(m) + turn
  BY PhaseNext
<1>3. turn \in Int
  <2>1. Shift(Hop(n)) \in Int
    BY HopType, ShiftType
  <2> QED BY <2>1
<1>4. now \in Int /\ next = now + drift
  <2> HIDE DEF drift
  <2>1. drift * (m + 1) = drift * m + drift
    BY <1>1
  <2>2. drift * m \in Int
    BY <1>1, ProductInt
  <2> QED BY <2>1, <2>2
<1>5. /\ Residual(n, m) = Phase(n) - Phase(m) + now
      /\ Residual(n + 1, m + 1) = Phase(n + 1) - Phase(m + 1) + next
  BY DEF Residual
<1> HIDE DEF drift, turn, now, next
<1>6. Residual(n + 1, m + 1) - Residual(n, m) = drift
  BY <1>1, <1>2, <1>3, <1>4, <1>5
<1> QED BY <1>6 DEF drift

(* Of two samples received one after the other, the second is new, and so  *)
(* is the sequence both were turned by.                                    *)
LEMMA CancelStep == ASSUME Inv, RxFinish, Inv' PROVE HopsCancel'
<1> DEFINE k == rx.job.k
<1>1. PICK d \in {0, 1} :
        /\ Len(last') = d + k
        /\ \A i \in 1 .. k : last'[i + d] = Received(rx.count + i - 1, air[i])
  BY LastIs
<1>2. /\ rx.job # Idle /\ UNCHANGED <<hopping, sequence, version, tuned>>
  BY DEF RxFinish, scheduler
<1>3. SequenceType /\ tuned \in Int /\ k \in Nat /\ Heard'
  <2>1. SequenceType /\ tuned \in Int /\ k \in 0 .. MaxChunk /\ Heard'
    BY DEF Inv, SchedulerType, Counts
  <2> QED BY <2>1, Constants
<1>4. \A n : Phase(n)' = Phase(n)
  BY <1>2, SameSequence
<1>5. SUFFICES ASSUME NEW i \in 1 .. Len(last') - 1,
                      Consecutive(last'[i], last'[i + 1]),
                      last'[i].whole, last'[i + 1].whole,
                      last'[i].version = last'[i + 1].version,
                      Hop(last'[i].m) = last'[i].hop
               PROVE  last'[i + 1].residual - last'[i].residual = Centre - tuned
  BY <1>2 DEF HopsCancel, Consecutive, Hop
<1> DEFINE s == last'[i]
           t == last'[i + 1]
<1>6. /\ i \in 1 .. Len(last') /\ i + 1 \in 1 .. Len(last')
      /\ i + 1 - d \in 1 .. k /\ (i + 1 - d) + d = i + 1
  <2> HIDE DEF k
  <2> QED BY <1>1, <1>3
<1>7. t.version = version
  <2> DEFINE j == i + 1 - d
             r == Received(rx.count + j - 1, air[j])
  <2>1. r.version = version
    BY DEF Received
  <2>2. j \in 1 .. k /\ j + d = i + 1
    BY <1>6
  <2> HIDE DEF j, k
  <2>3. t = r
    BY <1>1, <2>2
  <2> QED BY <2>1, <2>3
<1>8. /\ s.residual = Residual(s.n, s.m) /\ s.hop = Hop(s.n)
      /\ t.residual = Residual(t.n, t.m)
  BY <1>2, <1>3, <1>4, <1>5, <1>6, <1>7 DEF Heard, Residual
<1>9. s.n \in Nat /\ s.m \in Nat
  <2>1. s \in Receptions
    BY <1>3, <1>6, ElementOfSeq DEF Heard
  <2> QED BY <2>1 DEF Receptions
<1>10. t.n = s.n + 1 /\ t.m = s.m + 1 /\ Hop(s.m) = Hop(s.n)
  BY <1>5, <1>8 DEF Consecutive
<1> HIDE DEF s, t
<1>11. Residual(s.n + 1, s.m + 1) - Residual(s.n, s.m) = Centre - tuned
  BY <1>3, <1>9, <1>10, ResidualNext
<1>12. t.residual - s.residual = Centre - tuned
  BY <1>8, <1>10, <1>11
<1> QED BY <1>12 DEF s, t

LEMMA InvNext == Inv /\ [Next]_vars => Inv'
<1> SUFFICES ASSUME Inv, [Next]_vars PROVE Inv'
  OBVIOUS
<1>1. CASE UpdateFrequencies
  <2>1. PICK list \in Lists : Rebuilt([hopping EXCEPT !.freqs = list])
    BY <1>1 DEF UpdateFrequencies
  <2>2. hopping \in HoppingSection /\ list \in Seq(Int)
    BY HoppingAssumption DEF Inv, SchedulerType
  <2>3. [hopping EXCEPT !.freqs = list] \in HoppingSection
    BY <2>2 DEF HoppingSection
  <2> QED BY <2>1, <2>3, RebuiltInv
<1>2. CASE UpdateSeed
  <2>1. PICK seed \in Seeds : Rebuilt([hopping EXCEPT !.seed = seed])
    BY <1>2 DEF UpdateSeed
  <2>2. hopping \in HoppingSection /\ seed \in DOMAIN Draws
    BY HoppingAssumption DEF Inv, SchedulerType
  <2>3. [hopping EXCEPT !.seed = seed] \in HoppingSection
    BY <2>2 DEF HoppingSection
  <2> QED BY <2>1, <2>3, RebuiltInv
<1>3. CASE TxBegin
  BY <1>3, TxBeginInv
<1>4. CASE TxFinish
  BY <1>4, TxFinishInv
<1>5. CASE RxNoise
  BY <1>5, NoiseInv
<1>6. CASE Lose
  BY <1>6, LoseInv
<1>7. CASE RxBegin
  BY <1>7, RxBeginInv
<1>8. CASE RxFinish
  BY <1>8, RxFinishInv
<1>9. CASE UNCHANGED vars
  <2>1. UNCHANGED <<hopping, sequence, version, tuned, tx, rx, air, last>>
    BY <1>9 DEF vars, scheduler
  <2>2. /\ Alone' = Alone /\ (\A h : TurnedBefore(h)' = TurnedBefore(h))
        /\ (\A h : Shift(h)' = Shift(h)) /\ (\A n : Phase(n)' = Phase(n))
    BY <2>1, SameSequence
  <2> QED BY <2>1, <2>2
           DEF Inv, SchedulerType, SequenceType, Counts, Begins, Whole, OnAir, Heard, Residual
<1> QED BY <1>1, <1>2, <1>3, <1>4, <1>5, <1>6, <1>7, <1>8, <1>9 DEF Next

LEMMA AlwaysInv == Spec => []Inv
<1>1. Init => Inv
  BY InitInv
<1>2. Inv /\ [Next]_vars => Inv'
  BY InvNext
<1> QED BY <1>1, <1>2, PTL DEF Spec

-----------------------------------------------------------------------------
(* Theorems                                                                *)

(***************************************************************************)
(* Whatever list, pattern, type and seed a session is given, however empty:*)
(* its sequence is a list of frequencies with at least one, so that no hop *)
(* asks for a frequency there is none of, and neither hopper counts more   *)
(* samples than there were.                                                *)
(***************************************************************************)
THEOREM TypeCorrect == Spec => []TypeOK
<1>1. Inv => TypeOK
  <2> SUFFICES ASSUME Inv PROVE TypeOK
    OBVIOUS
  <2>1. /\ hopping.freqs \in Seq(Int) /\ sequence \in Seq(Int) \ {<<>>}
        /\ version \in 0 .. MaxUpdates /\ tuned \in Int
    BY DEF Inv, SchedulerType, SequenceType, HoppingSection
  <2> DEFINE len == Len(air)
  <2>2. len \in Nat
    BY LenProperties DEF Inv, OnAir
  <2>3. /\ tx.count \in Nat /\ rx.count \in Nat
        /\ tx.job.k \in 0 .. MaxChunk /\ rx.job.k \in 0 .. MaxChunk
        /\ tx.count + tx.job.k <= MaxSamples
        /\ rx.count + len <= tx.count + MaxLag
    BY DEF Inv, Counts
  <2> HIDE DEF len
  <2>4. tx.count \in 0 .. MaxSamples /\ rx.count \in 0 .. MaxSamples + MaxLag
    BY <2>2, <2>3, Constants
  <2> QED BY <2>1, <2>3, <2>4 DEF TypeOK
<1> QED BY <1>1, AlwaysInv, PTL

(***************************************************************************)
(* However the stream is cut into chunks, from each sample to the next,    *)
(* across chunks and hops, the transmitter's phase advances by the shift   *)
(* of the sample's hop: for every list of frequencies and every length of  *)
(* a hop.                                                                  *)
(***************************************************************************)
THEOREM PhaseContinuous == Spec => []PhaseIsContinuous
<1>1. Inv => PhaseIsContinuous
  <2> SUFFICES ASSUME Inv, NEW i \in 1 .. Len(air) - 1,
                      air[i].whole = version, air[i + 1].whole = version,
                      Len(sequence) > 1
               PROVE  air[i + 1].phase - air[i].phase = air[i].shift
    BY DEF PhaseIsContinuous
  <2> DEFINE len == Len(air)
             s == air[i]
             t == air[i + 1]
  <2>1. len \in Nat /\ SequenceType /\ OnAir /\ tx.count \in Nat
    BY LenProperties DEF Inv, OnAir, SchedulerType, Counts
  <2>2. i \in 1 .. len /\ i + 1 \in 1 .. len
    <3>1. i \in 1 .. len - 1
      OBVIOUS
    <3> HIDE DEF len
    <3> QED BY <2>1, <3>1
  <2>3. /\ s.n = tx.count - len + i - 1 /\ t.n = tx.count - len + (i + 1) - 1
        /\ s.phase = Phase(s.n) /\ s.shift = Shift(Hop(s.n)) /\ t.phase = Phase(t.n)
    BY <2>1, <2>2 DEF OnAir
  <2>4. s.n \in Nat
    BY <2>1, <2>2, SampleFields
  <2>5. ~ Alone
    BY <2>1, NotAlone
  <2> HIDE DEF len, s, t
  <2>6. t.n = s.n + 1
    BY <2>1, <2>2, <2>3
  <2>7. /\ Phase(s.n) \in Int
        /\ Phase(s.n + 1) = Phase(s.n) + Shift(Hop(s.n))
    BY <2>1, <2>4, <2>5, PhaseNext
  <2>8. Shift(Hop(s.n)) \in Int
    BY <2>1, <2>4, HopType, ShiftType
  <2>9. t.phase - s.phase = s.shift
    BY <2>3, <2>6, <2>7, <2>8
  <2> QED BY <2>9 DEF s, t
<1> QED BY <1>1, AlwaysInv, PTL

(***************************************************************************)
(* Whatever the receiver's lead, its chunks, lost samples and updates of   *)
(* the scheduler: where the two hoppers agree on the hop and the sequence, *)
(* nothing of the hops is left in what is received.                        *)
(***************************************************************************)
THEOREM HopsCancelled == Spec => []HopsCancel
<1>1. Init => HopsCancel
  BY DEF Init, HopsCancel
<1>2. Inv /\ Inv' /\ HopsCancel /\ [Next]_vars => HopsCancel'
  <2> SUFFICES ASSUME Inv, Inv', HopsCancel, [Next]_vars PROVE HopsCancel'
    OBVIOUS
  <2>1. CASE RxFinish
    BY <2>1, CancelStep
  <2>2. CASE UNCHANGED <<last, tuned>>
    BY <2>2 DEF HopsCancel, Consecutive, Hop
  <2>3. [Next]_vars => RxFinish \/ UNCHANGED <<last, tuned>>
    BY DEF Next, vars, UpdateFrequencies, UpdateSeed, Rebuilt, TxBegin, TxFinish,
           RxNoise, Lose, RxBegin
  <2> QED BY <2>1, <2>2, <2>3
<1> QED BY <1>1, <1>2, AlwaysInv, PTL DEF Spec

=============================================================================
