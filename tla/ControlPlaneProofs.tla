-------------------------- MODULE ControlPlaneProofs --------------------------
(***************************************************************************)
(* Proofs about ControlPlane, for every set of files, settings the panels  *)
(* may send, and number of changes and recordings.                         *)
(***************************************************************************)
EXTENDS ControlPlane, NumberLemmas

-----------------------------------------------------------------------------
(* Rates *)

\* A positive number divides into at most as many parts as it has units.
LEMMA RoundType ==
  ASSUME NEW a \in Nat \ {0}, NEW b \in Nat \ {0}
  PROVE  Round(a, b) \in 0 .. a
<1> DEFINE q == a \div b
<1>1. q \in Nat /\ a % b \in 0 .. b - 1 /\ a = b * q + (a % b)
  BY Quotient
<1>2. Round(a, b) \in {q, q + 1}
  BY <1>1 DEF Round
<1>3. q <= a
  BY <1>1
<1>4. CASE q + 1 <= a
  BY <1>1, <1>2, <1>3, <1>4
<1>5. CASE q = a
  <2>1. b * q = q /\ a % b = 0
    <3> HIDE DEF q
    <3> QED BY <1>1, <1>5
  <2>2. Round(a, b) = q
    BY <2>1 DEF Round
  <2> QED BY <2>2, <1>1, <1>3
<1> QED BY <1>1, <1>3, <1>4, <1>5

LEMMA BitsType == ASSUME NEW t \in DOMAIN BitsPerSymbol PROVE BitsPerSymbol[t] \in 1 .. 3
  BY DEF BitsPerSymbol

LEMMA RaisedRateType ==
  ASSUME NEW c \in Configurations
  PROVE  RaisedRate(c) \in Nat \ {0}
<1>1. c.rf.sampleRate \in Nat \ {0}
  BY DEF Configurations, RfSection
<1>2. CASE RaisedRate(c) = c.rf.sampleRate
  BY <1>1, <1>2
<1>3. CASE RaisedRate(c) # c.rf.sampleRate
  <2>1. /\ c.hopping.offsets # {} /\ c.rf.sampleRate < NeededRate(c)
        /\ RaisedRate(c) = (NeededRate(c) * 11) \div 10
    BY <1>3 DEF RaisedRate
  <2>2. Max(c.hopping.offsets) \in Nat
    BY <2>1 DEF Configurations, HoppingSection, Offsets
  <2>3. SymbolRate(c) \in Nat
    <3>1. c.modulation.chipRate \in Nat /\ BitsPerSymbol[c.modulation.type] \in Nat \ {0}
      BY BitsType DEF Configurations, ModulationSection
    <3> QED BY <3>1, Quotient DEF SymbolRate
  <2>4. (SymbolRate(c) * (100 + Rolloff)) \div 100 \in Nat
    <3> DEFINE widened == SymbolRate(c) * (100 + Rolloff)
    <3>1. widened \in Nat
      <4>1. 100 + Rolloff \in Nat
        BY RolloffAssumption
      <4> QED BY <2>3, <4>1, ProductNat
    <3> HIDE DEF widened
    <3>2. widened \div 100 \in Nat
      BY <3>1, Quotient
    <3> QED BY <3>2 DEF widened
  <2>5. NeededRate(c) \in Nat
    BY <2>2, <2>4 DEF NeededRate
  <2>6. NeededRate(c) >= 2
    BY <1>1, <2>1, <2>5
  <2>7. NeededRate(c) * 11 \in Nat /\ 10 <= NeededRate(c) * 11
    BY <2>5, <2>6
  <2> QED BY <2>1, <2>7, SmallQuotient
<1> QED BY <1>2, <1>3

LEMMA SnappedChipRateType ==
  ASSUME NEW c \in Configurations
  PROVE  SnappedChipRate(c) \in Nat \ {0}
<1> DEFINE rate == c.modulation.chipRate
           samples == c.rf.sampleRate * BitsPerSymbol[c.modulation.type]
<1>1. rate \in Nat \ {0}
  BY DEF Configurations, ModulationSection
<1>2. samples \in Nat \ {0}
  <2>1. c.rf.sampleRate \in Nat \ {0} /\ BitsPerSymbol[c.modulation.type] \in Nat \ {0}
    BY BitsType DEF Configurations, ModulationSection, RfSection
  <2> QED BY <2>1, ProductPositive
<1>3. RoundedSps(c) \in Nat \ {0} /\ RoundedSps(c) <= samples
  <2>1. RoundedSps(c) = IF Round(samples, rate) < 1 THEN 1 ELSE Round(samples, rate)
    BY DEF RoundedSps
  <2> HIDE DEF samples, rate
  <2>2. Round(samples, rate) \in 0 .. samples
    BY <1>1, <1>2, RoundType
  <2> QED BY <1>2, <2>1, <2>2
<1>4. SnappedChipRate(c) \in {samples \div RoundedSps(c), rate}
  BY DEF SnappedChipRate
<1>5. samples \div RoundedSps(c) \in Nat \ {0}
  <2> HIDE DEF samples
  <2> QED BY <1>2, <1>3, SmallQuotient
<1> QED BY <1>1, <1>4, <1>5

-----------------------------------------------------------------------------
(* Validation *)

\* What the sections the derivation does not touch, and a gain, have in common
Kept(c, d) ==
    /\ d.hopping = c.hopping /\ d.frame = c.frame
    /\ d.anomaly = c.anomaly /\ d.logging = c.logging
    /\ d.rf.gain = c.rf.gain

LEMMA DerivedType ==
  ASSUME NEW c \in Configurations
  PROVE  Derived(c) \in Configurations /\ Kept(c, Derived(c))
<1> DEFINE raised == [c EXCEPT !.rf.sampleRate = RaisedRate(c)]
<1>1. RaisedRate(c) \in Nat \ {0}
  BY RaisedRateType
<1>2. raised \in Configurations /\ Kept(c, raised)
  BY <1>1 DEF Configurations, RfSection, Kept
<1>3. Derived(c) = [raised EXCEPT !.modulation.chipRate = SnappedChipRate(raised),
                                  !.rf.bandwidth = raised.rf.sampleRate]
  BY DEF Derived
<1> HIDE DEF raised
<1>4. SnappedChipRate(raised) \in Nat \ {0}
  BY <1>2, SnappedChipRateType
<1>5. raised.rf.sampleRate \in Nat
  BY <1>2 DEF Configurations, RfSection
<1>6. Derived(c) \in Configurations
  <2> DEFINE rated == [raised EXCEPT !.modulation.chipRate = SnappedChipRate(raised)]
  <2>1. rated \in Configurations /\ rated.rf = raised.rf
    BY <1>2, <1>4 DEF Configurations, ModulationSection
  <2>2. Derived(c) = [rated EXCEPT !.rf.bandwidth = raised.rf.sampleRate]
    BY <1>3
  <2> HIDE DEF rated
  <2> QED BY <1>5, <2>1, <2>2 DEF Configurations, RfSection
<1>7. Kept(raised, Derived(c))
  BY <1>2, <1>3 DEF Kept, Configurations, RfSection
<1> QED BY <1>2, <1>6, <1>7 DEF Kept

LEMMA BytesType == ASSUME NEW n \in Int PROVE BytesFor(n) \in Int
<1>1. n + ByteBits - 1 \in Int
  BY ByteAssumption
<1>2. ASSUME NEW m \in Int PROVE m \div ByteBits \in Int
  BY ByteAssumption
<1> QED BY <1>1, <1>2 DEF BytesFor

LEMMA BurstChipsType ==
  ASSUME NEW c \in Configurations
  PROVE  BurstChips(c) \in Int
<1> DEFINE info == c.frame.invariantBits + PayloadLength(c)
           fec == c.frame.fec
           aligned == BytesFor(info) * ByteBits
<1>1. /\ c.frame.preambleBits \in Nat /\ c.frame.invariantBits \in Nat
      /\ c.frame.totalBits \in Nat /\ c.modulation.codeLength \in Nat
  BY DEF Configurations, FrameSection, ModulationSection
<1>2. info \in Int
  BY <1>1 DEF PayloadLength
<1>3. fec.K \in Nat /\ fec.rate \in Nat /\ fec.nsym \in Nat
  BY DEF Configurations, FrameSection, FecSection
<1>4. CodedLength(Codec(fec), aligned) \in Int
  <2> DEFINE code == Codec(fec)
             n == IF code.rs THEN (BytesFor(aligned) + code.nsym) * ByteBits ELSE aligned
  <2>1. code.K \in Nat /\ code.rate \in Nat /\ code.nsym \in Nat
    BY <1>3 DEF Codec
  <2>2. aligned \in Int
    <3>1. BytesFor(info) \in Int
      BY <1>2, BytesType
    <3> QED BY <3>1, ByteAssumption, ProductInt
  <2>3. BytesFor(aligned) \in Int
    BY <2>2, BytesType
  <2>4. CodedLength(code, aligned) = IF code.cc THEN (n + code.K - 1) * code.rate ELSE n
    BY DEF CodedLength
  <2> HIDE DEF code, aligned
  <2>5. n \in Int
    <3>1. BytesFor(aligned) + code.nsym \in Int
      BY <2>1, <2>3
    <3>2. (BytesFor(aligned) + code.nsym) * ByteBits \in Int
      BY <3>1, ByteAssumption, ProductInt
    <3> QED BY <2>2, <3>2
  <2> HIDE DEF n
  <2>6. (n + code.K - 1) * code.rate \in Int
    <3>1. n + code.K - 1 \in Int
      BY <2>1, <2>5
    <3> QED BY <2>1, <3>1, ProductInt
  <2>7. CodedLength(code, aligned) \in Int
    BY <2>4, <2>5, <2>6
  <2> QED BY <2>7 DEF code
<1> DEFINE coded == IF fec.enabled THEN CodedLength(Codec(fec), aligned) ELSE info
<1>5. coded \in Int
  BY <1>2, <1>4
<1>6. BurstChips(c) = c.frame.preambleBits + coded * c.modulation.codeLength
  BY DEF BurstChips
<1> HIDE DEF coded
<1>7. coded * c.modulation.codeLength \in Int
  BY <1>1, <1>5, ProductInt
<1> QED BY <1>1, <1>6, <1>7

LEMMA ValidatedType ==
  ASSUME NEW c \in Configurations
  PROVE  Validated(c) \in Configurations /\ Kept(c, Validated(c))
<1> DEFINE d == Derived(c)
<1>1. d \in Configurations /\ Kept(c, d)
  BY DerivedType
<1>2. Validated(c) = [d EXCEPT !.timing.burst = [chips |-> BurstChips(d),
                                                 rate  |-> d.modulation.chipRate]]
  BY DEF Validated
<1> HIDE DEF d
<1>3. BurstChips(d) \in Int /\ d.modulation.chipRate \in Nat \ {0}
  BY <1>1, BurstChipsType DEF Configurations, ModulationSection
<1>4. Validated(c) \in Configurations
  BY <1>1, <1>2, <1>3 DEF Configurations, TimingSection
<1>5. Kept(d, Validated(c))
  BY <1>1, <1>2 DEF Kept, Configurations
<1> QED BY <1>1, <1>4, <1>5 DEF Kept

-----------------------------------------------------------------------------
(* Types *)

LEMMA NewSessionType ==
  ASSUME NEW c \in Configurations
  PROVE  /\ NewSession(c) \in Sessions
         /\ NewSession(c).txTap = 0 /\ NewSession(c).rxTap = 0
  BY DEF NewSession, Sessions, NoTap, Configurations, RfSection, AnomalySection

LEMMA NotifiedType ==
  ASSUME TypeOK, NEW c \in Configurations
  PROVE  /\ Notified(c) \in Sessions \cup {NoSession}
         /\ Notified(c).live = Live
         /\ Live => /\ Notified(c) = [session EXCEPT !.gain = c.rf.gain]
                    /\ Notified(c).txTap = session.txTap
                    /\ Notified(c).rxTap = session.rxTap
<1>1. c.rf.gain \in Int
  BY DEF Configurations, RfSection
<1>2. CASE Live
  <2>1. session \in Sessions
    BY <1>2 DEF TypeOK, Live, NoSession
  <2>2. Notified(c) = [session EXCEPT !.gain = c.rf.gain]
    BY <1>2 DEF Notified
  <2> QED BY <1>1, <1>2, <2>1, <2>2 DEF Sessions, Live
<1>3. CASE ~Live
  BY <1>3 DEF Notified, TypeOK, Live, NoSession
<1> QED BY <1>2, <1>3

LEMMA RebuildType ==
  ASSUME TypeOK, NEW c \in Configurations, Rebuild(c), recordings' = recordings
  PROVE  /\ injector' \in AnomalySection
         /\ session' \in Sessions \cup {NoSession}
         /\ pending' \in BOOLEAN /\ ended' \in BOOLEAN
         /\ Live' => session.txTap' <= recordings' /\ session.rxTap' <= recordings'
<1>1. injector' \in AnomalySection
  BY DEF Rebuild, Injector, Configurations
<1>2. recordings \in Nat
  BY ControlAssumption DEF TypeOK
<1>3. CASE Buildable(c)
  <2>1. session' = NewSession(c) /\ pending' = FALSE /\ ended' = ended
    BY <1>3 DEF Rebuild
  <2>2. session'.txTap = 0 /\ session'.rxTap = 0 /\ session' \in Sessions
    BY <2>1, NewSessionType
  <2>3. pending' \in BOOLEAN /\ ended' \in BOOLEAN
    BY <2>1 DEF TypeOK
  <2>4. session'.txTap <= recordings' /\ session'.rxTap <= recordings'
    BY <1>2, <2>2
  <2> QED BY <1>1, <2>2, <2>3, <2>4
<1>4. CASE ~Buildable(c)
  BY <1>1, <1>4 DEF Rebuild, TypeOK, Live, NoSession
<1> QED BY <1>3, <1>4

\* What every slot that changes the configuration keeps
LEMMA ChangeType ==
  ASSUME TypeOK, NEW section, NEW updated \in Configurations,
         OnConfigChanged(section, updated)
  PROVE  TypeOK'
<1>1. config' \in Configurations
  BY ValidatedType DEF OnConfigChanged
<1>2. changes' \in 0 .. MaxChanges
  BY ControlAssumption DEF OnConfigChanged, TypeOK
<1>3. /\ injector' \in AnomalySection
      /\ session' \in Sessions \cup {NoSession}
      /\ pending' \in BOOLEAN /\ ended' \in BOOLEAN
      /\ Live' => session.txTap' <= recordings' /\ session.rxTap' <= recordings'
  <2>1. CASE section \in RestartRequired /\ running
    <3>1. Rebuild(config') /\ recordings' = recordings
      BY <2>1 DEF OnConfigChanged, recording
    <3> QED BY <1>1, <3>1, RebuildType
  <2>2. CASE ~(section \in RestartRequired /\ running)
    <3>1. /\ injector' = Injector(config') /\ session' = Notified(config')
          /\ pending' = (pending \/ (section \in RestartRequired /\ Live))
          /\ ended' = ended /\ recordings' = recordings
      BY <2>2 DEF OnConfigChanged, recording
    <3>2. injector' \in AnomalySection
      BY <1>1, <3>1 DEF Injector, Configurations
    <3>3. /\ session' \in Sessions \cup {NoSession} /\ Live' = Live
          /\ Live => /\ session'.txTap = session.txTap
                     /\ session'.rxTap = session.rxTap
      BY <1>1, <3>1, NotifiedType DEF Live
    <3>4. pending' \in BOOLEAN /\ ended' \in BOOLEAN
      BY <3>1 DEF TypeOK
    <3> QED BY <3>1, <3>2, <3>3, <3>4 DEF TypeOK
  <2> QED BY <2>1, <2>2
<1> QED BY <1>1, <1>2, <1>3 DEF OnConfigChanged, TypeOK, recording

\* Each panel sends its section, of the right type, and some name of it.
LEMMA PanelChange ==
  ASSUME TypeOK, Panels
  PROVE  \/ LiveAnomaly
         \/ \E section, updated :
               /\ updated \in Configurations
               /\ OnConfigChanged(section, updated)
               /\ section \in RestartRequired \/
                     \A s \in RestartRequired : updated[s] = config[s]
<1> DEFINE Sent(section, updated) ==
        /\ updated \in Configurations
        /\ OnConfigChanged(section, updated)
        /\ section \in RestartRequired \/
              \A s \in RestartRequired : updated[s] = config[s]
<1> USE ControlAssumption DEF TypeOK, Configurations, RestartRequired
<1>1. CASE ApplyRf
  <2>1. PICK v \in RfValues :
          OnConfigChanged("rf", [config EXCEPT !.rf.sampleRate = v.sampleRate, !.rf.gain = v.gain])
    BY <1>1 DEF ApplyRf
  <2> DEFINE updated == [config EXCEPT !.rf.sampleRate = v.sampleRate, !.rf.gain = v.gain]
  <2>2. v.sampleRate \in Nat \ {0} /\ v.gain \in Int
    OBVIOUS
  <2>3. updated \in Configurations
    BY <2>2 DEF RfSection
  <2>4. Sent("rf", updated)
    BY <2>1, <2>3
  <2> QED BY <2>4
<1>2. CASE ApplyHopping
  <2>1. PICK v \in HoppingValues : OnConfigChanged("hopping", [config EXCEPT !.hopping = v])
    BY <1>2 DEF ApplyHopping
  <2>2. Sent("hopping", [config EXCEPT !.hopping = v])
    BY <2>1
  <2> QED BY <2>2
<1>3. CASE ApplyModulation
  <2>1. PICK v \in ModulationValues :
          OnConfigChanged("modulation", [config EXCEPT !.modulation = v])
    BY <1>3 DEF ApplyModulation
  <2>2. Sent("modulation", [config EXCEPT !.modulation = v])
    BY <2>1
  <2> QED BY <2>2
<1>4. CASE ApplyFrame
  <2>1. PICK v \in FrameValues : OnConfigChanged("frame", [config EXCEPT !.frame = v])
    BY <1>4 DEF ApplyFrame
  <2>2. Sent("frame", [config EXCEPT !.frame = v])
    BY <2>1
  <2> QED BY <2>2
<1>5. CASE ApplyTiming
  <2>1. PICK v \in TransitionTimes :
          OnConfigChanged("timing", [config EXCEPT !.timing.transition = v])
    BY <1>5 DEF ApplyTiming
  <2>2. [config EXCEPT !.timing.transition = v] \in Configurations
    BY DEF TimingSection
  <2>3. Sent("timing", [config EXCEPT !.timing.transition = v])
    BY <2>1, <2>2
  <2> QED BY <2>3
<1>6. CASE ApplyAnomaly
  <2>1. PICK v \in AnomalyValues : OnConfigChanged("anomaly", [config EXCEPT !.anomaly = v])
    BY <1>6 DEF ApplyAnomaly
  <2>2. Sent("anomaly", [config EXCEPT !.anomaly = v])
    BY <2>1
  <2> QED BY <2>2
<1>7. CASE ApplyLogging
  <2>1. PICK v \in LogValues : OnConfigChanged("logging", [config EXCEPT !.logging = v])
    BY <1>7 DEF ApplyLogging
  <2>2. Sent("logging", [config EXCEPT !.logging = v])
    BY <2>1
  <2> QED BY <2>2
<1> QED BY <1>1, <1>2, <1>3, <1>4, <1>5, <1>6, <1>7 DEF Panels

LEMMA LiveType == ASSUME TypeOK PROVE Live \in BOOLEAN
<1>1. CASE session \in Sessions
  <2>1. session.live \in {TRUE}
    BY <1>1 DEF Sessions
  <2> QED BY <2>1 DEF Live
<1>2. CASE session = NoSession
  BY <1>2 DEF Live, NoSession
<1> QED BY <1>1, <1>2 DEF TypeOK

LEMMA InitType == Init => TypeOK
<1> SUFFICES ASSUME Init PROVE TypeOK
  OBVIOUS
<1>1. /\ config \in Configurations /\ files \in [Files -> Configurations]
      /\ injector \in AnomalySection
  BY ControlAssumption DEF Init, Configurations
<1>2. ~Live /\ session = NoSession
  BY DEF Init, Live, NoSession
<1>3. /\ recorder = NoRecorder /\ recorder.id = 0 /\ recordings = 0 /\ described = {}
  BY DEF Init, NoRecorder
<1>4. changes \in 0 .. MaxChanges /\ recordings \in 0 .. MaxRecordings
  BY ControlAssumption DEF Init
<1>5. /\ running \in BOOLEAN /\ pending \in BOOLEAN /\ ended \in BOOLEAN
      /\ panelOn \in BOOLEAN /\ toolbarOn \in BOOLEAN
  BY DEF Init
<1>6. recorder.id <= recordings
  BY <1>3
<1>7. described \subseteq 1 .. recordings
  BY <1>3
<1> QED BY <1>1, <1>2, <1>3, <1>4, <1>5, <1>6, <1>7 DEF TypeOK

LEMMA StopRecordingType ==
  ASSUME TypeOK, StopRecording, panelOn' \in BOOLEAN, toolbarOn' \in BOOLEAN
  PROVE  TypeOK'
<1>1. CASE recorder = NoRecorder
  BY <1>1 DEF StopRecording, TypeOK, configuration, Live
<1>2. CASE recorder # NoRecorder
  <2>1. recorder \in Recorders
    BY <1>2 DEF TypeOK
  <2>2. /\ session' = Untapped /\ recorder' = NoRecorder
        /\ described' = described \cup (IF recorder.format = "sigmf" THEN {recorder.id} ELSE {})
        /\ UNCHANGED <<configuration, running, injector, pending, recordings, ended>>
    BY <1>2 DEF StopRecording
  <2>3. recordings \in Nat /\ recorder.id \in 1 .. recordings
    BY <2>1, ControlAssumption DEF TypeOK, Recorders
  <2>4. described' \subseteq 1 .. recordings
    BY <2>2, <2>3 DEF TypeOK
  <2>5. /\ session' \in Sessions \cup {NoSession}
        /\ Live' => session'.txTap = 0 /\ session'.rxTap = 0
    <3>1. CASE Live
      <4>1. session \in Sessions
        BY <3>1 DEF TypeOK, Live, NoSession
      <4>2. session' = [session EXCEPT !.txTap = 0, !.rxTap = 0]
        BY <2>2, <3>1 DEF Untapped, NoTap
      <4> QED BY <4>1, <4>2 DEF Sessions
    <3>2. CASE ~Live
      BY <2>2, <3>2 DEF TypeOK, Untapped, Live
    <3> QED BY <3>1, <3>2
  <2> QED BY <2>2, <2>3, <2>4, <2>5 DEF TypeOK, configuration, NoRecorder
<1> QED BY <1>1, <1>2

LEMMA StartRecordingType ==
  ASSUME TypeOK, StartRecording, panelOn' \in BOOLEAN, toolbarOn' \in BOOLEAN
  PROVE  TypeOK'
<1> DEFINE r == NewRecorder
<1>1. /\ recordings < MaxRecordings /\ recordings' = recordings + 1
      /\ recorder' = r /\ ended' = (TapTaken(r) \/ Unfit(r))
      /\ session' = IF ~Live THEN session
                    ELSE [session EXCEPT !.txTap = IF r.tx THEN r.id ELSE @,
                                         !.rxTap = IF r.rx THEN r.id ELSE @]
      /\ UNCHANGED <<configuration, running, injector, pending, described>>
  BY DEF StartRecording
<1>2. recordings \in Nat /\ recordings' \in 1 .. MaxRecordings
  BY <1>1, ControlAssumption DEF TypeOK
<1>3. r \in Recorders /\ r.id = recordings + 1
  BY <1>2 DEF NewRecorder, Recorders, TypeOK, Configurations, LoggingSection, RfSection
<1>4. ended' \in BOOLEAN
  BY <1>1 DEF TapTaken, Unfit
<1>5. /\ session' \in Sessions \cup {NoSession}
      /\ Live' => session'.txTap <= recordings' /\ session'.rxTap <= recordings'
  <2> HIDE DEF r
  <2>1. CASE Live
    <3>1. session \in Sessions /\ session.txTap <= recordings /\ session.rxTap <= recordings
      BY <2>1 DEF TypeOK, Live, NoSession
    <3>2. r.id \in Nat
      BY <1>2, <1>3
    <3>3. session' = [session EXCEPT !.txTap = IF r.tx THEN r.id ELSE @,
                                     !.rxTap = IF r.rx THEN r.id ELSE @]
      BY <1>1, <2>1
    <3>4. session' \in Sessions
      BY <3>1, <3>2, <3>3 DEF Sessions
    <3>5. session'.txTap \in {session.txTap, r.id} /\ session'.rxTap \in {session.rxTap, r.id}
      BY <3>1, <3>3 DEF Sessions
    <3>6. session.txTap \in Nat /\ session.rxTap \in Nat
      BY <3>1 DEF Sessions
    <3> QED BY <1>1, <1>2, <1>3, <3>1, <3>4, <3>5, <3>6
  <2>2. CASE ~Live
    BY <1>1, <2>2 DEF TypeOK, Live
  <2> QED BY <2>1, <2>2
<1> HIDE DEF r
<1>6. recorder' \in Recorders /\ recorder'.id <= recordings'
  BY <1>1, <1>2, <1>3
<1>7. described' \subseteq 1 .. recordings'
  BY <1>1, <1>2 DEF TypeOK
<1> QED BY <1>1, <1>2, <1>4, <1>5, <1>6, <1>7 DEF TypeOK, configuration

LEMMA NextType == TypeOK /\ [Next]_vars => TypeOK'
<1> SUFFICES ASSUME TypeOK, [Next]_vars PROVE TypeOK'
  OBVIOUS
<1>1. CASE Start
  <2>1. injector' \in AnomalySection
    BY <1>1 DEF Start, Injector, TypeOK, Configurations
  <2>2. CASE StartSucceeds
    <3>1. /\ session' = NewSession(config) /\ running' = TRUE /\ pending' = FALSE
      BY <2>2 DEF StartSucceeds
    <3>2. session' \in Sessions /\ session'.txTap = 0 /\ session'.rxTap = 0
      BY <3>1, NewSessionType DEF TypeOK
    <3>3. running' \in BOOLEAN /\ pending' \in BOOLEAN /\ ended' \in BOOLEAN
          /\ panelOn' \in BOOLEAN /\ toolbarOn' \in BOOLEAN
      BY <1>1, <3>1 DEF Start, TypeOK, recording
    <3>4. UNCHANGED <<configuration, recording>>
      BY <1>1 DEF Start
    <3>5. recordings' \in Nat
      BY <3>4, ControlAssumption DEF TypeOK, recording
    <3> QED BY <2>1, <3>2, <3>3, <3>4, <3>5 DEF TypeOK, configuration, recording
  <2>3. CASE StartRaises
    <3>1. /\ session' \in Sessions \cup {NoSession} /\ Live' = Live
          /\ Live => session'.txTap = session.txTap /\ session'.rxTap = session.rxTap
      <4>1. CASE Live
        BY <2>3, <4>1 DEF StartRaises, TypeOK, Sessions, NoSession, Live
      <4>2. CASE ~Live
        BY <2>3, <4>2 DEF StartRaises, TypeOK, Live
      <4> QED BY <4>1, <4>2
    <3>2. running' \in BOOLEAN /\ pending' \in BOOLEAN /\ ended' \in BOOLEAN
          /\ panelOn' \in BOOLEAN /\ toolbarOn' \in BOOLEAN
      BY <1>1, <2>3 DEF Start, StartRaises, TypeOK, recording
    <3>3. UNCHANGED <<configuration, recording, ended>>
      BY <1>1 DEF Start
    <3> QED BY <2>1, <3>1, <3>2, <3>3 DEF TypeOK, configuration, recording
  <2> QED BY <1>1, <2>2, <2>3 DEF Start
<1>2. CASE Stop
  BY <1>2 DEF Stop, TypeOK, configuration, recording, Live, NoSession
<1>3. CASE Restart
  <2>1. config \in Configurations /\ Rebuild(config) /\ recordings' = recordings
    BY <1>3 DEF Restart, recording, TypeOK
  <2> QED BY <1>3, <2>1, RebuildType DEF Restart, TypeOK, configuration, recording
<1>4. CASE Close
  BY <1>4 DEF Close, TypeOK, configuration, recording, Live, NoSession
<1>5. ASSUME NEW f \in Files, Save(f) PROVE TypeOK'
  <2>1. changes' \in 0 .. MaxChanges
    BY <1>5, ControlAssumption DEF Save, TypeOK
  <2>2. files' \in [Files -> Configurations]
    BY <1>5 DEF Save, TypeOK
  <2> QED BY <1>5, <2>1, <2>2 DEF Save, TypeOK, flowgraphs, recording, Live
<1>6. ASSUME NEW f \in Files, Load(f) PROVE TypeOK'
  <2>1. changes' \in 0 .. MaxChanges
    BY <1>6, ControlAssumption DEF Load, TypeOK
  <2>2. CASE f \in BadFiles
    BY <1>6, <2>1, <2>2 DEF Load, TypeOK, recording, Live
  <2>3. CASE f \notin BadFiles
    <3>1. files[f] \in Configurations
      BY DEF TypeOK
    <3>2. config' = Validated(files[f]) /\ config' \in Configurations
      BY <1>6, <2>3, <3>1, ValidatedType DEF Load
    <3>3. /\ injector' = Injector(config') /\ session' = Notified(config')
          /\ pending' = Live /\ ended' = ended
      BY <1>6, <2>3 DEF Load
    <3>4. injector' \in AnomalySection
      BY <3>2, <3>3 DEF Injector, Configurations
    <3>5. /\ session' \in Sessions \cup {NoSession} /\ Live' = Live
          /\ Live => /\ session'.txTap = session.txTap
                     /\ session'.rxTap = session.rxTap
      BY <3>2, <3>3, NotifiedType DEF Live
    <3>6. pending' \in BOOLEAN
      BY <3>3, LiveType
    <3> QED BY <1>6, <2>1, <3>2, <3>3, <3>4, <3>5, <3>6 DEF Load, TypeOK, recording
  <2> QED BY <2>2, <2>3
<1>7. CASE Panels
  <2>1. CASE LiveAnomaly
    <3>1. PICK level \in AnomalyLevels :
            /\ changes < MaxChanges /\ changes' = changes + 1
            /\ config' = Validated([config EXCEPT !.anomaly.level = level])
            /\ injector' = Injector(config') /\ session' = Notified(config')
            /\ UNCHANGED <<files, running, pending, recording, ended>>
      BY <2>1 DEF LiveAnomaly
    <3>2. [config EXCEPT !.anomaly.level = level] \in Configurations
      BY ControlAssumption DEF TypeOK, Configurations, AnomalySection
    <3>3. config' \in Configurations
      BY <3>1, <3>2, ValidatedType
    <3>4. injector' \in AnomalySection
      BY <3>1, <3>3 DEF Injector, Configurations
    <3>5. /\ session' \in Sessions \cup {NoSession} /\ Live' = Live
          /\ Live => /\ session'.txTap = session.txTap
                     /\ session'.rxTap = session.rxTap
      BY <3>1, <3>3, NotifiedType DEF Live
    <3>6. changes' \in 0 .. MaxChanges
      BY <3>1, ControlAssumption DEF TypeOK
    <3> QED BY <3>1, <3>3, <3>4, <3>5, <3>6 DEF TypeOK, recording
  <2> QED BY <1>7, <2>1, PanelChange, ChangeType
<1>8. CASE PanelRecord
  <2>1. panelOn' \in BOOLEAN /\ toolbarOn' \in BOOLEAN
    BY <1>8 DEF PanelRecord, TypeOK
  <2> QED BY <1>8, <2>1, StopRecordingType, StartRecordingType DEF PanelRecord
<1>9. CASE ToolbarRecord
  <2>1. panelOn' \in BOOLEAN /\ toolbarOn' \in BOOLEAN
    BY <1>9 DEF ToolbarRecord, TypeOK
  <2> QED BY <1>9, <2>1, StopRecordingType, StartRecordingType DEF ToolbarRecord
<1>10. CASE UNCHANGED vars
  BY <1>10 DEF vars, configuration, flowgraphs, recording, TypeOK, Live
<1> QED BY <1>1, <1>2, <1>3, <1>4, <1>5, <1>6, <1>7, <1>8, <1>9, <1>10 DEF Next

(***************************************************************************)
(* Every variable keeps its type, whatever is changed, loaded, saved,      *)
(* started and recorded in whatever order (the program's configuration and *)
(* its sessions are always complete).                                      *)
(***************************************************************************)
THEOREM TypeCorrect == Spec => []TypeOK
  BY InitType, NextType, PTL DEF Spec

-----------------------------------------------------------------------------
(* Live settings *)

\* The session has AnomalyBlock as it was built.
BlockAsBuilt(s) ==
    s.anomalyBlock = (s.built.anomaly.enabled \/ s.built.anomaly.interference)

\* LiveSettingsFollow with what makes the session apply what it is asked to
LiveInv ==
    /\ Live => session.gain = config.rf.gain /\ BlockAsBuilt(session)
    /\ injector = config.anomaly
    /\ running /\ ~ended => Live /\ session.injected

LEMMA LiveInvSuffices == LiveInv => LiveSettingsFollow
  BY DEF LiveInv, LiveSettingsFollow, BlockAsBuilt, Applied, Wanted

LEMMA NotifiedFollows ==
  ASSUME TypeOK, LiveInv, NEW c \in Configurations,
         session' = Notified(c), config' = c, injector' = Injector(c),
         running' = running, ended' = ended
  PROVE  LiveInv'
<1>1. /\ Live' = Live
      /\ Live => session' = [session EXCEPT !.gain = c.rf.gain] /\ session \in Sessions
  BY NotifiedType DEF Live, TypeOK, NoSession
<1>2. Live => /\ session'.gain = c.rf.gain /\ session'.injected = session.injected
              /\ session'.built = session.built
              /\ session'.anomalyBlock = session.anomalyBlock
  BY <1>1 DEF Sessions
<1> QED BY <1>1, <1>2 DEF LiveInv, BlockAsBuilt, Injector

LEMMA RebuildFollows ==
  ASSUME NEW c, Rebuild(c), config' = c
  PROVE  LiveInv'
<1>1. CASE Buildable(c)
  BY <1>1 DEF Rebuild, NewSession, LiveInv, BlockAsBuilt, Injector, Live
<1>2. CASE ~Buildable(c)
  BY <1>2 DEF Rebuild, NoSession, LiveInv, Injector, Live
<1> QED BY <1>1, <1>2

\* Recording touches nothing but taps.
LEMMA RecordingFollows ==
  ASSUME TypeOK, LiveInv, ~ended, StartRecording \/ StopRecording
  PROVE  LiveInv'
<1>1. /\ Live' = Live
      /\ Live => /\ session'.gain = session.gain /\ session'.injected = session.injected
                 /\ session'.built = session.built
                 /\ session'.anomalyBlock = session.anomalyBlock
  <2>1. CASE ~Live
    BY <2>1 DEF StartRecording, StopRecording, Untapped, Live
  <2>2. CASE Live
    <3>1. session \in Sessions
      BY <2>2 DEF TypeOK, Live, NoSession
    <3>2. CASE StartRecording
      BY <2>2, <3>1, <3>2 DEF StartRecording, Sessions, Live
    <3>3. CASE StopRecording
      BY <2>2, <3>1, <3>3 DEF StopRecording, Untapped, Sessions, Live
    <3> QED BY <3>2, <3>3
  <2> QED BY <2>1, <2>2
<1>2. config' = config /\ injector' = injector /\ running' = running
  BY DEF StartRecording, StopRecording, configuration
<1> QED BY <1>1, <1>2 DEF LiveInv, BlockAsBuilt

LEMMA NextFollows == TypeOK /\ LiveInv /\ [Next]_vars => LiveInv'
<1> SUFFICES ASSUME TypeOK, LiveInv, [Next]_vars PROVE LiveInv'
  OBVIOUS
<1>1. CASE Start
  <2>1. CASE StartSucceeds
    BY <1>1, <2>1 DEF Start, StartSucceeds, NewSession, LiveInv, BlockAsBuilt,
       Injector, Live, configuration
  <2>2. CASE StartRaises
    <3>1. /\ Live' = Live
          /\ Live => /\ session'.gain = session.gain
                     /\ session'.built = session.built
                     /\ session'.anomalyBlock = session.anomalyBlock
      <4>1. CASE Live
        BY <2>2, <4>1 DEF StartRaises, TypeOK, Sessions, NoSession, Live
      <4>2. CASE ~Live
        BY <2>2, <4>2 DEF StartRaises, Live
      <4> QED BY <4>1, <4>2
    <3>2. ~running /\ running' = running /\ config' = config /\ injector' = config.anomaly
      BY <1>1, <2>2 DEF Start, StartRaises, Injector, configuration
    <3> QED BY <3>1, <3>2 DEF LiveInv, BlockAsBuilt
  <2> QED BY <1>1, <2>1, <2>2 DEF Start
<1>2. CASE Stop
  BY <1>2 DEF Stop, NoSession, LiveInv, Live, configuration
<1>3. CASE Restart
  <2>1. Rebuild(config) /\ config' = config
    BY <1>3 DEF Restart, configuration
  <2>2. Rebuild(config')
    BY <2>1
  <2> QED BY <2>1, RebuildFollows
<1>4. CASE Close
  BY <1>4 DEF Close, NoSession, LiveInv, Live, configuration
<1>5. ASSUME NEW f \in Files, Save(f) PROVE LiveInv'
  BY <1>5 DEF Save, LiveInv, BlockAsBuilt, Live, flowgraphs
<1>6. ASSUME NEW f \in Files, Load(f) PROVE LiveInv'
  <2>1. CASE f \in BadFiles
    BY <1>6, <2>1 DEF Load, LiveInv, BlockAsBuilt, Live
  <2>2. CASE f \notin BadFiles
    <3>1. files[f] \in Configurations
      BY DEF TypeOK
    <3>2. Validated(files[f]) \in Configurations
      BY <3>1, ValidatedType
    <3>3. /\ config' = Validated(files[f]) /\ session' = Notified(config')
          /\ injector' = Injector(config') /\ running' = running /\ ended' = ended
      BY <1>6, <2>2 DEF Load
    <3>4. /\ session' = Notified(Validated(files[f]))
          /\ injector' = Injector(Validated(files[f]))
      BY <3>3
    <3> QED BY <3>2, <3>3, <3>4, NotifiedFollows
  <2> QED BY <2>1, <2>2
<1>7. CASE Panels
  <2>1. ASSUME NEW c \in Configurations, config' = Validated(c),
               running' = running,
               \/ Rebuild(config')
               \/ /\ injector' = Injector(config') /\ session' = Notified(config')
                  /\ ended' = ended
        PROVE  LiveInv'
    <3>1. Validated(c) \in Configurations
      BY ValidatedType
    <3>2. CASE Rebuild(config')
      <4>1. Rebuild(Validated(c))
        BY <2>1, <3>2
      <4> QED BY <2>1, <4>1, RebuildFollows
    <3>3. CASE ~Rebuild(config')
      <4>1. /\ injector' = Injector(Validated(c)) /\ session' = Notified(Validated(c))
            /\ ended' = ended
        BY <2>1, <3>3
      <4> QED BY <2>1, <3>1, <4>1, NotifiedFollows
    <3> QED BY <3>2, <3>3
  <2>2. CASE LiveAnomaly
    <3>1. PICK level \in AnomalyLevels :
            /\ config' = Validated([config EXCEPT !.anomaly.level = level])
            /\ injector' = Injector(config') /\ session' = Notified(config')
            /\ UNCHANGED <<running, ended>>
      BY <2>2 DEF LiveAnomaly
    <3>2. [config EXCEPT !.anomaly.level = level] \in Configurations
      BY ControlAssumption DEF TypeOK, Configurations, AnomalySection
    <3> QED BY <2>1, <3>1, <3>2
  <2>3. ASSUME NEW section, NEW updated \in Configurations, OnConfigChanged(section, updated)
        PROVE  LiveInv'
    BY <2>1, <2>3 DEF OnConfigChanged
  <2> QED BY <1>7, <2>2, <2>3, PanelChange
<1>8. CASE PanelRecord
  BY <1>8, RecordingFollows DEF PanelRecord
<1>9. CASE ToolbarRecord
  BY <1>9, RecordingFollows DEF ToolbarRecord
<1>10. CASE UNCHANGED vars
  BY <1>10 DEF vars, configuration, flowgraphs, recording, LiveInv, BlockAsBuilt, Live
<1> QED BY <1>1, <1>2, <1>3, <1>4, <1>5, <1>6, <1>7, <1>8, <1>9, <1>10 DEF Next

(***************************************************************************)
(* Gains and anomalies follow the configuration through every change,      *)
(* load, start, failed start and restart (set_tx_gain, set_anomaly_state   *)
(* and the listener of flowgraph_manager.py), and a session built with     *)
(* anomalies or interference on applies them.                              *)
(***************************************************************************)
THEOREM SettingsFollow == Spec => []LiveSettingsFollow
<1>1. Init => LiveInv
  BY DEF Init, LiveInv, Live, NoSession
<1> QED BY <1>1, LiveInvSuffices, TypeCorrect, NextFollows, PTL DEF Spec

-----------------------------------------------------------------------------
(* Validating twice *)

\* Dividing by what a number was divided into
LEMMA QuotientTwice ==
  ASSUME NEW a \in Nat \ {0}, NEW s \in Nat \ {0}, 2 * s <= a \div s
  PROVE  a \div (a \div s) = s /\ Round(a, a \div s) = s
<1> DEFINE q == a \div s
           r == a % s
<1>1. q \in Nat /\ r \in 0 .. s - 1 /\ a = s * q + r
  BY Quotient
<1>2. 2 * r < q /\ q \in Nat \ {0} /\ r \in 0 .. q - 1
  <2> HIDE DEF q, r
  <2> QED BY <1>1, 2 * s <= q DEF q
<1>3. a \div q = s /\ a % q = r
  <2> HIDE DEF q, r
  <2> QED BY <1>1, <1>2, DivisionUnique
<1>4. Round(a, q) = s
  <2> HIDE DEF q, r
  <2> QED BY <1>1, <1>2, <1>3 DEF Round
<1> QED BY <1>3, <1>4

Samples(c) == c.rf.sampleRate * BitsPerSymbol[c.modulation.type]

LEMMA RatesType ==
  ASSUME NEW c \in Configurations
  PROVE  /\ Samples(c) \in Nat \ {0} /\ c.modulation.chipRate \in Nat \ {0}
         /\ RoundedSps(c) \in Nat \ {0}
         /\ RoundedSps(c) = IF Round(Samples(c), c.modulation.chipRate) < 1 THEN 1
                            ELSE Round(Samples(c), c.modulation.chipRate)
<1>1. c.rf.sampleRate \in Nat \ {0} /\ BitsPerSymbol[c.modulation.type] \in Nat \ {0}
  BY BitsType DEF Configurations, ModulationSection, RfSection
<1>2. Samples(c) \in Nat \ {0} /\ c.modulation.chipRate \in Nat \ {0}
  BY <1>1, ProductPositive DEF Samples, Configurations, ModulationSection
<1>3. RoundedSps(c) = IF Round(Samples(c), c.modulation.chipRate) < 1 THEN 1
                      ELSE Round(Samples(c), c.modulation.chipRate)
  BY DEF RoundedSps, Samples
<1>4. Round(Samples(c), c.modulation.chipRate) \in Nat
  BY <1>2, RoundType
<1> QED BY <1>2, <1>3, <1>4

\* Close enough to an integer not to be snapped
NearInteger(c) ==
    ~ (50 * Magnitude(Samples(c) - RoundedSps(c) * c.modulation.chipRate)
          > c.modulation.chipRate)

\* What validation leaves a chip rate as: close, or snapped
LEMMA ValidatedRate ==
  ASSUME NEW c \in Configurations, FineRates(Validated(c))
  PROVE  LET d == Validated(c)
         IN  \/ NearInteger(d)
             \/ /\ d.modulation.chipRate = Samples(d) \div RoundedSps(d)
                /\ 2 * RoundedSps(d) <= Samples(d) \div RoundedSps(d)
<1> DEFINE R == [c EXCEPT !.rf.sampleRate = RaisedRate(c)]
           d == Validated(c)
           a == Samples(R)
           s == RoundedSps(R)
<1>1. R \in Configurations
  BY RaisedRateType DEF Configurations, RfSection
<1>2. d \in Configurations
  BY ValidatedType
<1>3. /\ d.rf.sampleRate = R.rf.sampleRate /\ d.modulation.type = R.modulation.type
      /\ d.modulation.chipRate = SnappedChipRate(R)
  <2> HIDE DEF R
  <2>1. /\ Derived(c).rf.sampleRate = R.rf.sampleRate
        /\ Derived(c).modulation.type = R.modulation.type
        /\ Derived(c).modulation.chipRate = SnappedChipRate(R)
    <3>1. Derived(c) = [R EXCEPT !.modulation.chipRate = SnappedChipRate(R),
                                 !.rf.bandwidth = R.rf.sampleRate]
      BY DEF Derived, R
    <3> QED BY <1>1, <3>1 DEF Configurations, RfSection, ModulationSection
  <2>2. d.rf = Derived(c).rf /\ d.modulation = Derived(c).modulation
    <3>1. Derived(c) \in Configurations
      BY DerivedType
    <3> QED BY <3>1 DEF Validated, Configurations
  <2> HIDE DEF d
  <2> QED BY <2>1, <2>2
<1>4. Samples(d) = a
  BY <1>3 DEF Samples
<1>5. a \in Nat \ {0} /\ s \in Nat \ {0} /\ R.modulation.chipRate \in Nat \ {0}
  BY <1>1, RatesType
<1> HIDE DEF R, d
<1>6. CASE NearInteger(R)
  <2>1. d.modulation.chipRate = R.modulation.chipRate
    BY <1>3, <1>6 DEF SnappedChipRate, NearInteger, Samples
  <2>2. RoundedSps(d) = s
    BY <1>3, <2>1 DEF RoundedSps
  <2>3. NearInteger(d)
    BY <1>4, <1>6, <2>1, <2>2 DEF NearInteger
  <2> QED BY <2>3 DEF d
<1>7. CASE ~NearInteger(R)
  <2>1. d.modulation.chipRate = a \div s
    BY <1>3, <1>7 DEF SnappedChipRate, NearInteger, Samples
  <2> DEFINE b == a \div s
             t == RoundedSps(d)
  <2>2. b \in Nat \ {0} /\ t \in Nat \ {0} /\ t >= Round(a, b)
    <3>1. d.modulation.chipRate \in Nat \ {0}
      BY <1>2, RatesType
    <3>2. t = IF Round(a, b) < 1 THEN 1 ELSE Round(a, b)
      BY <1>2, <1>4, <2>1, RatesType
    <3>3. Round(a, b) \in Nat
      BY <1>5, <2>1, <3>1, RoundType
    <3> QED BY <2>1, <3>1, <3>2, <3>3
  <2>3. 2 * t <= b
    BY <2>1 DEF FineRates, d
  <2>4. s <= Round(a, b)
    <3>1. a = s * b + (a % s) /\ a % s \in Nat
      <4>1. a % s \in 0 .. s - 1 /\ a = s * (a \div s) + (a % s)
        BY <1>5, Quotient
      <4> HIDE DEF a, s
      <4> QED BY <1>5, <4>1
    <3>2. a = b * (a \div b) + (a % b) /\ a \div b \in Nat /\ a % b \in 0 .. b - 1
      BY <1>5, <2>2, Quotient
    <3>3. ~ (a \div b < s)
      <4>1. SUFFICES ASSUME a \div b < s PROVE FALSE
        OBVIOUS
      <4>2. (a \div b) * b + b <= s * b
        BY <1>5, <2>2, <3>2, <4>1, Multiples
      <4> DEFINE x == a \div b
                 y == a % b
                 z == a % s
      <4>3. x * b = b * x /\ b * x \in Nat /\ s * b \in Nat
        BY <1>5, <2>2, <3>2
      <4> HIDE DEF x, y, z, b
      <4> QED BY <1>5, <2>2, <3>1, <3>2, <4>2, <4>3 DEF x, y, z
    <3>4. Round(a, b) \in {a \div b, a \div b + 1}
      BY DEF Round
    <3> HIDE DEF b
    <3> QED BY <1>5, <3>2, <3>3, <3>4
  <2>5. 2 * s <= b
    <3>1. Round(a, b) \in Nat
      BY <1>5, <2>2, RoundType
    <3> HIDE DEF b, t
    <3> QED BY <1>5, <2>2, <2>3, <2>4, <3>1
  <2>6. Round(a, b) = s
    BY <1>5, <2>5, QuotientTwice
  <2>7. t = s
    <3>1. t = IF Round(a, b) < 1 THEN 1 ELSE Round(a, b)
      BY <1>2, <1>4, <2>1, RatesType
    <3> HIDE DEF b, t
    <3> QED BY <1>5, <2>6, <3>1
  <2> QED BY <1>4, <2>1, <2>5, <2>7 DEF d
<1> QED BY <1>6, <1>7

\* Validating changes no rate of what has been validated and fits.
LEMMA ValidatedTwice ==
  ASSUME NEW c \in Configurations, FineRates(Validated(c)), Fits(Validated(c))
  PROVE  Validated(Validated(c)) = Validated(c)
<1> DEFINE D == Derived(c)
           d == Validated(c)
<1>1. d \in Configurations /\ D \in Configurations
  BY ValidatedType, DerivedType
<1>2. /\ d = [D EXCEPT !.timing.burst = [chips |-> BurstChips(D),
                                         rate  |-> D.modulation.chipRate]]
      /\ D.rf.bandwidth = D.rf.sampleRate
  <2>1. D.rf.bandwidth = D.rf.sampleRate
    <3> DEFINE R == [c EXCEPT !.rf.sampleRate = RaisedRate(c)]
    <3>1. R \in Configurations
      BY RaisedRateType DEF Configurations, RfSection
    <3>2. D = [R EXCEPT !.modulation.chipRate = SnappedChipRate(R),
                        !.rf.bandwidth = R.rf.sampleRate]
      BY DEF Derived
    <3> HIDE DEF R, D
    <3> QED BY <3>1, <3>2 DEF Configurations, RfSection
  <2> QED BY <2>1 DEF Validated
<1> HIDE DEF D, d
<1>3. /\ d.rf = D.rf /\ d.modulation = D.modulation /\ d.frame = D.frame
      /\ d.timing.burst = [chips |-> BurstChips(D), rate |-> D.modulation.chipRate]
  BY <1>1, <1>2 DEF Configurations, TimingSection
<1>4. RaisedRate(d) = d.rf.sampleRate
  <2>1. Fits(d)
    BY DEF d
  <2>2. NeededRate(d) \in Int \/ d.hopping.offsets = {} \/ ~d.hopping.enabled
    <3>1. SUFFICES ASSUME d.hopping.offsets # {} PROVE NeededRate(d) \in Int
      OBVIOUS
    <3>2. Max(d.hopping.offsets) \in Nat
      BY <1>1, <3>1 DEF Configurations, HoppingSection, Offsets
    <3>3. SymbolRate(d) \in Nat
      <4>1. d.modulation.chipRate \in Nat /\ BitsPerSymbol[d.modulation.type] \in Nat \ {0}
        BY <1>1, BitsType DEF Configurations, ModulationSection
      <4> QED BY <4>1, QuotientNat DEF SymbolRate
    <3> DEFINE widened == SymbolRate(d) * (100 + Rolloff)
    <3>4. widened \in Nat
      <4>1. 100 + Rolloff \in Nat
        BY RolloffAssumption
      <4> QED BY <3>3, <4>1, ProductNat
    <3> HIDE DEF widened
    <3>5. widened \div 100 \in Nat
      BY <3>4, QuotientNat
    <3> QED BY <3>2, <3>5 DEF NeededRate, widened
  <2>3. d.rf.sampleRate \in Nat
    BY <1>1 DEF Configurations, RfSection
  <2> QED BY <2>1, <2>2, <2>3 DEF Fits, RaisedRate
<1>5. SnappedChipRate(d) = d.modulation.chipRate
  <2>1. \/ NearInteger(d)
        \/ d.modulation.chipRate = Samples(d) \div RoundedSps(d)
    BY ValidatedRate DEF d
  <2> QED BY <2>1 DEF SnappedChipRate, NearInteger, Samples
<1>6. Derived(d) = d
  <2>1. [d EXCEPT !.rf.sampleRate = RaisedRate(d)] = d
    BY <1>1, <1>4 DEF Configurations, RfSection
  <2>2. [d EXCEPT !.modulation.chipRate = d.modulation.chipRate] = d
    BY <1>1 DEF Configurations, ModulationSection
  <2>3. [d EXCEPT !.rf.bandwidth = d.rf.sampleRate] = d
    BY <1>1, <1>2, <1>3 DEF Configurations, RfSection
  <2>4. Derived(d) = [[d EXCEPT !.modulation.chipRate = SnappedChipRate(d)]
                         EXCEPT !.rf.bandwidth = d.rf.sampleRate]
    BY <2>1 DEF Derived
  <2> QED BY <1>5, <2>2, <2>3, <2>4
<1>7. BurstChips(d) = BurstChips(D)
  BY <1>3 DEF BurstChips, PayloadLength
<1>8. [d EXCEPT !.timing.burst = d.timing.burst] = d
  BY <1>1 DEF Configurations, TimingSection
<1>9. Validated(d) = [d EXCEPT !.timing.burst = [chips |-> BurstChips(d),
                                                 rate  |-> d.modulation.chipRate]]
  BY <1>6 DEF Validated
<1> QED BY <1>3, <1>7, <1>8, <1>9 DEF d

LEMMA ValidatedSps ==
  ASSUME NEW c \in Configurations, config = Validated(c), FineRates(config)
  PROVE  InterpolationIsSps
<1> DEFINE a == Samples(config)
           s == RoundedSps(config)
           b == config.modulation.chipRate
<1>1. config \in Configurations
  BY ValidatedType
<1>2. a \in Nat \ {0} /\ s \in Nat \ {0} /\ b \in Nat \ {0}
  BY <1>1, RatesType
<1>3. Interpolation(config) = a \div b
  BY DEF Interpolation, Samples
<1>4. NearInteger(config) \/ (b = a \div s /\ 2 * s <= a \div s)
  BY ValidatedRate
<1>5. CASE NearInteger(config)
  <2>1. ~ (50 * Magnitude(a - s * b) > b)
    BY <1>5 DEF NearInteger
  <2> SUFFICES (a \div b = s) \/ (s * b - a > 0 /\ 50 * (s * b - a) <= b)
    BY <1>3 DEF InterpolationIsSps, Samples
  <2> HIDE DEF a, b, s
  <2> DEFINE p == s * b
  <2>2. p \in Nat /\ p = b * s
    BY <1>2
  <2>3. CASE a < p
    <3> HIDE DEF p
    <3> QED BY <1>2, <2>1, <2>2, <2>3 DEF Magnitude, p
  <2>4. CASE a >= p
    <3> HIDE DEF p
    <3>1. a - p \in 0 .. b - 1
      BY <1>2, <2>1, <2>2, <2>4 DEF Magnitude, p
    <3>2. a = s * b + (a - p)
      BY <1>2, <2>2 DEF p
    <3>3. (s * b + (a - p)) \div b = s
      <4>1. s \in Int /\ b \in Nat \ {0}
        BY <1>2
      <4> DEFINE r == a - p
      <4> HIDE DEF r
      <4>2. (s * b + r) \div b = s
        BY <3>1, <4>1, DivisionUnique DEF r
      <4> QED BY <4>2 DEF r
    <3> QED BY <3>2, <3>3
  <2> QED BY <1>2, <2>2, <2>3, <2>4
<1>6. CASE b = a \div s /\ 2 * s <= a \div s
  <2>1. a \div b = s
    <3> HIDE DEF a, b, s
    <3>1. a \div (a \div s) = s
      BY <1>2, <1>6, QuotientTwice
    <3> QED BY <1>6, <3>1
  <2> QED BY <1>3, <2>1 DEF InterpolationIsSps
<1> QED BY <1>4, <1>5, <1>6

\* The configuration in use has been validated.
ConfigValidated == \E c \in Configurations : config = Validated(c)

LEMMA NextValidated == TypeOK /\ ConfigValidated /\ [Next]_vars => ConfigValidated'
<1> SUFFICES ASSUME TypeOK, ConfigValidated, [Next]_vars PROVE ConfigValidated'
  OBVIOUS
<1>1. CASE config' = config
  BY <1>1 DEF ConfigValidated
<1>2. ASSUME NEW c \in Configurations, config' = Validated(c) PROVE ConfigValidated'
  BY <1>2 DEF ConfigValidated
<1>3. ASSUME NEW f \in Files, Load(f) PROVE ConfigValidated'
  <2>1. files[f] \in Configurations
    BY DEF TypeOK
  <2> QED BY <1>1, <1>2, <1>3, <2>1 DEF Load
<1>4. CASE Panels
  <2>1. CASE LiveAnomaly
    <3>1. PICK level \in AnomalyLevels : config' = Validated([config EXCEPT !.anomaly.level = level])
      BY <2>1 DEF LiveAnomaly
    <3>2. [config EXCEPT !.anomaly.level = level] \in Configurations
      BY ControlAssumption DEF TypeOK, Configurations, AnomalySection
    <3> QED BY <1>2, <3>1, <3>2
  <2> QED BY <1>2, <1>4, <2>1, PanelChange DEF OnConfigChanged
<1>5. CASE PanelRecord \/ ToolbarRecord
  BY <1>1, <1>5 DEF PanelRecord, ToolbarRecord, StartRecording, StopRecording, configuration
<1>6. CASE Start \/ Stop \/ Restart \/ Close \/ UNCHANGED vars
  <2>1. config' = config
    BY <1>6 DEF Start, Stop, Restart, Close, vars, configuration
  <2> QED BY <1>1, <2>1
<1>7. ASSUME NEW f \in Files, Save(f) PROVE ConfigValidated'
  BY <1>1, <1>7 DEF Save
<1>8. CASE \E f \in Files : Save(f) \/ Load(f)
  BY <1>3, <1>7, <1>8
<1> QED BY <1>4, <1>5, <1>6, <1>8 DEF Next

LEMMA AlwaysValidated == Spec => []ConfigValidated
<1>1. Init => ConfigValidated
  BY ControlAssumption DEF Init, ConfigValidated
<1> QED BY <1>1, TypeCorrect, NextValidated, PTL DEF Spec

(***************************************************************************)
(* A configuration the program holds does not change by being validated    *)
(* once more (_derive_frame_params), wherever kHz are fine enough for its  *)
(* rates: for every configuration, not only those TLC tries.               *)
(***************************************************************************)
THEOREM DerivationIsStable == Spec => [](FineRates(config) => DerivationSettles)
<1>1. ConfigValidated => (FineRates(config) => DerivationSettles)
  BY ValidatedTwice DEF ConfigValidated, DerivationSettles
<1> QED BY <1>1, AlwaysValidated, PTL

(***************************************************************************)
(* The transmitter interpolates by the samples per symbol the derivation   *)
(* snapped to, or by one less within its tolerance, wherever kHz are fine  *)
(* enough for the rates.                                                   *)
(***************************************************************************)
THEOREM InterpolationIsMeant == Spec => [](FineRates(config) => InterpolationIsSps)
<1>1. ConfigValidated => (FineRates(config) => InterpolationIsSps)
  BY ValidatedSps DEF ConfigValidated
<1> QED BY <1>1, AlwaysValidated, PTL

-----------------------------------------------------------------------------
(* The length of a frame, computed in three places *)

LEMMA WholeBytes == ASSUME NEW n \in Int PROVE BytesFor(n * ByteBits) = n
<1>1. ByteBits \in Nat \ {0} /\ ByteBits - 1 \in 0 .. ByteBits - 1
  BY ByteAssumption
<1>2. (n * ByteBits + (ByteBits - 1)) \div ByteBits = n
  BY <1>1, DivisionUnique
<1>3. n * ByteBits + ByteBits - 1 = n * ByteBits + (ByteBits - 1)
  BY <1>1, ProductInt
<1> QED BY <1>2, <1>3 DEF BytesFor

LEMMA FrameLengths ==
  ASSUME NEW c \in Configurations
  PROVE  /\ InfoBits(FrameOf(c)) = c.frame.invariantBits + PayloadLength(c)
         /\ TxTotalChips(FrameOf(c)) = BurstChips(c)
<1> DEFINE f == FrameOf(c)
<1>1. /\ c.frame.preambleBits \in Nat /\ c.frame.invariantBits \in Nat
      /\ c.modulation.codeLength \in Nat
  BY DEF Configurations, FrameSection, ModulationSection
<1>2. /\ f.preamble = [i \in 1 .. c.frame.preambleBits |-> 0]
      /\ f.invariant = [i \in 1 .. c.frame.invariantBits |-> 0]
      /\ f.code = [i \in 1 .. c.modulation.codeLength |-> 0]
      /\ f.payloadBits = PayloadLength(c)
      /\ f.fec = Codec(c.frame.fec)
      /\ f.fec.enabled = c.frame.fec.enabled
  BY DEF FrameOf, Codec
<1> HIDE DEF f
<1>3. /\ Len(f.preamble) = c.frame.preambleBits
      /\ Len(f.invariant) = c.frame.invariantBits
      /\ Len(f.code) = c.modulation.codeLength
  BY <1>1, <1>2
<1>4. InfoBits(f) = c.frame.invariantBits + PayloadLength(c)
  BY <1>2, <1>3 DEF InfoBits
<1>5. TxTotalChips(f) = BurstChips(c)
  BY <1>2, <1>3, <1>4 DEF TxTotalChips, BurstChips
<1> QED BY <1>4, <1>5 DEF f

LEMMA DisplayedLength ==
  ASSUME NEW c \in Configurations, c.frame.fec.enabled => c.frame.fec.primary = "cc"
  PROVE  DisplayedChips(c) = BurstChips(c)
<1> DEFINE fec   == c.frame.fec
           info  == c.frame.invariantBits + PayloadLength(c)
           code  == Codec(fec)
<1>1. info \in Int
  BY DEF PayloadLength, Configurations, FrameSection
<1>2. CASE ~ fec.enabled
  BY <1>2 DEF DisplayedChips, BurstChips
<1>3. CASE fec.enabled
  <2>1. fec.primary = "cc"
    BY <1>3
  <2>2. /\ code.cc /\ code.K = fec.K /\ code.rate = fec.rate /\ code.nsym = fec.nsym
        /\ (code.rs <=> fec.outer = "rs")
    BY <1>3, <2>1 DEF Codec
  <2>3. BytesFor(info) \in Int
    BY <1>1, BytesType
  <2>4. BytesFor(BytesFor(info) * ByteBits) = BytesFor(info)
    BY <2>3, WholeBytes
  <2> DEFINE bytes == BytesFor(info) + (IF fec.outer = "rs" THEN fec.nsym ELSE 0)
  <2>5. CodedLength(code, BytesFor(info) * ByteBits) = (bytes * ByteBits + fec.K - 1) * fec.rate
    <3>1. CASE fec.outer = "rs"
      BY <2>2, <2>4, <3>1 DEF CodedLength
    <3>2. CASE fec.outer # "rs"
      <4>1. bytes = BytesFor(info)
        BY <2>3, <3>2
      <4> QED BY <2>2, <3>2, <4>1 DEF CodedLength
    <3> QED BY <3>1, <3>2
  <2> QED BY <1>3, <2>1, <2>5 DEF DisplayedChips, BurstChips
<1> QED BY <1>2, <1>3

(***************************************************************************)
(* However the configuration came to be what it is, the burst duration     *)
(* derived with it and the chips displayed for it are what the transmitter *)
(* sends, in chips and at any rates.                                       *)
(***************************************************************************)
THEOREM DisplayIsRight == Spec => []DisplayedIsSent
<1>1. TypeOK /\ ConfigValidated => DisplayedIsSent
  <2> SUFFICES ASSUME TypeOK, ConfigValidated PROVE DisplayedIsSent
    OBVIOUS
  <2>1. PICK c \in Configurations : config = Validated(c)
    BY DEF ConfigValidated
  <2> DEFINE d == Derived(c)
  <2>2. d \in Configurations
    BY DerivedType
  <2>3. config = [d EXCEPT !.timing.burst = [chips |-> BurstChips(d),
                                             rate  |-> d.modulation.chipRate]]
    BY <2>1 DEF Validated
  <2> HIDE DEF d
  <2>4. /\ config.timing.burst = [chips |-> BurstChips(d), rate |-> d.modulation.chipRate]
        /\ config.modulation = d.modulation /\ config.frame = d.frame
    BY <2>2, <2>3 DEF Configurations, TimingSection
  <2>5. BurstChips(config) = BurstChips(d)
    BY <2>4 DEF BurstChips, PayloadLength
  <2>6. config \in Configurations
    BY DEF TypeOK
  <2>7. TxTotalChips(FrameOf(config)) = BurstChips(config)
    BY <2>6, FrameLengths
  <2>8. (config.frame.fec.enabled => config.frame.fec.primary = "cc") =>
            DisplayedChips(config) = BurstChips(config)
    BY <2>6, DisplayedLength
  <2> QED BY <2>4, <2>5, <2>7, <2>8 DEF DisplayedIsSent
<1> QED BY <1>1, TypeCorrect, AlwaysValidated, PTL

-----------------------------------------------------------------------------
(* Sessions and the configuration *)

SameLink(c, d) ==
    /\ c.rf = d.rf /\ c.modulation = d.modulation
    /\ c.frame = d.frame /\ c.hopping = d.hopping

LEMMA RestartSections ==
  ASSUME NEW c \in Configurations, NEW d \in Configurations
  PROVE  (\A s \in RestartRequired : c[s] = d[s]) <=> SameLink(c, d)
  BY DEF RestartRequired, SameLink, Configurations

\* Validation derives what needs a restart from what needs a restart.
LEMMA ValidatedSameLink ==
  ASSUME NEW c \in Configurations, NEW d \in Configurations, SameLink(c, d)
  PROVE  SameLink(Validated(c), Validated(d))
<1> DEFINE R(e) == [e EXCEPT !.rf.sampleRate = RaisedRate(e)]
<1>1. RaisedRate(c) = RaisedRate(d)
  BY DEF SameLink, RaisedRate, NeededRate, SymbolRate
<1>2. R(c) \in Configurations /\ R(d) \in Configurations
  BY RaisedRateType DEF Configurations, RfSection
<1>3. SameLink(R(c), R(d))
  BY <1>1 DEF SameLink, Configurations
<1> HIDE DEF R
<1>4. SnappedChipRate(R(c)) = SnappedChipRate(R(d))
  BY <1>3 DEF SameLink, SnappedChipRate, RoundedSps
<1>5. ASSUME NEW e \in Configurations, R(e) \in Configurations
      PROVE  /\ Validated(e).rf = [R(e).rf EXCEPT !.bandwidth = R(e).rf.sampleRate]
             /\ Validated(e).modulation =
                   [R(e).modulation EXCEPT !.chipRate = SnappedChipRate(R(e))]
             /\ Validated(e).frame = R(e).frame /\ Validated(e).hopping = R(e).hopping
  <2>1. Derived(e) = [R(e) EXCEPT !.modulation.chipRate = SnappedChipRate(R(e)),
                                  !.rf.bandwidth = R(e).rf.sampleRate]
    BY DEF Derived, R
  <2>2. /\ Derived(e).rf = [R(e).rf EXCEPT !.bandwidth = R(e).rf.sampleRate]
        /\ Derived(e).modulation =
              [R(e).modulation EXCEPT !.chipRate = SnappedChipRate(R(e))]
        /\ Derived(e).frame = R(e).frame /\ Derived(e).hopping = R(e).hopping
    BY <1>5, <2>1 DEF Configurations
  <2>3. SameLink(Validated(e), Derived(e))
    <3>1. Derived(e) \in Configurations
      BY DerivedType
    <3> QED BY <3>1 DEF Validated, Configurations, SameLink
  <2> QED BY <2>2, <2>3 DEF SameLink
<1>6. /\ Validated(c).rf = Validated(d).rf
      /\ Validated(c).modulation = Validated(d).modulation
  <2>1. R(c).rf = R(d).rf /\ R(c).modulation = R(d).modulation
    BY <1>3 DEF SameLink
  <2>2. /\ Validated(c).rf = [R(c).rf EXCEPT !.bandwidth = R(c).rf.sampleRate]
        /\ Validated(d).rf = [R(d).rf EXCEPT !.bandwidth = R(d).rf.sampleRate]
        /\ Validated(c).modulation = [R(c).modulation EXCEPT !.chipRate = SnappedChipRate(R(c))]
        /\ Validated(d).modulation = [R(d).modulation EXCEPT !.chipRate = SnappedChipRate(R(d))]
    BY <1>2, <1>5
  <2> QED BY <1>4, <2>1, <2>2
<1>7. /\ Validated(c).frame = Validated(d).frame
      /\ Validated(c).hopping = Validated(d).hopping
  BY <1>2, <1>3, <1>5 DEF SameLink
<1> QED BY <1>6, <1>7 DEF SameLink

LEMMA FitsSameLink ==
  ASSUME NEW c, NEW d, SameLink(c, d)
  PROVE  Fits(c) = Fits(d)
  BY DEF SameLink, Fits, NeededRate, SymbolRate

\* As SessionIsCurrent
Current == Live /\ ~pending /\ Fits(session.built) => SameLink(session.built, config)

LEMMA CurrentIsCurrent == Current <=> SessionIsCurrent
  BY DEF Current, SessionIsCurrent, SameLink

LEMMA RebuildCurrent == ASSUME NEW c, Rebuild(c), config' = c PROVE Current'
<1>1. CASE Buildable(c)
  BY <1>1 DEF Rebuild, NewSession, Current, SameLink
<1>2. CASE ~Buildable(c)
  BY <1>2 DEF Rebuild, NoSession, Current, Live
<1> QED BY <1>1, <1>2

\* Validating a configuration with other settings in the sections that need
\* no restart leaves the others as they are.
LEMMA LiveChangeCurrent ==
  ASSUME TypeOK, Current, FineRates(config) => DerivationSettles, FineRates(config),
         NEW updated \in Configurations, SameLink(updated, config),
         config' = Validated(updated), session' = Notified(config'),
         pending' = pending
  PROVE  Current'
<1>1. Validated(updated) \in Configurations
  BY ValidatedType
<1>2. /\ Live' = Live
      /\ Live => session' = [session EXCEPT !.gain = Validated(updated).rf.gain]
  BY <1>1, NotifiedType DEF Live
<1> SUFFICES ASSUME Live, ~pending, Fits(session.built)
             PROVE  SameLink(session'.built, config')
  <2>1. Live => session'.built = session.built
    BY <1>2 DEF TypeOK, NoSession, Sessions, Live
  <2> QED BY <1>2, <2>1 DEF Current
<1>3. session'.built = session.built
  BY <1>2 DEF TypeOK, NoSession, Sessions, Live
<1>4. SameLink(session.built, config)
  BY DEF Current
<1>5. Validated(config) = config
  BY <1>4, FitsSameLink DEF DerivationSettles
<1>6. SameLink(Validated(updated), Validated(config))
  BY ValidatedSameLink DEF TypeOK
<1> QED BY <1>3, <1>4, <1>5, <1>6 DEF SameLink

\* Recording leaves configuration and session as they are, taps aside.
LEMMA RecordingSession ==
  ASSUME TypeOK, StartRecording \/ StopRecording
  PROVE  /\ Live' = Live /\ config' = config /\ pending' = pending
         /\ Live => session'.built = session.built
<1>1. config' = config /\ pending' = pending
  BY DEF StartRecording, StopRecording, configuration
<1>2. CASE ~Live
  BY <1>1, <1>2 DEF StartRecording, StopRecording, Untapped, Live
<1>3. CASE Live
  <2>1. session \in Sessions
    BY <1>3 DEF TypeOK, Live, NoSession
  <2>2. CASE StartRecording
    BY <1>1, <1>3, <2>1, <2>2 DEF StartRecording, Sessions, Live
  <2>3. CASE StopRecording
    BY <1>1, <1>3, <2>1, <2>3 DEF StopRecording, Untapped, Sessions, Live
  <2> QED BY <2>2, <2>3
<1> QED BY <1>2, <1>3

LEMMA NextCurrent ==
  ASSUME TypeOK, Current, FineRates(config) => DerivationSettles, FineRates(config),
         [Next]_vars
  PROVE  Current'
<1>1. CASE Start
  <2>1. CASE StartSucceeds
    BY <1>1, <2>1 DEF Start, StartSucceeds, NewSession, Current, SameLink, configuration
  <2>2. CASE StartRaises
    <3>1. /\ Live' = Live
          /\ Live => session'.built = session.built
      <4>1. CASE Live
        BY <2>2, <4>1 DEF StartRaises, TypeOK, Sessions, NoSession, Live
      <4>2. CASE ~Live
        BY <2>2, <4>2 DEF StartRaises, Live
      <4> QED BY <4>1, <4>2
    <3>2. config' = config /\ pending' = pending
      BY <1>1, <2>2 DEF Start, StartRaises, configuration
    <3> QED BY <3>1, <3>2 DEF Current
  <2> QED BY <1>1, <2>1, <2>2 DEF Start
<1>2. CASE Stop \/ Close
  <2>1. ~Live'
    BY <1>2 DEF Stop, Close, NoSession, Live
  <2> QED BY <2>1 DEF Current
<1>3. CASE Restart
  <2>1. Rebuild(config) /\ config' = config
    BY <1>3 DEF Restart, configuration
  <2> QED BY <2>1, RebuildCurrent
<1>4. ASSUME NEW f \in Files, Save(f) PROVE Current'
  <2>1. config' = config /\ session' = session /\ pending' = pending
    BY <1>4 DEF Save, flowgraphs
  <2> QED BY <2>1 DEF Current, Live
<1>5. ASSUME NEW f \in Files, Load(f) PROVE Current'
  <2>1. CASE f \in BadFiles
    <3>1. config' = config /\ session' = session /\ pending' = pending
      BY <1>5, <2>1 DEF Load
    <3> QED BY <3>1 DEF Current, Live
  <2>2. CASE f \notin BadFiles
    <3>1. /\ config' = Validated(files[f]) /\ session' = Notified(config')
          /\ pending' = Live
      BY <1>5, <2>2 DEF Load
    <3>2. Validated(files[f]) \in Configurations
      BY ValidatedType DEF TypeOK
    <3>3. Live' = Live
      BY <3>1, <3>2, NotifiedType DEF Live
    <3> QED BY <3>1, <3>3 DEF Current
  <2> QED BY <2>1, <2>2
<1>6. CASE Panels
  <2>1. CASE LiveAnomaly
    <3>1. PICK level \in AnomalyLevels :
            /\ config' = Validated([config EXCEPT !.anomaly.level = level])
            /\ session' = Notified(config') /\ pending' = pending
      BY <2>1 DEF LiveAnomaly
    <3>2. /\ [config EXCEPT !.anomaly.level = level] \in Configurations
          /\ SameLink([config EXCEPT !.anomaly.level = level], config)
      BY ControlAssumption DEF TypeOK, Configurations, AnomalySection, SameLink
    <3> QED BY <3>1, <3>2, LiveChangeCurrent
  <2>2. ASSUME NEW section, NEW updated \in Configurations,
               OnConfigChanged(section, updated),
               section \in RestartRequired \/
                 \A s \in RestartRequired : updated[s] = config[s]
        PROVE  Current'
    <3>1. CASE section \in RestartRequired /\ running
      <4>1. config' = Validated(updated) /\ Rebuild(config')
        BY <2>2, <3>1 DEF OnConfigChanged
      <4>2. Rebuild(Validated(updated))
        BY <4>1
      <4> QED BY <4>1, <4>2, RebuildCurrent
    <3>2. CASE ~ (section \in RestartRequired /\ running)
      <4>1. /\ config' = Validated(updated) /\ session' = Notified(config')
            /\ pending' = (pending \/ (section \in RestartRequired /\ Live))
        BY <2>2, <3>2 DEF OnConfigChanged
      <4>2. Live' = Live
        <5>1. Validated(updated) \in Configurations
          BY ValidatedType
        <5> QED BY <4>1, <5>1, NotifiedType DEF Live
      <4>3. CASE section \in RestartRequired
        BY <4>1, <4>2, <4>3 DEF Current
      <4>4. CASE section \notin RestartRequired
        <5>1. SameLink(updated, config)
          BY <2>2, <4>4, RestartSections DEF TypeOK
        <5>2. pending' = pending
          BY <4>1, <4>4 DEF TypeOK
        <5> QED BY <4>1, <5>1, <5>2, LiveChangeCurrent
      <4> QED BY <4>3, <4>4
    <3> QED BY <3>1, <3>2
  <2> QED BY <1>6, <2>1, <2>2, PanelChange
<1>7. CASE PanelRecord \/ ToolbarRecord
  BY <1>7, RecordingSession DEF PanelRecord, ToolbarRecord, Current
<1>8. CASE UNCHANGED vars
  BY <1>8 DEF vars, configuration, flowgraphs, Current, Live
<1>9. CASE \E f \in Files : Save(f) \/ Load(f)
  BY <1>4, <1>5, <1>9
<1> QED BY <1>1, <1>2, <1>3, <1>6, <1>7, <1>8, <1>9 DEF Next

(***************************************************************************)
(* The live session runs what the configuration says, unless a restart has *)
(* been asked for (_RESTART_REQUIRED_TOP_KEYS and MainWindow's routing):   *)
(* for all settings and changes whose rates kHz are fine enough for.       *)
(***************************************************************************)
THEOREM SessionStaysCurrent == Spec /\ []FineRates(config) => []SessionIsCurrent
<1> DEFINE Fine == FineRates(config)
<1>1. Init => Current
  BY DEF Init, Current, Live, NoSession
<1>2. TypeOK /\ (Fine => DerivationSettles) /\ Fine /\ Current /\ [Next]_vars => Current'
  BY NextCurrent
<1>3. Current => SessionIsCurrent
  BY CurrentIsCurrent
<1>4. Spec => [](Fine => DerivationSettles)
  BY DerivationIsStable
<1> HIDE DEF Fine
<1>5. Spec /\ []Fine => []SessionIsCurrent
  BY <1>1, <1>2, <1>3, <1>4, TypeCorrect, PTL DEF Spec
<1> QED BY <1>5 DEF Fine

-----------------------------------------------------------------------------
(* Recordings *)

\* A session nobody has tapped yet, or none at all
LEMMA UntappedTrue ==
  ASSUME TypeOK', Live' => session'.txTap = 0 /\ session'.rxTap = 0
  PROVE  RecordingsAreTrue'
<1>1. ASSUME recorder' # NoRecorder PROVE recorder'.id # 0
  BY <1>1 DEF TypeOK, Recorders
<1> QED BY <1>1 DEF RecordingsAreTrue, NoTap

\* The taps, the flowgraphs behind them and the recorder stay, and whoever
\* was waiting for a restart still is.
LEMMA SameTaps ==
  ASSUME TypeOK, RecordingsAreTrue, ~ended, Live' = Live, recorder' = recorder,
         pending => pending',
         Live => /\ session'.txTap = session.txTap /\ session'.rxTap = session.rxTap
                 /\ session'.built = session.built
  PROVE  RecordingsAreTrue'
<1>1. SUFFICES ASSUME Live, ~ended' PROVE RecordingsAreTrue'
  BY DEF RecordingsAreTrue
<1>2. Fits(session.built)' = Fits(session.built)
  BY <1>1
<1> QED BY <1>1, <1>2 DEF RecordingsAreTrue

LEMMA StopRecordingTrue ==
  ASSUME TypeOK, TypeOK', RecordingsAreTrue, ~ended, StopRecording
  PROVE  RecordingsAreTrue'
<1>1. CASE recorder = NoRecorder
  <2>1. UNCHANGED <<session, recorder, pending>>
    BY <1>1 DEF StopRecording
  <2> QED BY <2>1, SameTaps DEF Live
<1>2. CASE recorder # NoRecorder
  <2>1. session' = Untapped
    BY <1>2 DEF StopRecording
  <2>2. Live' => session'.txTap = 0 /\ session'.rxTap = 0
    <3>1. CASE Live
      <4>1. session \in Sessions
        BY <3>1 DEF TypeOK, Live, NoSession
      <4>2. session' = [session EXCEPT !.txTap = 0, !.rxTap = 0]
        BY <2>1, <3>1 DEF Untapped, NoTap
      <4> QED BY <4>1, <4>2 DEF Sessions
    <3>2. CASE ~Live
      BY <2>1, <3>2 DEF Untapped, Live
    <3> QED BY <3>1, <3>2
  <2> QED BY <2>2, UntappedTrue
<1> QED BY <1>1, <1>2

LEMMA StartRecordingTrue ==
  ASSUME TypeOK, Current, RecordingsAreTrue, ~ended, StartRecording
  PROVE  RecordingsAreTrue'
<1> DEFINE r == NewRecorder
<1>1. SUFFICES ASSUME Live PROVE RecordingsAreTrue'
  BY RecordingSession DEF RecordingsAreTrue
<1>2. session \in Sessions /\ config \in Configurations
  BY <1>1 DEF TypeOK, Live, NoSession
<1>3. /\ recorder' = r /\ pending' = pending
      /\ session' = [session EXCEPT !.txTap = IF r.tx THEN r.id ELSE @,
                                    !.rxTap = IF r.rx THEN r.id ELSE @]
  BY <1>1 DEF StartRecording
<1>4. r.id = recordings + 1 /\ r.rate = config.rf.sampleRate
  BY DEF NewRecorder
<1>5. recordings \in Nat /\ session.txTap <= recordings /\ session.rxTap <= recordings
  BY <1>1, ControlAssumption DEF TypeOK
<1> HIDE DEF r
<1>6. r # NoRecorder
  BY <1>4, <1>5 DEF NoRecorder
<1>7. /\ session'.built = session.built
      /\ r.tx => session'.txTap = r.id
      /\ r.rx => session'.rxTap = r.id
  BY <1>2, <1>3 DEF Sessions
<1>8. ~pending' /\ Fits(session'.built) => r.rate = session'.built.rf.sampleRate
  BY <1>1, <1>3, <1>4, <1>7 DEF Current, SameLink
<1> QED BY <1>3, <1>6, <1>7, <1>8 DEF RecordingsAreTrue

LEMMA NextTrue ==
  ASSUME TypeOK, TypeOK', Current, RecordingsAreTrue, [Next]_vars
  PROVE  RecordingsAreTrue'
<1>1. CASE Start
  <2>1. CASE StartSucceeds
    <3>1. session'.txTap = 0 /\ session'.rxTap = 0
      BY <2>1 DEF StartSucceeds, NewSession, NoTap
    <3> QED BY <3>1, UntappedTrue
  <2>2. CASE StartRaises
    <3>1. /\ Live' = Live
          /\ Live => /\ session'.built = session.built
                     /\ session'.txTap = session.txTap /\ session'.rxTap = session.rxTap
      <4>1. CASE Live
        BY <2>2, <4>1 DEF StartRaises, TypeOK, Sessions, NoSession, Live
      <4>2. CASE ~Live
        BY <2>2, <4>2 DEF StartRaises, Live
      <4> QED BY <4>1, <4>2
    <3>2. recorder' = recorder /\ pending' = pending /\ ~ended
      BY <1>1, <2>2 DEF Start, StartRaises, recording
    <3> QED BY <3>1, <3>2, SameTaps
  <2> QED BY <1>1, <2>1, <2>2 DEF Start
<1>2. CASE Stop \/ Close
  <2>1. ~Live'
    BY <1>2 DEF Stop, Close, NoSession, Live
  <2> QED BY <2>1 DEF RecordingsAreTrue
<1>3. ASSUME NEW c, Rebuild(c) PROVE RecordingsAreTrue'
  <2>1. CASE Buildable(c)
    <3>1. session'.txTap = 0 /\ session'.rxTap = 0
      BY <1>3, <2>1 DEF Rebuild, NewSession, NoTap
    <3> QED BY <3>1, UntappedTrue
  <2>2. CASE ~Buildable(c)
    BY <1>3, <2>2 DEF Rebuild, RecordingsAreTrue
  <2> QED BY <2>1, <2>2
<1>4. ASSUME NEW c \in Configurations, session' = Notified(c), recorder' = recorder,
             ~ended, pending => pending'
      PROVE  RecordingsAreTrue'
  <2>1. /\ Live' = Live
        /\ Live => session' = [session EXCEPT !.gain = c.rf.gain] /\ session \in Sessions
    BY <1>4, NotifiedType DEF Live, TypeOK, NoSession
  <2>2. Live => /\ session'.built = session.built
               /\ session'.txTap = session.txTap /\ session'.rxTap = session.rxTap
    BY <2>1 DEF Sessions
  <2> QED BY <1>4, <2>1, <2>2, SameTaps
<1>5. CASE \E f \in Files : Save(f) \/ Load(f)
  <2>1. PICK f \in Files : Save(f) \/ Load(f)
    BY <1>5
  <2>2. CASE Save(f)
    <3>1. UNCHANGED <<session, recorder, pending, ended>>
      BY <2>2 DEF Save, flowgraphs, recording
    <3> QED BY <3>1 DEF RecordingsAreTrue, Live
  <2>3. CASE Load(f) /\ f \in BadFiles
    BY <2>3 DEF Load, RecordingsAreTrue
  <2>4. CASE Load(f) /\ f \notin BadFiles
    <3>1. /\ config' = Validated(files[f]) /\ session' = Notified(config')
          /\ pending' = Live /\ recorder' = recorder /\ ~ended
      BY <2>4 DEF Load, recording
    <3>2. Validated(files[f]) \in Configurations
      BY ValidatedType DEF TypeOK
    <3>3. CASE Live
      <4>1. pending => pending'
        BY <3>1, <3>3
      <4> QED BY <3>1, <3>2, <4>1, <1>4
    <3>4. CASE ~Live
      <4>1. ~Live'
        BY <3>1, <3>2, <3>4, NotifiedType DEF Live
      <4> QED BY <4>1 DEF RecordingsAreTrue
    <3> QED BY <3>3, <3>4
  <2> QED BY <2>1, <2>2, <2>3, <2>4
<1>6. CASE Panels
  <2>1. CASE LiveAnomaly
    <3>1. PICK level \in AnomalyLevels :
            /\ config' = Validated([config EXCEPT !.anomaly.level = level])
            /\ session' = Notified(config') /\ recorder' = recorder
            /\ pending' = pending /\ ~ended
      BY <2>1 DEF LiveAnomaly, recording
    <3>2. [config EXCEPT !.anomaly.level = level] \in Configurations
      BY ControlAssumption DEF TypeOK, Configurations, AnomalySection
    <3>3. config' \in Configurations
      BY <3>1, <3>2, ValidatedType
    <3> QED BY <3>1, <3>2, <1>4, ValidatedType
  <2>2. ASSUME NEW section, NEW updated \in Configurations, OnConfigChanged(section, updated)
        PROVE  RecordingsAreTrue'
    <3>1. CASE section \in RestartRequired /\ running
      <4>1. config' = Validated(updated) /\ Rebuild(config')
        BY <2>2, <3>1 DEF OnConfigChanged
      <4>2. Rebuild(Validated(updated))
        BY <4>1
      <4> QED BY <4>2, <1>3
    <3>2. CASE ~ (section \in RestartRequired /\ running)
      <4>1. /\ session' = Notified(Validated(updated)) /\ recorder' = recorder /\ ~ended
            /\ pending' = (pending \/ (section \in RestartRequired /\ Live))
        BY <2>2, <3>2 DEF OnConfigChanged, recording
      <4> QED BY <4>1, <1>4, ValidatedType
    <3> QED BY <3>1, <3>2
  <2> QED BY <1>6, <2>1, <2>2, PanelChange
<1>7. CASE PanelRecord \/ ToolbarRecord
  <2>1. ~ended /\ (StopRecording \/ StartRecording)
    BY <1>7 DEF PanelRecord, ToolbarRecord
  <2> QED BY <2>1, StopRecordingTrue, StartRecordingTrue
<1>8. CASE Restart
  BY <1>3, <1>8 DEF Restart
<1>9. CASE UNCHANGED vars
  BY <1>9 DEF vars, flowgraphs, recording, RecordingsAreTrue, Live
<1> QED BY <1>1, <1>2, <1>5, <1>6, <1>7, <1>8, <1>9 DEF Next

(***************************************************************************)
(* What is recorded, for any number of recordings started with either      *)
(* button (MainWindow._start_recording, _toggle_recording): no tap goes to *)
(* a recorder that has been stopped or replaced, and its metadata name the *)
(* rate of the samples.                                                    *)
(***************************************************************************)
THEOREM RecordingsStayTrue == Spec /\ []FineRates(config) => []RecordingsAreTrue
<1> DEFINE Fine == FineRates(config)
<1>1. Init => RecordingsAreTrue
  BY DEF Init, RecordingsAreTrue, Live, NoSession
<1>2. TypeOK /\ TypeOK' /\ Current /\ RecordingsAreTrue /\ [Next]_vars => RecordingsAreTrue'
  BY NextTrue
<1>3. SessionIsCurrent => Current
  BY CurrentIsCurrent
<1>4. Spec /\ []Fine => []SessionIsCurrent
  BY SessionStaysCurrent
<1> HIDE DEF Fine
<1>5. Spec /\ []Fine => []RecordingsAreTrue
  BY <1>1, <1>2, <1>3, <1>4, TypeCorrect, PTL DEF Spec
<1> QED BY <1>5 DEF Fine

-----------------------------------------------------------------------------
(* What makes a hopping signal too wide *)

LEMMA QuotientGrows ==
  ASSUME NEW a \in Nat, NEW b \in Nat, a <= b, NEW d \in Nat \ {0}
  PROVE  a \div d <= b \div d
<1> DEFINE p == a \div d
           q == b \div d
<1>1. p \in Nat /\ a % d \in Nat /\ a = d * p + (a % d)
  BY Quotient
<1>2. q \in Nat /\ b % d \in 0 .. d - 1 /\ b = d * q + (b % d)
  BY Quotient
<1>3. ASSUME q < p PROVE FALSE
  <2> HIDE DEF p, q
  <2>1. q * d + d <= p * d
    BY <1>1, <1>2, <1>3, Multiples
  <2>2. q * d = d * q /\ p * d = d * p /\ d * q \in Nat /\ d * p \in Nat
    BY <1>1, <1>2, ProductNat
  <2> QED BY <1>1, <1>2, <2>1, <2>2
<1> HIDE DEF p, q
<1>4. p <= q
  BY <1>1, <1>2, <1>3
<1> QED BY <1>4 DEF p, q

LEMMA NarrowerFits ==
  ASSUME NEW c \in Configurations, NEW d \in Configurations,
         c.hopping.offsets # {}, d.hopping = c.hopping,
         d.modulation.type = c.modulation.type,
         d.modulation.chipRate <= c.modulation.chipRate
  PROVE  NeededRate(c) \in Nat /\ NeededRate(d) \in Nat /\ NeededRate(d) <= NeededRate(c)
<1> DEFINE b == BitsPerSymbol[c.modulation.type]
           w == 100 + Rolloff
           s == SymbolRate(c)
           u == SymbolRate(d)
           m == Max(c.hopping.offsets)
<1>1. /\ b \in Nat \ {0} /\ w \in Nat \ {0} /\ m \in Nat
      /\ c.modulation.chipRate \in Nat /\ d.modulation.chipRate \in Nat
  BY BitsType, RolloffAssumption DEF Configurations, ModulationSection, HoppingSection, Offsets
<1>2. s = c.modulation.chipRate \div b /\ u = d.modulation.chipRate \div b
  BY DEF SymbolRate
<1> HIDE DEF b, w, s, u
<1>3. s \in Nat /\ u \in Nat /\ u <= s
  BY <1>1, <1>2, QuotientGrows, Quotient
<1>4. s * w \in Nat /\ u * w \in Nat /\ u * w <= s * w
  <2>1. s * w \in Nat /\ u * w \in Nat
    BY <1>1, <1>3, ProductNat
  <2>2. CASE u = s
    BY <2>1, <2>2
  <2>3. CASE u < s
    BY <1>1, <1>3, <2>1, <2>3, Multiples
  <2> QED BY <1>3, <2>1, <2>2, <2>3
<1> DEFINE x == s * w
           y == u * w
<1>5. NeededRate(c) = 2 * m + x \div 100 /\ NeededRate(d) = 2 * m + y \div 100
  BY DEF NeededRate, s, u, w
<1>6. x \in Nat /\ y \in Nat /\ y <= x
  BY <1>4
<1> HIDE DEF x, y, m
<1>7. x \div 100 \in Nat /\ y \div 100 \in Nat /\ y \div 100 <= x \div 100
  BY <1>6, QuotientGrows, Quotient
<1> QED BY <1>1, <1>5, <1>7 DEF m

(***************************************************************************)
(* config_manager.py:228 wants the sample rate to satisfy Nyquist for the  *)
(* hopping signal, and HoppingFits says that it need not.  This is the     *)
(* only way: the chip rate was snapped up after the sample rate had been   *)
(* raised for the lower one.  Whatever else is entered fits once it is     *)
(* validated.                                                              *)
(***************************************************************************)
THEOREM OnlySnappingUpOverflows ==
  ASSUME NEW c \in Configurations
  PROVE  Fits(Validated(c)) \/ Validated(c).modulation.chipRate > c.modulation.chipRate
<1> DEFINE d == Validated(c)
           raised == [c EXCEPT !.rf.sampleRate = RaisedRate(c)]
<1>1. d \in Configurations /\ d.hopping = c.hopping
  BY ValidatedType DEF Kept
<1>2. RaisedRate(c) \in Nat \ {0} /\ c.rf.sampleRate \in Nat
  BY RaisedRateType DEF Configurations, RfSection
<1>3. d.rf.sampleRate = RaisedRate(c) /\ d.modulation.type = c.modulation.type
  BY DEF Validated, Derived, Configurations, RfSection, ModulationSection
<1> HIDE DEF d, raised
<1>4. d.modulation.chipRate \in Nat /\ c.modulation.chipRate \in Nat
  BY <1>1 DEF Configurations, ModulationSection
<1>5. CASE d.modulation.chipRate <= c.modulation.chipRate
  <2> SUFFICES ASSUME d.hopping.enabled, d.hopping.offsets # {}
               PROVE  d.rf.sampleRate >= NeededRate(d)
    BY DEF Fits, d
  <2>1. /\ NeededRate(c) \in Nat /\ NeededRate(d) \in Nat /\ NeededRate(d) <= NeededRate(c)
    BY <1>1, <1>3, <1>5, NarrowerFits
  <2>2. RaisedRate(c) >= NeededRate(c)
    <3> DEFINE n == NeededRate(c)
    <3>1. CASE c.rf.sampleRate < n
      <4>1. RaisedRate(c) = (n * 11) \div 10
        BY <1>1, <3>1 DEF RaisedRate
      <4> HIDE DEF n
      <4>2. n \in Nat
        BY <2>1 DEF n
      <4>3. (n * 11) \div 10 >= n
        BY <4>2
      <4> QED BY <4>1, <4>3 DEF n
    <3>2. CASE ~ (c.rf.sampleRate < n)
      BY <1>2, <2>1, <3>2 DEF RaisedRate
    <3> QED BY <3>1, <3>2
  <2> QED BY <1>2, <1>3, <2>1, <2>2
<1>6. CASE d.modulation.chipRate > c.modulation.chipRate
  BY <1>6 DEF d
<1> QED BY <1>4, <1>5, <1>6

=============================================================================
