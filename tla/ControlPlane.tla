----------------------------- MODULE ControlPlane -----------------------------
(***************************************************************************)
(* How settings travel: core/config_manager.py (ConfigManager), the panels *)
(* and gui/main_window.py that change the configuration, the listener and  *)
(* setters of radio/flowgraph_manager.py that pass changes to the running  *)
(* flowgraphs, core/anomaly_injector.py, and IQ recording                  *)
(* (radio/iq_recorder.py and the taps of the two flowgraphs).              *)
(*                                                                         *)
(* All of it runs in the main thread, one slot after the other, so each    *)
(* slot is one action.  The threads of a session are those of              *)
(* FlowgraphManager; here a session is what it was built from and what has *)
(* been pushed into it since.  An exception that leaves a slot ends the    *)
(* program (PyQt5 aborts).                                                 *)
(***************************************************************************)
EXTENDS LinkConfig

CONSTANTS
    InitialConfig,      \* what __init__ loads, validated
    RfValues, HoppingValues, ModulationValues, FrameValues,
    TransitionTimes, AnomalyValues, LogValues,
                        \* what the panels' widgets may hold
    AnomalyLevels,      \* values of the anomaly panel's live controls
    Files,              \* configuration files
    BadFiles,           \* those that do not load
    MaxChanges,         \* BOUND: changes, saves and loads of the configuration
    MaxRecordings       \* BOUND: recordings started

ASSUME ControlAssumption ==
    /\ InitialConfig \in Configurations
    /\ InitialConfig = Validated(InitialConfig)
    /\ RfValues \subseteq [sampleRate : Nat \ {0}, gain : Int]
    /\ HoppingValues \subseteq HoppingSection
    /\ ModulationValues \subseteq ModulationSection
    /\ FrameValues \subseteq FrameSection
    /\ TransitionTimes \subseteq Nat
    /\ AnomalyValues \subseteq AnomalySection /\ AnomalyLevels \subseteq Nat
    /\ LogValues \subseteq LoggingSection
    /\ MaxChanges \in Nat
    /\ MaxRecordings \in Nat

VARIABLES
    config,     \* ConfigManager.config
    files,      \* contents of the configuration files
    changes,    \* counts towards MaxChanges
    running,    \* FlowgraphManager._running
    injector,   \* state of its _anomaly_injector
    session,    \* the flowgraphs _tx_fg and _rx_fg refer to
    pending,    \* the user has been told that a restart is needed
    recorder,   \* MainWindow._recorder
    recordings, \* recorders created
    described,  \* those whose metadata has been written
    panelOn,    \* LoggingPanel shows "Recording..."
    toolbarOn,  \* the toolbar's record action is checked
    ended       \* the program has ended

configuration == <<config, files, changes>>
flowgraphs == <<running, injector, session, pending>>
recording == <<recorder, recordings, described, panelOn, toolbarOn>>
vars == <<configuration, flowgraphs, recording, ended>>

NoSession == [live |-> FALSE]
NoRecorder == [id |-> 0]
NoTap == 0
Live == session.live

Init ==
    /\ config = InitialConfig
    /\ files = [f \in Files |-> InitialConfig]
    /\ changes = 0
    /\ running = FALSE
    /\ injector = InitialConfig.anomaly
    /\ session = NoSession
    /\ pending = FALSE
    /\ recorder = NoRecorder /\ recordings = 0 /\ described = {}
    /\ panelOn = FALSE /\ toolbarOn = FALSE
    /\ ended = FALSE

-----------------------------------------------------------------------------
(* FlowgraphManager                                                        *)

\* MUTANT of NewSession: AnomalyBlock is left out where interference is on.
NewSessionEnabledOnly(c) ==
    [live |-> TRUE, built |-> c, gain |-> c.rf.gain, injected |-> TRUE,
     anomalyBlock |-> c.anomaly.enabled, txTap |-> NoTap, rxTap |-> NoTap]

(* _build_flowgraphs: AnomalyBlock is connected only where anomalies or    *)
(* interference are on.                                                    *)
NewSession(c) ==
    [live |-> TRUE, built |-> c, gain |-> c.rf.gain, injected |-> TRUE,
     anomalyBlock |-> c.anomaly.enabled \/ c.anomaly.interference,
     txTap |-> NoTap, rxTap |-> NoTap]

(* AnomalyInjector(...) and update_from_config: a state made of c.anomaly *)
Injector(c) == c.anomaly

(* restart() of what c describes, which may raise half way *)
Rebuild(c) ==
    /\ injector' = Injector(c)
    /\ IF Buildable(c)
       THEN /\ session' = NewSession(c)
            /\ pending' = FALSE
            /\ UNCHANGED ended
       ELSE /\ session' = NoSession
            /\ ended' = TRUE
            /\ UNCHANGED pending

(* _on_config_changed, the listener: the gains of the session *)
Notified(c) == IF Live THEN [session EXCEPT !.gain = c.rf.gain] ELSE session

(* What a state asks of AnomalyBlock *)
Wanted(c) == IF c.anomaly.enabled THEN c.anomaly.level ELSE 0

(* AnomalyBlock.work: what is done to the signal of a session that has the *)
(* block and asks the manager's injector.  No block adds interference.     *)
Applied ==
    IF session.anomalyBlock /\ injector.enabled THEN injector.level ELSE 0

(* The injector the listener updates is the session's unless a start()     *)
(* over a live session failed after making another.                        *)
StartSucceeds ==
    /\ Buildable(config)
    /\ session' = NewSession(config)
    /\ running' = TRUE
    /\ pending' = FALSE

(* TXFlowgraph raises before it is assigned; the injector is new already.  *)
StartRaises ==
    /\ ~Buildable(config)
    /\ session' = IF Live THEN [session EXCEPT !.injected = FALSE] ELSE session
    /\ UNCHANGED <<running, pending>>

-----------------------------------------------------------------------------
(* MainWindow: toolbar and status panel                                    *)

(* _start: the button is disabled while running *)
Start ==
    /\ ~ended /\ ~running
    /\ injector' = Injector(config)
    /\ StartSucceeds \/ StartRaises
    /\ UNCHANGED <<configuration, recording, ended>>

Stop ==
    /\ ~ended /\ running
    /\ session' = NoSession
    /\ running' = FALSE
    /\ pending' = FALSE
    /\ UNCHANGED <<configuration, injector, recording, ended>>

(* _restart_flowgraphs by the status panel's button, running or not *)
Restart ==
    /\ ~ended
    /\ Rebuild(config)
    /\ UNCHANGED <<configuration, running, recording>>

Save(f) ==
    /\ ~ended
    /\ changes < MaxChanges
    /\ changes' = changes + 1
    /\ files' = [files EXCEPT ![f] = config]
    /\ UNCHANGED <<config, flowgraphs, recording, ended>>

(* _load_config: reload() validates and notifies; nothing is restarted.    *)
Load(f) ==
    /\ ~ended
    /\ changes < MaxChanges
    /\ changes' = changes + 1
    /\ UNCHANGED <<files, running, recording>>
    /\ IF f \in BadFiles
       THEN /\ ended' = TRUE
            /\ UNCHANGED <<config, injector, session, pending>>
       ELSE /\ config' = Validated(files[f])
            /\ injector' = Injector(config')
            /\ session' = Notified(config')
            /\ pending' = Live
            /\ UNCHANGED ended

(* closeEvent *)
Close ==
    /\ ~ended
    /\ session' = NoSession
    /\ running' = FALSE
    /\ ended' = TRUE
    /\ UNCHANGED <<configuration, injector, pending, recording>>

-----------------------------------------------------------------------------
(* Panels.  Each sends the section it shows.                               *)

\* MUTANT of RestartRequired: the frame is taken for a live setting.
RestartRequiredNotFrame == {"rf", "modulation", "hopping"}

(* _RESTART_REQUIRED_TOP_KEYS *)
RestartRequired == {"rf", "modulation", "frame", "hopping"}

(* _on_config_changed: ConfigManager.update validates and notifies; then   *)
(* the flowgraphs are restarted if the section needs it and they run.      *)
OnConfigChanged(section, updated) ==
    /\ ~ended
    /\ changes < MaxChanges
    /\ changes' = changes + 1
    /\ config' = Validated(updated)
    /\ UNCHANGED <<files, running, recording>>
    /\ IF section \in RestartRequired /\ running
       THEN Rebuild(config')
       ELSE /\ injector' = Injector(config')
            /\ session' = Notified(config')
            /\ pending' = (pending \/ (section \in RestartRequired /\ Live))
            /\ UNCHANGED ended

ApplyRf ==
    \E v \in RfValues :
        OnConfigChanged("rf", [config EXCEPT !.rf.sampleRate = v.sampleRate,
                                             !.rf.gain = v.gain])

ApplyHopping ==
    \E v \in HoppingValues : OnConfigChanged("hopping", [config EXCEPT !.hopping = v])

ApplyModulation ==
    \E v \in ModulationValues :
        OnConfigChanged("modulation", [config EXCEPT !.modulation = v])

ApplyFrame ==
    \E v \in FrameValues : OnConfigChanged("frame", [config EXCEPT !.frame = v])

(* The burst duration is not the panel's *)
ApplyTiming ==
    \E v \in TransitionTimes :
        OnConfigChanged("timing", [config EXCEPT !.timing.transition = v])

ApplyAnomaly ==
    \E v \in AnomalyValues : OnConfigChanged("anomaly", [config EXCEPT !.anomaly = v])

ApplyLogging ==
    \E v \in LogValues : OnConfigChanged("logging", [config EXCEPT !.logging = v])

(* anomaly_live_update: set_anomaly_state, which updates the configuration *)
(* and then the injector once more                                         *)
LiveAnomaly ==
    \E level \in AnomalyLevels :
        /\ ~ended
        /\ changes < MaxChanges
        /\ changes' = changes + 1
        /\ config' = Validated([config EXCEPT !.anomaly.level = level])
        /\ injector' = Injector(config')
        /\ session' = Notified(config')
        /\ UNCHANGED <<files, running, pending, recording, ended>>

Panels ==
    \/ ApplyRf \/ ApplyHopping \/ ApplyModulation \/ ApplyFrame \/ ApplyTiming
    \/ ApplyAnomaly \/ ApplyLogging \/ LiveAnomaly

-----------------------------------------------------------------------------
(* IQ recording                                                            *)

\* MUTANT of NewRecorder: numbered as if one more had been counted.
NewRecorderAhead ==
    [id |-> recordings + 2, rate |-> config.rf.sampleRate,
     format |-> config.logging.format,
     tx |-> config.logging.recordTx, rx |-> config.logging.recordRx]

(* IQRecorder(...) and its sinks: recorded with the configuration's rate   *)
NewRecorder ==
    [id |-> recordings + 1, rate |-> config.rf.sampleRate,
     format |-> config.logging.format,
     tx |-> config.logging.recordTx, rx |-> config.logging.recordRx]

(* enable_iq_recording on a flowgraph whose tap is connected already:      *)
(* GNU Radio refuses to connect an input twice.                            *)
TapTaken(r) ==
    Live /\ \/ r.tx /\ session.txTap # NoTap
            \/ r.rx /\ session.rxTap # NoTap

(* A sink of another item size than the flowgraph's samples *)
Unfit(r) == Live /\ (r.tx \/ r.rx) /\ r.format = "i8"

(* _start_recording *)
StartRecording ==
    LET r == NewRecorder
    IN  /\ recordings < MaxRecordings
        /\ recordings' = recordings + 1
        /\ recorder' = r
        /\ ended' = (TapTaken(r) \/ Unfit(r))
        /\ session' = IF ~Live THEN session
                      ELSE [session EXCEPT !.txTap = IF r.tx THEN r.id ELSE @,
                                           !.rxTap = IF r.rx THEN r.id ELSE @]
        /\ UNCHANGED <<configuration, running, injector, pending, described>>

\* MUTANT of Untapped: the receiver's tap is forgotten.
UntappedTxOnly == IF Live THEN [session EXCEPT !.txTap = NoTap] ELSE session

(* disable_iq_recording of both flowgraphs *)
Untapped == IF Live THEN [session EXCEPT !.txTap = NoTap, !.rxTap = NoTap] ELSE session

(* _stop_recording and IQRecorder.stop *)
StopRecording ==
    /\ IF recorder = NoRecorder
       THEN UNCHANGED <<session, described, recorder>>
       ELSE /\ session' = Untapped
            /\ described' = described \cup (IF recorder.format = "sigmf" THEN {recorder.id} ELSE {})
            /\ recorder' = NoRecorder
    /\ UNCHANGED <<configuration, running, injector, pending, recordings, ended>>

(* LoggingPanel's two buttons, of which one is enabled *)
PanelRecord ==
    /\ ~ended
    /\ panelOn' = ~panelOn
    /\ IF panelOn THEN StopRecording ELSE StartRecording
    /\ UNCHANGED toolbarOn

(* _toggle_recording *)
ToolbarRecord ==
    /\ ~ended
    /\ toolbarOn' = ~toolbarOn
    /\ IF toolbarOn THEN StopRecording ELSE StartRecording
    /\ UNCHANGED panelOn

-----------------------------------------------------------------------------

Next ==
    \/ Start \/ Stop \/ Restart \/ Close
    \/ \E f \in Files : Save(f) \/ Load(f)
    \/ Panels
    \/ PanelRecord \/ ToolbarRecord

Spec == Init /\ [][Next]_vars

-----------------------------------------------------------------------------
(* Properties                                                              *)

Sessions ==
    [live : {TRUE}, built : Configurations, gain : Int, injected : BOOLEAN,
     anomalyBlock : BOOLEAN, txTap : Nat, rxTap : Nat]

Recorders ==
    [id : Nat \ {0}, rate : Nat \ {0}, format : {"cf32", "i8", "sigmf"},
     tx : BOOLEAN, rx : BOOLEAN]

TypeOK ==
    /\ config \in Configurations
    /\ files \in [Files -> Configurations]
    /\ changes \in 0 .. MaxChanges
    /\ running \in BOOLEAN /\ pending \in BOOLEAN /\ ended \in BOOLEAN
    /\ injector \in AnomalySection
    /\ session \in Sessions \cup {NoSession}
    /\ recorder \in Recorders \cup {NoRecorder}
    /\ recordings \in 0 .. MaxRecordings
    /\ recorder.id <= recordings
    /\ described \subseteq 1 .. recordings
    /\ panelOn \in BOOLEAN /\ toolbarOn \in BOOLEAN
    /\ Live => session.txTap <= recordings /\ session.rxTap <= recordings

(* The hopping signal fits into the sample rate: see HoppingFits below.    *)
Fits(c) ==
    c.hopping.enabled /\ c.hopping.offsets # {} => c.rf.sampleRate >= NeededRate(c)

(* Rates fine enough for kHz: two of chip rate for each sample of a symbol *)
FineRates(c) == 2 * RoundedSps(c) <= c.modulation.chipRate

(***************************************************************************)
(* Validating a configuration again changes nothing: otherwise the update  *)
(* of any section, one that needs no restart included, or saving and       *)
(* loading, would change the rates behind a running session.  True of what *)
(* fits; where snapping the chip rate up has widened the signal beyond the *)
(* sample rate, the next validation raises that too.                       *)
(***************************************************************************)
DerivationSettles == Fits(config) => Validated(config) = config

(***************************************************************************)
(* config_manager.py:246: "Snap sps = sample_rate / symbol_rate to         *)
(* integer".  The transmitter interpolates by the integer below, which is  *)
(* the one meant, except where sps falls short of it by no more than the   *)
(* 0.02 that are not snapped: there it is one less.                        *)
(***************************************************************************)
InterpolationIsSps ==
    LET samples == config.rf.sampleRate * BitsPerSymbol[config.modulation.type]
        missing == RoundedSps(config) * config.modulation.chipRate - samples
    IN  \/ Interpolation(config) = RoundedSps(config)
        \/ missing > 0 /\ 50 * missing <= config.modulation.chipRate

(***************************************************************************)
(* A live session has been built with the radio, hopping, modulation and   *)
(* frame sections the configuration has now, unless the user has been told *)
(* to restart: by the dialog after a load, or because the change came      *)
(* while the flowgraphs were live but not running.  What other sections    *)
(* an update changes by being validated is included.  A session whose      *)
(* signal does not fit is excepted: any update raises the sample rate      *)
(* behind its back.  Timing and anomaly are other sections that a session  *)
(* is built from: see LiveClaimHolds below.                                *)
(***************************************************************************)
SessionIsCurrent ==
    Live /\ ~pending /\ Fits(session.built) =>
        /\ session.built.rf = config.rf
        /\ session.built.hopping = config.hopping
        /\ session.built.modulation = config.modulation
        /\ session.built.frame = config.frame

(***************************************************************************)
(* Whatever the order of updates, loads, starts and restarts: the gains of *)
(* live flowgraphs and the state of the manager's injector are those of    *)
(* the configuration; while running, the flowgraphs ask that injector, and *)
(* if they were built with anomalies or interference on, what is applied   *)
(* to the signal is what the configuration asks for.  Built with both off  *)
(* they apply nothing: see LiveClaimHolds below.                           *)
(***************************************************************************)
LiveSettingsFollow ==
    /\ Live => session.gain = config.rf.gain
    /\ injector = config.anomaly
    /\ running /\ ~ended =>
          /\ session.injected
          /\ session.built.anomaly.enabled \/ session.built.anomaly.interference =>
                Applied = Wanted(config)

(***************************************************************************)
(* The chips per frame the panels display, and the burst duration, are     *)
(* those the transmitter sends (config_manager.py:215: it "must exactly    *)
(* match the chip count"), computed in three places.  The display is       *)
(* wrong for FEC enabled with primary_type "none": the flowgraphs align to *)
(* bytes and add the outer code, the display does neither.                 *)
(***************************************************************************)
DisplayedIsSent ==
    LET sent == TxTotalChips(FrameOf(config))
    IN  /\ config.timing.burst = [chips |-> sent, rate |-> config.modulation.chipRate]
        /\ (config.frame.fec.enabled => config.frame.fec.primary = "cc") =>
              DisplayedChips(config) = sent

(***************************************************************************)
(* Through both record buttons, restarts and loads: without a recorder     *)
(* nothing is tapped, and a stream the present recorder wants goes to no   *)
(* other; its metadata name the sample rate the tapped flowgraph has,      *)
(* though taken from the configuration, unless a loaded configuration is   *)
(* waiting for a restart or the session is one that does not fit.          *)
(***************************************************************************)
RecordingsAreTrue ==
    Live /\ ~ended =>
        /\ recorder = NoRecorder => session.txTap = NoTap /\ session.rxTap = NoTap
        /\ recorder # NoRecorder =>
              /\ recorder.tx => session.txTap \in {NoTap, recorder.id}
              /\ recorder.rx => session.rxTap \in {NoTap, recorder.id}
              /\ ~pending /\ Fits(session.built)
                    /\ recorder.id \in {session.txTap, session.rxTap} =>
                  recorder.rate = session.built.rf.sampleRate

-----------------------------------------------------------------------------
(* What comments say, and the code does not do.                            *)

(***************************************************************************)
(* config_manager.py:228: "When hopping is enabled, ensure sample_rate     *)
(* satisfies Nyquist for the baseband digital FHSS rotation."              *)
(***************************************************************************)
HoppingFits == Fits(config)

(* The user sees a running link and has not been asked to restart it.      *)
Undisturbed == running /\ ~ended /\ ~pending

\* anomaly_injector.py:5: "GNU Radio blocks and the TX path read these
\* values each processing call, so changes from the GUI take effect within
\* one burst period."
ImpairmentsAreApplied == Undisturbed => Applied = Wanted(config)

\* main_window.py:202, of a change of the timing section: "Config updated
\* (live)".  The hoppers' period has the transition time in it.
TransitionIsLive ==
    Undisturbed /\ session.built.hopping.enabled =>
        session.built.timing.transition = config.timing.transition

\* _RESTART_REQUIRED_KEYS, flowgraph_manager.py:37, has
\* "anomaly.interference.source_type".
SourceRestarts ==
    Undisturbed => session.built.anomaly.source = config.anomaly.source

(***************************************************************************)
(* One of the three claims is true at any time.  It is a disjunction so    *)
(* that a counterexample refutes each of them in one behaviour.            *)
(***************************************************************************)
LiveClaimHolds == ImpairmentsAreApplied \/ TransitionIsLive \/ SourceRestarts

=============================================================================
