------------------------------ MODULE Vibrator ------------------------------
(***************************************************************************)
(* The vibrator HAL, vibrator/drv2624/Vibrator.cpp: the binder threads     *)
(* that serve its calls (service.cpp:36 and :44 make two), step by step    *)
(* over the attributes of the driver and the configuration of steady       *)
(* vibrations, which no mutex guards, at any temperature and motion, while *)
(* the driver ends vibrations.  Calls that only read or that are not       *)
(* supported are left out.                                                 *)
(***************************************************************************)
EXTENDS VibratorCal

CONSTANTS
    BinderThreads,     \* the threads that serve calls
    KnownCalibrations, \* the calibrations of this instance
    Calls,             \* the calls the framework makes
    Durations,         \* the duration of each effect, in ms
    Strays,            \* what may lie past the single bound of the cold
    TwoTo31,           \* the integers of the code have 32 bits
    Faulty             \* the attributes that may refuse a write

Effects == {"TEXTURE_TICK", "TICK", "CLICK", "HEAVY_CLICK", "DOUBLE_CLICK"}
Strengths == {"LIGHT", "MEDIUM", "STRONG"}
OtherEffect == "RINGTONE"
OtherStrength == "255"

int32 == -TwoTo31 .. TwoTo31 - 1
uint32 == 0 .. 2 * TwoTo31 - 1
\* on(int32_t) passes its timeout to on(uint32_t).
Unsigned(n) == IF n < 0 THEN n + 2 * TwoTo31 ELSE n

\* Amplitudes are in thousandths.
AllCalls ==
    [op : {"on"}, timeoutMs : int32, callback : BOOLEAN]
    \cup [op : {"off"}]
    \cup [op : {"setAmplitude"}, amplitude : Int]
    \cup [op : {"perform"}, effect : Effects \cup {OtherEffect},
          strength : Strengths \cup {OtherStrength}, callback : BOOLEAN]
NoCall == [op |-> "none"]

Attributes == {"rtp_input", "set_sequencer", "ctrl_loop", "duration", "mode",
               "lra_wave_shape", "od_clamp", "ol_lra_period"}
Faults == Attributes \cup {"activate"}

ASSUME CalibrationAssumption == KnownCalibrations \subseteq Calibrations
\* Otherwise the unsigned subtraction of the constructor wraps, or it divides by 0.
ASSUME FrequencyAssumption ==
    \A c \in KnownCalibrations : FreqPeriod(c.lraPeriod) > c.longFrequencyShift
ASSUME WordAssumption == TwoTo31 \in Nat \ {0}
ASSUME CallAssumption == Calls \subseteq AllCalls
ASSUME DurationAssumption == Durations \in [Effects -> uint32]
ASSUME StrayAssumption == Strays \subseteq Nat /\ Strays # {}
ASSUME FaultAssumption == Faulty \subseteq Faults

Outcome(attribute) == IF attribute \in Faulty THEN BOOLEAN ELSE {TRUE}

VARIABLES
    cal,               \* the calibration file and the properties
    mSteadyConfig,     \* which clamps odClamp points to, and olLraPeriod
    attribute,         \* what the driver's attributes hold
    active,            \* the actuator runs
    pc, call,          \* of each thread
    run,               \* its temperature, the arguments of the private on(), and the
                       \* value it has read from the configuration
    status,            \* what its call will report
    started,           \* history: the attributes when this call activated
    crossed,           \* history: another call has written under this one
    felt               \* history: the last temperature outside the band, "unknown"
                       \* while the configuration is not that of one temperature

thread == <<pc, call, run, status>>
vars == <<cal, mSteadyConfig, attribute, active, thread, started, crossed, felt>>
------------------------------------------------------------------------------
STEADY_VOLTAGE_LOWER_BOUND == 90
VIBRATION_MOTION_TIME_THRESHOLD == 100

\* The level of the effect table for each effect and strength.
OdClampOffset == [TEXTURE_TICK |-> 0, TICK |-> 1, CLICK |-> 2, HEAVY_CLICK |-> 3]
VolOffset(effect, strength) ==
    IF effect = "TEXTURE_TICK" THEN OdClampOffset.TEXTURE_TICK
    ELSE OdClampOffset[IF effect = "DOUBLE_CLICK" THEN "CLICK" ELSE effect]
         + (IF strength = "LIGHT" THEN 0 ELSE 1)

Sequence(effect) ==
    CASE effect = "CLICK" -> "1 0"
      [] effect \in {"TICK", "TEXTURE_TICK"} -> "2 0"
      [] effect = "DOUBLE_CLICK" -> "3 0"
      [] effect = "HEAVY_CLICK" -> "4 0"

\* Below 5, between, above 10 degrees.
Temperatures == {"cold", "cool", "warm"}
NoRun == [reading |-> "none", timeoutMs |-> 0, mode |-> "none", volOffset |-> 0,
          argument |-> 0]
Runs == [reading : Temperatures \cup {"none"}, timeoutMs : uint32,
         mode : {"none", "rtp", "waveform"}, volOffset : 0..4, argument : Nat]

\* The clamps the configuration of a run points to.
OdClamp(mode) ==
    IF mode = "waveform" THEN EffectTargetOdClamp(cal)
    ELSE IF mSteadyConfig.odClamp = "table" THEN SteadyTargetOdClamp(cal)
    ELSE [level \in {0} |-> STEADY_VOLTAGE_LOWER_BOUND]
OlLraPeriod(mode) ==
    IF mode = "waveform" THEN cal.lraPeriod ELSE mSteadyConfig.olLraPeriod

WriteSteps == {"set_sequencer", "ctrl_loop", "duration", "mode", "lra_wave_shape",
               "od_clamp", "ol_lra_period", "activate"}
ReadSteps == {"temp", "motion", "clamp", "period"}
Steps == WriteSteps \cup ReadSteps
         \cup {"idle", "steady_clamp", "steady_period", "off", "amplitude", "reply"}
Statuses == {"none", "OK", "EX_UNSUPPORTED_OPERATION", "EX_ILLEGAL_STATE",
             "EX_ILLEGAL_ARGUMENT"}

AttributeTypes ==
    [rtp_input : 0..127, set_sequencer : {"none", "1 0", "2 0", "3 0", "4 0"},
     ctrl_loop : {"OPEN", "CLOSE"}, duration : uint32, mode : {"none", "rtp", "waveform"},
     lra_wave_shape : {"SQUARE", "steady", "effect"}, od_clamp : Nat, ol_lra_period : Nat]
NotStarted == [mode |-> "none"]

TypeOK ==
    /\ cal \in KnownCalibrations
    /\ mSteadyConfig \in [odClamp : {"table", "bound"},
                          olLraPeriod : {cal.lraPeriod, SteadyOlLraPeriodShift(cal)}]
    /\ attribute \in AttributeTypes
    /\ active \in BOOLEAN
    /\ felt \in {"cold", "warm", "unknown"}
    /\ pc \in [BinderThreads -> Steps] /\ status \in [BinderThreads -> Statuses]
    /\ call \in [BinderThreads -> Calls \cup {NoCall}]
    /\ run \in [BinderThreads -> Runs]
    /\ started \in [BinderThreads -> AttributeTypes \cup {NotStarted}]
    /\ crossed \in [BinderThreads -> BOOLEAN]

Each(value) == [t \in BinderThreads |-> value]

\* Vibrator::Vibrator() over a driver that has just been loaded.  state, autocal
\* and lp_trigger_effect are written here and never again; they are left out.
Init ==
    /\ cal \in KnownCalibrations
    /\ mSteadyConfig = [odClamp |-> "table", olLraPeriod |-> cal.lraPeriod]
    /\ attribute = [rtp_input |-> 127, set_sequencer |-> "none", ctrl_loop |-> "OPEN",
                    duration |-> 0, mode |-> "none", lra_wave_shape |-> "SQUARE",
                    od_clamp |-> 0,
                    ol_lra_period |-> IF cal.dynamic THEN 0 ELSE cal.lraPeriod]
    /\ active = FALSE
    /\ felt = "warm"
    /\ pc = Each("idle") /\ call = Each(NoCall) /\ run = Each(NoRun) /\ status = Each("none")
    /\ started = Each(NotStarted) /\ crossed = Each(FALSE)
------------------------------------------------------------------------------
(* The threads                                                             *)

Step(t, step, r, result) ==
    /\ pc' = [pc EXCEPT ![t] = step]
    /\ run' = [run EXCEPT ![t] = r] /\ status' = [status EXCEPT ![t] = result]
    /\ UNCHANGED call
Go(t, step) == Step(t, step, run[t], status[t])
Finish(t, result) == Step(t, "reply", run[t], result)

\* The other calls under way may have counted on what is written here.
Cross(t) ==
    crossed' = [u \in BinderThreads |-> crossed[u] \/ (u # t /\ pc[u] # "idle")]
Write(t, name, value) == attribute' = [attribute EXCEPT ![name] = value] /\ Cross(t)
WriteNothing == UNCHANGED <<attribute, crossed>>

FirstStep(c) ==
    CASE c.op = "on" -> IF cal.dynamic THEN "temp" ELSE "ctrl_loop"
      [] c.op = "perform" -> "set_sequencer"
      [] c.op = "off" -> "off"
      [] c.op = "setAmplitude" -> "amplitude"

\* What is refused before anything is done.
Refused(c) ==
    \/ c.op \in {"on", "perform"} /\ c.callback
    \/ c.op = "perform" /\ (c.effect = OtherEffect \/ c.strength = OtherStrength)

FirstRun(c) ==
    IF c.op = "on"
    THEN [NoRun EXCEPT !.timeoutMs = Unsigned(c.timeoutMs), !.mode = "rtp"]
    ELSE NoRun

Begin(t, c) ==
    /\ pc[t] = "idle"
    /\ call' = [call EXCEPT ![t] = c]
    /\ pc' = [pc EXCEPT ![t] = IF Refused(c) THEN "reply" ELSE FirstStep(c)]
    /\ status' = [status EXCEPT ![t] = IF Refused(c) THEN "EX_UNSUPPORTED_OPERATION" ELSE @]
    /\ run' = [run EXCEPT ![t] = IF Refused(c) THEN @ ELSE FirstRun(c)]
    /\ UNCHANGED <<cal, mSteadyConfig, attribute, active, started, crossed, felt>>

Off(t) ==
    /\ pc[t] = "off"
    /\ \E written \in Outcome("activate") :
          /\ active' = (active /\ ~written)
          /\ Finish(t, IF written THEN "OK" ELSE "EX_ILLEGAL_STATE")
    /\ UNCHANGED <<cal, mSteadyConfig, attribute, started, crossed, felt>>

\* Mutant: the amplitude is not checked.
SetAmplitudeUnchecked(t) ==
    /\ pc[t] = "amplitude"
    /\ attribute' = [attribute EXCEPT !.rtp_input =
                        (call[t].amplitude * 127 + 500) \div 1000]
    /\ Finish(t, "OK")
    /\ UNCHANGED <<cal, mSteadyConfig, active, started, crossed, felt>>

\* round(amplitude * 127), for 0 < amplitude <= 1; no vibration counts on it.
SetAmplitude(t) ==
    /\ pc[t] = "amplitude"
    /\ IF call[t].amplitude \notin 1..1000
       THEN Finish(t, "EX_ILLEGAL_ARGUMENT") /\ UNCHANGED attribute
       ELSE \E written \in Outcome("rtp_input") :
            IF written
            THEN /\ attribute' = [attribute EXCEPT !.rtp_input =
                                     (call[t].amplitude * 127 + 500) \div 1000]
                 /\ Finish(t, "OK")
            ELSE Finish(t, "EX_ILLEGAL_STATE") /\ UNCHANGED attribute
    /\ UNCHANGED <<cal, mSteadyConfig, active, started, crossed, felt>>
------------------------------------------------------------------------------
(* on(timeoutMs, callback): the temperature and the motion                 *)

\* The sensor of the PA may show anything; one that cannot be read leaves 0, which is
\* cold.  Between the bounds the configuration stays as it was used last.
ReadTemperature(t) ==
    /\ pc[t] = "temp"
    /\ \E reading \in Temperatures :
          Step(t, IF reading = "cool" THEN "ctrl_loop" ELSE "steady_clamp",
               [run[t] EXCEPT !.reading = reading], status[t])
    /\ UNCHANGED <<cal, mSteadyConfig, attribute, active, started, crossed, felt>>

\* Above the upper bound the table and the calibrated period are used, below the
\* lower one the bound and the shifted period: two assignments.
SetSteadyClamp(t) ==
    /\ pc[t] = "steady_clamp"
    /\ mSteadyConfig' = [mSteadyConfig EXCEPT !.odClamp =
                            IF run[t].reading = "warm" THEN "table" ELSE "bound"]
    /\ felt' = "unknown"
    /\ Cross(t) /\ Go(t, "steady_period")
    /\ UNCHANGED <<cal, attribute, active, started>>

\* The motion of the phone counts for a long vibration in the warm.
AfterTemperature(t) ==
    IF run[t].reading = "warm" /\ call[t].timeoutMs > VIBRATION_MOTION_TIME_THRESHOLD
    THEN "motion" ELSE "ctrl_loop"

\* Mutant: the period of the cold is kept when it is warm again.
SetSteadyPeriodKept(t) ==
    /\ pc[t] = "steady_period"
    /\ mSteadyConfig' = IF run[t].reading = "warm" THEN mSteadyConfig
                        ELSE [mSteadyConfig EXCEPT !.olLraPeriod =
                                 SteadyOlLraPeriodShift(cal)]
    /\ felt' = IF crossed[t] THEN "unknown" ELSE run[t].reading
    /\ Cross(t) /\ Go(t, AfterTemperature(t))
    /\ UNCHANGED <<cal, attribute, active, started>>

\* Mutant: the phone's motion counts at every temperature.
SetSteadyPeriodMotionAlways(t) ==
    /\ pc[t] = "steady_period"
    /\ mSteadyConfig' = [mSteadyConfig EXCEPT !.olLraPeriod =
                            IF run[t].reading = "warm" THEN cal.lraPeriod
                            ELSE SteadyOlLraPeriodShift(cal)]
    /\ felt' = IF crossed[t] THEN "unknown" ELSE run[t].reading
    /\ Cross(t)
    /\ Go(t, IF call[t].timeoutMs > VIBRATION_MOTION_TIME_THRESHOLD
             THEN "motion" ELSE "ctrl_loop")
    /\ UNCHANGED <<cal, attribute, active, started>>

SetSteadyPeriod(t) ==
    /\ pc[t] = "steady_period"
    /\ mSteadyConfig' = [mSteadyConfig EXCEPT !.olLraPeriod =
                            IF run[t].reading = "warm" THEN cal.lraPeriod
                            ELSE SteadyOlLraPeriodShift(cal)]
    /\ felt' = IF crossed[t] THEN "unknown" ELSE run[t].reading
    /\ Cross(t) /\ Go(t, AfterTemperature(t))
    /\ UNCHANGED <<cal, attribute, active, started>>

\* A phone that lies still vibrates at the third level.
Still(t, still) ==
    Step(t, "ctrl_loop", [run[t] EXCEPT !.volOffset = IF still THEN 2 ELSE 0], status[t])

\* motionAwareness() asks the gravity sensor, or gives its last answer again for
\* SENSING_PERIOD: either way still or not.  Two threads that ask at once race for
\* the sensor's vectors, which adds no third answer.
MotionAwareness(t) ==
    /\ pc[t] = "motion"
    /\ \E still \in BOOLEAN : Still(t, still)
    /\ UNCHANGED <<cal, mSteadyConfig, attribute, active, started, crossed, felt>>

\* performEffect()
SetSequencer(t) ==
    /\ pc[t] = "set_sequencer"
    /\ \E written \in Outcome("set_sequencer") :
          IF written THEN Write(t, "set_sequencer", Sequence(call[t].effect))
          ELSE WriteNothing
    /\ Step(t, "ctrl_loop",
            [run[t] EXCEPT !.timeoutMs = Durations[call[t].effect], !.mode = "waveform",
                           !.volOffset = VolOffset(call[t].effect, call[t].strength)],
            status[t])
    /\ UNCHANGED <<cal, mSteadyConfig, active, started, felt>>
------------------------------------------------------------------------------
(* on(timeoutMs, mode, config, volOffset): the attributes                  *)

\* The result of the write is not looked at, and the value read is used up.
Set(t, name, value, next) ==
    /\ pc[t] = name
    /\ \E written \in Outcome(name) :
          IF written THEN Write(t, name, value) ELSE WriteNothing
    /\ Step(t, next, [run[t] EXCEPT !.argument = 0], status[t])
    /\ UNCHANGED <<cal, mSteadyConfig, active, started, felt>>

LoopMode(mode, timeoutMs) ==
    IF mode = "rtp" /\ timeoutMs > cal.closeLoopThreshold THEN "CLOSE" ELSE "OPEN"
SetCtrlLoop(t) ==
    Set(t, "ctrl_loop", LoopMode(run[t].mode, run[t].timeoutMs), "duration")

\* Mutant: nor is it here.
SetDurationUnchecked(t) == Set(t, "duration", run[t].timeoutMs, "mode")

SetDuration(t) ==
    /\ pc[t] = "duration"
    /\ \E written \in Outcome("duration") :
         IF written THEN Write(t, "duration", run[t].timeoutMs) /\ Go(t, "mode")
         ELSE Finish(t, "EX_ILLEGAL_STATE") /\ WriteNothing
    /\ UNCHANGED <<cal, mSteadyConfig, active, started, felt>>

\* Only a dynamic configuration has the other attributes.
SetMode(t) ==
    Set(t, "mode", run[t].mode, IF cal.dynamic THEN "lra_wave_shape" ELSE "activate")
SetLraWaveShape(t) ==
    Set(t, "lra_wave_shape", IF run[t].mode = "rtp" THEN "steady" ELSE "effect", "clamp")

\* The value is read from the configuration before it is written to the driver.
Read(t, step, values, next) ==
    /\ pc[t] = step
    /\ \E value \in values : Step(t, next, [run[t] EXCEPT !.argument = value], status[t])
    /\ UNCHANGED <<cal, mSteadyConfig, attribute, active, started, crossed, felt>>
ReadClamp(t) ==
    Read(t, "clamp",
         IF run[t].volOffset \in DOMAIN OdClamp(run[t].mode)
         THEN {OdClamp(run[t].mode)[run[t].volOffset]} ELSE Strays, "od_clamp")
SetOdClamp(t) == Set(t, "od_clamp", run[t].argument, "period")
ReadPeriod(t) == Read(t, "period", {OlLraPeriod(run[t].mode)}, "ol_lra_period")
SetOlLraPeriod(t) == Set(t, "ol_lra_period", run[t].argument, "activate")

SetActivate(t) ==
    /\ pc[t] = "activate"
    /\ \E written \in Outcome("activate") :
         IF written
         THEN /\ active' = TRUE /\ started' = [started EXCEPT ![t] = attribute]
              /\ Finish(t, "OK")
         ELSE Finish(t, "EX_ILLEGAL_STATE") /\ UNCHANGED <<active, started>>
    /\ UNCHANGED <<cal, mSteadyConfig, attribute, crossed, felt>>

Reply(t) ==
    /\ pc[t] = "reply"
    /\ pc' = [pc EXCEPT ![t] = "idle"] /\ call' = [call EXCEPT ![t] = NoCall]
    /\ run' = [run EXCEPT ![t] = NoRun] /\ status' = [status EXCEPT ![t] = "none"]
    /\ started' = [started EXCEPT ![t] = NotStarted]
    /\ crossed' = [crossed EXCEPT ![t] = FALSE]
    /\ UNCHANGED <<cal, mSteadyConfig, attribute, active, felt>>
------------------------------------------------------------------------------
(* The driver, and the death of the process                                *)

\* The duration has passed.
VibrationEnds ==
    /\ active
    /\ active' = FALSE
    /\ UNCHANGED <<cal, mSteadyConfig, attribute, thread, started, crossed, felt>>

\* A new process finds the driver as it is and forgets which temperature it felt.
Crash ==
    /\ mSteadyConfig' = [odClamp |-> "table", olLraPeriod |-> cal.lraPeriod]
    /\ attribute' = IF cal.dynamic THEN attribute
                    ELSE [attribute EXCEPT !.ol_lra_period = cal.lraPeriod]
    /\ pc' = Each("idle") /\ call' = Each(NoCall) /\ run' = Each(NoRun)
    /\ status' = Each("none")
    /\ started' = Each(NotStarted) /\ crossed' = Each(FALSE) /\ felt' = "warm"
    /\ UNCHANGED <<cal, active>>

Thread(t) ==
    \/ \E c \in Calls : Begin(t, c)
    \/ Off(t) \/ SetAmplitude(t)
    \/ ReadTemperature(t) \/ SetSteadyClamp(t) \/ SetSteadyPeriod(t)
    \/ MotionAwareness(t) \/ SetSequencer(t)
    \/ SetCtrlLoop(t) \/ SetDuration(t) \/ SetMode(t) \/ SetLraWaveShape(t)
    \/ ReadClamp(t) \/ SetOdClamp(t) \/ ReadPeriod(t) \/ SetOlLraPeriod(t)
    \/ SetActivate(t) \/ Reply(t)

Next ==
    \/ \E t \in BinderThreads : Thread(t)
    \/ VibrationEnds \/ Crash

Spec == Init /\ [][Next]_vars
------------------------------------------------------------------------------
(* Properties                                                              *)

AsAsked(a, c) ==
    IF c.op = "on"
    THEN /\ a.mode = "rtp" /\ a.duration = Unsigned(c.timeoutMs)
         /\ a.ctrl_loop = LoopMode("rtp", Unsigned(c.timeoutMs))
    ELSE /\ a.mode = "waveform" /\ a.duration = Durations[c.effect]
         /\ a.ctrl_loop = "OPEN" /\ a.set_sequencer = Sequence(c.effect)

\* An on() or perform() under which no other call has written reports OK only if
\* it has activated the driver with everything it was asked for: its own duration,
\* mode, loop and sequence, whatever earlier calls left behind when they failed
\* half way or overlapped.  One that reports an error has activated nothing.
OkMeansStarted ==
    \A t \in BinderThreads :
       pc[t] = "reply" /\ call[t].op \in {"on", "perform"} =>
       IF status[t] = "OK" THEN ~crossed[t] => AsAsked(started[t], call[t])
       ELSE started[t] = NotStarted

SteadyAsFelt(a) ==
    /\ felt = "cold" => /\ a.od_clamp = STEADY_VOLTAGE_LOWER_BOUND
                        /\ a.ol_lra_period >= cal.lraPeriod
    /\ felt = "warm" => /\ a.od_clamp \in {SteadyTargetOdClamp(cal)[level] : level \in {0, 2}}
                        /\ a.ol_lra_period = cal.lraPeriod
EffectAsCalibrated(a, c) ==
    /\ a.od_clamp = EffectTargetOdClamp(cal)[VolOffset(c.effect, c.strength)]
    /\ a.ol_lra_period = cal.lraPeriod /\ a.lra_wave_shape = "effect"

\* Vibrator.cpp:138, "Temperature protection upper bound 10 C and lower bound 5 C",
\* and Vibrator.cpp:141, "Steady vibration's voltage in lower bound guarantee": a
\* steady vibration after a cold reading, its own or the last one before it, is
\* driven with the lower bound at a period that is not shorter than the calibrated
\* one; after a warm one with a clamp of its table at the calibrated period.
\* Effects stay as they were calibrated at every temperature.  This is promised to
\* a call under which no other call has written, whichever calls overlapped before
\* it; between the bounds only when the configuration is that of one temperature.
ColdRunsLow ==
    \A t \in BinderThreads :
       cal.dynamic /\ pc[t] = "reply" /\ status[t] = "OK" /\ ~crossed[t] =>
       /\ started[t].mode = "rtp" =>
             /\ run[t].reading \in {felt, "cool"}
             /\ SteadyAsFelt(started[t])
       /\ started[t].mode = "waveform" => EffectAsCalibrated(started[t], call[t])

\* The level a call uses exists among the clamps its configuration points to when
\* it reads one, five for an effect, three or one for a steady vibration, unless
\* another call has written under it.
LevelExists ==
    \A t \in BinderThreads :
       pc[t] = "clamp" /\ ~crossed[t] => run[t].volOffset \in DOMAIN OdClamp(run[t].mode)
==============================================================================
