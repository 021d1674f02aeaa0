--------------------------- MODULE Vibrator_proofs ---------------------------
(***************************************************************************)
(* Proofs about Vibrator.                                                  *)
(***************************************************************************)
EXTENDS Vibrator, TLAPS

\* The shifted period of the cold is not shorter than the calibrated one.
LEMMA ShiftNotShorter ==
    ASSUME NEW p \in Nat \ {0}, NEW s \in Nat, FreqPeriod(p) > s
    PROVE  /\ FreqPeriod(FreqPeriod(p) - s) \in Nat
           /\ FreqPeriod(FreqPeriod(p) - s) >= p
<1> DEFINE N == 1000000000
           f == N \div (24615 * p)
           d == 24615 * (f - s)
           g == N \div d
<1>1. f \in Int /\ 24615 * p \in Nat \ {0} /\ f > s
  BY DEF FreqPeriod
<1>2. f * (24615 * p) <= N
  <2> DEFINE q == 24615 * p
  <2>1. q \in Nat \ {0} /\ N \in Nat
    BY <1>1
  <2> HIDE DEF q, N
  <2>2. (N \div q) * q <= N
    BY <2>1
  <2> QED  BY <2>2 DEF q
<1>3. d \in Nat \ {0}
  BY <1>1
<1>4. p * d <= f * (24615 * p)
  <2>1. p * d = (24615 * p) * (f - s)
    BY <1>1
  <2>2. (24615 * p) * (f - s) <= (24615 * p) * f
    BY <1>1
  <2> QED  BY <1>1, <2>1, <2>2
<1>5. p * d <= N
  BY <1>1, <1>2, <1>3, <1>4
<1>6. g \in Nat /\ N < (g + 1) * d
  <2>1. N \in Nat
    OBVIOUS
  <2> HIDE DEF d, N
  <2> QED  BY <1>3, <2>1
<1>7. g >= p
  <2> SUFFICES ASSUME g < p PROVE FALSE
    BY <1>6
  <2>1. (g + 1) * d <= p * d
    <3> HIDE DEF d, g
    <3> QED  BY <1>3, <1>6
  <2> QED  BY <1>3, <1>5, <1>6, <2>1
<1> QED  BY <1>6, <1>7 DEF FreqPeriod
------------------------------------------------------------------------------
(* The tables                                                              *)

\* Every level a run can ask for has a clamp, and a clamp is a number.
LEMMA TableTypes ==
    ASSUME NEW c \in KnownCalibrations
    PROVE  /\ EffectTargetOdClamp(c) \in [0..4 -> Nat]
           /\ DOMAIN SteadyTargetOdClamp(c) \in {0..2, {0, 2}}
           /\ \A level \in {0, 2} : SteadyTargetOdClamp(c)[level] \in Nat
           /\ c.lraPeriod \in Nat /\ SteadyOlLraPeriodShift(c) \in Nat
           /\ SteadyOlLraPeriodShift(c) >= c.lraPeriod
<1>1. c \in Calibrations
  BY CalibrationAssumption
<1>2. /\ c.lraPeriod \in Nat \ {0} /\ c.longFrequencyShift \in Nat
      /\ c.shortVoltageMax \in Nat /\ c.longVoltageMax \in Nat
      /\ c.effectClamps \in [0..4 -> Nat] \cup {Absent}
      /\ c.steadyClamps \in [0..2 -> Nat] \cup {Absent}
      /\ c.scaledClamps \in [{0, 2} -> Nat] \cup {Absent}
  BY <1>1 DEF Calibrations, OdClampValues
<1>3. EffectTargetOdClamp(c) \in [0..4 -> Nat]
  BY <1>2 DEF EffectTargetOdClamp
<1>4. /\ DOMAIN SteadyTargetOdClamp(c) \in {0..2, {0, 2}}
      /\ \A level \in {0, 2} : SteadyTargetOdClamp(c)[level] \in Nat
  <2>1. CASE c.steadyClamps # Absent
    BY <1>2, <2>1 DEF SteadyTargetOdClamp
  <2>2. CASE c.steadyClamps = Absent
    BY <1>2, <2>2 DEF SteadyTargetOdClamp
  <2> QED  BY <2>1, <2>2
<1>5. SteadyOlLraPeriodShift(c) \in Nat /\ SteadyOlLraPeriodShift(c) >= c.lraPeriod
  BY <1>2, ShiftNotShorter, FrequencyAssumption DEF SteadyOlLraPeriodShift
<1> QED  BY <1>2, <1>3, <1>4, <1>5

LEMMA VolOffsetType ==
    ASSUME NEW effect \in Effects, NEW strength \in Strengths
    PROVE  VolOffset(effect, strength) \in 0..4
BY DEF Effects, Strengths, VolOffset, OdClampOffset
------------------------------------------------------------------------------
(* The inductive invariant                                                 *)

RunSteps == {"ctrl_loop", "duration", "mode", "lra_wave_shape", "clamp", "od_clamp",
             "period", "ol_lra_period", "activate"}
DynamicSteps == {"lra_wave_shape", "clamp", "od_clamp", "period", "ol_lra_period"}
TemperatureSteps == {"temp", "steady_clamp", "steady_period", "motion"}
Vibrations == {c \in Calls : c.op \in {"on", "perform"} /\ ~Refused(c)}

\* The arguments of the private on() are those of the call, and the third level
\* is that of a thread that has read warm.
RunFits(t) ==
    /\ call[t] \in Vibrations
    /\ \/ /\ call[t].op = "on"
          /\ run[t].mode = "rtp" /\ run[t].timeoutMs = Unsigned(call[t].timeoutMs)
          /\ run[t].volOffset \in {0, 2}
          /\ run[t].volOffset = 2 => run[t].reading = "warm"
          /\ cal.dynamic => run[t].reading \in Temperatures
       \/ /\ call[t].op = "perform"
          /\ run[t].mode = "waveform" /\ run[t].timeoutMs = Durations[call[t].effect]
          /\ run[t].volOffset = VolOffset(call[t].effect, call[t].strength)
          /\ run[t].reading = "none"

ControlInv(t) ==
    /\ pc[t] \in TemperatureSteps =>
          /\ call[t] \in Vibrations /\ call[t].op = "on" /\ run[t].mode = "rtp"
          /\ run[t].timeoutMs = Unsigned(call[t].timeoutMs) /\ run[t].volOffset = 0
    /\ pc[t] \in {"steady_clamp", "steady_period"} => run[t].reading \in {"cold", "warm"}
    /\ pc[t] = "motion" => run[t].reading = "warm"
    /\ pc[t] = "set_sequencer" =>
          call[t] \in Vibrations /\ call[t].op = "perform" /\ run[t].reading = "none"
    /\ pc[t] = "amplitude" => call[t] \in Calls /\ call[t].op = "setAmplitude"
    /\ pc[t] = "off" => call[t] \in Calls /\ call[t].op = "off"
    /\ pc[t] = "idle" => run[t] = NoRun
    /\ pc[t] \in RunSteps => RunFits(t)
    /\ pc[t] \in DynamicSteps => cal.dynamic
    /\ pc[t] # "reply" => started[t] = NotStarted

\* Where no other call has written under it, a call that has read a temperature
\* outside the band finds the configuration it has chosen.
Trusts(t) ==
    ~crossed[t] =>
    /\ pc[t] = "steady_period" =>
          mSteadyConfig.odClamp = IF run[t].reading = "warm" THEN "table" ELSE "bound"
    /\ pc[t] \in RunSteps \cup {"motion"} /\ run[t].reading \in {"cold", "warm"} =>
          felt = run[t].reading

\* The configuration of steady vibrations is that of the last temperature outside
\* the band, both of its fields, so that clamp and period agree.
SteadyInv ==
    /\ felt = "cold" =>
          mSteadyConfig = [odClamp |-> "bound", olLraPeriod |-> SteadyOlLraPeriodShift(cal)]
    /\ felt = "warm" =>
          mSteadyConfig = [odClamp |-> "table", olLraPeriod |-> cal.lraPeriod]

VInv == TypeOK /\ SteadyInv /\ \A t \in BinderThreads : ControlInv(t) /\ Trusts(t)

LEMMA UnsignedType ==
    ASSUME NEW n \in int32
    PROVE  Unsigned(n) \in uint32
BY WordAssumption DEF int32, uint32, Unsigned

LEMMA CallTypes ==
    ASSUME NEW c \in Calls
    PROVE  /\ c.op \in {"on", "off", "setAmplitude", "perform"}
           /\ c.op = "on" => c.timeoutMs \in int32 /\ c.callback \in BOOLEAN
           /\ c.op = "setAmplitude" => c.amplitude \in Int
           /\ c.op = "perform" => /\ c.effect \in Effects \cup {OtherEffect}
                                  /\ c.strength \in Strengths \cup {OtherStrength}
                                  /\ c.callback \in BOOLEAN
<1>1. c \in AllCalls
  BY CallAssumption
<1> QED  BY <1>1 DEF AllCalls

\* A vibration that is not refused has the arguments its steps need.
LEMMA VibrationTypes ==
    ASSUME NEW c \in Vibrations
    PROVE  /\ c \in Calls
           /\ c.op \in {"on", "perform"}
           /\ c.op = "on" => c.timeoutMs \in int32 /\ Unsigned(c.timeoutMs) \in uint32
           /\ c.op = "perform" => /\ c.effect \in Effects /\ c.strength \in Strengths
                                  /\ Durations[c.effect] \in uint32
                                  /\ VolOffset(c.effect, c.strength) \in 0..4
                                  /\ Sequence(c.effect) \in {"1 0", "2 0", "3 0", "4 0"}
<1>1. c \in Calls /\ c.op \in {"on", "perform"} /\ ~Refused(c)
  BY DEF Vibrations
<1>2. c.op = "on" => c.timeoutMs \in int32 /\ Unsigned(c.timeoutMs) \in uint32
  BY <1>1, CallTypes, UnsignedType
<1>3. ASSUME c.op = "perform"
      PROVE  c.effect \in Effects /\ c.strength \in Strengths
  BY <1>1, <1>3, CallTypes DEF Refused
<1>4. ASSUME c.op = "perform"
      PROVE  Sequence(c.effect) \in {"1 0", "2 0", "3 0", "4 0"}
  BY <1>3, <1>4 DEF Effects, Sequence
<1> QED  BY <1>1, <1>2, <1>3, <1>4, VolOffsetType, DurationAssumption

LEMMA NoRunType == NoRun \in Runs
BY WordAssumption DEF NoRun, Runs, uint32

LEMMA InitVInv ==
    Init => VInv
<1> SUFFICES ASSUME Init PROVE VInv
  OBVIOUS
<1>1. cal \in KnownCalibrations /\ cal.lraPeriod \in Nat
  BY TableTypes DEF Init
<1>2. attribute \in AttributeTypes
  BY <1>1, WordAssumption DEF Init, AttributeTypes, uint32
<1>3. /\ mSteadyConfig \in [odClamp : {"table", "bound"},
                            olLraPeriod : {cal.lraPeriod, SteadyOlLraPeriodShift(cal)}]
      /\ active \in BOOLEAN /\ felt \in {"cold", "warm", "unknown"}
  BY DEF Init
<1>4. /\ pc \in [BinderThreads -> Steps] /\ status \in [BinderThreads -> Statuses]
      /\ call \in [BinderThreads -> Calls \cup {NoCall}]
      /\ run \in [BinderThreads -> Runs]
      /\ started \in [BinderThreads -> AttributeTypes \cup {NotStarted}]
      /\ crossed \in [BinderThreads -> BOOLEAN]
  BY NoRunType DEF Init, Each, Steps, Statuses
<1>5. TypeOK
  BY <1>1, <1>2, <1>3, <1>4 DEF TypeOK
<1>6. ASSUME NEW t \in BinderThreads PROVE ControlInv(t) /\ Trusts(t)
  <2>1. pc[t] = "idle" /\ started[t] = NotStarted /\ run[t] = NoRun
    BY DEF Init, Each
  <2> QED  BY <2>1
           DEF ControlInv, Trusts, TemperatureSteps, RunSteps, DynamicSteps
<1> QED  BY <1>5, <1>6 DEF Init, VInv, SteadyInv

\* What a write of one attribute leaves of the types.
LEMMA AttributeWrites ==
    ASSUME NEW a \in AttributeTypes
    PROVE  /\ \A v \in 0..127 : [a EXCEPT !.rtp_input = v] \in AttributeTypes
           /\ \A v \in {"1 0", "2 0", "3 0", "4 0"} :
                 [a EXCEPT !.set_sequencer = v] \in AttributeTypes
           /\ \A v \in {"OPEN", "CLOSE"} : [a EXCEPT !.ctrl_loop = v] \in AttributeTypes
           /\ \A v \in uint32 : [a EXCEPT !.duration = v] \in AttributeTypes
           /\ \A v \in {"rtp", "waveform"} : [a EXCEPT !.mode = v] \in AttributeTypes
           /\ \A v \in {"steady", "effect"} :
                 [a EXCEPT !.lra_wave_shape = v] \in AttributeTypes
           /\ \A v \in Nat : [a EXCEPT !.od_clamp = v] \in AttributeTypes
           /\ \A v \in Nat : [a EXCEPT !.ol_lra_period = v] \in AttributeTypes
BY DEF AttributeTypes

LEMMA RunValues ==
    ASSUME VInv, NEW t \in BinderThreads, pc[t] \in RunSteps
    PROVE  /\ run[t] \in Runs /\ run[t].mode \in {"rtp", "waveform"}
           /\ run[t].timeoutMs \in uint32 /\ run[t].argument \in Nat
<1>1. run[t] \in Runs /\ RunFits(t)
  BY DEF VInv, TypeOK, ControlInv
<1> QED  BY <1>1 DEF Runs, RunFits

\* The level of a run exists among its clamps unless it was crossed; clamp and
\* period are numbers.
LEMMA RunClamp ==
    ASSUME VInv, NEW t \in BinderThreads, pc[t] \in RunSteps, cal.dynamic
    PROVE  /\ ~crossed[t] => run[t].volOffset \in DOMAIN OdClamp(run[t].mode)
           /\ run[t].volOffset \in DOMAIN OdClamp(run[t].mode) =>
                 OdClamp(run[t].mode)[run[t].volOffset] \in Nat
           /\ OlLraPeriod(run[t].mode) \in Nat
<1>1. RunFits(t) /\ cal \in KnownCalibrations
  BY DEF VInv, TypeOK, ControlInv
<1>2. /\ mSteadyConfig.odClamp \in {"table", "bound"}
      /\ mSteadyConfig.olLraPeriod \in {cal.lraPeriod, SteadyOlLraPeriodShift(cal)}
  BY DEF VInv, TypeOK
<1>3. CASE call[t].op = "on"
  <2>1. run[t].mode = "rtp" /\ run[t].volOffset \in {0, 2}
        /\ (run[t].volOffset = 2 => run[t].reading = "warm")
    BY <1>1, <1>3 DEF RunFits
  <2>2. ~crossed[t] /\ run[t].volOffset = 2 => mSteadyConfig.odClamp = "table"
    BY <2>1 DEF VInv, Trusts, SteadyInv
  <2> QED  BY <1>1, <1>2, <2>1, <2>2, TableTypes
           DEF OdClamp, OlLraPeriod, STEADY_VOLTAGE_LOWER_BOUND
<1>4. CASE call[t].op = "perform"
  <2>1. run[t].mode = "waveform" /\ run[t].volOffset \in 0..4
    BY <1>1, <1>4, VibrationTypes DEF RunFits
  <2> QED  BY <1>1, <2>1, TableTypes DEF OdClamp, OlLraPeriod
<1> QED  BY <1>1, <1>3, <1>4 DEF RunFits

LEMMA Div1000 ==
    ASSUME NEW n \in Nat, n < 128000
    PROVE  n \div 1000 \in 0..127
<1> DEFINE d == 1000
           q == n \div d
<1>1. d \in Nat \ {0}
  OBVIOUS
<1>2. q \in Nat /\ q * d <= n
  <2> HIDE DEF d
  <2> QED  BY <1>1
<1> HIDE DEF q
<1>3. q \in 0..127
  BY <1>2
<1> QED  BY <1>3 DEF q

\* A legal amplitude fits in the seven bits of rtp_input.
LEMMA RtpInputFits ==
    ASSUME NEW amplitude \in 1..1000
    PROVE  (amplitude * 127 + 500) \div 1000 \in 0..127
<1> DEFINE n == amplitude * 127 + 500
<1>1. n \in Nat /\ n < 128000
  OBVIOUS
<1> HIDE DEF n
<1>2. n \div 1000 \in 0..127
  BY <1>1, Div1000
<1> QED  BY <1>2 DEF n

\* setAmplitude() refuses, writes the register, or fails to.
LEMMA AmplitudeCases ==
    ASSUME NEW t \in BinderThreads, SetAmplitude(t)
    PROVE  \/ UNCHANGED attribute /\ Finish(t, "EX_ILLEGAL_ARGUMENT")
           \/ UNCHANGED attribute /\ Finish(t, "EX_ILLEGAL_STATE")
           \/ /\ \E value \in 0..127 : attribute' = [attribute EXCEPT !.rtp_input = value]
              /\ Finish(t, "OK")
<1>1. CASE call[t].amplitude \notin 1..1000
  BY <1>1 DEF SetAmplitude
<1>2. CASE call[t].amplitude \in 1..1000
  <2> DEFINE asked == call[t].amplitude
             scaled == (asked * 127 + 500) \div 1000
  <2>1. scaled \in 0..127
    <3>1. asked \in 1..1000
      BY <1>2
    <3> HIDE DEF asked
    <3> QED  BY <3>1, RtpInputFits
  <2>2. PICK written \in Outcome("rtp_input") :
            IF written
            THEN attribute' = [attribute EXCEPT !.rtp_input = scaled] /\ Finish(t, "OK")
            ELSE Finish(t, "EX_ILLEGAL_STATE") /\ UNCHANGED attribute
    BY <1>2, Zenon DEF SetAmplitude
  <2> HIDE DEF scaled
  <2>3. CASE written
    BY <2>1, <2>2, <2>3
  <2>4. CASE ~written
    BY <2>2, <2>4
  <2> QED  BY <2>3, <2>4
<1> QED  BY <1>1, <1>2

------------------------------------------------------------------------------
(* One step of one thread                                                  *)

LEMMA StepLocals ==
    ASSUME TypeOK, NEW t \in BinderThreads, NEW step \in Steps, NEW r \in Runs,
           NEW result \in Statuses, Step(t, step, r, result)
    PROVE  /\ pc' \in [BinderThreads -> Steps] /\ status' \in [BinderThreads -> Statuses]
           /\ run' \in [BinderThreads -> Runs]
           /\ pc'[t] = step /\ run'[t] = r /\ status'[t] = result /\ call' = call
           /\ \A u \in BinderThreads \ {t} :
                 pc'[u] = pc[u] /\ run'[u] = run[u] /\ status'[u] = status[u]
BY DEF TypeOK, Step

LEMMA CrossType ==
    ASSUME TypeOK, NEW t \in BinderThreads, Cross(t)
    PROVE  /\ crossed' \in [BinderThreads -> BOOLEAN] /\ crossed'[t] = crossed[t]
           /\ \A u \in BinderThreads \ {t} :
                 (crossed[u] => crossed'[u]) /\ (pc[u] # "idle" => crossed'[u])
BY DEF TypeOK, Cross

\* What a step of t leaves of thread u: its own variables, and the shared ones
\* unless it has told u.
Lasting == Attributes \ {"rtp_input"}
LeavesAlone(u) ==
    /\ cal' = cal
    /\ pc'[u] = pc[u] /\ call'[u] = call[u] /\ run'[u] = run[u] /\ status'[u] = status[u]
    /\ started'[u] = started[u]
    /\ crossed[u] => crossed'[u]
    /\ \/ pc[u] = "idle"
       \/ crossed'[u]
       \/ /\ UNCHANGED <<mSteadyConfig, felt>>
          /\ \A name \in Lasting : attribute'[name] = attribute[name]

LEMMA OthersKeep ==
    ASSUME VInv, NEW u \in BinderThreads, LeavesAlone(u), TypeOK'
    PROVE  ControlInv(u)' /\ Trusts(u)'
<1>1. ControlInv(u) /\ Trusts(u)
  BY DEF VInv
<1>2. ControlInv(u)'
  BY <1>1 DEF LeavesAlone, ControlInv, RunFits
<1>3. Trusts(u)'
  BY <1>1 DEF LeavesAlone, Trusts, RunSteps
<1> QED  BY <1>2, <1>3

\* The steps that change nothing but the variables of their thread.
LEMMA LocalStep ==
    ASSUME VInv, NEW t \in BinderThreads, NEW step \in Steps, NEW r \in Runs,
           NEW result \in Statuses, Step(t, step, r, result),
           UNCHANGED <<cal, mSteadyConfig, attribute, active, started,
                       crossed, felt>>
    PROVE  TypeOK' /\ SteadyInv' /\ \A u \in BinderThreads \ {t} : LeavesAlone(u)
<1>1. TypeOK
  BY DEF VInv
<1>2. TypeOK'
  BY <1>1, StepLocals DEF TypeOK
<1>3. SteadyInv'
  BY DEF VInv, SteadyInv
<1>4. \A u \in BinderThreads \ {t} : LeavesAlone(u)
  BY <1>1, StepLocals DEF LeavesAlone
<1> QED  BY <1>2, <1>3, <1>4

\* The steps of the private on(), which write an attribute or fail to.
LEMMA WriteStep ==
    ASSUME VInv, NEW t \in BinderThreads, NEW step \in Steps, NEW r \in Runs,
           NEW result \in Statuses, Step(t, step, r, result),
           attribute' \in AttributeTypes, Cross(t) \/ WriteNothing,
           UNCHANGED <<cal, mSteadyConfig, active, started, felt>>
    PROVE  /\ TypeOK' /\ SteadyInv' /\ \A u \in BinderThreads \ {t} : LeavesAlone(u)
           /\ crossed'[t] = crossed[t]
<1>1. TypeOK
  BY DEF VInv
<1>2. /\ crossed' \in [BinderThreads -> BOOLEAN] /\ crossed'[t] = crossed[t]
      /\ \A u \in BinderThreads \ {t} :
            /\ crossed[u] => crossed'[u]
            /\ pc[u] = "idle" \/ crossed'[u] \/ attribute' = attribute
  <2>1. CASE Cross(t)
    BY <1>1, <2>1, CrossType
  <2>2. CASE WriteNothing
    BY <1>1, <2>2 DEF WriteNothing, TypeOK
  <2> QED  BY <2>1, <2>2
<1>3. TypeOK'
  BY <1>1, <1>2, StepLocals DEF TypeOK
<1>4. SteadyInv'
  BY DEF VInv, SteadyInv
<1>5. \A u \in BinderThreads \ {t} : LeavesAlone(u)
  BY <1>1, <1>2, StepLocals DEF LeavesAlone
<1> QED  BY <1>2, <1>3, <1>4, <1>5

\* A write of the private on() leaves its thread in order: the run is what it was.
LEMMA RunGoesOn ==
    ASSUME VInv, NEW t \in BinderThreads, NEW step \in RunSteps \cup {"reply"},
           NEW value \in Nat, NEW result \in Statuses, pc[t] \in RunSteps,
           step \in DynamicSteps => cal.dynamic,
           Step(t, step, [run[t] EXCEPT !.argument = value], result),
           UNCHANGED <<cal, mSteadyConfig, felt, started>>, crossed'[t] = crossed[t]
    PROVE  ControlInv(t)' /\ Trusts(t)'
<1>1. TypeOK /\ ControlInv(t) /\ Trusts(t) /\ RunFits(t) /\ run[t] \in Runs
  BY DEF VInv, ControlInv, TypeOK
<1>2. [run[t] EXCEPT !.argument = value] \in Runs /\ step \in Steps
  BY <1>1 DEF Runs, RunSteps, Steps, WriteSteps, ReadSteps
<1>3. /\ pc'[t] = step /\ call'[t] = call[t] /\ started'[t] = started[t]
      /\ run'[t] = [run[t] EXCEPT !.argument = value]
  BY <1>1, <1>2, StepLocals
<1>4. /\ run'[t].mode = run[t].mode /\ run'[t].timeoutMs = run[t].timeoutMs
      /\ run'[t].volOffset = run[t].volOffset /\ run'[t].reading = run[t].reading
  BY <1>1, <1>3 DEF Runs
<1>5. RunFits(t)'
  BY <1>1, <1>3, <1>4 DEF RunFits
<1>6. ControlInv(t)'
  <2>1. pc[t] # "reply" => started[t] = NotStarted
    BY <1>1 DEF ControlInv
  <2>2. pc[t] # "reply"
    BY DEF RunSteps
  <2> QED  BY <1>3, <1>5, <2>1, <2>2
           DEF ControlInv, TemperatureSteps, RunSteps, DynamicSteps
<1>7. Trusts(t)'
  BY <1>1, <1>3, <1>4 DEF Trusts, RunSteps
<1> QED  BY <1>6, <1>7

\* An attribute is written from the private on(), or not, and the run goes on.
LEMMA SetKeeps ==
    ASSUME VInv, NEW t \in BinderThreads, NEW name \in Lasting, NEW value,
           NEW step \in RunSteps, Set(t, name, value, step), name \in RunSteps,
           [attribute EXCEPT ![name] = value] \in AttributeTypes,
           step \in DynamicSteps => cal.dynamic
    PROVE  VInv'
<1>1. TypeOK /\ attribute \in AttributeTypes /\ run[t] \in Runs /\ status[t] \in Statuses
  BY DEF VInv, TypeOK
<1>2. /\ pc[t] = name
      /\ Step(t, step, [run[t] EXCEPT !.argument = 0], status[t])
      /\ UNCHANGED <<cal, mSteadyConfig, active, started, felt>>
  BY DEF Set
<1>3. attribute' \in AttributeTypes /\ (Cross(t) \/ WriteNothing)
  BY <1>1 DEF Set, Write, WriteNothing
<1>4. [run[t] EXCEPT !.argument = 0] \in Runs /\ step \in Steps
  BY <1>1 DEF Runs, RunSteps, Steps, WriteSteps, ReadSteps
<1>5. /\ TypeOK' /\ SteadyInv' /\ \A u \in BinderThreads \ {t} : LeavesAlone(u)
      /\ crossed'[t] = crossed[t]
  BY <1>1, <1>2, <1>3, <1>4, WriteStep
<1>6. ControlInv(t)' /\ Trusts(t)'
  BY <1>1, <1>2, <1>5, RunGoesOn
<1> QED  BY <1>5, <1>6, OthersKeep DEF VInv

LEMMA NextVInv ==
    VInv /\ [Next]_vars => VInv'
<1> SUFFICES ASSUME VInv, [Next]_vars PROVE VInv'
  OBVIOUS
<1>t. /\ TypeOK /\ SteadyInv
      /\ attribute \in AttributeTypes /\ cal \in KnownCalibrations
      /\ \A t \in BinderThreads :
            /\ ControlInv(t) /\ Trusts(t) /\ run[t] \in Runs /\ status[t] \in Statuses
            /\ call[t] \in Calls \cup {NoCall} /\ crossed[t] \in BOOLEAN
  BY DEF VInv, TypeOK
<1>k. /\ cal.lraPeriod \in Nat /\ SteadyOlLraPeriodShift(cal) \in Nat
  BY <1>t, TableTypes
\* With the two lemmas on the other threads, only the moving one is left.
<1>o. ASSUME NEW t \in BinderThreads, TypeOK', SteadyInv',
             \A u \in BinderThreads \ {t} : LeavesAlone(u), ControlInv(t)' /\ Trusts(t)'
      PROVE  VInv'
  BY <1>o, OthersKeep DEF VInv
<1>l. ASSUME NEW t \in BinderThreads, NEW step \in Steps, NEW r \in Runs,
             NEW result \in Statuses, Step(t, step, r, result),
             UNCHANGED <<cal, mSteadyConfig, attribute, active, started,
                         crossed, felt>>,
             ControlInv(t)' /\ Trusts(t)'
      PROVE  VInv'
  BY <1>l, <1>o, LocalStep
<1>1. ASSUME NEW t \in BinderThreads, NEW c \in Calls, Begin(t, c) PROVE VInv'
  <2> DEFINE step == IF Refused(c) THEN "reply" ELSE FirstStep(c)
             r == IF Refused(c) THEN run[t] ELSE FirstRun(c)
             result == IF Refused(c) THEN "EX_UNSUPPORTED_OPERATION" ELSE status[t]
  <2>1. FirstStep(c) \in {"temp", "ctrl_loop", "set_sequencer", "off", "amplitude"}
        /\ (FirstStep(c) = "temp" => c.op = "on" /\ cal.dynamic)
        /\ (FirstStep(c) = "ctrl_loop" => c.op = "on" /\ ~cal.dynamic)
        /\ (FirstStep(c) = "set_sequencer" => c.op = "perform")
        /\ (FirstStep(c) = "amplitude" => c.op = "setAmplitude")
        /\ (FirstStep(c) = "off" => c.op = "off")
    BY CallTypes DEF FirstStep
  <2>2. /\ FirstRun(c) \in Runs /\ FirstRun(c).reading = "none"
        /\ c.op = "on" => /\ FirstRun(c).timeoutMs = Unsigned(c.timeoutMs)
                          /\ FirstRun(c).mode = "rtp" /\ FirstRun(c).volOffset = 0
    <3>1. CASE c.op = "on"
      <4>1. FirstRun(c) = [reading |-> "none", timeoutMs |-> Unsigned(c.timeoutMs),
                           mode |-> "rtp", volOffset |-> 0, argument |-> 0]
        BY <3>1 DEF FirstRun, NoRun
      <4>2. Unsigned(c.timeoutMs) \in uint32
        BY <3>1, CallTypes, UnsignedType
      <4> QED  BY <4>1, <4>2 DEF Runs
    <3>2. CASE c.op # "on"
      BY <3>2, NoRunType DEF FirstRun, NoRun
    <3> QED  BY <3>1, <3>2
  <2>3. step \in Steps /\ r \in Runs /\ result \in Statuses
    BY <1>t, <2>1, <2>2 DEF Steps, WriteSteps, ReadSteps, Statuses
  <2>4. /\ pc' = [pc EXCEPT ![t] = step] /\ run' = [run EXCEPT ![t] = r]
        /\ status' = [status EXCEPT ![t] = result] /\ call' = [call EXCEPT ![t] = c]
        /\ pc[t] = "idle" /\ UNCHANGED <<cal, mSteadyConfig, attribute,
                                         active, started, crossed, felt>>
    BY <1>1 DEF Begin
  <2> HIDE DEF step, r, result
  <2>5. TypeOK'
    BY <1>t, <2>3, <2>4 DEF TypeOK
  <2>6. SteadyInv'
    BY <1>t, <2>4 DEF SteadyInv
  <2>7. \A u \in BinderThreads \ {t} : LeavesAlone(u)
    BY <1>t, <2>4 DEF LeavesAlone, TypeOK
  <2>8. /\ pc'[t] = step /\ run'[t] = r /\ call'[t] = c
        /\ started'[t] = NotStarted /\ cal' = cal
    BY <1>t, <2>4 DEF TypeOK, ControlInv
  <2>9. ControlInv(t)' /\ Trusts(t)'
    <3>1. CASE Refused(c)
      BY <2>8, <3>1
         DEF step, ControlInv, Trusts, TemperatureSteps, RunSteps, DynamicSteps
    <3>2. CASE ~Refused(c)
      <4>1. step = FirstStep(c) /\ r = FirstRun(c)
            /\ (c.op \in {"on", "perform"} => c \in Vibrations)
        BY <3>2 DEF step, r, Vibrations
      <4>2. run'[t].reading = "none"
        BY <2>2, <2>8, <4>1
      <4>3. c.op = "perform" => run'[t].reading = "none"
        BY <4>2
      <4>4. ControlInv(t)'
        BY <2>1, <2>2, <2>8, <4>1, <4>2
           DEF ControlInv, RunFits, TemperatureSteps, RunSteps, DynamicSteps
      <4>5. Trusts(t)'
        BY <2>1, <2>8, <4>1, <4>2 DEF Trusts
      <4> QED  BY <4>4, <4>5
    <3> QED  BY <3>1, <3>2
  <2> QED  BY <1>o, <2>5, <2>6, <2>7, <2>9
\* A call that has come to its end.
<1>e. ASSUME NEW t \in BinderThreads, NEW result \in Statuses, Finish(t, result),
             UNCHANGED <<cal, mSteadyConfig, felt, started, crossed>>,
             active' \in BOOLEAN, attribute' \in AttributeTypes,
             \A name \in Lasting : attribute'[name] = attribute[name]
      PROVE  VInv'
  <2>1. Step(t, "reply", run[t], result) /\ "reply" \in Steps
    BY <1>e DEF Finish, Steps
  <2>2. TypeOK' /\ pc'[t] = "reply"
    BY <1>e, <1>t, <2>1, StepLocals DEF TypeOK
  <2>3. SteadyInv'
    BY <1>e, <1>t DEF SteadyInv
  <2>4. \A u \in BinderThreads \ {t} : LeavesAlone(u)
    BY <1>e, <1>t, <2>1, StepLocals DEF LeavesAlone
  <2>5. ControlInv(t)' /\ Trusts(t)'
    BY <2>2 DEF ControlInv, Trusts, TemperatureSteps, RunSteps, DynamicSteps
  <2> QED  BY <1>o, <2>2, <2>3, <2>4, <2>5
<1>2. ASSUME NEW t \in BinderThreads, Off(t) PROVE VInv'
  <2>1. PICK written \in Outcome("activate") :
          /\ active' = (active /\ ~written)
          /\ Finish(t, IF written THEN "OK" ELSE "EX_ILLEGAL_STATE")
    BY <1>2 DEF Off
  <2>2. active' \in BOOLEAN
    BY <2>1
  <2> QED  BY <1>2, <1>e, <1>t, <2>1, <2>2 DEF Off, Statuses
<1>3. ASSUME NEW t \in BinderThreads, SetAmplitude(t) PROVE VInv'
  <2>1. UNCHANGED <<cal, mSteadyConfig, active, felt, started, crossed>>
        /\ active' \in BOOLEAN
    BY <1>3, <1>t DEF SetAmplitude, TypeOK
  <2>2. CASE UNCHANGED attribute
    BY <1>3, <1>e, <1>t, <2>1, <2>2, AmplitudeCases DEF Statuses
  <2>3. CASE \E value \in 0..127 : attribute' = [attribute EXCEPT !.rtp_input = value]
    <3>1. attribute' \in AttributeTypes
          /\ \A name \in Lasting : attribute'[name] = attribute[name]
      BY <1>t, <2>3 DEF AttributeTypes, Lasting, Attributes
    <3> QED  BY <1>3, <1>e, <2>1, <3>1, AmplitudeCases DEF Statuses
  <2> QED  BY <1>3, <2>2, <2>3, AmplitudeCases
<1>4. ASSUME NEW t \in BinderThreads, ReadTemperature(t) PROVE VInv'
  <2>1. PICK reading \in Temperatures :
          Step(t, IF reading = "cool" THEN "ctrl_loop" ELSE "steady_clamp",
               [run[t] EXCEPT !.reading = reading], status[t])
    BY <1>4 DEF ReadTemperature
  <2> DEFINE r == [run[t] EXCEPT !.reading = reading]
             step == IF reading = "cool" THEN "ctrl_loop" ELSE "steady_clamp"
  <2>2. reading \in Temperatures /\ r \in Runs /\ step \in Steps
    BY <1>t DEF TypeOK, Temperatures, Runs, Steps, WriteSteps
  <2>3. /\ r.reading = reading /\ r.mode = run[t].mode /\ r.timeoutMs = run[t].timeoutMs
        /\ r.volOffset = run[t].volOffset
    BY <1>t DEF Runs
  <2>4. /\ call[t] \in Vibrations /\ call[t].op = "on" /\ run[t].mode = "rtp"
        /\ run[t].timeoutMs = Unsigned(call[t].timeoutMs) /\ run[t].volOffset = 0
        /\ started[t] = NotStarted
    BY <1>4, <1>t DEF ReadTemperature, ControlInv, TemperatureSteps
  <2> HIDE DEF r, step
  <2>5. /\ pc'[t] = step /\ run'[t] = r /\ call' = call /\ started' = started
    BY <1>4, <1>t, <2>1, <2>2, StepLocals DEF ReadTemperature, r, step
  <2>6. ControlInv(t)' /\ Trusts(t)'
    BY <2>2, <2>3, <2>4, <2>5
       DEF step, ControlInv, RunFits, Trusts, TemperatureSteps, RunSteps, DynamicSteps,
           Temperatures
  <2> QED  BY <1>4, <1>l, <1>t, <2>1, <2>2, <2>6 DEF ReadTemperature, r, step
\* A write to the configuration of steady vibrations.
<1>c. ASSUME NEW t \in BinderThreads, NEW step \in Steps, Cross(t), Go(t, step),
             mSteadyConfig' \in [odClamp : {"table", "bound"},
                                 olLraPeriod : {cal.lraPeriod, SteadyOlLraPeriodShift(cal)}],
             felt' \in {"cold", "warm", "unknown"},
             UNCHANGED <<cal, attribute, active, started>>
      PROVE  /\ TypeOK' /\ \A u \in BinderThreads \ {t} : LeavesAlone(u)
             /\ pc'[t] = step /\ run'[t] = run[t] /\ call' = call /\ cal' = cal
             /\ crossed'[t] = crossed[t]
  <2>1. Step(t, step, run[t], status[t])
    BY <1>c DEF Go
  <2>2. TypeOK'
    BY <1>c, <1>t, <2>1, StepLocals, CrossType DEF TypeOK
  <2>3. \A u \in BinderThreads \ {t} : LeavesAlone(u)
    BY <1>c, <1>t, <2>1, StepLocals, CrossType DEF LeavesAlone
  <2> QED  BY <1>c, <1>t, <2>1, <2>2, <2>3, StepLocals, CrossType
<1>5. ASSUME NEW t \in BinderThreads, SetSteadyClamp(t) PROVE VInv'
  <2>1. /\ mSteadyConfig' \in [odClamp : {"table", "bound"},
                               olLraPeriod : {cal.lraPeriod, SteadyOlLraPeriodShift(cal)}]
        /\ mSteadyConfig'.odClamp = IF run[t].reading = "warm" THEN "table" ELSE "bound"
        /\ felt' = "unknown" /\ "steady_period" \in Steps
    BY <1>5, <1>t DEF SetSteadyClamp, TypeOK, Steps
  <2>2. /\ TypeOK' /\ \A u \in BinderThreads \ {t} : LeavesAlone(u)
        /\ pc'[t] = "steady_period" /\ run'[t] = run[t] /\ call' = call /\ cal' = cal
        /\ crossed'[t] = crossed[t] /\ started' = started /\ pc[t] = "steady_clamp"
    BY <1>5, <1>c, <2>1 DEF SetSteadyClamp
  <2>3. SteadyInv'
    BY <2>1 DEF SteadyInv
  <2>4. ControlInv(t)'
    BY <1>t, <2>2 DEF ControlInv, TemperatureSteps, RunSteps, DynamicSteps
  <2>5. Trusts(t)'
    BY <2>1, <2>2 DEF Trusts, RunSteps
  <2> QED  BY <1>o, <2>2, <2>3, <2>4, <2>5
<1>6. ASSUME NEW t \in BinderThreads, SetSteadyPeriod(t) PROVE VInv'
  <2> DEFINE period == IF run[t].reading = "warm" THEN cal.lraPeriod
                       ELSE SteadyOlLraPeriodShift(cal)
  <2>0. /\ pc[t] = "steady_period" /\ call[t] \in Vibrations /\ call[t].op = "on"
        /\ run[t].mode = "rtp" /\ run[t].timeoutMs = Unsigned(call[t].timeoutMs)
        /\ run[t].volOffset = 0 /\ run[t].reading \in {"cold", "warm"}
        /\ started[t] = NotStarted
    BY <1>6, <1>t DEF SetSteadyPeriod, ControlInv, TemperatureSteps
  <2>1. /\ mSteadyConfig' \in [odClamp : {"table", "bound"},
                               olLraPeriod : {cal.lraPeriod, SteadyOlLraPeriodShift(cal)}]
        /\ mSteadyConfig' = [odClamp |-> mSteadyConfig.odClamp, olLraPeriod |-> period]
        /\ felt' = (IF crossed[t] THEN "unknown" ELSE run[t].reading)
        /\ felt' \in {"cold", "warm", "unknown"}
    BY <1>6, <1>t, <2>0 DEF SetSteadyPeriod, TypeOK
  <2>2. AfterTemperature(t) \in {"motion", "ctrl_loop"} /\ AfterTemperature(t) \in Steps
        /\ (AfterTemperature(t) = "motion" => run[t].reading = "warm")
    BY DEF AfterTemperature, Steps, WriteSteps, ReadSteps
  <2>3. /\ TypeOK' /\ \A u \in BinderThreads \ {t} : LeavesAlone(u)
        /\ pc'[t] = AfterTemperature(t) /\ run'[t] = run[t] /\ call' = call /\ cal' = cal
        /\ crossed'[t] = crossed[t] /\ started' = started
    BY <1>6, <1>c, <2>1, <2>2 DEF SetSteadyPeriod
  <2>4. SteadyInv'
    <3>1. CASE crossed[t]
      BY <2>1, <3>1 DEF SteadyInv
    <3>2. CASE ~crossed[t]
      <4>1. mSteadyConfig.odClamp = IF run[t].reading = "warm" THEN "table" ELSE "bound"
        BY <1>t, <2>0, <3>2 DEF Trusts
      <4> QED  BY <2>0, <2>1, <2>3, <3>2, <4>1 DEF SteadyInv
    <3> QED  BY <3>1, <3>2
  <2>5. ControlInv(t)'
    BY <2>0, <2>2, <2>3
       DEF ControlInv, RunFits, TemperatureSteps, RunSteps, DynamicSteps, Temperatures
  <2>6. Trusts(t)'
    BY <2>1, <2>2, <2>3 DEF Trusts
  <2> QED  BY <1>o, <2>3, <2>4, <2>5, <2>6
<1>7. ASSUME NEW t \in BinderThreads, NEW still, Still(t, still),
             pc[t] = "motion", cal' = cal,
             UNCHANGED <<felt, crossed, started>>
      PROVE  ControlInv(t)' /\ Trusts(t)'
  <2> DEFINE r == [run[t] EXCEPT !.volOffset = IF still THEN 2 ELSE 0]
  <2>1. /\ call[t] \in Vibrations /\ call[t].op = "on" /\ run[t].mode = "rtp"
        /\ run[t].timeoutMs = Unsigned(call[t].timeoutMs) /\ run[t].reading = "warm"
        /\ started[t] = NotStarted
    BY <1>7, <1>t DEF ControlInv, TemperatureSteps
  <2>2. /\ r \in Runs /\ "ctrl_loop" \in Steps /\ r.mode = "rtp" /\ r.reading = "warm"
        /\ r.timeoutMs = run[t].timeoutMs /\ r.volOffset \in {0, 2}
    BY <1>t, <2>1 DEF Runs, Steps, WriteSteps
  <2> HIDE DEF r
  <2>3. /\ pc'[t] = "ctrl_loop" /\ run'[t] = r /\ call' = call /\ started' = started
        /\ crossed' = crossed /\ felt' = felt
    BY <1>7, <1>t, <2>2, StepLocals DEF Still, r
  <2>4. ControlInv(t)'
    BY <1>7, <2>1, <2>2, <2>3
       DEF ControlInv, RunFits, TemperatureSteps, RunSteps, DynamicSteps, Temperatures
  <2>5. ~crossed[t] => felt = "warm"
    BY <1>7, <1>t, <2>1 DEF Trusts
  <2>6. Trusts(t)'
    BY <2>2, <2>3, <2>5 DEF Trusts
  <2> QED  BY <2>4, <2>6
<1>8. ASSUME NEW t \in BinderThreads, MotionAwareness(t) PROVE VInv'
  <2>1. pc[t] = "motion" /\ UNCHANGED <<cal, mSteadyConfig, attribute, active,
                                         started, crossed, felt>>
    BY <1>8 DEF MotionAwareness
  <2>2. PICK still \in BOOLEAN : Still(t, still)
    BY <1>8 DEF MotionAwareness
  <2>3. ControlInv(t)' /\ Trusts(t)'
    BY <1>7, <2>1, <2>2
  <2>4. [run[t] EXCEPT !.volOffset = IF still THEN 2 ELSE 0] \in Runs
        /\ "ctrl_loop" \in Steps
    BY <1>t DEF Runs, Steps, WriteSteps
  <2> QED  BY <1>l, <1>t, <2>1, <2>2, <2>3, <2>4 DEF Still
<1>10. ASSUME NEW t \in BinderThreads, SetSequencer(t) PROVE VInv'
  <2> DEFINE r == [run[t] EXCEPT !.timeoutMs = Durations[call[t].effect],
                                 !.mode = "waveform",
                                 !.volOffset = VolOffset(call[t].effect, call[t].strength)]
  <2>1. /\ pc[t] = "set_sequencer" /\ call[t] \in Vibrations /\ call[t].op = "perform"
        /\ started[t] = NotStarted /\ run[t].reading = "none"
    BY <1>10, <1>t DEF SetSequencer, ControlInv
  <2>2. /\ r \in Runs /\ r.timeoutMs = Durations[call[t].effect] /\ r.mode = "waveform"
        /\ r.volOffset = VolOffset(call[t].effect, call[t].strength) /\ r.reading = "none"
        /\ "ctrl_loop" \in Steps
    BY <1>t, <2>1, VibrationTypes DEF Runs, Steps, WriteSteps
  <2>3. attribute' \in AttributeTypes /\ (Cross(t) \/ WriteNothing)
    <3>1. Sequence(call[t].effect) \in {"1 0", "2 0", "3 0", "4 0"}
      BY <2>1, VibrationTypes
    <3> QED  BY <1>10, <1>t, <3>1, AttributeWrites DEF SetSequencer, Write, WriteNothing
  <2>4. Step(t, "ctrl_loop", r, status[t])
        /\ UNCHANGED <<cal, mSteadyConfig, active, started, felt>>
    BY <1>10 DEF SetSequencer
  <2> HIDE DEF r
  <2>5. /\ TypeOK' /\ SteadyInv' /\ \A u \in BinderThreads \ {t} : LeavesAlone(u)
        /\ pc'[t] = "ctrl_loop" /\ run'[t] = r /\ call' = call
    BY <1>t, <2>2, <2>3, <2>4, WriteStep, StepLocals
  <2>6. ControlInv(t)'
    BY <2>1, <2>2, <2>4, <2>5
       DEF ControlInv, RunFits, TemperatureSteps, RunSteps, DynamicSteps
  <2>7. Trusts(t)'
    BY <2>2, <2>5 DEF Trusts
  <2> QED  BY <1>o, <2>5, <2>6, <2>7
<1>r. ASSUME NEW t \in BinderThreads, pc[t] \in RunSteps
      PROVE  /\ run[t].mode \in {"rtp", "waveform"} /\ run[t].timeoutMs \in uint32
             /\ run[t].argument \in Nat /\ (pc[t] \in DynamicSteps => cal.dynamic)
  BY <1>r, <1>t, RunValues DEF ControlInv
<1>11. ASSUME NEW t \in BinderThreads, SetCtrlLoop(t) PROVE VInv'
  <2> DEFINE loop == LoopMode(run[t].mode, run[t].timeoutMs)
  <2>1. [attribute EXCEPT !.ctrl_loop = loop] \in AttributeTypes
    BY <1>t, AttributeWrites DEF LoopMode
  <2> HIDE DEF loop
  <2> QED  BY <1>11, <2>1, SetKeeps
           DEF SetCtrlLoop, loop, Lasting, Attributes, RunSteps, DynamicSteps
<1>12. ASSUME NEW t \in BinderThreads, SetDuration(t) PROVE VInv'
  <2>0. pc[t] = "duration" /\ pc[t] \in RunSteps
    BY <1>12 DEF SetDuration, RunSteps
  <2>1. run[t].timeoutMs \in uint32
    BY <1>r, <2>0
  <2>2. CASE Write(t, "duration", run[t].timeoutMs) /\ Go(t, "mode")
    <3>1. attribute' \in AttributeTypes /\ Cross(t)
      BY <1>t, <2>1, <2>2, AttributeWrites DEF Write
    <3>2. Step(t, "mode", run[t], status[t]) /\ "mode" \in Steps
      BY <2>2 DEF Go, Steps, WriteSteps
    <3>3. run[t] = [run[t] EXCEPT !.argument = run[t].argument] /\ run[t].argument \in Nat
      BY <1>t DEF Runs
    <3>4. /\ TypeOK' /\ SteadyInv' /\ \A u \in BinderThreads \ {t} : LeavesAlone(u)
          /\ crossed'[t] = crossed[t]
      BY <1>12, <1>t, <3>1, <3>2, WriteStep DEF SetDuration
    <3>5. ControlInv(t)' /\ Trusts(t)'
      BY <1>12, <1>t, <2>0, <3>2, <3>3, <3>4, RunGoesOn
         DEF SetDuration, RunSteps, DynamicSteps
    <3> QED  BY <1>o, <3>4, <3>5
  <2>3. CASE Finish(t, "EX_ILLEGAL_STATE") /\ WriteNothing
    BY <1>12, <1>e, <1>t, <2>3 DEF SetDuration, WriteNothing, Statuses, TypeOK
  <2> QED  BY <1>12, <2>2, <2>3 DEF SetDuration
<1>13. ASSUME NEW t \in BinderThreads, SetMode(t) PROVE VInv'
  <2> DEFINE step == IF cal.dynamic THEN "lra_wave_shape" ELSE "activate"
  <2>1. Set(t, "mode", run[t].mode, step) /\ step \in RunSteps
        /\ (step \in DynamicSteps => cal.dynamic)
    BY <1>13 DEF SetMode, RunSteps, DynamicSteps
  <2>2. [attribute EXCEPT !.mode = run[t].mode] \in AttributeTypes
    BY <1>r, <1>t, <2>1, AttributeWrites DEF Set, RunSteps
  <2> HIDE DEF step
  <2> QED  BY <2>1, <2>2, SetKeeps DEF Lasting, Attributes, RunSteps
<1>14. ASSUME NEW t \in BinderThreads, SetLraWaveShape(t) PROVE VInv'
  <2> DEFINE shape == IF run[t].mode = "rtp" THEN "steady" ELSE "effect"
  <2>1. [attribute EXCEPT !.lra_wave_shape = shape] \in AttributeTypes
    BY <1>t, AttributeWrites
  <2>2. Set(t, "lra_wave_shape", shape, "clamp")
    BY <1>14 DEF SetLraWaveShape
  <2>3. cal.dynamic
    BY <1>r, <2>2 DEF Set, RunSteps, DynamicSteps
  <2> HIDE DEF shape
  <2> QED  BY <2>1, <2>2, <2>3, SetKeeps DEF Lasting, Attributes, RunSteps
\* A value that is read from the configuration.
<1>v. ASSUME NEW t \in BinderThreads, NEW step \in RunSteps, NEW values \in SUBSET Nat,
             NEW next \in RunSteps, Read(t, step, values, next), cal.dynamic
      PROVE  VInv'
  <2>1. PICK value \in values :
            Step(t, next, [run[t] EXCEPT !.argument = value], status[t])
    BY <1>v DEF Read
  <2>2. pc[t] = step /\ UNCHANGED <<cal, mSteadyConfig, attribute, active,
                                     started, crossed, felt>>
    BY <1>v DEF Read
  <2>3. [run[t] EXCEPT !.argument = value] \in Runs /\ next \in Steps /\ value \in Nat
    BY <1>v, <1>t DEF Runs, RunSteps, Steps, WriteSteps, ReadSteps
  <2>4. ControlInv(t)' /\ Trusts(t)'
    BY <1>v, <1>t, <2>1, <2>2, <2>3, RunGoesOn
  <2> QED  BY <1>l, <1>t, <2>1, <2>2, <2>3, <2>4
<1>15. ASSUME NEW t \in BinderThreads, ReadClamp(t) PROVE VInv'
  <2> DEFINE values == IF run[t].volOffset \in DOMAIN OdClamp(run[t].mode)
                       THEN {OdClamp(run[t].mode)[run[t].volOffset]} ELSE Strays
  <2>1. Read(t, "clamp", values, "od_clamp")
    BY <1>15 DEF ReadClamp
  <2>2. pc[t] \in RunSteps /\ cal.dynamic
    BY <1>r, <2>1 DEF Read, RunSteps, DynamicSteps
  <2>3. values \in SUBSET Nat
    BY <2>2, RunClamp, StrayAssumption
  <2> HIDE DEF values
  <2> QED  BY <1>v, <2>1, <2>2, <2>3 DEF RunSteps
<1>16. ASSUME NEW t \in BinderThreads, ReadPeriod(t) PROVE VInv'
  <2> DEFINE values == {OlLraPeriod(run[t].mode)}
  <2>1. Read(t, "period", values, "ol_lra_period")
    BY <1>16 DEF ReadPeriod
  <2>2. pc[t] \in RunSteps /\ cal.dynamic
    BY <1>r, <2>1 DEF Read, RunSteps, DynamicSteps
  <2>3. values \in SUBSET Nat
    BY <2>2, RunClamp
  <2> HIDE DEF values
  <2> QED  BY <1>v, <2>1, <2>2, <2>3 DEF RunSteps
<1>17. ASSUME NEW t \in BinderThreads, SetOdClamp(t) PROVE VInv'
  <2>1. Set(t, "od_clamp", run[t].argument, "period") /\ pc[t] \in RunSteps
    BY <1>17 DEF SetOdClamp, Set, RunSteps
  <2>2. [attribute EXCEPT !.od_clamp = run[t].argument] \in AttributeTypes /\ cal.dynamic
    BY <1>r, <1>t, <2>1, AttributeWrites DEF Set, DynamicSteps
  <2> QED  BY <2>1, <2>2, SetKeeps DEF Lasting, Attributes, RunSteps
<1>18. ASSUME NEW t \in BinderThreads, SetOlLraPeriod(t) PROVE VInv'
  <2>1. Set(t, "ol_lra_period", run[t].argument, "activate") /\ pc[t] \in RunSteps
    BY <1>18 DEF SetOlLraPeriod, Set, RunSteps
  <2>2. [attribute EXCEPT !.ol_lra_period = run[t].argument] \in AttributeTypes
    BY <1>r, <1>t, <2>1, AttributeWrites
  <2> QED  BY <2>1, <2>2, SetKeeps DEF Lasting, Attributes, RunSteps, DynamicSteps
<1>19. ASSUME NEW t \in BinderThreads, SetActivate(t) PROVE VInv'
  <2>1. PICK written \in Outcome("activate") :
         IF written
         THEN /\ active' = TRUE /\ started' = [started EXCEPT ![t] = attribute]
              /\ Finish(t, "OK")
         ELSE Finish(t, "EX_ILLEGAL_STATE") /\ UNCHANGED <<active, started>>
    BY <1>19 DEF SetActivate
  <2>2. UNCHANGED <<cal, mSteadyConfig, attribute, crossed, felt>>
    BY <1>19 DEF SetActivate
  <2>3. CASE written
    <3>1. /\ Step(t, "reply", run[t], "OK") /\ "reply" \in Steps /\ "OK" \in Statuses
          /\ active' = TRUE /\ started' = [started EXCEPT ![t] = attribute]
      BY <2>1, <2>3 DEF Finish, Steps, Statuses
    <3>2. TypeOK' /\ pc'[t] = "reply"
      BY <1>t, <2>2, <3>1, StepLocals DEF TypeOK
    <3>3. SteadyInv'
      BY <1>t, <2>2 DEF SteadyInv
    <3>4. \A u \in BinderThreads \ {t} : LeavesAlone(u)
      BY <1>t, <2>2, <3>1, StepLocals DEF LeavesAlone, TypeOK
    <3>5. ControlInv(t)' /\ Trusts(t)'
      BY <3>2 DEF ControlInv, Trusts, TemperatureSteps, RunSteps, DynamicSteps
    <3> QED  BY <1>o, <3>2, <3>3, <3>4, <3>5
  <2>4. CASE ~written
    BY <1>e, <1>t, <2>1, <2>2, <2>4 DEF Statuses, TypeOK
  <2> QED  BY <2>3, <2>4
<1>20. ASSUME NEW t \in BinderThreads, Reply(t) PROVE VInv'
  <2>1. TypeOK'
    BY <1>20, <1>t, NoRunType DEF Reply, TypeOK, Steps, Statuses
  <2>2. SteadyInv'
    BY <1>20, <1>t DEF Reply, SteadyInv
  <2>3. \A u \in BinderThreads \ {t} : LeavesAlone(u)
    BY <1>20, <1>t DEF Reply, LeavesAlone, TypeOK
  <2>4. pc'[t] = "idle" /\ run'[t] = NoRun /\ started'[t] = NotStarted
    BY <1>20, <1>t DEF Reply, TypeOK
  <2>5. ControlInv(t)' /\ Trusts(t)'
    BY <2>4 DEF ControlInv, Trusts, TemperatureSteps, RunSteps, DynamicSteps
  <2> QED  BY <1>o, <2>1, <2>2, <2>3, <2>5
<1>21. ASSUME UNCHANGED <<cal, mSteadyConfig, attribute, thread, started, crossed, felt>>,
              TypeOK'
       PROVE  VInv'
  <2>1. SteadyInv'
    BY <1>21, <1>t DEF SteadyInv
  <2>2. ASSUME NEW u \in BinderThreads PROVE LeavesAlone(u)
    BY <1>21 DEF LeavesAlone, thread
  <2> QED  BY <1>21, <2>1, <2>2, OthersKeep DEF VInv
<1>22. CASE VibrationEnds \/ UNCHANGED vars
  <2>1. active' \in BOOLEAN
    BY <1>22, <1>t
       DEF VibrationEnds, vars, TypeOK
  <2>2. TypeOK'
    BY <1>22, <1>t, <2>1 DEF VibrationEnds, thread, vars, TypeOK
  <2> QED  BY <1>21, <1>22, <2>2
           DEF VibrationEnds, vars, thread
<1>23. CASE Crash
  <2>1. attribute' \in AttributeTypes
    BY <1>23, <1>t, <1>k, AttributeWrites DEF Crash
  <2>2. /\ mSteadyConfig' = [odClamp |-> "table", olLraPeriod |-> cal.lraPeriod]
        /\ felt' = "warm" /\ UNCHANGED <<cal, active>>
    BY <1>23 DEF Crash
  <2>3. /\ pc' \in [BinderThreads -> Steps] /\ status' \in [BinderThreads -> Statuses]
        /\ call' \in [BinderThreads -> Calls \cup {NoCall}]
        /\ run' \in [BinderThreads -> Runs]
        /\ started' \in [BinderThreads -> AttributeTypes \cup {NotStarted}]
        /\ crossed' \in [BinderThreads -> BOOLEAN]
    BY <1>23, NoRunType DEF Crash, Each, Steps, Statuses
  <2>4. TypeOK'
    BY <1>t, <2>1, <2>2, <2>3 DEF TypeOK
  <2>5. SteadyInv'
    BY <2>2 DEF SteadyInv
  <2>6. ASSUME NEW u \in BinderThreads PROVE ControlInv(u)' /\ Trusts(u)'
    <3>1. pc'[u] = "idle" /\ run'[u] = NoRun /\ started'[u] = NotStarted
      BY <1>23 DEF Crash, Each
    <3> QED  BY <3>1 DEF ControlInv, Trusts, TemperatureSteps, RunSteps, DynamicSteps
  <2> QED  BY <2>4, <2>5, <2>6 DEF VInv
<1> QED
  BY <1>1, <1>2, <1>3, <1>4, <1>5, <1>6, <1>8, <1>10, <1>11, <1>12, <1>13, <1>14,
     <1>15, <1>16, <1>17, <1>18, <1>19, <1>20, <1>22, <1>23 DEF Next, Thread
------------------------------------------------------------------------------
(* What the attributes hold                                                *)

\* The attributes whose writes are looked at, and those of other calls.
CheckedFaults == {"duration", "activate", "rtp_input"}

After(step) ==
    CASE step = "ctrl_loop" -> RunSteps \ {"ctrl_loop"}
      [] step = "duration" -> RunSteps \ {"ctrl_loop", "duration"}
      [] step = "mode" -> RunSteps \ {"ctrl_loop", "duration", "mode"}
      [] step = "lra_wave_shape" -> {"clamp", "od_clamp", "period", "ol_lra_period", "activate"}
      [] step = "clamp" -> {"od_clamp"}
      [] step = "od_clamp" -> {"period", "ol_lra_period", "activate"}
      [] step = "period" -> {"ol_lra_period"}
      [] step = "ol_lra_period" -> {"activate"}

\* What a run has read and written so far is still there, unless it was crossed.
Written(t) ==
    /\ pc[t] \in RunSteps /\ run[t].mode = "waveform" =>
          attribute["set_sequencer"] = Sequence(call[t].effect)
    /\ pc[t] \in After("ctrl_loop") =>
          attribute["ctrl_loop"] = LoopMode(run[t].mode, run[t].timeoutMs)
    /\ pc[t] \in After("duration") => attribute["duration"] = run[t].timeoutMs
    /\ pc[t] \in After("mode") => attribute["mode"] = run[t].mode
    /\ cal.dynamic =>
          /\ pc[t] \in After("lra_wave_shape") =>
                attribute["lra_wave_shape"] =
                   IF run[t].mode = "rtp" THEN "steady" ELSE "effect"
          /\ pc[t] \in After("clamp") =>
                run[t].argument = OdClamp(run[t].mode)[run[t].volOffset]
          /\ pc[t] \in After("od_clamp") =>
                attribute["od_clamp"] = OdClamp(run[t].mode)[run[t].volOffset]
          /\ pc[t] \in After("period") => run[t].argument = OlLraPeriod(run[t].mode)
          /\ pc[t] \in After("ol_lra_period") =>
                attribute["ol_lra_period"] = OlLraPeriod(run[t].mode)

\* What the two properties say of one thread.
StartedAs(t) ==
    pc[t] = "reply" /\ call[t].op \in {"on", "perform"} =>
    IF status[t] = "OK" THEN ~crossed[t] => AsAsked(started[t], call[t])
    ELSE started[t] = NotStarted
RunsLow(t) ==
    cal.dynamic /\ pc[t] = "reply" /\ status[t] = "OK" /\ ~crossed[t] =>
    /\ started[t].mode = "rtp" =>
          run[t].reading \in {felt, "cool"} /\ SteadyAsFelt(started[t])
    /\ started[t].mode = "waveform" => EffectAsCalibrated(started[t], call[t])

ThreadWritten(t) ==
    /\ ~crossed[t] => Written(t)
    /\ pc[t] = "reply" /\ started[t] # NotStarted => call[t].op \in {"on", "perform"}
    /\ StartedAs(t) /\ RunsLow(t)

WrittenInv == \A t \in BinderThreads : ThreadWritten(t)

LEMMA WrittenProperties == WrittenInv => OkMeansStarted /\ ColdRunsLow
BY DEF WrittenInv, ThreadWritten, StartedAs, RunsLow, OkMeansStarted, ColdRunsLow

LEMMA InitWritten == Init => WrittenInv
<1> SUFFICES ASSUME Init, NEW t \in BinderThreads PROVE ThreadWritten(t)
  BY DEF WrittenInv
<1>1. pc[t] = "idle"
  BY DEF Init, Each
<1> QED  BY <1>1 DEF ThreadWritten, Written, StartedAs, RunsLow, After, RunSteps

\* A step that ends outside the private on(), with nothing started.
LEMMA QuietStep ==
    ASSUME NEW t \in BinderThreads, pc'[t] \notin RunSteps,
           pc'[t] = "reply" => started'[t] = NotStarted,
           pc'[t] = "reply" /\ call'[t].op \in {"on", "perform"} => status'[t] # "OK"
    PROVE  ThreadWritten(t)'
<1>1. pc'[t] = "reply" => started'[t].mode = "none"
  BY DEF NotStarted
<1>2. Written(t)'
  BY DEF Written, After, RunSteps
<1>3. StartedAs(t)' /\ RunsLow(t)'
  BY <1>1 DEF StartedAs, RunsLow
<1> QED  BY <1>2, <1>3 DEF ThreadWritten

\* The configuration of a run does not change under it.
LEMMA SameRun ==
    ASSUME NEW u \in BinderThreads, run'[u].mode = run[u].mode,
           run'[u].volOffset = run[u].volOffset, UNCHANGED <<cal, mSteadyConfig>>
    PROVE  /\ (OdClamp(run[u].mode)[run[u].volOffset])' = OdClamp(run[u].mode)[run[u].volOffset]
           /\ OlLraPeriod(run[u].mode)' = OlLraPeriod(run[u].mode)
BY DEF OdClamp, OlLraPeriod

LEMMA OthersWritten ==
    ASSUME VInv, WrittenInv, NEW u \in BinderThreads, LeavesAlone(u), TypeOK'
    PROVE  ThreadWritten(u)'
<1>1. ThreadWritten(u)
  BY DEF WrittenInv
<1>2. CASE crossed'[u] \/ pc[u] = "idle"
  BY <1>1, <1>2
     DEF LeavesAlone, ThreadWritten, StartedAs, RunsLow, Written, After, RunSteps
<1>3. CASE UNCHANGED <<mSteadyConfig, felt>>
           /\ \A name \in Lasting : attribute'[name] = attribute[name]
  <2>1. /\ pc'[u] = pc[u] /\ call'[u] = call[u] /\ run'[u] = run[u]
        /\ status'[u] = status[u] /\ started'[u] = started[u] /\ cal' = cal
        /\ crossed[u] => crossed'[u]
    BY DEF LeavesAlone
  <2>2. /\ attribute'["set_sequencer"] = attribute["set_sequencer"]
        /\ attribute'["ctrl_loop"] = attribute["ctrl_loop"]
        /\ attribute'["duration"] = attribute["duration"]
        /\ attribute'["mode"] = attribute["mode"]
        /\ attribute'["lra_wave_shape"] = attribute["lra_wave_shape"]
        /\ attribute'["od_clamp"] = attribute["od_clamp"]
        /\ attribute'["ol_lra_period"] = attribute["ol_lra_period"]
    BY <1>3 DEF Lasting, Attributes
  <2>3. /\ (OdClamp(run[u].mode)[run[u].volOffset])' = OdClamp(run[u].mode)[run[u].volOffset]
        /\ OlLraPeriod(run[u].mode)' = OlLraPeriod(run[u].mode)
    BY <1>3, <2>1, SameRun
  <2>4. Written(u) => Written(u)'
    BY <2>1, <2>2, <2>3 DEF Written, LoopMode
  <2>5. StartedAs(u)' /\ RunsLow(u)'
    <3>1. StartedAs(u)'
      BY <1>1, <2>1 DEF ThreadWritten, StartedAs, AsAsked, LoopMode
    <3>2. RunsLow(u)'
      BY <1>1, <1>3, <2>1
         DEF ThreadWritten, RunsLow, SteadyAsFelt, EffectAsCalibrated
    <3> QED  BY <3>1, <3>2
  <2> QED  BY <1>1, <2>1, <2>4, <2>5 DEF ThreadWritten
<1> QED  BY <1>2, <1>3 DEF LeavesAlone

\* The driver is activated with what has been written.
LEMMA StartedRight ==
    ASSUME VInv, WrittenInv, NEW t \in BinderThreads, pc[t] = "activate",
           pc'[t] = "reply", started'[t] = attribute, status'[t] = "OK",
           run'[t] = run[t], call'[t] = call[t], crossed'[t] = crossed[t],
           UNCHANGED <<cal, mSteadyConfig, felt>>
    PROVE  ThreadWritten(t)'
<1>1. /\ RunFits(t) /\ Trusts(t) /\ ThreadWritten(t) /\ cal \in KnownCalibrations
      /\ crossed[t] \in BOOLEAN
  BY DEF VInv, TypeOK, ControlInv, RunSteps, WrittenInv
<1>2. call[t] \in Vibrations /\ call[t].op \in {"on", "perform"}
  BY <1>1, VibrationTypes DEF RunFits
<1>3. CASE crossed[t]
  BY <1>2, <1>3 DEF ThreadWritten, StartedAs, RunsLow, Written
<1>4. CASE ~crossed[t]
  <2>1. /\ attribute.ctrl_loop = LoopMode(run[t].mode, run[t].timeoutMs)
        /\ attribute.duration = run[t].timeoutMs /\ attribute.mode = run[t].mode
        /\ run[t].mode = "waveform" => attribute.set_sequencer = Sequence(call[t].effect)
        /\ cal.dynamic =>
              /\ attribute.lra_wave_shape = IF run[t].mode = "rtp" THEN "steady" ELSE "effect"
              /\ attribute.od_clamp = OdClamp(run[t].mode)[run[t].volOffset]
              /\ attribute.ol_lra_period = OlLraPeriod(run[t].mode)
    BY <1>1, <1>4 DEF ThreadWritten, Written, After, RunSteps
  <2>2. AsAsked(attribute, call[t])
    BY <1>1, <1>2, <2>1 DEF AsAsked, RunFits, LoopMode
  <2>3. StartedAs(t)'
    BY <1>2, <2>2 DEF StartedAs, AsAsked, LoopMode
  <2>4. RunsLow(t)'
    <3> SUFFICES ASSUME cal.dynamic PROVE RunsLow(t)'
      BY DEF RunsLow
    <3>1. CASE call[t].op = "on"
      <4>1. /\ run[t].mode = "rtp" /\ run[t].volOffset \in {0, 2}
            /\ run[t].volOffset = 2 => run[t].reading = "warm"
            /\ run[t].reading \in Temperatures
        BY <1>1, <3>1 DEF RunFits
      <4>2. run[t].reading \in {"cold", "warm"} => felt = run[t].reading
        BY <1>1, <1>4 DEF Trusts, RunSteps
      <4>3. run[t].reading \in {felt, "cool"}
        BY <4>1, <4>2 DEF Temperatures
      <4>4. CASE felt = "cold"
        <5>1. run[t].volOffset = 0
          BY <4>1, <4>2, <4>4
        <5>2. /\ attribute.od_clamp = STEADY_VOLTAGE_LOWER_BOUND
              /\ attribute.ol_lra_period = SteadyOlLraPeriodShift(cal)
          BY <2>1, <4>1, <4>4, <5>1 DEF VInv, SteadyInv, OdClamp, OlLraPeriod
        <5>3. SteadyOlLraPeriodShift(cal) >= cal.lraPeriod
          BY <1>1, TableTypes
        <5>4. SteadyAsFelt(attribute)
          BY <4>4, <5>2, <5>3 DEF SteadyAsFelt
        <5> QED  BY <2>1, <4>1, <4>3, <5>4 DEF RunsLow, SteadyAsFelt
      <4>5. CASE felt = "warm"
        <5>1. /\ attribute.od_clamp = SteadyTargetOdClamp(cal)[run[t].volOffset]
              /\ attribute.ol_lra_period = cal.lraPeriod
          BY <2>1, <4>1, <4>5 DEF VInv, SteadyInv, OdClamp, OlLraPeriod
        <5>2. SteadyAsFelt(attribute)
          BY <4>1, <4>5, <5>1 DEF SteadyAsFelt
        <5> QED  BY <2>1, <4>1, <4>3, <5>2 DEF RunsLow, SteadyAsFelt
      <4>6. CASE felt \notin {"cold", "warm"}
        BY <2>1, <4>1, <4>3, <4>6 DEF RunsLow, SteadyAsFelt
      <4> QED  BY <4>4, <4>5, <4>6
    <3>2. CASE call[t].op = "perform"
      <4>1. run[t].mode = "waveform"
            /\ run[t].volOffset = VolOffset(call[t].effect, call[t].strength)
        BY <1>1, <3>2 DEF RunFits
      <4>2. EffectAsCalibrated(attribute, call[t])
        BY <2>1, <4>1 DEF OdClamp, OlLraPeriod, EffectAsCalibrated
      <4> QED  BY <2>1, <4>1, <4>2 DEF RunsLow, EffectAsCalibrated
    <3> QED  BY <1>2, <3>1, <3>2
  <2> QED  BY <1>2, <2>3, <2>4 DEF ThreadWritten, Written, After, RunSteps
<1> QED  BY <1>1, <1>3, <1>4

\* Whatever a thread does, the others are left alone or told.
LEMMA ThreadLeaves ==
    ASSUME TypeOK, NEW t \in BinderThreads, Thread(t), NEW u \in BinderThreads \ {t}
    PROVE  LeavesAlone(u)
<1> USE DEF LeavesAlone, TypeOK
<1>1. ASSUME NEW c \in Calls, Begin(t, c) PROVE LeavesAlone(u)
  BY <1>1 DEF Begin
<1>2. CASE Off(t)
  BY <1>2 DEF Off, Finish, Step
<1>3. CASE SetAmplitude(t)
  <2>1. \/ UNCHANGED attribute
        \/ \E value \in 0..127 : attribute' = [attribute EXCEPT !.rtp_input = value]
    BY <1>3, AmplitudeCases
  <2>2. \A name \in Lasting : attribute'[name] = attribute[name]
    BY <2>1 DEF Lasting, Attributes, AttributeTypes
  <2>3. /\ pc'[u] = pc[u] /\ run'[u] = run[u] /\ status'[u] = status[u] /\ call' = call
    BY <1>3, AmplitudeCases DEF Finish, Step
  <2> QED  BY <1>3, <2>2, <2>3 DEF SetAmplitude
<1>4. CASE ReadTemperature(t)
  BY <1>4 DEF ReadTemperature, Step
<1>5. CASE SetSteadyClamp(t)
  BY <1>5 DEF SetSteadyClamp, Go, Step, Cross
<1>6. CASE SetSteadyPeriod(t)
  BY <1>6 DEF SetSteadyPeriod, Go, Step, Cross
<1>7. CASE MotionAwareness(t)
  BY <1>7 DEF MotionAwareness, Still, Step
<1>9. CASE SetSequencer(t)
  BY <1>9 DEF SetSequencer, Write, WriteNothing, Step, Cross
<1>10. ASSUME NEW name, NEW value, NEW step, Set(t, name, value, step) PROVE LeavesAlone(u)
  BY <1>10 DEF Set, Write, WriteNothing, Step, Cross
<1>11. CASE SetDuration(t)
  <2>1. PICK written \in Outcome("duration") :
            IF written THEN Write(t, "duration", run[t].timeoutMs) /\ Go(t, "mode")
            ELSE Finish(t, "EX_ILLEGAL_STATE") /\ WriteNothing
    BY <1>11 DEF SetDuration
  <2>2. UNCHANGED <<cal, mSteadyConfig, started, felt>>
    BY <1>11 DEF SetDuration
  <2>3. CASE written
    <3>1. Cross(t) /\ Go(t, "mode")
      BY <2>1, <2>3 DEF Write
    <3> QED  BY <2>2, <3>1 DEF Go, Step, Cross
  <2>4. CASE ~written
    BY <2>1, <2>2, <2>4 DEF WriteNothing, Finish, Step
  <2> QED  BY <2>3, <2>4
<1>12. ASSUME NEW step, NEW values, NEW next, Read(t, step, values, next)
       PROVE  LeavesAlone(u)
  BY <1>12 DEF Read, Step
<1>13. CASE SetActivate(t)
  BY <1>13 DEF SetActivate, Finish, Step
<1>14. CASE Reply(t)
  BY <1>14 DEF Reply
<1> USE DEF Thread
<1>15. CASE SetCtrlLoop(t) \/ SetMode(t) \/ SetLraWaveShape(t) \/ SetOdClamp(t) \/ SetOlLraPeriod(t)
  BY <1>10, <1>15 DEF SetCtrlLoop, SetMode, SetLraWaveShape, SetOdClamp, SetOlLraPeriod
<1>16. CASE ReadClamp(t) \/ ReadPeriod(t)
  BY <1>12, <1>16 DEF ReadClamp, ReadPeriod
<1> QED
  BY <1>1, <1>2, <1>3, <1>4, <1>5, <1>6, <1>7, <1>9, <1>11, <1>13, <1>14, <1>15,
     <1>16 DEF Thread

\* What a write of the private on() does to its call.
Wrote(t, name, value, step) ==
    /\ pc[t] = name /\ pc'[t] = step /\ call' = call
    /\ run'[t].mode = run[t].mode /\ run'[t].timeoutMs = run[t].timeoutMs
    /\ run'[t].volOffset = run[t].volOffset
    /\ attribute'[name] = value /\ cal' = cal
    /\ \A other \in Attributes \ {name} : attribute'[other] = attribute[other]
    /\ (OdClamp(run[t].mode)[run[t].volOffset])' = OdClamp(run[t].mode)[run[t].volOffset]
    /\ OlLraPeriod(run[t].mode)' = OlLraPeriod(run[t].mode)
    /\ crossed'[t] = crossed[t]

LEMMA NextWritten ==
    ASSUME Faulty \subseteq CheckedFaults, VInv, WrittenInv, [Next]_vars
    PROVE  WrittenInv'
<1>t. /\ TypeOK /\ attribute \in AttributeTypes
      /\ \A t \in BinderThreads :
            /\ ControlInv(t) /\ ThreadWritten(t) /\ run[t] \in Runs
            /\ status[t] \in Statuses /\ crossed[t] \in BOOLEAN
            /\ pc[t] # "reply" => started[t] = NotStarted
            /\ pc[t] = "set_sequencer" => call[t] \in Vibrations /\ call[t].op = "perform"
  BY DEF VInv, TypeOK, ControlInv, WrittenInv
<1>n. VInv'
  BY NextVInv
<1>f. /\ Outcome("set_sequencer") = {TRUE} /\ Outcome("ctrl_loop") = {TRUE}
      /\ Outcome("mode") = {TRUE} /\ Outcome("lra_wave_shape") = {TRUE}
      /\ Outcome("od_clamp") = {TRUE} /\ Outcome("ol_lra_period") = {TRUE}
  BY DEF Outcome, CheckedFaults
<1>d. /\ attribute["set_sequencer"] = attribute.set_sequencer
      /\ DOMAIN attribute = Attributes
  BY <1>t DEF AttributeTypes, Attributes
<1> SUFFICES ASSUME NEW u \in BinderThreads PROVE ThreadWritten(u)'
  BY DEF WrittenInv
<1>u. ASSUME LeavesAlone(u) PROVE ThreadWritten(u)'
  BY <1>n, <1>u, OthersWritten DEF VInv
<1>o. ASSUME NEW t \in BinderThreads, Thread(t), ThreadWritten(t)' PROVE ThreadWritten(u)'
  BY <1>o, <1>t, <1>u, ThreadLeaves
<1>1. ASSUME NEW t \in BinderThreads, NEW c \in Calls, Begin(t, c) PROVE ThreadWritten(t)'
  <2>1. /\ pc'[t] = (IF Refused(c) THEN "reply" ELSE FirstStep(c)) /\ call'[t] = c
        /\ started'[t] = NotStarted
        /\ run'[t] = (IF Refused(c) THEN run[t] ELSE FirstRun(c))
        /\ status'[t] = (IF Refused(c) THEN "EX_UNSUPPORTED_OPERATION" ELSE status[t])
    BY <1>1, <1>t DEF Begin, TypeOK
  <2>2. CASE Refused(c)
    BY <2>1, <2>2, QuietStep DEF RunSteps
  <2>3. CASE ~Refused(c) /\ c.op = "on"
    <3>1. pc'[t] \in {"temp", "ctrl_loop"} /\ run'[t].mode = "rtp"
      BY <2>1, <2>3 DEF FirstStep, FirstRun, NoRun
    <3> QED  BY <3>1 DEF ThreadWritten, Written, After, RunSteps, StartedAs, RunsLow
  <2>4. CASE ~Refused(c) /\ c.op \in {"off", "perform", "setAmplitude"}
    <3>1. pc'[t] \in {"off", "set_sequencer", "amplitude"}
      BY <2>1, <2>4 DEF FirstStep
    <3> QED  BY <2>1, <3>1, QuietStep DEF RunSteps
  <2> QED  BY <2>2, <2>3, <2>4, CallTypes
\* A call that has come to its end with nothing started.
<1>2. ASSUME NEW t \in BinderThreads, NEW result \in Statuses, Finish(t, result),
             started' = started, pc[t] # "reply",
             call[t].op \in {"on", "perform"} => result # "OK"
      PROVE  ThreadWritten(t)'
  <2>1. pc'[t] = "reply" /\ status'[t] = result /\ call'[t] = call[t]
    BY <1>2, <1>t DEF Finish, Step, TypeOK
  <2> QED  BY <1>2, <1>t, <2>1, QuietStep DEF RunSteps
<1>3. ASSUME NEW t \in BinderThreads, Off(t) PROVE ThreadWritten(t)'
  <2>1. call[t].op = "off" /\ pc[t] = "off"
    BY <1>3, <1>t DEF Off, ControlInv
  <2> QED  BY <1>2, <1>3, <2>1 DEF Off, Statuses
<1>4. ASSUME NEW t \in BinderThreads, SetAmplitude(t) PROVE ThreadWritten(t)'
  <2>1. call[t].op = "setAmplitude" /\ pc[t] = "amplitude" /\ started' = started
    BY <1>4, <1>t DEF SetAmplitude, ControlInv
  <2> QED  BY <1>2, <1>4, <2>1, AmplitudeCases DEF Statuses
\* The steps before the private on(): nothing is promised yet.
<1>5. ASSUME NEW t \in BinderThreads, pc[t] \in TemperatureSteps,
             NEW step \in TemperatureSteps \cup {"ctrl_loop"}, NEW r \in Runs,
             r.mode = run[t].mode, Step(t, step, r, status[t])
      PROVE  ThreadWritten(t)'
  <2>1. pc'[t] = step /\ run'[t].mode = "rtp"
    BY <1>5, <1>t DEF Step, TypeOK, ControlInv
  <2> QED  BY <1>5, <2>1
           DEF ThreadWritten, Written, After, RunSteps, StartedAs, RunsLow, TemperatureSteps
<1>6. ASSUME NEW t \in BinderThreads, ReadTemperature(t) PROVE ThreadWritten(t)'
  <2>1. PICK reading \in Temperatures :
          Step(t, IF reading = "cool" THEN "ctrl_loop" ELSE "steady_clamp",
               [run[t] EXCEPT !.reading = reading], status[t])
    BY <1>6 DEF ReadTemperature
  <2>2. reading \in Temperatures /\ [run[t] EXCEPT !.reading = reading] \in Runs
        /\ [run[t] EXCEPT !.reading = reading].mode = run[t].mode
    BY <1>t DEF TypeOK, Temperatures, Runs
  <2> QED  BY <1>5, <1>6, <2>1, <2>2 DEF ReadTemperature, TemperatureSteps
<1>7. ASSUME NEW t \in BinderThreads, SetSteadyClamp(t) \/ SetSteadyPeriod(t)
      PROVE  ThreadWritten(t)'
  BY <1>5, <1>7, <1>t DEF SetSteadyClamp, SetSteadyPeriod, AfterTemperature, Go, TemperatureSteps
<1>8. ASSUME NEW t \in BinderThreads, NEW still, Still(t, still), pc[t] = "motion"
      PROVE  ThreadWritten(t)'
  <2> DEFINE r == [run[t] EXCEPT !.volOffset = IF still THEN 2 ELSE 0]
  <2>1. r \in Runs /\ r.mode = run[t].mode /\ Step(t, "ctrl_loop", r, status[t])
    BY <1>8, <1>t DEF Still, Runs
  <2> HIDE DEF r
  <2> QED  BY <1>5, <1>8, <2>1 DEF TemperatureSteps
<1>9. ASSUME NEW t \in BinderThreads, MotionAwareness(t) PROVE ThreadWritten(t)'
  BY <1>8, <1>9 DEF MotionAwareness
<1>10. ASSUME NEW t \in BinderThreads, SetSequencer(t) PROVE ThreadWritten(t)'
  <2>1. /\ pc'[t] = "ctrl_loop" /\ call' = call
        /\ attribute' = [attribute EXCEPT !["set_sequencer"] = Sequence(call[t].effect)]
    BY <1>10, <1>f, <1>t DEF SetSequencer, Step, Write, TypeOK
  <2>2. attribute'["set_sequencer"] = Sequence(call[t].effect)
    BY <1>d, <2>1 DEF Attributes
  <2>3. Sequence(call[t].effect)' = Sequence(call[t].effect)
    BY <2>1
  <2> QED  BY <2>1, <2>2, <2>3
           DEF ThreadWritten, Written, After, RunSteps, StartedAs, RunsLow
\* What a step within the private on() leaves of its run.
<1>s. ASSUME NEW t \in BinderThreads, NEW value, NEW step,
             Step(t, step, [run[t] EXCEPT !.argument = value], status[t])
      PROVE  /\ pc'[t] = step /\ call' = call /\ run'[t].argument = value
             /\ run'[t].mode = run[t].mode /\ run'[t].timeoutMs = run[t].timeoutMs
             /\ run'[t].volOffset = run[t].volOffset
  BY <1>s, <1>t DEF Step, TypeOK, Runs
\* A write of the private on() adds its attribute to the others.
<1>w. ASSUME NEW t \in BinderThreads, NEW name \in Lasting, NEW value, NEW step,
             Set(t, name, value, step), Outcome(name) = {TRUE}
      PROVE  Wrote(t, name, value, step)
  <2>1. /\ pc[t] = name /\ Write(t, name, value)
        /\ Step(t, step, [run[t] EXCEPT !.argument = 0], status[t])
        /\ UNCHANGED <<cal, mSteadyConfig>>
    BY <1>w DEF Set
  <2>2. /\ pc'[t] = step /\ call' = call
        /\ run'[t].mode = run[t].mode /\ run'[t].timeoutMs = run[t].timeoutMs
        /\ run'[t].volOffset = run[t].volOffset
    BY <1>s, <2>1
  <2>3. attribute'[name] = value
        /\ \A other \in Attributes \ {name} : attribute'[other] = attribute[other]
    BY <1>d, <2>1 DEF Write, Lasting
  <2>4. crossed'[t] = crossed[t]
    BY <1>t, <2>1, CrossType DEF Write
  <2> QED  BY <2>1, <2>2, <2>3, <2>4, SameRun DEF Wrote
<1>11. ASSUME NEW t \in BinderThreads, SetCtrlLoop(t) PROVE ThreadWritten(t)'
  <2> DEFINE loop == LoopMode(run[t].mode, run[t].timeoutMs)
  <2>1. Set(t, "ctrl_loop", loop, "duration") /\ "ctrl_loop" \in Lasting
    BY <1>11 DEF SetCtrlLoop, Lasting, Attributes
  <2>w. Wrote(t, "ctrl_loop", loop, "duration")
    BY <1>w, <1>f, <2>1
  <2>2. loop' = loop
    BY <2>w DEF Wrote, LoopMode
  <2> HIDE DEF loop
  <2>3. /\ attribute'["ctrl_loop"] = loop
        /\ attribute'["set_sequencer"] = attribute["set_sequencer"]
        /\ pc[t] = "ctrl_loop" /\ pc'[t] = "duration" /\ call' = call
        /\ run'[t].mode = run[t].mode /\ crossed'[t] = crossed[t]
    BY <2>w DEF Wrote, Attributes
  <2>4. attribute'["ctrl_loop"] = LoopMode(run[t].mode, run[t].timeoutMs)'
    BY <2>2, <2>3 DEF loop
  <2> QED  BY <1>t, <2>3, <2>4
           DEF ThreadWritten, Written, After, RunSteps, StartedAs, RunsLow
<1>12. ASSUME NEW t \in BinderThreads, SetDuration(t) PROVE ThreadWritten(t)'
  <2>1. CASE Write(t, "duration", run[t].timeoutMs) /\ Go(t, "mode")
    <3>1. /\ attribute'["duration"] = run[t].timeoutMs
          /\ attribute'["set_sequencer"] = attribute["set_sequencer"]
          /\ attribute'["ctrl_loop"] = attribute["ctrl_loop"]
      BY <1>d, <2>1 DEF Write, Attributes
    <3>2. /\ pc[t] = "duration" /\ pc'[t] = "mode" /\ call' = call /\ run'[t] = run[t]
          /\ cal' = cal
      BY <1>12, <1>t, <2>1 DEF SetDuration, Go, Step, TypeOK
    <3>3. crossed'[t] = crossed[t]
      BY <1>t, <2>1, CrossType DEF Write
    <3> QED  BY <1>t, <3>1, <3>2, <3>3
             DEF ThreadWritten, Written, After, RunSteps, StartedAs, RunsLow, LoopMode
  <2>2. CASE Finish(t, "EX_ILLEGAL_STATE") /\ WriteNothing
    BY <1>2, <1>12, <2>2 DEF SetDuration, Statuses
  <2> QED  BY <1>12, <2>1, <2>2 DEF SetDuration
<1>13. ASSUME NEW t \in BinderThreads, SetMode(t) PROVE ThreadWritten(t)'
  <2> DEFINE step == IF cal.dynamic THEN "lra_wave_shape" ELSE "activate"
  <2>1. Set(t, "mode", run[t].mode, step) /\ "mode" \in Lasting
    BY <1>13 DEF SetMode, Lasting, Attributes
  <2>w. Wrote(t, "mode", run[t].mode, step)
    BY <1>w, <1>f, <2>1
  <2>2. /\ attribute'["mode"] = run[t].mode
        /\ attribute'["set_sequencer"] = attribute["set_sequencer"]
        /\ attribute'["ctrl_loop"] = attribute["ctrl_loop"]
        /\ attribute'["duration"] = attribute["duration"]
        /\ pc[t] = "mode" /\ pc'[t] = step /\ call' = call /\ cal' = cal
        /\ run'[t].mode = run[t].mode /\ run'[t].timeoutMs = run[t].timeoutMs
        /\ crossed'[t] = crossed[t]
    BY <2>w DEF Wrote, Attributes
  <2> QED  BY <1>t, <2>2
           DEF ThreadWritten, Written, After, RunSteps, StartedAs, RunsLow, LoopMode
<1>14. ASSUME NEW t \in BinderThreads, SetLraWaveShape(t) PROVE ThreadWritten(t)'
  <2> DEFINE shape == IF run[t].mode = "rtp" THEN "steady" ELSE "effect"
  <2>1. Set(t, "lra_wave_shape", shape, "clamp") /\ "lra_wave_shape" \in Lasting
    BY <1>14 DEF SetLraWaveShape, Lasting, Attributes
  <2>w. Wrote(t, "lra_wave_shape", shape, "clamp")
    BY <1>w, <1>f, <2>1
  <2>2. /\ attribute'["lra_wave_shape"] = shape
        /\ attribute'["set_sequencer"] = attribute["set_sequencer"]
        /\ attribute'["ctrl_loop"] = attribute["ctrl_loop"]
        /\ attribute'["duration"] = attribute["duration"]
        /\ attribute'["mode"] = attribute["mode"]
        /\ pc[t] = "lra_wave_shape" /\ pc'[t] = "clamp" /\ call' = call /\ cal' = cal
        /\ run'[t].mode = run[t].mode /\ run'[t].timeoutMs = run[t].timeoutMs
        /\ crossed'[t] = crossed[t]
    BY <2>w DEF Wrote, Attributes
  <2> QED  BY <1>t, <2>2
           DEF ThreadWritten, Written, After, RunSteps, StartedAs, RunsLow, LoopMode
\* The attributes a read of the configuration finds are the ones it leaves.
<1>v. ASSUME NEW t \in BinderThreads, NEW step, NEW values, NEW next,
             Read(t, step, values, next)
      PROVE  /\ pc[t] = step /\ pc'[t] = next /\ call' = call /\ cal' = cal
             /\ run'[t].mode = run[t].mode /\ run'[t].timeoutMs = run[t].timeoutMs
             /\ run'[t].volOffset = run[t].volOffset /\ run'[t].argument \in values
             /\ attribute' = attribute /\ crossed' = crossed
             /\ (OdClamp(run[t].mode)[run[t].volOffset])' =
                   OdClamp(run[t].mode)[run[t].volOffset]
             /\ OlLraPeriod(run[t].mode)' = OlLraPeriod(run[t].mode)
  <2>1. PICK value \in values :
            Step(t, next, [run[t] EXCEPT !.argument = value], status[t])
    BY <1>v DEF Read
  <2>2. pc[t] = step /\ UNCHANGED <<cal, mSteadyConfig, attribute, crossed>>
    BY <1>v DEF Read
  <2>3. /\ pc'[t] = next /\ call' = call /\ run'[t].argument = value
        /\ run'[t].mode = run[t].mode /\ run'[t].timeoutMs = run[t].timeoutMs
        /\ run'[t].volOffset = run[t].volOffset
    BY <1>s, <2>1
  <2> QED  BY <2>2, <2>3, SameRun
<1>15. ASSUME NEW t \in BinderThreads, ReadClamp(t) PROVE ThreadWritten(t)'
  <2> DEFINE clamp == OdClamp(run[t].mode)[run[t].volOffset]
             values == IF run[t].volOffset \in DOMAIN OdClamp(run[t].mode)
                       THEN {clamp} ELSE Strays
  <2>1. Read(t, "clamp", values, "od_clamp")
    BY <1>15 DEF ReadClamp
  <2>2. pc[t] = "clamp" /\ pc[t] \in RunSteps /\ cal.dynamic
    BY <1>t, <1>v, <2>1 DEF ControlInv, DynamicSteps, RunSteps
  <2>3. ~crossed[t] => values = {clamp}
    BY <2>2, RunClamp
  <2>4. clamp' = clamp
    BY <1>v, <2>1
  <2> HIDE DEF clamp, values
  <2>5. /\ pc'[t] = "od_clamp" /\ call' = call /\ cal' = cal /\ attribute' = attribute
        /\ crossed' = crossed /\ run'[t].argument \in values
        /\ run'[t].mode = run[t].mode /\ run'[t].timeoutMs = run[t].timeoutMs
    BY <1>v, <2>1
  <2>6. ~crossed'[t] => run'[t].argument = (OdClamp(run[t].mode)[run[t].volOffset])'
    BY <2>3, <2>4, <2>5 DEF clamp
  <2> QED  BY <1>t, <2>2, <2>5, <2>6
           DEF ThreadWritten, Written, After, RunSteps, StartedAs, RunsLow, LoopMode
<1>16. ASSUME NEW t \in BinderThreads, SetOdClamp(t) PROVE ThreadWritten(t)'
  <2> DEFINE clamp == OdClamp(run[t].mode)[run[t].volOffset]
  <2>1. Set(t, "od_clamp", run[t].argument, "period") /\ "od_clamp" \in Lasting
    BY <1>16 DEF SetOdClamp, Lasting, Attributes
  <2>w. Wrote(t, "od_clamp", run[t].argument, "period")
    BY <1>w, <1>f, <2>1
  <2>2. clamp' = clamp
    BY <2>w DEF Wrote
  <2>3. /\ attribute'["od_clamp"] = run[t].argument
        /\ attribute'["set_sequencer"] = attribute["set_sequencer"]
        /\ attribute'["ctrl_loop"] = attribute["ctrl_loop"]
        /\ attribute'["duration"] = attribute["duration"]
        /\ attribute'["mode"] = attribute["mode"]
        /\ attribute'["lra_wave_shape"] = attribute["lra_wave_shape"]
        /\ pc[t] = "od_clamp" /\ pc'[t] = "period" /\ call' = call /\ cal' = cal
        /\ run'[t].mode = run[t].mode /\ run'[t].timeoutMs = run[t].timeoutMs
        /\ crossed'[t] = crossed[t]
    BY <2>w DEF Wrote, Attributes
  <2>4. ~crossed[t] /\ cal.dynamic => run[t].argument = clamp
    BY <1>t, <2>3 DEF ThreadWritten, Written, After
  <2> HIDE DEF clamp
  <2>5. ~crossed'[t] /\ cal'.dynamic =>
           attribute'["od_clamp"] = (OdClamp(run[t].mode)[run[t].volOffset])'
    BY <2>2, <2>3, <2>4 DEF clamp
  <2> QED  BY <1>t, <2>3, <2>5
           DEF ThreadWritten, Written, After, RunSteps, StartedAs, RunsLow, LoopMode
<1>17. ASSUME NEW t \in BinderThreads, ReadPeriod(t) PROVE ThreadWritten(t)'
  <2> DEFINE clamp == OdClamp(run[t].mode)[run[t].volOffset]
             period == OlLraPeriod(run[t].mode)
  <2>1. Read(t, "period", {period}, "ol_lra_period")
    BY <1>17 DEF ReadPeriod
  <2>2. clamp' = clamp /\ period' = period
    BY <1>v, <2>1
  <2>3. pc[t] = "period" /\ (~crossed[t] /\ cal.dynamic => attribute["od_clamp"] = clamp)
    BY <1>t, <1>v, <2>1 DEF ThreadWritten, Written, After
  <2> HIDE DEF clamp, period
  <2>5. /\ pc'[t] = "ol_lra_period" /\ call' = call /\ cal' = cal /\ attribute' = attribute
        /\ crossed' = crossed /\ run'[t].argument = period
        /\ run'[t].mode = run[t].mode /\ run'[t].timeoutMs = run[t].timeoutMs
    BY <1>v, <2>1
  <2>6. /\ run'[t].argument = OlLraPeriod(run[t].mode)'
        /\ ~crossed'[t] /\ cal'.dynamic =>
              attribute'["od_clamp"] = (OdClamp(run[t].mode)[run[t].volOffset])'
    BY <2>2, <2>3, <2>5 DEF clamp, period
  <2> QED  BY <1>t, <2>3, <2>5, <2>6
           DEF ThreadWritten, Written, After, RunSteps, StartedAs, RunsLow, LoopMode
<1>18. ASSUME NEW t \in BinderThreads, SetOlLraPeriod(t) PROVE ThreadWritten(t)'
  <2> DEFINE clamp == OdClamp(run[t].mode)[run[t].volOffset]
             period == OlLraPeriod(run[t].mode)
  <2>1. Set(t, "ol_lra_period", run[t].argument, "activate") /\ "ol_lra_period" \in Lasting
    BY <1>18 DEF SetOlLraPeriod, Lasting, Attributes
  <2>w. Wrote(t, "ol_lra_period", run[t].argument, "activate")
    BY <1>w, <1>f, <2>1
  <2>2. clamp' = clamp /\ period' = period
    BY <2>w DEF Wrote
  <2>3. /\ attribute'["ol_lra_period"] = run[t].argument
        /\ attribute'["set_sequencer"] = attribute["set_sequencer"]
        /\ attribute'["ctrl_loop"] = attribute["ctrl_loop"]
        /\ attribute'["duration"] = attribute["duration"]
        /\ attribute'["mode"] = attribute["mode"]
        /\ attribute'["lra_wave_shape"] = attribute["lra_wave_shape"]
        /\ attribute'["od_clamp"] = attribute["od_clamp"]
        /\ pc[t] = "ol_lra_period" /\ pc'[t] = "activate" /\ call' = call /\ cal' = cal
        /\ run'[t].mode = run[t].mode /\ run'[t].timeoutMs = run[t].timeoutMs
        /\ crossed'[t] = crossed[t]
    BY <2>w DEF Wrote, Attributes
  <2>4. ~crossed[t] /\ cal.dynamic => run[t].argument = period /\ attribute["od_clamp"] = clamp
    BY <1>t, <2>3 DEF ThreadWritten, Written, After
  <2> HIDE DEF clamp, period
  <2>5. ~crossed'[t] /\ cal'.dynamic =>
           /\ attribute'["ol_lra_period"] = OlLraPeriod(run[t].mode)'
           /\ attribute'["od_clamp"] = (OdClamp(run[t].mode)[run[t].volOffset])'
    BY <2>2, <2>3, <2>4 DEF clamp, period
  <2> QED  BY <1>t, <2>3, <2>5
           DEF ThreadWritten, Written, After, RunSteps, StartedAs, RunsLow, LoopMode
<1>19. ASSUME NEW t \in BinderThreads, SetActivate(t) PROVE ThreadWritten(t)'
  <2>1. pc[t] = "activate" /\ UNCHANGED <<cal, mSteadyConfig, felt, crossed>>
    BY <1>19 DEF SetActivate
  <2>2. CASE started' = [started EXCEPT ![t] = attribute] /\ Finish(t, "OK")
    <3>1. /\ pc'[t] = "reply" /\ started'[t] = attribute /\ status'[t] = "OK"
          /\ run'[t] = run[t] /\ call'[t] = call[t]
      BY <1>t, <2>2 DEF Finish, Step, TypeOK
    <3> QED  BY <2>1, <3>1, StartedRight
  <2>3. CASE Finish(t, "EX_ILLEGAL_STATE") /\ started' = started
    BY <1>2, <2>1, <2>3 DEF Statuses
  <2> QED  BY <1>19, <2>2, <2>3 DEF SetActivate
<1>20. ASSUME NEW t \in BinderThreads, Reply(t) PROVE ThreadWritten(t)'
  <2>1. pc'[t] = "idle"
    BY <1>20, <1>t DEF Reply, TypeOK
  <2> QED  BY <2>1, QuietStep DEF RunSteps
<1>21. ASSUME UNCHANGED <<cal, mSteadyConfig, attribute, thread, started, crossed, felt>>
       PROVE  ThreadWritten(u)'
  <2>1. LeavesAlone(u)
    BY <1>21 DEF LeavesAlone, thread
  <2> QED  BY <1>u, <2>1
<1>22. CASE VibrationEnds \/ UNCHANGED vars
  BY <1>21, <1>22
     DEF VibrationEnds, vars, thread
<1>23. CASE Crash
  <2>1. pc'[u] = "idle"
    BY <1>23 DEF Crash, Each
  <2> QED  BY <2>1, QuietStep DEF RunSteps
<1>24. ASSUME NEW t \in BinderThreads, Thread(t) PROVE ThreadWritten(t)'
  BY <1>1, <1>3, <1>4, <1>6, <1>7, <1>9, <1>10, <1>11, <1>12, <1>13, <1>14, <1>15,
     <1>16, <1>17, <1>18, <1>19, <1>20, <1>24 DEF Thread
<1> QED  BY <1>o, <1>22, <1>23, <1>24 DEF Next
------------------------------------------------------------------------------
(* Theorems                                                                *)

LEMMA VInvHolds == Spec => []VInv
<1>1. Init => VInv
  BY InitVInv
<1>2. VInv /\ [Next]_vars => VInv'
  BY NextVInv
<1> QED  BY <1>1, <1>2, PTL DEF Spec

\* Every variable keeps its type for every calibration, every call, every fault and
\* any number of threads: a timeout that was negative fits in 32 bits and the
\* amplitude in its attribute.
THEOREM TypeCorrect == Spec => []TypeOK
<1>1. VInv => TypeOK
  BY DEF VInv
<1> QED  BY <1>1, VInvHolds, PTL

\* A call under which no other call has written never reads, at Vibrator.cpp:479, a
\* clamp that does not exist, although the pointer changes with the temperature and
\* the level with the phone's motion, however the calls before it overlapped.
THEOREM ClampsExist == Spec => []LevelExists
<1>1. VInv => LevelExists
  <2> SUFFICES ASSUME VInv, NEW t \in BinderThreads, pc[t] = "clamp", ~crossed[t]
               PROVE  run[t].volOffset \in DOMAIN OdClamp(run[t].mode)
    BY DEF LevelExists
  <2>1. pc[t] \in RunSteps /\ cal.dynamic
    BY DEF VInv, ControlInv, RunSteps, DynamicSteps
  <2> QED  BY <2>1, RunClamp
<1> QED  BY <1>1, VInvHolds, PTL

LEMMA WrittenHolds ==
    ASSUME Faulty \subseteq CheckedFaults
    PROVE  Spec => [](VInv /\ WrittenInv)
<1>1. Init => VInv /\ WrittenInv
  BY InitVInv, InitWritten
<1>2. VInv /\ WrittenInv /\ [Next]_vars => (VInv /\ WrittenInv)'
  BY NextVInv, NextWritten
<1> QED  BY <1>1, <1>2, PTL DEF Spec

\* While only the attributes whose writes on() looks at can fail, a vibration that
\* reports OK and under which no other call has written was started as it was asked
\* for, whatever earlier calls left; one that reports an error was not started.
THEOREM StartedAsAsked ==
    ASSUME Faulty \subseteq CheckedFaults
    PROVE  Spec => []OkMeansStarted
<1>1. VInv /\ WrittenInv => OkMeansStarted
  BY WrittenProperties
<1> QED  BY <1>1, WrittenHolds, PTL

\* On the same assumption such a vibration is protected in the cold for every
\* calibration and any number of threads: clamp and period are both those of the
\* last temperature outside the band, even after calls that have overlapped.
THEOREM ColdProtected ==
    ASSUME Faulty \subseteq CheckedFaults
    PROVE  Spec => []ColdRunsLow
<1>1. VInv /\ WrittenInv => ColdRunsLow
  BY WrittenProperties
<1> QED  BY <1>1, WrittenHolds, PTL
==============================================================================
