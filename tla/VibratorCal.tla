---------------------------- MODULE VibratorCal ----------------------------
(***************************************************************************)
(* What Vibrator::Vibrator() of vibrator/drv2624/Vibrator.cpp computes     *)
(* from the calibration file and the product's properties: the tables of   *)
(* overdrive clamps and the two periods of the actuator.                   *)
(*                                                                         *)
(* A calibration is a record.  The clamp found for a target G is floating  *)
(* point arithmetic over the coefficients of the file; it enters as a      *)
(* number.  A table the file has no coefficients for is absent.            *)
(***************************************************************************)
EXTENDS Integers

Absent == <<>>

\* What convertLevelsToOdClamp() makes of the voltage that the linear or cubic
\* equation finds for a target G; the equations are left out.
OdClampValues == Nat

Calibrations ==
    [dynamic : BOOLEAN, lraPeriod : Nat \ {0}, longFrequencyShift : Nat,
     shortVoltageMax : Nat \ {0}, longVoltageMax : Nat \ {0},
     effectClamps : [0..4 -> OdClampValues] \cup {Absent},   \* from the effect coefficients
     steadyClamps : [0..2 -> OdClampValues] \cup {Absent},   \* from the steady coefficients
     scaledClamps : [{0, 2} -> OdClampValues] \cup {Absent}, \* target G / vibration_amp_max
     closeLoopThreshold : Nat]

\* An effect of level 1 to 4 is trusted; "a boundary protection for level 5 only".
EffectTargetOdClamp(cal) ==
    [level \in 0..4 |->
        IF cal.effectClamps = Absent THEN cal.shortVoltageMax
        ELSE IF level = 4 /\ cal.effectClamps[4] \notin 1..cal.shortVoltageMax
        THEN cal.shortVoltageMax
        ELSE cal.effectClamps[level]]

\* Without steady coefficients level 1 has no value, and nothing bounds the
\* clamps scaled from the measured maximum.
SteadyTargetOdClamp(cal) ==
    IF cal.steadyClamps # Absent
    THEN [level \in 0..2 |-> IF cal.steadyClamps[level] \in 1..cal.longVoltageMax
                             THEN cal.steadyClamps[level] ELSE cal.longVoltageMax]
    ELSE [level \in {0, 2} |-> IF cal.scaledClamps = Absent THEN cal.longVoltageMax
                               ELSE cal.scaledClamps[level]]

\* Period to frequency and back; 24615 * in fits in 32 bits below 174486.
FreqPeriod(in) == 1000000000 \div (24615 * in)

SteadyOlLraPeriodShift(cal) ==
    FreqPeriod(FreqPeriod(cal.lraPeriod) - cal.longFrequencyShift)
==============================================================================
