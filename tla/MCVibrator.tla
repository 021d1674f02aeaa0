----------------------------- MODULE MCVibrator -----------------------------
(***************************************************************************)
(* Values for the model checking of Vibrator: the product's properties     *)
(* with a calibration file, a static configuration, and calls on both      *)
(* sides of every bound.                                                   *)
(***************************************************************************)
EXTENDS Vibrator, TLC

\* device-redfin.mk:150-158 with a file whose strongest effect and strongest level
\* are out of reach.
Calibrated ==
    [dynamic |-> TRUE, lraPeriod |-> 262, longFrequencyShift |-> 10,
     shortVoltageMax |-> 161, longVoltageMax |-> 161,
     effectClamps |-> [level \in 0..4 |-> IF level = 4 THEN 0 ELSE 40 + 30 * level],
     steadyClamps |-> [level \in 0..2 |-> 180 - 35 * level],
     scaledClamps |-> Absent, closeLoopThreshold |-> 100000]
Static == [Calibrated EXCEPT !.dynamic = FALSE, !.closeLoopThreshold = 100]

Known == {Calibrated, Static}

\* tick.duration, click.duration and heavyclick.duration of device-redfin.mk
ProductDurations == [TEXTURE_TICK |-> 6, TICK |-> 6, CLICK |-> 6, HEAVY_CLICK |-> 6,
                     DOUBLE_CLICK |-> 159]

SomeCalls ==
    [op : {"on"}, timeoutMs : {-1, 159}, callback : {FALSE}]
    \cup [op : {"on"}, timeoutMs : {100}, callback : {TRUE}]
    \cup [op : {"off"}]
    \cup [op : {"setAmplitude"}, amplitude : {1000, 1010}]
    \cup [op : {"perform"}, effect : {"DOUBLE_CLICK"}, strength : {"STRONG"},
          callback : {FALSE}]
    \cup [op : {"perform"}, effect : {OtherEffect}, strength : {"LIGHT"},
          callback : {FALSE}]

Symmetry == Permutations(BinderThreads)
==============================================================================
