---------------------------- MODULE MCRecording ----------------------------
(* Instances of Recording for TLC. *)
EXTENDS Recording

Config(cal, auto, fms) == [cal |-> cal, auto |-> auto, fms |-> fms]

\* The shortest sequences of states: one calibration at each end, and none
MCShort == {Config({"DARK1CAL", "DARK2CAL"}, TRUE, FALSE),
            Config({}, FALSE, FALSE)}

\* The same under control of the FMS
MCFms == {[c EXCEPT !.fms = TRUE] : c \in MCShort}

\* All the calibrations; the OBC not in AUTO; and under the FMS one calibration
\* at each end, none, and one at the end
MCConfigs ==
  {Config(CalStates, TRUE, FALSE), Config({"DARK1CAL", "DARK2CAL"}, FALSE, FALSE),
   Config({"BRIGHTCAL"}, TRUE, TRUE)}
    \cup MCFms
=============================================================================
