----------------------------- MODULE MCProgram -----------------------------
(* An instance of Program for TLC. *)
EXTENDS Program

\* A calibration before, and two after, of which one is not dark
MCCals == {"DARK1", "DARK2", "LASER"}
=============================================================================
