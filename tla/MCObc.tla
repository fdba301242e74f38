------------------------------- MODULE MCObc -------------------------------
(* Instances of Obc for TLC. *)
EXTENDS Obc

MCCals == {"DARK1", "DARK2", "MEDIUM", "BRIGHT", "LASER"}
=============================================================================
