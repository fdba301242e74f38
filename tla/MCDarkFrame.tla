---------------------------- MODULE MCDarkFrame ----------------------------
(* An instance of DarkFrame for TLC. *)
EXTENDS DarkFrame
=============================================================================
