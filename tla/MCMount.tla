------------------------------- MODULE MCMount -------------------------------
(* Mount on a short line, for TLC. *)
EXTENDS Mount
=============================================================================
