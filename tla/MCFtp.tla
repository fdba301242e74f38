-------------------------------- MODULE MCFtp --------------------------------
(* The ECS data tab on a server with a few files. *)
EXTENDS Ftp
=============================================================================
