--------------------------- MODULE MCHostSession ---------------------------
(* Instances of HostSession for TLC: two TCP endpoints and a serial port. *)
EXTENDS HostSession

CONSTANTS c1, c2, serial
=============================================================================
