---------------------------- MODULE MCGuestTunnel ----------------------------
(* Instances of GuestTunnel for TLC: the bounds are in the configurations. *)
EXTENDS GuestTunnel
=============================================================================
