---------------------------- MODULE MCTunnelLink ----------------------------
EXTENDS TunnelLink
=============================================================================
