------------------------------ MODULE MCFlows -------------------------------
EXTENDS Flows

\* resolv.conf names a resolver twice, the tunnel's own address, or nothing.
MCSystemLists == {<<"corp", "tunnel", "isp", "corp">>, <<"tunnel">>}
MCFallback == <<"public">>
=============================================================================
