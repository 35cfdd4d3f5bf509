---- MODULE MCDiscovery ----
EXTENDS Discovery, TLC

\* The guest's own LAN port and a USB Ethernet cable to the host: the order
\* of kinds is not the order of names.
MCPort == (1 :> "ethernet") @@ (2 :> "usb")

\* A USB adapter to a LAN, listed before the one to the host.
MCTwoAdapters == (1 :> "usb") @@ (2 :> "usb")
====
