--------------------------- MODULE TunnelLifecycle ---------------------------
(***************************************************************************)
(* What a guest promises the machine it runs on: traffic is routed into    *)
(* the tunnel device only while the device exists, the guest returns only  *)
(* when the routing has been undone and its device is gone, and whatever   *)
(* happens to the guest, nothing of the tunnel is left in the end.         *)
(***************************************************************************)
VARIABLES
  device,  \* the TUN device exists
  routed,  \* apply has started and revert has not done what it can
  life     \* the guest is "running", has "returned" or was "killed"

vars == <<device, routed, life>>

TypeOK ==
  /\ device \in BOOLEAN
  /\ routed \in BOOLEAN
  /\ life \in {"running", "returned", "killed"}

Init == ~device /\ ~routed /\ life = "running"

\* The device appears; a creation under way when the guest ends completes.
Create == ~device /\ device' = TRUE /\ UNCHANGED <<routed, life>>

\* Routes and DNS are pointed into the device, which exists by then.
Route == life = "running" /\ ~routed /\ routed' = TRUE /\ device' = TRUE /\ UNCHANGED life

Unroute == routed /\ routed' = FALSE /\ UNCHANGED <<device, life>>

\* Only a killed guest loses the device before the routing is undone.
Remove ==
  /\ device
  /\ routed => life = "killed"
  /\ device' = FALSE
  /\ UNCHANGED <<routed, life>>

\* The guest returns without routing and without a device of its own.
Return ==
  /\ life = "running" /\ ~routed
  /\ life' = "returned" /\ device' = FALSE
  /\ UNCHANGED routed

\* The guest's task is dropped wherever it stands.
Kill ==
  /\ life = "running"
  /\ life' = "killed"
  /\ device' \in {device, FALSE}
  /\ UNCHANGED routed

Next == Create \/ Route \/ Unroute \/ Remove \/ Return \/ Kill

Spec == Init /\ [][Next]_vars

\* Nothing of the tunnel stays behind.
GoneInTheEnd == life # "running" ~> ~device /\ ~routed
=============================================================================
