------------------------ MODULE MCLinuxConfigurator ------------------------
(* Instances of LinuxConfigurator for TLC. *)
EXTENDS LinuxConfigurator

CONSTANTS lower, upper

\* RouteMode::Full, one custom prefix, the same prefix given twice, no route.
MCPlans == [routes : {<<lower, upper>>, <<upper>>, <<upper, upper>>, << >>}, dns : BOOLEAN]
=============================================================================
