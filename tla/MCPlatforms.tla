---------------------------- MODULE MCPlatforms ----------------------------
(* Instances of Platforms for TLC. *)
EXTENDS Platforms

CONSTANTS lower, upper

\* RouteMode::Full, one custom prefix, the same prefix given twice, no route.
MCPlans == [routes : {<<lower, upper>>, <<upper>>, <<upper, upper>>, << >>}, dns : BOOLEAN]
=============================================================================
