-------------------------- MODULE MCGatewayMonitor --------------------------
(***************************************************************************)
(* GatewayMonitor for TLC.  Tasks and keys are interchangeable.            *)
(***************************************************************************)
EXTENDS GatewayMonitor

Symmetry == Permutations(Tasks) \cup Permutations(Keys)
=============================================================================
