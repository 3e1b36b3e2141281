----------------------------- MODULE MCStartup -----------------------------
(* The start-up for TLC: the ports of dashboards differ in nothing but that *)
(* they are different.                                                      *)
EXTENDS Startup, TLC

PortSymmetry == Permutations(HttpPorts)

=============================================================================
