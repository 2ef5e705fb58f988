---------------------------- MODULE MCDiscovery ----------------------------
(* Instances of Discovery for TLC: Discovery.cfg gives the constants values.*)
EXTENDS Discovery
=============================================================================
