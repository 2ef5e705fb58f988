----------------------------- MODULE MCConnect -----------------------------
(* Instances of Connect for TLC: Connect.cfg gives the constants values.    *)
EXTENDS Connect
=============================================================================
