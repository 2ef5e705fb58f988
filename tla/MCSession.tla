----------------------------- MODULE MCSession -----------------------------
(* Instances of Session for TLC: Session.cfg gives the constants values.    *)
EXTENDS Session
=============================================================================
