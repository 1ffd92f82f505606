--------------------------- MODULE MCDHTInjector ---------------------------
(* Instances of DHTInjector for TLC.                                       *)
EXTENDS DHTInjector
=============================================================================
