------------------------------ MODULE MCBridge ------------------------------
(* Model values for the small instance of Bridge.                          *)
EXTENDS Bridge

CONSTANTS k1, k2
=============================================================================
