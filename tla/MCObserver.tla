----------------------------- MODULE MCObserver -----------------------------
(* Model values for the small instance of Observer.                        *)
EXTENDS Observer

CONSTANTS k1, k2
=============================================================================
