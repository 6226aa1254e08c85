--------------------------- MODULE MCIntegrations ---------------------------
(* A small instance of each of the tracers and of the SIEM exporter.       *)
EXTENDS Integrations, TLC

CONSTANTS r1, r2, i1, i2, c1, c2, e1, e2, k1, k2, t1, t2, s1, s2

\* A session of two events, as SqliteLedger exports it.
Session ==
    LET opened == Opened(NewLedger("s"), "s", [agent |-> "a"])
        recorded == Stored(Stored(opened, "ACTION", [id |-> 1]), "ACTION", [id |-> 2])
    IN  Exported(Stored(recorded, "SESSION_END", [status |-> "success"]))

\* The spans are interchangeable, and so are the threads that end them.
IntegrationSymmetry == Permutations(Spans) \cup Permutations(Callers)
=============================================================================
