----------------------------- MODULE MCSealing ------------------------------
(* Exported sessions for the instances of Sealing, built as LogFile does.  *)
EXTENDS Sealing

CONSTANTS c1, c2

LOCAL Files == INSTANCE LogFile WITH
    Shapes <- {}, Keys <- {NoKey}, Canons <- {Rfc8785}, ServerKey <- "server-key",
    MaxFaults <- 0, recorded <- log, file <- log, faults <- 0

Session(shape, key, canon) == Files!Recorded(shape, "s1", key, canon, key # NoKey)

Ended == <<"SESSION_START", "ACTION", "SESSION_END">>
Dropped == <<"SESSION_START", "LOG_DROP", "SESSION_END">>
Open == <<"SESSION_START", "ACTION">>
Trailing == <<"SESSION_START", "SESSION_END", "ACTION">>

\* The same session with its lines in another order, as a merge would leave them.
Reordered(l) == <<l[2], l[1]>> \o SubSeq(l, 3, Len(l))

MCLogs ==
    {Session(Ended, "session-key", Rfc8785), Session(Ended, NoKey, Legacy),
     Reordered(Session(Ended, "session-key", Rfc8785)),
     Session(Dropped, NoKey, Rfc8785), Session(Open, NoKey, Rfc8785),
     Session(Trailing, NoKey, Rfc8785)}

OneLog == {Session(Ended, NoKey, Rfc8785)}
=============================================================================
