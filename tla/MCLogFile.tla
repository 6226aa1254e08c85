----------------------------- MODULE MCLogFile ------------------------------
(* Small sessions for the instances of LogFile.                            *)
EXTENDS LogFile

\* A closed session, one with a record after its end, one with a drop, an open
\* one, and one in which a caller recorded a second SESSION_START.
Closed == <<"SESSION_START", "ACTION", "SESSION_END">>
Late == <<"SESSION_START", "SESSION_END", "ACTION">>
Dropped == <<"SESSION_START", "LOG_DROP", "SESSION_END">>
Open == <<"SESSION_START", "ACTION">>
Restarted == <<"SESSION_START", "SESSION_START", "SESSION_END">>

MCShapes == {Closed, Late, Dropped, Open, Restarted}
MCKeys == {NoKey, "session-key"}
MCCanons == {Rfc8785, Legacy}
=============================================================================
