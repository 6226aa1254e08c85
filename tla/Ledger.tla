------------------------------- MODULE Ledger -------------------------------
(***************************************************************************)
(* One SqliteLedger as a value, for the components that use a ledger one   *)
(* call at a time: the rows it has committed and the number and tip it     *)
(* remembers.  That such calls may be taken as single steps is what        *)
(* LedgerProofs shows of SqliteLedger, the detailed model: every commit    *)
(* appends one event to a chain or anchors the first.  No signing key and  *)
(* no timestamp: the callers here pass no key, and a token does not change *)
(* what follows it.                                                        *)
(***************************************************************************)
EXTENDS Verifier

\* Absent from a caller's dictionary of ledgers.
NoLedger == [rows |-> <<>>]

\* SqliteLedger(db), connect, and the caller's assignment to _session_id.
NewLedger(sid) == [sid |-> sid, next |-> 1, tip |-> Genesis, rows |-> <<>>]

\* __write_event.
Stored(l, type, body) ==
    LET e == BuildEvent(l.next, type, l.sid, Payload(body), l.tip, NoKey)
    IN  [l EXCEPT !.rows = Append(@, e), !.next = @ + 1, !.tip = e.hash]

\* open_session adds the canonicalization to the metadata.
Declared(body) ==
    [f \in DOMAIN body \cup {"canon"} |-> IF f = "canon" THEN Rfc8785 ELSE body[f]]

\* open_session resets the number and the tip, whatever the rows are.
Opened(l, sid, body) ==
    Stored([l EXCEPT !.sid = sid, !.next = 1, !.tip = Genesis],
           "SESSION_START", Declared(body))

\* export_jsonl: the rows of the current session id, by number.
Exported(l) ==
    SortedBySeq(l.rows, {i \in DOMAIN l.rows : l.rows[i].session = l.sid})
=============================================================================
