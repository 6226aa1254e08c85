------------------------------ MODULE Archeion ------------------------------
(***************************************************************************)
(* POST /seal of the Archeion server (archeion/server.py) as a function of *)
(* the request body and the server's key.  The server keeps no record of   *)
(* what it has sealed, so a response depends on nothing else.              *)
(***************************************************************************)
EXTENDS Verifier

\* Mutant: the seal is hashed under RFC 8785 whatever the session declares.
NewestHash(bare, canon) == ComputeEventHash(bare, Rfc8785)

SealHash(bare, canon) == ComputeEventHash(bare, canon)

\* The CHAIN_SEAL after the event last, hashed under the session's own
\* canonicalization and signed with the server's key.
SealEvent(last, canon, key, stamped) ==
    LET body == [session_hash |-> last.hash, server_pubkey |-> key, imprint |-> stamped]
        bare == BuildEvent(last.seq + 1, "CHAIN_SEAL", last.session, Payload(body),
                           last.hash, NoKey)
        hash == SealHash(bare, canon)
    IN  [bare EXCEPT !.hash = hash, !.sig = Signature(key, hash)]

Refused(code) == [code |-> code, body |-> <<>>]

\* Mutant: the server does not look for an earlier seal.
NeverSealed(lines) == FALSE

AlreadySealed(lines) == Of(lines, "CHAIN_SEAL") # {}

\* 400: not JSONL, or empty.  409: sealed before.  422: unknown canonicalization,
\* PARTIAL, COMPROMISED, or no SESSION_END.  Otherwise the events in order and
\* the seal.
SealResponse(lines, key) ==
    IF lines = <<>> \/ \E i \in DOMAIN lines : ~IsEvent(lines[i]) THEN Refused(400)
    ELSE IF AlreadySealed(lines) THEN Refused(409)
    ELSE IF PythonVerify(lines, NoPin, FALSE).status # "INTACT"
              \/ Of(lines, "SESSION_END") = {} THEN Refused(422)
    ELSE LET canon == SelectCanonicalization(lines)
             sorted == OrderBySeq(lines)
             stamped == Rfc3161Timestamp(sorted, canon) = "IMPRINT_MATCH"
         IN  [code |-> 200,
              body |-> Append(sorted, SealEvent(sorted[Len(sorted)], canon, key, stamped))]
=============================================================================
