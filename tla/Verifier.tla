------------------------------ MODULE Verifier ------------------------------
(***************************************************************************)
(* The two verifiers of a session file: sasana/verifier.py and the         *)
(* stand-alone sasana-rs/src/main.rs.                                      *)
(*                                                                         *)
(* A file is the sequence of its lines.  A line is an event, or Torn: text *)
(* that is no JSON object.  A body is a record, so that an absent field is *)
(* a field outside its DOMAIN.  Error texts and counts are left out: a     *)
(* check is a predicate, a verdict has the status, the evidence class, the *)
(* root hash and the outcome of the timestamp check.                       *)
(***************************************************************************)
EXTENDS EventChain

Torn == [torn |-> TRUE]
IsEvent(line) == line # Torn

\* Every line parses: what load_session of the reports raises otherwise.
Readable(lines) == \A i \in DOMAIN lines : IsEvent(lines[i])

\* A canonicalization neither verifier knows.
Unsupported == "unsupported"

\* No pinned key: --trust-key was not given.
NoPin == NoKey

Has(body, field) == field \in DOMAIN body

\* The indices of the events of a type.
Of(events, type) == {i \in DOMAIN events : events[i].type = type}

\* The SESSION_START with the least number, the first of several: Python's min
\* and Rust's min_by_key.
FirstStart(events) ==
    CHOOSE i \in Of(events, "SESSION_START") : \A j \in Of(events, "SESSION_START") :
        \/ events[i].seq < events[j].seq
        \/ events[i].seq = events[j].seq /\ i <= j

\* The canonicalization the session declares; absent means legacy, and anything
\* but RFC 8785 is refused.
SelectCanonicalization(events) ==
    IF Of(events, "SESSION_START") = {} THEN Legacy
    ELSE LET body == events[FirstStart(events)].payload.body
         IN  IF ~Has(body, "canon") THEN Legacy
             ELSE IF body.canon = Rfc8785 THEN Rfc8785 ELSE Unsupported

\* The hash of an event under a canonicalization; the two encode differently.
ComputeEventHash(e, canon) ==
    IF canon = Rfc8785 THEN Digest(e) ELSE <<Legacy, Digest(e)>>

\* Mutant: the links are followed, the hashes are not recomputed.
LinksOnly(events, canon) ==
    \A i \in DOMAIN events :
       events[i].prev = IF i = 1 THEN Genesis ELSE events[i - 1].hash

\* The chain checks of both verifiers, over the order each of them reads.
HashChain(events, canon) ==
    \A i \in DOMAIN events :
       /\ events[i].hash = ComputeEventHash(events[i], canon)
       /\ events[i].prev = IF i = 1 THEN Genesis ELSE events[i - 1].hash

Numbered(events) == \A i \in DOMAIN events : events[i].seq = i

-----------------------------------------------------------------------------
(* sasana/verifier.py                                                      *)

Structural(events) == \A i \in DOMAIN events : events[i].type \in EventTypes

\* One session; numbers from 1 without gap or repetition, in any file order.
Sequence(events) ==
    /\ \A i, j \in DOMAIN events : events[i].session = events[j].session
    /\ Numbered(OrderBySeq(events))

\* Mutant: a session need not be closed.
OpensRight(events) ==
    /\ Cardinality(Of(events, "SESSION_START")) = 1
    /\ OrderBySeq(events)[1].type = "SESSION_START"

\* One SESSION_START, first by number, and an end or a seal somewhere.
Completeness(events) ==
    /\ Cardinality(Of(events, "SESSION_START")) = 1
    /\ OrderBySeq(events)[1].type = "SESSION_START"
    /\ Of(events, "SESSION_END") \cup Of(events, "CHAIN_SEAL") # {}

\* Mutant: a pinned key alone does not demand a seal.
PinIsOptional(pin, requireSeal) == ~requireSeal

\* May the seal be missing?
SealIsOptional(pin, requireSeal) == pin = NoPin /\ ~requireSeal

\* No seal is fine unless one is demanded; one seal has to be the last event,
\* signed by its key, the pinned one if there is a pin, over its own hash, and to
\* attest the hash of the event before it.
SealSignature(events, pin, requireSeal) ==
    LET n == Len(events)
        seal == events[n]
        body == seal.payload.body
        seals == Of(events, "CHAIN_SEAL")
    IN  \/ seals = {} /\ SealIsOptional(pin, requireSeal)
        \/ /\ seals = {n}
           /\ Has(body, "server_pubkey")
           /\ pin # NoPin => body.server_pubkey = pin
           /\ seal.sig # NoSig
           /\ seal.sig = Signature(body.server_pubkey, seal.hash)
           /\ n >= 2 => Has(body, "session_hash") /\ body.session_hash = events[n - 1].hash

AllSigned(signed, own) == signed = own /\ signed # {}

\* The signed events other than the seal, checked against the key a SESSION_START
\* declares: is one of them wrong, is every event signed?
SessionSignatures(events, start) ==
    LET body == events[start].payload.body
        own == DOMAIN events \ Of(events, "CHAIN_SEAL")
        signed == {i \in own : events[i].sig # NoSig}
    IN  IF ~Has(body, "pubkey") \/ body.pubkey = NoKey
        THEN [valid |-> TRUE, all |-> FALSE]
        ELSE LET valid == \A i \in signed : events[i].sig = Signature(body.pubkey, events[i].hash)
             IN  [valid |-> valid, all |-> valid /\ AllSigned(signed, own)]

\* Without a SESSION_START there is no key to check against.
SignatureCheck(events, start) ==
    IF Of(events, "SESSION_START") = {} THEN [valid |-> TRUE, all |-> FALSE]
    ELSE SessionSignatures(events, start)

\* Python takes the first SESSION_START in file order.
FileStart(events) ==
    CHOOSE i \in Of(events, "SESSION_START") : \A j \in Of(events, "SESSION_START") : i <= j

\* SESSION_START as it was when its digest was sent to the TSA.
WithoutToken(e) == [e EXCEPT !.payload.token = NoToken]

\* Informational: does the token stamp SESSION_START without its token?
Rfc3161Timestamp(events, canon) ==
    IF Of(events, "SESSION_START") = {} THEN "SKIPPED"
    ELSE LET e == events[FileStart(events)]
         IN  IF e.payload.token = NoToken THEN "SKIPPED"
             ELSE IF e.payload.token = <<ComputeEventHash(WithoutToken(e), canon)>>
                  THEN "IMPRINT_MATCH" ELSE "FAIL"

EvidenceClass(events, allSigned, pin) ==
    IF Of(events, "LOG_DROP") # {} THEN "PARTIAL_EVIDENCE"
    ELSE IF Of(events, "CHAIN_SEAL") # {}
         THEN IF pin # NoPin THEN "AUTHORITATIVE_EVIDENCE" ELSE "SELF_SEALED_EVIDENCE"
    ELSE IF allSigned THEN "SIGNED_NON_AUTHORITATIVE_EVIDENCE"
    ELSE "NON_AUTHORITATIVE_EVIDENCE"

Verdict(status, class, root, timestamp) ==
    [status |-> status, class |-> class, root |-> root, timestamp |-> timestamp]

NoVerdict == Verdict("ERROR", "NO_EVIDENCE", Genesis, "SKIPPED")

PythonVerify(lines, pin, requireSeal) ==
    IF lines = <<>> \/ \E i \in DOMAIN lines : ~IsEvent(lines[i]) THEN NoVerdict
    ELSE LET canon == SelectCanonicalization(lines)
             sorted == OrderBySeq(lines)
             root == sorted[Len(sorted)].hash
             signatures == SignatureCheck(lines, FileStart(lines))
         IN  IF canon = Unsupported THEN NoVerdict
             ELSE IF ~Structural(lines) THEN Verdict("COMPROMISED", "NO_EVIDENCE", root, "SKIPPED")
             ELSE IF /\ Sequence(lines) /\ HashChain(sorted, canon) /\ Completeness(lines)
                     /\ SealSignature(sorted, pin, requireSeal) /\ signatures.valid
                  THEN Verdict(IF Of(lines, "LOG_DROP") = {} THEN "INTACT" ELSE "PARTIAL",
                               EvidenceClass(lines, signatures.all, pin), root,
                               Rfc3161Timestamp(lines, canon))
             ELSE Verdict("COMPROMISED", "NO_EVIDENCE", root, Rfc3161Timestamp(lines, canon))

-----------------------------------------------------------------------------
(* sasana-rs: everything in file order, no check of event types, of the    *)
(* number of sessions, of a second SESSION_START, or of timestamps.        *)

\* Mutant: how the file ends does not matter.
FirstBookend(events) == events[1].type = "SESSION_START"

Bookends(events) ==
    LET last == events[Len(events)].type
        ends == Of(events, "SESSION_END")
        seals == Of(events, "CHAIN_SEAL")
    IN  /\ events[1].type = "SESSION_START"
        /\ \/ last = "SESSION_END"
           \/ last = "CHAIN_SEAL" /\ ends # {}
           \/ seals # {} /\ ends = {}

RustVerify(lines, pin, requireSeal) ==
    IF lines = <<>> \/ \E i \in DOMAIN lines : ~IsEvent(lines[i]) THEN NoVerdict
    ELSE LET canon == SelectCanonicalization(lines)
             root == lines[Len(lines)].hash
             signatures == SignatureCheck(lines, FirstStart(lines))
         IN  IF canon = Unsupported THEN NoVerdict
             ELSE IF /\ Numbered(lines) /\ HashChain(lines, canon) /\ Bookends(lines)
                     /\ SealSignature(lines, pin, requireSeal) /\ signatures.valid
                  THEN Verdict(IF Of(lines, "LOG_DROP") = {} THEN "INTACT" ELSE "PARTIAL",
                               EvidenceClass(lines, signatures.all, pin), root, "SKIPPED")
             ELSE Verdict("COMPROMISED", "NO_EVIDENCE", root, "SKIPPED")
=============================================================================
