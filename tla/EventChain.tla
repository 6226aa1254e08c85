----------------------------- MODULE EventChain -----------------------------
(***************************************************************************)
(* The event envelope of Sasana and its hash chain (sasana/envelope.py,    *)
(* sasana/events.py).                                                      *)
(*                                                                         *)
(* An event is a record with the envelope fields the properties tell       *)
(* apart.  SHA-256 over the canonical bytes is modelled as the tuple of    *)
(* the hashed fields: two digests are equal exactly when all the fields    *)
(* are, which is the collision resistance the code relies on.  The         *)
(* timestamp is left out, so two events of equal content have equal        *)
(* digests.  An Ed25519 signature is the pair of the key and the digest    *)
(* it covers.                                                              *)
(***************************************************************************)
EXTENDS Naturals, Sequences, FiniteSets

\* GENESIS_HASH: the prev_hash of the first event, equal to no digest.
Genesis == <<>>

\* Absent values: no signing key, no signature, no RFC 3161 token.
NoKey == "no-key"
NoSig == <<>>
NoToken == <<>>

\* The event types, LLM_CALL ... TOOL_ERROR folded into ACTION and the server
\* types other than CHAIN_SEAL into SERVER; FOREIGN is a string outside the enum.
SdkTypes == {"SESSION_START", "SESSION_END", "ACTION", "LOG_DROP"}
ServerTypes == {"CHAIN_SEAL", "SERVER"}
EventTypes == SdkTypes \cup ServerTypes

\* The canonicalizations a SESSION_START can declare.
Rfc8785 == "jcs-rfc8785"
Legacy == "legacy"

\* The hash input is the envelope without event_hash and signature.
Digest(e) == <<e.seq, e.type, e.session, e.payload, e.prev>>

Signature(key, digest) == IF key = NoKey THEN NoSig ELSE <<key, digest>>

\* A payload is its hashed body and, apart from it, the rfc3161_token field.
Payload(body) == [body |-> body, token |-> NoToken]

StartPayload(key) == Payload([canon |-> Rfc8785, pubkey |-> key])

BuildEvent(seq, type, session, payload, prev, key) ==
    LET digest == <<seq, type, session, payload, prev>>
    IN  [seq |-> seq, type |-> type, session |-> session, payload |-> payload,
         prev |-> prev, hash |-> digest, sig |-> Signature(key, digest)]

\* Mutant: the token is put in, the hash and the signature stay.
TokenAdded(e, imprint, key) == [e EXCEPT !.payload.token = <<imprint>>]

\* The event with a timestamp token over imprint in its payload, hashed and
\* signed again.
Anchored(e, imprint, key) ==
    BuildEvent(e.seq, e.type, e.session,
               [body |-> e.payload.body, token |-> <<imprint>>], e.prev, key)

\* The digest the event had before it was anchored.
PreTokenDigest(e) ==
    <<e.seq, e.type, e.session, Payload(e.payload.body), e.prev>>

\* An event whose stored hash is the digest of its other fields.
SelfConsistent(e) == e.hash = Digest(e)

\* The hash a log's next event has to carry as prev_hash.
Tip(log) == IF log = <<>> THEN Genesis ELSE log[Len(log)].hash

\* The i-th event continues the events before it.
LinkedAt(log, i) ==
    /\ log[i].seq = i
    /\ log[i].prev = IF i = 1 THEN Genesis ELSE log[i - 1].hash

\* A valid chain prefix: consecutive numbers from 1, every event self-consistent
\* and linked to the event before it.
IsChain(log) ==
    \A i \in 1..Len(log) : SelfConsistent(log[i]) /\ LinkedAt(log, i)

\* The entries at some places of a log, sorted by sequence number, ties in the
\* order of the places.
SortedBySeq(log, places) ==
    LET Place(i) == Cardinality({j \in places :
                       \/ log[j].seq < log[i].seq
                       \/ log[j].seq = log[i].seq /\ j <= i})
    IN  [k \in 1..Cardinality(places) |-> log[CHOOSE i \in places : Place(i) = k]]

\* ORDER BY seq with ties in rowid order, and Python's sorted with ties in list order.
OrderBySeq(log) == SortedBySeq(log, DOMAIN log)
=============================================================================
