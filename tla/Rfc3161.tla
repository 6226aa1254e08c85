------------------------------ MODULE Rfc3161 -------------------------------
(***************************************************************************)
(* The strict verification of an RFC 3161 timestamp (sasana/rfc3161.py):   *)
(* the signed attributes, the signer's certificate among those the token   *)
(* carries, its path to a pinned trust anchor, and what the token stamps.  *)
(*                                                                         *)
(* DER is left out: a response that does not parse is no response.  What a *)
(* verifier can tell of the certificates is a record pki: per certificate  *)
(* its key, the certificates that verify as its direct issuer (another one *)
(* of the same name and key does too) and the times at which it is valid;  *)
(* and which are CAs and which may time-stamp.  A reading of algorithm and *)
(* content type identifiers is left out with the DER.                      *)
(***************************************************************************)
EXTENDS Integers, Sequences, FiniteSetsExt

CONSTANT MaxDepth  \* intermediates on a path (8 in the code)

ASSUME Rfc3161Assumption == MaxDepth \in Nat

\* What the parsers make of a response: the stamp, and around it the signed
\* attributes, the certificates and how the signer is identified.
TstInfo(imprint, nonce, policy, gen, accuracy) ==
    [imprint |-> imprint, nonce |-> nonce, policy |-> policy, gen |-> gen, accuracy |-> accuracy]

Token(tst, attrs, certs, sid, signature) ==
    [tst |-> tst, attrs |-> attrs, certs |-> certs, sid |-> sid, signature |-> signature]

\* What an authority answers with one of its certificates.
IssuedToken(pki, cert, certs, sid, tst) ==
    LET attrs == [digest |-> tst]
    IN  Token(tst, attrs, certs, sid, <<pki.key[cert], attrs>>)

Embedded(certs) == {certs[i] : i \in DOMAIN certs}

\* Mutant: the path may have one intermediate less.
TooDeepEarly(path) == Cardinality(path) > MaxDepth

\* A path is the signer's certificate and the intermediates.
TooDeep(path) == Cardinality(path) > MaxDepth + 1

\* _build_chain: a pinned certificate ends a path at once, an anchor that issued the
\* last one must be a CA that was valid then; else by way of an intermediate, the
\* first that leads on.
BuildChain(pki, leaf, intermediates, anchors, when) ==
    LET issuing == {c \in pki.authorities : when \in pki.valid[c]}
        walk[at \in (DOMAIN pki.key) \X (SUBSET DOMAIN pki.key)] ==
            LET cert == at[1]
                path == at[2]
            IN  /\ ~TooDeep(path)
                /\ \/ cert \in anchors
                   \/ pki.issuers[cert] \cap issuing \cap anchors # {}
                   \/ \E inter \in (pki.issuers[cert] \cap issuing \cap intermediates) \ path :
                         walk[<<inter, path \cup {inter}>>]
    IN  walk[<<leaf, {leaf}>>]

NoCert == "no certificate"

\* _find_signer_cert: the first one with the issuer and serial number, or with the key.
FindSignerCert(pki, certs, sid) ==
    LET fits == {i \in DOMAIN certs : IF sid.by = "serial" THEN certs[i] = sid.cert
                                      ELSE pki.key[certs[i]] = sid.key}
    IN  IF fits = {} THEN NoCert ELSE certs[Min(fits)]

NoNonce == 0

\* verify_timestamp_strict, of a response whose status is granted.
VerifyTimestampStrict(pki, token, expected, anchors, nonce, policies) ==
    LET leaf == FindSignerCert(pki, token.certs, token.sid)
        tst == token.tst
    IN  /\ anchors # {}
        /\ token.attrs.digest = tst
        /\ leaf # NoCert
        /\ token.signature = <<pki.key[leaf], token.attrs>>
        /\ BuildChain(pki, leaf, Embedded(token.certs) \ {leaf}, anchors, tst.gen)
        /\ tst.gen \in pki.valid[leaf]
        /\ leaf \in pki.stampers
        /\ tst.imprint = expected
        /\ nonce # NoNonce => tst.nonce = nonce
        /\ tst.policy \in policies

-----------------------------------------------------------------------------
(* What the search for a path is for                                       *)

\* The certificates from which issuers lead to leaf in at most n steps.
LeadingTo(pki, leaf, issuing, n) ==
    LET reached[k \in 0..n] ==
          IF k = 0 THEN {leaf}
          ELSE reached[k - 1] \cup UNION {pki.issuers[c] \cap issuing : c \in reached[k - 1]}
    IN  reached[n]

\* There is a way from an anchor to leaf: it is pinned itself, or an anchor issued it
\* or one of the intermediates that lead to it, all valid CAs at the time.
IsTrusted(pki, leaf, intermediates, anchors, when) ==
    LET valid == {c \in pki.authorities : when \in pki.valid[c]}
        reached == LeadingTo(pki, leaf, valid \cap intermediates, MaxDepth)
    IN  \E c \in reached : c \in anchors \/ pki.issuers[c] \cap valid \cap anchors # {}
=============================================================================
