----------------------------- MODULE Commitment -----------------------------
(***************************************************************************)
(* Pre-outcome commitments (sasana/commitment.py).  A committer commits to *)
(* a decision and to the session recorded so far, has the commitment       *)
(* stamped by a time stamping authority (TSA), keeps the secrets, sends the*)
(* public part to a counterparty and later reveals everything; anybody can *)
(* then judge the bundle against a deadline.                               *)
(*                                                                         *)
(* A hash is the tuple of what it covers: a commitment is its revision     *)
(* number, its content (the payload and the fresh salt, for which the      *)
(* number of the commit call stands) and the tip of the session, that is   *)
(* the number of events up to it.                                          *)
(***************************************************************************)
EXTENDS Rfc3161

CONSTANTS
    Urls,             \* tsa_urls: the authorities in the order they are asked
    Stated,           \* the accuracy each of them states, or Omitted
    Pki,              \* the certificates in use
    Leaves,           \* per authority its certificates, as they were renewed
    Chains,           \* per certificate of an authority what comes with its tokens
    Roots,            \* the certificates that can be pinned
    Omitted,
    DefaultAccuracy,  \* default_accuracy_s
    Deadline,
    Cases,            \* tokens to verify: a pki, its signer, what it carries, the anchors
    None,
    MaxTime, MaxEvents, MaxCommits, MaxReceipts   \* bounds

Tsas == {Urls[i] : i \in DOMAIN Urls}

AccuracyOf(stated) == IF stated = Omitted THEN DefaultAccuracy ELSE stated

\* The clock of an authority is off by at most the accuracy it states; of one that
\* states none, by what the verifier assumes.
Error(tsa) == AccuracyOf(Stated[tsa])

ASSUME CommitmentAssumption ==
    /\ Urls \in Seq(Tsas) /\ Urls # <<>>
    /\ DefaultAccuracy \in Nat
    /\ Omitted \notin Nat
    /\ Stated \in [Tsas -> Nat \cup {Omitted}]
    /\ {Deadline, MaxTime, MaxEvents, MaxCommits, MaxReceipts} \subseteq Nat

\* What a token carries are certificates.
ASSUME CasesAssumption ==
    \A case \in Cases :
        /\ case.certs \in Seq(DOMAIN case.pki.key)
        /\ NoCert \notin DOMAIN case.pki.key

VARIABLES
    clock,
    session,   \* the recorded events, in order
    call,      \* the commit() that is running, or has returned and is not kept yet
    held,      \* the public commitments whose secrets are kept as well
    registry,  \* the counterparty's receipts
    bundle,    \* what was revealed, None before
    made       \* history: per commit call its commitment, and when and by whom it
               \* was stamped

vars == <<clock, session, call, held, registry, bundle, made>>

NoCall == [stage |-> "none"]

Init ==
    /\ clock = 0
    /\ session = <<"SESSION_START">>
    /\ call = NoCall
    /\ held = {} /\ registry = {} /\ bundle = None /\ made = <<>>

-----------------------------------------------------------------------------
(* Time, and the session that goes on                                      *)

Tick ==
    /\ clock < MaxTime
    /\ clock' = clock + 1
    /\ UNCHANGED <<session, call, held, registry, bundle, made>>

IsClosed(events) == events[Len(events)] = "SESSION_END"

RecordEvent(type) ==
    /\ ~IsClosed(session)
    /\ Len(session) < MaxEvents
    /\ session' = Append(session, type)
    /\ UNCHANGED <<clock, call, held, registry, bundle, made>>

-----------------------------------------------------------------------------
(* commit                                                                  *)

Commitments(publics) == {p.c : p \in publics}

\* The commitment to revise: the latest one whose secrets are kept.
Latest == IF held = {} THEN None
          ELSE CHOOSE p \in held : \A q \in held : q.c.rev <= p.c.rev

\* Mutant: a revision gets the index of the commitment it revises.
SameIndex(prev) == IF prev = None THEN 0 ELSE prev.c.rev

RevisionIndex(prev) == IF prev = None THEN 0 ELSE prev.c.rev + 1

ComputeCommitment(rev, content, root) == [rev |-> rev, content |-> content, root |-> root]

\* The checks and the digest: from here on the content and the tip are fixed, whether
\* or not the session is still open.
BeginCommit ==
    /\ call = NoCall
    /\ Len(made) < MaxCommits
    /\ LET c == ComputeCommitment(RevisionIndex(Latest), Len(made) + 1, Len(session))
       IN  /\ call' = [stage |-> "asking", c |-> c, prev |-> Latest, next |-> 1]
           /\ made' = Append(made, [c |-> c, stamped |-> None, tsa |-> None])
    /\ UNCHANGED <<clock, session, held, registry, bundle>>

\* No response, or one that verify_timestamp_strict refuses: on to the next authority;
\* after the last one commit raises.
TsaFails ==
    /\ call.stage = "asking"
    /\ call' = IF call.next = Len(Urls) THEN NoCall ELSE [call EXCEPT !.next = @ + 1]
    /\ UNCHANGED <<clock, session, held, registry, bundle, made>>

PublicCommitment(c, prev, token) ==
    [c |-> c, prev |-> IF prev = None THEN None ELSE prev.c, token |-> token]

\* The number of the commit call stands for the nonce of its requests.
Nonce(c) == c.content

Policy == "policy"

\* The tokens an authority may issue now, with whichever of its certificates.
Tokens(c, tsa) ==
    {IssuedToken(Pki, leaf, Chains[leaf], [by |-> "key", key |-> Pki.key[leaf]],
                 TstInfo(c, Nonce(c), Policy, gen, Stated[tsa])) :
        leaf \in Leaves[tsa], gen \in (clock - Error(tsa))..(clock + Error(tsa))}

\* What comes back instead from a cache on the way: the answer to an earlier request.
Earlier == {p.token : p \in held}

\* The first token that passes strict verification: commit returns the public part.
Stamp ==
    /\ call.stage = "asking"
    /\ \E token \in Tokens(call.c, Urls[call.next]) \cup Earlier :
          /\ VerifyTimestampStrict(Pki, token, call.c, Roots, Nonce(call.c), {Policy})
          /\ call' = [stage |-> "returned", public |-> PublicCommitment(call.c, call.prev, token)]
    /\ made' = [made EXCEPT ![call.c.content].stamped = clock,
                            ![call.c.content].tsa = Urls[call.next]]
    /\ UNCHANGED <<clock, session, held, registry, bundle>>

\* The caller stores what commit returned.
Keep ==
    /\ call.stage = "returned"
    /\ held' = held \cup {call.public}
    /\ call' = NoCall
    /\ UNCHANGED <<clock, session, registry, bundle, made>>

\* The committer dies; its files, and what it sent, stay.
Crash ==
    /\ call # NoCall
    /\ call' = NoCall
    /\ UNCHANGED <<clock, session, held, registry, bundle, made>>

\* What was sent reaches the counterparty at any time after, in any order, any number
\* of times or never.  A caller may send before it keeps.
Sent == held \cup (IF call.stage = "returned" THEN {call.public} ELSE {})

Deliver(public) ==
    /\ Cardinality(registry) < MaxReceipts
    /\ registry' = registry \cup {[c |-> public.c, at |-> clock]}
    /\ UNCHANGED <<clock, session, call, held, bundle, made>>

-----------------------------------------------------------------------------
(* reveal_bundle: some of the commitments kept, with the session so far    *)

RevealBundle(publics) ==
    /\ bundle = None
    /\ publics # {}
    /\ bundle' = [revs |-> publics, events |-> session]
    /\ UNCHANGED <<clock, session, call, held, registry, made>>

-----------------------------------------------------------------------------
(* verify_commitment, for the anchors the verifier pins, and the registry  *)
(* or None                                                                 *)

\* The timestamp stands on its own: nobody knows the nonce any more.
StampIsGood(p, anchors) ==
    VerifyTimestampStrict(Pki, p.token, p.c, anchors, NoNonce, {Policy})

RevisionIsValid(p, b, anchors) == p.c.root \in DOMAIN b.events /\ StampIsGood(p, anchors)

\* Mutant: genTime alone.
GenTime(p) == p.token.tst.gen

\* The latest instant at which the authority may have stamped the commitment.
UpperBound(p) == p.token.tst.gen + AccuracyOf(p.token.tst.accuracy)

ReceivedAt(p, reg) == {r.at : r \in {r \in reg : r.c = p.c}}

\* Mutant: a second receipt replaces the first.
LastReceiptInTime(p, reg) ==
    reg # None => ReceivedAt(p, reg) # {} /\ Max(ReceivedAt(p, reg)) < Deadline

ReceivedInTime(p, reg) ==
    reg # None => ReceivedAt(p, reg) # {} /\ Min(ReceivedAt(p, reg)) < Deadline

IsOnTime(p, reg) == UpperBound(p) < Deadline /\ ReceivedInTime(p, reg)

Indices(b) == {p.c.rev : p \in b.revs}

\* prev_commitment is compared only with a revision that is in the bundle.
BrokenLink(b) == \E p \in b.revs :
    \/ p.c.rev = 0 /\ p.prev # None
    \/ \E q \in b.revs : p.c.rev = q.c.rev + 1 /\ p.prev # q.c

NonMonotonic(valid) ==
    \E p, q \in valid : p.c.rev < q.c.rev /\ UpperBound(q) < UpperBound(p)

\* Mutant: only entries for revealed revisions are looked at.
UnrevealedTwins(b, reg) ==
    IF reg = None THEN {} ELSE {r.c : r \in {r \in reg : r.c.rev \in Indices(b)}} \ Commitments(b.revs)

Unrevealed(b, reg) == IF reg = None THEN {} ELSE {r.c : r \in reg} \ Commitments(b.revs)

Equivocation(reg) == reg # None /\ \E r, s \in reg : r.c.rev = s.c.rev /\ r.c # s.c

Warnings(b, reg) ==
    (IF \E i \in 0..Max(Indices(b)) : i \notin Indices(b) THEN {"UNREVEALED_REVISION"} ELSE {})
    \cup (IF Unrevealed(b, reg) # {} THEN {"UNREVEALED_COMMITMENT"} ELSE {})

Verdict(status, effective, warnings) ==
    [verdict |-> status, effective |-> effective, warnings |-> warnings]

\* A session that was open when it was revealed fails verify().
VerifyCommitment(b, anchors, reg) ==
    LET valid == {p \in b.revs : RevisionIsValid(p, b, anchors)}
        eligible == {p \in valid : IsOnTime(p, reg)}
        effective == CHOOSE p \in eligible : \A q \in eligible : q.c.rev <= p.c.rev
        laterInvalid == eligible # {} /\ \E p \in b.revs \ valid : effective.c.rev < p.c.rev
        refused ==
            \/ ~IsClosed(b.events)
            \/ Cardinality(Indices(b)) < Cardinality(b.revs)
            \/ BrokenLink(b) \/ NonMonotonic(valid) \/ Equivocation(reg)
            \/ laterInvalid \/ valid = {}
    IN  IF refused THEN Verdict("INVALID", None, Warnings(b, reg))
        ELSE IF eligible = {} THEN Verdict("LATE", None, Warnings(b, reg))
        ELSE Verdict("VALID_ON_TIME", effective.c, Warnings(b, reg))

-----------------------------------------------------------------------------

Next ==
    \/ Tick
    \/ \E type \in {"LLM_CALL", "SESSION_END"} : RecordEvent(type)
    \/ BeginCommit \/ TsaFails \/ Stamp \/ Keep \/ Crash
    \/ \E public \in Sent : Deliver(public)
    \/ \E publics \in SUBSET held : RevealBundle(publics)

Spec == Init /\ [][Next]_vars

-----------------------------------------------------------------------------
(* Properties                                                              *)

\* A token issued at a time is accepted then only if a certificate it carries, which has
\* the key that signed it, may time-stamp, is valid and is trusted; and when the token
\* identifies its signer's certificate alone, that suffices.
AcceptedWhenIssued(case, when) ==
    LET pki == case.pki
        tst == TstInfo("hash", 1, Policy, when, Omitted)
        token == IssuedToken(pki, case.signer, case.certs, case.sid, tst)
        accepted == VerifyTimestampStrict(pki, token, "hash", case.anchors, 1, {Policy})
        carried == Embedded(case.certs)
        identified == {c \in carried : IF case.sid.by = "serial" THEN c = case.sid.cert
                                       ELSE pki.key[c] = case.sid.key}
        Good(c) == /\ c \in pki.stampers /\ when \in pki.valid[c]
                   /\ IsTrusted(pki, c, carried \ {c}, case.anchors, when)
    IN  /\ accepted => \E c \in carried : Good(c) /\ pki.key[c] = pki.key[case.signer]
        /\ identified = {case.signer} /\ Good(case.signer) => accepted

\* Whatever crosses, cycles, expires or is missing among the certificates: the search
\* that stops at the first path finds one exactly if there is one (sasana/rfc3161.py,
\* _build_chain).  It depends on the clock alone, and is stated before anything else
\* has happened.
AcceptedExactlyWhenIssued == session = <<"SESSION_START">> /\ made = <<>> =>
    \A case \in Cases : AcceptedWhenIssued(case, clock)

\* What a verifier may pass: anchors, and the registry or nothing.
Inputs == [anchors : SUBSET Roots, registry : {None, registry}]

Judged(in) == VerifyCommitment(bundle, in.anchors, in.registry)

\* When a commitment was stamped.
StampedAt(c) == made[c.content].stamped
ClockError(c) == Error(made[c.content].tsa)

\* VALID_ON_TIME is true: the effective revision was committed before the deadline, by
\* the true time, and when the registry was consulted the counterparty had it before
\* the deadline.
OnTimeIsTrue == bundle # None =>
    \A in \in Inputs :
        LET v == Judged(in)
        IN  v.verdict = "VALID_ON_TIME" =>
                LET m == made[v.effective.content]
                IN  /\ m.c = v.effective
                    /\ m.stamped < Deadline
                    /\ in.registry # None => \E r \in registry : r.c = m.c /\ r.at < Deadline

\* A revision stamped, by the true time, so long before the deadline that the error of
\* the authority's clock does not matter.
WellBefore(c) == StampedAt(c) + 2 * ClockError(c) < Deadline

\* No later decision is hidden by an earlier one: if the registry was consulted and no
\* warning speaks of unrevealed commitments, then the counterparty had no revision in
\* time that is later than the effective one.
NothingHidden == bundle # None =>
    \A in \in Inputs :
        LET v == Judged(in)
        IN  v.verdict = "VALID_ON_TIME" /\ v.warnings = {} /\ in.registry # None =>
                \A p \in held, r \in registry :
                    p.c = r.c /\ r.at < Deadline /\ WellBefore(p.c)
                        => p.c.rev <= v.effective.rev

\* Successive revisions are stamped further apart than twice the error of the clock.
Patient(publics) == \A p, q \in publics :
    p.c.rev < q.c.rev => StampedAt(p.c) + 2 * ClockError(p.c) <= StampedAt(q.c)

\* A committer that leaves time between its revisions and keeps what it sends is never
\* judged INVALID by a verifier that pins its authorities, whatever failed on the way,
\* and a revision it made in good time is effective unless a later one is.
PatientIsAccepted ==
    bundle # None /\ IsClosed(bundle.events) /\ Patient(bundle.revs) =>
        \A reg \in {None, registry} :
            (reg # None => {r.c : r \in registry} \subseteq Commitments(held)) =>
                LET v == VerifyCommitment(bundle, Roots, reg)
                IN  /\ v.verdict # "INVALID"
                    /\ \A p \in bundle.revs :
                          /\ WellBefore(p.c)
                          /\ reg # None => \E r \in registry : r.c = p.c /\ r.at < Deadline
                          => v.verdict = "VALID_ON_TIME" /\ p.c.rev <= v.effective.rev

\* From the deadline on nothing that arrives changes a verdict for the better, nor the
\* effective revision; it can only show that two decisions were committed.
VerdictIsFinal == [][
    bundle # None /\ clock >= Deadline =>
        \A anchors \in SUBSET Roots :
            LET v == VerifyCommitment(bundle, anchors, registry)
                w == VerifyCommitment(bundle', anchors, registry')
            IN  w.verdict = "INVALID" \/ (w.verdict = v.verdict /\ w.effective = v.effective)
    ]_vars
=============================================================================
