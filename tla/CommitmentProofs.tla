-------------------------- MODULE CommitmentProofs --------------------------
(***************************************************************************)
(* What a verdict VALID_ON_TIME is worth, for any authorities, certificate *)
(* graphs, accuracies, deadlines and numbers of commitments: it is true, it*)
(* hides no later decision, and it is final at the deadline.  Then when one*)
(* is due: a patient committer gets it.  Last, that the search for a path  *)
(* of certificates, on which each of these rests, finds one if there is.   *)
(***************************************************************************)
EXTENDS Commitment, FiniteSetTheorems, WellFoundedInduction, TLAPS

-----------------------------------------------------------------------------
(* The inductive invariant: what is kept, returned or revealed was stamped *)
(* when and by whom the history says.                                      *)

Revisions == [rev : Nat, content : Nat, root : Nat]
Receipts == [c : Revisions, at : Nat]
Entries == [c : Revisions, stamped : Nat \cup {None}, tsa : Tsas \cup {None}]
EventTypes == {"SESSION_START", "LLM_CALL", "SESSION_END"}

Types ==
    /\ clock \in Nat
    /\ session \in Seq(EventTypes)
    /\ registry \in SUBSET Receipts
    /\ made \in Seq(Entries)

\* The c-th call of commit made c, with an index below the number of the call.
IsMade(c, history) ==
    /\ c.content \in DOMAIN history
    /\ history[c.content].c = c
    /\ c.rev < c.content

\* The token of p is over p, and its time agrees with the history.
Genuine(p, history) ==
    /\ IsMade(p.c, history)
    /\ LET m == history[p.c.content] IN
          /\ m.stamped \in Nat /\ m.tsa \in Tsas
          /\ p.token.tst.gen \in (m.stamped - Error(m.tsa))..(m.stamped + Error(m.tsa))
          /\ p.token.tst.accuracy = Stated[m.tsa]
    /\ p.token.tst.nonce = p.c.content

\* A commit that is asking is the last one made, and nothing of it is kept.
Asking ==
    /\ call = [stage |-> "asking", c |-> call.c, prev |-> call.prev, next |-> call.next]
    /\ call.next \in DOMAIN Urls
    /\ call.c.content = Len(made) /\ IsMade(call.c, made)
    /\ \A p \in held : p.c.content # Len(made)

Returned ==
    /\ call = [stage |-> "returned", public |-> call.public]
    /\ Genuine(call.public, made)

Inv ==
    /\ Types
    /\ call = NoCall \/ Asking \/ Returned
    /\ \A p \in held : Genuine(p, made)
    /\ bundle # None => bundle.revs \subseteq held

-----------------------------------------------------------------------------
(* Numbers.                                                                *)

LEMMA Smallest ==
    ASSUME NEW S, S \subseteq Nat, S # {}
    PROVE  \E m \in S : \A n \in S : m <= n
<1>1. PICK m \in S : \A n \in S : ~(<<n, m>> \in OpToRel(<, Nat))
  BY NatLessThanWellFounded, WFMin
<1>2. ASSUME NEW n \in S
      PROVE  m <= n
  <2>1. n \in Nat /\ m \in Nat
    OBVIOUS
  <2>2. ~(n < m)
    BY <1>1, <2>1 DEF OpToRel
  <2>. QED BY <2>1, <2>2
<1>. QED BY <1>2

LEMMA Greatest ==
    ASSUME NEW b \in Nat, NEW S, S \subseteq 0..b, S # {}
    PROVE  \E m \in S : \A n \in S : n <= m
<1>. DEFINE T == {b - n : n \in S}
<1>1. T \subseteq Nat /\ T # {}
  OBVIOUS
<1>2. PICK k \in T : \A n \in T : k <= n
  BY <1>1, Smallest
<1>3. PICK m \in S : k = b - m
  OBVIOUS
<1>4. ASSUME NEW n \in S
      PROVE  n <= m
  <2>1. b - m <= b - n
    BY <1>2, <1>3
  <2>. QED BY <2>1
<1>. QED BY <1>4

LEMMA MinIsSmallest ==
    ASSUME NEW S, S \subseteq Nat, S # {}
    PROVE  Min(S) \in S /\ \A n \in S : Min(S) <= n
BY Smallest DEF Min

\* Of genuine commitments there is a latest one.
LEMMA LatestExists ==
    ASSUME NEW history, history \in Seq(Entries),
           NEW P, P # {}, \A p \in P : IsMade(p.c, history)
    PROVE  \E p \in P : \A q \in P : q.c.rev <= p.c.rev
<1>. DEFINE S == {p.c.rev : p \in P}
<1>1. Len(history) \in Nat /\ DOMAIN history = 1..Len(history)
  OBVIOUS
<1>2. ASSUME NEW p \in P
      PROVE  p.c.rev \in 0..Len(history)
  <2>1. p.c \in Revisions /\ p.c.content \in 1..Len(history) /\ p.c.rev < p.c.content
    <3>1. p.c.content \in DOMAIN history /\ history[p.c.content].c = p.c
      BY DEF IsMade
    <3>2. history[p.c.content] \in Entries
      BY <3>1
    <3>. QED BY <1>1, <3>1, <3>2 DEF IsMade, Entries
  <2>2. p.c.rev \in Nat
    BY <2>1 DEF Revisions
  <2>. QED BY <1>1, <2>1, <2>2
<1>3. S \subseteq 0..Len(history) /\ S # {}
  BY <1>2
<1>4. PICK m \in S : \A n \in S : n <= m
  BY <1>1, <1>3, Greatest
<1>. QED BY <1>4

LEMMA Errors ==
    ASSUME NEW tsa \in Tsas
    PROVE  Error(tsa) \in Nat /\ AccuracyOf(Stated[tsa]) = Error(tsa)
BY CommitmentAssumption DEF Error, AccuracyOf

-----------------------------------------------------------------------------
(* The invariant.                                                          *)

LEMMA Started == Init => Inv
<1>. SUFFICES ASSUME Init PROVE Inv
  OBVIOUS
<1>1. Types
  BY DEF Init, Types, EventTypes
<1>. QED BY <1>1 DEF Init, Inv

\* A longer history, or one in which the last call is stamped, says the same of
\* what was made before.
LEMMA HistoryGrows ==
    ASSUME NEW old \in Seq(Entries), NEW new \in Seq(Entries), Len(old) <= Len(new),
           NEW p, Genuine(p, old), new[p.c.content] = old[p.c.content]
    PROVE  Genuine(p, new)
BY DEF Genuine, IsMade

LEMMA BeginCommitKeepsInv == Inv /\ BeginCommit => Inv'
<1>. SUFFICES ASSUME Inv, BeginCommit PROVE Inv'
  OBVIOUS
<1>. DEFINE n == Len(made) + 1
            c == ComputeCommitment(RevisionIndex(Latest), n, Len(session))
            entry == [c |-> c, stamped |-> None, tsa |-> None]
<1>1. made \in Seq(Entries) /\ Len(made) \in Nat /\ DOMAIN made = 1..Len(made)
  BY DEF Inv, Types
<1>2. RevisionIndex(Latest) \in Nat /\ RevisionIndex(Latest) < n
  <2>1. CASE Latest = None
    BY <1>1, <2>1 DEF RevisionIndex
  <2>2. CASE Latest # None
    <3>1. held # {}
      BY <2>2 DEF Latest
    <3>2. \A p \in held : IsMade(p.c, made)
      BY DEF Inv, Genuine
    <3>3. \E p \in held : \A q \in held : q.c.rev <= p.c.rev
      BY <1>1, <3>1, <3>2, LatestExists
    <3>4. Latest \in held
      BY <3>1, <3>3 DEF Latest
    <3>5. IsMade(Latest.c, made)
      BY <3>2, <3>4
    <3>6. made[Latest.c.content] \in Entries
      BY <1>1, <3>5 DEF IsMade
    <3>7. Latest.c \in Revisions /\ Latest.c.rev < Latest.c.content /\ Latest.c.content <= Len(made)
      BY <1>1, <3>5, <3>6 DEF IsMade, Entries
    <3>. QED BY <1>1, <2>2, <3>7 DEF RevisionIndex, Revisions
  <2>. QED BY <2>1, <2>2
<1>3. c \in Revisions /\ c.content = n /\ c.rev < n
  BY <1>1, <1>2 DEF ComputeCommitment, Revisions, Inv, Types
<1>4. made' = Append(made, entry)
  BY DEF BeginCommit
<1>5. entry \in Entries
  BY <1>3 DEF Entries
<1>. HIDE DEF entry, c
<1>6. /\ made' \in Seq(Entries) /\ Len(made') = n
      /\ made'[n] = entry /\ \A i \in 1..Len(made) : made'[i] = made[i]
  BY <1>1, <1>4, <1>5
<1>7. Types'
  BY <1>6 DEF Inv, Types, BeginCommit
<1>8. held' = held /\ bundle' = bundle
  BY DEF BeginCommit
<1>9. \A p \in held : Genuine(p, made') /\ p.c.content # n
  <2>. SUFFICES ASSUME NEW p \in held PROVE Genuine(p, made') /\ p.c.content # n
    OBVIOUS
  <2>1. Genuine(p, made) /\ p.c.content \in 1..Len(made)
    BY <1>1 DEF Inv, Genuine, IsMade
  <2>2. made'[p.c.content] = made[p.c.content] /\ Len(made) <= Len(made')
    BY <1>1, <1>6, <2>1
  <2>. QED BY <1>1, <1>6, <2>1, <2>2, HistoryGrows
<1>10. Asking'
  <2>1. call' = [stage |-> "asking", c |-> c, prev |-> Latest, next |-> 1]
    BY DEF BeginCommit, c
  <2>2. 1 \in DOMAIN Urls
    BY CommitmentAssumption
  <2>3. IsMade(c, made')
    BY <1>1, <1>3, <1>6 DEF IsMade, entry
  <2>. QED BY <1>3, <1>6, <1>8, <1>9, <2>1, <2>2, <2>3 DEF Asking
<1>. QED BY <1>7, <1>8, <1>9, <1>10 DEF Inv

LEMMA TsaFailsKeepsInv == Inv /\ TsaFails => Inv'
<1>. SUFFICES ASSUME Inv, TsaFails PROVE Inv'
  OBVIOUS
<1>1. Types'
  BY DEF Inv, Types, TsaFails
<1>2. call' = NoCall \/ Asking'
  <2>1. Asking
    BY DEF Inv, TsaFails, NoCall, Returned
  <2>2. CASE call.next = Len(Urls)
    BY <2>2 DEF TsaFails
  <2>3. CASE call.next # Len(Urls)
    <3>1. call' = [call EXCEPT !.next = @ + 1]
      BY <2>3 DEF TsaFails
    <3>2. call' = [stage |-> "asking", c |-> call.c, prev |-> call.prev, next |-> call.next + 1]
      BY <2>1, <3>1 DEF Asking
    <3>3. call.next + 1 \in DOMAIN Urls
      BY <2>1, <2>3, CommitmentAssumption DEF Asking
    <3>. QED BY <2>1, <3>2, <3>3 DEF Asking, TsaFails
  <2>. QED BY <2>2, <2>3
<1>. QED BY <1>1, <1>2 DEF Inv, TsaFails

\* Only a token of the authority that is asked is accepted: an earlier one has
\* another nonce.
LEMMA AcceptedTokenIsNew ==
    ASSUME Inv, Asking, NEW token \in Tokens(call.c, Urls[call.next]) \cup Earlier,
           VerifyTimestampStrict(Pki, token, call.c, Roots, Nonce(call.c), {Policy})
    PROVE  /\ Urls[call.next] \in Tsas
           /\ token.tst.gen \in (clock - Error(Urls[call.next]))..(clock + Error(Urls[call.next]))
           /\ token.tst.accuracy = Stated[Urls[call.next]]
           /\ token.tst.nonce = call.c.content
<1>1. call.c.content \in Nat /\ call.c.content # 0
  BY DEF Asking, IsMade, Inv, Types
<1>2. token.tst.nonce = call.c.content
  BY <1>1 DEF VerifyTimestampStrict, Nonce, NoNonce
<1>3. token \notin Earlier
  <2>. SUFFICES ASSUME NEW p \in held, token = p.token PROVE FALSE
    BY DEF Earlier
  <2>1. p.token.tst.nonce = p.c.content
    BY DEF Inv, Genuine
  <2>. QED BY <1>2, <2>1 DEF Asking
<1>4. token \in Tokens(call.c, Urls[call.next])
  BY <1>3
<1>5. PICK leaf \in Leaves[Urls[call.next]],
           gen \in (clock - Error(Urls[call.next]))..(clock + Error(Urls[call.next])) :
         token = IssuedToken(Pki, leaf, Chains[leaf], [by |-> "key", key |-> Pki.key[leaf]],
                    TstInfo(call.c, Nonce(call.c), Policy, gen, Stated[Urls[call.next]]))
  BY <1>4 DEF Tokens
<1>6. token.tst.gen = gen /\ token.tst.accuracy = Stated[Urls[call.next]]
  BY <1>5 DEF IssuedToken, Token, TstInfo
<1>7. Urls[call.next] \in Tsas
  BY DEF Asking, Tsas
<1>. QED BY <1>2, <1>5, <1>6, <1>7

LEMMA StampKeepsInv == Inv /\ Stamp => Inv'
<1>. SUFFICES ASSUME Inv, Stamp PROVE Inv'
  OBVIOUS
<1>. DEFINE n == Len(made)
            tsa == Urls[call.next]
<1>1. Asking
  BY DEF Inv, Stamp, NoCall, Returned
<1>2. PICK token \in Tokens(call.c, tsa) \cup Earlier :
         /\ VerifyTimestampStrict(Pki, token, call.c, Roots, Nonce(call.c), {Policy})
         /\ call' = [stage |-> "returned", public |-> PublicCommitment(call.c, call.prev, token)]
  BY DEF Stamp
<1>3. /\ tsa \in Tsas
      /\ token.tst.gen \in (clock - Error(tsa))..(clock + Error(tsa))
      /\ token.tst.accuracy = Stated[tsa]
      /\ token.tst.nonce = call.c.content
  BY <1>1, <1>2, AcceptedTokenIsNew
<1>4. /\ made \in Seq(Entries) /\ n \in Nat /\ n \in DOMAIN made /\ clock \in Nat
      /\ call.c.content = n /\ made[n].c = call.c /\ call.c.rev < n
  BY <1>1 DEF Inv, Types, Asking, IsMade
<1>. HIDE DEF tsa
<1>5. PICK entry \in Entries :
         /\ entry = [c |-> call.c, stamped |-> clock, tsa |-> tsa]
         /\ made' = [made EXCEPT ![n] = entry]
  <2>1. made[n] \in Entries
    BY <1>4
  <2>2. made[n] = [c |-> call.c, stamped |-> made[n].stamped, tsa |-> made[n].tsa]
    BY <1>4, <2>1 DEF Entries
  <2>3. made' = [made EXCEPT ![n].stamped = clock, ![n].tsa = tsa]
    BY <1>4 DEF Stamp, tsa
  <2>4. made' = [made EXCEPT ![n] = [c |-> call.c, stamped |-> clock, tsa |-> tsa]]
    <3>. DEFINE halfway == [made EXCEPT ![n].stamped = clock]
    <3>1. /\ halfway[n] = [c |-> call.c, stamped |-> clock, tsa |-> made[n].tsa]
          /\ DOMAIN halfway = DOMAIN made /\ \A i \in DOMAIN made : i # n => halfway[i] = made[i]
      BY <1>4, <2>2
    <3>2. made' = [halfway EXCEPT ![n].tsa = tsa]
      BY <1>4, <2>2, <2>3
    <3>. HIDE DEF n, halfway
    <3>3. made' = [halfway EXCEPT ![n] = [c |-> call.c, stamped |-> clock, tsa |-> tsa]]
      <4>1. [halfway[n] EXCEPT !.tsa = tsa] = [c |-> call.c, stamped |-> clock, tsa |-> tsa]
        BY <3>1
      <4>. QED BY <1>4, <3>1, <3>2, <4>1
    <3>. QED BY <1>4, <3>1, <3>3
  <2>5. [c |-> call.c, stamped |-> clock, tsa |-> tsa] \in Entries
    BY <1>3, <1>4, <2>1 DEF Entries
  <2>. QED BY <2>4, <2>5
<1>6. /\ made' \in Seq(Entries) /\ Len(made') = n /\ DOMAIN made' = DOMAIN made
      /\ made'[n] = entry /\ \A i \in DOMAIN made : i # n => made'[i] = made[i]
  BY <1>4, <1>5
<1>7. Types'
  BY <1>6 DEF Inv, Types, Stamp
<1>8. held' = held /\ bundle' = bundle
  BY DEF Stamp
<1>9. \A p \in held : Genuine(p, made')
  <2>. SUFFICES ASSUME NEW p \in held PROVE Genuine(p, made')
    OBVIOUS
  <2>1. Genuine(p, made) /\ p.c.content \in DOMAIN made /\ p.c.content # n
    BY <1>1 DEF Inv, Genuine, IsMade, Asking
  <2>. QED BY <1>4, <1>6, <2>1, HistoryGrows
<1>10. Returned'
  <2>. DEFINE public == PublicCommitment(call.c, call.prev, token)
  <2>1. public.c = call.c /\ public.token = token
    BY DEF PublicCommitment
  <2>2. call'.public = public /\ call' = [stage |-> "returned", public |-> public]
    BY <1>2
  <2>. HIDE DEF public
  <2>3. IsMade(public.c, made')
    BY <1>4, <1>5, <1>6, <2>1 DEF IsMade
  <2>4. Genuine(public, made')
    BY <1>3, <1>4, <1>5, <1>6, <2>1, <2>3 DEF Genuine
  <2>. QED BY <2>2, <2>4 DEF Returned
<1>. QED BY <1>7, <1>8, <1>9, <1>10 DEF Inv

LEMMA DeliverKeepsInv == ASSUME NEW public \in Sent PROVE Inv /\ Deliver(public) => Inv'
<1>. SUFFICES ASSUME Inv, Deliver(public) PROVE Inv'
  OBVIOUS
<1>1. Genuine(public, made)
  BY DEF Sent, Inv, NoCall, Asking, Returned
<1>2. public.c \in Revisions
  <2>1. made[public.c.content] \in Entries
    BY <1>1 DEF Genuine, IsMade, Inv, Types
  <2>. QED BY <1>1, <2>1 DEF Genuine, IsMade, Entries
<1>3. [c |-> public.c, at |-> clock] \in Receipts
  BY <1>2 DEF Receipts, Inv, Types
<1>. QED BY <1>3 DEF Inv, Types, Deliver, Asking, Returned

LEMMA InvKept == Inv /\ [Next]_vars => Inv'
<1>. SUFFICES ASSUME Inv, [Next]_vars PROVE Inv'
  OBVIOUS
<1>1. CASE Tick
  BY <1>1 DEF Inv, Types, Tick, Asking, Returned
<1>2. ASSUME NEW type \in {"LLM_CALL", "SESSION_END"}, RecordEvent(type)
      PROVE  Inv'
  BY <1>2 DEF Inv, Types, RecordEvent, Asking, Returned, EventTypes
<1>3. CASE Keep
  BY <1>3 DEF Inv, Types, Keep, NoCall, Asking, Returned
<1>4. CASE Crash
  BY <1>4 DEF Inv, Types, Crash
<1>5. ASSUME NEW publics \in SUBSET held, RevealBundle(publics)
      PROVE  Inv'
  BY <1>5 DEF Inv, Types, RevealBundle, Asking, Returned
<1>6. CASE UNCHANGED vars
  BY <1>6 DEF Inv, Types, vars, Asking, Returned
<1>. QED
  BY <1>1, <1>2, <1>3, <1>4, <1>5, <1>6, BeginCommitKeepsInv, TsaFailsKeepsInv, StampKeepsInv,
     DeliverKeepsInv DEF Next

LEMMA Invariance == Spec => []Inv
BY Started, InvKept, PTL DEF Spec

-----------------------------------------------------------------------------
(* What VALID_ON_TIME means.                                               *)

\* A commitment was received in time if any of its receipts was.
LEMMA AnyReceipt ==
    ASSUME NEW reg \in SUBSET Receipts, reg # None, NEW p
    PROVE  ReceivedInTime(p, reg) <=> \E r \in reg : r.c = p.c /\ r.at < Deadline
<1>1. ReceivedAt(p, reg) \subseteq Nat
  BY DEF ReceivedAt, Receipts
<1>2. Deadline \in Nat
  BY CommitmentAssumption
<1>3. CASE ReceivedAt(p, reg) = {}
  BY <1>3 DEF ReceivedInTime, ReceivedAt
<1>4. CASE ReceivedAt(p, reg) # {}
  <2>1. Min(ReceivedAt(p, reg)) \in ReceivedAt(p, reg)
        /\ \A n \in ReceivedAt(p, reg) : Min(ReceivedAt(p, reg)) <= n
    BY <1>1, <1>4, MinIsSmallest
  <2>2. ReceivedInTime(p, reg) <=> Min(ReceivedAt(p, reg)) < Deadline
    BY <1>4 DEF ReceivedInTime
  <2>3. Min(ReceivedAt(p, reg)) < Deadline <=> \E n \in ReceivedAt(p, reg) : n < Deadline
    BY <1>1, <1>2, <2>1
  <2>. QED BY <2>2, <2>3 DEF ReceivedAt
<1>. QED BY <1>3, <1>4

Eligible(b, anchors, reg) == {p \in b.revs : RevisionIsValid(p, b, anchors) /\ IsOnTime(p, reg)}

\* The effective revision of a verdict VALID_ON_TIME is the latest that is valid and on
\* time, and no later one is there at all.
LEMMA EffectiveRevision ==
    ASSUME Inv, bundle # None, NEW anchors, NEW reg,
           VerifyCommitment(bundle, anchors, reg).verdict = "VALID_ON_TIME"
    PROVE  \E p \in Eligible(bundle, anchors, reg) :
              /\ VerifyCommitment(bundle, anchors, reg)
                   = Verdict("VALID_ON_TIME", p.c, Warnings(bundle, reg))
              /\ \A q \in Eligible(bundle, anchors, reg) : q.c.rev <= p.c.rev
              /\ \A q \in bundle.revs : p.c.rev < q.c.rev => RevisionIsValid(q, bundle, anchors)
<1>. DEFINE valid == {p \in bundle.revs : RevisionIsValid(p, bundle, anchors)}
            eligible == {p \in valid : IsOnTime(p, reg)}
            effective == CHOOSE p \in eligible : \A q \in eligible : q.c.rev <= p.c.rev
            laterInvalid ==
               eligible # {} /\ \E p \in bundle.revs \ valid : effective.c.rev < p.c.rev
            v == VerifyCommitment(bundle, anchors, reg)
<1>1. eligible = Eligible(bundle, anchors, reg)
  BY DEF Eligible
<1>2. /\ eligible # {} /\ ~laterInvalid
      /\ v = Verdict("VALID_ON_TIME", effective.c, Warnings(bundle, reg))
  BY DEF VerifyCommitment, Verdict
<1>3. \E p \in eligible : \A q \in eligible : q.c.rev <= p.c.rev
  <2>1. \A p \in eligible : IsMade(p.c, made)
    BY DEF Inv, Genuine
  <2>2. made \in Seq(Entries) /\ eligible # {}
    BY <1>2 DEF Inv, Types
  <2>. HIDE DEF eligible
  <2>. QED BY <2>1, <2>2, LatestExists
<1>4. effective \in eligible /\ \A q \in eligible : q.c.rev <= effective.c.rev
  BY <1>3
<1>5. \A q \in bundle.revs : effective.c.rev < q.c.rev => RevisionIsValid(q, bundle, anchors)
  BY <1>2
<1>. HIDE DEF effective, eligible, v, laterInvalid
<1>. QED BY <1>1, <1>2, <1>4, <1>5 DEF v

\* The upper bound of a genuine commitment is between the time of its stamp and twice
\* the error of the clock later.
LEMMA UpperBoundIsClose ==
    ASSUME Inv, NEW p \in held
    PROVE  /\ made[p.c.content].stamped \in Nat /\ made[p.c.content].c = p.c
           /\ ClockError(p.c) \in Nat
           /\ UpperBound(p) \in Int
           /\ made[p.c.content].stamped <= UpperBound(p)
           /\ UpperBound(p) <= StampedAt(p.c) + 2 * ClockError(p.c)
<1>. DEFINE m == made[p.c.content]
<1>1. /\ m.c = p.c /\ m.stamped \in Nat /\ m.tsa \in Tsas
      /\ p.token.tst.gen \in (m.stamped - Error(m.tsa))..(m.stamped + Error(m.tsa))
      /\ p.token.tst.accuracy = Stated[m.tsa]
  BY DEF Inv, Genuine, IsMade
<1>2. StampedAt(p.c) = m.stamped /\ ClockError(p.c) = Error(m.tsa)
  BY DEF StampedAt, ClockError
<1>. HIDE DEF m
<1>3. Error(m.tsa) \in Nat /\ UpperBound(p) = p.token.tst.gen + Error(m.tsa)
  BY <1>1, Errors DEF UpperBound
<1>. QED BY <1>1, <1>2, <1>3 DEF m

\* Whatever failed, crashed, arrived late or twice, and whatever the verifier pins: a
\* verdict VALID_ON_TIME says the truth (sasana/commitment.py, verify_commitment).
THEOREM OnTimeMeansCommittedBefore == Spec => []OnTimeIsTrue
<1>1. Inv => OnTimeIsTrue
  <2>. SUFFICES ASSUME Inv, bundle # None, NEW in \in Inputs, Judged(in).verdict = "VALID_ON_TIME"
                PROVE  LET v == Judged(in)
                           m == made[v.effective.content]
                       IN  /\ m.c = v.effective
                           /\ m.stamped < Deadline
                           /\ in.registry # None =>
                                \E r \in registry : r.c = m.c /\ r.at < Deadline
    BY DEF OnTimeIsTrue
  <2>1. PICK p \in Eligible(bundle, in.anchors, in.registry) :
           Judged(in) = Verdict("VALID_ON_TIME", p.c, Warnings(bundle, in.registry))
    BY EffectiveRevision DEF Judged
  <2>2. Judged(in).effective = p.c
    BY <2>1 DEF Verdict
  <2>3. p \in held /\ UpperBound(p) < Deadline /\ ReceivedInTime(p, in.registry)
    BY DEF Eligible, Inv, IsOnTime
  <2>4. made[p.c.content].c = p.c /\ made[p.c.content].stamped < Deadline
    BY <2>3, UpperBoundIsClose, CommitmentAssumption
  <2>5. in.registry # None => \E r \in registry : r.c = p.c /\ r.at < Deadline
    <3>1. in.registry # None => in.registry = registry /\ registry \in SUBSET Receipts
      BY DEF Inputs, Inv, Types
    <3>. QED BY <2>3, <3>1, AnyReceipt
  <2>. QED BY <2>2, <2>4, <2>5
<1>. QED BY <1>1, Invariance, PTL

\* A committer cannot show an early decision and pass over a later one that the
\* counterparty has: without a warning, none is hidden (sasana/commitment.py,
\* verify_commitment with a registry).
THEOREM NoLaterDecisionHidden == Spec => []NothingHidden
<1>1. Inv => NothingHidden
  <2>. SUFFICES ASSUME Inv, bundle # None, NEW in \in Inputs,
                       Judged(in).verdict = "VALID_ON_TIME", Judged(in).warnings = {},
                       in.registry # None,
                       NEW p \in held, NEW r \in registry,
                       p.c = r.c, r.at < Deadline, WellBefore(p.c)
                PROVE  p.c.rev <= Judged(in).effective.rev
    BY DEF NothingHidden
  <2>1. PICK e \in Eligible(bundle, in.anchors, in.registry) :
           /\ Judged(in) = Verdict("VALID_ON_TIME", e.c, Warnings(bundle, in.registry))
           /\ \A q \in Eligible(bundle, in.anchors, in.registry) : q.c.rev <= e.c.rev
           /\ \A q \in bundle.revs : e.c.rev < q.c.rev => RevisionIsValid(q, bundle, in.anchors)
    BY EffectiveRevision DEF Judged
  <2>2. Judged(in).effective = e.c /\ Warnings(bundle, in.registry) = {}
    BY <2>1 DEF Verdict
  <2>3. in.registry = registry /\ registry \in SUBSET Receipts
    BY DEF Inputs, Inv, Types
  <2>4. PICK q \in bundle.revs : q.c = p.c
    <3>1. Unrevealed(bundle, in.registry) = {}
      BY <2>2 DEF Warnings
    <3>. QED BY <2>3, <3>1 DEF Unrevealed, Commitments
  <2>5. q \in held /\ e \in held
    BY DEF Inv, Eligible
  <2>6. IsOnTime(q, in.registry)
    <3>1. UpperBound(q) < Deadline
      <4>1. /\ StampedAt(q.c) \in Nat /\ ClockError(q.c) \in Nat /\ UpperBound(q) \in Int
            /\ UpperBound(q) <= StampedAt(q.c) + 2 * ClockError(q.c)
        BY <2>5, UpperBoundIsClose DEF StampedAt
      <4>2. StampedAt(q.c) + 2 * ClockError(q.c) < Deadline
        BY <2>4 DEF WellBefore
      <4>3. Deadline \in Nat
        BY CommitmentAssumption
      <4>. QED BY <4>1, <4>2, <4>3
    <3>2. ReceivedInTime(q, in.registry)
      BY <2>3, <2>4, AnyReceipt
    <3>. QED BY <3>1, <3>2 DEF IsOnTime
  <2>7. q.c.rev \in Nat /\ e.c.rev \in Nat
    <3>1. ASSUME NEW x \in held PROVE x.c.rev \in Nat
      <4>1. made[x.c.content] \in Entries /\ made[x.c.content].c = x.c
        BY DEF Inv, Types, Genuine, IsMade
      <4>. QED BY <4>1 DEF Entries, Revisions
    <3>. QED BY <2>5, <3>1
  <2>8. CASE e.c.rev < q.c.rev
    <3>1. q \in Eligible(bundle, in.anchors, in.registry)
      BY <2>1, <2>6, <2>8 DEF Eligible
    <3>. QED BY <2>1, <2>2, <2>4, <3>1
  <2>. QED BY <2>2, <2>4, <2>7, <2>8
<1>. QED BY <1>1, Invariance, PTL

\* Receipts that arrive from the deadline on put no commitment on time.
LEMMA LateReceiptsDoNotCount ==
    ASSUME NEW reg \in SUBSET Receipts, NEW later \in SUBSET Receipts,
           reg # None, later # None, reg \subseteq later,
           \A r \in later \ reg : r.at >= Deadline, NEW p
    PROVE  IsOnTime(p, later) <=> IsOnTime(p, reg)
<1>1. \A r \in later : r.at \in Nat
  BY DEF Receipts
<1>2. Deadline \in Nat
  BY CommitmentAssumption
<1>. QED BY <1>1, <1>2, AnyReceipt DEF IsOnTime

\* A growing registry turns a verdict into INVALID or leaves it, when nothing is on
\* time by the one registry and not by the other.
LEMMA GrowingRegistry ==
    ASSUME NEW b, NEW anchors, NEW reg, NEW later, reg # None, later # None,
           reg \subseteq later, \A p : IsOnTime(p, later) <=> IsOnTime(p, reg)
    PROVE  LET v == VerifyCommitment(b, anchors, reg)
               w == VerifyCommitment(b, anchors, later)
           IN  w.verdict = "INVALID" \/ (w.verdict = v.verdict /\ w.effective = v.effective)
<1>. DEFINE valid == {p \in b.revs : RevisionIsValid(p, b, anchors)}
            On(r) == {p \in valid : IsOnTime(p, r)}
            Effective(r) == CHOOSE p \in On(r) : \A q \in On(r) : q.c.rev <= p.c.rev
            Refused(r) ==
               \/ ~IsClosed(b.events)
               \/ Cardinality(Indices(b)) < Cardinality(b.revs)
               \/ BrokenLink(b) \/ NonMonotonic(valid) \/ Equivocation(r)
               \/ On(r) # {} /\ \E p \in b.revs \ valid : Effective(r).c.rev < p.c.rev
               \/ valid = {}
<1>1. \A r : VerifyCommitment(b, anchors, r) =
               IF Refused(r) THEN Verdict("INVALID", None, Warnings(b, r))
               ELSE IF On(r) = {} THEN Verdict("LATE", None, Warnings(b, r))
               ELSE Verdict("VALID_ON_TIME", Effective(r).c, Warnings(b, r))
  BY DEF VerifyCommitment
<1>2. On(later) = On(reg)
  OBVIOUS
<1>3. Effective(later) = Effective(reg)
  BY <1>2
<1>4. Equivocation(reg) => Equivocation(later)
  BY DEF Equivocation
<1>. HIDE DEF On, Effective, valid
<1>5. Refused(reg) => Refused(later)
  BY <1>2, <1>3, <1>4
<1>. HIDE DEF Refused
<1>. QED BY <1>1, <1>2, <1>3, <1>5 DEF Verdict

\* From the deadline on no step improves a verdict, or changes the effective revision
\* (sasana/commitment.py, verify_commitment judging again with a registry that grew).
THEOREM VerdictsAreFinal ==
    ASSUME None \notin SUBSET Receipts
    PROVE  Spec => VerdictIsFinal
<1>1. Inv /\ Inv' /\ [Next]_vars => [
         bundle # None /\ clock >= Deadline =>
            \A anchors \in SUBSET Roots :
               LET v == VerifyCommitment(bundle, anchors, registry)
                   w == VerifyCommitment(bundle', anchors, registry')
               IN  w.verdict = "INVALID"
                     \/ (w.verdict = v.verdict /\ w.effective = v.effective)]_vars
  <2>. SUFFICES ASSUME Inv, Inv', Next, bundle # None, clock >= Deadline,
                       NEW anchors \in SUBSET Roots
                PROVE  LET v == VerifyCommitment(bundle, anchors, registry)
                           w == VerifyCommitment(bundle', anchors, registry')
                       IN  w.verdict = "INVALID"
                             \/ (w.verdict = v.verdict /\ w.effective = v.effective)
    OBVIOUS
  <2>1. bundle' = bundle
    BY DEF Next, Tick, RecordEvent, BeginCommit, TsaFails, Stamp, Keep, Crash, Deliver, RevealBundle
  <2>2. registry \subseteq registry' /\ \A r \in registry' \ registry : r.at >= Deadline
    BY DEF Next, Tick, RecordEvent, BeginCommit, TsaFails, Stamp, Keep, Crash, Deliver, RevealBundle
  <2>3. registry \in SUBSET Receipts /\ registry' \in SUBSET Receipts
    BY DEF Inv, Types
  <2>4. \A p : IsOnTime(p, registry') <=> IsOnTime(p, registry)
    BY <2>2, <2>3, LateReceiptsDoNotCount
  <2>. QED BY <2>1, <2>2, <2>3, <2>4, GrowingRegistry
<1>. QED BY <1>1, Invariance, PTL DEF Spec, VerdictIsFinal

-----------------------------------------------------------------------------
(* What a committer keeps is steady: one commitment per index, each linked *)
(* to the one before it, with a token that the anchors of the committer    *)
(* confirm and the tip of a session that has only grown since.             *)

IsPublic(p) == p = [c |-> p.c, prev |-> p.prev, token |-> p.token]

\* None stands for the lack of a commitment and is not one.
NoneIsApart == \A p : IsPublic(p) => p # None

Revised(prev) == IF prev = None THEN None ELSE prev.c

Standing(p, events) ==
    IsPublic(p) /\ p.c.root \in DOMAIN events /\ StampIsGood(p, Roots)

OnePerIndex(publics) == \A p, q \in publics : p.c.rev = q.c.rev => p = q

Linked(publics) ==
    \A p \in publics :
       IF p.c.rev = 0 THEN p.prev = None
       ELSE \E q \in publics : p.c.rev = q.c.rev + 1 /\ p.prev = q.c

Steady ==
    /\ IsFiniteSet(held) /\ session # <<>>
    /\ OnePerIndex(held) /\ Linked(held)
    /\ \A p \in held : Standing(p, session)
    /\ call.stage = "asking" =>
          /\ call.prev = Latest /\ call.c.rev = RevisionIndex(Latest)
          /\ call.c.root \in DOMAIN session
    /\ call.stage = "returned" =>
          /\ Standing(call.public, session)
          /\ call.public.c.rev = RevisionIndex(Latest) /\ call.public.prev = Revised(Latest)
    /\ bundle # None =>
          /\ bundle.revs # {} /\ \A p \in bundle.revs : Standing(p, bundle.events)

LEMMA HeldIndices == ASSUME Inv PROVE \A p \in held : p.c.rev \in Nat
<1>1. ASSUME NEW p \in held PROVE p.c.rev \in Nat
  <2>1. made[p.c.content] \in Entries /\ made[p.c.content].c = p.c
    BY DEF Inv, Types, Genuine, IsMade
  <2>. QED BY <2>1 DEF Entries, Revisions
<1>. QED BY <1>1

LEMMA LatestIs ==
    ASSUME Inv, Steady, NoneIsApart
    PROVE  /\ held = {} => Latest = None
           /\ held # {} => /\ Latest \in held /\ Latest # None
                           /\ \A q \in held : q.c.rev <= Latest.c.rev
<1>1. held = {} => Latest = None
  BY DEF Latest
<1>2. ASSUME held # {}
      PROVE  /\ Latest \in held /\ Latest # None
             /\ \A q \in held : q.c.rev <= Latest.c.rev
  <2>1. (\A p \in held : IsMade(p.c, made)) /\ made \in Seq(Entries)
    BY DEF Inv, Types, Genuine
  <2>2. \E p \in held : \A q \in held : q.c.rev <= p.c.rev
    BY <1>2, <2>1, LatestExists
  <2>3. Latest \in held /\ \A q \in held : q.c.rev <= Latest.c.rev
    BY <1>2, <2>2 DEF Latest
  <2>4. IsPublic(Latest)
    BY <2>3 DEF Steady, Standing
  <2>. QED BY <2>3, <2>4 DEF NoneIsApart
<1>. QED BY <1>1, <1>2

\* Whoever accepts a token for its nonce accepts it without.
LEMMA AcceptedWithoutNonce ==
    ASSUME NEW pki, NEW token, NEW expected, NEW anchors, NEW nonce, NEW policies,
           VerifyTimestampStrict(pki, token, expected, anchors, nonce, policies)
    PROVE  VerifyTimestampStrict(pki, token, expected, anchors, NoNonce, policies)
<1>. PICK leaf : leaf = FindSignerCert(pki, token.certs, token.sid)
  OBVIOUS
<1>. PICK path : path = BuildChain(pki, leaf, Embedded(token.certs) \ {leaf}, anchors,
                                   token.tst.gen)
  OBVIOUS
<1>. QED BY DEF VerifyTimestampStrict

\* A token that stood when it was made still does when the session has grown.
LEMMA StillStanding ==
    ASSUME NEW p, NEW old, NEW new, DOMAIN old \subseteq DOMAIN new, Standing(p, old)
    PROVE  Standing(p, new)
BY DEF Standing

LEMMA BeginsSteady == Init => Steady
<1>. SUFFICES ASSUME Init PROVE Steady
  OBVIOUS
<1>1. call.stage = "none" /\ held = {} /\ bundle = None /\ session = <<"SESSION_START">>
  BY DEF Init, NoCall
<1>2. IsFiniteSet({})
  BY FS_EmptySet
<1>. QED BY <1>1, <1>2 DEF Steady, OnePerIndex, Linked

\* What is kept next is linked to the latest of what was.
LEMMA KeptIsLinked ==
    ASSUME Inv, Steady, NoneIsApart, NEW x, Standing(x, session),
           x.c.rev = RevisionIndex(Latest), x.prev = Revised(Latest)
    PROVE  OnePerIndex(held \cup {x}) /\ Linked(held \cup {x})
<1>1. CASE held = {}
  <2>1. x.c.rev = 0 /\ x.prev = None
    BY <1>1, LatestIs DEF RevisionIndex, Revised
  <2>. QED BY <1>1, <2>1 DEF OnePerIndex, Linked
<1>2. CASE held # {}
  <2>. PICK l : l = Latest
    OBVIOUS
  <2>1. l \in held /\ l # None /\ \A q \in held : q.c.rev <= l.c.rev
    BY <1>2, LatestIs
  <2>2. x.c.rev = l.c.rev + 1 /\ x.prev = l.c
    BY <2>1 DEF RevisionIndex, Revised
  <2>3. \A q \in held : q.c.rev \in Nat
    BY HeldIndices
  <2>4. OnePerIndex(held) /\ Linked(held)
    BY DEF Steady
  <2>5. \A q \in held : q.c.rev # x.c.rev
    BY <2>1, <2>2, <2>3
  <2>6. x.c.rev # 0
    BY <2>1, <2>2, <2>3
  <2>7. OnePerIndex(held \cup {x})
    BY ONLY <2>4, <2>5 DEF OnePerIndex
  <2>8. Linked(held \cup {x})
    BY ONLY <2>1, <2>2, <2>4, <2>6 DEF Linked
  <2>. QED BY <2>7, <2>8
<1>. QED BY <1>1, <1>2

LEMMA SteadyStep == Inv /\ Steady /\ NoneIsApart /\ [Next]_vars => Steady'
<1>. SUFFICES ASSUME Inv, Steady, NoneIsApart, [Next]_vars PROVE Steady'
  OBVIOUS
<1>. USE DEF Steady
<1>1. ASSUME held' = held PROVE Latest' = Latest
  BY <1>1 DEF Latest
<1>2. ASSUME UNCHANGED <<session, call, held, bundle>> PROVE Steady'
  BY <1>1, <1>2
<1>3. CASE Tick
  BY <1>2, <1>3 DEF Tick
<1>4. ASSUME NEW public \in Sent, Deliver(public) PROVE Steady'
  BY <1>2, <1>4 DEF Deliver
<1>5. CASE UNCHANGED vars
  BY <1>2, <1>5 DEF vars
<1>6. ASSUME NEW type \in {"LLM_CALL", "SESSION_END"}, RecordEvent(type) PROVE Steady'
  <2>1. UNCHANGED <<call, held, bundle>> /\ session' = Append(session, type)
    BY <1>6 DEF RecordEvent
  <2>2. DOMAIN session \subseteq DOMAIN session' /\ session' # <<>>
    BY <2>1 DEF Inv, Types
  <2>3. \A p : Standing(p, session) => Standing(p, session')
    BY <2>2, StillStanding
  <2>. QED BY <1>1, <2>1, <2>2, <2>3
<1>7. CASE BeginCommit
  <2>. PICK c : c = ComputeCommitment(RevisionIndex(Latest), Len(made) + 1, Len(session))
    OBVIOUS
  <2>1. /\ UNCHANGED <<session, held, bundle>>
        /\ call' = [stage |-> "asking", c |-> c, prev |-> Latest, next |-> 1]
    BY <1>7 DEF BeginCommit
  <2>2. c.rev = RevisionIndex(Latest) /\ c.root = Len(session)
    BY DEF ComputeCommitment
  <2>3. Len(session) \in DOMAIN session
    BY DEF Inv, Types
  <2>. QED BY <1>1, <2>1, <2>2, <2>3
<1>8. CASE TsaFails
  <2>1. UNCHANGED <<session, held, bundle>> /\ call.stage = "asking"
    BY <1>8 DEF TsaFails
  <2>2. Asking
    BY <2>1 DEF Inv, NoCall, Returned
  <2>3. call' = NoCall \/ call' = [stage |-> "asking", c |-> call.c, prev |-> call.prev,
                                   next |-> call.next + 1]
    BY <1>8, <2>2 DEF TsaFails, Asking
  <2>4. CASE call' = NoCall
    BY <1>1, <2>1, <2>4 DEF NoCall
  <2>5. CASE call' = [stage |-> "asking", c |-> call.c, prev |-> call.prev,
                      next |-> call.next + 1]
    BY <1>1, <2>1, <2>5
  <2>. QED BY <2>3, <2>4, <2>5
<1>9. CASE Stamp
  <2>1. UNCHANGED <<session, held, bundle>> /\ call.stage = "asking"
    BY <1>9 DEF Stamp
  <2>2. PICK token :
           /\ VerifyTimestampStrict(Pki, token, call.c, Roots, Nonce(call.c), {Policy})
           /\ call' = [stage |-> "returned",
                       public |-> PublicCommitment(call.c, call.prev, token)]
    BY <1>9 DEF Stamp
  <2>. PICK p : p = PublicCommitment(call.c, call.prev, token)
    OBVIOUS
  <2>3. IsPublic(p) /\ p.c = call.c /\ p.prev = Revised(call.prev) /\ p.token = token
    BY DEF PublicCommitment, IsPublic, Revised
  <2>4. StampIsGood(p, Roots)
    BY <2>2, <2>3, AcceptedWithoutNonce DEF StampIsGood
  <2>5. Standing(p, session)
    BY <2>1, <2>3, <2>4 DEF Standing
  <2>6. p.c.rev = RevisionIndex(Latest) /\ p.prev = Revised(Latest)
    BY <2>1, <2>3
  <2>7. call' = [stage |-> "returned", public |-> p]
    BY <2>2
  <2>. QED BY <1>1, <2>1, <2>5, <2>6, <2>7
<1>10. CASE Keep
  <2>. PICK x : x = call.public
    OBVIOUS
  <2>1. /\ call.stage = "returned" /\ UNCHANGED <<session, bundle>>
        /\ held' = held \cup {x} /\ call' = NoCall
    BY <1>10 DEF Keep
  <2>2. Standing(x, session) /\ x.c.rev = RevisionIndex(Latest) /\ x.prev = Revised(Latest)
    BY <2>1
  <2>3. OnePerIndex(held') /\ Linked(held')
    BY <2>1, <2>2, KeptIsLinked
  <2>4. IsFiniteSet(held')
    BY <2>1, FS_AddElement
  <2>. QED BY <2>1, <2>2, <2>3, <2>4 DEF NoCall
<1>11. CASE Crash
  <2>1. UNCHANGED <<session, held, bundle>> /\ call' = NoCall
    BY <1>11 DEF Crash
  <2>. QED BY <2>1 DEF NoCall
<1>12. ASSUME NEW publics \in SUBSET held, RevealBundle(publics) PROVE Steady'
  <2>1. /\ UNCHANGED <<session, call, held>> /\ publics # {}
        /\ bundle' = [revs |-> publics, events |-> session]
    BY <1>12 DEF RevealBundle
  <2>2. bundle'.revs # {} /\ \A p \in bundle'.revs : Standing(p, bundle'.events)
    BY <2>1
  <2>. QED BY <1>1, <2>1, <2>2
<1>. QED
  BY <1>3, <1>4, <1>5, <1>6, <1>7, <1>8, <1>9, <1>10, <1>11, <1>12 DEF Next

LEMMA SteadyHolds == ASSUME NoneIsApart PROVE Spec => [](Inv /\ Steady)
<1>1. Init => Inv /\ Steady
  BY Started, BeginsSteady
<1>2. Inv /\ Steady /\ [Next]_vars => (Inv /\ Steady)'
  BY InvKept, SteadyStep
<1>. QED BY <1>1, <1>2, PTL DEF Spec

-----------------------------------------------------------------------------
(* A committer that leaves time between its revisions.                     *)

LEMMA AllCounted ==
    ASSUME NEW P, IsFiniteSet(P), OnePerIndex(P)
    PROVE  Cardinality({p.c.rev : p \in P}) = Cardinality(P)
<1>. PICK T : T = {p.c.rev : p \in P}
  OBVIOUS
<1>. PICK f : f = [p \in P |-> p.c.rev]
  OBVIOUS
<1>1. f \in Bijection(P, T)
  <2>1. f \in [P -> T] /\ \A p \in P : f[p] = p.c.rev
    OBVIOUS
  <2>2. \A p, q \in P : f[p] = f[q] => p = q
    BY <2>1 DEF OnePerIndex
  <2>3. \A t \in T : \E p \in P : f[p] = t
    BY <2>1
  <2>. QED BY ONLY <2>1, <2>2, <2>3 DEF Bijection, Injection, Surjection, IsInjective
<1>2. ExistsBijection(P, T)
  BY <1>1 DEF ExistsBijection
<1>. QED BY <1>2, FS_Bijection

\* Revisions further apart than the clocks are wrong have stamps in their order.
LEMMA PatientIsMonotonic ==
    ASSUME Inv, NEW P, P \subseteq held, Patient(P)
    PROVE  ~NonMonotonic(P)
<1>. SUFFICES ASSUME NEW p \in P, NEW q \in P, p.c.rev < q.c.rev, UpperBound(q) < UpperBound(p)
              PROVE  FALSE
  BY DEF NonMonotonic
<1>1. /\ UpperBound(p) \in Int /\ UpperBound(p) <= StampedAt(p.c) + 2 * ClockError(p.c)
      /\ UpperBound(q) \in Int /\ StampedAt(q.c) <= UpperBound(q)
      /\ StampedAt(p.c) \in Nat /\ StampedAt(q.c) \in Nat /\ ClockError(p.c) \in Nat
  BY UpperBoundIsClose DEF StampedAt
<1>2. StampedAt(p.c) + 2 * ClockError(p.c) <= StampedAt(q.c)
  BY DEF Patient
<1>. QED BY ONLY <1>1, <1>2, UpperBound(q) < UpperBound(p)

LEMMA LinksHold ==
    ASSUME Inv, Steady, NEW b, b.revs \subseteq held
    PROVE  ~BrokenLink(b)
<1>1. \A p \in held : p.c.rev \in Nat
  BY HeldIndices
<1>2. OnePerIndex(held) /\ Linked(held)
  BY DEF Steady
<1>3. \A p \in b.revs : p \in held
  OBVIOUS
<1>4. ASSUME NEW p \in b.revs, p.c.rev = 0 PROVE p.prev = None
  BY <1>2, <1>3, <1>4 DEF Linked
<1>5. ASSUME NEW p \in b.revs, NEW q \in b.revs, p.c.rev = q.c.rev + 1 PROVE p.prev = q.c
  <2>1. p.c.rev # 0 /\ p \in held /\ q \in held /\ q.c.rev \in Nat
    BY <1>1, <1>3, <1>5
  <2>2. PICK s \in held : p.c.rev = s.c.rev + 1 /\ p.prev = s.c
    BY <1>2, <2>1 DEF Linked
  <2>3. s.c.rev = q.c.rev
    BY <1>1, <1>5, <2>1, <2>2
  <2>. QED BY <1>2, <2>1, <2>2, <2>3 DEF OnePerIndex
<1>. QED BY ONLY <1>4, <1>5 DEF BrokenLink

\* A counterparty that was only sent what is kept sees no two decisions of one index.
LEMMA NothingEquivocal ==
    ASSUME Steady, NEW reg, reg # None => {r.c : r \in reg} \subseteq Commitments(held)
    PROVE  ~Equivocation(reg)
<1>. SUFFICES ASSUME reg # None, NEW r \in reg, NEW s \in reg, r.c.rev = s.c.rev
              PROVE  r.c = s.c
  BY DEF Equivocation
<1>1. r.c \in Commitments(held) /\ s.c \in Commitments(held)
  OBVIOUS
<1>2. PICK p \in held, q \in held : p.c = r.c /\ q.c = s.c
  BY <1>1 DEF Commitments
<1>3. p = q
  BY <1>2 DEF Steady, OnePerIndex
<1>. QED BY <1>2, <1>3

\* A committer that leaves time between its revisions and keeps what it sends is never
\* judged INVALID by a verifier that pins its authorities, whatever failed on the way,
\* and a revision made in good time is effective unless a later one is
\* (sasana/commitment.py: commit against verify_commitment).
THEOREM PatientCommitterIsAccepted ==
    ASSUME NoneIsApart
    PROVE  Spec => []PatientIsAccepted
<1>1. Inv /\ Steady => PatientIsAccepted
  <2>. SUFFICES ASSUME Inv, Steady, bundle # None, IsClosed(bundle.events),
                       Patient(bundle.revs), NEW reg \in {None, registry},
                       reg # None => {r.c : r \in registry} \subseteq Commitments(held)
                PROVE  LET v == VerifyCommitment(bundle, Roots, reg)
                       IN  /\ v.verdict # "INVALID"
                           /\ \A p \in bundle.revs :
                                 /\ WellBefore(p.c)
                                 /\ reg # None =>
                                       \E r \in registry : r.c = p.c /\ r.at < Deadline
                                 => v.verdict = "VALID_ON_TIME" /\ p.c.rev <= v.effective.rev
    BY DEF PatientIsAccepted
  <2>. DEFINE valid == {p \in bundle.revs : RevisionIsValid(p, bundle, Roots)}
              eligible == {p \in valid : IsOnTime(p, reg)}
              effective == CHOOSE p \in eligible : \A q \in eligible : q.c.rev <= p.c.rev
              laterInvalid ==
                 eligible # {} /\ \E p \in bundle.revs \ valid : effective.c.rev < p.c.rev
              refused ==
                 \/ ~IsClosed(bundle.events)
                 \/ Cardinality(Indices(bundle)) < Cardinality(bundle.revs)
                 \/ BrokenLink(bundle) \/ NonMonotonic(valid) \/ Equivocation(reg)
                 \/ laterInvalid \/ valid = {}
  <2>. PICK v : v = VerifyCommitment(bundle, Roots, reg)
    OBVIOUS
  <2>1. v = IF refused THEN Verdict("INVALID", None, Warnings(bundle, reg))
            ELSE IF eligible = {} THEN Verdict("LATE", None, Warnings(bundle, reg))
            ELSE Verdict("VALID_ON_TIME", effective.c, Warnings(bundle, reg))
    BY DEF VerifyCommitment
  <2>2. bundle.revs \subseteq held /\ bundle.revs # {}
    BY DEF Inv, Steady
  <2>3. valid = bundle.revs
    BY DEF Steady, Standing, RevisionIsValid
  <2>4. Cardinality(Indices(bundle)) = Cardinality(bundle.revs)
        /\ Cardinality(bundle.revs) \in Nat
    <3>1. IsFiniteSet(bundle.revs) /\ OnePerIndex(bundle.revs)
      BY <2>2, FS_Subset DEF Steady, OnePerIndex
    <3>. QED BY <3>1, AllCounted, FS_CardinalityType DEF Indices
  <2>5. ~BrokenLink(bundle)
    BY <2>2, LinksHold
  <2>6. ~NonMonotonic(valid)
    BY <2>2, <2>3, PatientIsMonotonic
  <2>7. ~Equivocation(reg)
    BY NothingEquivocal
  <2>8. ~refused
    BY <2>2, <2>3, <2>4, <2>5, <2>6, <2>7
  <2>. HIDE DEF refused
  <2>9. v.verdict # "INVALID"
    BY <2>1, <2>8 DEF Verdict
  <2>10. ASSUME NEW p \in bundle.revs, WellBefore(p.c),
                reg # None => \E r \in registry : r.c = p.c /\ r.at < Deadline
         PROVE  v.verdict = "VALID_ON_TIME" /\ p.c.rev <= v.effective.rev
    <3>1. UpperBound(p) < Deadline
      <4>1. /\ StampedAt(p.c) \in Nat /\ ClockError(p.c) \in Nat /\ UpperBound(p) \in Int
            /\ UpperBound(p) <= StampedAt(p.c) + 2 * ClockError(p.c)
        BY <2>2, UpperBoundIsClose DEF StampedAt
      <4>2. StampedAt(p.c) + 2 * ClockError(p.c) < Deadline /\ Deadline \in Nat
        BY <2>10, CommitmentAssumption DEF WellBefore
      <4>. QED BY ONLY <4>1, <4>2
    <3>2. ReceivedInTime(p, reg)
      <4>1. CASE reg = None
        BY <4>1 DEF ReceivedInTime
      <4>2. CASE reg # None
        <5>1. reg = registry /\ registry \in SUBSET Receipts
          BY <4>2 DEF Inv, Types
        <5>. QED BY <2>10, <4>2, <5>1, AnyReceipt
      <4>. QED BY <4>1, <4>2
    <3>3. p \in eligible
      BY <2>3, <3>1, <3>2 DEF IsOnTime
    <3>4. \A q \in eligible : IsMade(q.c, made)
      BY <2>2 DEF Inv, Genuine
    <3>5. made \in Seq(Entries)
      BY DEF Inv, Types
    <3>. HIDE DEF eligible
    <3>6. \E q \in eligible : \A s \in eligible : s.c.rev <= q.c.rev
      BY <3>3, <3>4, <3>5, LatestExists
    <3>7. p.c.rev <= effective.c.rev
      BY <3>3, <3>6
    <3>8. v = Verdict("VALID_ON_TIME", effective.c, Warnings(bundle, reg))
      BY ONLY <2>1, <2>8, <3>3
    <3>. QED BY <3>7, <3>8 DEF Verdict
  <2>. QED BY ONLY <2>9, <2>10, v = VerifyCommitment(bundle, Roots, reg)
<1>2. Spec => [](Inv /\ Steady)
  BY SteadyHolds
<1>. QED BY <1>1, <1>2, PTL

-----------------------------------------------------------------------------
(* The search for a path (Rfc3161): the recursion of _build_chain has a    *)
(* solution, and it finds a path exactly if there is one.                  *)

\* The calls of the search: a certificate and the path that ends in it.
Calls(pki) == (DOMAIN pki.key) \X (SUBSET DOMAIN pki.key)

Ends(pki, valid, anchors, cert) ==
    cert \in anchors \/ pki.issuers[cert] \cap valid \cap anchors # {}

Onward(pki, valid, intermediates, cert, path) ==
    (pki.issuers[cert] \cap valid \cap intermediates) \ path

\* A call answers yes, if the calls in yes do.
Answer(yes, pki, valid, intermediates, anchors, cert, path) ==
    /\ ~TooDeep(path)
    /\ \/ Ends(pki, valid, anchors, cert)
       \/ \E inter \in Onward(pki, valid, intermediates, cert, path) :
             <<inter, path \cup {inter}>> \in yes

Found(f, pki, valid, intermediates, anchors, cert, path) ==
    /\ ~TooDeep(path)
    /\ \/ cert \in anchors
       \/ pki.issuers[cert] \cap valid \cap anchors # {}
       \/ \E inter \in (pki.issuers[cert] \cap valid \cap intermediates) \ path :
             f[<<inter, path \cup {inter}>>]

IsWalk(f, pki, valid, intermediates, anchors) ==
    f = [at \in Calls(pki) |-> Found(f, pki, valid, intermediates, anchors, at[1], at[2])]

\* The least set of answers that is closed under the rules of the search.
LEMMA LeastAnswers ==
    ASSUME NEW pki, NEW valid, NEW intermediates \in SUBSET DOMAIN pki.key, NEW anchors
    PROVE  \E yes \in SUBSET Calls(pki) : \A at \in Calls(pki) :
              at \in yes <=> Answer(yes, pki, valid, intermediates, anchors, at[1], at[2])
<1>. DEFINE A(yes, at) == Answer(yes, pki, valid, intermediates, anchors, at[1], at[2])
            Closed(yes) == \A at \in Calls(pki) : A(yes, at) => at \in yes
            least == {at \in Calls(pki) : \A yes \in SUBSET Calls(pki) : Closed(yes) => at \in yes}
            next == {at \in Calls(pki) : A(least, at)}
<1>1. ASSUME NEW y, NEW z, y \subseteq z, NEW at, A(y, at)
      PROVE  A(z, at)
  BY <1>1 DEF Answer
<1>. HIDE DEF A
<1>2. next \subseteq least
  <2>. SUFFICES ASSUME NEW at \in next, NEW yes \in SUBSET Calls(pki), Closed(yes)
                PROVE  at \in yes
    OBVIOUS
  <2>1. least \subseteq yes
    OBVIOUS
  <2>2. A(yes, at)
    BY <1>1, <2>1
  <2>. QED BY <2>2
<1>3. least \subseteq next
  <2>1. next \in SUBSET Calls(pki)
    OBVIOUS
  <2>2. Closed(next)
    <3>. SUFFICES ASSUME NEW at \in Calls(pki), A(next, at) PROVE A(least, at)
      OBVIOUS
    <3>. QED BY <1>1, <1>2
  <2>. QED BY <2>1, <2>2
<1>4. \A at \in Calls(pki) : at \in least <=> A(least, at)
  BY <1>2, <1>3
<1>. QED BY <1>4 DEF A

LEMMA WalkExists ==
    ASSUME NEW pki, NEW valid, NEW intermediates \in SUBSET DOMAIN pki.key, NEW anchors
    PROVE  \E f : IsWalk(f, pki, valid, intermediates, anchors)
<1>1. PICK yes \in SUBSET Calls(pki) : \A at \in Calls(pki) :
         at \in yes <=> Answer(yes, pki, valid, intermediates, anchors, at[1], at[2])
  BY LeastAnswers
<1>. PICK f : f = [at \in Calls(pki) |-> at \in yes]
  OBVIOUS
<1>2. ASSUME NEW at \in Calls(pki)
      PROVE  (at \in yes) = Found(f, pki, valid, intermediates, anchors, at[1], at[2])
  <2>. PICK cert, path : cert = at[1] /\ path = at[2]
    OBVIOUS
  <2>1. cert \in DOMAIN pki.key /\ path \in SUBSET DOMAIN pki.key
    BY DEF Calls
  <2>2. ASSUME NEW inter \in Onward(pki, valid, intermediates, cert, path)
        PROVE  f[<<inter, path \cup {inter}>>] <=> <<inter, path \cup {inter}>> \in yes
    <3>1. <<inter, path \cup {inter}>> \in Calls(pki)
      BY <2>1 DEF Onward, Calls
    <3>. QED BY <3>1
  <2>3. Found(f, pki, valid, intermediates, anchors, cert, path)
          <=> Answer(yes, pki, valid, intermediates, anchors, cert, path)
    BY ONLY <2>2 DEF Found, Answer, Ends, Onward
  <2>4. at \in yes <=> Found(f, pki, valid, intermediates, anchors, at[1], at[2])
    BY <1>1, <2>3
  <2>. PICK found : found = Found(f, pki, valid, intermediates, anchors, at[1], at[2])
    OBVIOUS
  <2>5. found \in BOOLEAN
    BY ONLY found = Found(f, pki, valid, intermediates, anchors, at[1], at[2]) DEF Found
  <2>6. (at \in yes) = found
    BY ONLY <2>4, <2>5, found = Found(f, pki, valid, intermediates, anchors, at[1], at[2])
  <2>. QED BY ONLY <2>6, found = Found(f, pki, valid, intermediates, anchors, at[1], at[2])
<1>3. f = [at \in Calls(pki) |-> Found(f, pki, valid, intermediates, anchors, at[1], at[2])]
  <2>1. \A at \in Calls(pki) :
           (at \in yes) = Found(f, pki, valid, intermediates, anchors, at[1], at[2])
    BY ONLY <1>2, Zenon
  <2>. QED BY ONLY <2>1, f = [at \in Calls(pki) |-> at \in yes], Zenon
<1>. QED BY <1>3 DEF IsWalk

\* What the search of the code returns is the answer to its first call.
LEMMA BuildChainWalks ==
    ASSUME NEW pki, NEW leaf, NEW intermediates \in SUBSET DOMAIN pki.key, NEW anchors, NEW when,
           NEW valid, valid = {c \in pki.authorities : when \in pki.valid[c]}
    PROVE  \E f : /\ IsWalk(f, pki, valid, intermediates, anchors)
                  /\ BuildChain(pki, leaf, intermediates, anchors, when) <=> f[<<leaf, {leaf}>>]
<1>. PICK f : f = CHOOSE g : IsWalk(g, pki, valid, intermediates, anchors)
  OBVIOUS
<1>1. IsWalk(f, pki, valid, intermediates, anchors)
  BY WalkExists
<1>2. BuildChain(pki, leaf, intermediates, anchors, when) <=> f[<<leaf, {leaf}>>]
  BY DEF BuildChain, IsWalk, Found, Calls
<1>. QED BY <1>1, <1>2

\* The certificates one step further up.
Further(pki, issuing, level) == level \cup UNION {pki.issuers[c] \cap issuing : c \in level}

IsReached(h, pki, leaf, issuing, n) ==
    h = [k \in 0..n |-> IF k = 0 THEN {leaf}
                        ELSE Further(pki, issuing, h[k - 1])]

\* What the definition says of each level.
Levels(h, pki, leaf, issuing, n) ==
    /\ h[0] = {leaf}
    /\ \A k \in 0..n : k # 0 => h[k] = Further(pki, issuing, h[k - 1])

LEMMA LevelsAreReached ==
    ASSUME NEW n \in Nat, NEW h, h = [k \in 0..n |-> h[k]], NEW pki, NEW leaf, NEW issuing
    PROVE  IsReached(h, pki, leaf, issuing, n) <=> Levels(h, pki, leaf, issuing, n)
<1>1. ASSUME IsReached(h, pki, leaf, issuing, n) PROVE Levels(h, pki, leaf, issuing, n)
  BY <1>1 DEF IsReached, Levels
<1>2. ASSUME Levels(h, pki, leaf, issuing, n) PROVE IsReached(h, pki, leaf, issuing, n)
  <2>1. \A k \in 0..n : h[k] = IF k = 0 THEN {leaf} ELSE Further(pki, issuing, h[k - 1])
    BY <1>2 DEF Levels
  <2>2. [k \in 0..n |-> h[k]]
          = [k \in 0..n |-> IF k = 0 THEN {leaf} ELSE Further(pki, issuing, h[k - 1])]
    BY ONLY <2>1
  <2>. QED BY ONLY <2>2, h = [k \in 0..n |-> h[k]], Zenon DEF IsReached
<1>. QED BY <1>1, <1>2

LEMMA LevelsExist ==
    ASSUME NEW pki, NEW leaf, NEW issuing
    PROVE  \A n \in Nat : \E h : IsReached(h, pki, leaf, issuing, n)
<1>. DEFINE Is(n) == \E h : h = [k \in 0..n |-> h[k]] /\ Levels(h, pki, leaf, issuing, n)
            B == {n \in Nat : ~Is(n)}
<1>1. Is(0)
  <2>. PICK h : h = [k \in 0..0 |-> {leaf}]
    OBVIOUS
  <2>1. h = [k \in 0..0 |-> h[k]] /\ Levels(h, pki, leaf, issuing, 0)
    BY DEF Levels
  <2>. QED BY <2>1
<1>2. ASSUME NEW m \in Nat, Is(m) PROVE Is(m + 1)
  <2>1. PICK h : h = [k \in 0..m |-> h[k]] /\ Levels(h, pki, leaf, issuing, m)
    BY <1>2
  <2>. PICK top : top = Further(pki, issuing, h[m])
    OBVIOUS
  <2>. PICK g : g = [k \in 0..(m + 1) |-> IF k = m + 1 THEN top ELSE h[k]]
    OBVIOUS
  <2>2. g = [k \in 0..(m + 1) |-> g[k]] /\ g[m + 1] = top /\ \A k \in 0..m : g[k] = h[k]
    OBVIOUS
  <2>3. g[0] = {leaf}
    BY <2>1, <2>2 DEF Levels
  <2>4. ASSUME NEW k \in 0..(m + 1), k # 0 PROVE g[k] = Further(pki, issuing, g[k - 1])
    <3>1. k - 1 \in 0..m /\ g[k - 1] = h[k - 1]
      BY <2>2, <2>4
    <3>2. CASE k = m + 1
      <4>1. k - 1 = m
        BY <3>2
      <4>. QED BY ONLY <2>2, <3>1, <3>2, <4>1, top = Further(pki, issuing, h[m])
    <3>3. CASE k # m + 1
      <4>1. k \in 0..m /\ g[k] = h[k]
        BY <2>2, <3>3
      <4>2. h[k] = Further(pki, issuing, h[k - 1])
        BY <2>1, <2>4, <4>1 DEF Levels
      <4>. QED BY ONLY <3>1, <4>1, <4>2
    <3>. QED BY <3>2, <3>3
  <2>5. Levels(g, pki, leaf, issuing, m + 1)
    BY ONLY <2>3, <2>4 DEF Levels
  <2>. QED BY <2>2, <2>5
<1>3. \A n \in Nat : Is(n)
  <2>. HIDE DEF Is
  <2>. SUFFICES ASSUME B # {} PROVE FALSE
    OBVIOUS
  <2>1. PICK n \in B : \A m \in B : n <= m
    BY Smallest
  <2>2. n \in Nat /\ ~Is(n) /\ n # 0
    BY <1>1
  <2>3. n - 1 \in Nat /\ n - 1 \notin B /\ (n - 1) + 1 = n
    BY <2>1, <2>2
  <2>. QED BY <1>2, <2>2, <2>3
<1>. QED BY <1>3, LevelsAreReached

\* The last of them is what LeadingTo returns.
LEMMA LeadingToIs ==
    ASSUME NEW pki, NEW leaf, NEW issuing, NEW n \in Nat
    PROVE  \E h : Levels(h, pki, leaf, issuing, n) /\ LeadingTo(pki, leaf, issuing, n) = h[n]
<1>. PICK h : h = CHOOSE g : IsReached(g, pki, leaf, issuing, n)
  OBVIOUS
<1>1. IsReached(h, pki, leaf, issuing, n)
  BY LevelsExist
<1>2. h = [k \in 0..n |-> h[k]]
  BY <1>1 DEF IsReached
<1>3. LeadingTo(pki, leaf, issuing, n) = h[n]
  BY DEF LeadingTo, IsReached, Further
<1>. QED BY <1>1, <1>2, <1>3, LevelsAreReached

\* What a walk says at a certificate and a path.
LEMMA WalkSays ==
    ASSUME NEW pki, NEW valid, NEW intermediates, NEW anchors,
           NEW f, IsWalk(f, pki, valid, intermediates, anchors),
           NEW cert \in DOMAIN pki.key, NEW path \in SUBSET DOMAIN pki.key
    PROVE  f[<<cert, path>>] <=>
              /\ ~TooDeep(path)
              /\ \/ Ends(pki, valid, anchors, cert)
                 \/ \E inter \in Onward(pki, valid, intermediates, cert, path) :
                       f[<<inter, path \cup {inter}>>]
<1>1. <<cert, path>> \in Calls(pki)
  BY DEF Calls
<1>2. f[<<cert, path>>] <=> Found(f, pki, valid, intermediates, anchors, cert, path)
  BY <1>1 DEF IsWalk
<1>3. Found(f, pki, valid, intermediates, anchors, cert, path) <=>
              /\ ~TooDeep(path)
              /\ \/ Ends(pki, valid, anchors, cert)
                 \/ \E inter \in Onward(pki, valid, intermediates, cert, path) :
                       f[<<inter, path \cup {inter}>>]
  BY ONLY Zenon DEF Found, Ends, Onward
<1>. QED BY ONLY <1>2, <1>3

LEMMA OneAlone ==
    ASSUME NEW c
    PROVE  IsFiniteSet({c}) /\ Cardinality({c}) = 0 + 1 /\ Cardinality({c}) <= 0 + 1
<1>1. IsFiniteSet({c}) /\ Cardinality({c}) = 1
  BY FS_Singleton
<1>. QED BY ONLY <1>1

LEMMA OneLonger ==
    ASSUME NEW path, IsFiniteSet(path), NEW c, c \notin path
    PROVE  /\ IsFiniteSet(path \cup {c}) /\ Cardinality(path) \in Nat
           /\ Cardinality(path \cup {c}) = Cardinality(path) + 1
BY FS_AddElement, FS_CardinalityType

\* What the search finds leads to an anchor: it goes up a level with each intermediate,
\* and may do so MaxDepth times.
LEMMA WalkIsRight ==
    ASSUME NEW pki, NEW valid, NEW intermediates \in SUBSET DOMAIN pki.key, NEW anchors,
           NEW leaf \in DOMAIN pki.key,
           NEW f, IsWalk(f, pki, valid, intermediates, anchors), f[<<leaf, {leaf}>>],
           NEW h, Levels(h, pki, leaf, valid \cap intermediates, MaxDepth)
    PROVE  \E c \in h[MaxDepth] : Ends(pki, valid, anchors, c)
<1>. DEFINE known == DOMAIN pki.key
            Walks(k) == \E cert \in known, path \in SUBSET known :
                           /\ cert \in h[k] /\ IsFiniteSet(path) /\ Cardinality(path) = k + 1
                           /\ f[<<cert, path>>]
            Ended(k) == \E c \in h[k] : Ends(pki, valid, anchors, c)
            B == {k \in 0..MaxDepth : Walks(k)}
            E == {k \in 0..MaxDepth : Ended(k)}
<1>1. MaxDepth \in Nat
  BY Rfc3161Assumption
<1>2. \A k \in 0..MaxDepth : k # MaxDepth =>
         h[k + 1] = Further(pki, valid \cap intermediates, h[k])
  <2>. SUFFICES ASSUME NEW k \in 0..MaxDepth, k # MaxDepth
                PROVE  h[k + 1] = Further(pki, valid \cap intermediates, h[k])
    OBVIOUS
  <2>1. k + 1 \in 0..MaxDepth /\ k + 1 # 0 /\ (k + 1) - 1 = k
    BY <1>1
  <2>. QED BY <2>1 DEF Levels
<1>3. Walks(0)
  <2>1. IsFiniteSet({leaf}) /\ Cardinality({leaf}) = 0 + 1
    BY OneAlone
  <2>2. leaf \in h[0] /\ {leaf} \in SUBSET known
    BY DEF Levels
  <2>. QED BY <2>1, <2>2
<1>4. ASSUME NEW k \in 0..MaxDepth, Walks(k), ~Ended(k)
      PROVE  k # MaxDepth /\ Walks(k + 1)
  <2>1. PICK cert \in known, path \in SUBSET known :
           /\ cert \in h[k] /\ IsFiniteSet(path) /\ Cardinality(path) = k + 1
           /\ f[<<cert, path>>]
    BY <1>4
  <2>2. PICK inter \in Onward(pki, valid, intermediates, cert, path) :
           f[<<inter, path \cup {inter}>>]
    BY <1>4, <2>1, WalkSays
  <2>. PICK longer : longer = path \cup {inter}
    OBVIOUS
  <2>3. /\ inter \in known /\ inter \notin path
        /\ inter \in pki.issuers[cert] \cap (valid \cap intermediates)
    BY <2>2 DEF Onward
  <2>4. longer \in SUBSET known /\ IsFiniteSet(longer) /\ Cardinality(longer) = (k + 1) + 1
    BY <2>1, <2>3, OneLonger
  <2>5. ~TooDeep(longer)
    BY <2>2, <2>3, <2>4, WalkSays
  <2>6. k # MaxDepth
    BY <1>1, <2>4, <2>5 DEF TooDeep
  <2>7. inter \in h[k + 1]
    BY <1>2, <2>1, <2>3, <2>6 DEF Further
  <2>. QED BY <2>2, <2>3, <2>4, <2>6, <2>7
<1>. HIDE DEF Walks
<1>5. E # {}
  <2>. SUFFICES ASSUME E = {} PROVE FALSE
    OBVIOUS
  <2>1. B \subseteq 0..MaxDepth /\ B # {}
    BY <1>1, <1>3
  <2>2. PICK k \in B : \A m \in B : m <= k
    BY <1>1, <2>1, Greatest
  <2>3. k # MaxDepth /\ Walks(k + 1)
    BY <1>4, <2>2
  <2>4. k + 1 \in B
    BY <1>1, <2>3
  <2>. QED BY <1>1, <2>2, <2>4
<1>6. PICK k \in E : \A m \in E : m <= k
  <2>1. E \subseteq 0..MaxDepth
    OBVIOUS
  <2>. HIDE DEF E
  <2>. QED BY <1>1, <1>5, <2>1, Greatest
<1>7. k = MaxDepth
  <2>. SUFFICES ASSUME k # MaxDepth PROVE FALSE
    OBVIOUS
  <2>1. h[k] \subseteq h[k + 1]
    BY <1>2 DEF Further
  <2>2. k + 1 \in E
    BY <1>1, <2>1
  <2>. QED BY <1>1, <1>6, <2>2
<1>. QED BY <1>7

\* If something leads to an anchor, the search finds a way: along the levels in which
\* each certificate is first met no intermediate comes twice.
LEMMA WalkIsComplete ==
    ASSUME NEW pki, NEW valid, NEW intermediates \in SUBSET DOMAIN pki.key, NEW anchors,
           NEW leaf \in DOMAIN pki.key,
           NEW f, IsWalk(f, pki, valid, intermediates, anchors),
           NEW h, Levels(h, pki, leaf, valid \cap intermediates, MaxDepth),
           \E c \in h[MaxDepth] : Ends(pki, valid, anchors, c)
    PROVE  f[<<leaf, {leaf}>>]
<1>. DEFINE known == DOMAIN pki.key
            New(k, c) == c \in h[k] /\ (k # 0 => c \notin h[k - 1])
            Fits(k, path) == /\ path \in SUBSET known /\ path \subseteq h[k]
                             /\ IsFiniteSet(path) /\ Cardinality(path) <= k + 1
            Leads(k) == \E c : New(k, c) /\ \A path : Fits(k, path) => f[<<c, path>>]
            Ended(k) == \E c \in h[k] : Ends(pki, valid, anchors, c)
            B == {k \in 0..MaxDepth : Leads(k)}
            E == {k \in 0..MaxDepth : Ended(k)}
<1>1. MaxDepth \in Nat
  BY Rfc3161Assumption
<1>2. \A k \in 0..MaxDepth : k # 0 =>
         /\ k - 1 \in 0..MaxDepth /\ (k - 1) + 1 = k
         /\ h[k] = Further(pki, valid \cap intermediates, h[k - 1])
  BY <1>1 DEF Levels
<1>3. ASSUME NEW k \in 0..MaxDepth, NEW c, New(k, c)
      PROVE  /\ c \in known
             /\ k # 0 => \E d \in h[k - 1] : c \in pki.issuers[d] \cap (valid \cap intermediates)
  <2>1. CASE k = 0
    BY <1>3, <2>1 DEF Levels
  <2>2. CASE k # 0
    <3>1. c \in Further(pki, valid \cap intermediates, h[k - 1]) /\ c \notin h[k - 1]
      BY <1>2, <1>3, <2>2
    <3>2. PICK d \in h[k - 1] : c \in pki.issuers[d] \cap (valid \cap intermediates)
      BY <3>1 DEF Further
    <3>. QED BY <3>2
  <2>. QED BY <2>1, <2>2
<1>4. ASSUME NEW k \in 0..MaxDepth, NEW path, Fits(k, path) PROVE ~TooDeep(path)
  <2>1. Cardinality(path) \in Nat /\ Cardinality(path) <= k + 1
    BY <1>4, FS_CardinalityType
  <2>. QED BY <1>1, <2>1 DEF TooDeep
<1>5. ASSUME NEW k \in 0..MaxDepth, Ended(k), k # 0 => ~Ended(k - 1) PROVE Leads(k)
  <2>1. PICK c \in h[k] : Ends(pki, valid, anchors, c)
    BY <1>5
  <2>2. New(k, c)
    BY <1>5, <2>1
  <2>3. ASSUME NEW path, Fits(k, path) PROVE f[<<c, path>>]
    <3>1. c \in known /\ path \in SUBSET known /\ ~TooDeep(path)
      BY <1>3, <1>4, <2>2, <2>3
    <3>. QED BY <2>1, <3>1, WalkSays
  <2>. QED BY <2>2, <2>3
<1>6. ASSUME NEW k \in 0..MaxDepth, k # 0, Leads(k) PROVE Leads(k - 1)
  <2>1. PICK c : New(k, c) /\ \A path : Fits(k, path) => f[<<c, path>>]
    BY <1>6
  <2>2. PICK d \in h[k - 1] : c \in pki.issuers[d] \cap (valid \cap intermediates)
    BY <1>3, <1>6, <2>1
  <2>. PICK j : j = k - 1
    OBVIOUS
  <2>3. j \in 0..MaxDepth /\ j + 1 = k /\ h[k] = Further(pki, valid \cap intermediates, h[j])
    BY <1>2, <1>6
  <2>4. New(j, d)
    <3>. SUFFICES ASSUME j # 0, d \in h[j - 1] PROVE FALSE
      BY <2>2
    <3>1. c \in h[j]
      BY <1>2, <2>2, <2>3 DEF Further
    <3>. QED BY <1>6, <2>1, <3>1
  <2>5. ASSUME NEW path, Fits(j, path) PROVE f[<<d, path>>]
    <3>. PICK longer : longer = path \cup {c}
      OBVIOUS
    <3>1. c \notin path /\ c \in known /\ c \in h[k]
      BY <1>3, <1>6, <2>1, <2>5
    <3>2. IsFiniteSet(longer) /\ Cardinality(path) \in Nat
          /\ Cardinality(longer) = Cardinality(path) + 1
      BY <2>5, <3>1, OneLonger
    <3>3. Fits(k, longer)
      <4>1. longer \in SUBSET known /\ longer \subseteq h[k]
        BY <2>3, <2>5, <3>1 DEF Further
      <4>2. Cardinality(longer) <= k + 1
        BY <1>1, <2>3, <2>5, <3>2
      <4>. QED BY <3>2, <4>1, <4>2
    <3>4. f[<<c, path \cup {c}>>]
      BY <2>1, <3>3
    <3>5. c \in Onward(pki, valid, intermediates, d, path)
      BY <2>2, <3>1 DEF Onward
    <3>6. d \in known /\ path \in SUBSET known /\ ~TooDeep(path)
      BY <1>3, <1>4, <2>3, <2>4, <2>5
    <3>. QED BY <3>4, <3>5, <3>6, WalkSays
  <2>. QED BY <2>4, <2>5
<1>7. Leads(0) => f[<<leaf, {leaf}>>]
  <2>. SUFFICES ASSUME Leads(0) PROVE f[<<leaf, {leaf}>>]
    OBVIOUS
  <2>1. h[0] = {leaf}
    BY DEF Levels
  <2>2. PICK c : New(0, c) /\ \A path : Fits(0, path) => f[<<c, path>>]
    OBVIOUS
  <2>3. c = leaf
    BY <2>1, <2>2
  <2>4. IsFiniteSet({leaf}) /\ Cardinality({leaf}) <= 0 + 1
    BY OneAlone
  <2>5. Fits(0, {leaf})
    BY <2>1, <2>4
  <2>. QED BY <2>2, <2>3, <2>5
<1>8. Ended(MaxDepth)
  OBVIOUS
<1>. HIDE DEF Leads, Ended
<1>9. PICK k \in E : \A m \in E : k <= m
  <2>1. E \subseteq Nat /\ E # {}
    BY <1>1, <1>8
  <2>. HIDE DEF E
  <2>. QED BY <2>1, Smallest
<1>10. k \in B
  <2>1. k # 0 => ~Ended(k - 1)
    BY <1>1, <1>9
  <2>. QED BY <1>5, <1>9, <2>1
<1>11. PICK b \in B : \A m \in B : b <= m
  <2>1. B \subseteq Nat /\ B # {}
    BY <1>1, <1>10
  <2>. HIDE DEF B
  <2>. QED BY <2>1, Smallest
<1>12. b = 0
  <2>. SUFFICES ASSUME b # 0 PROVE FALSE
    OBVIOUS
  <2>1. b - 1 \in B
    BY <1>1, <1>6, <1>11
  <2>. QED BY <1>1, <1>11, <2>1
<1>. QED BY <1>7, <1>11, <1>12

\* The search for a path (sasana/rfc3161.py, _build_chain) takes the first certificate
\* that leads on, backs out of dead ends and never goes round in a circle; it stops at
\* the first path it finds. It finds one exactly if certificates lead from an anchor to
\* the leaf within MaxDepth intermediates: whatever crosses, cycles or has expired.
THEOREM SearchFindsPaths ==
    ASSUME NEW pki, NEW leaf \in DOMAIN pki.key,
           NEW intermediates \in SUBSET DOMAIN pki.key, NEW anchors, NEW when
    PROVE  BuildChain(pki, leaf, intermediates, anchors, when)
              <=> IsTrusted(pki, leaf, intermediates, anchors, when)
<1>. PICK valid : valid = {c \in pki.authorities : when \in pki.valid[c]}
  OBVIOUS
<1>1. PICK f : /\ IsWalk(f, pki, valid, intermediates, anchors)
               /\ BuildChain(pki, leaf, intermediates, anchors, when) <=> f[<<leaf, {leaf}>>]
  BY BuildChainWalks
<1>2. MaxDepth \in Nat
  BY Rfc3161Assumption
<1>3. PICK h : /\ Levels(h, pki, leaf, valid \cap intermediates, MaxDepth)
               /\ LeadingTo(pki, leaf, valid \cap intermediates, MaxDepth) = h[MaxDepth]
  BY <1>2, LeadingToIs
<1>4. IsTrusted(pki, leaf, intermediates, anchors, when)
         <=> \E c \in h[MaxDepth] : Ends(pki, valid, anchors, c)
  BY <1>3 DEF IsTrusted, Ends
<1>5. f[<<leaf, {leaf}>>] => \E c \in h[MaxDepth] : Ends(pki, valid, anchors, c)
  BY <1>1, <1>3, WalkIsRight
<1>6. (\E c \in h[MaxDepth] : Ends(pki, valid, anchors, c)) => f[<<leaf, {leaf}>>]
  BY <1>1, <1>3, WalkIsComplete
<1>. QED BY ONLY <1>1, <1>4, <1>5, <1>6

Fitting(pki, carried, sid) ==
    {c \in carried : IF sid.by = "serial" THEN c = sid.cert ELSE pki.key[c] = sid.key}

\* The certificate that signed a token, as the verifier finds it.
LEMMA SignerFound ==
    ASSUME NEW pki, NEW certs \in Seq(DOMAIN pki.key), NoCert \notin DOMAIN pki.key, NEW sid,
           NEW carried, carried = Embedded(certs),
           NEW leaf, leaf = FindSignerCert(pki, certs, sid),
           NEW fits, fits = Fitting(pki, carried, sid)
    PROVE  /\ fits = {} => leaf = NoCert
           /\ fits # {} => leaf \in fits
           /\ carried \subseteq DOMAIN pki.key
           /\ fits \subseteq carried
<1>. DEFINE at == {i \in DOMAIN certs : IF sid.by = "serial" THEN certs[i] = sid.cert
                                        ELSE pki.key[certs[i]] = sid.key}
<1>1. fits = {certs[i] : i \in at}
  BY DEF Embedded, Fitting
<1>2. at = {} => leaf = NoCert
  BY DEF FindSignerCert
<1>3. at # {} => leaf = certs[Min(at)]
  BY DEF FindSignerCert
<1>4. at \subseteq Nat
  OBVIOUS
<1>5. carried \subseteq DOMAIN pki.key
  BY DEF Embedded
<1>. HIDE DEF at
<1>6. at # {} => Min(at) \in at
  BY <1>4, MinIsSmallest
<1>7. fits \subseteq carried
  BY DEF Fitting
<1>. QED BY <1>1, <1>2, <1>3, <1>5, <1>6, <1>7

\* What VerifyTimestampStrict asks of a token that was issued for this request.
LEMMA StrictlyVerified ==
    ASSUME NEW pki, NEW signer, NEW certs, NEW sid, NEW anchors, NEW when, NEW imprint,
           NEW token, token = IssuedToken(pki, signer, certs, sid,
                                          TstInfo(imprint, 1, Policy, when, Omitted)),
           NEW leaf, leaf = FindSignerCert(pki, certs, sid)
    PROVE  VerifyTimestampStrict(pki, token, imprint, anchors, 1, {Policy}) <=>
              /\ anchors # {} /\ leaf # NoCert /\ pki.key[signer] = pki.key[leaf]
              /\ BuildChain(pki, leaf, Embedded(certs) \ {leaf}, anchors, when)
              /\ when \in pki.valid[leaf] /\ leaf \in pki.stampers
<1>. PICK tst : tst = TstInfo(imprint, 1, Policy, when, Omitted)
  OBVIOUS
<1>. PICK attrs : attrs = [digest |-> tst]
  OBVIOUS
<1>1. tst.imprint = imprint /\ tst.nonce = 1 /\ tst.policy = Policy /\ tst.gen = when
  BY DEF TstInfo
<1>2. /\ token.tst = tst /\ token.attrs = attrs /\ token.certs = certs /\ token.sid = sid
      /\ token.signature = <<pki.key[signer], attrs>>
  BY DEF IssuedToken, Token
<1>3. token.signature = <<pki.key[leaf], token.attrs>> <=> pki.key[signer] = pki.key[leaf]
  BY <1>2
<1>. QED BY <1>1, <1>2, <1>3 DEF VerifyTimestampStrict

\* An anchor ends every path.
LEMMA TrustNeedsAnchors ==
    ASSUME NEW pki, NEW leaf, NEW intermediates, NEW when
    PROVE  ~IsTrusted(pki, leaf, intermediates, {}, when)
BY DEF IsTrusted

LEMMA AcceptedAtAnyTime == ASSUME NEW case \in Cases, NEW when PROVE AcceptedWhenIssued(case, when)
<1>. PICK pki, certs, sid, anchors, signer :
        /\ pki = case.pki /\ certs = case.certs /\ sid = case.sid
        /\ anchors = case.anchors /\ signer = case.signer
  OBVIOUS
<1>. PICK token : token = IssuedToken(pki, signer, certs, sid,
                                      TstInfo("hash", 1, Policy, when, Omitted))
  OBVIOUS
<1>. PICK leaf : leaf = FindSignerCert(pki, certs, sid)
  OBVIOUS
<1>. PICK carried : carried = Embedded(certs)
  OBVIOUS
<1>. PICK fits : fits = Fitting(pki, carried, sid)
  OBVIOUS
<1>. DEFINE Good(c) == /\ c \in pki.stampers /\ when \in pki.valid[c]
                       /\ IsTrusted(pki, c, carried \ {c}, anchors, when)
            accepted == VerifyTimestampStrict(pki, token, "hash", anchors, 1, {Policy})
<1>1. certs \in Seq(DOMAIN pki.key) /\ NoCert \notin DOMAIN pki.key
  BY CasesAssumption
<1>2. /\ fits = {} => leaf = NoCert
      /\ fits # {} => leaf \in fits
      /\ carried \subseteq DOMAIN pki.key
      /\ fits \subseteq carried
  BY ONLY <1>1, SignerFound, carried = Embedded(certs), leaf = FindSignerCert(pki, certs, sid),
          fits = Fitting(pki, carried, sid)
<1>3. accepted <=>
         /\ anchors # {} /\ leaf # NoCert /\ pki.key[signer] = pki.key[leaf]
         /\ BuildChain(pki, leaf, carried \ {leaf}, anchors, when)
         /\ when \in pki.valid[leaf] /\ leaf \in pki.stampers
  BY ONLY StrictlyVerified, carried = Embedded(certs), leaf = FindSignerCert(pki, certs, sid),
          token = IssuedToken(pki, signer, certs, sid, TstInfo("hash", 1, Policy, when, Omitted))
<1>4. leaf \in carried => (BuildChain(pki, leaf, carried \ {leaf}, anchors, when)
                              <=> IsTrusted(pki, leaf, carried \ {leaf}, anchors, when))
  BY <1>2, SearchFindsPaths
<1>5. accepted => \E c \in carried : Good(c) /\ pki.key[c] = pki.key[signer]
  <2>. SUFFICES ASSUME accepted
                PROVE  \E c \in carried : Good(c) /\ pki.key[c] = pki.key[signer]
    OBVIOUS
  <2>1. leaf \in carried
    BY <1>2, <1>3
  <2>2. Good(leaf) /\ pki.key[leaf] = pki.key[signer]
    BY ONLY <1>3, <1>4, <2>1, accepted
  <2>. QED BY <2>1, <2>2
<1>6. fits = {signer} /\ Good(signer) => accepted
  <2>. SUFFICES ASSUME fits = {signer}, Good(signer) PROVE accepted
    OBVIOUS
  <2>1. leaf = signer /\ signer \in carried /\ leaf # NoCert
    BY <1>1, <1>2
  <2>2. anchors # {}
    BY ONLY TrustNeedsAnchors, Good(signer), Zenon
  <2>. QED BY ONLY <1>3, <1>4, <2>1, <2>2, Good(signer)
<1>. HIDE DEF Good, accepted
<1>7. AcceptedWhenIssued(case, when)
         <=> /\ accepted => \E c \in carried : Good(c) /\ pki.key[c] = pki.key[signer]
             /\ fits = {signer} /\ Good(signer) => accepted
  BY DEF AcceptedWhenIssued, Fitting, Good, accepted
<1>. QED BY <1>5, <1>6, <1>7

\* A token issued now passes strict verification (sasana/rfc3161.py,
\* verify_timestamp_strict) only if one of the certificates it carries has the key that
\* signed it, may time-stamp, is valid and is trusted; and it passes if its signer's
\* certificate is such a one and no other fits how the token identifies its signer.
\* This holds of every certificate graph, whatever the order of what the token carries.
THEOREM TokensAcceptedWhenIssued == Spec => []AcceptedExactlyWhenIssued
<1>1. AcceptedExactlyWhenIssued
  BY AcceptedAtAnyTime DEF AcceptedExactlyWhenIssued
<1>. QED BY <1>1, PTL
=============================================================================
