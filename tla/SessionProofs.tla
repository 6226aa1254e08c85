--------------------------- MODULE SessionProofs ----------------------------
(***************************************************************************)
(* Facts about sequences of events and about sessions, for any log: what   *)
(* appending does, that OrderBySeq is the stable sort by sequence number   *)
(* that the SQL query and Python's sorted are, and that the file of a      *)
(* session that was started once and ended passes the Python verifier.     *)
(***************************************************************************)
EXTENDS Ledger, FiniteSetTheorems, FunctionTheorems, WellFoundedInduction, TLAPS

-----------------------------------------------------------------------------
(* Sequences whose entries need have nothing in common.                    *)

IsSeq(s) == s \in Seq({s[i] : i \in DOMAIN s})

LEMMA SeqDomain ==
    ASSUME NEW s, IsSeq(s)
    PROVE  Len(s) \in Nat /\ DOMAIN s = 1..Len(s)
BY DEF IsSeq

\* A function on 1..n is a sequence of its values.
LEMMA FunctionIsSequence ==
    ASSUME NEW n \in Nat, NEW s, s = [i \in 1..n |-> s[i]]
    PROVE  IsSeq(s) /\ Len(s) = n
BY DEF IsSeq

LEMMA Appending ==
    ASSUME NEW s, IsSeq(s), NEW e
    PROVE  /\ IsSeq(Append(s, e))
           /\ Len(Append(s, e)) = Len(s) + 1
           /\ \A i \in 1..Len(s) : Append(s, e)[i] = s[i]
           /\ Append(s, e)[Len(s) + 1] = e
<1>1. s \in Seq({s[i] : i \in DOMAIN s} \cup {e})
  BY DEF IsSeq
<1>2. /\ Append(s, e) \in Seq({s[i] : i \in DOMAIN s} \cup {e})
      /\ Len(s) \in Nat
      /\ Len(Append(s, e)) = Len(s) + 1
      /\ DOMAIN Append(s, e) = 1..(Len(s) + 1)
      /\ \A i \in 1..Len(s) : Append(s, e)[i] = s[i]
      /\ Append(s, e)[Len(s) + 1] = e
  BY <1>1
<1>3. Append(s, e) \in Seq({Append(s, e)[i] : i \in DOMAIN Append(s, e)})
  BY <1>2
<1>. QED BY <1>2, <1>3 DEF IsSeq

LEMMA FirstPart ==
    ASSUME NEW s, IsSeq(s), NEW n \in 0..Len(s)
    PROVE  /\ IsSeq(SubSeq(s, 1, n)) /\ Len(SubSeq(s, 1, n)) = n
           /\ \A i \in 1..n : SubSeq(s, 1, n)[i] = s[i]
<1>. PICK S : S = {s[i] : i \in DOMAIN s}
  OBVIOUS
<1>. PICK p : p = SubSeq(s, 1, n)
  OBVIOUS
<1>1. s \in Seq(S) /\ Len(s) \in Nat /\ n \in Nat
  BY SeqDomain DEF IsSeq
<1>2. p \in Seq(S) /\ Len(p) = n /\ \A i \in 1..n : p[i] = s[i]
  BY <1>1
<1>3. p = [i \in 1..n |-> p[i]]
  BY <1>2
<1>. QED BY <1>1, <1>2, <1>3, FunctionIsSequence

\* r is s, then what f has after as many entries.
Continues(r, s, f) ==
    /\ IsSeq(r) /\ Len(r) = IF Len(s) < Len(f) THEN Len(f) ELSE Len(s)
    /\ \A i \in 1..Len(s) : r[i] = s[i]
    /\ \A i \in (Len(s) + 1)..Len(f) : r[i] = f[i]

LEMMA LastPartOf ==
    ASSUME NEW S, NEW s \in Seq(S), NEW f \in Seq(S)
    PROVE  Continues(s \o SubSeq(f, Len(s) + 1, Len(f)), s, f)
<1>1. s \in Seq(S) /\ f \in Seq(S)
  OBVIOUS
<1>. PICK m \in Nat, n \in Nat : m = Len(s) /\ n = Len(f)
  BY <1>1
<1>. PICK q : q = SubSeq(f, m + 1, n)
  OBVIOUS
<1>. PICK r : r = s \o q
  OBVIOUS
<1>2. CASE m < n
  <2>0. n - m \in Nat
    BY <1>2
  <2>. PICK k \in Nat : k = n - m
    BY <2>0
  <2>1. q \in Seq(S) /\ Len(q) = k /\ \A i \in 1..k : q[i] = f[m + i]
    <3>1. m + 1 \in 1..n /\ n \in 1..n
      BY <1>2
    <3>2. q \in Seq(S)
      BY <1>1, <1>2, <3>1
    <3>4. Len(q) = k
      BY <1>1, <1>2, <3>1
    <3>3. ASSUME NEW i \in 1..k PROVE q[i] = f[m + i]
      BY <1>1, <1>2, <3>1
    <3>. QED BY <3>2, <3>3, <3>4
  <2>2. r \in Seq(S) /\ Len(r) = n /\ \A i \in 1..m : r[i] = s[i]
    BY <1>1, <2>1
  <2>3. ASSUME NEW i \in (m + 1)..n PROVE r[i] = f[i]
    <3>1. i - m \in 1..k /\ m + (i - m) = i
      OBVIOUS
    <3>. PICK j \in 1..k : j = i - m
      BY <3>1
    <3>2. r[i] = q[j]
      BY <1>1, <2>1
    <3>3. m + j = i
      BY <3>1
    <3>. QED BY <2>1, <3>2, <3>3
  <2>4. r = [i \in 1..n |-> r[i]]
    BY <2>2
  <2>5. IsSeq(r)
    BY <2>2, <2>4, FunctionIsSequence
  <2>. QED BY <1>2, <2>2, <2>3, <2>5 DEF Continues
<1>3. CASE ~(m < n)
  <2>1. q = <<>>
    BY <1>1, <1>3
  <2>2. q \in Seq(S) /\ Len(q) = 0
    BY ONLY <2>1
  <2>3. Len(r) = m /\ r \in Seq(S) /\ \A i \in 1..m : r[i] = s[i]
    BY <1>1, <2>2
  <2>4. r = [i \in 1..m |-> r[i]]
    BY <2>3
  <2>5. IsSeq(r)
    BY <2>3, <2>4, FunctionIsSequence
  <2>6. (m + 1)..n = {}
    BY <1>3
  <2>. QED BY <1>3, <2>3, <2>5, <2>6 DEF Continues
<1>. QED BY <1>2, <1>3

LEMMA LastPart ==
    ASSUME NEW s, IsSeq(s), NEW f, IsSeq(f)
    PROVE  Continues(s \o SubSeq(f, Len(s) + 1, Len(f)), s, f)
<1>. PICK S : S = {s[i] : i \in DOMAIN s} \cup {f[i] : i \in DOMAIN f}
  OBVIOUS
<1>1. s \in Seq(S) /\ f \in Seq(S)
  BY DEF IsSeq
<1>. QED BY ONLY <1>1, LastPartOf

\* A nonempty set of naturals has a least element.
LEMMA LeastElement ==
    ASSUME NEW S \in SUBSET Nat, S # {}
    PROVE  \E m \in S : \A n \in S : m <= n
<1>1. PICK m \in S : \A n \in S : <<n, m>> \notin OpToRel(<, Nat)
  BY WFMin, NatLessThanWellFounded
<1>2. ASSUME NEW n \in S PROVE m <= n
  <2>1. n \in Nat /\ m \in Nat /\ <<n, m>> \in Nat \X Nat
    OBVIOUS
  <2>2. n < m => <<n, m>> \in OpToRel(<, Nat)
    BY <2>1 DEF OpToRel
  <2>3. ~(n < m)
    BY <1>1, <2>2, Zenon
  <2>. QED BY <2>1, <2>3
<1>. QED BY <1>2

\* And a greatest one, if it is bounded.
LEMMA GreatestElement ==
    ASSUME NEW n \in Nat, NEW S \in SUBSET (1..n), S # {}
    PROVE  \E m \in S : \A k \in S : k <= m
<1>. PICK D : D = {n - k : k \in S}
  OBVIOUS
<1>1. D \in SUBSET Nat /\ D # {}
  <2>1. \A k \in S : n - k \in Nat
    OBVIOUS
  <2>. QED BY <2>1
<1>2. PICK d \in D : \A c \in D : d <= c
  BY <1>1, LeastElement
<1>3. PICK m \in S : d = n - m
  OBVIOUS
<1>4. ASSUME NEW k \in S PROVE k <= m
  <2>1. n - m <= n - k
    BY <1>2, <1>3
  <2>. QED BY <2>1
<1>. QED BY <1>4

-----------------------------------------------------------------------------
(* The stable sort.                                                        *)

\* The i-th entry comes after the j-th or is it: the order of OrderBySeq.
NotAfter(log, j, i) ==
    \/ log[j].seq < log[i].seq
    \/ log[j].seq = log[i].seq /\ j <= i

UpTo(log, i) == {j \in DOMAIN log : NotAfter(log, j, i)}
PlaceOf(log, i) == Cardinality(UpTo(log, i))

HasNumbers(log) == IsSeq(log) /\ \A i \in DOMAIN log : log[i].seq \in Nat

\* The number of places after the m-th.
LEMMA IntervalSize ==
    \A m, n \in Nat : m <= n =>
       IsFiniteSet((m + 1)..n) /\ Cardinality((m + 1)..n) = n - m /\ IsFiniteSet(1..n)
         /\ Cardinality(1..n) = n
<1>. SUFFICES ASSUME NEW m \in Nat, NEW n \in Nat, m <= n
              PROVE  /\ IsFiniteSet((m + 1)..n) /\ Cardinality((m + 1)..n) = n - m
                     /\ IsFiniteSet(1..n) /\ Cardinality(1..n) = n
  OBVIOUS
<1>1. m + 1 \in Int /\ n \in Int /\ 1 \in Int
  OBVIOUS
<1>2. /\ IsFiniteSet((m + 1)..n)
      /\ Cardinality((m + 1)..n) = IF m + 1 > n THEN 0 ELSE n - (m + 1) + 1
      /\ IsFiniteSet(1..n)
      /\ Cardinality(1..n) = IF 1 > n THEN 0 ELSE n - 1 + 1
  BY <1>1, FS_Interval
<1>. QED BY <1>2

LEMMA PlaceRange ==
    ASSUME NEW log, HasNumbers(log), NEW i \in DOMAIN log
    PROVE  IsFiniteSet(UpTo(log, i)) /\ PlaceOf(log, i) \in DOMAIN log
<1>1. DOMAIN log = 1..Len(log) /\ Len(log) \in Nat
  BY SeqDomain DEF HasNumbers
<1>2. IsFiniteSet(1..Len(log)) /\ Cardinality(1..Len(log)) = Len(log)
  BY <1>1, IntervalSize
<1>3. UpTo(log, i) \in SUBSET (1..Len(log)) /\ i \in UpTo(log, i)
  BY <1>1 DEF UpTo, NotAfter, HasNumbers
<1>4. IsFiniteSet(UpTo(log, i)) /\ Cardinality(UpTo(log, i)) <= Len(log)
  BY <1>2, <1>3, FS_Subset
<1>5. Cardinality(UpTo(log, i)) # 0 /\ Cardinality(UpTo(log, i)) \in Nat
  BY <1>3, <1>4, FS_EmptySet, FS_CardinalityType
<1>. QED BY <1>1, <1>4, <1>5 DEF PlaceOf

\* An entry that another one precedes has the greater place.
LEMMA PlaceMonotone ==
    ASSUME NEW log, HasNumbers(log), NEW i \in DOMAIN log, NEW j \in DOMAIN log,
           j # i, NotAfter(log, j, i)
    PROVE  PlaceOf(log, j) < PlaceOf(log, i)
<1>1. DOMAIN log = 1..Len(log) /\ Len(log) \in Nat
  BY SeqDomain DEF HasNumbers
<1>2. UpTo(log, j) \in SUBSET UpTo(log, i) /\ i \in UpTo(log, i) /\ i \notin UpTo(log, j)
  BY <1>1 DEF UpTo, NotAfter, HasNumbers
<1>3. /\ Cardinality(UpTo(log, j)) <= Cardinality(UpTo(log, i))
      /\ Cardinality(UpTo(log, j)) # Cardinality(UpTo(log, i))
  BY <1>2, PlaceRange, FS_Subset
<1>. QED BY <1>1, <1>3, PlaceRange DEF PlaceOf

\* Every place is the place of exactly one entry.
LEMMA PlaceBijective ==
    ASSUME NEW log, HasNumbers(log)
    PROVE  /\ \A i, j \in DOMAIN log : PlaceOf(log, i) = PlaceOf(log, j) => i = j
           /\ \A k \in DOMAIN log : \E i \in DOMAIN log : PlaceOf(log, i) = k
<1>. DEFINE f == [i \in DOMAIN log |-> PlaceOf(log, i)]
<1>1. DOMAIN log = 1..Len(log) /\ Len(log) \in Nat
  BY SeqDomain DEF HasNumbers
<1>2. ASSUME NEW i \in DOMAIN log, NEW j \in DOMAIN log, i # j
      PROVE  PlaceOf(log, i) # PlaceOf(log, j)
  <2>1. NotAfter(log, i, j) \/ NotAfter(log, j, i)
    BY <1>1 DEF NotAfter, HasNumbers
  <2>2. PlaceOf(log, i) \in Nat /\ PlaceOf(log, j) \in Nat
    BY <1>1, PlaceRange
  <2>3. PlaceOf(log, i) < PlaceOf(log, j) \/ PlaceOf(log, j) < PlaceOf(log, i)
    BY <1>2, <2>1, PlaceMonotone
  <2>. QED BY <2>2, <2>3
<1>3. f \in Injection(DOMAIN log, DOMAIN log)
  BY <1>2, PlaceRange DEF Injection, IsInjective
<1>4. IsFiniteSet(DOMAIN log)
  BY <1>1, FS_Interval
<1>5. f \in Surjection(DOMAIN log, DOMAIN log)
  BY <1>3, <1>4, FS_Injection
<1>6. \A k \in DOMAIN log : \E i \in DOMAIN log : f[i] = k
  BY <1>5 DEF Surjection
<1>. QED BY <1>2, <1>6

\* OrderBySeq keeps the entries of a log, each once, and puts them in the order of
\* their numbers; entries with the same number stay in the order they had.  It is what
\* ORDER BY seq, and Python's sorted, return.
THEOREM OrderBySeqSorts ==
    ASSUME NEW log, HasNumbers(log)
    PROVE  /\ IsSeq(OrderBySeq(log)) /\ Len(OrderBySeq(log)) = Len(log)
           /\ \A k \in DOMAIN log : \E i \in DOMAIN log : OrderBySeq(log)[k] = log[i]
           /\ \A i \in DOMAIN log : /\ PlaceOf(log, i) \in DOMAIN log
                                    /\ OrderBySeq(log)[PlaceOf(log, i)] = log[i]
           /\ \A i, j \in DOMAIN log :
                 PlaceOf(log, i) < PlaceOf(log, j) <=> i # j /\ NotAfter(log, i, j)
           /\ \A k, m \in DOMAIN log :
                 k <= m => OrderBySeq(log)[k].seq <= OrderBySeq(log)[m].seq
<1>. DEFINE o == OrderBySeq(log)
            At(k) == CHOOSE i \in DOMAIN log : PlaceOf(log, i) = k
<1>1. DOMAIN log = 1..Len(log) /\ Len(log) \in Nat
  BY SeqDomain DEF HasNumbers
<1>2. o = [k \in DOMAIN log |-> log[At(k)]]
  <2>1. Cardinality(DOMAIN log) = Len(log)
    BY <1>1, IntervalSize
  <2>. QED BY <1>1, <2>1 DEF OrderBySeq, SortedBySeq, PlaceOf, UpTo, NotAfter
<1>3. \A k \in DOMAIN log : At(k) \in DOMAIN log /\ PlaceOf(log, At(k)) = k
  BY PlaceBijective
<1>. HIDE DEF At, o
<1>4. \A k \in DOMAIN log : o[k] = log[At(k)]
  BY <1>2
<1>5. IsSeq(o) /\ Len(o) = Len(log)
  <2>1. o = [k \in 1..Len(log) |-> o[k]]
    BY <1>1, <1>2
  <2>. QED BY <1>1, <2>1, FunctionIsSequence
<1>6. ASSUME NEW i \in DOMAIN log
      PROVE  PlaceOf(log, i) \in DOMAIN log /\ o[PlaceOf(log, i)] = log[i]
  <2>1. PlaceOf(log, i) \in DOMAIN log
    BY PlaceRange
  <2>2. At(PlaceOf(log, i)) = i
    BY <1>3, <2>1, PlaceBijective
  <2>. QED BY <1>4, <2>1, <2>2
<1>7. ASSUME NEW i \in DOMAIN log, NEW j \in DOMAIN log
      PROVE  PlaceOf(log, i) < PlaceOf(log, j) <=> i # j /\ NotAfter(log, i, j)
  <2>1. PlaceOf(log, i) \in Nat /\ PlaceOf(log, j) \in Nat
    BY <1>1, <1>6
  <2>2. CASE i = j
    BY <2>1, <2>2
  <2>3. CASE i # j
    <3>1. NotAfter(log, i, j) \/ NotAfter(log, j, i)
      BY <1>1 DEF NotAfter, HasNumbers
    <3>. QED BY <2>1, <2>3, <3>1, PlaceMonotone
  <2>. QED BY <2>2, <2>3
<1>8. ASSUME NEW k \in DOMAIN log, NEW m \in DOMAIN log, k <= m
      PROVE  o[k].seq <= o[m].seq
  <2>1. /\ At(k) \in DOMAIN log /\ PlaceOf(log, At(k)) = k /\ o[k] = log[At(k)]
        /\ At(m) \in DOMAIN log /\ PlaceOf(log, At(m)) = m /\ o[m] = log[At(m)]
    BY <1>3, <1>4
  <2>2. CASE k = m
    BY <2>1, <2>2 DEF HasNumbers
  <2>3. CASE k # m
    <3>1. k < m
      BY <1>1, <1>8, <2>3
    <3>2. NotAfter(log, At(k), At(m))
      BY <1>7, <2>1, <3>1
    <3>. QED BY <2>1, <3>2 DEF NotAfter, HasNumbers
  <2>. QED BY <2>2, <2>3
<1>. QED BY <1>3, <1>4, <1>5, <1>6, <1>7, <1>8 DEF o

\* Entries after the m-th that are numbered from 1 come out in the order they have.
LEMMA SortedSuffix ==
    ASSUME NEW log, NEW n \in Nat, NEW m \in 0..n,
           \A i \in (m + 1)..n : log[i].seq = i - m
    PROVE  SortedBySeq(log, (m + 1)..n) = [k \in 1..(n - m) |-> log[m + k]]
<1>. DEFINE places == (m + 1)..n
            Place(i) == Cardinality({j \in places : \/ log[j].seq < log[i].seq
                                                    \/ log[j].seq = log[i].seq /\ j <= i})
            At(k) == CHOOSE i \in places : Place(i) = k
<1>1. Cardinality(places) = n - m
  BY IntervalSize
<1>2. ASSUME NEW i \in places PROVE Place(i) = i - m
  <2>1. {j \in places : \/ log[j].seq < log[i].seq
                        \/ log[j].seq = log[i].seq /\ j <= i} = (m + 1)..i
    OBVIOUS
  <2>2. Cardinality((m + 1)..i) = i - m
    BY IntervalSize
  <2>. QED BY <2>1, <2>2
<1>. HIDE DEF Place
<1>3. ASSUME NEW k \in 1..(n - m) PROVE At(k) = m + k
  <2>1. m + k \in places /\ Place(m + k) = k
    BY <1>2
  <2>2. \A i \in places : Place(i) = k => i = m + k
    BY <1>2
  <2>. QED BY <2>1, <2>2
<1>4. SortedBySeq(log, places) = [k \in 1..Cardinality(places) |-> log[At(k)]]
  BY DEF SortedBySeq, Place
<1>. QED BY <1>1, <1>3, <1>4

\* A log that is numbered from 1 is sorted.
LEMMA NumberedIsSorted ==
    ASSUME NEW log, IsSeq(log), Numbered(log)
    PROVE  OrderBySeq(log) = log
<1>1. DOMAIN log = 1..Len(log) /\ Len(log) \in Nat
  BY SeqDomain
<1>2. SortedBySeq(log, (0 + 1)..Len(log)) = [k \in 1..(Len(log) - 0) |-> log[0 + k]]
  <2>1. \A i \in (0 + 1)..Len(log) : log[i].seq = i - 0
    BY <1>1 DEF Numbered
  <2>2. 0 \in 0..Len(log)
    BY <1>1
  <2>. QED BY <1>1, <2>1, <2>2, SortedSuffix
<1>3. log = [k \in 1..Len(log) |-> log[k]]
  BY <1>1 DEF IsSeq
<1>. QED BY <1>1, <1>2, <1>3 DEF OrderBySeq

-----------------------------------------------------------------------------
(* Ledgers as values.                                                      *)

IsLedger(l) ==
    l = [sid |-> l.sid, next |-> l.next, tip |-> l.tip, rows |-> l.rows] /\ IsSeq(l.rows)

LEMMA LedgerIsPresent == ASSUME NEW l, IsLedger(l) PROVE l # NoLedger
<1>1. "sid" \in DOMAIN l
  BY DEF IsLedger
<1>2. "sid" \notin DOMAIN NoLedger
  BY DEF NoLedger
<1>. QED BY <1>1, <1>2

LEMMA NewLedgerIsLedger ==
    ASSUME NEW sid
    PROVE  IsLedger(NewLedger(sid)) /\ NewLedger(sid).sid = sid /\ NewLedger(sid).rows = <<>>
BY DEF IsLedger, NewLedger, IsSeq

\* What __write_event leaves.
LEMMA StoredForm ==
    ASSUME NEW l, IsLedger(l), NEW type, NEW body,
           NEW e, e = BuildEvent(l.next, type, l.sid, Payload(body), l.tip, NoKey)
    PROVE  Stored(l, type, body)
             = [sid |-> l.sid, next |-> l.next + 1, tip |-> e.hash, rows |-> Append(l.rows, e)]
<1>1. Stored(l, type, body) = [l EXCEPT !.rows = Append(@, e), !.next = @ + 1, !.tip = e.hash]
  BY DEF Stored
<1>. QED BY ONLY <1>1, IsLedger(l) DEF IsLedger

\* What open_session leaves.
LEMMA OpenedForm ==
    ASSUME NEW l, IsLedger(l), NEW sid, NEW body,
           NEW e, e = BuildEvent(1, "SESSION_START", sid, Payload(Declared(body)), Genesis, NoKey)
    PROVE  Opened(l, sid, body)
             = [sid |-> sid, next |-> 2, tip |-> e.hash, rows |-> Append(l.rows, e)]
<1>. PICK p : p = [l EXCEPT !.sid = sid, !.next = 1, !.tip = Genesis]
  OBVIOUS
<1>1. p = [sid |-> sid, next |-> 1, tip |-> Genesis, rows |-> l.rows]
  BY DEF IsLedger
<1>2. IsLedger(p) /\ p.sid = sid /\ p.next = 1 /\ p.tip = Genesis /\ p.rows = l.rows
  BY <1>1 DEF IsLedger
<1>3. Stored(p, "SESSION_START", Declared(body))
        = [sid |-> p.sid, next |-> p.next + 1, tip |-> e.hash, rows |-> Append(p.rows, e)]
  BY ONLY <1>2, StoredForm, e = BuildEvent(1, "SESSION_START", sid, Payload(Declared(body)), Genesis, NoKey)
<1>4. Opened(l, sid, body) = Stored(p, "SESSION_START", Declared(body))
  BY DEF Opened
<1>. QED BY <1>2, <1>3, <1>4

-----------------------------------------------------------------------------
(* A session that was opened once.                                         *)

\* What a SESSION_START of these callers says: RFC 8785, no public key.
IsStart(body) == Has(body, "canon") /\ body.canon = Rfc8785 /\ ~Has(body, "pubkey")

\* The n-th event of session sid, after an event with hash prev.
IsRow(e, n, sid, prev) ==
    /\ e = BuildEvent(n, e.type, sid, Payload(e.payload.body), prev, NoKey)
    /\ n = 1 => e.type = "SESSION_START" /\ IsStart(e.payload.body)
    /\ n # 1 => e.type \in {"ACTION", "SESSION_END"}

\* The events after the m-th are those of session sid.
IsSession(log, m, sid) ==
    /\ IsSeq(log) /\ m \in 0..Len(log)
    /\ \A i \in 1..m : log[i].session # sid
    /\ \A i \in (m + 1)..Len(log) :
          IsRow(log[i], i - m, sid, IF i = m + 1 THEN Genesis ELSE log[i - 1].hash)

\* Ledger l holds a session that was opened after m rows of others, and knows its tip.
Recording(l, m) ==
    /\ IsLedger(l)
    /\ IsSession(l.rows, m, l.sid) /\ m < Len(l.rows)
    /\ l.next = Len(l.rows) - m + 1 /\ l.tip = l.rows[Len(l.rows)].hash

LEMMA RowFields ==
    ASSUME NEW e, NEW n, NEW sid, NEW prev, IsRow(e, n, sid, prev)
    PROVE  /\ e.seq = n /\ e.session = sid /\ e.prev = prev /\ e.hash = Digest(e)
           /\ e.sig = NoSig /\ IsEvent(e) /\ e.payload.token = NoToken
BY DEF IsRow, BuildEvent, Digest, Signature, IsEvent, Torn, Payload

LEMMA NewRow ==
    ASSUME NEW n, NEW type, NEW sid, NEW body, NEW prev,
           n = 1 => type = "SESSION_START" /\ IsStart(body),
           n # 1 => type \in {"ACTION", "SESSION_END"}
    PROVE  IsRow(BuildEvent(n, type, sid, Payload(body), prev, NoKey), n, sid, prev)
BY DEF IsRow, BuildEvent, Payload

\* open_session on a database with other sessions' rows begins a session.
LEMMA OpenedRecords ==
    ASSUME NEW l, IsLedger(l),
           NEW sid, \A i \in DOMAIN l.rows : l.rows[i].session # sid,
           NEW body, ~Has(body, "pubkey")
    PROVE  /\ Recording(Opened(l, sid, body), Len(l.rows))
           /\ Opened(l, sid, body).sid = sid
           /\ Opened(l, sid, body).rows = Append(l.rows, BuildEvent(1, "SESSION_START", sid, Payload(Declared(body)), Genesis, NoKey))
<1>1. PICK e : e = BuildEvent(1, "SESSION_START", sid, Payload(Declared(body)), Genesis, NoKey)
  OBVIOUS
<1>2. PICK o : o = Opened(l, sid, body)
  OBVIOUS
<1>3. o = [sid |-> sid, next |-> 2, tip |-> e.hash, rows |-> Append(l.rows, e)]
  BY <1>1, <1>2, OpenedForm
<1>4. IsRow(e, 1, sid, Genesis)
  <2>1. IsStart(Declared(body))
    BY DEF IsStart, Declared, Has
  <2>. QED BY <1>1, <2>1, NewRow
<1>5. /\ IsSeq(o.rows) /\ Len(o.rows) = Len(l.rows) + 1 /\ Len(l.rows) \in Nat
      /\ \A i \in 1..Len(l.rows) : o.rows[i] = l.rows[i]
      /\ o.rows[Len(l.rows) + 1] = e
  BY <1>3, Appending, SeqDomain DEF IsLedger
<1>6. IsSession(o.rows, Len(l.rows), sid)
  BY <1>4, <1>5, SeqDomain DEF IsSession
<1>. QED BY <1>1, <1>2, <1>3, <1>5, <1>6 DEF Recording, IsLedger

\* Another event of the session.
LEMMA StoredRecords ==
    ASSUME NEW l, NEW m, Recording(l, m), NEW type \in {"ACTION", "SESSION_END"}, NEW body
    PROVE  /\ Recording(Stored(l, type, body), m)
           /\ Stored(l, type, body).sid = l.sid
           /\ Stored(l, type, body).rows =
                Append(l.rows, BuildEvent(l.next, type, l.sid, Payload(body), l.tip, NoKey))
<1>1. PICK e : e = BuildEvent(l.next, type, l.sid, Payload(body), l.tip, NoKey)
  OBVIOUS
<1>2. PICK o : o = Stored(l, type, body)
  OBVIOUS
<1>3. o = [sid |-> l.sid, next |-> l.next + 1, tip |-> e.hash, rows |-> Append(l.rows, e)]
  BY <1>1, <1>2, StoredForm DEF Recording
<1>4. /\ IsSeq(l.rows) /\ m \in 0..Len(l.rows) /\ m < Len(l.rows) /\ Len(l.rows) \in Nat
      /\ l.next = Len(l.rows) - m + 1 /\ l.tip = l.rows[Len(l.rows)].hash
  BY SeqDomain DEF Recording, IsSession
<1>5. /\ IsSeq(o.rows) /\ Len(o.rows) = Len(l.rows) + 1
      /\ \A i \in 1..Len(l.rows) : o.rows[i] = l.rows[i]
      /\ o.rows[Len(l.rows) + 1] = e
  BY <1>3, <1>4, Appending
<1>6. IsRow(e, l.next, l.sid, l.tip)
  <2>1. l.next # 1
    BY <1>4
  <2>. QED BY <1>1, <2>1, NewRow
<1>7. IsSession(o.rows, m, l.sid)
  <2>1. ASSUME NEW i \in (m + 1)..Len(o.rows)
        PROVE  IsRow(o.rows[i], i - m, l.sid, IF i = m + 1 THEN Genesis ELSE o.rows[i - 1].hash)
    <3>1. CASE i = Len(l.rows) + 1
      BY <1>4, <1>5, <1>6, <3>1
    <3>2. CASE i # Len(l.rows) + 1
      <4>1. i \in (m + 1)..Len(l.rows) /\ o.rows[i] = l.rows[i]
        BY <1>4, <1>5, <3>2
      <4>2. i # m + 1 => o.rows[i - 1] = l.rows[i - 1]
        BY <1>4, <1>5, <4>1
      <4>3. IsRow(l.rows[i], i - m, l.sid, IF i = m + 1 THEN Genesis ELSE l.rows[i - 1].hash)
        BY <4>1 DEF Recording, IsSession
      <4>. QED BY <4>1, <4>2, <4>3
    <3>. QED BY <3>1, <3>2
  <2>2. ASSUME NEW i \in 1..m PROVE o.rows[i].session # l.sid
    BY <1>4, <1>5 DEF Recording, IsSession
  <2>3. m \in 0..Len(o.rows)
    BY <1>4, <1>5
  <2>. QED BY <1>5, <2>1, <2>2, <2>3 DEF IsSession
<1>8. o.next = Len(o.rows) - m + 1 /\ o.tip = o.rows[Len(o.rows)].hash
  BY <1>3, <1>4, <1>5
<1>. QED BY <1>1, <1>2, <1>3, <1>4, <1>5, <1>7, <1>8 DEF Recording, IsLedger

\* export_jsonl returns the session, without the rows of others.
LEMMA ExportedSession ==
    ASSUME NEW l, NEW m, IsSession(l.rows, m, l.sid)
    PROVE  /\ Exported(l) = [k \in 1..(Len(l.rows) - m) |-> l.rows[m + k]]
           /\ IsSession(Exported(l), 0, l.sid) /\ Len(Exported(l)) = Len(l.rows) - m
<1>. DEFINE rows == l.rows
            n == Len(l.rows)
            lines == [k \in 1..(n - m) |-> rows[m + k]]
<1>1. IsSeq(rows) /\ n \in Nat /\ DOMAIN rows = 1..n /\ m \in 0..n
  BY SeqDomain DEF IsSession
<1>2. \A i \in (m + 1)..n : IsRow(rows[i], i - m, l.sid, IF i = m + 1 THEN Genesis ELSE rows[i - 1].hash)
  BY DEF IsSession
<1>3. \A i \in (m + 1)..n : rows[i].seq = i - m /\ rows[i].session = l.sid
  BY <1>2, RowFields
<1>4. \A i \in 1..m : rows[i].session # l.sid
  BY DEF IsSession
<1>5. {i \in DOMAIN rows : rows[i].session = l.sid} = (m + 1)..n
  BY <1>1, <1>3, <1>4
<1>. HIDE DEF n, rows
<1>6. SortedBySeq(rows, (m + 1)..n) = [k \in 1..(n - m) |-> rows[m + k]]
  BY <1>1, <1>3, SortedSuffix
<1>7. Exported(l) = lines
  BY <1>5, <1>6 DEF Exported, rows
<1>8. IsSeq(lines) /\ Len(lines) = n - m
  <2>1. lines = [k \in 1..(n - m) |-> lines[k]] /\ n - m \in Nat
    BY <1>1
  <2>. QED BY <2>1, FunctionIsSequence
<1>9. ASSUME NEW k \in 1..(n - m)
      PROVE  IsRow(lines[k], k - 0, l.sid, IF k = 0 + 1 THEN Genesis ELSE lines[k - 1].hash)
  <2>. PICK i : i = m + k
    OBVIOUS
  <2>1. i \in (m + 1)..n /\ i - m = k /\ (i = m + 1 <=> k = 1) /\ k - 0 = k /\ 0 + 1 = 1
    BY <1>1
  <2>2. lines[k] = rows[i] /\ (k # 1 => lines[k - 1] = rows[i - 1])
    BY <1>1
  <2>3. IsRow(rows[i], i - m, l.sid, IF i = m + 1 THEN Genesis ELSE rows[i - 1].hash)
    BY <1>2, <2>1
  <2>. QED BY <2>1, <2>2, <2>3
<1>10. IsSession(lines, 0, l.sid)
  BY <1>1, <1>8, <1>9 DEF IsSession
<1>. QED BY <1>7, <1>8, <1>10 DEF n, rows

\* A file without an end or a seal is no evidence.
LEMMA OpenEnded ==
    ASSUME NEW lines, NEW pin, NEW requireSeal,
           Of(lines, "SESSION_END") \cup Of(lines, "CHAIN_SEAL") = {}
    PROVE  /\ PythonVerify(lines, pin, requireSeal).class = "NO_EVIDENCE"
           /\ PythonVerify(lines, pin, requireSeal).status \in {"ERROR", "COMPROMISED"}
<1>1. ~Completeness(lines)
  BY DEF Completeness
<1>2. /\ NoVerdict.class = "NO_EVIDENCE" /\ NoVerdict.status = "ERROR"
      /\ \A r, t : /\ Verdict("COMPROMISED", "NO_EVIDENCE", r, t).class = "NO_EVIDENCE"
                   /\ Verdict("COMPROMISED", "NO_EVIDENCE", r, t).status = "COMPROMISED"
  BY DEF NoVerdict, Verdict
<1>. QED BY <1>1, <1>2 DEF PythonVerify

\* A session that was opened once and ended passes the Python verifier as complete; one that
\* was not ended is refused.  Events after the end do not matter.
LEMMA SessionVerdict ==
    ASSUME NEW lines, NEW sid, IsSession(lines, 0, sid), Len(lines) # 0
    PROVE  PythonVerify(lines, NoPin, FALSE).status
             = IF Of(lines, "SESSION_END") = {} THEN "COMPROMISED" ELSE "INTACT"
<1>1. IsSeq(lines) /\ Len(lines) \in Nat /\ DOMAIN lines = 1..Len(lines) /\ 1 \in DOMAIN lines
  BY SeqDomain DEF IsSession
<1>2. ASSUME NEW i \in DOMAIN lines
      PROVE  IsRow(lines[i], i, sid, IF i = 1 THEN Genesis ELSE lines[i - 1].hash)
  BY <1>1 DEF IsSession
<1>3. ASSUME NEW i \in DOMAIN lines
      PROVE  /\ lines[i].seq = i /\ lines[i].session = sid /\ lines[i].hash = Digest(lines[i])
             /\ lines[i].prev = IF i = 1 THEN Genesis ELSE lines[i - 1].hash
             /\ lines[i].sig = NoSig /\ IsEvent(lines[i])
             /\ i # 1 => lines[i].type \in {"ACTION", "SESSION_END"}
  BY <1>2, RowFields DEF IsRow
<1>4. lines[1].type = "SESSION_START" /\ IsStart(lines[1].payload.body)
  BY <1>1, <1>2 DEF IsRow
<1>5. /\ Of(lines, "SESSION_START") = {1} /\ Of(lines, "CHAIN_SEAL") = {}
      /\ Of(lines, "LOG_DROP") = {}
  BY <1>1, <1>3, <1>4 DEF Of
<1>6. OrderBySeq(lines) = lines
  BY <1>1, <1>3, NumberedIsSorted DEF Numbered
<1>7. SelectCanonicalization(lines) = Rfc8785
  <2>1. FirstStart(lines) = 1
    BY <1>5 DEF FirstStart
  <2>. QED BY <1>4, <1>5, <2>1 DEF SelectCanonicalization, IsStart
<1>8. Structural(lines)
  BY <1>1, <1>3, <1>4 DEF Structural, EventTypes, SdkTypes
<1>9. Sequence(lines)
  BY <1>3, <1>6 DEF Sequence, Numbered
<1>10. HashChain(lines, Rfc8785)
  BY <1>3 DEF HashChain, ComputeEventHash
<1>11. Completeness(lines) <=> Of(lines, "SESSION_END") # {}
  <2>1. Cardinality(Of(lines, "SESSION_START")) = 1
    BY <1>5, FS_Singleton
  <2>. QED BY <1>4, <1>5, <1>6, <2>1 DEF Completeness
<1>12. SealSignature(lines, NoPin, FALSE)
  BY <1>5 DEF SealSignature, SealIsOptional
<1>13. SignatureCheck(lines, FileStart(lines)).valid
  <2>1. FileStart(lines) = 1
    BY <1>5 DEF FileStart
  <2>2. SignatureCheck(lines, 1) = [valid |-> TRUE, all |-> FALSE]
    BY <1>4, <1>5 DEF SignatureCheck, SessionSignatures, IsStart
  <2>. QED BY <2>1, <2>2
<1>14. lines # <<>> /\ ~(\E i \in DOMAIN lines : ~IsEvent(lines[i])) /\ Rfc8785 # Unsupported
  BY <1>1, <1>3 DEF Rfc8785, Unsupported
<1>15. ASSUME NEW status, NEW class, NEW root, NEW timestamp
       PROVE  Verdict(status, class, root, timestamp).status = status
  BY DEF Verdict
<1>. QED BY <1>5, <1>6, <1>7, <1>8, <1>9, <1>10, <1>11, <1>12, <1>13, <1>14, <1>15 DEF PythonVerify

\* The session in ledger l has an end.
Ended(l, m) == \E i \in (m + 1)..Len(l.rows) : l.rows[i].type = "SESSION_END"

LEMMA StoredEnds ==
    ASSUME NEW l, NEW m, Recording(l, m), NEW type \in {"ACTION", "SESSION_END"}, NEW body,
           type = "SESSION_END" \/ Ended(l, m)
    PROVE  Ended(Stored(l, type, body), m)
<1>1. PICK e : e = BuildEvent(l.next, type, l.sid, Payload(body), l.tip, NoKey)
  OBVIOUS
<1>2. PICK r : r = Stored(l, type, body).rows
  OBVIOUS
<1>3. IsSeq(l.rows) /\ m \in 0..Len(l.rows) /\ Len(l.rows) \in Nat
  BY SeqDomain DEF Recording, IsSession
<1>4. r = Append(l.rows, e)
  BY <1>1, <1>2, StoredRecords
<1>5. /\ Len(r) = Len(l.rows) + 1 /\ r[Len(l.rows) + 1] = e
      /\ \A i \in 1..Len(l.rows) : r[i] = l.rows[i]
  BY <1>3, <1>4, Appending
<1>6. e.type = type
  BY <1>1 DEF BuildEvent
<1>7. \E i \in (m + 1)..Len(r) : r[i].type = "SESSION_END"
  <2>1. CASE type = "SESSION_END"
    <3>1. Len(l.rows) + 1 \in (m + 1)..Len(r)
      BY <1>3, <1>5
    <3>. QED BY <1>5, <1>6, <2>1, <3>1
  <2>2. CASE Ended(l, m)
    <3>1. PICK i \in (m + 1)..Len(l.rows) : l.rows[i].type = "SESSION_END"
      BY <2>2 DEF Ended
    <3>2. i \in (m + 1)..Len(r) /\ r[i] = l.rows[i]
      BY <1>3, <1>5
    <3>. QED BY <3>1, <3>2
  <2>. QED BY <2>1, <2>2
<1>. QED BY <1>2, <1>7 DEF Ended

\* The file of a session that was opened once and ended is INTACT.
LEMMA EndedVerifies ==
    ASSUME NEW l, NEW m, Recording(l, m), Ended(l, m)
    PROVE  PythonVerify(Exported(l), NoPin, FALSE).status = "INTACT"
<1>1. IsSession(l.rows, m, l.sid) /\ m \in 0..Len(l.rows) /\ Len(l.rows) \in Nat /\ m < Len(l.rows)
  BY SeqDomain DEF Recording, IsSession
<1>2. PICK lines : lines = Exported(l)
  OBVIOUS
<1>3. /\ lines = [k \in 1..(Len(l.rows) - m) |-> l.rows[m + k]]
      /\ IsSession(lines, 0, l.sid) /\ Len(lines) = Len(l.rows) - m
  BY <1>1, <1>2, ExportedSession
<1>4. PICK i \in (m + 1)..Len(l.rows) : l.rows[i].type = "SESSION_END"
  BY DEF Ended
<1>5. Of(lines, "SESSION_END") # {}
  <2>. PICK k : k = i - m
    OBVIOUS
  <2>1. k \in 1..(Len(l.rows) - m) /\ i = m + k /\ Len(l.rows) - m \in Nat
    BY <1>1
  <2>2. k \in DOMAIN lines /\ lines[k] = l.rows[i]
    BY <1>3, <2>1
  <2>3. lines[k].type = "SESSION_END"
    BY <1>4, <2>2
  <2>. QED BY <2>2, <2>3 DEF Of
<1>6. Len(lines) # 0
  BY <1>1, <1>3
<1>7. PythonVerify(lines, NoPin, FALSE).status = "INTACT"
  BY <1>3, <1>5, <1>6, SessionVerdict
<1>. QED BY <1>2, <1>7

-----------------------------------------------------------------------------
(* What the root hash of a file fixes.                                     *)

\* A file that the Python verifier passes, with the key pin or without one.
Passes(s, pin, requireSeal) ==
    PythonVerify(s, pin, requireSeal).status \in {"INTACT", "PARTIAL"}

\* Everything of an event that its hash covers.
SameContent(e, f) ==
    /\ e.seq = f.seq /\ e.type = f.type /\ e.session = f.session
    /\ e.payload = f.payload /\ e.prev = f.prev /\ e.hash = f.hash

Canonicalizations == {Rfc8785, Legacy}

LEMMA PassedFile ==
    ASSUME NEW s, HasNumbers(s), NEW pin, NEW requireSeal, Passes(s, pin, requireSeal)
    PROVE  LET o == OrderBySeq(s)
           IN  /\ Len(o) \in Nat \ {0} /\ DOMAIN o = 1..Len(o) /\ Len(o) = Len(s)
               /\ Numbered(o) /\ (\E canon \in Canonicalizations : HashChain(o, canon))
               /\ PythonVerify(s, pin, requireSeal).root = o[Len(o)].hash
<1>. PICK o : o = OrderBySeq(s)
  OBVIOUS
<1>. PICK canon : canon = SelectCanonicalization(s)
  OBVIOUS
<1>1. /\ NoVerdict.status = "ERROR"
      /\ \A status, class, root, timestamp :
            /\ Verdict(status, class, root, timestamp).status = status
            /\ Verdict(status, class, root, timestamp).root = root
  BY DEF NoVerdict, Verdict
<1>2. /\ s # <<>> /\ canon # Unsupported /\ Sequence(s) /\ HashChain(o, canon)
      /\ PythonVerify(s, pin, requireSeal).root = o[Len(o)].hash
  BY <1>1 DEF PythonVerify, Passes
<1>3. canon \in Canonicalizations
  BY <1>2 DEF SelectCanonicalization, Canonicalizations
<1>4. IsSeq(o) /\ Len(o) = Len(s)
  BY OrderBySeqSorts
<1>5. IsSeq(s) /\ Len(s) \in Nat /\ Len(s) # 0
  BY <1>2, SeqDomain DEF HasNumbers, IsSeq
<1>6. DOMAIN o = 1..Len(o)
  BY <1>4, SeqDomain
<1>7. Numbered(o)
  BY <1>2 DEF Sequence
<1>. QED BY <1>2, <1>3, <1>4, <1>5, <1>6, <1>7

\* Equal hashes are of equal events, also under different canonicalizations.
LEMMA HashFixesEvent ==
    ASSUME NEW e, NEW f, NEW c \in Canonicalizations, NEW d \in Canonicalizations,
           e.hash = ComputeEventHash(e, c), f.hash = ComputeEventHash(f, d), e.hash = f.hash
    PROVE  SameContent(e, f)
<1>1. Len(Digest(e)) = 5 /\ Len(Digest(f)) = 5
  BY DEF Digest
<1>2. Len(<<Legacy, Digest(e)>>) = 2 /\ Len(<<Legacy, Digest(f)>>) = 2
  OBVIOUS
<1>3. Rfc8785 # Legacy
  BY DEF Rfc8785, Legacy
<1>4. Digest(e) = Digest(f)
  BY <1>1, <1>2, <1>3 DEF ComputeEventHash, Canonicalizations
<1>. QED BY <1>4 DEF Digest, SameContent

\* The root hash that the Python verifier reports commits to the whole file: two files
\* that pass with the same root hash, whatever keys are pinned, have the same events in
\* order of their numbers, down to everything but signatures (verify, checks 2 to 4).  An
\* event cannot be missing, added, moved or changed while the hash of the last stays.
THEOREM RootFixesFile ==
    ASSUME NEW s, HasNumbers(s), NEW t, HasNumbers(t),
           NEW pinS, NEW sealS, Passes(s, pinS, sealS),
           NEW pinT, NEW sealT, Passes(t, pinT, sealT),
           PythonVerify(s, pinS, sealS).root = PythonVerify(t, pinT, sealT).root
    PROVE  /\ Len(s) = Len(t)
           /\ \A i \in 1..Len(s) : SameContent(OrderBySeq(s)[i], OrderBySeq(t)[i])
<1>. PICK o, p : o = OrderBySeq(s) /\ p = OrderBySeq(t)
  OBVIOUS
<1>. PICK n : n = Len(o)
  OBVIOUS
<1>1. /\ n \in Nat \ {0} /\ DOMAIN o = 1..n /\ n = Len(s) /\ Numbered(o)
      /\ \E canon \in Canonicalizations : HashChain(o, canon)
      /\ PythonVerify(s, pinS, sealS).root = o[n].hash
  BY PassedFile
<1>2. /\ Len(p) \in Nat \ {0} /\ DOMAIN p = 1..Len(p) /\ Len(p) = Len(t) /\ Numbered(p)
      /\ \E canon \in Canonicalizations : HashChain(p, canon)
      /\ PythonVerify(t, pinT, sealT).root = p[Len(p)].hash
  BY PassedFile
<1>3. PICK c \in Canonicalizations, d \in Canonicalizations : HashChain(o, c) /\ HashChain(p, d)
  BY <1>1, <1>2
<1>4. ASSUME NEW i \in DOMAIN o, NEW j \in DOMAIN p, o[i].hash = p[j].hash
      PROVE  SameContent(o[i], p[j])
  <2>1. o[i].hash = ComputeEventHash(o[i], c) /\ p[j].hash = ComputeEventHash(p[j], d)
    BY <1>3 DEF HashChain
  <2>. QED BY <1>4, <2>1, HashFixesEvent
<1>5. Len(p) = n /\ o[n].hash = p[n].hash
  <2>1. n \in DOMAIN o /\ Len(p) \in DOMAIN p /\ o[n].hash = p[Len(p)].hash
    <3>1. o[n].hash = p[Len(p)].hash
      BY ONLY <1>1, <1>2, PythonVerify(s, pinS, sealS).root = PythonVerify(t, pinT, sealT).root
    <3>. QED BY <1>1, <1>2, <3>1
  <2>2. SameContent(o[n], p[Len(p)])
    BY ONLY <1>4, <2>1
  <2>3. o[n].seq = n /\ p[Len(p)].seq = Len(p)
    BY <1>1, <1>2, <2>1 DEF Numbered
  <2>4. Len(p) = n
    BY ONLY <2>2, <2>3 DEF SameContent
  <2>. QED BY <2>1, <2>4
<1>. PICK B : B = {i \in 1..n : o[i].hash # p[i].hash}
  OBVIOUS
<1>6. B = {}
  <2>. SUFFICES ASSUME B # {} PROVE FALSE
    OBVIOUS
  <2>1. PICK m \in B : \A k \in B : k <= m
    BY <1>1, GreatestElement
  <2>2. m \in 1..n /\ o[m].hash # p[m].hash /\ m # n
    BY <1>5
  <2>3. m + 1 \in 1..n /\ m + 1 \notin B
    BY <1>1, <2>1, <2>2
  <2>4. o[m + 1].prev = p[m + 1].prev
    BY <1>1, <1>2, <1>4, <1>5, <2>3 DEF SameContent
  <2>5. o[m + 1].prev = o[m].hash /\ p[m + 1].prev = p[m].hash
    <3>1. m + 1 # 1 /\ (m + 1) - 1 = m /\ m + 1 \in DOMAIN o /\ m + 1 \in DOMAIN p
      BY <1>1, <1>2, <1>5, <2>2, <2>3
    <3>. QED BY <1>3, <3>1 DEF HashChain
  <2>. QED BY <2>2, <2>4, <2>5
<1>. QED BY <1>1, <1>2, <1>4, <1>5, <1>6

-----------------------------------------------------------------------------
(* A database in which a session may be opened again.                      *)

\* Rows of one session id.
IsLogOf(log, sid) ==
    IsSeq(log) /\ \A i \in DOMAIN log : log[i].session = sid /\ log[i].seq \in Nat

HasStart(log) == \E i \in DOMAIN log : log[i].type = "SESSION_START"

\* What open_session finds.
EmptyOrStarted(log) == log = <<>> \/ HasStart(log)

StartsTwice(log) ==
    \E i, j \in DOMAIN log :
       i # j /\ log[i].type = "SESSION_START" /\ log[j].type = "SESSION_START"

\* Ledger l writes to the database of its session id, and it is the session that was
\* opened once or one of several.
Tracking(l) ==
    /\ IsLedger(l) /\ IsLogOf(l.rows, l.sid) /\ HasStart(l.rows) /\ l.next \in Nat
    /\ StartsTwice(l.rows) \/ Recording(l, 0)

\* The session in ledger l has an end, if it is one.
EndsIfOne(l) == StartsTwice(l.rows) \/ Ended(l, 0)

\* Whatever a file holds, it verifies unless sessions were mixed up in it.
VerifiesIfOne(lines) ==
    lines # <<>> /\ Cardinality(Of(lines, "SESSION_START")) <= 1 =>
       PythonVerify(lines, NoPin, FALSE).status = "INTACT"

LEMMA LogAppended ==
    ASSUME NEW log, NEW sid, IsLogOf(log, sid), NEW e, e.session = sid, e.seq \in Nat
    PROVE  /\ IsLogOf(Append(log, e), sid)
           /\ HasStart(log) => HasStart(Append(log, e))
           /\ StartsTwice(log) => StartsTwice(Append(log, e))
           /\ e.type = "SESSION_START" => HasStart(Append(log, e))
           /\ e.type = "SESSION_START" /\ HasStart(log) => StartsTwice(Append(log, e))
<1>. PICK r : r = Append(log, e)
  OBVIOUS
<1>1. /\ IsSeq(r) /\ Len(r) = Len(log) + 1 /\ r[Len(log) + 1] = e
      /\ \A i \in 1..Len(log) : r[i] = log[i]
  BY Appending DEF IsLogOf
<1>2. DOMAIN r = 1..(Len(log) + 1) /\ DOMAIN log = 1..Len(log) /\ Len(log) \in Nat
  BY <1>1, SeqDomain DEF IsLogOf
<1>3. IsLogOf(r, sid)
  BY <1>1, <1>2 DEF IsLogOf
<1>4. HasStart(log) => HasStart(r)
  BY <1>1, <1>2 DEF HasStart
<1>5. StartsTwice(log) => StartsTwice(r)
  BY <1>1, <1>2 DEF StartsTwice
<1>6. e.type = "SESSION_START" => HasStart(r)
  BY <1>1, <1>2 DEF HasStart
<1>7. e.type = "SESSION_START" /\ HasStart(log) => StartsTwice(r)
  <2>. SUFFICES ASSUME e.type = "SESSION_START", NEW i \in DOMAIN log, log[i].type = "SESSION_START"
                PROVE  StartsTwice(r)
    BY DEF HasStart
  <2>1. i \in DOMAIN r /\ Len(log) + 1 \in DOMAIN r /\ i # Len(log) + 1
    BY <1>2
  <2>2. r[i].type = "SESSION_START" /\ r[Len(log) + 1].type = "SESSION_START"
    BY <1>1, <1>2
  <2>. QED BY <2>1, <2>2 DEF StartsTwice
<1>. QED BY <1>3, <1>4, <1>5, <1>6, <1>7

\* open_session, on a database with or without sessions of the same id.
LEMMA OpenedTracks ==
    ASSUME NEW l, NEW sid, IsLedger(l), IsLogOf(l.rows, sid), EmptyOrStarted(l.rows),
           NEW body, ~Has(body, "pubkey")
    PROVE  /\ Tracking(Opened(l, sid, body)) /\ Opened(l, sid, body).sid = sid
           /\ \E e : /\ e.type = "SESSION_START" /\ e.payload.body = Declared(body)
                     /\ Opened(l, sid, body).rows = Append(l.rows, e)
<1>1. PICK e : e = BuildEvent(1, "SESSION_START", sid, Payload(Declared(body)), Genesis, NoKey)
  OBVIOUS
<1>2. PICK o : o = Opened(l, sid, body)
  OBVIOUS
<1>3. o = [sid |-> sid, next |-> 2, tip |-> e.hash, rows |-> Append(l.rows, e)]
  BY <1>1, <1>2, OpenedForm
<1>4. e.type = "SESSION_START" /\ e.payload.body = Declared(body) /\ e.session = sid /\ e.seq = 1
  BY <1>1 DEF BuildEvent, Payload
<1>5. /\ IsLogOf(o.rows, sid) /\ HasStart(o.rows)
      /\ HasStart(l.rows) => StartsTwice(o.rows)
  BY <1>3, <1>4, LogAppended
<1>6. l.rows = <<>> => Recording(o, 0)
  <2>. SUFFICES ASSUME l.rows = <<>> PROVE Recording(o, 0)
    OBVIOUS
  <2>1. \A i \in DOMAIN l.rows : l.rows[i].session # sid
    OBVIOUS
  <2>2. Recording(o, Len(l.rows))
    BY <1>2, <2>1, OpenedRecords
  <2>3. Len(l.rows) = 0
    OBVIOUS
  <2>. QED BY <2>2, <2>3
<1>7. IsLedger(o)
  BY <1>3, <1>5 DEF IsLedger, IsLogOf
<1>. QED BY <1>2, <1>3, <1>4, <1>5, <1>6, <1>7 DEF Tracking, EmptyOrStarted

\* __write_event of another event.
LEMMA StoredTracks ==
    ASSUME NEW l, Tracking(l), NEW type \in {"ACTION", "SESSION_END"}, NEW body
    PROVE  /\ Tracking(Stored(l, type, body)) /\ Stored(l, type, body).sid = l.sid
           /\ \E e : /\ e.type = type /\ e.payload.body = body
                     /\ Stored(l, type, body).rows = Append(l.rows, e)
           /\ type = "SESSION_END" => EndsIfOne(Stored(l, type, body))
<1>1. PICK e : e = BuildEvent(l.next, type, l.sid, Payload(body), l.tip, NoKey)
  OBVIOUS
<1>2. PICK o : o = Stored(l, type, body)
  OBVIOUS
<1>3. o = [sid |-> l.sid, next |-> l.next + 1, tip |-> e.hash, rows |-> Append(l.rows, e)]
  BY <1>1, <1>2, StoredForm DEF Tracking
<1>4. e.type = type /\ e.payload.body = body /\ e.session = l.sid /\ e.seq = l.next
  BY <1>1 DEF BuildEvent, Payload
<1>5. /\ IsLogOf(o.rows, l.sid) /\ HasStart(o.rows)
      /\ StartsTwice(l.rows) => StartsTwice(o.rows)
  BY <1>3, <1>4, LogAppended DEF Tracking
<1>6. Recording(l, 0) => Recording(o, 0) /\ (type = "SESSION_END" => Ended(o, 0))
  BY <1>2, StoredRecords, StoredEnds
<1>7. IsLedger(o) /\ o.next \in Nat
  BY <1>3, <1>5 DEF IsLedger, IsLogOf, Tracking
<1>. QED BY <1>2, <1>3, <1>4, <1>5, <1>6, <1>7 DEF Tracking, EndsIfOne

LEMMA TwoStarts ==
    ASSUME NEW log, IsSeq(log), StartsTwice(log)
    PROVE  ~(Cardinality(Of(log, "SESSION_START")) <= 1)
<1>. PICK S : S = Of(log, "SESSION_START")
  OBVIOUS
<1>1. DOMAIN log = 1..Len(log) /\ Len(log) \in Nat
  BY SeqDomain
<1>2. PICK a \in S, b \in S : a # b
  BY DEF StartsTwice, Of
<1>3. IsFiniteSet(S) /\ Cardinality(S) \in Nat
  <2>1. IsFiniteSet(1..Len(log))
    BY <1>1, IntervalSize
  <2>2. S \in SUBSET (1..Len(log))
    BY <1>1 DEF Of
  <2>3. IsFiniteSet(S)
    BY <2>1, <2>2, FS_Subset
  <2>. QED BY <2>3, FS_CardinalityType
<1>4. Cardinality({a, b}) = 2
  <2>1. IsFiniteSet({a}) /\ Cardinality({a}) = 1
    BY FS_Singleton
  <2>2. Cardinality({a} \cup {b}) = 2
    BY <1>2, <2>1, FS_AddElement
  <2>. QED BY <2>2
<1>5. {a, b} \in SUBSET S
  OBVIOUS
<1>6. Cardinality({a, b}) <= Cardinality(S)
  BY <1>3, <1>5, FS_Subset
<1>. QED BY <1>3, <1>4, <1>6

\* The file of a ledger that was opened under one id.
LEMMA ExportedLog ==
    ASSUME NEW l, IsLogOf(l.rows, l.sid)
    PROVE  /\ IsSeq(Exported(l)) /\ Len(Exported(l)) = Len(l.rows)
           /\ StartsTwice(l.rows) => StartsTwice(Exported(l))
           /\ \A k \in DOMAIN Exported(l) : \E i \in DOMAIN l.rows : Exported(l)[k] = l.rows[i]
<1>. PICK log : log = l.rows
  OBVIOUS
<1>. PICK lines : lines = Exported(l)
  OBVIOUS
<1>1. IsSeq(log) /\ DOMAIN log = 1..Len(log) /\ Len(log) \in Nat /\ HasNumbers(log)
  BY SeqDomain DEF IsLogOf, HasNumbers
<1>2. lines = OrderBySeq(log)
  <2>. PICK own : own = {i \in DOMAIN log : log[i].session = l.sid}
    OBVIOUS
  <2>1. own = DOMAIN log
    BY DEF IsLogOf
  <2>2. lines = SortedBySeq(log, own)
    BY DEF Exported
  <2>. QED BY ONLY <2>1, <2>2 DEF OrderBySeq
<1>3. /\ IsSeq(lines) /\ Len(lines) = Len(log)
      /\ \A i \in DOMAIN log : PlaceOf(log, i) \in DOMAIN log /\ lines[PlaceOf(log, i)] = log[i]
  BY ONLY <1>1, <1>2, OrderBySeqSorts
<1>4. DOMAIN lines = DOMAIN log
  BY <1>1, <1>3, SeqDomain
<1>5. ASSUME StartsTwice(log) PROVE StartsTwice(lines)
  <2>1. PICK i \in DOMAIN log, j \in DOMAIN log :
           i # j /\ log[i].type = "SESSION_START" /\ log[j].type = "SESSION_START"
    BY <1>5 DEF StartsTwice
  <2>. PICK a, b : a = PlaceOf(log, i) /\ b = PlaceOf(log, j)
    OBVIOUS
  <2>2. a # b
    BY <1>1, <2>1, PlaceBijective
  <2>3. /\ a \in DOMAIN lines /\ lines[a].type = "SESSION_START"
        /\ b \in DOMAIN lines /\ lines[b].type = "SESSION_START"
    BY <1>3, <1>4, <2>1
  <2>. QED BY <2>2, <2>3 DEF StartsTwice
<1>6. ASSUME NEW k \in DOMAIN lines PROVE \E i \in DOMAIN log : lines[k] = log[i]
  <2>1. PICK i \in DOMAIN log : PlaceOf(log, i) = k
    BY <1>1, <1>4, PlaceBijective
  <2>. QED BY <1>3, <2>1
<1>. QED BY <1>3, <1>5, <1>6

\* What a ledger exports after it ended its session.
LEMMA TrackedVerifies ==
    ASSUME NEW l, Tracking(l), EndsIfOne(l)
    PROVE  VerifiesIfOne(Exported(l))
<1>. PICK lines : lines = Exported(l)
  OBVIOUS
<1>1. CASE StartsTwice(l.rows)
  <2>1. ~(Cardinality(Of(lines, "SESSION_START")) <= 1)
    BY <1>1, ExportedLog, TwoStarts DEF Tracking
  <2>. QED BY <2>1 DEF VerifiesIfOne
<1>2. CASE ~StartsTwice(l.rows)
  BY <1>2, EndedVerifies DEF Tracking, VerifiesIfOne, EndsIfOne
<1>. QED BY <1>1, <1>2

-----------------------------------------------------------------------------
(* Where the two verifiers agree.                                          *)

\* The numbers go up, or stay, from line to line.
Ascending(lines) == \A i, j \in DOMAIN lines : i < j => lines[i].seq <= lines[j].seq

\* What the Rust verifier does not look at: the event types are known, the session is one
\* and was started at most once, and after its end there is at most a seal.
OneSession(lines) ==
    /\ Structural(lines)
    /\ \A i, j \in DOMAIN lines : lines[i].session = lines[j].session
    /\ Cardinality(Of(lines, "SESSION_START")) <= 1
    /\ \/ lines[Len(lines)].type \in {"SESSION_END", "CHAIN_SEAL"}
       \/ Of(lines, "SESSION_END") \cup Of(lines, "CHAIN_SEAL") = {}

LEMMA AscendingIsSorted ==
    ASSUME NEW lines, HasNumbers(lines), Ascending(lines)
    PROVE  OrderBySeq(lines) = lines
<1>. PICK o : o = OrderBySeq(lines)
  OBVIOUS
<1>1. IsSeq(lines) /\ DOMAIN lines = 1..Len(lines) /\ Len(lines) \in Nat
  BY SeqDomain DEF HasNumbers
<1>2. /\ IsSeq(o) /\ Len(o) = Len(lines)
      /\ \A i \in DOMAIN lines : o[PlaceOf(lines, i)] = lines[i]
  BY OrderBySeqSorts
<1>3. DOMAIN o = 1..Len(lines)
  BY <1>2, SeqDomain
<1>4. ASSUME NEW i \in DOMAIN lines PROVE PlaceOf(lines, i) = i
  <2>1. ASSUME NEW j \in DOMAIN lines PROVE NotAfter(lines, j, i) <=> j <= i
    <3>1. lines[i].seq \in Nat /\ lines[j].seq \in Nat /\ i \in Nat /\ j \in Nat
      BY <1>1 DEF HasNumbers
    <3>2. (i < j => lines[i].seq <= lines[j].seq) /\ (j < i => lines[j].seq <= lines[i].seq)
      BY DEF Ascending
    <3>. QED BY <3>1, <3>2 DEF NotAfter
  <2>2. UpTo(lines, i) = 1..i
    BY <1>1, <2>1 DEF UpTo
  <2>3. i \in Nat /\ Cardinality(1..i) = i
    BY <1>1, IntervalSize
  <2>. QED BY <2>2, <2>3 DEF PlaceOf
<1>5. \A i \in 1..Len(lines) : o[i] = lines[i]
  BY <1>1, <1>2, <1>4
<1>6. o = [i \in 1..Len(lines) |-> o[i]] /\ lines = [i \in 1..Len(lines) |-> lines[i]]
  BY <1>1, <1>2, <1>3 DEF IsSeq
<1>. QED BY <1>5, <1>6

LEMMA SameStart ==
    ASSUME NEW lines, IsSeq(lines), Cardinality(Of(lines, "SESSION_START")) <= 1
    PROVE  SignatureCheck(lines, FileStart(lines)) = SignatureCheck(lines, FirstStart(lines))
<1>. PICK S : S = Of(lines, "SESSION_START")
  OBVIOUS
<1>1. CASE S = {}
  BY <1>1 DEF SignatureCheck
<1>2. CASE S # {}
  <2>1. PICK a \in S : TRUE
    BY <1>2
  <2>2. ASSUME NEW b \in S PROVE a = b
    <3>. SUFFICES ASSUME a # b PROVE FALSE
      OBVIOUS
    <3>1. StartsTwice(lines)
      BY DEF StartsTwice, Of
    <3>. QED BY <3>1, TwoStarts
  <2>3. S = {a} /\ a \in Nat
    <3>1. a \in 1..Len(lines) /\ Len(lines) \in Nat
      BY SeqDomain DEF Of
    <3>2. S = {a}
      BY ONLY <2>2, a \in S
    <3>. QED BY ONLY <3>1, <3>2
  <2>4. FileStart(lines) = a /\ FirstStart(lines) = a
    BY <2>3 DEF FileStart, FirstStart
  <2>. QED BY <2>4
<1>. QED BY <1>1, <1>2

\* The two verifiers give the same status and evidence class to any file of readable lines in
\* the order of their numbers that holds OneSession, with the key pin or without one, a
\* seal demanded or not (verify in verifier.py and main.rs): whatever the damage, neither
\* passes what the other refuses.
THEOREM VerifiersAgreeInOrder ==
    ASSUME NEW lines, HasNumbers(lines), Ascending(lines), OneSession(lines), lines # <<>>,
           \A i \in DOMAIN lines : IsEvent(lines[i]), NEW pin, NEW requireSeal
    PROVE  /\ PythonVerify(lines, pin, requireSeal).status = RustVerify(lines, pin, requireSeal).status
           /\ PythonVerify(lines, pin, requireSeal).class = RustVerify(lines, pin, requireSeal).class
<1>1. OrderBySeq(lines) = lines
  BY AscendingIsSorted
<1>2. IsSeq(lines) /\ DOMAIN lines = 1..Len(lines) /\ Len(lines) \in Nat /\ Len(lines) # 0
  BY SeqDomain DEF HasNumbers, IsSeq
<1>3. SignatureCheck(lines, FileStart(lines)) = SignatureCheck(lines, FirstStart(lines))
  BY <1>2, SameStart DEF OneSession
<1>4. Sequence(lines) <=> Numbered(lines)
  BY <1>1 DEF Sequence, OneSession
<1>5. Completeness(lines) <=> Bookends(lines)
  <2>1. lines[1].type = "SESSION_START" => Cardinality(Of(lines, "SESSION_START")) = 1
    <3>. SUFFICES ASSUME lines[1].type = "SESSION_START"
                  PROVE  Cardinality(Of(lines, "SESSION_START")) = 1
      OBVIOUS
    <3>1. 1 \in Of(lines, "SESSION_START")
      BY <1>2 DEF Of
    <3>2. ASSUME NEW b \in Of(lines, "SESSION_START"), b # 1 PROVE FALSE
      <4>1. StartsTwice(lines)
        BY <3>1, <3>2 DEF StartsTwice, Of
      <4>. QED BY <1>2, <4>1, TwoStarts DEF OneSession
    <3>3. Of(lines, "SESSION_START") = {1}
      BY <3>1, <3>2
    <3>. QED BY <3>3, FS_Singleton
  <2>2. (\E i \in Of(lines, "SESSION_END") \cup Of(lines, "CHAIN_SEAL") : TRUE)
           => lines[Len(lines)].type \in {"SESSION_END", "CHAIN_SEAL"}
    BY DEF OneSession
  <2>3. Len(lines) \in DOMAIN lines
    BY <1>2
  <2>. PICK last : last = lines[Len(lines)].type
    OBVIOUS
  <2>. PICK ends, seals : ends = Of(lines, "SESSION_END") /\ seals = Of(lines, "CHAIN_SEAL")
    OBVIOUS
  <2>4. /\ last = "SESSION_END" => ends # {}
        /\ last = "CHAIN_SEAL" => seals # {}
        /\ ends \cup seals # {} => last \in {"SESSION_END", "CHAIN_SEAL"}
    BY <2>2, <2>3 DEF Of
  <2>5. ends \cup seals # {}
          <=> \/ last = "SESSION_END"
              \/ last = "CHAIN_SEAL" /\ ends # {}
              \/ seals # {} /\ ends = {}
    BY <2>4
  <2>6. Completeness(lines) <=> lines[1].type = "SESSION_START" /\ ends \cup seals # {}
    BY <1>1, <2>1 DEF Completeness
  <2>7. Bookends(lines) <=> /\ lines[1].type = "SESSION_START"
                            /\ \/ last = "SESSION_END"
                               \/ last = "CHAIN_SEAL" /\ ends # {}
                               \/ seals # {} /\ ends = {}
    BY DEF Bookends
  <2>. QED BY ONLY <2>5, <2>6, <2>7
<1>6. Structural(lines)
  BY DEF OneSession
<1>7. ASSUME NEW status, NEW class, NEW root, NEW timestamp
      PROVE  /\ Verdict(status, class, root, timestamp).status = status
             /\ Verdict(status, class, root, timestamp).class = class
  BY DEF Verdict
<1>. DEFINE canon == SelectCanonicalization(lines)
            passes == /\ Numbered(lines) /\ HashChain(lines, canon) /\ Bookends(lines)
                      /\ SealSignature(lines, pin, requireSeal)
                      /\ SignatureCheck(lines, FirstStart(lines)).valid
<1>8. CASE canon = Unsupported
  BY <1>8 DEF PythonVerify, RustVerify
<1>9. CASE canon # Unsupported /\ ~passes
  BY <1>1, <1>3, <1>4, <1>5, <1>6, <1>7, <1>9 DEF PythonVerify, RustVerify
<1>10. CASE canon # Unsupported /\ passes
  BY <1>1, <1>3, <1>4, <1>5, <1>6, <1>7, <1>10 DEF PythonVerify, RustVerify
<1>. QED BY <1>8, <1>9, <1>10
=============================================================================
