---------------------------- MODULE BridgeProofs ----------------------------
(***************************************************************************)
(* For any number of sessions, hooks, connections and stops, and a queue   *)
(* of any size: what the bridge stores is in the order of its hooks, what  *)
(* it read is not left behind, and the files of ended sessions verify.     *)
(***************************************************************************)
EXTENDS Bridge, SessionProofs, SequenceTheorems

-----------------------------------------------------------------------------
(* Rows.                                                                   *)

FromHook(e) == "id" \in DOMAIN e.payload.body

\* The ids of the hooks in rows go up, as far as mark.
Ordered(rows, mark) ==
    /\ IsSeq(rows)
    /\ \A i \in DOMAIN rows : FromHook(rows[i]) => Id(rows[i]) \in Nat /\ Id(rows[i]) <= mark
    /\ \A i, j \in DOMAIN rows :
          i < j /\ FromHook(rows[i]) /\ FromHook(rows[j]) => Id(rows[i]) < Id(rows[j])

\* All hooks of the one come before all of the other.
Before(rows, later) ==
    \A i \in DOMAIN rows, j \in DOMAIN later :
       FromHook(rows[i]) /\ FromHook(later[j]) => Id(rows[i]) < Id(later[j])

\* Rows that were appended to, the last of them perhaps for hook n.
Grown(rows, longer, n) ==
    /\ IsSeq(longer) /\ Len(rows) <= Len(longer)
    /\ \A i \in 1..Len(rows) : longer[i] = rows[i]
    /\ \A i \in DOMAIN longer : i > Len(rows) /\ FromHook(longer[i]) =>
                                   i = Len(longer) /\ Id(longer[i]) = n

LEMMA GrownOrdered ==
    ASSUME NEW rows, NEW longer, NEW mark \in Nat, NEW n \in Nat, mark < n,
           Ordered(rows, mark), Grown(rows, longer, n)
    PROVE  Ordered(longer, n)
<1>1. /\ DOMAIN rows = 1..Len(rows) /\ Len(rows) \in Nat
      /\ DOMAIN longer = 1..Len(longer) /\ Len(longer) \in Nat
  BY SeqDomain DEF Ordered, Grown
<1>2. ASSUME NEW i \in DOMAIN longer, FromHook(longer[i])
      PROVE  /\ Id(longer[i]) \in Nat /\ Id(longer[i]) <= n
             /\ i <= Len(rows) => i \in DOMAIN rows /\ longer[i] = rows[i] /\ Id(longer[i]) <= mark
             /\ i > Len(rows) => i = Len(longer) /\ Id(longer[i]) = n
  <2>1. CASE i <= Len(rows)
    <3>1. i \in DOMAIN rows /\ longer[i] = rows[i] /\ FromHook(rows[i])
      BY <1>1, <1>2, <2>1 DEF Grown
    <3>2. Id(rows[i]) \in Nat /\ Id(rows[i]) <= mark
      BY <3>1 DEF Ordered
    <3>. QED BY <1>1, <2>1, <3>1, <3>2
  <2>2. CASE i > Len(rows)
    BY <1>1, <1>2, <2>2 DEF Grown
  <2>. QED BY <1>1, <2>1, <2>2
<1>3. ASSUME NEW i \in DOMAIN longer, NEW j \in DOMAIN longer,
             i < j, FromHook(longer[i]), FromHook(longer[j])
      PROVE  Id(longer[i]) < Id(longer[j])
  <2>1. i <= Len(rows)
    BY <1>1, <1>2, <1>3
  <2>2. CASE j <= Len(rows)
    <3>1. i \in DOMAIN rows /\ longer[i] = rows[i] /\ j \in DOMAIN rows /\ longer[j] = rows[j]
      BY <1>2, <1>3, <2>1, <2>2
    <3>. QED BY <1>3, <3>1 DEF Ordered
  <2>3. CASE j > Len(rows)
    <3>1. Id(longer[i]) <= mark /\ Id(longer[j]) = n /\ Id(longer[i]) \in Nat
      BY <1>2, <1>3, <2>1, <2>3
    <3>. QED BY <3>1
  <2>. QED BY <1>1, <2>2, <2>3
<1>. QED BY <1>2, <1>3 DEF Ordered, Grown

LEMMA OrderedLater ==
    ASSUME NEW rows, NEW mark \in Nat, NEW n \in Nat, mark <= n, Ordered(rows, mark)
    PROVE  Ordered(rows, n)
BY DEF Ordered

LEMMA BeforeGrown ==
    ASSUME NEW rows, NEW later, NEW longer, NEW mark \in Nat, NEW n \in Nat, mark < n,
           Ordered(rows, mark), Ordered(later, mark), Before(rows, later), Grown(later, longer, n)
    PROVE  Before(rows, longer)
<1>1. /\ DOMAIN later = 1..Len(later) /\ Len(later) \in Nat
      /\ DOMAIN longer = 1..Len(longer) /\ Len(longer) \in Nat
  BY SeqDomain DEF Ordered, Grown
<1>. SUFFICES ASSUME NEW i \in DOMAIN rows, NEW j \in DOMAIN longer,
                     FromHook(rows[i]), FromHook(longer[j])
              PROVE  Id(rows[i]) < Id(longer[j])
  BY DEF Before
<1>2. Id(rows[i]) \in Nat /\ Id(rows[i]) <= mark
  BY DEF Ordered
<1>3. CASE j <= Len(later)
  <2>1. j \in DOMAIN later /\ longer[j] = later[j]
    BY <1>1, <1>3 DEF Grown
  <2>. QED BY <2>1 DEF Before
<1>4. CASE j > Len(later)
  <2>1. Id(longer[j]) = n
    BY <1>4 DEF Grown
  <2>. QED BY <1>2, <2>1
<1>. QED BY <1>1, <1>3, <1>4

-----------------------------------------------------------------------------
(* Logs: pairs of a session id and rows, of one session key.               *)

Kept(logs, ids, mark) ==
    /\ \A a \in logs : a[1] \in 1..ids /\ Ordered(a[2], mark)
    /\ \A a, b \in logs : a[1] = b[1] => a = b
    /\ \A a, b \in logs : a[1] < b[1] => Before(a[2], b[2])

\* No log was begun after the one with this session id.
IsNewest(sid, logs) == \A a \in logs : a[1] <= sid

LEMMA KeptLater ==
    ASSUME NEW logs, NEW ids \in Nat, NEW mark \in Nat, Kept(logs, ids, mark),
           NEW more \in Nat, ids <= more, NEW n \in Nat, mark <= n
    PROVE  Kept(logs, more, n)
BY OrderedLater DEF Kept

\* The log of session sid has grown to rows, or has begun with them.
WithLog(logs, sid, rows) == {a \in logs : a[1] # sid} \cup {<<sid, rows>>}

\* That log is the newest one, or a new one.
CanGrow(logs, ids, sid, rows) ==
    /\ <<sid, rows>> \in logs \/ (rows = <<>> /\ sid = ids + 1)
    /\ IsNewest(sid, logs)

\* The newest log grows, or a new one begins.
LEMMA NewestGrows ==
    ASSUME NEW logs, NEW ids \in Nat, NEW mark \in Nat, Kept(logs, ids, mark),
           NEW rows, NEW sid \in Nat \ {0}, CanGrow(logs, ids, sid, rows),
           NEW n \in Nat, mark < n, NEW longer, Grown(rows, longer, n),
           NEW more \in Nat, ids <= more, sid <= more
    PROVE  Kept(WithLog(logs, sid, longer), more, n)
<1>. DEFINE grown == WithLog(logs, sid, longer)
<1>. USE DEF CanGrow
<1>1. Ordered(rows, mark)
  <2>1. CASE <<sid, rows>> \in logs
    <3>. PICK b \in logs : b = <<sid, rows>>
      BY <2>1
    <3>1. b[2] = rows
      OBVIOUS
    <3>. QED BY <3>1 DEF Kept
  <2>2. CASE rows = <<>>
    BY <2>2 DEF Ordered, IsSeq
  <2>. QED BY <2>1, <2>2
<1>2. Ordered(longer, n)
  BY <1>1, GrownOrdered
<1>3. Kept(logs, more, n)
  BY KeptLater
<1>4. ASSUME NEW a \in logs, a[1] # sid
      PROVE  /\ a[1] \in 1..more /\ Ordered(a[2], n) /\ a[1] < sid
             /\ Before(a[2], longer)
  <2>1. a[1] \in 1..more /\ Ordered(a[2], n) /\ a[1] < sid /\ Ordered(a[2], mark)
    BY <1>3, <1>4 DEF Kept, IsNewest
  <2>2. Before(a[2], rows)
    <3>1. CASE <<sid, rows>> \in logs
      <4>. PICK b \in logs : b = <<sid, rows>>
        BY <3>1
      <4>1. b[1] = sid /\ b[2] = rows
        OBVIOUS
      <4>. QED BY <2>1, <4>1 DEF Kept
    <3>2. CASE rows = <<>>
      BY <3>2 DEF Before
    <3>. QED BY <3>1, <3>2
  <2>. QED BY <1>1, <2>1, <2>2, BeforeGrown
<1>. PICK top : top = <<sid, longer>>
  OBVIOUS
<1>5. top[1] = sid /\ top[2] = longer /\ grown = {a \in logs : a[1] # sid} \cup {top}
  BY DEF WithLog
<1>. HIDE DEF grown
<1>6. \A a \in grown : a[1] \in 1..more /\ Ordered(a[2], n) /\ a[1] <= sid
  BY <1>2, <1>4, <1>5
<1>7. \A a, b \in grown : a[1] = b[1] => a = b
  BY <1>3, <1>5 DEF Kept
<1>8. \A a, b \in grown : a[1] < b[1] => Before(a[2], b[2])
  <2>. SUFFICES ASSUME NEW a \in grown, NEW b \in grown, a[1] < b[1] PROVE Before(a[2], b[2])
    OBVIOUS
  <2>1. a \in logs /\ a[1] # sid
    BY <1>5, <1>6
  <2>2. CASE b = top
    BY <1>4, <1>5, <2>1, <2>2
  <2>3. CASE b # top
    BY <1>3, <1>5, <2>1, <2>3 DEF Kept
  <2>. QED BY <2>2, <2>3
<1>. QED BY <1>6, <1>7, <1>8 DEF Kept, grown

-----------------------------------------------------------------------------
(* Ledgers as values.                                                      *)

LEMMA StoredLedger ==
    ASSUME NEW l, IsLedger(l), NEW type, NEW body
    PROVE  /\ IsLedger(Stored(l, type, body)) /\ Stored(l, type, body).sid = l.sid
           /\ \E e : e.payload.body = body /\ Stored(l, type, body).rows = Append(l.rows, e)
<1>. DEFINE e == BuildEvent(l.next, type, l.sid, Payload(body), l.tip, NoKey)
<1>1. e.payload.body = body
  BY DEF BuildEvent, Payload
<1>2. Stored(l, type, body) = [l EXCEPT !.rows = Append(@, e), !.next = @ + 1, !.tip = e.hash]
  BY DEF Stored
<1>. HIDE DEF e
<1>3. Stored(l, type, body) = [sid |-> l.sid, next |-> l.next + 1, tip |-> e.hash,
                               rows |-> Append(l.rows, e)]
  BY <1>2 DEF IsLedger
<1>4. IsSeq(Append(l.rows, e))
  BY Appending DEF IsLedger
<1>. QED BY <1>1, <1>3, <1>4 DEF IsLedger

LEMMA OpenedLedger ==
    ASSUME NEW l, IsLedger(l), NEW body
    PROVE  /\ IsLedger(Opened(l, l.sid, body)) /\ Opened(l, l.sid, body).sid = l.sid
           /\ \E e : /\ e.payload.body = Declared(body)
                     /\ Opened(l, l.sid, body).rows = Append(l.rows, e)
<1>. PICK p : p = [l EXCEPT !.sid = l.sid, !.next = 1, !.tip = Genesis]
  OBVIOUS
<1>1. p = [sid |-> l.sid, next |-> 1, tip |-> Genesis, rows |-> l.rows]
  BY DEF IsLedger
<1>2. IsLedger(p) /\ p.sid = l.sid /\ p.rows = l.rows
  BY <1>1 DEF IsLedger
<1>3. Opened(l, l.sid, body) = Stored(p, "SESSION_START", Declared(body))
  BY DEF Opened
<1>4. /\ IsLedger(Stored(p, "SESSION_START", Declared(body)))
      /\ Stored(p, "SESSION_START", Declared(body)).sid = p.sid
      /\ \E e : /\ e.payload.body = Declared(body)
                /\ Stored(p, "SESSION_START", Declared(body)).rows = Append(p.rows, e)
  BY ONLY <1>2, StoredLedger
<1>. QED BY <1>2, <1>3, <1>4

LEMMA Bodies ==
    ASSUME NEW line
    PROVE  /\ "id" \in DOMAIN Body(line) /\ Body(line).id = line.id
           /\ "id" \in DOMAIN Declared(Body(line)) /\ Declared(Body(line)).id = line.id
           /\ "id" \notin DOMAIN Declared(Implicit)
BY DEF Body, Declared, Implicit

\* One more row: for hook n, or for none.
LEMMA OneRowGrown ==
    ASSUME NEW rows, IsSeq(rows), NEW e, NEW n, FromHook(e) => Id(e) = n
    PROVE  Grown(rows, Append(rows, e), n)
<1>1. /\ DOMAIN rows = 1..Len(rows) /\ Len(rows) \in Nat
      /\ IsSeq(Append(rows, e)) /\ Len(Append(rows, e)) = Len(rows) + 1
      /\ DOMAIN Append(rows, e) = 1..(Len(rows) + 1)
      /\ \A i \in 1..Len(rows) : Append(rows, e)[i] = rows[i]
      /\ Append(rows, e)[Len(rows) + 1] = e
  BY SeqDomain, Appending
<1>. QED BY <1>1 DEF Grown

\* Rows for no hook, and then one row.
LEMMA TwoRowsGrown ==
    ASSUME NEW rows, IsSeq(rows), NEW e, ~FromHook(e), NEW f, NEW n, FromHook(f) => Id(f) = n
    PROVE  Grown(rows, Append(Append(rows, e), f), n)
<1>. PICK middle : middle = Append(rows, e)
  OBVIOUS
<1>1. /\ DOMAIN rows = 1..Len(rows) /\ Len(rows) \in Nat
      /\ IsSeq(middle) /\ Len(middle) = Len(rows) + 1
      /\ \A i \in 1..Len(rows) : middle[i] = rows[i]
      /\ middle[Len(rows) + 1] = e
  BY SeqDomain, Appending
<1>2. /\ IsSeq(Append(middle, f)) /\ Len(Append(middle, f)) = Len(middle) + 1
      /\ DOMAIN Append(middle, f) = 1..(Len(middle) + 1)
      /\ \A i \in 1..Len(middle) : Append(middle, f)[i] = middle[i]
      /\ Append(middle, f)[Len(middle) + 1] = f
  BY <1>1, SeqDomain, Appending
<1>3. \A i \in 1..(Len(rows) + 2) :
         Append(middle, f)[i] = IF i <= Len(rows) THEN rows[i]
                                ELSE IF i = Len(rows) + 1 THEN e ELSE f
  BY <1>1, <1>2
<1>. HIDE DEF Grown
<1>4. Grown(rows, Append(middle, f), n)
  BY <1>1, <1>2, <1>3 DEF Grown
<1>. QED BY <1>4

-----------------------------------------------------------------------------
(* Lines on their way.                                                     *)

Lines == [id : Nat, key : SessionKeys, hook : Hooks]

\* The ids go up, from above mark as far as top.
Sorted(lines, mark, top) ==
    /\ lines \in Seq(Lines)
    /\ \A i \in DOMAIN lines : mark < lines[i].id /\ lines[i].id <= top
    /\ \A i, j \in DOMAIN lines : i < j => lines[i].id < lines[j].id

InOrder(lines, later) ==
    \A i \in DOMAIN lines, j \in DOMAIN later : lines[i].id < later[j].id

LEMMA SortedConcat ==
    ASSUME NEW mark \in Nat, NEW top \in Nat, NEW s, NEW t,
           Sorted(s, mark, top), Sorted(t, mark, top), InOrder(s, t)
    PROVE  Sorted(s \o t, mark, top)
<1>1. /\ s \in Seq(Lines) /\ t \in Seq(Lines) /\ Len(s) \in Nat /\ Len(t) \in Nat
      /\ DOMAIN s = 1..Len(s) /\ DOMAIN t = 1..Len(t)
  BY DEF Sorted
<1>2. /\ s \o t \in Seq(Lines) /\ DOMAIN (s \o t) = 1..(Len(s) + Len(t))
      /\ \A i \in 1..(Len(s) + Len(t)) : (s \o t)[i] = IF i <= Len(s) THEN s[i] ELSE t[i - Len(s)]
  BY <1>1, ConcatProperties
<1>3. ASSUME NEW i \in DOMAIN (s \o t)
      PROVE  /\ i <= Len(s) => i \in DOMAIN s /\ (s \o t)[i] = s[i]
             /\ i > Len(s) => i - Len(s) \in DOMAIN t /\ (s \o t)[i] = t[i - Len(s)]
             /\ i \in Nat
  BY <1>1, <1>2
<1>. PICK u : u = s \o t
  OBVIOUS
<1>4. \A i \in DOMAIN u : mark < u[i].id /\ u[i].id <= top
  BY <1>1, <1>3 DEF Sorted
<1>5. \A i, j \in DOMAIN u : i < j => u[i].id < u[j].id
  <2>. SUFFICES ASSUME NEW i \in DOMAIN u, NEW j \in DOMAIN u, i < j PROVE u[i].id < u[j].id
    OBVIOUS
  <2>1. CASE j <= Len(s)
    <3>1. i \in DOMAIN s /\ u[i] = s[i] /\ j \in DOMAIN s /\ u[j] = s[j]
      BY <1>1, <1>3, <2>1
    <3>. QED BY <3>1 DEF Sorted
  <2>2. CASE i > Len(s)
    <3>1. /\ i - Len(s) \in DOMAIN t /\ u[i] = t[i - Len(s)]
          /\ j - Len(s) \in DOMAIN t /\ u[j] = t[j - Len(s)]
          /\ i - Len(s) < j - Len(s)
      BY <1>1, <1>3, <2>2
    <3>. QED BY <3>1 DEF Sorted
  <2>3. CASE i <= Len(s) /\ j > Len(s)
    <3>1. i \in DOMAIN s /\ u[i] = s[i] /\ j - Len(s) \in DOMAIN t /\ u[j] = t[j - Len(s)]
      BY <1>3, <2>3
    <3>. QED BY <3>1 DEF InOrder
  <2>. QED BY <1>1, <1>3, <2>1, <2>2, <2>3
<1>. QED BY <1>2, <1>4, <1>5 DEF Sorted

LEMMA SortedIds ==
    ASSUME NEW mark, NEW top, NEW s, Sorted(s, mark, top)
    PROVE  \A i \in DOMAIN s : s[i].id \in Nat /\ s[i].id <= top
<1>1. \A i \in DOMAIN s : s[i] \in Lines /\ s[i].id <= top
  BY DEF Sorted
<1>. QED BY <1>1 DEF Lines

LEMMA SortedLater ==
    ASSUME NEW mark \in Nat, NEW top \in Nat, NEW s, Sorted(s, mark, top)
    PROVE  Sorted(s, mark, top + 1)
<1>1. \A i \in DOMAIN s : s[i].id \in Nat
  BY SortedIds
<1>. QED BY <1>1 DEF Sorted

LEMMA SortedNext ==
    ASSUME NEW mark \in Nat, NEW top \in Nat, mark <= top, NEW line \in Lines, line.id = top + 1
    PROVE  /\ Sorted(<<line>>, mark, top + 1)
           /\ \A s : Sorted(s, mark, top) => InOrder(s, <<line>>)
<1>1. <<line>> \in Seq(Lines) /\ DOMAIN <<line>> = {1} /\ <<line>>[1] = line
  OBVIOUS
<1>2. ASSUME NEW s, Sorted(s, mark, top)
      PROVE  InOrder(s, <<line>>)
  <2>1. \A i \in DOMAIN s : s[i].id \in Nat /\ s[i].id <= top
    BY <1>2, SortedIds
  <2>. QED BY <1>1, <2>1 DEF InOrder
<1>. QED BY <1>1, <1>2 DEF Sorted

LEMMA EmptySorted ==
    ASSUME NEW mark \in Nat, NEW top \in Nat
    PROVE  Sorted(<<>>, mark, top)
BY DEF Sorted

LEMMA EmptyInOrder == \A s : InOrder(<<>>, s) /\ InOrder(s, <<>>)
BY DEF InOrder

LEMMA SortedTail ==
    ASSUME NEW mark \in Nat, NEW top \in Nat, NEW s, Sorted(s, mark, top), s # <<>>
    PROVE  /\ Head(s) \in Lines /\ mark < Head(s).id /\ Head(s).id <= top
           /\ Sorted(Tail(s), Head(s).id, top)
           /\ \A t : InOrder(s, t) => InOrder(Tail(s), t)
           /\ \A t : Sorted(t, mark, top) /\ InOrder(s, t) => Sorted(t, Head(s).id, top)
<1>1. s \in Seq(Lines) /\ Len(s) \in Nat /\ DOMAIN s = 1..Len(s)
  BY DEF Sorted
<1>2. Head(s) = s[1] /\ 1 \in DOMAIN s /\ s[1] \in Lines
  BY <1>1
<1>3. /\ Tail(s) \in Seq(Lines) /\ Len(Tail(s)) = Len(s) - 1
      /\ \A i \in 1..Len(Tail(s)) : Tail(s)[i] = s[i + 1]
  BY <1>1, HeadTailProperties
<1>4. \A i \in DOMAIN Tail(s) : i \in Nat /\ i >= 1 /\ i + 1 \in DOMAIN s /\ Tail(s)[i] = s[i + 1]
  BY <1>1, <1>3
<1>. PICK u : u = Tail(s)
  OBVIOUS
<1>. PICK first : first = s[1]
  OBVIOUS
<1>5. Sorted(u, first.id, top)
  <2>1. \A i \in DOMAIN u : s[1].id < u[i].id /\ u[i].id <= top
    BY <1>1, <1>2, <1>4 DEF Sorted
  <2>2. \A i, j \in DOMAIN u : i < j => u[i].id < u[j].id
    BY <1>1, <1>4 DEF Sorted
  <2>. QED BY <1>3, <2>1, <2>2 DEF Sorted
<1>6. \A t : InOrder(s, t) => InOrder(u, t)
  BY <1>4 DEF InOrder
<1>7. \A t : Sorted(t, mark, top) /\ InOrder(s, t) => Sorted(t, first.id, top)
  BY <1>2 DEF Sorted, InOrder
<1>8. first \in Lines /\ mark < first.id /\ first.id <= top
  BY <1>2 DEF Sorted
<1>. QED BY <1>2, <1>5, <1>6, <1>7, <1>8

-----------------------------------------------------------------------------
(* The inductive invariant: there is a mark up to which the ids are stored *)
(* in order, and above which they are on their way in order.               *)

Transit(mark) ==
    /\ fired \in Seq(Lines)
    /\ mark <= Len(fired)
    /\ Sorted(wire, mark, Len(fired)) /\ Sorted(queue, mark, Len(fired))
    /\ InOrder(wire, queue)
    /\ socket = "up" => queue = <<>>

ClosedLogs(k) == {<<r.sid, r.rows>> : r \in {q \in exports \cup orphans : q.key = k}}
OpenLogs(k) == IF ledgers[k] = NoLedger THEN {} ELSE {<<ledgers[k].sid, ledgers[k].rows>>}
Logs(k) == ClosedLogs(k) \cup OpenLogs(k)

Storage(mark) ==
    /\ sids \in Nat
    /\ ledgers = [k \in SessionKeys |-> ledgers[k]]
    /\ \A k \in SessionKeys : ledgers[k] = NoLedger \/ IsLedger(ledgers[k])
    /\ \A k \in SessionKeys : Kept(Logs(k), sids, mark)
    /\ \A k \in SessionKeys : ledgers[k] # NoLedger =>
          \A a \in ClosedLogs(k) : a[1] < ledgers[k].sid

Inv == \E mark \in Nat : Transit(mark) /\ Storage(mark)

LEMMA Started == Init => Inv
<1>. SUFFICES ASSUME Init PROVE Transit(0) /\ Storage(0)
  BY DEF Inv
<1>1. Transit(0)
  BY EmptySorted, EmptyInOrder DEF Init, Transit
<1>2. \A k \in SessionKeys : Logs(k) = {}
  BY DEF Init, Logs, ClosedLogs, OpenLogs
<1>. QED BY <1>1, <1>2 DEF Init, Storage, Kept

-----------------------------------------------------------------------------
(* The client's steps.                                                     *)

storage == <<sids, ledgers, exports, orphans>>

LEMMA StorageKept ==
    ASSUME NEW mark, Storage(mark), UNCHANGED storage
    PROVE  Storage(mark)'
BY DEF Storage, storage, Logs, ClosedLogs, OpenLogs

LEMMA FireKeepsTransit ==
    ASSUME NEW mark \in Nat, Transit(mark), NEW k \in SessionKeys, NEW h \in Hooks, Fire(k, h)
    PROVE  Transit(mark)'
<1>. DEFINE line == [id |-> Len(fired) + 1, key |-> k, hook |-> h]
<1>1. fired \in Seq(Lines) /\ Len(fired) \in Nat /\ mark <= Len(fired)
  BY DEF Transit
<1>2. line \in Lines /\ line.id = Len(fired) + 1
  BY <1>1 DEF Lines
<1>3. fired' = Append(fired, line) /\ Send(line)
  BY DEF Fire
<1>. HIDE DEF line
<1>4. fired' \in Seq(Lines) /\ Len(fired') = Len(fired) + 1
  BY <1>1, <1>2, <1>3
<1>5. /\ Sorted(wire, mark, Len(fired')) /\ Sorted(queue, mark, Len(fired'))
      /\ Sorted(<<line>>, mark, Len(fired'))
      /\ InOrder(wire, <<line>>) /\ InOrder(queue, <<line>>)
  BY <1>1, <1>2, <1>4, SortedLater, SortedNext DEF Transit
<1>6. CASE closed
  BY <1>3, <1>4, <1>5, <1>6 DEF Send, Transit
<1>7. CASE ~closed /\ socket = "up"
  <2>1. UNCHANGED <<socket, queue>> /\ (wire' = wire \o <<line>> \/ wire' = wire)
    BY <1>3, <1>7 DEF Send, WriteLines
  <2>2. queue = <<>>
    BY <1>7 DEF Transit
  <2>3. Sorted(wire \o <<line>>, mark, Len(fired'))
    BY <1>1, <1>4, <1>5, SortedConcat
  <2>4. InOrder(wire', queue') /\ Sorted(wire', mark, Len(fired'))
    BY <1>5, <2>1, <2>2, <2>3, EmptyInOrder
  <2>. QED BY <1>1, <1>4, <1>5, <2>1, <2>2, <2>4 DEF Transit
<1>8. CASE ~closed /\ socket # "up"
  <2>1. UNCHANGED wire /\ socket' # "up" /\ (queue' = Append(queue, line) \/ queue' = queue)
    BY <1>3, <1>8 DEF Send, Connect
  <2>2. queue \in Seq(Lines)
    BY DEF Transit, Sorted
  <2>3. Append(queue, line) = queue \o <<line>>
    BY <1>2, <2>2
  <2>4. Sorted(queue \o <<line>>, mark, Len(fired'))
    BY <1>1, <1>4, <1>5, SortedConcat
  <2>5. InOrder(wire, queue) /\ InOrder(wire, Append(queue, line))
    <3>1. InOrder(wire, queue) /\ InOrder(wire, <<line>>)
      BY <1>5 DEF Transit
    <3>2. \A i \in DOMAIN Append(queue, line) :
             \/ i \in DOMAIN queue /\ Append(queue, line)[i] = queue[i]
             \/ Append(queue, line)[i] = <<line>>[1]
      BY <1>2, <2>2
    <3>3. 1 \in DOMAIN <<line>>
      OBVIOUS
    <3>. QED BY <3>1, <3>2, <3>3 DEF InOrder
  <2>6. /\ InOrder(wire', queue')
        /\ Sorted(wire', mark, Len(fired')) /\ Sorted(queue', mark, Len(fired'))
    BY <1>5, <2>1, <2>3, <2>4, <2>5
  <2>. QED BY <1>1, <1>4, <2>1, <2>6 DEF Transit
<1>. QED BY <1>6, <1>7, <1>8

LEMMA SocketKeepsTransit ==
    ASSUME NEW mark \in Nat, Transit(mark), SocketEvent
    PROVE  Transit(mark)'
<1>1. CASE Connected
  <2>1. Len(fired) \in Nat
    BY DEF Transit
  <2>2. Sorted(wire \o queue, mark, Len(fired))
    BY <2>1, SortedConcat DEF Transit
  <2>. QED BY <1>1, <2>1, <2>2, EmptySorted, EmptyInOrder DEF Connected, Transit
<1>2. CASE ConnectFails \/ SocketDestroyed \/ SocketCloses
  BY <1>2 DEF ConnectFails, SocketDestroyed, SocketCloses, Transit
<1>. QED BY <1>1, <1>2 DEF SocketEvent

LEMMA GatewayKeepsTransit ==
    ASSUME NEW mark \in Nat, Transit(mark), GatewayStart \/ GatewayStop
    PROVE  Transit(mark)'
BY DEF GatewayStart, GatewayStop, Connect, Transit

-----------------------------------------------------------------------------
(* The server's steps.                                                     *)

\* The ledger a line is recorded in, before anything of the line is.
Base(key) == IF ledgers[key] = NoLedger THEN NewLedger(sids + 1) ELSE ledgers[key]

\* The ledger is replaced by l, or exported as l and dropped.
Replaced(key, l) == ledgers' = [ledgers EXCEPT ![key] = l] /\ exports' = exports
Finishes(key, l) ==
    /\ ledgers' = [ledgers EXCEPT ![key] = NoLedger]
    /\ exports' = exports \cup {ExportFile(key, l, "end")}

LEMMA BaseLedger ==
    ASSUME NEW mark, Storage(mark), NEW key \in SessionKeys
    PROVE  IsLedger(Base(key))
BY NewLedgerIsLedger DEF Base, Storage

LEMMA LedgerForGrown ==
    ASSUME NEW mark, Storage(mark), NEW line \in Lines, NEW type
    PROVE  LET l == Stored(LedgerFor(line.key), type, Body(line))
           IN  IsLedger(l) /\ l.sid = Base(line.key).sid
                 /\ Grown(Base(line.key).rows, l.rows, line.id)
<1>. DEFINE key == line.key
            b == Base(key)
            l == Stored(LedgerFor(key), type, Body(line))
<1>1. key \in SessionKeys
  BY DEF Lines
<1>2. IsLedger(b) /\ IsSeq(b.rows)
  BY <1>1, BaseLedger DEF IsLedger
<1>3. CASE ledgers[key] # NoLedger
  <2>1. LedgerFor(key) = b
    BY <1>3 DEF LedgerFor, Base
  <2>2. /\ IsLedger(l) /\ l.sid = b.sid
        /\ \E e : e.payload.body = Body(line) /\ l.rows = Append(b.rows, e)
    BY <1>2, <2>1, StoredLedger
  <2>3. PICK e : e.payload.body = Body(line) /\ l.rows = Append(b.rows, e)
    BY <2>2
  <2>4. FromHook(e) => Id(e) = line.id
    BY <2>3, Bodies DEF FromHook, Id
  <2>. QED BY <1>2, <2>2, <2>3, <2>4, OneRowGrown
<1>4. CASE ledgers[key] = NoLedger
  <2>. DEFINE o == Opened(b, b.sid, Implicit)
  <2>1. b = NewLedger(sids + 1) /\ b.sid = sids + 1
    BY <1>4, NewLedgerIsLedger DEF Base
  <2>2. LedgerFor(key) = o
    BY <1>4, <2>1 DEF LedgerFor
  <2>3. /\ IsLedger(o) /\ o.sid = b.sid
        /\ \E e : e.payload.body = Declared(Implicit) /\ o.rows = Append(b.rows, e)
    BY <1>2, OpenedLedger
  <2>. HIDE DEF o
  <2>4. PICK e : e.payload.body = Declared(Implicit) /\ o.rows = Append(b.rows, e)
    BY <2>3
  <2>5. /\ IsLedger(l) /\ l.sid = o.sid
        /\ \E f : f.payload.body = Body(line) /\ l.rows = Append(o.rows, f)
    BY <2>2, <2>3, StoredLedger
  <2>6. PICK f : f.payload.body = Body(line) /\ l.rows = Append(o.rows, f)
    BY <2>5
  <2>7. ~FromHook(e) /\ (FromHook(f) => Id(f) = line.id)
    BY <2>4, <2>6, Bodies DEF FromHook, Id
  <2>. QED BY <1>2, <2>3, <2>4, <2>5, <2>6, <2>7, TwoRowsGrown
<1>. QED BY <1>3, <1>4

LEMMA StartGrown ==
    ASSUME NEW mark, Storage(mark), NEW line \in Lines
    PROVE  LET l == Opened(Base(line.key), Base(line.key).sid, Body(line))
           IN  IsLedger(l) /\ l.sid = Base(line.key).sid
                 /\ Grown(Base(line.key).rows, l.rows, line.id)
<1>. DEFINE b == Base(line.key)
            l == Opened(b, b.sid, Body(line))
<1>1. IsLedger(b) /\ IsSeq(b.rows)
  <2>1. line.key \in SessionKeys
    BY DEF Lines
  <2>. QED BY <2>1, BaseLedger DEF IsLedger
<1>2. /\ IsLedger(l) /\ l.sid = b.sid
      /\ \E e : e.payload.body = Declared(Body(line)) /\ l.rows = Append(b.rows, e)
  BY <1>1, OpenedLedger
<1>3. PICK e : e.payload.body = Declared(Body(line)) /\ l.rows = Append(b.rows, e)
  BY <1>2
<1>4. FromHook(e) => Id(e) = line.id
  BY <1>3, Bodies DEF FromHook, Id
<1>. QED BY <1>1, <1>2, <1>3, <1>4, OneRowGrown

\* What handle_event does, for a hook it knows.
LEMMA HandledLine ==
    ASSUME NEW mark, Storage(mark), NEW line \in Lines, HandleEvent(line)
    PROVE  \/ UNCHANGED <<ledgers, sids, exports>>
           \/ /\ sids' = FreshIds(line.key)
              /\ \E l : /\ IsLedger(l) /\ l.sid = Base(line.key).sid
                        /\ Grown(Base(line.key).rows, l.rows, line.id)
                        /\ Replaced(line.key, l) \/ Finishes(line.key, l)
<1>1. CASE StartSession(line)
  <2>1. /\ sids' = FreshIds(line.key)
        /\ Replaced(line.key, Opened(Base(line.key), Base(line.key).sid, Body(line)))
    BY <1>1 DEF StartSession, Base, Replaced
  <2>. QED BY <2>1, StartGrown
<1>2. CASE RecordEvent(line)
  <2>1. /\ sids' = FreshIds(line.key)
        /\ Replaced(line.key, Stored(LedgerFor(line.key), "ACTION", Body(line)))
    BY <1>2 DEF RecordEvent, Replaced
  <2>. QED BY <2>1, LedgerForGrown
<1>3. CASE EndSession(line)
  <2>1. /\ sids' = FreshIds(line.key)
        /\ Finishes(line.key, Stored(LedgerFor(line.key), "SESSION_END", Body(line)))
    BY <1>3 DEF EndSession, Finishes
  <2>. QED BY <2>1, LedgerForGrown
<1>4. CASE Unrecognized(line)
  BY <1>4 DEF Unrecognized
<1>. QED BY <1>1, <1>2, <1>3, <1>4 DEF HandleEvent

LEMMA HandlingKeepsStorage ==
    ASSUME NEW mark \in Nat, Storage(mark), NEW line \in Lines, mark < line.id,
           HandleEvent(line), UNCHANGED orphans
    PROVE  Storage(line.id)'
<1>. DEFINE key == line.key
            n == line.id
            b == Base(key)
<1>1. key \in SessionKeys /\ n \in Nat /\ sids \in Nat
  BY DEF Lines, Storage
<1>2. \A k \in SessionKeys : Kept(Logs(k), sids, n)
  BY <1>1, KeptLater DEF Storage
<1>3. CASE UNCHANGED <<ledgers, sids, exports>>
  <2>1. Storage(n)
    BY <1>2 DEF Storage
  <2>. QED BY <1>3, <2>1, StorageKept DEF storage
<1>4. ASSUME sids' = FreshIds(key),
             NEW l, IsLedger(l), l.sid = b.sid, Grown(b.rows, l.rows, n),
             Replaced(key, l) \/ Finishes(key, l)
      PROVE  Storage(n)'
  <2>1. l # NoLedger
    BY <1>4, LedgerIsPresent
  <2>2. /\ b.sid \in Nat \ {0} /\ sids <= sids' /\ b.sid <= sids' /\ sids' \in Nat
        /\ <<b.sid, b.rows>> \in Logs(key) \/ (b.rows = <<>> /\ b.sid = sids + 1)
        /\ \A a \in ClosedLogs(key) : a[1] < b.sid
        /\ OpenLogs(key) \subseteq {<<b.sid, b.rows>>}
    <3>1. CASE ledgers[key] = NoLedger
      <4>1. b.sid = sids + 1 /\ b.rows = <<>> /\ sids' = sids + 1
        BY <1>4, <3>1, NewLedgerIsLedger DEF Base, FreshIds
      <4>2. \A a \in ClosedLogs(key) : a[1] \in 1..sids
        BY <1>1 DEF Logs, Storage, Kept
      <4>3. \A a \in ClosedLogs(key) : a[1] < b.sid
        BY <1>1, <4>1, <4>2
      <4>. QED BY <1>1, <3>1, <4>1, <4>3 DEF OpenLogs
    <3>2. CASE ledgers[key] # NoLedger
      <4>1. b = ledgers[key] /\ sids' = sids
        BY <1>4, <3>2 DEF Base, FreshIds
      <4>2. OpenLogs(key) = {<<b.sid, b.rows>>}
        BY <3>2, <4>1 DEF OpenLogs
      <4>3. <<b.sid, b.rows>> \in Logs(key)
        BY <4>2 DEF Logs
      <4>4. b.sid \in 1..sids
        <5>. PICK p : p = <<b.sid, b.rows>>
          OBVIOUS
        <5>1. p[1] = b.sid /\ p \in Logs(key)
          BY <4>3
        <5>. QED BY <1>1, <5>1 DEF Storage, Kept
      <4>5. \A a \in ClosedLogs(key) : a[1] < b.sid
        BY <1>1, <3>2, <4>1 DEF Storage
      <4>. QED BY <1>1, <4>1, <4>2, <4>3, <4>4, <4>5
    <3>. QED BY <3>1, <3>2
  <2>. HIDE DEF b
  <2>3. \A k \in SessionKeys : k # key => ledgers'[k] = ledgers[k]
    BY <1>1, <1>4 DEF Replaced, Finishes, Storage
  <2>4. \A k \in SessionKeys : k # key => ClosedLogs(k)' = ClosedLogs(k)
    BY <1>4 DEF ClosedLogs, Replaced, Finishes, ExportFile
  <2>5. \A k \in SessionKeys : k # key => Logs(k)' = Logs(k)
    BY <2>3, <2>4 DEF Logs, OpenLogs
  <2>6. /\ Logs(key)' = ClosedLogs(key) \cup {<<b.sid, l.rows>>}
        /\ ledgers'[key] = l \/ ledgers'[key] = NoLedger
        /\ ledgers'[key] # NoLedger => ClosedLogs(key)' = ClosedLogs(key)
    <3>1. CASE Replaced(key, l)
      <4>1. ledgers'[key] = l
        BY <1>1, <3>1 DEF Replaced, Storage
      <4>2. ClosedLogs(key)' = ClosedLogs(key)
        BY <3>1 DEF Replaced, ClosedLogs
      <4>3. OpenLogs(key)' = {<<b.sid, l.rows>>}
        BY <1>4, <2>1, <4>1 DEF OpenLogs
      <4>. QED BY <4>1, <4>2, <4>3 DEF Logs
    <3>2. CASE Finishes(key, l)
      <4>1. ledgers'[key] = NoLedger
        BY <1>1, <3>2 DEF Finishes, Storage
      <4>2. ClosedLogs(key)' = ClosedLogs(key) \cup {<<b.sid, l.rows>>}
        <5>. PICK r : r = ExportFile(key, l, "end")
          OBVIOUS
        <5>1. r.key = key /\ r.sid = b.sid /\ r.rows = l.rows
          BY <1>4 DEF ExportFile
        <5>2. exports' = exports \cup {r}
          BY <3>2 DEF Finishes
        <5>. QED BY <5>1, <5>2 DEF ClosedLogs
      <4>3. OpenLogs(key)' = {}
        BY <4>1 DEF OpenLogs
      <4>. QED BY <4>1, <4>2, <4>3 DEF Logs
    <3>. QED BY <1>4, <3>1, <3>2
  <2>7. Logs(key)' = WithLog(Logs(key), b.sid, l.rows)
    <3>1. \A a \in ClosedLogs(key) : a[1] \in Nat /\ a[1] # b.sid
      <4>1. \A a \in ClosedLogs(key) : a[1] \in Nat
        BY <1>1 DEF Logs, Storage, Kept
      <4>. QED BY <2>2, <4>1
    <3>2. \A a \in OpenLogs(key) : a[1] = b.sid
      BY <2>2
    <3>. QED BY <2>6, <3>1, <3>2 DEF Logs, WithLog
  <2>8. Kept(Logs(key)', sids', n)
    <3>1. IsNewest(b.sid, Logs(key))
      <4>1. \A a \in Logs(key) : a[1] \in Nat
        BY <1>1 DEF Storage, Kept
      <4>. QED BY <2>2, <4>1 DEF Logs, IsNewest
    <3>2. Kept(Logs(key), sids, mark)
      BY <1>1 DEF Storage
    <3>. PICK logs, ids, sid, rows, longer, n1, more :
              /\ logs = Logs(key) /\ ids = sids /\ sid = b.sid /\ rows = b.rows
              /\ longer = l.rows /\ n1 = n /\ more = sids'
      OBVIOUS
    <3>3. /\ ids \in Nat /\ mark \in Nat /\ Kept(logs, ids, mark)
          /\ sid \in Nat \ {0} /\ CanGrow(logs, ids, sid, rows)
          /\ n1 \in Nat /\ mark < n1 /\ Grown(rows, longer, n1)
          /\ more \in Nat /\ ids <= more /\ sid <= more
      BY <1>1, <1>4, <2>2, <3>1, <3>2 DEF CanGrow
    <3>4. Kept(WithLog(logs, sid, longer), more, n1)
      BY ONLY <3>3, NewestGrows
    <3>. QED BY <2>7, <3>4
  <2>9. \A k \in SessionKeys : Kept(Logs(k)', sids', n)
    BY <1>1, <1>2, <2>2, <2>5, <2>8, KeptLater
  <2>10. /\ ledgers' = [k \in SessionKeys |-> ledgers'[k]]
         /\ \A k \in SessionKeys : ledgers'[k] = NoLedger \/ IsLedger(ledgers'[k])
    BY <1>4, <2>3, <2>6 DEF Replaced, Finishes, Storage
  <2>11. \A k \in SessionKeys : ledgers'[k] # NoLedger =>
            \A a \in ClosedLogs(k)' : a[1] < ledgers'[k].sid
    BY <1>4, <2>2, <2>3, <2>4, <2>6 DEF Storage
  <2>. QED BY <2>2, <2>9, <2>10, <2>11 DEF Storage
<1>. QED BY <1>3, <1>4, HandledLine

LEMMA ReadLineKeepsInv == Inv /\ ReadLine => Inv'
<1>. SUFFICES ASSUME NEW mark \in Nat, Transit(mark), Storage(mark), ReadLine PROVE Inv'
  BY DEF Inv
<1>. PICK line : line = Head(wire)
  OBVIOUS
<1>1. Sorted(wire, mark, Len(fired)) /\ wire # <<>> /\ Len(fired) \in Nat
  BY DEF Transit, ReadLine
<1>2. /\ line \in Lines /\ mark < line.id /\ line.id <= Len(fired)
      /\ Sorted(Tail(wire), line.id, Len(fired))
      /\ InOrder(Tail(wire), queue) /\ Sorted(queue, line.id, Len(fired))
  BY <1>1, SortedTail DEF Transit
<1>3. line.id \in Nat
  BY <1>2 DEF Lines
<1>4. HandleEvent(line) /\ UNCHANGED orphans /\ wire' = Tail(wire) /\ UNCHANGED plugin
  BY DEF ReadLine
<1>5. Storage(line.id)'
  BY <1>2, <1>4, HandlingKeepsStorage
<1>6. Transit(line.id)'
  BY <1>2, <1>4 DEF Transit, plugin
<1>. QED BY <1>3, <1>5, <1>6 DEF Inv

LEMMA DownKeepsInv == Inv /\ (ServerStop \/ ServerCrash) => Inv'
<1>. SUFFICES ASSUME NEW mark \in Nat, Transit(mark), Storage(mark), ServerStop \/ ServerCrash
              PROVE  Transit(mark)' /\ Storage(mark)'
  BY DEF Inv
<1>1. /\ ledgers' = [k \in SessionKeys |-> NoLedger] /\ wire' = <<>>
      /\ UNCHANGED <<plugin, sids>>
  BY DEF ServerStop, ServerCrash, Down
<1>2. PICK how : exports' \cup orphans' =
                   (exports \cup orphans) \cup {ExportFile(k, ledgers[k], how) : k \in OpenKeys}
  BY DEF ServerStop, ServerCrash
<1>3. Transit(mark)'
  <2>1. Len(fired) \in Nat
    BY DEF Transit
  <2>. QED BY <1>1, <2>1, EmptySorted, EmptyInOrder DEF Transit, plugin
<1>4. ASSUME NEW k \in SessionKeys
      PROVE  Logs(k)' = Logs(k)
  <2>1. OpenLogs(k)' = {}
    BY <1>1 DEF OpenLogs
  <2>2. ClosedLogs(k)' = ClosedLogs(k) \cup OpenLogs(k)
    <3>1. \A x : ExportFile(x, ledgers[x], how).key = x
                 /\ ExportFile(x, ledgers[x], how).sid = ledgers[x].sid
                 /\ ExportFile(x, ledgers[x], how).rows = ledgers[x].rows
      BY DEF ExportFile
    <3>. PICK file : file = [x \in OpenKeys |-> ExportFile(x, ledgers[x], how)]
      OBVIOUS
    <3>2. /\ exports' \cup orphans' = (exports \cup orphans) \cup {file[x] : x \in OpenKeys}
          /\ \A x \in OpenKeys : /\ file[x].key = x /\ file[x].sid = ledgers[x].sid
                                 /\ file[x].rows = ledgers[x].rows
      BY <1>2, <3>1
    <3>3. \A r : r \in exports' \cup orphans' /\ r.key = k <=>
                 \/ r \in exports \cup orphans /\ r.key = k
                 \/ k \in OpenKeys /\ r = file[k]
      BY <3>2
    <3>4. \A a : a \in ClosedLogs(k)' <=>
                 \/ a \in ClosedLogs(k)
                 \/ k \in OpenKeys /\ a = <<ledgers[k].sid, ledgers[k].rows>>
      BY <3>2, <3>3 DEF ClosedLogs
    <3>. QED BY <3>4 DEF OpenLogs, OpenKeys
  <2>. QED BY <2>1, <2>2 DEF Logs
<1>5. Storage(mark)'
  BY <1>1, <1>4 DEF Storage
<1>. QED BY <1>3, <1>5

LEMMA InvKept == Inv /\ [Next]_vars => Inv'
<1>1. ASSUME NEW mark \in Nat, Transit(mark), Storage(mark), UNCHANGED storage, Transit(mark)'
      PROVE  Inv'
  BY <1>1, StorageKept DEF Inv
<1>. SUFFICES ASSUME Inv, [Next]_vars PROVE Inv'
  OBVIOUS
<1>2. PICK mark \in Nat : Transit(mark) /\ Storage(mark)
  BY DEF Inv
<1>3. CASE GatewayStart \/ GatewayStop
  <2>1. UNCHANGED storage
    BY <1>3 DEF GatewayStart, GatewayStop, storage, bridge
  <2>. QED BY <1>1, <1>2, <1>3, <2>1, GatewayKeepsTransit
<1>4. CASE SocketEvent
  <2>1. UNCHANGED storage
    BY <1>4 DEF SocketEvent, Connected, ConnectFails, SocketDestroyed, SocketCloses, storage, bridge
  <2>. QED BY <1>1, <1>2, <1>4, <2>1, SocketKeepsTransit
<1>5. ASSUME NEW k \in SessionKeys, NEW h \in Hooks, Fire(k, h)
      PROVE  Inv'
  <2>1. UNCHANGED storage
    BY <1>5 DEF Fire, storage, bridge
  <2>. QED BY <1>1, <1>2, <1>5, <2>1, FireKeepsTransit
<1>6. CASE ServerStart \/ UNCHANGED vars
  <2>1. UNCHANGED storage /\ Transit(mark)'
    BY <1>2, <1>6 DEF ServerStart, storage, vars, plugin, bridge, Transit
  <2>. QED BY <1>1, <1>2, <2>1
<1>. QED BY <1>3, <1>4, <1>5, <1>6, ReadLineKeepsInv, DownKeepsInv DEF Next

LEMMA Invariance == Spec => []Inv
BY Started, InvKept, PTL DEF Spec

-----------------------------------------------------------------------------
(* Files as complete as their sessions.                                    *)

\* A row of a session that goes on.
OpenRow(e) ==
    /\ IsEvent(e) /\ e.type \in {"SESSION_START", "ACTION"}
    /\ e.type = "SESSION_START" => Has(e.payload.body, "canon") /\ e.payload.body.canon = Rfc8785

OpenRows(log) == \A i \in DOMAIN log : OpenRow(log[i])

OpenLedger(l) == Tracking(l) /\ OpenRows(l.rows)

LEMMA FirstStartIsStart ==
    ASSUME NEW log, NEW sid, IsLogOf(log, sid), HasStart(log)
    PROVE  FirstStart(log) \in Of(log, "SESSION_START")
<1>. PICK S : S = Of(log, "SESSION_START")
  OBVIOUS
<1>. DEFINE num == [i \in S |-> log[i].seq]
<1>1. DOMAIN log = 1..Len(log) /\ Len(log) \in Nat
  BY SeqDomain DEF IsLogOf
<1>2. S # {} /\ S \in SUBSET Nat /\ \A i \in S : log[i].seq \in Nat
  BY <1>1 DEF HasStart, IsLogOf, Of
<1>3. PICK low \in {log[i].seq : i \in S} : \A n \in {log[i].seq : i \in S} : low <= n
  <2>1. {log[i].seq : i \in S} \in SUBSET Nat /\ {log[i].seq : i \in S} # {}
    BY <1>2
  <2>. QED BY ONLY <2>1, LeastElement
<1>. PICK T : T = {i \in S : log[i].seq = low}
  OBVIOUS
<1>4. PICK i \in T : \A j \in T : i <= j
  <2>1. T \in SUBSET Nat /\ T # {}
    BY <1>2
  <2>. QED BY ONLY <2>1, LeastElement
<1>5. i \in S /\ log[i].seq = low /\ \A j \in S : low <= log[j].seq
  BY <1>3
<1>6. \A j \in S :
         log[i].seq < log[j].seq \/ (log[i].seq = log[j].seq /\ i <= j)
  <2>. SUFFICES ASSUME NEW j \in S
                PROVE  log[i].seq < log[j].seq \/ (log[i].seq = log[j].seq /\ i <= j)
    OBVIOUS
  <2>1. low \in Nat /\ log[j].seq \in Nat /\ low <= log[j].seq
    BY <1>2, <1>5
  <2>2. log[j].seq = low => j \in T
    OBVIOUS
  <2>. QED BY <1>4, <1>5, <2>1, <2>2
<1>. QED BY <1>5, <1>6 DEF FirstStart

\* Rows without an end are refused.
LEMMA OpenIsRefused ==
    ASSUME NEW log, NEW sid, IsLogOf(log, sid), log # <<>>, OpenRows(log)
    PROVE  PythonVerify(log, NoPin, FALSE).status = "COMPROMISED"
<1>1. \A i \in DOMAIN log : IsEvent(log[i]) /\ log[i].type \notin {"SESSION_END", "CHAIN_SEAL"}
  BY DEF OpenRows, OpenRow
<1>2. SelectCanonicalization(log) # Unsupported
  <2>1. CASE Of(log, "SESSION_START") = {}
    BY <2>1 DEF SelectCanonicalization, Legacy, Unsupported
  <2>2. CASE Of(log, "SESSION_START") # {}
    <3>1. HasStart(log)
      BY <2>2 DEF Of, HasStart
    <3>. PICK first : first = FirstStart(log)
      OBVIOUS
    <3>2. first \in DOMAIN log /\ log[first].type = "SESSION_START"
      BY <3>1, FirstStartIsStart DEF Of
    <3>3. Has(log[first].payload.body, "canon") /\ log[first].payload.body.canon = Rfc8785
      BY <3>2 DEF OpenRows, OpenRow
    <3>. QED BY <2>2, <3>3 DEF SelectCanonicalization, Rfc8785, Unsupported
  <2>. QED BY <2>1, <2>2
<1>3. ~Completeness(log)
  BY <1>1 DEF Completeness, Of
<1>4. \A r, t : Verdict("COMPROMISED", "NO_EVIDENCE", r, t).status = "COMPROMISED"
  BY DEF Verdict
<1>. QED BY <1>1, <1>2, <1>3, <1>4 DEF PythonVerify

LEMMA OpenFileIsRefused ==
    ASSUME NEW l, OpenLedger(l)
    PROVE  PythonVerify(Exported(l), NoPin, FALSE).status = "COMPROMISED"
<1>. PICK lines : lines = Exported(l)
  OBVIOUS
<1>1. IsLogOf(l.rows, l.sid) /\ HasStart(l.rows) /\ OpenRows(l.rows)
  BY DEF OpenLedger, Tracking
<1>2. /\ IsSeq(lines) /\ Len(lines) = Len(l.rows)
      /\ \A k \in DOMAIN lines : \E i \in DOMAIN l.rows : lines[k] = l.rows[i]
  BY <1>1, ExportedLog
<1>3. IsLogOf(lines, l.sid) /\ OpenRows(lines)
  BY <1>1, <1>2 DEF IsLogOf, OpenRows
<1>4. lines # <<>>
  <2>1. Len(l.rows) # 0
    BY <1>1, SeqDomain DEF HasStart, IsLogOf
  <2>. QED BY <1>2, <2>1
<1>. QED BY <1>3, <1>4, OpenIsRefused

\* A file that ends is INTACT, unless its session was started twice.
LEMMA EndedFileIsIntact ==
    ASSUME NEW l, Tracking(l), EndsIfOne(l), Cardinality(Of(l.rows, "SESSION_START")) <= 1
    PROVE  PythonVerify(Exported(l), NoPin, FALSE).status = "INTACT"
<1>1. ~StartsTwice(l.rows)
  BY TwoStarts DEF Tracking, IsLogOf
<1>. QED BY <1>1, EndedVerifies DEF Tracking, EndsIfOne

LEMMA OpenRowAppended ==
    ASSUME NEW log, NEW sid, IsLogOf(log, sid), OpenRows(log), NEW e, OpenRow(e)
    PROVE  OpenRows(Append(log, e))
BY Appending, SeqDomain DEF IsLogOf, OpenRows

LEMMA BuiltIsEvent ==
    ASSUME NEW n, NEW type, NEW sid, NEW body, NEW prev,
           NEW e, e = BuildEvent(n, type, sid, Payload(body), prev, NoKey)
    PROVE  IsEvent(e) /\ e.type = type /\ e.payload.body = body
BY DEF BuildEvent, IsEvent, Torn, Payload

\* open_session.
LEMMA OpenedIsOpen ==
    ASSUME NEW l, IsLedger(l), NEW sid, IsLogOf(l.rows, sid), EmptyOrStarted(l.rows),
           OpenRows(l.rows), NEW body, ~Has(body, "pubkey")
    PROVE  OpenLedger(Opened(l, sid, body)) /\ Opened(l, sid, body).sid = sid
<1>1. PICK e : e = BuildEvent(1, "SESSION_START", sid, Payload(Declared(body)), Genesis, NoKey)
  OBVIOUS
<1>2. OpenRow(e)
  <2>1. Has(Declared(body), "canon") /\ Declared(body).canon = Rfc8785
    BY DEF Has, Declared
  <2>. QED BY <1>1, <2>1, BuiltIsEvent DEF OpenRow
<1>3. Opened(l, sid, body).rows = Append(l.rows, e)
  BY <1>1, OpenedForm
<1>4. OpenRows(Opened(l, sid, body).rows)
  BY <1>2, <1>3, OpenRowAppended
<1>. QED BY <1>4, OpenedTracks DEF OpenLedger

\* __write_event of a hook.
LEMMA StoredIsOpen ==
    ASSUME NEW l, OpenLedger(l), NEW body
    PROVE  OpenLedger(Stored(l, "ACTION", body)) /\ Stored(l, "ACTION", body).sid = l.sid
<1>1. PICK e : e = BuildEvent(l.next, "ACTION", l.sid, Payload(body), l.tip, NoKey)
  OBVIOUS
<1>2. OpenRow(e)
  BY <1>1, BuiltIsEvent DEF OpenRow
<1>3. Stored(l, "ACTION", body).rows = Append(l.rows, e)
  BY <1>1, StoredForm DEF OpenLedger, Tracking
<1>4. OpenRows(Stored(l, "ACTION", body).rows)
  BY <1>2, <1>3, OpenRowAppended DEF OpenLedger, Tracking
<1>. QED BY <1>4, StoredTracks DEF OpenLedger

\* The ledgers are open ones, and the files are right.
AllOpen == \A k \in SessionKeys : ledgers[k] # NoLedger => OpenLedger(ledgers[k])
Complete == AllOpen /\ CompleteExactlyWhenEnded

FileOk(r) ==
    LET status == PythonVerify(r.lines, NoPin, FALSE).status
    IN  IF r.how = "end" THEN Cardinality(Starts(r)) <= 1 => status = "INTACT"
        ELSE status = "COMPROMISED"

LEMMA FilesAreOk == CompleteExactlyWhenEnded <=> \A r \in exports \cup orphans : FileOk(r)
BY DEF CompleteExactlyWhenEnded, FileOk

LEMMA BaseIsOpen ==
    ASSUME AllOpen, NEW key \in SessionKeys
    PROVE  /\ IsLedger(Base(key)) /\ IsLogOf(Base(key).rows, Base(key).sid)
           /\ EmptyOrStarted(Base(key).rows) /\ OpenRows(Base(key).rows)
<1>1. CASE ledgers[key] = NoLedger
  <2>1. IsLedger(Base(key)) /\ Base(key).rows = <<>>
    BY <1>1, NewLedgerIsLedger DEF Base
  <2>. QED BY <2>1 DEF IsLogOf, EmptyOrStarted, OpenRows, IsSeq
<1>2. CASE ledgers[key] # NoLedger
  BY <1>2 DEF Base, AllOpen, OpenLedger, Tracking, EmptyOrStarted
<1>. QED BY <1>1, <1>2

LEMMA LedgerForIsOpen ==
    ASSUME AllOpen, NEW key \in SessionKeys
    PROVE  OpenLedger(LedgerFor(key))
<1>1. CASE ledgers[key] = NoLedger
  <2>. PICK b : b = NewLedger(sids + 1)
    OBVIOUS
  <2>1. b = Base(key) /\ b.sid = sids + 1 /\ LedgerFor(key) = Opened(b, b.sid, Implicit)
    BY <1>1, NewLedgerIsLedger DEF Base, LedgerFor
  <2>2. ~Has(Implicit, "pubkey")
    BY DEF Has, Implicit
  <2>. QED BY <2>1, <2>2, BaseIsOpen, OpenedIsOpen
<1>2. CASE ledgers[key] # NoLedger
  BY <1>2 DEF LedgerFor, AllOpen
<1>. QED BY <1>1, <1>2

LEMMA HandledOpen ==
    ASSUME AllOpen, NEW line \in Lines, HandleEvent(line)
    PROVE  \/ UNCHANGED <<ledgers, exports>>
           \/ \E l : OpenLedger(l) /\ Replaced(line.key, l)
           \/ \E l : Tracking(l) /\ EndsIfOne(l) /\ Finishes(line.key, l)
<1>1. line.key \in SessionKeys
  BY DEF Lines
<1>2. CASE StartSession(line)
  <2>. PICK b : b = Base(line.key)
    OBVIOUS
  <2>1. Replaced(line.key, Opened(b, b.sid, Body(line)))
    BY <1>2 DEF StartSession, Base, Replaced
  <2>2. ~Has(Body(line), "pubkey")
    BY DEF Has, Body
  <2>3. OpenLedger(Opened(b, b.sid, Body(line)))
    BY <1>1, <2>2, BaseIsOpen, OpenedIsOpen
  <2>. QED BY <2>1, <2>3
<1>3. CASE RecordEvent(line)
  <2>1. Replaced(line.key, Stored(LedgerFor(line.key), "ACTION", Body(line)))
    BY <1>3 DEF RecordEvent, Replaced
  <2>. QED BY <1>1, <2>1, LedgerForIsOpen, StoredIsOpen
<1>4. CASE EndSession(line)
  <2>. PICK l : l = Stored(LedgerFor(line.key), "SESSION_END", Body(line))
    OBVIOUS
  <2>1. Finishes(line.key, l)
    BY <1>4 DEF EndSession, Finishes
  <2>2. Tracking(LedgerFor(line.key))
    BY <1>1, LedgerForIsOpen DEF OpenLedger
  <2>3. Tracking(l) /\ EndsIfOne(l)
    BY <2>2, StoredTracks
  <2>. QED BY <2>1, <2>3
<1>5. CASE Unrecognized(line)
  BY <1>5 DEF Unrecognized
<1>. QED BY <1>2, <1>3, <1>4, <1>5 DEF HandleEvent

LEMMA ReadLineKeepsComplete ==
    ASSUME NEW mark \in Nat, Transit(mark), Storage(mark), Complete, ReadLine
    PROVE  Complete'
<1>1. PICK line \in Lines : HandleEvent(line) /\ UNCHANGED orphans
  <2>1. Sorted(wire, mark, Len(fired)) /\ wire # <<>> /\ Len(fired) \in Nat
    BY DEF Transit, ReadLine
  <2>2. Head(wire) \in Lines
    BY <2>1, SortedTail
  <2>. QED BY <2>2 DEF ReadLine
<1>2. AllOpen /\ (\A r \in exports \cup orphans : FileOk(r)) /\ line.key \in SessionKeys
  BY FilesAreOk DEF Complete, Lines
<1>3. CASE UNCHANGED <<ledgers, exports>>
  BY <1>1, <1>2, <1>3 DEF Complete, AllOpen, CompleteExactlyWhenEnded, FileOk
<1>4. ASSUME NEW l, OpenLedger(l), Replaced(line.key, l)
      PROVE  Complete'
  <2>1. \A k \in SessionKeys : ledgers'[k] = IF k = line.key THEN l ELSE ledgers[k]
    BY <1>4 DEF Replaced, Storage
  <2>2. AllOpen'
    BY <1>2, <1>4, <2>1 DEF AllOpen
  <2>3. CompleteExactlyWhenEnded'
    BY <1>1, <1>2, <1>4 DEF Replaced, CompleteExactlyWhenEnded, FileOk
  <2>. QED BY <2>2, <2>3 DEF Complete
<1>5. ASSUME NEW l, Tracking(l), EndsIfOne(l), Finishes(line.key, l)
      PROVE  Complete'
  <2>1. \A k \in SessionKeys : ledgers'[k] = IF k = line.key THEN NoLedger ELSE ledgers[k]
    BY <1>5 DEF Finishes, Storage
  <2>2. AllOpen'
    BY <1>2, <2>1 DEF AllOpen
  <2>. PICK r : r = ExportFile(line.key, l, "end")
    OBVIOUS
  <2>3. r.lines = Exported(l) /\ r.rows = l.rows /\ r.how = "end"
    BY DEF ExportFile
  <2>4. FileOk(r)
    BY <1>5, <2>3, EndedFileIsIntact DEF FileOk, Starts
  <2>5. exports' = exports \cup {r}
    BY <1>5 DEF Finishes
  <2>6. CompleteExactlyWhenEnded'
    BY <1>1, <1>2, <2>4, <2>5 DEF CompleteExactlyWhenEnded, FileOk
  <2>. QED BY <2>2, <2>6 DEF Complete
<1>. QED BY <1>1, <1>2, <1>3, <1>4, <1>5, HandledOpen

LEMMA DownKeepsComplete ==
    ASSUME Complete, ServerStop \/ ServerCrash
    PROVE  Complete'
<1>1. AllOpen'
  BY DEF ServerStop, ServerCrash, Down, AllOpen
<1>2. PICK how \in {"stop", "crash"} : exports' \cup orphans' =
                   (exports \cup orphans) \cup {ExportFile(k, ledgers[k], how) : k \in OpenKeys}
  BY DEF ServerStop, ServerCrash
<1>3. ASSUME NEW k \in OpenKeys PROVE FileOk(ExportFile(k, ledgers[k], how))
  <2>. PICK r : r = ExportFile(k, ledgers[k], how)
    OBVIOUS
  <2>1. r.lines = Exported(ledgers[k]) /\ r.how # "end"
    BY DEF ExportFile
  <2>2. OpenLedger(ledgers[k])
    BY DEF OpenKeys, Complete, AllOpen
  <2>. QED BY <2>1, <2>2, OpenFileIsRefused DEF FileOk
<1>4. \A r \in exports \cup orphans : FileOk(r)
  BY FilesAreOk DEF Complete
<1>5. \A r \in exports' \cup orphans' : FileOk(r)
  BY <1>2, <1>3, <1>4
<1>6. CompleteExactlyWhenEnded'
  BY <1>5 DEF CompleteExactlyWhenEnded, FileOk
<1>. QED BY <1>1, <1>6 DEF Complete

LEMMA CompleteKept == Inv /\ Complete /\ [Next]_vars => Complete'
<1>. SUFFICES ASSUME NEW mark \in Nat, Transit(mark), Storage(mark), Complete, [Next]_vars
              PROVE  Complete'
  BY DEF Inv
<1>1. CASE UNCHANGED <<ledgers, exports, orphans>>
  BY <1>1 DEF Complete, AllOpen, CompleteExactlyWhenEnded
<1>2. ReadLine \/ ServerStop \/ ServerCrash \/ UNCHANGED <<ledgers, exports, orphans>>
  BY DEF Next, GatewayStart, GatewayStop, SocketEvent, Connected, ConnectFails, SocketDestroyed,
         SocketCloses, Fire, ServerStart, bridge, vars
<1>. QED BY <1>1, <1>2, ReadLineKeepsComplete, DownKeepsComplete

-----------------------------------------------------------------------------
(* The theorems.                                                           *)

\* Whatever is queued, dropped, lost or cut off by a crash, and however the gateway
\* overlaps sessions: what is stored for a key is in the order of its hooks, and no
\* hook is stored twice (index.ts, send and "connect"; openclaw.py, handle_event).
THEOREM HooksStayInOrder == Spec => []OrderKept
<1>1. Inv => OrderKept
  <2>. SUFFICES ASSUME NEW mark \in Nat, Storage(mark), NEW k \in SessionKeys,
                       NEW r \in Records(k), NEW q \in Records(k),
                       NEW i \in FromHooks(r), NEW j \in FromHooks(q),
                       r.sid < q.sid \/ (r.sid = q.sid /\ i < j)
                PROVE  Id(r.rows[i]) < Id(q.rows[j])
    BY DEF OrderKept, Inv
  <2>1. ASSUME NEW x \in Records(k) PROVE <<x.sid, x.rows>> \in Logs(k)
    <3>1. CASE x \in exports \cup orphans /\ x.key = k
      BY <3>1 DEF Logs, ClosedLogs
    <3>2. CASE ledgers[k] # NoLedger /\ x = ExportFile(k, ledgers[k], "open")
      <4>1. x.sid = ledgers[k].sid /\ x.rows = ledgers[k].rows
        BY <3>2 DEF ExportFile
      <4>. QED BY <3>2, <4>1 DEF Logs, OpenLogs
    <3>. QED BY <3>1, <3>2 DEF Records
  <2>2. PICK a, b \in Logs(k) : a = <<r.sid, r.rows>> /\ b = <<q.sid, q.rows>>
    BY <2>1
  <2>3. a[1] = r.sid /\ a[2] = r.rows /\ b[1] = q.sid /\ b[2] = q.rows
    BY <2>2
  <2>4. /\ i \in DOMAIN r.rows /\ FromHook(r.rows[i])
        /\ j \in DOMAIN q.rows /\ FromHook(q.rows[j])
    BY DEF FromHooks, FromHook
  <2>5. CASE r.sid < q.sid
    BY <2>3, <2>4, <2>5 DEF Storage, Kept, Before
  <2>6. CASE r.sid = q.sid /\ i < j
    <3>1. r.rows = q.rows /\ Ordered(r.rows, mark)
      BY <2>3, <2>6 DEF Storage, Kept
    <3>. QED BY <2>4, <2>6, <3>1 DEF Ordered
  <2>. QED BY <2>5, <2>6
<1>. QED BY <1>1, Invariance, PTL

LEMMA WholeSubSeq ==
    ASSUME NEW rows, IsSeq(rows), NEW longer, NEW n, Grown(rows, longer, n)
    PROVE  SubSeq(longer, 1, Len(rows)) = rows
<1>. DEFINE m == Len(rows)
            S == {longer[i] : i \in DOMAIN longer}
<1>1. /\ DOMAIN rows = 1..m /\ m \in Nat
      /\ DOMAIN longer = 1..Len(longer) /\ Len(longer) \in Nat /\ m <= Len(longer)
      /\ \A i \in 1..m : longer[i] = rows[i]
  BY SeqDomain DEF Grown
<1>2. \A i \in 1..m : longer[i] \in S
  BY <1>1
<1>3. /\ SubSeq(longer, 1, m) \in Seq(S)
      /\ Len(SubSeq(longer, 1, m)) = IF 1 <= m THEN m - 1 + 1 ELSE 0
      /\ \A i \in 1..(m - 1 + 1) : SubSeq(longer, 1, m)[i] = longer[1 + i - 1]
  BY <1>1, <1>2, SubSeqProperties
<1>. HIDE DEF m, S
<1>4. Len(SubSeq(longer, 1, m)) = m /\ DOMAIN SubSeq(longer, 1, m) = 1..m
      /\ \A i \in 1..m : SubSeq(longer, 1, m)[i] = rows[i]
  BY <1>1, <1>3
<1>5. SubSeq(longer, 1, m) = [i \in 1..m |-> SubSeq(longer, 1, m)[i]]
  BY <1>3, <1>4
<1>6. rows = [i \in 1..m |-> rows[i]]
  BY <1>1 DEF IsSeq
<1>. QED BY <1>4, <1>5, <1>6 DEF m

\* No step makes the server forget a ledger without a file of its rows, or a database
\* that a crash left (openclaw.py, _close_and_export and close_all).
THEOREM NothingReadIsForgotten == Spec => ReadMeansKept
<1>1. Inv /\ [Next]_vars => [
         \A k \in SessionKeys : ledgers[k] # NoLedger /\ ledgers'[k] = NoLedger =>
            \E r \in exports' \cup orphans' :
               /\ r.key = k /\ r.sid = ledgers[k].sid
               /\ SubSeq(r.rows, 1, Len(ledgers[k].rows)) = ledgers[k].rows]_vars
  <2>. SUFFICES ASSUME NEW mark \in Nat, Transit(mark), Storage(mark), Next,
                       NEW k \in SessionKeys, ledgers[k] # NoLedger, ledgers'[k] = NoLedger
                PROVE  \E r \in exports' \cup orphans' :
                          /\ r.key = k /\ r.sid = ledgers[k].sid
                          /\ SubSeq(r.rows, 1, Len(ledgers[k].rows)) = ledgers[k].rows
    BY DEF Inv
  <2>1. IsLedger(ledgers[k]) /\ IsSeq(ledgers[k].rows)
    BY DEF Storage, IsLedger
  <2>2. CASE ReadLine
    <3>1. PICK line \in Lines : HandleEvent(line)
      <4>1. Sorted(wire, mark, Len(fired)) /\ wire # <<>> /\ Len(fired) \in Nat
        BY <2>2 DEF Transit, ReadLine
      <4>2. Head(wire) \in Lines
        BY <4>1, SortedTail
      <4>. QED BY <2>2, <4>2 DEF ReadLine
    <3>2. PICK l : /\ IsLedger(l) /\ l.sid = Base(line.key).sid
                   /\ Grown(Base(line.key).rows, l.rows, line.id)
                   /\ Replaced(line.key, l) \/ Finishes(line.key, l)
      BY <3>1, HandledLine
    <3>3. l # NoLedger
      BY <3>2, LedgerIsPresent
    <3>4. k = line.key /\ Finishes(k, l)
      BY <3>2, <3>3 DEF Replaced, Finishes, Storage
    <3>5. Base(k) = ledgers[k]
      BY DEF Base
    <3>6. SubSeq(l.rows, 1, Len(ledgers[k].rows)) = ledgers[k].rows
      BY <2>1, <3>2, <3>4, <3>5, WholeSubSeq
    <3>. PICK r : r = ExportFile(k, l, "end")
      OBVIOUS
    <3>7. r \in exports' /\ r.key = k /\ r.sid = ledgers[k].sid /\ r.rows = l.rows
      BY <3>2, <3>4, <3>5 DEF ExportFile, Finishes
    <3>. QED BY <3>6, <3>7
  <2>3. CASE ServerStop \/ ServerCrash
    <3>1. PICK how : ExportFile(k, ledgers[k], how) \in exports' \cup orphans'
      BY <2>3 DEF ServerStop, ServerCrash, OpenKeys
    <3>. PICK r : r = ExportFile(k, ledgers[k], how)
      OBVIOUS
    <3>2. r.key = k /\ r.sid = ledgers[k].sid /\ r.rows = ledgers[k].rows
      BY DEF ExportFile
    <3>3. SubSeq(ledgers[k].rows, 1, Len(ledgers[k].rows)) = ledgers[k].rows
      BY <2>1, SubSeqFull DEF IsSeq
    <3>. QED BY <3>1, <3>2, <3>3
  <2>4. CASE UNCHANGED ledgers
    BY <2>4
  <2>5. ReadLine \/ ServerStop \/ ServerCrash \/ UNCHANGED ledgers
    BY DEF Next, GatewayStart, GatewayStop, SocketEvent, Connected, ConnectFails, SocketDestroyed,
           SocketCloses, Fire, ServerStart, bridge
  <2>. QED BY <2>2, <2>3, <2>4, <2>5
<1>. QED BY <1>1, Invariance, PTL DEF Spec, ReadMeansKept

\* A file passes as complete exactly if its session was ended: a session that began
\* before the bridge, or before its restart, has its implicit SESSION_START, and one that
\* Ctrl-C or a crash cut off is refused (openclaw.py, handle_event and close_all).
THEOREM EndedFilesVerify == Spec => []CompleteExactlyWhenEnded
<1>1. Init => Complete
  BY DEF Init, Complete, AllOpen, CompleteExactlyWhenEnded
<1>2. Complete => CompleteExactlyWhenEnded
  BY DEF Complete
<1>. QED BY <1>1, <1>2, CompleteKept, Invariance, PTL DEF Spec
=============================================================================
