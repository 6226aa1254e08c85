------------------------- MODULE CheckpointerProofs -------------------------
(***************************************************************************)
(* The checkpoint saver for any number of threads and calls: its lock, the *)
(* audit that precedes each save, the audit that counts a put once, and the*)
(* file of a session that was ended once.                                  *)
(***************************************************************************)
EXTENDS Checkpointer, SessionProofs

-----------------------------------------------------------------------------
(* Ledger objects and rows.                                                *)

IsObject(o) == o = [sid |-> o.sid, next |-> o.next, tip |-> o.tip, rows |-> o.rows]

AreObjects(s) == IsSeq(s) /\ \A i \in DOMAIN s : IsObject(s[i])

LEMMA ObjectAdded ==
    ASSUME NEW s, AreObjects(s), NEW o, IsObject(o)
    PROVE  AreObjects(Append(s, o)) /\ Len(Append(s, o)) = Len(s) + 1
<1>1. IsSeq(s)
  BY DEF AreObjects
<1>2. DOMAIN Append(s, o) = 1..(Len(s) + 1) /\ DOMAIN s = 1..Len(s) /\ Len(s) \in Nat
  BY <1>1, Appending, SeqDomain
<1>3. \A i \in DOMAIN Append(s, o) : IsObject(Append(s, o)[i])
  BY <1>1, <1>2, Appending DEF AreObjects
<1>. QED BY <1>1, <1>3, Appending DEF AreObjects

LEMMA ObjectReplaced ==
    ASSUME NEW s, AreObjects(s), NEW n \in 1..Len(s), NEW o, IsObject(o),
           NEW w, w = [s EXCEPT ![n] = o]
    PROVE  AreObjects(w) /\ Len(w) = Len(s)
<1>1. IsSeq(s) /\ Len(s) \in Nat /\ DOMAIN s = 1..Len(s)
  BY SeqDomain DEF AreObjects
<1>2. w = [i \in 1..Len(s) |-> w[i]]
  BY <1>1 DEF AreObjects, IsSeq
<1>3. IsSeq(w) /\ Len(w) = Len(s) /\ DOMAIN w = 1..Len(s)
  BY <1>1, <1>2, FunctionIsSequence, SeqDomain
<1>4. \A i \in 1..Len(s) : w[i] = IF i = n THEN o ELSE s[i]
  BY <1>1
<1>5. \A i \in 1..Len(s) : IsObject(w[i])
  BY ONLY <1>1, <1>4, AreObjects(s), IsObject(o) DEF AreObjects
<1>. QED BY <1>3, <1>5 DEF AreObjects

\* __write_event appends one row with the given body.
Appended(body) == \E e : e.payload.body = body /\ rows' = Append(rows, e)

LEMMA StoredRow ==
    ASSUME NEW l, IsObject(l), NEW type, NEW body
    PROVE  /\ IsObject(Stored(l, type, body))
           /\ \E e : e.payload.body = body /\ Stored(l, type, body).rows = Append(l.rows, e)
<1>. DEFINE e == BuildEvent(l.next, type, l.sid, Payload(body), l.tip, NoKey)
<1>1. e.payload.body = body
  BY DEF BuildEvent, Payload
<1>2. Stored(l, type, body) = [l EXCEPT !.rows = Append(@, e), !.next = @ + 1, !.tip = e.hash]
  BY DEF Stored
<1>. HIDE DEF e
<1>3. Stored(l, type, body) = [sid |-> l.sid, next |-> l.next + 1, tip |-> e.hash,
                               rows |-> Append(l.rows, e)]
  BY <1>2 DEF IsObject
<1>. QED BY <1>1, <1>3 DEF IsObject

LEMMA ObjectForms ==
    ASSUME NEW o, IsObject(o)
    PROVE  /\ IsObject(With(o)) /\ With(o).rows = rows
           /\ IsObject(Forget(o))
           /\ IsObject([o EXCEPT !.sid = Sid, !.next = 1, !.tip = Genesis])
           /\ [o EXCEPT !.sid = Sid, !.next = 1, !.tip = Genesis].rows = o.rows
<1>1. With(o) = [sid |-> o.sid, next |-> o.next, tip |-> o.tip, rows |-> rows]
  BY DEF IsObject, With
<1>2. Forget(o) = [sid |-> o.sid, next |-> o.next, tip |-> o.tip, rows |-> <<>>]
  BY DEF IsObject, Forget
<1>3. [o EXCEPT !.sid = Sid, !.next = 1, !.tip = Genesis]
        = [sid |-> Sid, next |-> 1, tip |-> Genesis, rows |-> o.rows]
  <2>. PICK p : p = [o EXCEPT !.sid = Sid, !.next = 1, !.tip = Genesis]
    OBVIOUS
  <2>1. p = [sid |-> Sid, next |-> 1, tip |-> Genesis, rows |-> o.rows]
    BY DEF IsObject
  <2>. QED BY <2>1
<1>. QED BY <1>1, <1>2, <1>3 DEF IsObject

LEMMA WriteToRow ==
    ASSUME AreObjects(objects), NEW n \in 1..Len(objects), NEW type, NEW body,
           WriteTo(n, type, body)
    PROVE  AreObjects(objects') /\ Len(objects') = Len(objects) /\ Appended(body)
<1>. DEFINE l == Stored(With(objects[n]), type, body)
<1>1. IsObject(objects[n])
  BY SeqDomain DEF AreObjects
<1>2. IsObject(l) /\ \E e : e.payload.body = body /\ l.rows = Append(rows, e)
  <2>1. IsObject(With(objects[n])) /\ With(objects[n]).rows = rows
    BY <1>1, ObjectForms
  <2>. QED BY <2>1, StoredRow
<1>3. rows' = l.rows /\ objects' = [objects EXCEPT ![n] = Forget(l)]
  BY DEF WriteTo
<1>. HIDE DEF l
<1>4. IsObject(Forget(l))
  BY <1>2, ObjectForms
<1>5. AreObjects(objects') /\ Len(objects') = Len(objects)
  BY <1>3, <1>4, ObjectReplaced
<1>. QED BY <1>2, <1>3, <1>5 DEF Appended

StartBody == Declared([implicit |-> FALSE])

\* _ensure_started, when no session is running.
LEMMA StartRow ==
    ASSUME AreObjects(objects), NEW t, EnsureStarted(t), ~started
    PROVE  AreObjects(objects') /\ Len(objects') = Len(objects) + 1 /\ Appended(StartBody)
<1>. DEFINE o == With(NewLedger(Sid))
            p == [o EXCEPT !.sid = Sid, !.next = 1, !.tip = Genesis]
            l == Stored(p, "SESSION_START", StartBody)
<1>1. IsObject(NewLedger(Sid))
  BY DEF NewLedger, IsObject
<1>2. IsObject(p) /\ p.rows = rows
  BY <1>1, ObjectForms
<1>3. rows' = l.rows /\ objects' = Append(objects, Forget(l))
  BY DEF EnsureStarted, Opened, StartBody
<1>. HIDE DEF p, o
<1>4. IsObject(l) /\ \E e : e.payload.body = StartBody /\ l.rows = Append(rows, e)
  BY <1>2, StoredRow
<1>. HIDE DEF l
<1>5. AreObjects(objects') /\ Len(objects') = Len(objects) + 1
  BY <1>3, <1>4, ObjectForms, ObjectAdded
<1>. QED BY <1>3, <1>4, <1>5 DEF Appended

\* What a new row does to the events of a call.
LEMMA RowAdded ==
    ASSUME IsSeq(rows), NEW body, Appended(body), NEW n
    PROVE  /\ IsSeq(rows')
           /\ body = [id |-> n] => EventsOf(n)' = EventsOf(n) \cup {Len(rows) + 1}
           /\ body # [id |-> n] => EventsOf(n)' = EventsOf(n)
<1>. PICK e : e.payload.body = body /\ rows' = Append(rows, e)
  BY DEF Appended
<1>1. IsSeq(rows') /\ DOMAIN rows' = 1..(Len(rows) + 1) /\ DOMAIN rows = 1..Len(rows)
      /\ Len(rows) \in Nat
  BY Appending, SeqDomain
<1>2. /\ \A i \in 1..Len(rows) : rows'[i] = rows[i]
      /\ rows'[Len(rows) + 1] = e
  BY Appending
<1>. QED BY <1>1, <1>2 DEF EventsOf

-----------------------------------------------------------------------------
(* The types and the lock.                                                 *)

Labels == {"idle", "start", "fetch", "audit", "save", "end", "export", "forget"}

IsCall(c) == c = [id |-> c.id, kind |-> c.kind]

\* What the lock protects.
SessionTypes ==
    /\ AreObjects(objects)
    /\ IsSeq(rows)
    /\ current \in 0..Len(objects)
    /\ started = (current # 0)
    /\ ends \in Nat

\* The locals of the threads; calls in progress have ids of their own.
CallTypes ==
    /\ calls \in Nat
    /\ pc \in [Threads -> Labels]
    /\ ref \in [Threads -> 0..Len(objects)]
    /\ call = [t \in Threads |-> call[t]]
    /\ \A t \in Threads : IsCall(call[t])
    /\ \A t \in Threads : pc[t] # "idle" => call[t].id \in 1..calls
    /\ \A t, u \in Threads :
          t # u /\ pc[t] # "idle" /\ pc[u] # "idle" => call[t].id # call[u].id

\* Whoever exports holds the lock, and there is a session to forget.
LockTypes ==
    /\ lock \in Threads \cup {Free}
    /\ \A t \in Threads : lock = t <=> pc[t] \in {"export", "forget"}
    /\ \A t \in Threads : pc[t] \in {"export", "forget"} => ends > 0

Types == SessionTypes /\ CallTypes /\ LockTypes

\* What a step does to the locals of its thread.
Moves(t, label, n, c) ==
    /\ pc' = [pc EXCEPT ![t] = label] /\ label \in Labels
    /\ ref' = [ref EXCEPT ![t] = n]
    /\ call' = [call EXCEPT ![t] = c] /\ IsCall(c)
    /\ IF pc[t] = "idle" THEN c.id = calls + 1 /\ calls' = calls + 1
       ELSE (label # "idle" => c.id = call[t].id) /\ calls' = calls

LEMMA CallStep ==
    ASSUME Types, Len(objects') \in Nat, Len(objects) <= Len(objects'), NEW t \in Threads,
           NEW label, NEW n \in 0..Len(objects'), NEW c, Moves(t, label, n, c)
    PROVE  CallTypes'
<1>. DEFINE N == Len(objects)
            M == Len(objects')
<1>1. N \in Nat /\ M \in Nat /\ N <= M /\ n \in 0..M
  BY SeqDomain DEF Types, SessionTypes, AreObjects
<1>2. ref \in [Threads -> 0..N]
  BY DEF Types, CallTypes
<1>. HIDE DEF N, M
<1>3. ref' \in [Threads -> 0..M]
  BY <1>1, <1>2 DEF Moves
<1>4. pc' \in [Threads -> Labels] /\ calls' \in Nat
  BY DEF Types, CallTypes, Moves
<1>5. call' = [u \in Threads |-> call'[u]]
  BY DEF Types, CallTypes, Moves
<1>6. \A u \in Threads : call'[u] = IF u = t THEN c ELSE call[u]
  BY DEF Types, CallTypes, Moves
<1>7. \A u \in Threads : pc'[u] = IF u = t THEN label ELSE pc[u]
  BY DEF Types, CallTypes, Moves
<1>8. \A u \in Threads : IsCall(call'[u])
  BY <1>6 DEF Types, CallTypes, Moves
<1>9. \A u \in Threads : pc'[u] # "idle" => call'[u].id \in 1..calls'
  BY <1>6, <1>7 DEF Types, CallTypes, Moves
<1>10. \A v, u \in Threads :
          v # u /\ pc'[v] # "idle" /\ pc'[u] # "idle" => call'[v].id # call'[u].id
  BY <1>6, <1>7 DEF Types, CallTypes, Moves
<1>. QED BY <1>3, <1>4, <1>5, <1>8, <1>9, <1>10 DEF CallTypes, M

\* A local assigned its own value.
LEMMA LocalsKept ==
    ASSUME Types, NEW t \in Threads
    PROVE  /\ Len(objects) \in Nat
           /\ call = [call EXCEPT ![t] = call[t]]
           /\ ref = [ref EXCEPT ![t] = ref[t]]
           /\ ref[t] \in 0..Len(objects)
           /\ IsCall(call[t])
BY SeqDomain DEF Types, SessionTypes, AreObjects, CallTypes

LEMMA KindChanged ==
    ASSUME NEW o, IsCall(o), NEW c, c = [o EXCEPT !.kind = "put"]
    PROVE  IsCall(c) /\ c.id = o.id
<1>1. c = [id |-> o.id, kind |-> "put"]
  BY DEF IsCall
<1>. QED BY <1>1 DEF IsCall

LEMMA NoCallIsCall == IsCall(NoCall)
BY DEF IsCall, NoCall

\* Steps outside the lock.
LEMMA LockKept ==
    ASSUME Types, NEW t \in Threads, NEW label, NEW n, NEW c, Moves(t, label, n, c),
           pc[t] \notin {"export", "forget"}, label \notin {"export", "forget"},
           UNCHANGED <<lock, ends>>
    PROVE  LockTypes'
BY DEF Types, CallTypes, LockTypes, Moves

LEMMA SessionKept ==
    ASSUME Types, UNCHANGED <<session, ends>>
    PROVE  SessionTypes' /\ Len(objects') \in Nat /\ Len(objects) <= Len(objects')
BY SeqDomain DEF Types, SessionTypes, AreObjects, IsSeq, IsObject, session

LEMMA BeginTypes ==
    ASSUME Types, NEW t \in Threads, NEW kind \in Kinds, Begin(t, kind)
    PROVE  /\ Types'
           /\ UNCHANGED <<lock, session, saved, ends>> /\ pc[t] = "idle"
           /\ Moves(t, IF kind = "end" THEN "end" ELSE "start", ref[t],
                    [id |-> calls + 1, kind |-> kind])
<1>. DEFINE label == IF kind = "end" THEN "end" ELSE "start"
            c == [id |-> calls + 1, kind |-> kind]
<1>1. UNCHANGED <<lock, session, saved, ends>> /\ pc[t] = "idle"
  BY DEF Begin
<1>2. Moves(t, label, ref[t], c)
  BY LocalsKept DEF Begin, Moves, Goto, Labels, IsCall
<1>3. label \notin {"export", "forget"}
  OBVIOUS
<1>. HIDE DEF label, c
<1>4. SessionTypes' /\ CallTypes' /\ LockTypes'
  BY <1>1, <1>2, <1>3, SessionKept, LockKept, CallStep, LocalsKept DEF session
<1>. QED BY <1>1, <1>2, <1>4 DEF Types, label, c

LEMMA StartTypes ==
    ASSUME Types, NEW t \in Threads, EnsureStarted(t)
    PROVE  /\ Types'
           /\ UNCHANGED <<lock, saved, ends>> /\ pc[t] = "start" /\ current' # 0
           /\ \/ UNCHANGED session
              \/ current = 0 /\ Appended(StartBody)
           /\ Moves(t, "fetch", ref[t], call[t])
<1>1. UNCHANGED <<lock, saved, ends, calls>> /\ pc[t] = "start" /\ UNCHANGED <<call, ref>>
  BY DEF EnsureStarted, locals
<1>2. Moves(t, "fetch", ref[t], call[t])
  BY <1>1, LocalsKept DEF EnsureStarted, Moves, Goto, Labels
<1>3. /\ SessionTypes' /\ Len(objects') \in Nat /\ Len(objects) <= Len(objects')
      /\ UNCHANGED session \/ (current = 0 /\ Appended(StartBody))
      /\ current' # 0
  <2>1. CASE started
    <3>1. UNCHANGED session /\ current # 0
      BY <2>1 DEF EnsureStarted, Types, SessionTypes
    <3>2. current' # 0
      BY <3>1 DEF session
    <3>. QED BY <1>1, <3>1, <3>2, SessionKept
  <2>2. CASE ~started
    <3>1. AreObjects(objects') /\ Len(objects') = Len(objects) + 1 /\ Appended(StartBody)
      BY <2>2, StartRow DEF Types, SessionTypes
    <3>2. IsSeq(rows') /\ current' = Len(objects) + 1 /\ started' = TRUE /\ Len(objects) \in Nat
      BY <2>2, <3>1, RowAdded, LocalsKept DEF EnsureStarted, Types, SessionTypes
    <3>3. current = 0
      BY <2>2 DEF Types, SessionTypes
    <3>4. /\ current' \in 0..Len(objects') /\ current' # 0 /\ ends' \in Nat
          /\ Len(objects') \in Nat /\ Len(objects) <= Len(objects')
      BY <1>1, <3>1, <3>2 DEF Types, SessionTypes
    <3>5. SessionTypes'
      BY <3>1, <3>2, <3>4 DEF SessionTypes
    <3>. QED BY <3>1, <3>3, <3>4, <3>5
  <2>. QED BY <2>1, <2>2
<1>4. CallTypes' /\ LockTypes'
  BY <1>1, <1>2, <1>3, LockKept, CallStep, LocalsKept
<1>. QED BY <1>1, <1>2, <1>3, <1>4 DEF Types

LEMMA FetchTypes ==
    ASSUME Types, NEW t \in Threads, FetchLedger(t)
    PROVE  /\ Types'
           /\ UNCHANGED <<lock, session, saved, ends>> /\ pc[t] = "fetch"
           /\ Moves(t, "audit", current, call[t])
<1>1. UNCHANGED <<lock, session, saved, ends, calls, call>> /\ pc[t] = "fetch"
  BY DEF FetchLedger
<1>2. Moves(t, "audit", current, call[t])
  BY <1>1, LocalsKept DEF FetchLedger, Moves, Goto, Labels
<1>3. current \in 0..Len(objects')
  BY <1>1 DEF Types, SessionTypes, session
<1>4. SessionTypes' /\ CallTypes' /\ LockTypes'
  BY <1>1, <1>2, <1>3, SessionKept, LockKept, CallStep
<1>. QED BY <1>1, <1>2, <1>4 DEF Types

\* The label and the call after the audit.
Audited(t) == IF Delegates(t) THEN "start" ELSE "save"
AuditedCall(t) == IF Delegates(t) THEN [call[t] EXCEPT !.kind = "put"] ELSE call[t]

LEMMA AuditTypes ==
    ASSUME Types, NEW t \in Threads, Audit(t)
    PROVE  /\ Types'
           /\ UNCHANGED <<lock, current, saved, ends>> /\ pc[t] = "audit"
           /\ IF ref[t] = 0 THEN UNCHANGED rows ELSE Appended([id |-> call[t].id])
           /\ Moves(t, Audited(t), ref[t], AuditedCall(t))
<1>1. UNCHANGED <<lock, current, started, saved, ends, calls, ref>> /\ pc[t] = "audit"
  BY DEF Audit
<1>2. Moves(t, Audited(t), ref[t], AuditedCall(t))
  <2>1. CASE Delegates(t)
    <3>. PICK c : c = [call[t] EXCEPT !.kind = "put"]
      OBVIOUS
    <3>1. IsCall(c) /\ c.id = call[t].id
      BY LocalsKept, KindChanged
    <3>2. call' = [call EXCEPT ![t] = c] /\ pc' = [pc EXCEPT ![t] = "start"]
      BY <2>1 DEF Audit, Goto
    <3>3. Moves(t, "start", ref[t], c)
      BY <1>1, <3>1, <3>2, LocalsKept DEF Moves, Labels
    <3>. QED BY <2>1, <3>3 DEF Audited, AuditedCall
  <2>2. CASE ~Delegates(t)
    <3>1. UNCHANGED call /\ pc' = [pc EXCEPT ![t] = "save"]
      BY <2>2 DEF Audit, Goto
    <3>2. Moves(t, "save", ref[t], call[t])
      BY <1>1, <3>1, LocalsKept DEF Moves, Labels
    <3>. QED BY <2>2, <3>2 DEF Audited, AuditedCall
  <2>. QED BY <2>1, <2>2
<1>3. /\ SessionTypes' /\ Len(objects') = Len(objects)
      /\ IF ref[t] = 0 THEN UNCHANGED rows ELSE Appended([id |-> call[t].id])
  <2>1. CASE ref[t] = 0
    <3>1. UNCHANGED <<rows, objects>>
      BY <2>1 DEF Audit
    <3>. QED BY <1>1, <2>1, <3>1, SessionKept DEF session
  <2>2. CASE ref[t] # 0
    <3>1. WriteTo(ref[t], "ACTION", [id |-> call[t].id]) /\ ref[t] \in 1..Len(objects)
      BY <2>2, LocalsKept DEF Audit
    <3>2. AreObjects(objects') /\ Len(objects') = Len(objects) /\ Appended([id |-> call[t].id])
      BY <3>1, WriteToRow DEF Types, SessionTypes
    <3>3. IsSeq(rows')
      BY <3>2, RowAdded DEF Types, SessionTypes
    <3>. QED BY <1>1, <2>2, <3>2, <3>3 DEF Types, SessionTypes
  <2>. QED BY <2>1, <2>2
<1>4. Audited(t) \notin {"export", "forget"}
  BY DEF Audited
<1>5. CallTypes' /\ LockTypes'
  BY <1>1, <1>2, <1>3, <1>4, LockKept, CallStep, LocalsKept
<1>. QED BY <1>1, <1>2, <1>3, <1>5 DEF Types

LEMMA SaveTypes ==
    ASSUME Types, NEW t \in Threads, Save(t) \/ NothingToEnd(t)
    PROVE  /\ Types'
           /\ UNCHANGED <<lock, session, ends>> /\ pc[t] \in {"save", "end"}
           /\ saved' = saved \/ (pc[t] = "save" /\ saved' = saved \cup {call[t].id})
           /\ Moves(t, "idle", 0, NoCall)
<1>1. /\ UNCHANGED <<lock, session, ends, calls>> /\ pc[t] \in {"save", "end"}
      /\ saved' = saved \/ (pc[t] = "save" /\ saved' = saved \cup {call[t].id})
  BY DEF Save, NothingToEnd
<1>2. Moves(t, "idle", 0, NoCall)
  BY <1>1, NoCallIsCall DEF Save, NothingToEnd, Return, Goto, Moves, Labels
<1>3. SessionTypes' /\ CallTypes' /\ LockTypes'
  BY <1>1, <1>2, SessionKept, LockKept, CallStep, LocalsKept
<1>. QED BY <1>1, <1>2, <1>3 DEF Types

LEMMA CloseTypes ==
    ASSUME Types, NEW t \in Threads, CloseSession(t)
    PROVE  /\ Types'
           /\ UNCHANGED saved /\ ends' > 0 /\ pc[t] = "end"
           /\ Appended([id |-> call[t].id])
           /\ Moves(t, "export", ref[t], call[t])
<1>1. /\ UNCHANGED <<current, started, saved, calls, call, ref>> /\ pc[t] = "end" /\ started
      /\ lock = Free /\ lock' = t /\ ends' = ends + 1
      /\ WriteTo(current, "SESSION_END", [id |-> call[t].id])
  BY DEF CloseSession, locals
<1>2. Moves(t, "export", ref[t], call[t])
  BY <1>1, LocalsKept DEF CloseSession, Moves, Goto, Labels
<1>3. current \in 1..Len(objects) /\ ends' \in Nat /\ ends' > 0
  <2>1. current # 0
    BY <1>1 DEF Types, SessionTypes
  <2>. QED BY <1>1, <2>1, LocalsKept DEF Types, SessionTypes
<1>4. AreObjects(objects') /\ Len(objects') = Len(objects) /\ Appended([id |-> call[t].id])
  BY <1>1, <1>3, WriteToRow DEF Types, SessionTypes
<1>5. IsSeq(rows')
  BY <1>4, RowAdded DEF Types, SessionTypes
<1>6. SessionTypes'
  BY <1>1, <1>3, <1>4, <1>5 DEF Types, SessionTypes
<1>7. CallTypes'
  BY <1>2, <1>4, CallStep, LocalsKept
<1>8. LockTypes'
  <2>1. \A u \in Threads : pc'[u] = IF u = t THEN "export" ELSE pc[u]
    BY <1>2 DEF Moves, Types, CallTypes
  <2>2. \A u \in Threads : pc[u] \notin {"export", "forget"}
    BY <1>1, CheckpointerAssumption DEF Types, LockTypes
  <2>. QED BY <1>1, <1>3, <2>1, <2>2 DEF LockTypes
<1>. QED BY <1>1, <1>2, <1>3, <1>4, <1>6, <1>7, <1>8 DEF Types

LEMMA FinallyTypes ==
    ASSUME Types, NEW t \in Threads, ExportSession(t) \/ ForgetLedger(t)
    PROVE  /\ Types'
           /\ UNCHANGED <<rows, saved, ends>> /\ ends > 0
           /\ \E label \in {"forget", "idle"} : \E n, c :
                 Moves(t, label, n, c) /\ pc[t] \in {"export", "forget"}
<1>1. CASE ExportSession(t)
  <2>1. UNCHANGED <<lock, session, saved, ends, calls, call, ref>> /\ pc[t] = "export"
    BY <1>1 DEF ExportSession, locals
  <2>2. Moves(t, "forget", ref[t], call[t])
    BY <1>1, <2>1, LocalsKept DEF ExportSession, Moves, Goto, Labels
  <2>3. SessionTypes' /\ CallTypes'
    BY <2>1, <2>2, SessionKept, CallStep, LocalsKept
  <2>4. LockTypes'
    <3>1. \A u \in Threads : pc'[u] = IF u = t THEN "forget" ELSE pc[u]
      BY <2>2 DEF Moves, Types, CallTypes
    <3>. QED BY <2>1, <3>1 DEF Types, LockTypes
  <2>. QED BY <2>1, <2>2, <2>3, <2>4 DEF Types, LockTypes, session
<1>2. CASE ForgetLedger(t)
  <2>1. /\ UNCHANGED <<objects, rows, saved, ends, calls>> /\ pc[t] = "forget"
        /\ current' = 0 /\ started' = FALSE /\ lock' = Free
    BY <1>2 DEF ForgetLedger
  <2>2. Moves(t, "idle", 0, NoCall)
    BY <1>2, <2>1, NoCallIsCall DEF ForgetLedger, Return, Goto, Moves, Labels
  <2>3. SessionTypes'
    <3>1. started' = (current' # 0)
      BY <2>1
    <3>2. AreObjects(objects') /\ IsSeq(rows')
      BY <2>1 DEF Types, SessionTypes
    <3>3. current' \in 0..Len(objects') /\ ends' \in Nat
      BY <2>1, LocalsKept DEF Types, SessionTypes
    <3>. QED BY <3>1, <3>2, <3>3 DEF SessionTypes
  <2>4. CallTypes'
    BY <2>1, <2>2, CallStep, LocalsKept
  <2>5. LockTypes'
    <3>1. \A u \in Threads : pc'[u] = IF u = t THEN "idle" ELSE pc[u]
      BY <2>2 DEF Moves, Types, CallTypes
    <3>. QED BY <2>1, <3>1, CheckpointerAssumption DEF Types, LockTypes
  <2>. QED BY <2>1, <2>2, <2>3, <2>4, <2>5 DEF Types, LockTypes
<1>. QED BY <1>1, <1>2

LEMMA TypesStep == Types /\ [Next]_vars => Types'
<1>. SUFFICES ASSUME Types, [Next]_vars PROVE Types'
  OBVIOUS
<1>1. CASE UNCHANGED vars
  <2>1. UNCHANGED <<session, ends, lock, calls, pc, call, ref>>
    BY <1>1 DEF vars, locals
  <2>2. SessionTypes'
    BY <2>1, SessionKept
  <2>3. CallTypes'
    BY <2>1 DEF Types, CallTypes, session, IsCall
  <2>4. LockTypes'
    BY <2>1 DEF Types, LockTypes
  <2>. QED BY <2>2, <2>3, <2>4 DEF Types
<1>2. ASSUME NEW t \in Threads, NEW kind \in Kinds, Begin(t, kind)
      PROVE  Types'
  BY <1>2, BeginTypes
<1>3. ASSUME NEW t \in Threads, Step(t)
      PROVE  Types'
  BY <1>3, StartTypes, FetchTypes, AuditTypes, SaveTypes, CloseTypes, FinallyTypes DEF Step
<1>. QED BY <1>1, <1>2, <1>3 DEF Next

LEMMA InitTypes == Init => Types
<1>. SUFFICES ASSUME Init PROVE Types
  OBVIOUS
<1>1. AreObjects(objects) /\ Len(objects) = 0 /\ IsSeq(rows)
  BY DEF Init, AreObjects, IsSeq
<1>2. CallTypes
  BY <1>1, NoCallIsCall DEF Init, CallTypes, Labels
<1>3. LockTypes
  BY CheckpointerAssumption DEF Init, LockTypes
<1>4. SessionTypes
  <2>1. started = (current # 0)
    BY DEF Init
  <2>2. current \in 0..Len(objects) /\ ends \in Nat
    BY <1>1 DEF Init
  <2>. QED BY <1>1, <2>1, <2>2 DEF SessionTypes
<1>. QED BY <1>2, <1>3, <1>4 DEF Types

LEMMA TypesHold == Spec => []Types
BY InitTypes, TypesStep, PTL DEF Spec

\* The variables have their types, the session that is marked as started has a
\* ledger, and only the thread that ends the session is inside the lock.
THEOREM CheckpointerTypes == Spec => []TypeOK
<1>1. Types => TypeOK
  BY DEF Types, SessionTypes, CallTypes, LockTypes, TypeOK, Labels
<1>. QED BY <1>1, TypesHold, PTL

-----------------------------------------------------------------------------
(* What a step does to the events of the calls.                            *)

LEMMA Bodies ==
    /\ \A n : StartBody # [id |-> n]
    /\ \A m, n : m # n => [id |-> m] # [id |-> n]
<1>1. ASSUME NEW n PROVE StartBody # [id |-> n]
  <2>1. "canon" \in DOMAIN StartBody
    BY DEF StartBody, Declared
  <2>2. "canon" \notin DOMAIN [id |-> n]
    OBVIOUS
  <2>. QED BY <2>1, <2>2
<1>2. ASSUME NEW m, NEW n, [id |-> m] = [id |-> n] PROVE m = n
  BY <1>2
<1>. QED BY <1>1, <1>2

\* The thread that writes an event of its call has not written one in this run of the
\* method, and is past that point afterwards.
Writing(t, n) == pc[t] \in {"audit", "end"} /\ n = call[t].id

LEMMA EventsStep ==
    ASSUME Types, [Next]_vars, NEW n
    PROVE  \/ EventsOf(n)' = EventsOf(n)
           \/ \E t \in Threads : /\ Writing(t, n) /\ pc'[t] \in {Audited(t), "export"}
                                /\ EventsOf(n)' = EventsOf(n) \cup {Len(rows) + 1}
<1>0. IsSeq(rows)
  BY DEF Types, SessionTypes
<1>1. CASE UNCHANGED rows
  BY <1>1 DEF EventsOf
<1>2. CASE Appended(StartBody)
  BY <1>0, <1>2, RowAdded, Bodies
<1>3. ASSUME NEW t \in Threads, Appended([id |-> call[t].id]),
             NEW label \in {Audited(t), "export"}, NEW r, NEW c, Moves(t, label, r, c),
             pc[t] \in {"audit", "end"}
      PROVE  \/ EventsOf(n)' = EventsOf(n)
             \/ \E u \in Threads : /\ Writing(u, n) /\ pc'[u] \in {Audited(u), "export"}
                                  /\ EventsOf(n)' = EventsOf(n) \cup {Len(rows) + 1}
  <2>1. pc'[t] = label
    BY <1>3 DEF Moves, Types, CallTypes
  <2>2. CASE n = call[t].id
    BY <1>0, <1>3, <2>1, <2>2, RowAdded DEF Writing
  <2>3. CASE n # call[t].id
    BY <1>0, <1>3, <2>3, RowAdded, Bodies
  <2>. QED BY <2>2, <2>3
<1>4. CASE UNCHANGED vars
  BY <1>1, <1>4 DEF vars, session
<1>5. ASSUME NEW t \in Threads, NEW kind \in Kinds, Begin(t, kind)
      PROVE  UNCHANGED rows
  BY <1>5, BeginTypes DEF session
<1>6. ASSUME NEW t \in Threads, Step(t)
      PROVE  \/ EventsOf(n)' = EventsOf(n)
             \/ \E u \in Threads : /\ Writing(u, n) /\ pc'[u] \in {Audited(u), "export"}
                                  /\ EventsOf(n)' = EventsOf(n) \cup {Len(rows) + 1}
  <2>1. CASE EnsureStarted(t)
    BY <1>1, <1>2, <2>1, StartTypes DEF session
  <2>2. CASE FetchLedger(t)
    BY <1>1, <2>2, FetchTypes DEF session
  <2>3. CASE Audit(t)
    BY <1>1, <1>3, <2>3, AuditTypes
  <2>4. CASE Save(t) \/ NothingToEnd(t)
    BY <1>1, <2>4, SaveTypes DEF session
  <2>5. CASE CloseSession(t)
    BY <1>3, <2>5, CloseTypes
  <2>6. CASE ExportSession(t) \/ ForgetLedger(t)
    BY <1>1, <2>6, FinallyTypes
  <2>. QED BY <1>6, <2>1, <2>2, <2>3, <2>4, <2>5, <2>6 DEF Step
<1>. QED BY <1>1, <1>4, <1>5, <1>6 DEF Next

-----------------------------------------------------------------------------
(* A save is preceded by its audit.                                        *)

\* The event of the call is in the database.
Recorded(t) == EventsOf(call[t].id) # {}

\* Until a session is ended, a thread that passed _ensure_started finds the ledger.
Promised ==
    ends = 0 =>
       /\ \A n \in saved : EventsOf(n) # {}
       /\ \A t \in Threads : pc[t] = "fetch" => current # 0
       /\ \A t \in Threads : pc[t] = "audit" => ref[t] # 0
       /\ \A t \in Threads : pc[t] = "save" => Recorded(t)

\* A step of thread t, seen from the others.
LEMMA MovesOthers ==
    ASSUME Types, NEW t \in Threads, NEW label, NEW n, NEW c, Moves(t, label, n, c)
    PROVE  /\ pc'[t] = label /\ ref'[t] = n /\ call'[t] = c
           /\ \A u \in Threads \ {t} : pc'[u] = pc[u] /\ ref'[u] = ref[u] /\ call'[u] = call[u]
BY DEF Types, CallTypes, Moves

LEMMA PromisedStep == Types /\ Promised /\ [Next]_vars => Promised'
<1>. SUFFICES ASSUME Types, Promised, [Next]_vars, ends' = 0 PROVE Promised'
  BY DEF Promised
<1>E. \A n : EventsOf(n) # {} => EventsOf(n)' # {}
  BY EventsStep
<1>R. \A u \in Threads : Recorded(u) /\ call'[u] = call[u] => Recorded(u)'
  <2>. SUFFICES ASSUME NEW u \in Threads, Recorded(u), call'[u] = call[u] PROVE Recorded(u)'
    OBVIOUS
  <2>. PICK n : n = call[u].id
    OBVIOUS
  <2>1. EventsOf(n)' # {}
    BY <1>E DEF Recorded
  <2>. QED BY <2>1 DEF Recorded, EventsOf
<1>1. CASE UNCHANGED vars
  BY <1>E, <1>R, <1>1 DEF Promised, vars, session, locals
<1>2. ASSUME NEW t \in Threads, NEW kind \in Kinds, Begin(t, kind)
      PROVE  Promised'
  <2>1. /\ UNCHANGED <<session, saved, ends>>
        /\ \E label \in {"start", "end"} : \E c : Moves(t, label, ref[t], c)
    BY <1>2, BeginTypes
  <2>2. /\ UNCHANGED <<current, saved, ends>> /\ pc'[t] \in {"start", "end"}
        /\ \A u \in Threads \ {t} : pc'[u] = pc[u] /\ ref'[u] = ref[u] /\ call'[u] = call[u]
    BY <2>1, MovesOthers DEF session
  <2>. QED BY <1>E, <1>R, <2>2 DEF Promised
<1>3. ASSUME NEW t \in Threads, Step(t)
      PROVE  Promised'
  <2>1. CASE EnsureStarted(t)
    <3>1. /\ UNCHANGED <<saved, ends>> /\ current' # 0 /\ pc'[t] = "fetch"
          /\ \A u \in Threads \ {t} : pc'[u] = pc[u] /\ ref'[u] = ref[u] /\ call'[u] = call[u]
      BY <2>1, StartTypes, MovesOthers
    <3>. QED BY <1>E, <1>R, <3>1 DEF Promised
  <2>2. CASE FetchLedger(t)
    <3>1. /\ UNCHANGED <<current, saved, ends>> /\ pc[t] = "fetch" /\ pc'[t] = "audit"
          /\ ref'[t] = current
          /\ \A u \in Threads \ {t} : pc'[u] = pc[u] /\ ref'[u] = ref[u] /\ call'[u] = call[u]
      BY <2>2, FetchTypes, MovesOthers DEF session
    <3>. QED BY <1>E, <1>R, <3>1 DEF Promised
  <2>3. CASE Audit(t)
    <3>1. /\ UNCHANGED <<current, saved, ends>> /\ pc[t] = "audit" /\ pc'[t] = Audited(t)
          /\ call'[t] = AuditedCall(t)
          /\ IF ref[t] = 0 THEN UNCHANGED rows ELSE Appended([id |-> call[t].id])
          /\ \A u \in Threads \ {t} : pc'[u] = pc[u] /\ ref'[u] = ref[u] /\ call'[u] = call[u]
      BY <2>3, AuditTypes, MovesOthers
    <3>. PICK n : n = call[t].id
      OBVIOUS
    <3>2. EventsOf(n)' # {}
      <4>1. Appended([id |-> n]) /\ IsSeq(rows)
        BY <3>1 DEF Promised, Types, SessionTypes
      <4>2. EventsOf(n)' = EventsOf(n) \cup {Len(rows) + 1}
        BY <4>1, RowAdded
      <4>. QED BY <4>2
    <3>3. pc'[t] = "save" => call'[t].id = n
      BY <3>1 DEF Audited, AuditedCall
    <3>4. pc'[t] = "save" => Recorded(t)'
      BY <3>2, <3>3 DEF Recorded, EventsOf
    <3>5. pc'[t] \in {"start", "save"}
      BY <3>1 DEF Audited
    <3>. QED BY <1>E, <1>R, <3>1, <3>4, <3>5 DEF Promised
  <2>4. CASE Save(t) \/ NothingToEnd(t)
    <3>1. /\ UNCHANGED <<current, ends>> /\ pc'[t] = "idle"
          /\ saved' = saved \/ (pc[t] = "save" /\ saved' = saved \cup {call[t].id})
          /\ \A u \in Threads \ {t} : pc'[u] = pc[u] /\ ref'[u] = ref[u] /\ call'[u] = call[u]
      BY <2>4, SaveTypes, MovesOthers DEF session
    <3>. QED BY <1>E, <1>R, <3>1 DEF Promised, Recorded
  <2>5. CASE CloseSession(t)
    BY <2>5, CloseTypes
  <2>6. CASE ExportSession(t) \/ ForgetLedger(t)
    BY <2>6, FinallyTypes
  <2>. QED BY <1>3, <2>1, <2>2, <2>3, <2>4, <2>5, <2>6 DEF Step
<1>. QED BY <1>1, <1>2, <1>3 DEF Next

\* Whatever saver is wrapped and however many threads put at once: as long as no
\* session was ended, the wrapped saver holds no checkpoint without an audit event.
\* The threads that race into _ensure_started cannot make one of them lose its ledger.
THEOREM SavesAreAudited == Spec => []SavedMeansAudited
<1>1. Init => Promised
  BY DEF Init, Promised
<1>2. Spec => []Promised
  BY <1>1, TypesHold, PromisedStep, PTL DEF Spec
<1>3. Promised => SavedMeansAudited
  BY DEF Promised, SavedMeansAudited
<1>. QED BY <1>2, <1>3, PTL

-----------------------------------------------------------------------------
(* A put is counted once when the wrapped saver has the method called.     *)

\* The labels before the event of the call is written.
Early == {"start", "fetch", "audit", "end"}

Unwritten(t) == EventsOf(call[t].id) = {}

Counted ==
    /\ \A n \in Nat : n > calls => EventsOf(n) = {}
    /\ \A t \in Threads : pc[t] \in Early => Unwritten(t)
    /\ \A n \in Nat : EventsOf(n) = {} \/ \E i : EventsOf(n) = {i}

\* No call comes back to a label before its event.
LEMMA EarlyStep ==
    ASSUME Inner = "async", Types, [Next]_vars
    PROVE  /\ calls' >= calls
           /\ \A u \in Threads : pc'[u] \in Early =>
                \/ pc[u] = "idle" /\ call'[u].id = calls + 1 /\ calls' = calls + 1
                \/ pc[u] \in Early /\ call'[u].id = call[u].id
<1>. DEFINE Advances(t) ==
        \E label, n, c : /\ Moves(t, label, n, c)
                         /\ label \in Early => pc[t] \in Early \cup {"idle"}
<1>1. ASSUME NEW t \in Threads, Advances(t)
      PROVE  /\ calls' >= calls
             /\ \A u \in Threads : pc'[u] \in Early =>
                  \/ pc[u] = "idle" /\ call'[u].id = calls + 1 /\ calls' = calls + 1
                  \/ pc[u] \in Early /\ call'[u].id = call[u].id
  <2>1. PICK label, n, c : /\ Moves(t, label, n, c)
                           /\ label \in Early => pc[t] \in Early \cup {"idle"}
    BY <1>1
  <2>2. /\ pc'[t] = label /\ call'[t] = c
        /\ \A u \in Threads \ {t} : pc'[u] = pc[u] /\ call'[u] = call[u]
    BY <2>1, MovesOthers
  <2>3. /\ calls \in Nat
        /\ IF pc[t] = "idle" THEN c.id = calls + 1 /\ calls' = calls + 1
           ELSE (label # "idle" => c.id = call[t].id) /\ calls' = calls
    BY <2>1 DEF Moves, Types, CallTypes
  <2>. QED BY <2>1, <2>2, <2>3 DEF Early
<1>2. CASE UNCHANGED vars
  BY <1>2 DEF vars, locals, Types, CallTypes, Early
<1>3. ASSUME NEW t \in Threads, NEW kind \in Kinds, Begin(t, kind)
      PROVE  Advances(t)
  BY <1>3, BeginTypes
<1>4. ASSUME NEW t \in Threads, Step(t)
      PROVE  Advances(t)
  <2>1. CASE EnsureStarted(t)
    BY <2>1, StartTypes DEF Early
  <2>2. CASE FetchLedger(t)
    BY <2>2, FetchTypes DEF Early
  <2>3. CASE Audit(t)
    <3>1. Audited(t) = "save"
      BY DEF Audited, Delegates
    <3>. QED BY <2>3, <3>1, AuditTypes DEF Early
  <2>4. CASE Save(t) \/ NothingToEnd(t)
    BY <2>4, SaveTypes DEF Early
  <2>5. CASE CloseSession(t)
    BY <2>5, CloseTypes DEF Early
  <2>6. CASE ExportSession(t) \/ ForgetLedger(t)
    BY <2>6, FinallyTypes DEF Early
  <2>. QED BY <1>4, <2>1, <2>2, <2>3, <2>4, <2>5, <2>6 DEF Step
<1>. HIDE DEF Advances
<1>. QED BY <1>1, <1>2, <1>3, <1>4 DEF Next

LEMMA CountedStep == Inner = "async" /\ Types /\ Counted /\ [Next]_vars => Counted'
<1>. SUFFICES ASSUME Inner = "async", Types, Counted, [Next]_vars PROVE Counted'
  OBVIOUS
<1>1. calls \in Nat /\ calls' >= calls /\ calls' \in Nat
  BY EarlyStep, TypesStep DEF Types, CallTypes
<1>2. ASSUME NEW n, NEW t \in Threads, Writing(t, n)
      PROVE  n \in 1..calls /\ EventsOf(n) = {}
  BY <1>2 DEF Writing, Types, CallTypes, Counted, Unwritten, Early
<1>3. \A n \in Nat : n > calls' => EventsOf(n)' = {}
  BY <1>1, <1>2, EventsStep DEF Counted
<1>4. \A n \in Nat : EventsOf(n)' = {} \/ \E i : EventsOf(n)' = {i}
  <2>. SUFFICES ASSUME NEW n \in Nat PROVE EventsOf(n)' = {} \/ \E i : EventsOf(n)' = {i}
    OBVIOUS
  <2>1. CASE EventsOf(n)' = EventsOf(n)
    BY <2>1 DEF Counted
  <2>2. CASE EventsOf(n)' # EventsOf(n)
    <3>1. EventsOf(n) = {} /\ EventsOf(n)' = EventsOf(n) \cup {Len(rows) + 1}
      BY <1>2, <2>2, EventsStep
    <3>2. EventsOf(n)' = {Len(rows) + 1}
      BY <3>1
    <3>. QED BY <3>2
  <2>. QED BY <2>1, <2>2
<1>5. ASSUME NEW u \in Threads, pc'[u] \in Early
      PROVE  Unwritten(u)'
  <2>. PICK n : n = call'[u].id
    OBVIOUS
  <2>1. CASE pc[u] = "idle" /\ n = calls + 1
    <3>1. EventsOf(n) = {} /\ n \notin 1..calls
      BY <1>1, <2>1 DEF Counted
    <3>2. EventsOf(n)' = {}
      BY <1>2, <3>1, EventsStep
    <3>. QED BY <3>2 DEF Unwritten, EventsOf
  <2>2. CASE pc[u] \in Early /\ n = call[u].id
    <3>1. EventsOf(n) = {}
      BY <2>2 DEF Counted, Unwritten
    <3>2. ASSUME NEW t \in Threads, Writing(t, n), pc'[t] \in {Audited(t), "export"}
          PROVE  FALSE
      <4>1. Audited(t) = "save"
        BY DEF Audited, Delegates
      <4>2. t # u
        BY <1>5, <3>2, <4>1 DEF Early
      <4>. QED BY <2>2, <3>2, <4>2 DEF Writing, Types, CallTypes, Early
    <3>3. EventsOf(n)' = {}
      BY <3>1, <3>2, EventsStep
    <3>. QED BY <3>3 DEF Unwritten, EventsOf
  <2>. QED BY <1>5, <2>1, <2>2, EarlyStep
<1>. QED BY <1>3, <1>4, <1>5 DEF Counted

\* When the wrapped saver has aput of its own, a put leaves at most one event in the
\* session's database, however the threads interleave and however many sessions are
\* started and ended in it.
THEOREM PutsAreCountedOnce ==
    ASSUME Inner = "async"
    PROVE  Spec => []AuditedOnce
<1>1. Init => Counted
  BY DEF Init, Counted, EventsOf, Early
<1>2. Types /\ Counted /\ [Next]_vars => Counted'
  BY CountedStep
<1>3. Spec => [](Types /\ Counted)
  <2>1. Types /\ [Next]_vars => Types'
    BY TypesStep
  <2>. QED BY <1>1, <1>2, <2>1, InitTypes, PTL DEF Spec
<1>4. Types /\ Counted => AuditedOnce
  <2>. SUFFICES ASSUME Types, Counted, NEW n \in 1..calls
                PROVE  Cardinality(EventsOf(n)) <= 1
    BY DEF AuditedOnce
  <2>1. EventsOf(n) = {} \/ \E i : EventsOf(n) = {i}
    <3>1. n \in Nat
      BY DEF Types, CallTypes
    <3>. QED BY <3>1 DEF Counted
  <2>2. ASSUME NEW i, EventsOf(n) = {i} PROVE Cardinality(EventsOf(n)) = 1
    BY <2>2, FS_Singleton
  <2>3. Cardinality({}) = 0
    BY FS_EmptySet
  <2>. QED BY <2>1, <2>2, <2>3
<1>. QED BY <1>3, <1>4, PTL

-----------------------------------------------------------------------------
(* The file of a session that was ended once.                              *)

\* The first session as its only ledger object sees it.
First == With(objects[1])

\* No session yet, or one, whose ledger object is the current one.
AtMostOne ==
    \/ objects = <<>> /\ rows = <<>>
    \/ Len(objects) = 1 /\ current = 1 /\ First.sid = Sid /\ Recording(First, 0)

Exporting == \E t \in Threads : pc[t] = "export"

\* Until the first export there is one ledger object, and every thread that holds a
\* ledger holds it; then the file stays what it is until a second session is ended.
FirstSession ==
    /\ ends = 0 => AtMostOne /\ file = <<>>
    /\ ends = 1 /\ Exporting => Len(objects) = 1 /\ AtMostOne /\ Ended(First, 0)
    /\ EndedOnceVerifies

\* A write of the only ledger object goes on with the session.
LEMMA WriteRecords ==
    ASSUME Types, AtMostOne, Len(objects) = 1, NEW type \in {"ACTION", "SESSION_END"}, NEW body,
           WriteTo(1, type, body), UNCHANGED current
    PROVE  /\ AtMostOne' /\ Len(objects') = 1
           /\ type = "SESSION_END" \/ Ended(First, 0) => Ended(First, 0)'
<1>1. PICK l : l = Stored(First, type, body)
  OBVIOUS
<1>2. IsSeq(objects) /\ DOMAIN objects = 1..1 /\ Len(<<>>) = 0
  BY SeqDomain DEF Types, SessionTypes, AreObjects
<1>3. current = 1 /\ First.sid = Sid /\ Recording(First, 0)
  BY DEF AtMostOne
<1>4. /\ Recording(l, 0) /\ l.sid = Sid
      /\ type = "SESSION_END" \/ Ended(First, 0) => Ended(l, 0)
  BY <1>1, <1>3, StoredRecords, StoredEnds
<1>5. rows' = l.rows /\ objects' = [objects EXCEPT ![1] = Forget(l)]
  BY <1>1 DEF WriteTo, First
<1>6. objects'[1] = Forget(l)
  BY <1>2, <1>5
<1>7. [Forget(l) EXCEPT !.rows = l.rows] = l
  BY <1>4 DEF Forget, Recording, IsLedger
<1>8. First' = l
  BY <1>5, <1>6, <1>7 DEF First, With
<1>9. Len(objects') = 1
  <2>1. objects' = [i \in 1..1 |-> objects'[i]]
    BY <1>2, <1>5 DEF IsSeq
  <2>. QED BY <2>1, FunctionIsSequence
<1>. QED BY <1>3, <1>4, <1>8, <1>9 DEF AtMostOne

\* The first _ensure_started opens the session on an empty database.
LEMMA StartRecords ==
    ASSUME Types, AtMostOne, NEW t \in Threads, EnsureStarted(t)
    PROVE  AtMostOne'
<1>1. CASE started
  <2>1. UNCHANGED <<current, objects, rows>>
    BY <1>1 DEF EnsureStarted, session
  <2>. QED BY <2>1 DEF AtMostOne, First, With, Recording, IsLedger, IsSession
<1>2. CASE ~started
  <2>0. current = 0
    BY <1>2 DEF Types, SessionTypes
  <2>1. objects = <<>> /\ rows = <<>> /\ Len(<<>>) = 0
    BY <2>0 DEF AtMostOne
  <2>2. PICK l : l = Opened(With(NewLedger(Sid)), Sid, [implicit |-> FALSE])
    OBVIOUS
  <2>3. IsLedger(With(NewLedger(Sid))) /\ With(NewLedger(Sid)).rows = <<>>
    BY <2>1 DEF IsLedger, With, NewLedger, IsSeq
  <2>4. Recording(l, 0) /\ l.sid = Sid
    <3>. PICK k : k = With(NewLedger(Sid))
      OBVIOUS
    <3>1. \A i \in DOMAIN k.rows : k.rows[i].session # Sid
      BY <2>3
    <3>2. ~Has([implicit |-> FALSE], "pubkey")
      BY DEF Has
    <3>. QED BY <2>1, <2>2, <2>3, <3>1, <3>2, OpenedRecords
  <2>5. /\ rows' = l.rows /\ objects' = Append(<<>>, Forget(l)) /\ current' = 1
    BY <1>2, <2>1, <2>2 DEF EnsureStarted
  <2>6. objects'[1] = Forget(l) /\ Len(objects') = 1
    BY <2>5
  <2>7. [Forget(l) EXCEPT !.rows = l.rows] = l
    BY <2>4 DEF Forget, Recording, IsLedger
  <2>8. First' = l
    BY <2>5, <2>6, <2>7 DEF First, With
  <2>. QED BY <2>4, <2>5, <2>6, <2>8 DEF AtMostOne
<1>. QED BY <1>1, <1>2

LEMMA FirstSessionStep == Types /\ FirstSession /\ [Next]_vars => FirstSession'
<1>. SUFFICES ASSUME Types, FirstSession, [Next]_vars PROVE FirstSession'
  OBVIOUS
<1>T. Types'
  BY TypesStep
<1>U. UNCHANGED <<current, objects, rows>> /\ AtMostOne =>
         AtMostOne' /\ (Ended(First, 0) => Ended(First, 0)')
  BY DEF AtMostOne, First, With, Recording, IsLedger, IsSession, Ended
<1>K. ASSUME UNCHANGED <<current, objects, rows, file, ends>>, Exporting' => Exporting
      PROVE  FirstSession'
  BY <1>U, <1>K DEF FirstSession, EndedOnceVerifies
<1>1. CASE UNCHANGED vars
  BY <1>K, <1>1 DEF vars, session, Exporting
<1>M. ASSUME NEW t \in Threads, NEW label, NEW n, NEW c, Moves(t, label, n, c), label # "export",
             pc[t] # "export"
      PROVE  Exporting' <=> Exporting
  BY <1>M, MovesOthers DEF Exporting
<1>2. ASSUME NEW t \in Threads, NEW kind \in Kinds, Begin(t, kind)
      PROVE  FirstSession'
  <2>1. UNCHANGED <<current, objects, rows, file, ends>>
    BY <1>2 DEF Begin, session
  <2>2. Exporting' <=> Exporting
    <3>1. PICK label, c : /\ Moves(t, label, ref[t], c) /\ pc[t] = "idle"
                               /\ label \in {"start", "end"}
      BY <1>2, BeginTypes
    <3>. QED BY <1>M, <3>1
  <2>. QED BY <1>K, <2>1, <2>2
<1>3. ASSUME NEW t \in Threads, EnsureStarted(t)
      PROVE  FirstSession'
  <2>1. UNCHANGED <<file, ends, lock>> /\ lock = Free
    BY <1>3 DEF EnsureStarted
  <2>2. Exporting' <=> Exporting
    BY <1>3, <1>M, StartTypes
  <2>3. ~Exporting
    BY <2>1, CheckpointerAssumption DEF Exporting, Types, LockTypes
  <2>4. ends = 0 => AtMostOne'
    BY <1>3, StartRecords DEF FirstSession
  <2>. QED BY <2>1, <2>2, <2>3, <2>4 DEF FirstSession, EndedOnceVerifies
<1>4. ASSUME NEW t \in Threads, FetchLedger(t) \/ Save(t) \/ NothingToEnd(t)
      PROVE  FirstSession'
  <2>1. UNCHANGED <<current, objects, rows, file, ends>>
    BY <1>4 DEF FetchLedger, Save, NothingToEnd, session
  <2>2. Exporting' <=> Exporting
    <3>1. PICK label, n, c : /\ Moves(t, label, n, c) /\ pc[t] \in {"fetch", "save", "end"}
                                  /\ label \in {"audit", "idle"}
      BY <1>4, FetchTypes, SaveTypes
    <3>. QED BY <1>M, <3>1
  <2>. QED BY <1>K, <2>1, <2>2
<1>5. ASSUME NEW t \in Threads, Audit(t)
      PROVE  FirstSession'
  <2>1. UNCHANGED <<current, file, ends>>
    BY <1>5 DEF Audit
  <2>2. Exporting' <=> Exporting
    <3>1. Moves(t, Audited(t), ref[t], AuditedCall(t)) /\ pc[t] = "audit"
      BY <1>5, AuditTypes
    <3>2. Audited(t) # "export"
      BY DEF Audited
    <3>. QED BY <1>M, <3>1, <3>2
  <2>3. CASE ref[t] = 0
    <3>1. UNCHANGED <<rows, objects>>
      BY <1>5, <2>3 DEF Audit
    <3>. QED BY <1>K, <2>1, <2>2, <3>1
  <2>4. CASE ref[t] # 0
    <3>1. WriteTo(ref[t], "ACTION", [id |-> call[t].id]) /\ ref[t] \in 1..Len(objects)
      BY <1>5, <2>4, LocalsKept DEF Audit
    <3>2. ASSUME AtMostOne
          PROVE  AtMostOne' /\ Len(objects') = 1 /\ (Ended(First, 0) => Ended(First, 0)')
      <4>1. Len(objects) = 1 /\ ref[t] = 1
        <5>1. objects = <<>> => Len(objects) = 0
          OBVIOUS
        <5>2. Len(objects) = 1
          BY <3>1, <3>2, <5>1 DEF AtMostOne
        <5>. QED BY <3>1, <5>2
      <4>. QED BY <2>1, <3>1, <3>2, <4>1, WriteRecords
    <3>. QED BY <2>1, <2>2, <3>2 DEF FirstSession, EndedOnceVerifies
  <2>. QED BY <2>3, <2>4
<1>6. ASSUME NEW t \in Threads, CloseSession(t)
      PROVE  FirstSession'
  <2>1. /\ UNCHANGED <<current, file>> /\ ends' = ends + 1 /\ started /\ ends \in Nat
        /\ WriteTo(current, "SESSION_END", [id |-> call[t].id])
    BY <1>6 DEF CloseSession, Types, SessionTypes
  <2>2. CASE ends # 0
    <3>1. ends' # 0 /\ ends' # 1
      BY <2>1, <2>2
    <3>. QED BY <3>1 DEF FirstSession, EndedOnceVerifies
  <2>3. CASE ends = 0
    <3>1. Len(objects) = 1 /\ current = 1
      <4>1. current # 0 /\ current \in 0..Len(objects) /\ Len(<<>>) = 0
        BY <2>1 DEF Types, SessionTypes
      <4>. QED BY <2>3, <4>1 DEF FirstSession, AtMostOne
    <3>2. AtMostOne' /\ Len(objects') = 1 /\ Ended(First, 0)'
      BY <2>1, <2>3, <3>1, WriteRecords DEF FirstSession
    <3>. QED BY <2>1, <2>3, <3>2 DEF FirstSession, EndedOnceVerifies
  <2>. QED BY <2>2, <2>3
<1>7. ASSUME NEW t \in Threads, ExportSession(t)
      PROVE  FirstSession'
  <2>1. /\ UNCHANGED <<current, objects, rows, ends>> /\ pc[t] = "export" /\ ends > 0
        /\ file' = Exported(With(objects[current])) /\ Moves(t, "forget", ref[t], call[t])
    <3>1. Moves(t, "forget", ref[t], call[t])
      BY <1>7, LocalsKept DEF ExportSession, Moves, Goto, Labels, locals
    <3>. QED BY <1>7, <3>1 DEF ExportSession, session, Types, LockTypes
  <2>2. ~Exporting'
    <3>1. \A u \in Threads \ {t} : pc[u] # "export"
      BY <2>1 DEF Types, LockTypes
    <3>. QED BY <2>1, <3>1, MovesOthers DEF Exporting
  <2>3. ends = 1 => PythonVerify(file', NoPin, FALSE).status = "INTACT"
    <3>1. ends = 1 => current = 1 /\ Recording(First, 0) /\ Ended(First, 0)
      <4>1. Len(<<>>) = 0
        OBVIOUS
      <4>. QED BY <2>1, <4>1 DEF FirstSession, Exporting, AtMostOne
    <3>2. ends = 1 => file' = Exported(First)
      BY <2>1, <3>1 DEF First
    <3>. QED BY <3>1, <3>2, EndedVerifies
  <2>4. EndedOnceVerifies'
    BY <2>1, <2>3 DEF EndedOnceVerifies
  <2>5. ends' # 0
    BY <2>1
  <2>. QED BY <2>2, <2>4, <2>5 DEF FirstSession
<1>8. ASSUME NEW t \in Threads, ForgetLedger(t)
      PROVE  FirstSession'
  <2>1. UNCHANGED <<file, ends>> /\ ends > 0 /\ pc[t] = "forget"
    BY <1>8 DEF ForgetLedger, Types, LockTypes
  <2>2. ~Exporting'
    <3>1. \A u \in Threads : pc[u] # "export"
      BY <2>1 DEF Types, LockTypes
    <3>2. Moves(t, "idle", 0, NoCall)
      BY <1>8, <2>1, NoCallIsCall DEF ForgetLedger, Return, Goto, Moves, Labels
    <3>. QED BY <3>1, <3>2, MovesOthers DEF Exporting
  <2>3. EndedOnceVerifies' /\ ends' # 0
    <3>1. ends \in Nat
      BY DEF Types, SessionTypes
    <3>2. EndedOnceVerifies
      BY DEF FirstSession
    <3>3. EndedOnceVerifies'
      BY <2>1, <3>2 DEF EndedOnceVerifies
    <3>. QED BY <2>1, <3>1, <3>3
  <2>. QED BY <2>2, <2>3 DEF FirstSession
<1>. QED BY <1>1, <1>2, <1>3, <1>4, <1>5, <1>6, <1>7, <1>8 DEF Next, Step

\* However many threads put while the session is closed and exported: they all write
\* through the one ledger object, so the file is a single numbered chain with its end in it,
\* and it stays the one on disk until a second session is ended.
THEOREM EndedFileVerifies == Spec => []EndedOnceVerifies
<1>1. Init => FirstSession
  BY DEF Init, FirstSession, AtMostOne, EndedOnceVerifies
<1>2. Spec => []FirstSession
  BY <1>1, TypesHold, FirstSessionStep, PTL DEF Spec
<1>3. FirstSession => EndedOnceVerifies
  BY DEF FirstSession
<1>. QED BY <1>2, <1>3, PTL
=============================================================================
