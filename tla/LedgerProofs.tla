---------------------------- MODULE LedgerProofs ----------------------------
(***************************************************************************)
(* Proofs about SqliteLedger, for any number of threads, sessions and      *)
(* payloads and any bound MaxRows: what holds in any environment, then the *)
(* chain, the refinement and the exports for calls that do not overlap.    *)
(***************************************************************************)
EXTENDS SqliteLedger, SessionProofs

-----------------------------------------------------------------------------
(* Sequences as logs.                                                      *)

\* A log is a function on 1..n.
LEMMA LogDomain ==
    ASSUME NEW l, IsLog(l)
    PROVE  Len(l) \in Nat /\ DOMAIN l = 1..Len(l)
BY DEF IsLog

\* The other way around: a function on 1..n is a log of length n.
LEMMA FunctionIsLog ==
    ASSUME NEW n \in Nat, NEW l, l = [i \in 1..n |-> l[i]]
    PROVE  IsLog(l) /\ Len(l) = n
BY DEF IsLog

\* What Append, with which __write_event extends the table, returns.
LEMMA AppendLog ==
    ASSUME NEW l, NEW e, IsLog(l)
    PROVE  /\ IsLog(Append(l, e))
           /\ Len(Append(l, e)) = Len(l) + 1
           /\ DOMAIN Append(l, e) = 1..(Len(l) + 1)
           /\ \A i \in 1..Len(l) : Append(l, e)[i] = l[i]
           /\ Append(l, e)[Len(l) + 1] = e
<1>1. l \in Seq({l[i] : i \in DOMAIN l} \cup {e})
  BY DEF IsLog
<1>2. /\ Append(l, e) \in Seq({l[i] : i \in DOMAIN l} \cup {e})
      /\ Len(Append(l, e)) = Len(l) + 1
      /\ DOMAIN Append(l, e) = 1..(Len(l) + 1)
      /\ \A i \in 1..Len(l) : Append(l, e)[i] = l[i]
      /\ Append(l, e)[Len(l) + 1] = e
  BY <1>1
<1>3. IsLog(Append(l, e))
  BY <1>2 DEF IsLog
<1>. QED BY <1>2, <1>3

\* One session's rows change, all sessions still have logs.
LEMMA UpdateLogs ==
    ASSUME NEW f, AreLogs(f), NEW s \in Sessions, NEW l, IsLog(l),
           NEW g, g = [f EXCEPT ![s] = l]
    PROVE  AreLogs(g)
<1>1. /\ g \in [Sessions -> {g[r] : r \in Sessions}]
      /\ \A r \in Sessions : g[r] = IF r = s THEN l ELSE f[r]
  BY DEF AreLogs
<1>2. ASSUME NEW r \in Sessions PROVE IsLog(g[r])
  BY <1>1 DEF AreLogs
<1>. QED BY <1>1, <1>2 DEF AreLogs

\* The empty table.
LEMMA EmptyLogs == AreLogs([s \in Sessions |-> <<>>])
BY DEF AreLogs, IsLog

-----------------------------------------------------------------------------
(* What the two statements do to the rows the connection sees.             *)

\* INSERT adds one row to the current session, or nothing if there is none.
LEMMA InsertRows ==
    ASSUME TypeOK, NEW t \in Threads, Insert(t)
    PROVE  /\ AreLogs(view')
           /\ \A s \in Sessions : view'[s] =
                IF s = sessionId THEN Append(view[s], NextEvent(t)) ELSE view[s]
<1>1. CASE sessionId \in Sessions
  <2>. DEFINE l == Append(view[sessionId], NextEvent(t))
  <2>1. IsLog(l)
    BY <1>1, AppendLog DEF TypeOK, AreLogs
  <2>2. view' = [view EXCEPT ![sessionId] = l] /\ AreLogs(view)
    BY DEF Insert, TypeOK
  <2>3. l = Append(view[sessionId], NextEvent(t))
    OBVIOUS
  <2>. HIDE DEF l
  <2>4. AreLogs(view')
    BY <1>1, <2>1, <2>2, UpdateLogs
  <2>5. \A s \in Sessions : view'[s] = IF s = sessionId THEN l ELSE view[s]
    BY <2>2 DEF AreLogs
  <2>. QED BY <2>3, <2>4, <2>5
<1>2. CASE sessionId \notin Sessions
  <2>1. view' = view
    BY <1>2 DEF Insert, TypeOK, AreLogs
  <2>. QED BY <1>2, <2>1 DEF TypeOK
<1>. QED BY <1>1, <1>2

\* UPDATE replaces the rows numbered 1 of the current session and no other.
LEMMA EmbedRows ==
    ASSUME TypeOK, NEW t \in Threads, EmbedToken(t)
    PROVE  LET e == Anchored(FirstRow, imprint[t], Key)
           IN  /\ AreLogs(view')
               /\ event' = [event EXCEPT ![t] = e]
               /\ \A s \in Sessions :
                    /\ DOMAIN view'[s] = DOMAIN view[s]
                    /\ \A i \in DOMAIN view[s] : view'[s][i] =
                         IF s = sessionId /\ view[s][i].seq = 1 THEN e ELSE view[s][i]
<1>. DEFINE e == Anchored(FirstRow, imprint[t], Key)
            l == [i \in DOMAIN view[sessionId] |->
                    IF view[sessionId][i].seq = 1 THEN e ELSE view[sessionId][i]]
<1>1. /\ view' = [view EXCEPT ![sessionId] = l]
      /\ event' = [event EXCEPT ![t] = e]
  BY DEF EmbedToken
<1>. HIDE DEF e
<1>2. CASE sessionId \in Sessions
  <2>1. /\ Len(view[sessionId]) \in Nat
        /\ DOMAIN view[sessionId] = 1..Len(view[sessionId])
    BY <1>2, LogDomain DEF TypeOK, AreLogs
  <2>2. l = [i \in 1..Len(view[sessionId]) |-> l[i]]
    BY <2>1
  <2>. HIDE DEF l
  <2>3. IsLog(l)
    BY <2>1, <2>2, FunctionIsLog
  <2>4. AreLogs(view)
    BY DEF TypeOK
  <2>5. AreLogs(view')
    BY <1>1, <1>2, <2>3, <2>4, UpdateLogs
  <2>6. \A s \in Sessions : view'[s] = IF s = sessionId THEN l ELSE view[s]
    BY <1>1, <2>4 DEF AreLogs
  <2>7. /\ DOMAIN l = DOMAIN view[sessionId]
        /\ \A i \in DOMAIN view[sessionId] :
             l[i] = IF view[sessionId][i].seq = 1 THEN e ELSE view[sessionId][i]
    BY DEF l
  <2>8. ASSUME NEW s \in Sessions
        PROVE  /\ DOMAIN view'[s] = DOMAIN view[s]
               /\ \A i \in DOMAIN view[s] : view'[s][i] =
                    IF s = sessionId /\ view[s][i].seq = 1 THEN e ELSE view[s][i]
    BY <2>6, <2>7
  <2>9. event' = [event EXCEPT ![t] = e]
    BY <1>1
  <2>. USE DEF e
  <2>. QED BY <2>5, <2>8, <2>9, Zenon
<1>3. CASE sessionId \notin Sessions
  <2>1. view' = view
    BY <1>1, <1>3 DEF TypeOK, AreLogs
  <2>. QED BY <1>1, <1>3, <2>1 DEF TypeOK, e
<1>. QED BY <1>2, <1>3

-----------------------------------------------------------------------------
(* Types.                                                                  *)

Labels == Locked \cup Unlocked

\* A move of one thread to a program point keeps the types.
LEMMA GotoTypes ==
    ASSUME TypeOK, NEW t \in Threads, NEW label \in Labels, Goto(t, label)
    PROVE  pc' \in [Threads -> Labels]
BY DEF TypeOK, Goto, Labels

\* Leaving __write_event or open_session, which clears the locals, keeps the types.
LEMMA LeaveTypes ==
    ASSUME TypeOK, NEW t \in Threads, NEW label \in Labels, Leave(t, label)
    PROVE  /\ pc' \in [Threads -> Labels]
           /\ task' \in [Threads -> Tasks]
           /\ DOMAIN event' = Threads /\ DOMAIN imprint' = Threads
<1>1. OpeningTask \in Tasks
  BY DEF OpeningTask, Tasks, SdkTypes, Payloads
<1>. QED BY <1>1, GotoTypes DEF TypeOK, Leave

\* record and close_session start __write_event with a well-typed task.
LEMMA StartWriteTypes ==
    ASSUME TypeOK, NEW t \in Threads, NEW type \in SdkTypes, NEW body \in Data,
           StartWrite(t, type, body)
    PROVE  TypeOK'
<1>1. WriteTask(type, body) \in Tasks
  BY DEF WriteTask, Tasks, Payloads
<1>2. pc' \in [Threads -> Labels]
  BY GotoTypes DEF StartWrite, Labels, Unlocked
<1>. QED BY <1>1, <1>2 DEF StartWrite, TypeOK, Labels, durable, fields

\* A call that starts has arguments of the right type.
LEMMA CallTypes ==
    ASSUME TypeOK, NEW t \in Threads, Calls(t)
    PROVE  TypeOK'
<1>1. ASSUME NEW s \in Sessions, OpenSession(t, s) PROVE TypeOK'
  <2>1. OpeningTask \in Tasks
    BY DEF OpeningTask, Tasks, SdkTypes, Payloads
  <2>2. pc' \in [Threads -> Labels]
    BY <1>1, GotoTypes DEF OpenSession, Labels, Unlocked
  <2>3. AreLogs(view') /\ AreLogs(table')
    BY <1>1 DEF OpenSession, TypeOK
  <2>4. task' \in [Threads -> Tasks]
    BY <1>1, <2>1 DEF OpenSession, TypeOK
  <2>. QED BY <1>1, <2>2, <2>3, <2>4 DEF OpenSession, TypeOK, Labels
<1>2. CASE Record(t)
  BY <1>2, StartWriteTypes DEF Record, IsRecorded
<1>3. CASE CloseSession(t)
  <2>1. "SESSION_END" \in SdkTypes
    BY DEF SdkTypes
  <2>. QED BY <1>3, <2>1, StartWriteTypes DEF CloseSession
<1>4. CASE Close(t)
  BY <1>4 DEF Close, TypeOK, durable, fields, locals
<1>5. CASE Export(t)
  BY <1>5 DEF Export, TypeOK, fields, locals
<1>. QED BY <1>1, <1>2, <1>3, <1>4, <1>5 DEF Calls

\* Every step of __write_event keeps the types.
LEMMA WritingTypes ==
    ASSUME TypeOK, NEW t \in Threads, Writing(t)
    PROVE  TypeOK'
<1>. USE DEF durable, fields, locals
<1>1. CASE Enter(t)
  <2>1. pc' \in [Threads -> Labels]
    BY <1>1, GotoTypes DEF Enter, Labels, Unlocked
  <2>. QED BY <1>1, <2>1 DEF Enter, TypeOK, Labels
<1>2. CASE Connect(t)
  <2>1. pc' \in [Threads -> Labels]
    BY <1>2, GotoTypes DEF Connect, Labels, Unlocked
  <2>. QED BY <1>2, <2>1 DEF Connect, TypeOK, Labels
<1>3. CASE Acquire(t)
  <2>1. pc' \in [Threads -> Labels]
    BY <1>3, GotoTypes DEF Acquire, Labels, Locked
  <2>. QED BY <1>3, <2>1 DEF Acquire, TypeOK, Labels
<1>4. CASE Insert(t)
  <2>1. pc' \in [Threads -> Labels]
    BY <1>4, GotoTypes DEF Insert, Labels, Locked
  <2>2. AreLogs(view')
    BY <1>4, InsertRows
  <2>. QED BY <1>4, <2>1, <2>2 DEF Insert, TypeOK, Labels
<1>5. CASE Commit(t)
  <2>1. pc' \in [Threads -> Labels]
    BY <1>5, GotoTypes DEF Commit, Labels, Locked
  <2>. QED BY <1>5, <2>1 DEF Commit, TypeOK, Labels
<1>6. CASE Advance(t)
  <2>1. Caller(t) \in Labels
    BY DEF Caller, Labels, Unlocked
  <2>. QED BY <1>6, <2>1, LeaveTypes DEF Advance, TypeOK, Labels
<1>7. CASE StatementFails(t)
  <2>1. Caller(t) \in Labels /\ "idle" \in Labels
    BY DEF Caller, Labels, Unlocked
  <2>2. pc' \in [Threads -> Labels] /\ task' \in [Threads -> Tasks]
        /\ DOMAIN event' = Threads /\ DOMAIN imprint' = Threads
    BY <1>7, <2>1, LeaveTypes DEF StatementFails
  <2>. QED BY <1>7, <2>2 DEF StatementFails, TypeOK, Labels
<1>8. CASE CommitFails(t)
  <2>1. Caller(t) \in Labels /\ "idle" \in Labels
    BY DEF Caller, Labels, Unlocked
  <2>2. pc' \in [Threads -> Labels] /\ task' \in [Threads -> Tasks]
        /\ DOMAIN event' = Threads /\ DOMAIN imprint' = Threads
    BY <1>8, <2>1, LeaveTypes DEF CommitFails
  <2>. QED BY <1>8, <2>2 DEF CommitFails, TypeOK, Labels
<1>. QED BY <1>1, <1>2, <1>3, <1>4, <1>5, <1>6, <1>7, <1>8 DEF Writing

\* Every step of the RFC 3161 anchoring keeps the types.
LEMMA AnchoringTypes ==
    ASSUME TypeOK, NEW t \in Threads, Anchoring(t)
    PROVE  TypeOK'
<1>. USE DEF durable, fields, locals
<1>0. "idle" \in Labels
  BY DEF Labels, Unlocked
<1>1. CASE ReadTip(t)
  <2>1. pc' \in [Threads -> Labels]
    BY <1>1, GotoTypes DEF ReadTip, Labels, Unlocked
  <2>. QED BY <1>1, <2>1 DEF ReadTip, TypeOK, Labels
<1>2. CASE NoTimestamp(t)
  BY <1>2, <1>0, LeaveTypes DEF NoTimestamp, TypeOK, Labels
<1>3. CASE Timestamp(t)
  <2>1. CASE conn
    <3>1. pc' \in [Threads -> Labels]
      BY <1>3, <2>1, GotoTypes DEF Timestamp, Labels, Unlocked
    <3>. QED BY <1>3, <2>1, <3>1 DEF Timestamp, TypeOK, Labels
  <2>2. CASE ~conn
    BY <1>3, <2>2, <1>0, LeaveTypes DEF Timestamp, TypeOK, Labels
  <2>. QED BY <2>1, <2>2
<1>4. CASE Relock(t)
  <2>1. pc' \in [Threads -> Labels]
    BY <1>4, GotoTypes DEF Relock, Labels, Locked
  <2>. QED BY <1>4, <2>1 DEF Relock, TypeOK, Labels
<1>5. CASE EmbedToken(t)
  <2>1. pc' \in [Threads -> Labels]
    BY <1>5, GotoTypes DEF EmbedToken, Labels, Locked
  <2>2. AreLogs(view') /\ DOMAIN event' = DOMAIN event
    BY <1>5, EmbedRows
  <2>. QED BY <1>5, <2>1, <2>2 DEF EmbedToken, TypeOK, Labels
<1>6. CASE NothingToEmbed(t)
  BY <1>6, <1>0, LeaveTypes DEF NothingToEmbed, TypeOK, Labels
<1>7. CASE CommitToken(t)
  <2>1. pc' \in [Threads -> Labels]
    BY <1>7, GotoTypes DEF CommitToken, Labels, Locked
  <2>. QED BY <1>7, <2>1 DEF CommitToken, TypeOK, Labels
<1>8. CASE ResetTip(t)
  BY <1>8, <1>0, LeaveTypes DEF ResetTip, TypeOK, Labels
<1>. QED BY <1>1, <1>2, <1>3, <1>4, <1>5, <1>6, <1>7, <1>8 DEF Anchoring

\* KeyboardInterrupt and a crash keep the types.
LEMMA EnvironmentTypes ==
    ASSUME TypeOK, Interrupt \/ Crash
    PROVE  TypeOK'
<1>1. CASE Interrupt
  <2>1. Main \in Threads /\ "idle" \in Labels
    BY LedgerAssumption DEF Labels, Unlocked
  <2>. QED BY <1>1, <2>1, LeaveTypes DEF Interrupt, TypeOK, Labels, durable, fields
<1>2. CASE Crash
  <2>1. OpeningTask \in Tasks
    BY DEF OpeningTask, Tasks, SdkTypes, Payloads
  <2>2. pc' \in [Threads -> Locked \cup Unlocked] /\ task' \in [Threads -> Tasks]
    BY <1>2, <2>1 DEF Crash, Unlocked
  <2>3. AreLogs(view') /\ AreLogs(table')
    BY <1>2 DEF Crash, TypeOK, durable
  <2>4. conn' \in BOOLEAN
    BY <1>2, Zenon DEF Crash
  <2>5. nextSeq' = 1 /\ sessionId' = NoSession /\ lock' = Free /\ opened' = opened
        /\ exported' = exported
    BY <1>2 DEF Crash, durable
  <2>6. DOMAIN event' = Threads /\ DOMAIN imprint' = Threads
    BY <1>2 DEF Crash
  <2>. QED BY <2>2, <2>3, <2>4, <2>5, <2>6 DEF TypeOK
<1>. QED BY <1>1, <1>2

\* The variables keep their types, whatever the environment does.
THEOREM TypeInvariant == Spec => []TypeOK
<1>1. Init => TypeOK
  <2>1. OpeningTask \in Tasks
    BY DEF OpeningTask, Tasks, SdkTypes, Payloads
  <2>. SUFFICES ASSUME Init PROVE TypeOK
    OBVIOUS
  <2>2. AreLogs(table) /\ AreLogs(view)
    BY EmptyLogs DEF Init
  <2>3. pc \in [Threads -> Locked \cup Unlocked] /\ task \in [Threads -> Tasks]
    BY <2>1 DEF Init, Unlocked
  <2>4. conn \in BOOLEAN
    BY Zenon DEF Init
  <2>5. nextSeq = 1 /\ sessionId = NoSession /\ lock = Free /\ opened = {}
    BY DEF Init
  <2>6. DOMAIN event = Threads /\ DOMAIN imprint = Threads /\ DOMAIN exported = Sessions
    BY DEF Init
  <2>. QED BY <2>2, <2>3, <2>4, <2>5, <2>6 DEF TypeOK
<1>2. TypeOK /\ [Next]_vars => TypeOK'
  <2>. SUFFICES ASSUME TypeOK, [Next]_vars PROVE TypeOK'
    OBVIOUS
  <2>1. ASSUME NEW t \in Threads, Calls(t) \/ Writing(t) \/ Anchoring(t)
        PROVE  TypeOK'
    BY <2>1, CallTypes, WritingTypes, AnchoringTypes
  <2>2. CASE UNCHANGED vars
    BY <2>2 DEF vars, durable, fields, locals, TypeOK
  <2>. QED BY <2>1, <2>2, EnvironmentTypes DEF Next
<1>. QED BY <1>1, <1>2, PTL DEF Spec

-----------------------------------------------------------------------------
(* Mutual exclusion: an action moves one thread, and takes or releases the *)
(* lock exactly when it moves that thread into or out of Locked.           *)

\* The lock is untouched and the mover stays on its side of `with self._lock`.
LEMMA LockKept ==
    ASSUME TypeOK, LockDiscipline, NEW t \in Threads, NEW label, Goto(t, label),
           lock' = lock, pc[t] \in Locked <=> label \in Locked
    PROVE  LockDiscipline'
BY DEF TypeOK, LockDiscipline, Goto

\* The holder leaves.
LEMMA LockReleased ==
    ASSUME TypeOK, LockDiscipline, NEW t \in Threads, NEW label \in Unlocked,
           Goto(t, label), pc[t] \in Locked, lock' = Free
    PROVE  LockDiscipline'
<1>1. lock = t /\ Free \notin Threads /\ label \notin Locked
  BY LedgerAssumption DEF LockDiscipline, Locked, Unlocked
<1>. QED BY <1>1 DEF TypeOK, LockDiscipline, Goto

\* A thread takes the free lock.
LEMMA LockTaken ==
    ASSUME TypeOK, LockDiscipline, NEW t \in Threads, NEW label \in Locked,
           Goto(t, label), lock = Free, lock' = t
    PROVE  LockDiscipline'
<1>1. Free \notin Threads
  BY LedgerAssumption
<1>. QED BY <1>1 DEF TypeOK, LockDiscipline, Goto

\* Every step keeps the lock with the one thread inside `with self._lock`.
LEMMA LockStep ==
    ASSUME TypeOK, LockDiscipline, NEW t \in Threads,
           Calls(t) \/ Writing(t) \/ Anchoring(t)
    PROVE  LockDiscipline'
<1>. USE DEF durable, fields, locals
<1>0. Caller(t) \in Unlocked /\ "idle" \in Unlocked
  BY DEF Caller, Unlocked
<1>1. ASSUME MayStart(t) PROVE pc[t] = "idle"
  BY <1>1 DEF MayStart
<1>2. CASE \E s \in Sessions : OpenSession(t, s)
  <2>1. Goto(t, "enter") /\ lock' = lock /\ pc[t] = "idle"
    BY <1>1, <1>2 DEF OpenSession
  <2>. QED BY <2>1, LockKept DEF Locked
<1>3. CASE Record(t) \/ CloseSession(t)
  <2>1. Goto(t, "enter") /\ lock' = lock /\ pc[t] = "idle"
    BY <1>1, <1>3 DEF Record, CloseSession, StartWrite
  <2>. QED BY <2>1, LockKept DEF Locked
<1>4. CASE Close(t) \/ Export(t)
  BY <1>4 DEF Close, Export, LockDiscipline
<1>5. CASE Enter(t)
  <2>1. Goto(t, IF conn THEN "acquire" ELSE "connect") /\ lock' = lock /\ pc[t] = "enter"
    BY <1>5 DEF Enter
  <2>. QED BY <2>1, LockKept DEF Locked
<1>6. CASE Connect(t)
  BY <1>6, LockKept DEF Connect, Locked
<1>7. CASE Acquire(t)
  BY <1>7, LockTaken DEF Acquire, Locked
<1>8. CASE Insert(t) \/ Commit(t)
  BY <1>8, LockKept DEF Insert, Commit, Locked
<1>9. CASE Advance(t)
  BY <1>9, <1>0, LockReleased DEF Advance, Leave, Locked
<1>10. CASE StatementFails(t)
  <2>1. PICK label \in Unlocked : Goto(t, label)
    BY <1>10, <1>0 DEF StatementFails, Leave
  <2>. QED BY <1>10, <2>1, LockReleased DEF StatementFails, Locked
<1>11. CASE CommitFails(t)
  <2>1. PICK label \in Unlocked : Goto(t, label)
    BY <1>11, <1>0 DEF CommitFails, Leave
  <2>. QED BY <1>11, <2>1, LockReleased DEF CommitFails, Locked
<1>12. CASE ReadTip(t) \/ NoTimestamp(t)
  BY <1>12, LockKept DEF ReadTip, NoTimestamp, Leave, Locked
<1>13. CASE Timestamp(t)
  <2>1. CASE conn
    BY <1>13, <2>1, LockKept DEF Timestamp, Locked
  <2>2. CASE ~conn
    BY <1>13, <2>2, LockKept DEF Timestamp, Leave, Locked
  <2>. QED BY <2>1, <2>2
<1>14. CASE Relock(t)
  BY <1>14, LockTaken DEF Relock, Locked
<1>15. CASE EmbedToken(t) \/ CommitToken(t)
  BY <1>15, LockKept DEF EmbedToken, CommitToken, Locked
<1>16. CASE NothingToEmbed(t) \/ ResetTip(t)
  BY <1>16, <1>0, LockReleased DEF NothingToEmbed, ResetTip, Leave, Locked
<1>. QED BY <1>2, <1>3, <1>4, <1>5, <1>6, <1>7, <1>8, <1>9, <1>10, <1>11, <1>12,
            <1>13, <1>14, <1>15, <1>16 DEF Calls, Writing, Anchoring

\* The lock is held exactly by the thread inside `with self._lock`, on every way
\* out of it.
THEOREM MutualExclusion == Spec => []LockDiscipline
<1>1. Init => LockDiscipline
  BY LedgerAssumption DEF Init, LockDiscipline, Locked
<1>2. TypeOK /\ LockDiscipline /\ [Next]_vars => LockDiscipline'
  <2>. SUFFICES ASSUME TypeOK, LockDiscipline, [Next]_vars PROVE LockDiscipline'
    OBVIOUS
  <2>1. ASSUME NEW t \in Threads, Calls(t) \/ Writing(t) \/ Anchoring(t)
        PROVE  LockDiscipline'
    BY <2>1, LockStep
  <2>2. CASE Interrupt
    <3>1. Main \in Threads /\ Free \notin Threads /\ Goto(Main, "idle")
          /\ lock' = IF lock = Main THEN Free ELSE lock
      BY <2>2, LedgerAssumption DEF Interrupt, Leave
    <3>. QED BY <3>1 DEF LockDiscipline, TypeOK, Goto, Locked
  <2>3. CASE Crash
    BY <2>3, LedgerAssumption DEF Crash, LockDiscipline, Locked
  <2>4. CASE UNCHANGED vars
    BY <2>4 DEF vars, LockDiscipline
  <2>. QED BY <2>1, <2>2, <2>3, <2>4 DEF Next
<1>. QED BY <1>1, <1>2, TypeInvariant, PTL DEF Spec

-----------------------------------------------------------------------------
(* Authenticity of every row, under any interleaving, interrupt, failure   *)
(* and crash.                                                              *)

RowsAuthentic(f) == \A s \in Sessions : \A i \in DOMAIN f[s] : Authentic(f[s][i])

\* The committed rows and those of the open transaction alike.
AllAuthentic == RowsAuthentic(table) /\ RowsAuthentic(view)

\* What __write_event inserts is authentic.
LEMMA NextEventAuthentic ==
    ASSUME TypeOK, NEW t \in Threads
    PROVE  Authentic(NextEvent(t))
<1>1. /\ task[t].type \in SdkTypes
      /\ task[t].payload = [body |-> task[t].payload.body, token |-> task[t].payload.token]
  BY DEF TypeOK, Tasks, Payloads, StartPayload, Payload
<1>. QED BY <1>1 DEF NextEvent, BuildEvent, Authentic, SelfConsistent, Digest

\* Re-hashing and re-signing with a token keeps an authentic event authentic.
LEMMA AnchoredAuthentic ==
    ASSUME NEW e, Authentic(e), NEW i
    PROVE  Authentic(Anchored(e, i, Key)) /\ Anchored(e, i, Key).seq = e.seq
BY DEF Anchored, BuildEvent, Authentic, SelfConsistent, Digest

\* The row the SELECT returns is one of those it matches.
LEMMA FirstRowIsARow ==
    ASSUME TypeOK, FirstRows # {}, sessionId \in Sessions
    PROVE  \E i \in DOMAIN view[sessionId] :
              FirstRow = view[sessionId][i] /\ view[sessionId][i].seq = 1
<1>1. FirstRows \in SUBSET Nat
  <2>1. IsLog(view[sessionId])
    BY DEF TypeOK, AreLogs
  <2>2. DOMAIN view[sessionId] \subseteq Nat
    BY <2>1, LogDomain
  <2>. QED BY <2>2 DEF FirstRows
<1>2. \E m \in FirstRows : \A n \in FirstRows : m <= n
  BY <1>1, LeastElement
<1>3. (CHOOSE i \in FirstRows : \A j \in FirstRows : i <= j) \in FirstRows
  BY <1>2
<1>. QED BY <1>3 DEF FirstRow, FirstRows

\* Every step keeps the committed rows and those in the open transaction authentic.
LEMMA AuthenticStep ==
    ASSUME TypeOK, AllAuthentic, [Next]_vars
    PROVE  AllAuthentic'
<1>. USE DEF durable, fields, locals
<1>1. ASSUME NEW t \in Threads, Insert(t)
      PROVE  RowsAuthentic(view') /\ table' = table
  <2>1. table' = table
    BY <1>1 DEF Insert
  <2>2. ASSUME NEW s \in Sessions, NEW i \in DOMAIN view'[s]
        PROVE  Authentic(view'[s][i])
    <3>1. CASE s = sessionId
      <4>1. view'[s] = Append(view[s], NextEvent(t)) /\ IsLog(view[s])
        BY <1>1, <3>1, InsertRows DEF TypeOK, AreLogs
      <4>2. /\ DOMAIN view'[s] = 1..(Len(view[s]) + 1)
            /\ \A j \in 1..Len(view[s]) : view'[s][j] = view[s][j]
            /\ view'[s][Len(view[s]) + 1] = NextEvent(t)
            /\ DOMAIN view[s] = 1..Len(view[s]) /\ Len(view[s]) \in Nat
        BY <4>1, AppendLog, LogDomain
      <4>3. i \in 1..Len(view[s]) \/ i = Len(view[s]) + 1
        BY <2>2, <4>2
      <4>. QED BY <4>2, <4>3, NextEventAuthentic DEF AllAuthentic, RowsAuthentic
    <3>2. CASE s # sessionId
      <4>1. view'[s] = view[s]
        BY <1>1, <3>2, InsertRows
      <4>. QED BY <2>2, <4>1 DEF AllAuthentic, RowsAuthentic
    <3>. QED BY <3>1, <3>2
  <2>. QED BY <2>1, <2>2 DEF RowsAuthentic
<1>2. ASSUME NEW t \in Threads, EmbedToken(t)
      PROVE  RowsAuthentic(view') /\ table' = table
  <2>1. table' = table /\ FirstRows # {}
    BY <1>2 DEF EmbedToken
  <2>. DEFINE e == Anchored(FirstRow, imprint[t], Key)
  <2>. HIDE DEF e
  <2>2. ASSUME sessionId \in Sessions PROVE Authentic(e)
    <3>1. Authentic(FirstRow)
      BY <2>1, <2>2, FirstRowIsARow DEF AllAuthentic, RowsAuthentic
    <3>. QED BY <3>1, AnchoredAuthentic DEF e
  <2>3. \A s \in Sessions :
          /\ DOMAIN view'[s] = DOMAIN view[s]
          /\ \A i \in DOMAIN view[s] : view'[s][i] =
               IF s = sessionId /\ view[s][i].seq = 1 THEN e ELSE view[s][i]
    BY <1>2, EmbedRows DEF e
  <2>. QED BY <2>1, <2>2, <2>3 DEF AllAuthentic, RowsAuthentic
<1>3. ASSUME NEW t \in Threads, Calls(t)
      PROVE  table' = table /\ (view' = view \/ view' = table)
  BY <1>3 DEF Calls, OpenSession, Record, CloseSession, StartWrite, Close, Export
<1>4. ASSUME NEW t \in Threads, Writing(t), ~Insert(t)
      PROVE  (table' = table \/ table' = view) /\ (view' = view \/ view' = table)
  BY <1>4 DEF Writing, Enter, Connect, Acquire, Commit, Advance, StatementFails, CommitFails
<1>5. ASSUME NEW t \in Threads, Anchoring(t), ~EmbedToken(t)
      PROVE  (table' = table \/ table' = view) /\ view' = view
  BY <1>5 DEF Anchoring, ReadTip, NoTimestamp, Timestamp, Relock, NothingToEmbed,
              CommitToken, ResetTip
<1>6. ASSUME Interrupt \/ Crash \/ UNCHANGED vars
      PROVE  table' = table /\ (view' = view \/ view' = table)
  BY <1>6 DEF Interrupt, Crash, vars
<1>. QED BY <1>1, <1>2, <1>3, <1>4, <1>5, <1>6 DEF Next, AllAuthentic

\* Every row any reader of the database can find has an SDK type, hashes to its
\* event_hash and is signed over it.
THEOREM Authenticity == Spec => []StoredEventsAreAuthentic
<1>1. Init => AllAuthentic
  BY DEF Init, AllAuthentic, RowsAuthentic
<1>2. TypeOK /\ AllAuthentic /\ [Next]_vars => AllAuthentic'
  BY AuthenticStep
<1>3. AllAuthentic => StoredEventsAreAuthentic
  BY DEF AllAuthentic, RowsAuthentic, StoredEventsAreAuthentic
<1>. QED BY <1>1, <1>2, <1>3, TypeInvariant, PTL DEF Spec

-----------------------------------------------------------------------------
(* Committed rows stay: the open transaction only ever adds rows and       *)
(* rewrites rows numbered 1, so a commit cannot lose the others.           *)

\* g holds the rows of f, apart from those numbered 1 as they are in f.
Keeps(f, g) == \A s \in Sessions : \A i \in DOMAIN f[s] :
                  i \in DOMAIN g[s] /\ (f[s][i].seq # 1 => g[s][i] = f[s][i])

\* No step takes a row away or touches one not numbered 1, committed or in the open
\* transaction.
LEMMA KeepsStep ==
    ASSUME TypeOK, Keeps(table, view), [Next]_vars
    PROVE  Keeps(table, table') /\ Keeps(table', view')
<1>. USE DEF durable, fields, locals
<1>1. ASSUME NEW f PROVE Keeps(f, f)
  BY DEF Keeps
<1>2. ASSUME NEW t \in Threads, Insert(t)
      PROVE  table' = table /\ Keeps(table, view')
  <2>1. table' = table
    BY <1>2 DEF Insert
  <2>2. ASSUME NEW s \in Sessions, NEW i \in DOMAIN table[s]
        PROVE  i \in DOMAIN view'[s] /\ (table[s][i].seq # 1 => view'[s][i] = table[s][i])
    <3>1. i \in DOMAIN view[s] /\ (table[s][i].seq # 1 => view[s][i] = table[s][i])
      BY <2>2 DEF Keeps
    <3>2. i \in DOMAIN view'[s] /\ view'[s][i] = view[s][i]
      <4>1. CASE s = sessionId
        <5>1. view'[s] = Append(view[s], NextEvent(t)) /\ IsLog(view[s])
          BY <1>2, <4>1, InsertRows DEF TypeOK, AreLogs
        <5>. QED BY <3>1, <5>1, AppendLog, LogDomain
      <4>2. CASE s # sessionId
        BY <1>2, <3>1, <4>2, InsertRows
      <4>. QED BY <4>1, <4>2
    <3>. QED BY <3>1, <3>2
  <2>. QED BY <2>1, <2>2 DEF Keeps
<1>3. ASSUME NEW t \in Threads, EmbedToken(t)
      PROVE  table' = table /\ Keeps(table, view')
  <2>1. table' = table
    BY <1>3 DEF EmbedToken
  <2>2. ASSUME NEW s \in Sessions
        PROVE  /\ DOMAIN view'[s] = DOMAIN view[s]
               /\ \A i \in DOMAIN view[s] : view[s][i].seq # 1 => view'[s][i] = view[s][i]
    BY <1>3, EmbedRows
  <2>. QED BY <2>1, <2>2 DEF Keeps
<1>4. ASSUME NEW t \in Threads, Calls(t)
      PROVE  table' = table /\ (view' = view \/ view' = table)
  BY <1>4 DEF Calls, OpenSession, Record, CloseSession, StartWrite, Close, Export
<1>5. ASSUME NEW t \in Threads, Writing(t), ~Insert(t)
      PROVE  \/ table' = table /\ (view' = view \/ view' = table)
             \/ table' = view /\ view' = view
  BY <1>5 DEF Writing, Enter, Connect, Acquire, Commit, Advance, StatementFails, CommitFails
<1>6. ASSUME NEW t \in Threads, Anchoring(t), ~EmbedToken(t)
      PROVE  (table' = table \/ table' = view) /\ view' = view
  BY <1>6 DEF Anchoring, ReadTip, NoTimestamp, Timestamp, Relock, NothingToEmbed,
              CommitToken, ResetTip
<1>7. ASSUME Interrupt \/ Crash \/ UNCHANGED vars
      PROVE  table' = table /\ (view' = view \/ view' = table)
  BY <1>7 DEF Interrupt, Crash, vars
<1>. QED BY <1>1, <1>2, <1>3, <1>4, <1>5, <1>6, <1>7 DEF Next

\* No step removes a committed row, and none rewrites a committed row that is not
\* numbered 1: the UPDATE that embeds the token stays where it belongs.
THEOREM CommittedRowsAreKept == Spec => CommittedRowsStay
<1>. DEFINE Step == \A s \in Sessions : \A i \in DOMAIN table[s] :
                       /\ i \in DOMAIN table'[s]
                       /\ table[s][i].seq # 1 => table'[s][i] = table[s][i]
<1>1. Init => Keeps(table, view)
  BY DEF Init, Keeps
<1>2. TypeOK /\ Keeps(table, view) /\ [Next]_vars => Keeps(table, view)'
  BY KeepsStep DEF Keeps
<1>3. TypeOK /\ Keeps(table, view) /\ [Next]_vars => [Step]_vars
  BY KeepsStep DEF Keeps
<1>. QED BY <1>1, <1>2, <1>3, TypeInvariant, PTL DEF Spec, CommittedRowsStay

-----------------------------------------------------------------------------
(* The hash chain: when calls on one object do not overlap, no session id  *)
(* is used twice and no call is interrupted, the stored rows of every      *)
(* session are a valid chain, whatever statements fail and wherever the    *)
(* process dies.                                                           *)

-----------------------------------------------------------------------------
(* Chains.                                                                 *)

\* An event that carries the next number and the tip extends a chain.
LEMMA ChainAppend ==
    ASSUME NEW l, IsLog(l), IsChain(l),
           NEW e, SelfConsistent(e), e.seq = Len(l) + 1, e.prev = Tip(l)
    PROVE  IsChain(Append(l, e))
<1>. DEFINE k == Append(l, e)
<1>1. /\ Len(k) = Len(l) + 1 /\ Len(l) \in Nat
      /\ \A i \in 1..Len(l) : k[i] = l[i]
      /\ k[Len(l) + 1] = e
  BY AppendLog, LogDomain
<1>. HIDE DEF k
<1>2. ASSUME NEW i \in 1..Len(l) PROVE SelfConsistent(k[i]) /\ LinkedAt(k, i)
  BY <1>1 DEF IsChain, LinkedAt
<1>3. SelfConsistent(k[Len(l) + 1]) /\ LinkedAt(k, Len(l) + 1)
  <2>1. CASE Len(l) = 0
    BY <1>1, <2>1 DEF LinkedAt, Tip, IsLog
  <2>2. CASE Len(l) > 0
    BY <1>1, <2>2 DEF LinkedAt, Tip
  <2>. QED BY <1>1, <2>1, <2>2
<1>4. IsChain(k)
  BY <1>1, <1>2, <1>3 DEF IsChain
<1>. QED BY <1>4 DEF k

\* A chain of one event, and its tip.
LEMMA ChainOfOne ==
    ASSUME NEW e, SelfConsistent(e), e.seq = 1, e.prev = Genesis
    PROVE  /\ IsLog(<<e>>) /\ Len(<<e>>) = 1 /\ <<e>>[1] = e
           /\ IsChain(<<e>>) /\ Tip(<<e>>) = e.hash
<1>1. IsLog(<<e>>) /\ Len(<<e>>) = 1 /\ <<e>>[1] = e /\ <<e>> # <<>>
  BY DEF IsLog
<1>. QED BY <1>1 DEF IsChain, LinkedAt, Tip

\* What __write_event builds fits the fields.
LEMMA NextEventFits ==
    ASSUME TypeOK, NEW t \in Threads
    PROVE  LET e == NextEvent(t)
           IN  /\ SelfConsistent(e) /\ e.seq = nextSeq /\ e.prev = lastHash
               /\ e.payload.token = NoToken /\ e.hash = Digest(e)
<1>1. task[t].payload.token = NoToken
  BY DEF TypeOK, Tasks, Payloads, StartPayload, Payload
<1>. QED BY <1>1 DEF NextEvent, BuildEvent, SelfConsistent, Digest

\* The token stamps the digest the anchored event had without it.
LEMMA AnchoredMatches ==
    ASSUME NEW e, Authentic(e), e.payload.token = NoToken
    PROVE  LET a == Anchored(e, e.hash, Key)
           IN  /\ SelfConsistent(a) /\ a.seq = e.seq /\ a.prev = e.prev
               /\ a.payload.token = <<PreTokenDigest(a)>>
<1>1. e.payload = Payload(e.payload.body)
  BY DEF Authentic, Payload
<1>2. e.hash = <<e.seq, e.type, e.session, Payload(e.payload.body), e.prev>>
  BY <1>1 DEF Authentic, SelfConsistent, Digest
<1>. QED BY <1>2 DEF Anchored, BuildEvent, SelfConsistent, Digest, PreTokenDigest

-----------------------------------------------------------------------------
(* One step of the only call.                                              *)

CallInv(t) == Transaction(t) /\ FieldsInSync(t) /\ Opening(t)

StoredInv == OpenedOnly /\ ChainIntact /\ TokensMatch

\* What holds before a step of t, the only call in progress.
Before(t) == /\ TypeOK /\ StoredEventsAreAuthentic /\ StoredInv
             /\ Alone(t) /\ CallInv(t)

After(t) == Alone(t) /\ CallInv(t) /\ StoredInv

\* A move of t to a program point leaves the other threads outside any call.
LEMMA Moves ==
    ASSUME TypeOK, NEW t \in Threads, Alone(t), NEW label, Goto(t, label)
    PROVE  Alone(t)' /\ pc'[t] = label
BY DEF TypeOK, Goto, Alone

\* The stored part only depends on the table and on the sessions opened.
LEMMA StoredUnchanged ==
    ASSUME StoredInv, table' = table, opened \subseteq opened'
    PROVE  StoredInv'
BY DEF StoredInv, OpenedOnly, ChainIntact, TokensMatch

\* open_session, record, close_session, close and export_jsonl from rows and fields
\* that agree.
LEMMA CallsStep ==
    ASSUME NEW t \in Threads, Before(t), Serial, Calls(t), pc[t] = "idle"
    PROVE  After(t)'
<1>. USE DEF Before, After, durable, fields, locals
<1>1. ASSUME NEW s \in Sessions, OpenSession(t, s) PROVE After(t)'
  <2>1. Alone(t)' /\ pc'[t] = "enter"
    BY <1>1, Moves DEF OpenSession
  <2>2. StoredInv'
    BY <1>1, StoredUnchanged DEF OpenSession
  <2>3. table[s] = <<>> /\ table' = table /\ sessionId' = s
        /\ nextSeq' = 1 /\ lastHash' = Genesis
    BY <1>1 DEF OpenSession, Serial, StoredInv, OpenedOnly
  <2>4. Transaction(t)'
    BY <1>1, <2>1 DEF OpenSession, CallInv, Transaction
  <2>5. FieldsInSync(t)'
    BY <2>1, <2>3 DEF FieldsInSync, Tip
  <2>6. Opening(t)'
    BY <2>1, <2>3 DEF Opening
  <2>. QED BY <2>1, <2>2, <2>4, <2>5, <2>6 DEF CallInv
<1>2. ASSUME NEW type \in SdkTypes, NEW body \in Data, StartWrite(t, type, body)
      PROVE  After(t)'
  <2>1. Alone(t)' /\ pc'[t] = "enter" /\ sessionId' \in Sessions
    BY <1>2, Moves DEF StartWrite, TypeOK
  <2>2. StoredInv'
    BY <1>2, StoredUnchanged DEF StartWrite
  <2>3. ~task'[t].opening
    BY <1>2 DEF StartWrite, WriteTask, TypeOK
  <2>4. CallInv(t)'
    BY <1>2, <2>1, <2>3 DEF StartWrite, CallInv, Transaction, FieldsInSync, Opening
  <2>. QED BY <2>1, <2>2, <2>4
<1>3. CASE Record(t)
  BY <1>2, <1>3 DEF Record, IsRecorded
<1>4. CASE CloseSession(t)
  BY <1>2, <1>4 DEF CloseSession, SdkTypes
<1>5. CASE Close(t) \/ Export(t)
  <2>1. Alone(t)' /\ pc' = pc
    BY <1>5 DEF Close, Export, Alone
  <2>2. StoredInv'
    BY <1>5, StoredUnchanged DEF Close, Export
  <2>3. CallInv(t)'
    BY <1>5, <2>1 DEF Close, Export, CallInv, Transaction, FieldsInSync, Opening
  <2>. QED BY <2>1, <2>2, <2>3
<1>. QED BY <1>1, <1>3, <1>4, <1>5 DEF Calls

\* Steps that only move t along, without touching rows or fields.
LEMMA WaitingStep ==
    ASSUME NEW t \in Threads, Before(t), Enter(t) \/ Connect(t) \/ Acquire(t)
    PROVE  After(t)'
<1>. USE DEF Before, After, durable, fields, locals
<1>1. /\ pc[t] \in {"enter", "connect", "acquire"}
      /\ table' = table /\ opened' = opened /\ task' = task
      /\ sessionId' = sessionId /\ nextSeq' = nextSeq /\ lastHash' = lastHash
      /\ view' = table
  BY DEF Enter, Connect, Acquire, CallInv, Transaction
<1>2. PICK label \in {"connect", "acquire", "build"} : Goto(t, label)
  BY DEF Enter, Connect, Acquire
<1>3. Alone(t)' /\ pc'[t] = label
  BY <1>2, Moves
<1>4. StoredInv'
  BY <1>1, StoredUnchanged
<1>5. CallInv(t)'
  BY <1>1, <1>3 DEF CallInv, Transaction, FieldsInSync, Opening
<1>. QED BY <1>3, <1>4, <1>5

\* INSERT: the transaction holds the next event, nothing is stored yet.
LEMMA InsertStep ==
    ASSUME NEW t \in Threads, Before(t), Insert(t)
    PROVE  After(t)'
<1>. USE DEF Before, After, durable, fields, locals
<1>1. Alone(t)' /\ pc'[t] = "commit" /\ pc[t] = "build"
  BY Moves DEF Insert
<1>2. StoredInv'
  BY StoredUnchanged DEF Insert
<1>3. event'[t] = NextEvent(t) /\ NextEvent(t)' = NextEvent(t)
  BY DEF Insert, TypeOK, NextEvent
<1>4. view' = [table EXCEPT ![sessionId] = Append(@, NextEvent(t))] /\ table' = table
      /\ sessionId' = sessionId
  BY <1>1 DEF Insert, CallInv, Transaction
<1>5. Transaction(t)'
  BY <1>1, <1>3, <1>4 DEF Transaction
<1>6. FieldsInSync(t)' /\ Opening(t)'
  BY <1>1 DEF Insert, CallInv, FieldsInSync, Opening
<1>. QED BY <1>1, <1>2, <1>5, <1>6 DEF CallInv

\* COMMIT: the chain grows by the event, the fields are one event behind.
LEMMA CommitStep ==
    ASSUME NEW t \in Threads, Before(t), Commit(t)
    PROVE  After(t)'
<1>. USE DEF Before, After, durable, fields, locals
<1>. DEFINE rows == table[sessionId]
<1>1. Alone(t)' /\ pc'[t] = "advance" /\ pc[t] = "commit"
  BY Moves DEF Commit
<1>2. /\ sessionId \in Sessions /\ event[t] = NextEvent(t)
      /\ sessionId # NoSession
      /\ nextSeq = Len(rows) + 1 /\ lastHash = Tip(rows)
      /\ sessionId \in opened
  BY <1>1, LedgerAssumption DEF CallInv, Transaction, FieldsInSync, Opening, TypeOK
<1>3. /\ IsLog(rows) /\ IsChain(rows)
  BY <1>2 DEF StoredInv, ChainIntact, TypeOK, AreLogs
<1>4. /\ table' = [table EXCEPT ![sessionId] = Append(rows, event[t])]
      /\ view' = table' /\ opened' = opened /\ event' = event
      /\ sessionId' = sessionId /\ nextSeq' = nextSeq /\ task' = task
  BY <1>1 DEF Commit, CallInv, Transaction
<1>5. \A s \in Sessions : table'[s] = IF s = sessionId THEN Append(rows, event[t]) ELSE table[s]
  BY <1>4 DEF TypeOK, AreLogs
<1>6. /\ SelfConsistent(event[t]) /\ event[t].seq = Len(rows) + 1
      /\ event[t].prev = Tip(rows) /\ event[t].payload.token = NoToken
  BY <1>2, NextEventFits
<1>7. ChainIntact'
  BY <1>3, <1>5, <1>6, ChainAppend DEF StoredInv, ChainIntact
<1>8. /\ Len(rows) \in Nat
      /\ Len(Append(rows, event[t])) = Len(rows) + 1
      /\ DOMAIN Append(rows, event[t]) = 1..(Len(rows) + 1)
      /\ DOMAIN rows = 1..Len(rows)
      /\ \A i \in 1..Len(rows) : Append(rows, event[t])[i] = rows[i]
      /\ Append(rows, event[t])[Len(rows) + 1] = event[t]
  BY <1>3, AppendLog, LogDomain
<1>9. TokensMatch'
  <2>. SUFFICES ASSUME NEW s \in Sessions, NEW i \in DOMAIN table'[s]
                PROVE  \/ table'[s][i].payload.token = NoToken
                       \/ table'[s][i].payload.token = <<PreTokenDigest(table'[s][i])>>
    BY DEF TokensMatch
  <2>1. CASE s = sessionId /\ i = Len(rows) + 1
    BY <1>5, <1>6, <1>8, <2>1
  <2>2. CASE ~(s = sessionId /\ i = Len(rows) + 1)
    <3>1. CASE s # sessionId
      BY <1>5, <3>1 DEF StoredInv, TokensMatch
    <3>2. CASE s = sessionId
      <4>1. table'[s] = Append(rows, event[t])
        BY <1>5, <3>2
      <4>2. i \in 1..(Len(rows) + 1) /\ i # Len(rows) + 1
        BY <1>8, <2>2, <3>2, <4>1
      <4>3. i \in DOMAIN rows /\ table'[s][i] = rows[i]
        BY <1>8, <4>1, <4>2
      <4>. QED BY <3>2, <4>3 DEF StoredInv, TokensMatch
    <3>. QED BY <3>1, <3>2
  <2>. QED BY <2>1, <2>2
<1>10. OpenedOnly'
  BY <1>2, <1>4, <1>5 DEF StoredInv, OpenedOnly
<1>11. Transaction(t)'
  BY <1>1, <1>4 DEF Transaction
<1>12. FieldsInSync(t)'
  BY <1>1, <1>2, <1>4, <1>5, <1>8 DEF FieldsInSync
<1>13. Opening(t)'
  <2>1. task[t].opening => rows = <<>>
    BY <1>1 DEF CallInv, Opening
  <2>2. task[t].opening => Len(rows) = 0
    BY <2>1
  <2>3. table'[sessionId] = Append(rows, event[t])
    BY <1>2, <1>5
  <2>4. Len(table'[sessionId]) = 1 => table'[sessionId][1].payload.token = NoToken
    BY <1>6, <1>8, <2>3
  <2>5. task[t].opening => Len(table'[sessionId]) = 1
    BY <1>8, <2>2, <2>3
  <2>6. sessionId' = sessionId /\ task' = task
    BY <1>4
  <2>. QED BY <1>1, <1>2, <2>4, <2>5, <2>6 DEF Opening
<1>. QED BY <1>1, <1>7, <1>9, <1>10, <1>11, <1>12, <1>13 DEF CallInv, StoredInv

\* The assignments after the COMMIT bring the fields in line with the rows again.
LEMMA AdvanceStep ==
    ASSUME NEW t \in Threads, Before(t), Advance(t)
    PROVE  After(t)'
<1>. USE DEF Before, After, durable, fields, locals
<1>. DEFINE rows == table[sessionId]
<1>1. Alone(t)' /\ pc'[t] = Caller(t) /\ pc[t] = "advance"
  BY Moves DEF Advance, Leave
<1>2. StoredInv'
  BY StoredUnchanged DEF Advance
<1>3. /\ sessionId \in Sessions /\ sessionId # NoSession
      /\ nextSeq = Len(rows) /\ event[t] = rows[nextSeq]
      /\ nextSeq \in Nat \ {0}
  BY <1>1, LedgerAssumption DEF CallInv, FieldsInSync, Opening, TypeOK
<1>4. /\ table' = table /\ view' = view /\ sessionId' = sessionId
      /\ nextSeq' = nextSeq + 1 /\ lastHash' = event[t].hash
  BY DEF Advance
<1>5. Tip(rows) = rows[Len(rows)].hash
  BY <1>3 DEF Tip
<1>6. Caller(t) \in {"anchor", "idle"} /\ (Caller(t) = "anchor" <=> task[t].opening)
  BY DEF Caller
<1>7. Transaction(t)'
  BY <1>1, <1>4, <1>6 DEF CallInv, Transaction
<1>8. FieldsInSync(t)'
  BY <1>1, <1>3, <1>4, <1>5, <1>6 DEF FieldsInSync
<1>9. Opening(t)'
  BY <1>1, <1>3, <1>4, <1>6 DEF CallInv, Opening
<1>. QED BY <1>1, <1>2, <1>7, <1>8, <1>9 DEF CallInv

\* A failed statement or COMMIT takes the call back to rows and fields that agree.
LEMMA FailureStep ==
    ASSUME NEW t \in Threads, Before(t), StatementFails(t) \/ CommitFails(t)
    PROVE  After(t)'
<1>. USE DEF Before, After, durable, fields, locals
<1>1. /\ pc[t] \in {"build", "select", "commit", "embed"}
      /\ table' = table /\ opened' = opened
      /\ sessionId' = sessionId /\ nextSeq' = nextSeq /\ lastHash' = lastHash
      /\ view' = table
  BY DEF StatementFails, CommitFails, CallInv, Transaction
<1>2. PICK label \in {"idle", "anchor"} :
         Goto(t, label)
         /\ (label = "anchor" => task[t].opening /\ pc[t] \in {"build", "commit"})
  BY DEF StatementFails, CommitFails, Leave, Caller
<1>3. Alone(t)' /\ pc'[t] = label
  BY <1>2, Moves
<1>4. StoredInv'
  BY <1>1, StoredUnchanged
<1>5. Transaction(t)' /\ FieldsInSync(t)'
  BY <1>1, <1>3 DEF CallInv, Transaction, FieldsInSync
<1>6. Opening(t)'
  <2>1. label = "anchor" => table[sessionId] = <<>> /\ sessionId \in Sessions
    BY <1>1, <1>2 DEF CallInv, Opening
  <2>2. label = "anchor" => Len(table[sessionId]) = 0
    BY <2>1
  <2>. QED BY <1>1, <1>3, <2>1, <2>2 DEF Opening
<1>. QED BY <1>3, <1>4, <1>5, <1>6 DEF CallInv

\* Anchoring up to the statements.
LEMMA StampStep ==
    ASSUME NEW t \in Threads, Before(t),
           ReadTip(t) \/ NoTimestamp(t) \/ Timestamp(t) \/ Relock(t) \/ NothingToEmbed(t)
    PROVE  After(t)'
<1>. USE DEF Before, After, durable, fields, locals
<1>1. /\ pc[t] \in {"anchor", "tsa", "relock", "select"}
      /\ table' = table /\ opened' = opened
      /\ sessionId' = sessionId /\ nextSeq' = nextSeq /\ lastHash' = lastHash
      /\ view' = table
  BY DEF ReadTip, NoTimestamp, Timestamp, Relock, NothingToEmbed, CallInv, Transaction
<1>2. PICK label \in {"idle", "tsa", "relock", "select"} :
         /\ Goto(t, label)
         /\ label # "idle" => imprint'[t] = Tip(table[sessionId])
  <2>1. CASE ReadTip(t)
    <3>1. imprint'[t] = lastHash
      BY <2>1 DEF ReadTip, TypeOK
    <3>2. sessionId # NoSession /\ lastHash = Tip(table[sessionId])
      BY <2>1, LedgerAssumption DEF ReadTip, CallInv, Opening, FieldsInSync
    <3>. QED BY <2>1, <3>1, <3>2 DEF ReadTip
  <2>2. CASE NoTimestamp(t) \/ NothingToEmbed(t)
    BY <2>2 DEF NoTimestamp, NothingToEmbed, Leave
  <2>3. CASE Timestamp(t)
    BY <2>3 DEF Timestamp, Leave, CallInv, Opening
  <2>4. CASE Relock(t)
    BY <2>4 DEF Relock, CallInv, Opening
  <2>. QED BY <2>1, <2>2, <2>3, <2>4
<1>3. Alone(t)' /\ pc'[t] = label
  BY <1>2, Moves
<1>4. StoredInv'
  BY <1>1, StoredUnchanged
<1>5. CallInv(t)'
  BY <1>1, <1>2, <1>3 DEF CallInv, Transaction, FieldsInSync, Opening
<1>. QED BY <1>3, <1>4, <1>5

\* UPDATE: the transaction holds the anchored SESSION_START.
LEMMA EmbedStep ==
    ASSUME NEW t \in Threads, Before(t), EmbedToken(t)
    PROVE  After(t)'
<1>. USE DEF Before, After, durable, fields, locals
<1>. DEFINE rows == table[sessionId]
            e == Anchored(FirstRow, imprint[t], Key)
<1>1. Alone(t)' /\ pc'[t] = "embed" /\ pc[t] = "select"
  BY Moves DEF EmbedToken
<1>2. StoredInv'
  BY StoredUnchanged DEF EmbedToken
<1>3. /\ sessionId \in Sessions /\ sessionId # NoSession /\ view = table
      /\ Len(rows) <= 1 /\ imprint[t] = Tip(rows) /\ IsLog(rows)
      /\ Len(rows) = 1 => rows[1].payload.token = NoToken
  BY <1>1, LedgerAssumption DEF CallInv, Transaction, Opening, TypeOK, AreLogs
<1>4. /\ table' = table /\ sessionId' = sessionId /\ opened' = opened
      /\ nextSeq' = nextSeq /\ lastHash' = lastHash /\ imprint' = imprint
      /\ FirstRows # {}
  BY DEF EmbedToken
<1>5. Len(rows) = 1 /\ FirstRow = rows[1] /\ rows[1].seq = 1 /\ DOMAIN rows = {1}
  <2>1. Len(rows) \in Nat /\ DOMAIN rows = 1..Len(rows)
    BY <1>3, LogDomain
  <2>2. PICK i \in DOMAIN rows : FirstRow = rows[i] /\ rows[i].seq = 1
    BY <1>3, <1>4, FirstRowIsARow
  <2>3. Len(rows) = 1
    <3>1. i \in 1..Len(rows)
      BY <2>1
    <3>. HIDE DEF rows
    <3>. QED BY <1>3, <2>1, <3>1
  <2>4. i = 1 /\ DOMAIN rows = {1}
    BY <2>1, <2>3
  <2>. QED BY <2>2, <2>3, <2>4
<1>6. e = Anchored(rows[1], rows[1].hash, Key) /\ event'[t] = e
  <2>1. Tip(rows) = rows[1].hash
    BY <1>5 DEF Tip
  <2>. QED BY <1>3, <1>5, <2>1 DEF EmbedToken, TypeOK
<1>7. view' = [table EXCEPT ![sessionId] = <<e>>]
  <2>1. view' = [table EXCEPT ![sessionId] =
                   [i \in DOMAIN rows |-> IF rows[i].seq = 1 THEN e ELSE rows[i]]]
    BY <1>3 DEF EmbedToken
  <2>. HIDE DEF e
  <2>2. [i \in DOMAIN rows |-> IF rows[i].seq = 1 THEN e ELSE rows[i]] = <<e>>
    BY <1>5
  <2>. HIDE DEF rows
  <2>. QED BY <2>1, <2>2
<1>. HIDE DEF e
<1>8. Transaction(t)'
  BY <1>1, <1>4, <1>6, <1>7 DEF Transaction
<1>9. FieldsInSync(t)'
  BY <1>1, <1>4 DEF CallInv, FieldsInSync
<1>10. Opening(t)'
  BY <1>1, <1>3, <1>4, <1>5 DEF Opening
<1>. QED BY <1>1, <1>2, <1>8, <1>9, <1>10 DEF CallInv

\* COMMIT of the token: a chain of one event is replaced by its anchored form.
LEMMA CommitTokenStep ==
    ASSUME NEW t \in Threads, Before(t), CommitToken(t)
    PROVE  After(t)'
<1>. USE DEF Before, After, durable, fields, locals
<1>. DEFINE first == table[sessionId][1]
            e == Anchored(first, first.hash, Key)
<1>1. Alone(t)' /\ pc'[t] = "reset" /\ pc[t] = "embed"
  BY Moves DEF CommitToken
<1>2. /\ sessionId \in Sessions /\ sessionId # NoSession /\ sessionId \in opened
      /\ Len(table[sessionId]) = 1 /\ nextSeq = 2 /\ event[t] = e
      /\ first.payload.token = NoToken /\ IsLog(table[sessionId])
  <2>1. /\ sessionId \in Sessions /\ sessionId # NoSession
        /\ Len(table[sessionId]) = 1 /\ first.payload.token = NoToken
    BY <1>1, LedgerAssumption DEF CallInv, Opening
  <2>2. sessionId \in opened /\ IsLog(table[sessionId])
    BY <2>1 DEF TypeOK, AreLogs
  <2>3. event[t] = e
    BY <1>1 DEF CallInv, Transaction
  <2>4. nextSeq = 2
    BY <1>1, <2>1 DEF CallInv, FieldsInSync
  <2>. QED BY <2>1, <2>2, <2>3, <2>4
<1>3. /\ 1 \in DOMAIN table[sessionId] /\ 1 \in 1..Len(table[sessionId])
  BY <1>2, LogDomain
<1>4. Authentic(first) /\ first.seq = 1 /\ first.prev = Genesis
  <2>1. Authentic(first)
    BY <1>2, <1>3 DEF StoredEventsAreAuthentic
  <2>2. LinkedAt(table[sessionId], 1)
    BY <1>2, <1>3 DEF StoredInv, ChainIntact, IsChain
  <2>. QED BY <2>1, <2>2 DEF LinkedAt
<1>5. /\ SelfConsistent(e) /\ e.seq = 1 /\ e.prev = Genesis
      /\ e.payload.token = <<PreTokenDigest(e)>>
  BY <1>2, <1>4, AnchoredMatches
<1>6. /\ table' = [table EXCEPT ![sessionId] = <<e>>]
      /\ view' = table' /\ opened' = opened /\ event' = event
      /\ sessionId' = sessionId /\ nextSeq' = nextSeq /\ task' = task
  BY <1>1, <1>2 DEF CommitToken, CallInv, Transaction
<1>. HIDE DEF e, first
<1>7. \A s \in Sessions : table'[s] = IF s = sessionId THEN <<e>> ELSE table[s]
  BY <1>6 DEF TypeOK, AreLogs
<1>8. IsChain(<<e>>)
  BY <1>5, ChainOfOne
<1>9. ChainIntact' /\ OpenedOnly'
  BY <1>2, <1>6, <1>7, <1>8 DEF StoredInv, ChainIntact, OpenedOnly
<1>10. TokensMatch'
  <2>. SUFFICES ASSUME NEW s \in Sessions, NEW i \in DOMAIN table'[s]
                PROVE  \/ table'[s][i].payload.token = NoToken
                       \/ table'[s][i].payload.token = <<PreTokenDigest(table'[s][i])>>
    BY DEF TokensMatch
  <2>1. CASE s = sessionId
    <3>1. table'[s] = <<e>> /\ i = 1
      BY <1>7, <2>1
    <3>2. table'[s][i] = e
      BY <3>1
    <3>. QED BY <1>5, <3>2
  <2>2. CASE s # sessionId
    BY <1>7, <2>2 DEF StoredInv, TokensMatch
  <2>. QED BY <2>1, <2>2
<1>11. CallInv(t)'
  <2>1. table'[sessionId] = <<event[t]>>
    BY <1>2, <1>7
  <2>. QED BY <1>1, <1>2, <1>6, <2>1 DEF CallInv, Transaction, FieldsInSync, Opening
<1>. QED BY <1>1, <1>9, <1>10, <1>11 DEF StoredInv

\* _last_hash takes over the hash the token changed.
LEMMA ResetTipStep ==
    ASSUME NEW t \in Threads, Before(t), ResetTip(t)
    PROVE  After(t)'
<1>. USE DEF Before, After, durable, fields, locals
<1>1. Alone(t)' /\ pc'[t] = "idle" /\ pc[t] = "reset"
  BY Moves DEF ResetTip, Leave
<1>2. StoredInv'
  BY StoredUnchanged DEF ResetTip
<1>3. /\ sessionId # NoSession /\ nextSeq = 2 /\ table[sessionId] = <<event[t]>>
  BY <1>1, LedgerAssumption DEF CallInv, FieldsInSync, Opening
<1>4. Len(table[sessionId]) = 1 /\ Tip(table[sessionId]) = event[t].hash
  BY <1>3 DEF Tip
<1>5. FieldsInSync(t)'
  BY <1>1, <1>3, <1>4 DEF ResetTip, FieldsInSync
<1>6. Transaction(t)' /\ Opening(t)'
  BY <1>1 DEF ResetTip, CallInv, Transaction, Opening
<1>. QED BY <1>1, <1>2, <1>5, <1>6 DEF CallInv

-----------------------------------------------------------------------------
(* The inductive invariant.                                                *)

\* A thread that makes a step is the only one inside a call.
LEMMA MoverIsAlone ==
    ASSUME Serial, SerialInv, NEW t \in Threads, Calls(t) \/ Writing(t) \/ Anchoring(t)
    PROVE  Alone(t) /\ (Calls(t) => pc[t] = "idle")
<1>1. CASE Calls(t)
  <2>1. MayStart(t)
    BY <1>1 DEF Calls, OpenSession, Record, CloseSession, StartWrite, Close, Export
  <2>. QED BY <2>1 DEF MayStart, Serial, Alone
<1>2. CASE Writing(t) \/ Anchoring(t)
  <2>1. pc[t] # "idle"
    BY <1>2 DEF Writing, Enter, Connect, Acquire, Insert, Commit, Advance, StatementFails,
                CommitFails, Anchoring, ReadTip, NoTimestamp, Timestamp, Relock,
                EmbedToken, NothingToEmbed, CommitToken, ResetTip
  <2>2. PICK u \in Threads : Alone(u)
    BY DEF SerialInv, OneCall
  <2>3. u = t
    BY <2>1, <2>2 DEF Alone
  <2>4. ASSUME Calls(t) PROVE pc[t] = "idle"
    <3>1. MayStart(t)
      BY <2>4 DEF Calls, OpenSession, Record, CloseSession, StartWrite, Close, Export
    <3>. QED BY <3>1 DEF MayStart
  <2>. QED BY <2>2, <2>3, <2>4
<1>. QED BY <1>1, <1>2

\* When nobody is inside a call, CallInv says the same of every thread.
LEMMA AnyThread ==
    ASSUME SerialInv, NEW t \in Threads, Alone(t)
    PROVE  CallInv(t)
BY DEF SerialInv, CallInv

\* What holds after a step of the only call is the inductive invariant.
LEMMA AfterIsInvariant ==
    ASSUME NEW t \in Threads, After(t)'
    PROVE  SerialInv'
<1>1. ASSUME NEW u \in Threads, Alone(u)' PROVE CallInv(u)'
  <2>1. CASE u = t
    BY <2>1 DEF After
  <2>2. CASE u # t
    <3>1. pc'[u] = "idle" /\ pc'[t] = "idle"
      BY <1>1, <2>2 DEF After, Alone
    <3>. QED BY <3>1 DEF After, CallInv, Transaction, FieldsInSync, Opening
  <2>. QED BY <2>1, <2>2
<1>. QED BY <1>1 DEF After, SerialInv, StoredInv, OneCall, CallInv

\* A crash drops the transaction and the object: the stored chains stay.
LEMMA CrashStep ==
    ASSUME TypeOK, StoredInv, Crash
    PROVE  SerialInv'
<1>1. StoredInv'
  BY StoredUnchanged DEF Crash, durable
<1>2. \A u \in Threads : pc'[u] = "idle"
  BY DEF Crash
<1>3. sessionId' = NoSession /\ view' = table'
  BY DEF Crash, durable
<1>4. \A u \in Threads : CallInv(u)'
  BY <1>2, <1>3 DEF CallInv, Transaction, FieldsInSync, Opening
<1>5. OneCall'
  BY <1>2, LedgerAssumption DEF OneCall, Alone
<1>. QED BY <1>1, <1>4, <1>5 DEF SerialInv, StoredInv, CallInv

\* Under the inductive invariant the thread that moves is alone, and leaves rows and
\* fields as the invariant says.
LEMMA OnlyCallStep ==
    ASSUME Serial, TypeOK, StoredEventsAreAuthentic, SerialInv, NEW t \in Threads,
           Calls(t) \/ Writing(t) \/ Anchoring(t)
    PROVE  Alone(t) /\ After(t)'
<1>1. StoredInv
  BY DEF SerialInv, StoredInv
<1>2. Before(t) /\ (Calls(t) => pc[t] = "idle")
  BY <1>1, MoverIsAlone, AnyThread DEF Before
<1>3. After(t)'
  BY <1>2, CallsStep, WaitingStep, InsertStep, CommitStep, AdvanceStep, FailureStep,
     StampStep, EmbedStep, CommitTokenStep, ResetTipStep DEF Writing, Anchoring
<1>. QED BY <1>2, <1>3 DEF Before

\* The inductive invariant is preserved by every step.
LEMMA SerialStep ==
    ASSUME Serial, TypeOK, StoredEventsAreAuthentic, SerialInv, [Next]_vars
    PROVE  SerialInv'
<1>0. StoredInv
  BY DEF SerialInv, StoredInv
<1>1. ASSUME NEW t \in Threads, Calls(t) \/ Writing(t) \/ Anchoring(t)
      PROVE  SerialInv'
  BY <1>1, OnlyCallStep, AfterIsInvariant
<1>2. CASE Interrupt
  BY <1>2 DEF Interrupt, Serial
<1>3. CASE Crash
  BY <1>0, <1>3, CrashStep
<1>4. CASE UNCHANGED vars
  <2>1. \A t \in Threads : NextEvent(t)' = NextEvent(t)
    BY <1>4 DEF vars, fields, locals, NextEvent
  <2>. QED BY <1>4, <2>1 DEF vars, durable, fields, locals, SerialInv, OneCall, Alone,
              OpenedOnly, Transaction, FieldsInSync, Opening, ChainIntact, TokensMatch
<1>. QED BY <1>1, <1>2, <1>3, <1>4 DEF Next

\* The inductive invariant holds of the empty database.
LEMMA SerialInit == Init => SerialInv
<1>. SUFFICES ASSUME Init PROVE SerialInv
  OBVIOUS
<1>1. \A t \in Threads : pc[t] = "idle"
  BY DEF Init
<1>2. OneCall
  BY <1>1, LedgerAssumption DEF OneCall, Alone
<1>3. OpenedOnly /\ ChainIntact /\ TokensMatch
  BY DEF Init, OpenedOnly, ChainIntact, TokensMatch, IsChain
<1>4. \A t \in Threads : Transaction(t) /\ FieldsInSync(t) /\ Opening(t)
  BY <1>1 DEF Init, Transaction, FieldsInSync, Opening
<1>. QED BY <1>2, <1>3, <1>4 DEF SerialInv

\* The inductive invariant holds when calls do not overlap, session ids are fresh
\* and no call is interrupted.
THEOREM SerialInvariant == ASSUME Serial PROVE Spec => []SerialInv
<1>1. TypeOK /\ StoredEventsAreAuthentic /\ SerialInv /\ [Next]_vars => SerialInv'
  BY SerialStep
<1>. QED BY <1>1, SerialInit, TypeInvariant, Authenticity, PTL DEF Spec

\* The rows of every session are a valid chain prefix, whatever statements fail and
\* wherever the process dies.
THEOREM ChainIntegrity == ASSUME Serial PROVE Spec => []ChainIntact
<1>1. SerialInv => ChainIntact
  BY DEF SerialInv
<1>. QED BY <1>1, SerialInvariant, PTL

\* Every stored token stamps the digest its event had before it was embedded.
THEOREM TokenIntegrity == ASSUME Serial PROVE Spec => []TokensMatch
<1>1. SerialInv => TokensMatch
  BY DEF SerialInv
<1>. QED BY <1>1, SerialInvariant, PTL

\* After anchoring the object remembers the tip of what is stored, so that the next
\* event chains from the hash the token changed.
THEOREM AnchoringTip == ASSUME Serial PROVE Spec => AnchoringKeepsTip
<1>. DEFINE Step == \A t \in Threads :
                       pc[t] = "reset" /\ pc'[t] = "idle" /\ sessionId' # NoSession =>
                          lastHash' = Tip(table'[sessionId'])
<1>1. TypeOK /\ StoredEventsAreAuthentic /\ SerialInv /\ [Next]_vars => [Step]_vars
  <2>. SUFFICES ASSUME TypeOK, StoredEventsAreAuthentic, SerialInv, Next,
                       NEW t \in Threads,
                       pc[t] = "reset", pc'[t] = "idle", sessionId' # NoSession
                PROVE  lastHash' = Tip(table'[sessionId'])
    BY DEF vars
  <2>1. ASSUME NEW u \in Threads, Calls(u) \/ Writing(u) \/ Anchoring(u)
        PROVE  lastHash' = Tip(table'[sessionId'])
    <3>1. Alone(u) /\ After(u)'
      BY <2>1, OnlyCallStep
    <3>2. u = t
      BY <3>1 DEF Alone
    <3>3. FieldsInSync(t)'
      BY <3>1, <3>2 DEF After, CallInv
    <3>4. (Tip(table[sessionId]))' = Tip(table'[sessionId'])
      BY DEF Tip
    <3>. QED BY <3>3, <3>4 DEF FieldsInSync
  <2>2. CASE Interrupt
    BY <2>2 DEF Interrupt, Serial
  <2>3. CASE Crash
    BY <2>3 DEF Crash
  <2>. QED BY <2>1, <2>2, <2>3 DEF Next
<1>. QED BY <1>1, TypeInvariant, Authenticity, SerialInvariant, PTL DEF Spec, AnchoringKeepsTip

-----------------------------------------------------------------------------
(* The ledger implements the append-only log: a COMMIT appends one event   *)
(* or anchors the first, every other step leaves the log alone.            *)

\* The instance's event operators are the ledger's own.
LEMMA SameEvents ==
    /\ \A seq, type, session, payload, prev :
          Log!BuildEvent(seq, type, session, payload, prev, Key)
             = BuildEvent(seq, type, session, payload, prev, Key)
    /\ \A l : Log!Tip(l) = Tip(l)
    /\ \A d : Log!Payload(d) = Payload(d)
    /\ Log!StartPayload(Key) = StartPayload(Key)
    /\ Log!SdkTypes = SdkTypes
BY DEF Log!BuildEvent, BuildEvent, Log!Signature, Signature, Log!NoKey, NoKey, Log!NoSig,
       NoSig, Log!Tip, Tip, Log!Genesis, Genesis, Log!Payload, Payload, Log!NoToken,
       NoToken, Log!StartPayload, StartPayload, Log!Rfc8785, Rfc8785, Log!SdkTypes, SdkTypes

\* COMMIT of an event is an append of the abstract log.
LEMMA CommitAppends ==
    ASSUME NEW t \in Threads, TypeOK, Alone(t), CallInv(t), Commit(t)
    PROVE  Log!AppendTo(sessionId) /\ sessionId \in Sessions
<1>. DEFINE rows == table[sessionId]
            p == task[t].payload
<1>1. /\ sessionId \in Sessions /\ sessionId # NoSession
      /\ nextSeq = Len(rows) + 1 /\ lastHash = Tip(rows)
      /\ event[t] = NextEvent(t)
      /\ table' = [table EXCEPT ![sessionId] = Append(rows, event[t])]
  BY LedgerAssumption DEF Commit, CallInv, Transaction, FieldsInSync, Opening
<1>2. /\ task[t].type \in Log!SdkTypes
      /\ p \in {Log!StartPayload(Key)} \cup {Log!Payload(d) : d \in Data}
  <2>1. task[t].type \in SdkTypes /\ p \in {StartPayload(Key)} \cup {Payload(d) : d \in Data}
    BY DEF TypeOK, Tasks, Payloads
  <2>. QED BY <2>1, SameEvents
<1>3. event[t] = Log!BuildEvent(Len(rows) + 1, task[t].type, sessionId, p, Log!Tip(rows), Key)
  BY <1>1, SameEvents DEF NextEvent
<1>. QED BY <1>1, <1>2, <1>3 DEF Log!AppendTo

\* COMMIT of the token is the anchoring of the abstract log.
LEMMA CommitTokenAnchors ==
    ASSUME NEW t \in Threads, TypeOK, Alone(t), CallInv(t), CommitToken(t)
    PROVE  Log!Anchor(sessionId) /\ sessionId \in Sessions
<1>1. /\ sessionId \in Sessions
      /\ Len(table[sessionId]) = 1
      /\ table[sessionId][1].payload.token = NoToken
      /\ event[t] = Anchored(table[sessionId][1], table[sessionId][1].hash, Key)
      /\ view = [table EXCEPT ![sessionId] = <<event[t]>>]
  BY DEF CommitToken, CallInv, Transaction, Opening
<1>2. table' = [table EXCEPT ![sessionId] = <<Anchored(@[1], @[1].hash, Key)>>]
  BY <1>1 DEF CommitToken
<1>. QED BY <1>1, <1>2
         DEF Log!Anchor, Log!Anchored, Anchored, Log!BuildEvent, BuildEvent,
             Log!Signature, Signature, Log!NoToken, NoToken, Log!NoKey, NoKey,
             Log!NoSig, NoSig

\* Under Serial the SQLite ledger implements the append-only log: nothing a reader
\* of the database sees ever disappears or is reordered, and nothing but the
\* anchoring of a lone first event rewrites it.
THEOREM Refinement == ASSUME Serial PROVE Spec => ImplementsAuditLog
<1>1. Init => Log!AbstractInit
  BY DEF Init, Log!AbstractInit
<1>2. TypeOK /\ SerialInv /\ [Next]_vars => [Log!AbstractNext]_table
  <2>. SUFFICES ASSUME TypeOK, SerialInv, Next
                PROVE  (\E s \in Sessions : Log!AppendTo(s) \/ Log!Anchor(s)) \/ table' = table
    BY DEF Log!AbstractNext, vars, durable
  <2>1. ASSUME NEW t \in Threads, Commit(t) \/ CommitToken(t)
        PROVE  \E s \in Sessions : Log!AppendTo(s) \/ Log!Anchor(s)
    <3>1. Alone(t) /\ CallInv(t)
      BY <2>1, MoverIsAlone, AnyThread DEF Writing, Anchoring
    <3>. QED BY <2>1, <3>1, CommitAppends, CommitTokenAnchors
  <2>2. ASSUME NEW t \in Threads, Calls(t) PROVE table' = table
    BY <2>2 DEF Calls, OpenSession, Record, CloseSession, StartWrite, Close, Export, durable
  <2>3. ASSUME NEW t \in Threads, Writing(t), ~Commit(t) PROVE table' = table
    BY <2>3 DEF Writing, Enter, Connect, Acquire, Insert, Advance, StatementFails,
                CommitFails, durable
  <2>4. ASSUME NEW t \in Threads, Anchoring(t), ~CommitToken(t) PROVE table' = table
    BY <2>4 DEF Anchoring, ReadTip, NoTimestamp, Timestamp, Relock, EmbedToken,
                NothingToEmbed, ResetTip, durable
  <2>5. ASSUME Interrupt \/ Crash PROVE table' = table
    BY <2>5 DEF Interrupt, Crash, durable
  <2>. QED BY <2>1, <2>2, <2>3, <2>4, <2>5 DEF Next
<1>. QED BY <1>1, <1>2, TypeInvariant, SerialInvariant, PTL DEF Spec, Log!AbstractSpec, ImplementsAuditLog

-----------------------------------------------------------------------------
(* What export_jsonl wrote stays the beginning of what is stored.          *)

Extends(f, g) ==
    /\ IsLog(f) /\ Len(f) <= Len(g)
    /\ \A i \in 1..Len(f) : f[i] = g[i]

\* While open_session is under way its session has no file: the token, which rewrites
\* the first row, comes before the first export.
NotExported(t) ==
    /\ pc[t] \in {"anchor", "tsa", "relock", "select", "embed"} => task[t].opening
    /\ pc[t] # "idle" /\ task[t].opening => exported[sessionId] = <<>>

ExportInv ==
    /\ \A s \in Sessions : Extends(exported[s], table[s])
    /\ \A s \in Sessions \ opened : exported[s] = <<>>
    /\ \A t \in Threads : NotExported(t)

LEMMA ExtendsIsPrefix ==
    ASSUME NEW f, NEW g, IsLog(g), Extends(f, g)
    PROVE  Len(f) <= Len(g) /\ f = SubSeq(g, 1, Len(f))
<1>. DEFINE n == Len(f)
<1>1. n \in 0..Len(g) /\ f = [i \in 1..n |-> f[i]]
  BY LogDomain DEF Extends, IsLog
<1>2. SubSeq(g, 1, n) = [i \in 1..n |-> g[i]]
  <2>. DEFINE S == {g[i] : i \in DOMAIN g}
  <2>1. g \in Seq(S)
    BY DEF IsLog
  <2>. HIDE DEF S
  <2>2. SubSeq(g, 1, n) \in Seq(S) /\ Len(SubSeq(g, 1, n)) = n
        /\ \A i \in 1..n : SubSeq(g, 1, n)[i] = g[i]
    BY <1>1, <2>1
  <2>. QED BY <2>2
<1>. QED BY <1>1, <1>2 DEF Extends

\* Steps that leave the files and the stored rows alone.
LEMMA FilesKept ==
    ASSUME ExportInv, UNCHANGED <<table, exported>>, opened \subseteq opened',
           \A t \in Threads : NotExported(t)'
    PROVE  ExportInv'
BY DEF ExportInv

\* A thread that is not inside a call promises nothing.
LEMMA OthersIdle ==
    ASSUME NEW t \in Threads, Alone(t), NotExported(t)',
           \A u \in Threads \ {t} : pc'[u] = pc[u]
    PROVE  \A u \in Threads : NotExported(u)'
<1>1. ASSUME NEW u \in Threads \ {t} PROVE pc'[u] = "idle"
  BY DEF Alone
<1>. QED BY <1>1 DEF NotExported

LEMMA CallsKeepFiles ==
    ASSUME Serial, TypeOK, SerialInv, ExportInv, NEW t \in Threads, Calls(t)
    PROVE  ExportInv'
<1>0. /\ Alone(t) /\ pc[t] = "idle" /\ \A u \in Threads : pc[u] = "idle"
      /\ view = table
  <2>1. Alone(t) /\ pc[t] = "idle"
    BY MoverIsAlone
  <2>2. view = table
    BY <2>1, AnyThread DEF CallInv, Transaction
  <2>. QED BY <2>1, <2>2 DEF Alone
<1>1. ASSUME NEW s \in Sessions, OpenSession(t, s) PROVE ExportInv'
  <2>1. /\ s \notin opened /\ opened' = opened \cup {s} /\ UNCHANGED <<table, exported>>
        /\ pc' = [pc EXCEPT ![t] = "enter"] /\ sessionId' = s
    BY <1>1 DEF OpenSession, Serial, Goto
  <2>2. exported'[s] = <<>>
    BY <2>1 DEF ExportInv
  <2>3. pc'[t] = "enter" /\ \A u \in Threads \ {t} : pc'[u] = pc[u]
    BY <2>1 DEF TypeOK
  <2>4. NotExported(t)'
    BY <2>1, <2>2, <2>3 DEF NotExported
  <2>5. \A u \in Threads : NotExported(u)'
    BY <1>0, <2>3, <2>4, OthersIdle
  <2>. QED BY <2>1, <2>5, FilesKept
<1>2. ASSUME NEW type, NEW body, StartWrite(t, type, body) PROVE ExportInv'
  <2>1. UNCHANGED <<table, exported, opened>> /\ pc' = [pc EXCEPT ![t] = "enter"]
        /\ task' = [task EXCEPT ![t] = WriteTask(type, body)]
    BY <1>2 DEF StartWrite, durable, Goto
  <2>2. pc'[t] = "enter" /\ \A u \in Threads \ {t} : pc'[u] = pc[u]
    BY <2>1 DEF TypeOK
  <2>3. task'[t].opening = FALSE
    BY <2>1 DEF TypeOK, WriteTask
  <2>4. NotExported(t)'
    BY <2>2, <2>3 DEF NotExported
  <2>5. \A u \in Threads : NotExported(u)'
    BY <1>0, <2>2, <2>4, OthersIdle
  <2>. QED BY <2>1, <2>5, FilesKept
<1>3. CASE Close(t)
  <2>1. UNCHANGED <<table, exported, opened>> /\ UNCHANGED pc
    BY <1>3 DEF Close, durable
  <2>2. \A u \in Threads : NotExported(u)'
    BY <1>0, <2>1 DEF NotExported
  <2>. QED BY <2>1, <2>2, FilesKept
<1>4. CASE Export(t)
  <2>1. /\ UNCHANGED <<table, opened, pc, sessionId>> /\ sessionId \in Sessions
        /\ sessionId \in opened
        /\ exported' = [exported EXCEPT ![sessionId] = OrderBySeq(table[sessionId])]
    BY <1>0, <1>4 DEF Export, TypeOK, fields
  <2>2. OrderBySeq(table[sessionId]) = table[sessionId]
    <3>1. IsSeq(table[sessionId])
      BY <2>1 DEF TypeOK, AreLogs, IsLog, IsSeq
    <3>2. Numbered(table[sessionId])
      BY <2>1, <3>1, SeqDomain DEF SerialInv, ChainIntact, IsChain, LinkedAt, Numbered
    <3>. QED BY <3>1, <3>2, NumberedIsSorted
  <2>3. \A s \in Sessions : exported'[s] = IF s = sessionId THEN table[s] ELSE exported[s]
    BY <2>1, <2>2 DEF TypeOK
  <2>4. \A s \in Sessions : Extends(exported'[s], table'[s])
    <3>1. Extends(table[sessionId], table[sessionId])
      BY <2>1, LogDomain DEF TypeOK, AreLogs, Extends
    <3>. QED BY <2>1, <2>3, <3>1 DEF ExportInv
  <2>5. \A s \in Sessions \ opened' : exported'[s] = <<>>
    BY <2>1, <2>3 DEF ExportInv
  <2>6. \A u \in Threads : NotExported(u)'
    BY <1>0, <2>1 DEF NotExported
  <2>. QED BY <2>4, <2>5, <2>6 DEF ExportInv
<1>. QED BY <1>1, <1>2, <1>3, <1>4 DEF Calls, Record, CloseSession

\* Within a call open_session stays open_session until it returns.
LEMMA CallGoesOn ==
    ASSUME TypeOK, NEW t \in Threads, Alone(t), NotExported(t), Writing(t) \/ Anchoring(t)
    PROVE  /\ UNCHANGED <<exported, opened>>
           /\ \A u \in Threads : NotExported(u)'
<1>1. UNCHANGED <<exported, opened, sessionId>>
  BY DEF Writing, Enter, Connect, Acquire, Insert, Commit, Advance, StatementFails,
         CommitFails, Anchoring, ReadTip, NoTimestamp, Timestamp, Relock, EmbedToken,
         NothingToEmbed, CommitToken, ResetTip, durable, fields
<1>. SUFFICES \A u \in Threads : NotExported(u)'
  BY <1>1
<1>2. ASSUME NEW label, Goto(t, label), UNCHANGED task, pc[t] # "idle",
             label \in {"tsa", "relock", "select", "embed", "reset"} =>
                pc[t] \in {"anchor", "tsa", "relock", "select", "embed"},
             label # "anchor"
      PROVE  \A u \in Threads : NotExported(u)'
  <2>1. pc'[t] = label /\ \A u \in Threads \ {t} : pc'[u] = pc[u]
    BY <1>2 DEF Goto, TypeOK
  <2>2. NotExported(t)'
    BY <1>1, <1>2, <2>1 DEF NotExported
  <2>. QED BY <2>1, <2>2, OthersIdle
<1>3. ASSUME NEW label, Leave(t, label), pc[t] # "idle",
             label = "idle" \/ label = Caller(t)
      PROVE  \A u \in Threads : NotExported(u)'
  <2>1. pc'[t] = label /\ \A u \in Threads \ {t} : pc'[u] = pc[u]
    BY <1>3 DEF Leave, Goto, TypeOK
  <2>2. task'[t].opening = TRUE
    BY <1>3 DEF Leave, TypeOK, OpeningTask
  <2>3. label = "idle" \/ task[t].opening
    BY <1>3 DEF Caller
  <2>4. NotExported(t)'
    BY <1>1, <1>3, <2>1, <2>2, <2>3 DEF NotExported
  <2>. QED BY <2>1, <2>4, OthersIdle
<1>4. CASE Enter(t) \/ Connect(t) \/ Acquire(t) \/ Insert(t) \/ Commit(t)
  <2>1. PICK label \in {"acquire", "connect", "build", "commit", "advance"} :
           Goto(t, label) /\ UNCHANGED task /\ pc[t] # "idle"
    BY <1>4 DEF Enter, Connect, Acquire, Insert, Commit, locals
  <2>. QED BY <1>2, <2>1
<1>5. CASE Advance(t) \/ StatementFails(t) \/ CommitFails(t)
  <2>1. PICK label \in {"idle", Caller(t)} : Leave(t, label) /\ pc[t] # "idle"
    BY <1>5 DEF Advance, StatementFails, CommitFails
  <2>. QED BY <1>3, <2>1
<1>6. CASE ReadTip(t) \/ Relock(t) \/ EmbedToken(t) \/ CommitToken(t)
  <2>1. PICK label \in {"tsa", "select", "embed", "reset"} :
           /\ Goto(t, label) /\ UNCHANGED task
           /\ pc[t] \in {"anchor", "tsa", "relock", "select", "embed"}
    BY <1>6 DEF ReadTip, Relock, EmbedToken, CommitToken, locals
  <2>. QED BY <1>2, <2>1
<1>7. CASE NoTimestamp(t) \/ NothingToEmbed(t) \/ ResetTip(t)
  BY <1>3, <1>7 DEF NoTimestamp, NothingToEmbed, ResetTip
<1>8. CASE Timestamp(t)
  <2>1. CASE conn
    <3>1. Goto(t, "relock") /\ UNCHANGED task /\ pc[t] = "tsa"
      BY <1>8, <2>1 DEF Timestamp, locals
    <3>. QED BY <1>2, <3>1
  <2>2. CASE ~conn
    BY <1>3, <1>8, <2>2 DEF Timestamp
  <2>. QED BY <2>1, <2>2
<1>. QED BY <1>4, <1>5, <1>6, <1>7, <1>8 DEF Writing, Anchoring

LEMMA WritesKeepFiles ==
    ASSUME Serial, TypeOK, StoredEventsAreAuthentic, SerialInv, ExportInv, NEW t \in Threads,
           Writing(t) \/ Anchoring(t)
    PROVE  ExportInv'
<1>1. Alone(t) /\ NotExported(t) /\ CallInv(t)
  BY MoverIsAlone, AnyThread DEF ExportInv
<1>2. UNCHANGED <<exported, opened>> /\ \A u \in Threads : NotExported(u)'
  BY <1>1, CallGoesOn
<1>3. CASE Commit(t)
  <2>1. /\ sessionId \in Sessions
        /\ table' = [table EXCEPT ![sessionId] = Append(table[sessionId], event[t])]
    BY <1>1, <1>3 DEF Commit, CallInv, Transaction, Opening
  <2>2. ASSUME NEW s \in Sessions PROVE Extends(exported'[s], table'[s])
    <3>1. Extends(exported[s], table[s]) /\ IsLog(table[s])
      BY DEF ExportInv, TypeOK, AreLogs
    <3>2. CASE s = sessionId
      <4>1. table'[s] = Append(table[s], event[t])
        BY <2>1, <3>2 DEF TypeOK, AreLogs
      <4>2. /\ Len(table'[s]) = Len(table[s]) + 1 /\ Len(table[s]) \in Nat
            /\ \A i \in 1..Len(table[s]) : table'[s][i] = table[s][i]
        BY <3>1, <4>1, AppendLog, LogDomain
      <4>3. Len(exported[s]) \in Nat
        BY <3>1, LogDomain DEF Extends
      <4>. QED BY <1>2, <3>1, <4>2, <4>3 DEF Extends
    <3>3. CASE s # sessionId
      BY <1>2, <2>1, <3>1, <3>3 DEF TypeOK, AreLogs
    <3>. QED BY <3>2, <3>3
  <2>. QED BY <1>2, <2>2 DEF ExportInv
<1>4. CASE CommitToken(t)
  <2>1. /\ sessionId \in Sessions /\ exported[sessionId] = <<>>
        /\ table' = [table EXCEPT ![sessionId] = <<event[t]>>]
    BY <1>1, <1>4 DEF CommitToken, CallInv, Transaction, Opening, NotExported
  <2>2. ASSUME NEW s \in Sessions PROVE Extends(exported'[s], table'[s])
    <3>1. CASE s = sessionId
      <4>1. exported'[s] = <<>> /\ table'[s] = <<event[t]>>
        BY <1>2, <2>1, <3>1 DEF TypeOK, AreLogs
      <4>2. IsLog(<<>>)
        BY DEF IsLog
      <4>. QED BY <4>1, <4>2 DEF Extends
    <3>2. CASE s # sessionId
      BY <1>2, <2>1, <3>2 DEF TypeOK, AreLogs, ExportInv
    <3>. QED BY <3>1, <3>2
  <2>. QED BY <1>2, <2>2 DEF ExportInv
<1>5. CASE ~Commit(t) /\ ~CommitToken(t)
  <2>1. UNCHANGED table
    BY <1>5 DEF Writing, Enter, Connect, Acquire, Insert, Advance, StatementFails,
         CommitFails, Anchoring, ReadTip, NoTimestamp, Timestamp, Relock, EmbedToken,
         NothingToEmbed, ResetTip, durable
  <2>. QED BY <1>2, <2>1, FilesKept
<1>. QED BY <1>3, <1>4, <1>5

LEMMA ExportStep ==
    ASSUME Serial, TypeOK, StoredEventsAreAuthentic, SerialInv, ExportInv, [Next]_vars
    PROVE  ExportInv'
<1>1. CASE Crash
  <2>1. UNCHANGED <<table, exported, opened>> /\ pc' = [u \in Threads |-> "idle"]
    BY <1>1 DEF Crash, durable
  <2>2. \A u \in Threads : NotExported(u)'
    BY <2>1 DEF NotExported
  <2>. QED BY <2>1, <2>2, FilesKept
<1>2. CASE Interrupt
  BY <1>2 DEF Interrupt, Serial
<1>3. CASE UNCHANGED vars
  BY <1>3 DEF vars, durable, fields, locals, ExportInv, NotExported
<1>. QED BY <1>1, <1>2, <1>3, CallsKeepFiles, WritesKeepFiles DEF Next

\* Whatever was exported is, and stays, a prefix of what is stored, also when statements
\* fail and the process dies: neither a rolled-back row nor a row that the token still
\* changes gets into a file.
THEOREM ExportsStayDurable == ASSUME Serial PROVE Spec => []ExportsAreDurable
<1>1. Init => ExportInv
  <2>1. ASSUME Init PROVE /\ \A s \in Sessions : exported[s] = <<>> /\ table[s] = <<>>
                          /\ \A t \in Threads : pc[t] = "idle"
    BY <2>1 DEF Init
  <2>2. Extends(<<>>, <<>>)
    BY DEF Extends, IsLog
  <2>. QED BY <2>1, <2>2 DEF ExportInv, NotExported
<1>2. TypeOK /\ StoredEventsAreAuthentic /\ SerialInv /\ ExportInv /\ [Next]_vars => ExportInv'
  BY ExportStep
<1>3. TypeOK /\ ExportInv => ExportsAreDurable
  BY ExtendsIsPrefix DEF TypeOK, AreLogs, ExportInv, ExportsAreDurable
<1>. QED BY <1>1, <1>2, <1>3, TypeInvariant, Authenticity, SerialInvariant, PTL DEF Spec
=============================================================================
