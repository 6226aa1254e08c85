---------------------------- MODULE SqliteLedger ----------------------------
(***************************************************************************)
(* One SqliteLedger object (sasana/sqlite_ledger.py) over one database     *)
(* file, called by several threads, at the grain of the code: what runs    *)
(* under self._lock is still split at the database statements, because a   *)
(* crash, an exception, close() and the unlocked assignments of            *)
(* open_session fall between them.                                         *)
(*                                                                         *)
(* Durable state: the committed rows.  Volatile state: the object's fields *)
(* and the connection, whose open transaction is held as the table the     *)
(* connection sees.  The WAL guarantees are SQLite's: a commit is atomic   *)
(* and survives a crash, a failed one is rolled back.                      *)
(***************************************************************************)
EXTENDS EventChain

CONSTANTS
    Threads,     \* callers of the ledger
    Main,        \* the interpreter's main thread, the one Ctrl-C interrupts
    Exporters,   \* the threads that also export
    Sessions,    \* session ids
    NoSession,   \* None, before the first open_session
    Data,        \* payload bodies
    RecordTypes, \* the event types callers pass to record
    Key,         \* the session signing key, or NoKey
    MaxRows,     \* bound: rows and sequence numbers per session
    Env          \* what the environment may do besides calling the ledger

\* "concurrent": calls overlap; "reuse": a session id is opened again;
\* "interrupt": KeyboardInterrupt, which `except Exception` does not catch;
\* "failure": INSERT, UPDATE or COMMIT raises (disk full, I/O error);
\* "crash": the process dies and another one opens the same database.
EnvChoices == {"concurrent", "reuse", "interrupt", "failure", "crash"}

\* The value of lock when no thread holds it.
Free == "free"

ASSUME LedgerAssumption ==
    /\ Main \in Threads /\ Exporters \subseteq Threads
    /\ NoSession \notin Sessions
    /\ Free \notin Threads
    /\ RecordTypes \subseteq EventTypes \cup {"FOREIGN"}
    /\ MaxRows \in Nat
    /\ Env \subseteq EnvChoices

VARIABLES
    table,      \* committed rows, per session, in rowid order
    exported,   \* the JSONL file of each session
    opened,     \* session ids open_session was ever called with
    conn,       \* is self._conn set?
    view,       \* the rows self._conn sees: table and its open transaction
    sessionId, nextSeq, lastHash,   \* the fields of the object
    lock,       \* the holder of self._lock, or "free"
    pc,         \* per thread: where it is
    task,       \* per thread: what its call is to write
    event,      \* per thread: the event it built
    imprint     \* per thread: the digest sent to the TSA

durable == <<table, exported, opened>>
fields == <<sessionId, nextSeq, lastHash>>
locals == <<task, event, imprint>>
vars == <<durable, conn, view, fields, lock, pc, locals>>

\* Program points; a thread at one of Locked holds self._lock.
Locked == {"build", "commit", "advance", "select", "embed", "reset"}
Unlocked == {"idle", "enter", "connect", "acquire", "anchor", "tsa", "relock"}

\* What a call writes, and whether open_session is the caller of the write.
Payloads == {StartPayload(Key)} \cup {Payload(d) : d \in Data}
Tasks == [type : SdkTypes, payload : Payloads, opening : BOOLEAN]
OpeningTask == [type |-> "SESSION_START", payload |-> StartPayload(Key), opening |-> TRUE]
WriteTask(type, body) == [type |-> type, payload |-> Payload(body), opening |-> FALSE]

\* Where __write_event returns to.
Caller(t) == IF task[t].opening THEN "anchor" ELSE "idle"

Goto(t, label) == pc' = [pc EXCEPT ![t] = label]

\* Leave __write_event or open_session: the locals of the call are gone.
Leave(t, label) ==
    /\ Goto(t, label)
    /\ task' = [task EXCEPT ![t] = OpeningTask]
    /\ event' = [event EXCEPT ![t] = Genesis]
    /\ imprint' = [imprint EXCEPT ![t] = Genesis]

\* Without "concurrent" the ledger has one call at a time, as under the event
\* loops of the bridge and of the observer.
MayStart(t) ==
    IF "concurrent" \in Env THEN pc[t] = "idle" ELSE \A u \in Threads : pc[u] = "idle"

-----------------------------------------------------------------------------
\* Mutant: numbering starts at 0.
InitFromZero ==
    /\ table = [s \in Sessions |-> <<>>]
    /\ exported = [s \in Sessions |-> <<>>]
    /\ opened = {}
    /\ conn = FALSE
    /\ view = table
    /\ sessionId = NoSession /\ nextSeq = 0 /\ lastHash = Genesis
    /\ lock = Free
    /\ pc = [t \in Threads |-> "idle"]
    /\ task = [t \in Threads |-> OpeningTask]
    /\ event = [t \in Threads |-> Genesis]
    /\ imprint = [t \in Threads |-> Genesis]

Init ==
    /\ table = [s \in Sessions |-> <<>>]
    /\ exported = [s \in Sessions |-> <<>>]
    /\ opened = {}
    /\ conn = FALSE
    /\ view = table
    /\ sessionId = NoSession /\ nextSeq = 1 /\ lastHash = Genesis
    /\ lock = Free
    /\ pc = [t \in Threads |-> "idle"]
    /\ task = [t \in Threads |-> OpeningTask]
    /\ event = [t \in Threads |-> Genesis]
    /\ imprint = [t \in Threads |-> Genesis]

-----------------------------------------------------------------------------
(* The calls: each sets up __write_event, which starts at "enter".          *)

\* open_session up to the write: connect if needed, reset the fields (without
\* the lock), prepare the SESSION_START payload.
OpenSession(t, s) ==
    /\ MayStart(t)
    /\ s \in opened => "reuse" \in Env
    /\ Len(view[s]) < MaxRows
    /\ opened' = opened \cup {s}
    /\ conn' = TRUE
    /\ view' = IF conn THEN view ELSE table
    /\ sessionId' = s /\ nextSeq' = 1 /\ lastHash' = Genesis
    /\ task' = [task EXCEPT ![t] = OpeningTask]
    /\ Goto(t, "enter")
    /\ UNCHANGED <<table, exported, lock, event, imprint>>

\* Callers open a session before they write to it; MaxRows bounds what they write.
StartWrite(t, type, body) ==
    /\ MayStart(t)
    /\ sessionId # NoSession
    /\ nextSeq <= MaxRows /\ Len(view[sessionId]) < MaxRows
    /\ task' = [task EXCEPT ![t] = WriteTask(type, body)]
    /\ Goto(t, "enter")
    /\ UNCHANGED <<durable, conn, view, fields, lock, event, imprint>>

\* record drops server-authority and unknown types before it writes.
IsRecorded(type) == type \in SdkTypes

Record(t) ==
    \E type \in RecordTypes, body \in Data :
       IsRecorded(type) /\ StartWrite(t, type, body)

CloseSession(t) == \E status \in Data : StartWrite(t, "SESSION_END", status)

\* close: without the lock; SQLite discards the open transaction.
Close(t) ==
    /\ MayStart(t)
    /\ conn
    /\ conn' = FALSE
    /\ view' = table
    /\ UNCHANGED <<durable, fields, lock, pc, locals>>

\* export_jsonl: without the lock, on the connection the writers use.
Export(t) ==
    /\ t \in Exporters
    /\ MayStart(t)
    /\ conn /\ sessionId # NoSession
    /\ exported' = [exported EXCEPT ![sessionId] = OrderBySeq(view[sessionId])]
    /\ UNCHANGED <<table, opened, conn, view, fields, lock, pc, locals>>

-----------------------------------------------------------------------------
(* __write_event                                                           *)

\* Is there a connection?  Checked before the lock is taken.
Enter(t) ==
    /\ pc[t] = "enter"
    /\ Goto(t, IF conn THEN "acquire" ELSE "connect")
    /\ UNCHANGED <<durable, conn, view, fields, lock, locals>>

\* connect: replaces the connection, whatever happened since the check.
Connect(t) ==
    /\ pc[t] = "connect"
    /\ conn' = TRUE
    /\ view' = table
    /\ Goto(t, "acquire")
    /\ UNCHANGED <<durable, fields, lock, locals>>

Acquire(t) ==
    /\ pc[t] = "acquire"
    /\ lock = Free
    /\ lock' = t
    /\ Goto(t, "build")
    /\ UNCHANGED <<durable, conn, view, fields, locals>>

\* Mutant: every event claims to be the first of its chain.
UnchainedEvent(t) ==
    BuildEvent(nextSeq, task[t].type, sessionId, task[t].payload, Genesis, Key)

NextEvent(t) ==
    BuildEvent(nextSeq, task[t].type, sessionId, task[t].payload, lastHash, Key)

\* build_event from the fields, then INSERT.
Insert(t) ==
    /\ pc[t] = "build"
    /\ conn
    /\ event' = [event EXCEPT ![t] = NextEvent(t)]
    /\ view' = [view EXCEPT ![sessionId] = Append(@, NextEvent(t))]
    /\ Goto(t, "commit")
    /\ UNCHANGED <<durable, conn, fields, lock, task, imprint>>

\* Mutant: the row is not committed.
NoCommit(t) ==
    /\ pc[t] = "commit"
    /\ conn
    /\ Goto(t, "advance")
    /\ UNCHANGED <<table, exported, opened, conn, view, fields, lock, locals>>

\* COMMIT makes what the connection sees durable.
Commit(t) ==
    /\ pc[t] = "commit"
    /\ conn
    /\ table' = view
    /\ Goto(t, "advance")
    /\ UNCHANGED <<exported, opened, conn, view, fields, lock, locals>>

\* Mutant: _last_hash is not advanced.
AdvanceNumber(t) ==
    /\ pc[t] = "advance"
    /\ nextSeq' = nextSeq + 1
    /\ lock' = Free
    /\ Leave(t, Caller(t))
    /\ UNCHANGED <<durable, conn, view, sessionId, lastHash>>

\* _next_seq and _last_hash, then the lock is released.
Advance(t) ==
    /\ pc[t] = "advance"
    /\ nextSeq' = nextSeq + 1
    /\ lastHash' = event[t].hash
    /\ lock' = Free
    /\ Leave(t, Caller(t))
    /\ UNCHANGED <<durable, conn, view, sessionId>>

\* Mutant: the lock is kept when a statement raises.
StatementFailsLocked(t) ==
    /\ pc[t] \in {"build", "select"}
    /\ ~conn \/ "failure" \in Env
    /\ Leave(t, IF pc[t] = "build" THEN Caller(t) ELSE "idle")
    /\ UNCHANGED <<durable, conn, view, fields, lock>>

\* A statement raises: the exception is logged, the lock released, and the caller
\* never learns that nothing was stored.  No rollback is issued: a row an earlier
\* interrupt left in the transaction stays there.
StatementFails(t) ==
    /\ pc[t] \in {"build", "select"}
    /\ ~conn \/ "failure" \in Env
    /\ lock' = Free
    /\ Leave(t, IF pc[t] = "build" THEN Caller(t) ELSE "idle")
    /\ UNCHANGED <<durable, conn, view, fields>>

\* Mutant: the failed transaction stays open.
CommitFailsOpen(t) ==
    /\ pc[t] \in {"commit", "embed"}
    /\ ~conn \/ "failure" \in Env
    /\ lock' = Free
    /\ Leave(t, IF pc[t] = "commit" THEN Caller(t) ELSE "idle")
    /\ UNCHANGED <<durable, conn, view, fields>>

\* Mutant: the lock is kept when COMMIT raises.
CommitFailsLocked(t) ==
    /\ pc[t] \in {"commit", "embed"}
    /\ ~conn \/ "failure" \in Env
    /\ view' = table
    /\ Leave(t, IF pc[t] = "commit" THEN Caller(t) ELSE "idle")
    /\ UNCHANGED <<durable, conn, fields, lock>>

\* COMMIT raises; SQLite has rolled the transaction back.
CommitFails(t) ==
    /\ pc[t] \in {"commit", "embed"}
    /\ ~conn \/ "failure" \in Env
    /\ view' = table
    /\ lock' = Free
    /\ Leave(t, IF pc[t] = "commit" THEN Caller(t) ELSE "idle")
    /\ UNCHANGED <<durable, conn, fields>>

-----------------------------------------------------------------------------
(* open_session after the write: RFC 3161 anchoring of SESSION_START       *)

\* Mutant: the digest is the tip from before SESSION_START was written.
ReadOldTip(t) ==
    /\ pc[t] = "anchor"
    /\ imprint' = [imprint EXCEPT ![t] = Genesis]
    /\ Goto(t, "tsa")
    /\ UNCHANGED <<durable, conn, view, fields, lock, task, event>>

\* The digest to stamp is read from _last_hash, without the lock.
ReadTip(t) ==
    /\ pc[t] = "anchor"
    /\ imprint' = [imprint EXCEPT ![t] = lastHash]
    /\ Goto(t, "tsa")
    /\ UNCHANGED <<durable, conn, view, fields, lock, task, event>>

\* Every TSA refused, timed out, or returned a token that does not parse.
NoTimestamp(t) ==
    /\ pc[t] = "tsa"
    /\ Leave(t, "idle")
    /\ UNCHANGED <<durable, conn, view, fields, lock>>

\* A token over the imprint arrived; _embed_rfc3161_token gives up if there is no
\* connection by now.
Timestamp(t) ==
    /\ pc[t] = "tsa"
    /\ IF conn THEN Goto(t, "relock") /\ UNCHANGED locals ELSE Leave(t, "idle")
    /\ UNCHANGED <<durable, conn, view, fields, lock>>

Relock(t) ==
    /\ pc[t] = "relock"
    /\ lock = Free
    /\ lock' = t
    /\ Goto(t, "select")
    /\ UNCHANGED <<durable, conn, view, fields, locals>>

\* The rows the SELECT and the UPDATE match.
FirstRows == {i \in DOMAIN view[sessionId] : view[sessionId][i].seq = 1}

\* The row numbered 1 that the SELECT returns: the first by rowid.
FirstRow == view[sessionId][CHOOSE i \in FirstRows : \A j \in FirstRows : i <= j]

\* Mutant: the UPDATE has no "AND seq = 1".
EmbedEverywhere(t) ==
    /\ pc[t] = "select"
    /\ conn
    /\ FirstRows # {}
    /\ LET e == Anchored(FirstRow, imprint[t], Key)
       IN  /\ event' = [event EXCEPT ![t] = e]
           /\ view' = [view EXCEPT ![sessionId] = [i \in DOMAIN @ |-> e]]
    /\ Goto(t, "embed")
    /\ UNCHANGED <<durable, conn, fields, lock, task, imprint>>

\* SELECT, put the token in, hash and sign again, UPDATE every row numbered 1.
EmbedToken(t) ==
    /\ pc[t] = "select"
    /\ conn
    /\ FirstRows # {}
    /\ LET e == Anchored(FirstRow, imprint[t], Key)
       IN  /\ event' = [event EXCEPT ![t] = e]
           /\ view' = [view EXCEPT ![sessionId] =
                         [i \in DOMAIN @ |-> IF @[i].seq = 1 THEN e ELSE @[i]]]
    /\ Goto(t, "embed")
    /\ UNCHANGED <<durable, conn, fields, lock, task, imprint>>

\* SESSION_START was never stored: nothing to embed into.
NothingToEmbed(t) ==
    /\ pc[t] = "select"
    /\ conn
    /\ FirstRows = {}
    /\ lock' = Free
    /\ Leave(t, "idle")
    /\ UNCHANGED <<durable, conn, view, fields>>

CommitToken(t) ==
    /\ pc[t] = "embed"
    /\ conn
    /\ table' = view
    /\ Goto(t, "reset")
    /\ UNCHANGED <<exported, opened, conn, view, fields, lock, locals>>

\* "advance self._last_hash so the rest of the chain chains from the new hash".
ResetTip(t) ==
    /\ pc[t] = "reset"
    /\ lastHash' = event[t].hash
    /\ lock' = Free
    /\ Leave(t, "idle")
    /\ UNCHANGED <<durable, conn, view, sessionId, nextSeq>>

-----------------------------------------------------------------------------
(* The environment                                                         *)

\* KeyboardInterrupt ends the main thread's call: `with self._lock` releases the
\* lock, nothing else is undone.
Interrupt ==
    /\ "interrupt" \in Env
    /\ pc[Main] # "idle"
    /\ lock' = IF lock = Main THEN Free ELSE lock
    /\ Leave(Main, "idle")
    /\ UNCHANGED <<durable, conn, view, fields>>

\* The process dies; a new process has a new object over the same file.
Crash ==
    /\ "crash" \in Env
    /\ conn' = FALSE
    /\ view' = table
    /\ sessionId' = NoSession /\ nextSeq' = 1 /\ lastHash' = Genesis
    /\ lock' = Free
    /\ pc' = [t \in Threads |-> "idle"]
    /\ event' = [t \in Threads |-> Genesis]
    /\ imprint' = [t \in Threads |-> Genesis]
    /\ task' = [t \in Threads |-> OpeningTask]
    /\ UNCHANGED durable

Calls(t) ==
    \/ \E s \in Sessions : OpenSession(t, s)
    \/ Record(t) \/ CloseSession(t) \/ Close(t) \/ Export(t)

Writing(t) ==
    \/ Enter(t) \/ Connect(t) \/ Acquire(t) \/ Insert(t) \/ Commit(t) \/ Advance(t)
    \/ StatementFails(t) \/ CommitFails(t)

Anchoring(t) ==
    \/ ReadTip(t) \/ NoTimestamp(t) \/ Timestamp(t) \/ Relock(t)
    \/ EmbedToken(t) \/ NothingToEmbed(t) \/ CommitToken(t) \/ ResetTip(t)

Next ==
    \/ \E t \in Threads : Calls(t) \/ Writing(t) \/ Anchoring(t)
    \/ Interrupt \/ Crash

Spec == Init /\ [][Next]_vars

\* The operating system keeps scheduling a thread that is inside a call, and a TSA
\* request ends by its 10 s timeout; no caller has to make a call.
Fairness == \A t \in Threads : WF_vars(Writing(t) \/ Anchoring(t))
FairSpec == Spec /\ Fairness

-----------------------------------------------------------------------------
(* Properties                                                              *)

IsLog(l) == l \in Seq({l[i] : i \in DOMAIN l})
AreLogs(f) == /\ f \in [Sessions -> {f[s] : s \in Sessions}]
              /\ \A s \in Sessions : IsLog(f[s])

\* The variables have their types.
TypeOK ==
    /\ AreLogs(table) /\ AreLogs(view)
    /\ DOMAIN exported = Sessions
    /\ opened \subseteq Sessions
    /\ conn \in BOOLEAN
    /\ sessionId \in opened \cup {NoSession}
    /\ nextSeq \in Nat \ {0}
    /\ lock \in Threads \cup {Free}
    /\ pc \in [Threads -> Locked \cup Unlocked]
    /\ task \in [Threads -> Tasks]
    /\ DOMAIN event = Threads /\ DOMAIN imprint = Threads

\* A thread holds the lock exactly while it is inside `with self._lock`, on every
\* way out of it: return, swallowed exception, KeyboardInterrupt, crash.
LockDiscipline == \A t \in Threads : lock = t <=> pc[t] \in Locked

\* What any verifier recomputes per event: the type is one the SDK may write, the
\* hash is the digest, the signature covers the hash.
Authentic(e) ==
    /\ e.type \in SdkTypes
    /\ e.payload = [body |-> e.payload.body, token |-> e.payload.token]
    /\ SelfConsistent(e)
    /\ e.sig = Signature(Key, e.hash)

\* Every row a reader of the database can find is authentic, whatever races,
\* failures and crashes preceded it; re-hashing with a token included.
StoredEventsAreAuthentic ==
    \A s \in Sessions : \A i \in DOMAIN table[s] : Authentic(table[s][i])

\* A committed row is never removed, and never rewritten unless it is numbered 1:
\* the UPDATE that embeds the token must not reach the rest of the session.
CommittedRowsStay ==
    [][\A s \in Sessions : \A i \in DOMAIN table[s] :
          /\ i \in DOMAIN table'[s]
          /\ table[s][i].seq # 1 => table'[s][i] = table[s][i]]_vars

\* The rows of every session are a valid chain prefix: the next number and the
\* tip the object remembers always agree with what is stored.
ChainIntact == \A s \in Sessions : IsChain(table[s])

\* A stored token stamps the digest its event had before the token was put in, so
\* that the verifier's imprint check can succeed.
TokensMatch ==
    \A s \in Sessions : \A i \in DOMAIN table[s] :
       \/ table[s][i].payload.token = NoToken
       \/ table[s][i].payload.token = <<PreTokenDigest(table[s][i])>>

\* Whatever was exported is, and stays, a prefix of what is stored.
ExportsAreDurable ==
    \A s \in Sessions :
       /\ Len(exported[s]) <= Len(table[s])
       /\ exported[s] = SubSeq(table[s], 1, Len(exported[s]))

\* The ledger implements the append-only log.
Log == INSTANCE AuditLog WITH log <- table
ImplementsAuditLog == Log!AbstractSpec

\* "advance self._last_hash so the rest of the chain chains correctly from the new
\* hash": after anchoring, the object remembers the tip of what is stored.
AnchoringKeepsTip ==
    [][\A t \in Threads : pc[t] = "reset" /\ pc'[t] = "idle" /\ sessionId' # NoSession =>
          lastHash' = Tip(table'[sessionId'])]_vars

\* Nobody keeps the lock: every holder releases it, whatever its statements do.
LockIsReleased == \A t \in Threads : lock = t ~> lock # t

-----------------------------------------------------------------------------
(* The inductive invariant behind ChainIntact, when calls do not overlap,  *)
(* session ids are fresh and no call is interrupted.                       *)

Serial == Env \cap {"concurrent", "reuse", "interrupt"} = {}

\* No thread but t is inside a call.
Alone(t) == \A u \in Threads \ {t} : pc[u] = "idle"

OneCall == \E t \in Threads : Alone(t)

OpenedOnly == \A s \in Sessions : s \notin opened => table[s] = <<>>

\* The open transaction holds exactly the statement of the call in progress.
Transaction(t) ==
    /\ pc[t] \notin {"commit", "embed"} => view = table
    /\ pc[t] = "commit" =>
         /\ event[t] = NextEvent(t)
         /\ view = [table EXCEPT ![sessionId] = Append(@, event[t])]
    /\ pc[t] = "embed" =>
         /\ event[t] = Anchored(table[sessionId][1], table[sessionId][1].hash, Key)
         /\ view = [table EXCEPT ![sessionId] = <<event[t]>>]

\* The fields agree with the stored rows, up to the assignments that follow a
\* commit under the lock.
FieldsInSync(t) ==
    sessionId # NoSession =>
       /\ pc[t] \notin {"advance", "reset"} =>
            nextSeq = Len(table[sessionId]) + 1 /\ lastHash = Tip(table[sessionId])
       /\ pc[t] = "advance" =>
            nextSeq = Len(table[sessionId]) /\ event[t] = table[sessionId][nextSeq]
       /\ pc[t] = "reset" =>
            nextSeq = 2 /\ table[sessionId] = <<event[t]>>

\* A call in progress has a session; while open_session is under way that session
\* holds nothing but its SESSION_START, not yet anchored.
Opening(t) ==
    pc[t] # "idle" =>
       /\ sessionId \in Sessions
       /\ task[t].opening /\ pc[t] \in {"enter", "connect", "acquire", "build", "commit"} =>
            table[sessionId] = <<>>
       /\ task[t].opening /\ pc[t] = "advance" => Len(table[sessionId]) = 1
       /\ pc[t] \in {"anchor", "tsa", "relock", "select", "embed"} =>
            Len(table[sessionId]) <= 1
       /\ pc[t] = "embed" => Len(table[sessionId]) = 1
       /\ pc[t] \in {"advance", "anchor", "tsa", "relock", "select", "embed"}
            /\ Len(table[sessionId]) = 1 =>
            table[sessionId][1].payload.token = NoToken
       /\ pc[t] \in {"tsa", "relock", "select", "embed"} =>
            imprint[t] = Tip(table[sessionId])

\* Inductive together with TypeOK and StoredEventsAreAuthentic.
SerialInv ==
    /\ OneCall /\ OpenedOnly
    /\ \A t \in Threads : Alone(t) => Transaction(t) /\ FieldsInSync(t) /\ Opening(t)
    /\ ChainIntact /\ TokensMatch
=============================================================================
