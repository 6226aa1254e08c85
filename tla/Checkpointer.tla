---------------------------- MODULE Checkpointer ----------------------------
(***************************************************************************)
(* The LangGraph checkpoint saver (sasana/integrations/langgraph.py): each *)
(* put of a checkpoint, or of a task's writes, is recorded as an event and *)
(* handed to the wrapped saver.  Puts run on several threads; a lock makes *)
(* the start and the end of the session atomic, not what lies between.     *)
(*                                                                         *)
(* The saver has one session id, hence one database, for all its sessions; *)
(* a ledger object remembers its number and tip only.                      *)
(***************************************************************************)
EXTENDS Ledger

CONSTANTS
    Threads,   \* threads that put checkpoints or end the session
    Inner,     \* the wrapped saver: "none", "sync" (no aput) or "async"
    MaxCalls   \* bound: calls

Free == "free"

ASSUME CheckpointerAssumption ==
    /\ Free \notin Threads
    /\ Inner \in {"none", "sync", "async"}
    /\ MaxCalls \in Nat

VARIABLES
    calls,    \* calls so far
    lock,     \* the thread that holds _lock, or Free
    current,  \* _ledger: the number of a ledger object, 0 for None
    started,  \* _started
    objects,  \* the ledger objects ever made
    rows,     \* the database of the session
    saved,    \* the puts the wrapped saver has
    file,     \* the exported file
    ends,     \* end_session calls that had a session to end
    pc, call, ref   \* per thread: where it is, its call, the ledger it holds

session == <<current, started, objects, rows>>
locals == <<call, ref>>
vars == <<calls, lock, session, saved, file, ends, pc, locals>>

Sid == "session"
NoCall == [id |-> 0, kind |-> "none"]

Init ==
    /\ calls = 0 /\ lock = Free
    /\ current = 0 /\ started = FALSE /\ objects = <<>> /\ rows = <<>>
    /\ saved = {} /\ file = <<>> /\ ends = 0
    /\ pc = [t \in Threads |-> "idle"]
    /\ call = [t \in Threads |-> NoCall]
    /\ ref = [t \in Threads |-> 0]

Goto(t, label) == pc' = [pc EXCEPT ![t] = label]

\* put or put_writes, aput or aput_writes, end_session.
Kinds == {"put", "aput", "end"}

\* Any call, at any time, on a free thread.
Begin(t, kind) ==
    /\ pc[t] = "idle"
    /\ calls < MaxCalls
    /\ calls' = calls + 1
    /\ call' = [call EXCEPT ![t] = [id |-> calls + 1, kind |-> kind]]
    /\ Goto(t, IF kind = "end" THEN "end" ELSE "start")
    /\ UNCHANGED <<lock, session, saved, file, ends, ref>>

Return(t) ==
    /\ Goto(t, "idle")
    /\ call' = [call EXCEPT ![t] = NoCall]
    /\ ref' = [ref EXCEPT ![t] = 0]

\* A ledger object writes to the database with the number and tip it remembers.
With(object) == [object EXCEPT !.rows = rows]
Forget(l) == [l EXCEPT !.rows = <<>>]

WriteTo(n, type, body) ==
    LET l == Stored(With(objects[n]), type, body)
    IN  /\ rows' = l.rows
        /\ objects' = [objects EXCEPT ![n] = Forget(l)]

-----------------------------------------------------------------------------
(* put                                                                     *)

\* Mutant: _started is not looked at.
StartAlways(t) ==
    /\ pc[t] = "start"
    /\ lock = Free
    /\ LET l == Opened(With(NewLedger(Sid)), Sid, [implicit |-> FALSE])
       IN  rows' = l.rows /\ objects' = Append(objects, Forget(l))
    /\ current' = Len(objects) + 1 /\ started' = TRUE
    /\ Goto(t, "fetch")
    /\ UNCHANGED <<calls, lock, saved, file, ends, locals>>

\* _ensure_started under the lock: the ledger is made and opened at once, before
\* another thread can hold it.
EnsureStarted(t) ==
    /\ pc[t] = "start"
    /\ lock = Free
    /\ IF started THEN UNCHANGED session
       ELSE /\ LET l == Opened(With(NewLedger(Sid)), Sid, [implicit |-> FALSE])
               IN  rows' = l.rows /\ objects' = Append(objects, Forget(l))
            /\ current' = Len(objects) + 1 /\ started' = TRUE
    /\ Goto(t, "fetch")
    /\ UNCHANGED <<calls, lock, saved, file, ends, locals>>

\* `return self._ledger`, after the lock was released.
FetchLedger(t) ==
    /\ pc[t] = "fetch"
    /\ ref' = [ref EXCEPT ![t] = current]
    /\ Goto(t, "audit")
    /\ UNCHANGED <<calls, lock, session, saved, file, ends, call>>

\* Mutant: aput always ends in put.
DelegatesAlways(t) == call[t].kind = "aput"

\* Does aput delegate to put, which starts over?
Delegates(t) == call[t].kind = "aput" /\ Inner # "async"

\* Mutant: an audit that meets another one is skipped.
AuditIfFree(t) ==
    /\ pc[t] = "audit"
    /\ IF ref[t] = 0 \/ (\E u \in Threads \ {t} : pc[u] = "audit") THEN UNCHANGED <<rows, objects>>
       ELSE WriteTo(ref[t], "ACTION", [id |-> call[t].id])
    /\ IF Delegates(t) THEN Goto(t, "start") /\ call' = [call EXCEPT ![t].kind = "put"]
       ELSE Goto(t, "save") /\ UNCHANGED call
    /\ UNCHANGED <<calls, lock, current, started, saved, file, ends, ref>>

\* _audit_checkpoint, _audit_writes (of writes that are not empty): every exception is
\* swallowed, the one that comes of a ledger that is None included.
Audit(t) ==
    /\ pc[t] = "audit"
    /\ IF ref[t] = 0 THEN UNCHANGED <<rows, objects>>
       ELSE WriteTo(ref[t], "ACTION", [id |-> call[t].id])
    /\ IF Delegates(t) THEN Goto(t, "start") /\ call' = [call EXCEPT ![t].kind = "put"]
       ELSE Goto(t, "save") /\ UNCHANGED call
    /\ UNCHANGED <<calls, lock, current, started, saved, file, ends, ref>>

\* self._inner.put, or nothing.
Save(t) ==
    /\ pc[t] = "save"
    /\ saved' = IF Inner = "none" THEN saved ELSE saved \cup {call[t].id}
    /\ Return(t)
    /\ UNCHANGED <<calls, lock, session, file, ends>>

-----------------------------------------------------------------------------
(* end_session, under the lock; threads in put do not wait for it          *)

NothingToEnd(t) ==
    /\ pc[t] = "end"
    /\ lock = Free
    /\ ~started
    /\ Return(t)
    /\ UNCHANGED <<calls, lock, session, saved, file, ends>>

CloseSession(t) ==
    /\ pc[t] = "end"
    /\ lock = Free
    /\ started
    /\ lock' = t
    /\ ends' = ends + 1
    /\ WriteTo(current, "SESSION_END", [id |-> call[t].id])
    /\ Goto(t, "export")
    /\ UNCHANGED <<calls, current, started, saved, file, locals>>

ExportSession(t) ==
    /\ pc[t] = "export"
    /\ file' = Exported(With(objects[current]))
    /\ Goto(t, "forget")
    /\ UNCHANGED <<calls, lock, session, saved, ends, locals>>

\* finally: close, forget the ledger, release the lock.
ForgetLedger(t) ==
    /\ pc[t] = "forget"
    /\ current' = 0 /\ started' = FALSE
    /\ lock' = Free
    /\ Return(t)
    /\ UNCHANGED <<calls, objects, rows, saved, file, ends>>

Step(t) ==
    \/ EnsureStarted(t) \/ FetchLedger(t) \/ Audit(t) \/ Save(t)
    \/ NothingToEnd(t) \/ CloseSession(t) \/ ExportSession(t) \/ ForgetLedger(t)

Next == \E t \in Threads : Step(t) \/ \E kind \in Kinds : Begin(t, kind)

Spec == Init /\ [][Next]_vars

-----------------------------------------------------------------------------
(* Properties                                                              *)

\* The variables have their types; a session that has started has a ledger.
TypeOK ==
    /\ lock \in Threads \cup {Free}
    /\ current \in 0..Len(objects)
    /\ started = (current # 0)
    /\ pc \in [Threads -> {"idle", "start", "fetch", "audit", "save", "end", "export", "forget"}]
    /\ ref \in [Threads -> 0..Len(objects)]
    /\ \A t \in Threads : lock = t <=> pc[t] \in {"export", "forget"}

EventsOf(n) == {i \in DOMAIN rows : rows[i].payload.body = [id |-> n]}

\* A checkpoint that the wrapped saver keeps was audited before, until a session is
\* ended: of the threads that race to start the session none loses its event.
SavedMeansAudited == ends = 0 => \A n \in saved : EventsOf(n) # {}

\* The audit never counts a put twice when the wrapped saver has the method called.
AuditedOnce == \A n \in 1..calls : Cardinality(EventsOf(n)) <= 1

\* The file of a session that was ended once passes the Python verifier, whichever
\* puts were still running while it was closed and exported.
EndedOnceVerifies ==
    ends = 1 /\ file # <<>> => PythonVerify(file, NoPin, FALSE).status = "INTACT"
=============================================================================
