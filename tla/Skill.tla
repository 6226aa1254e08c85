------------------------------- MODULE Skill --------------------------------
(***************************************************************************)
(* The OpenClaw skill (sasana/skill.py): its hooks run on the threads of   *)
(* the gateway, find a ledger in a registry that a lock protects, and use  *)
(* it without that lock.  A ledger is an object: a thread may still hold   *)
(* one that the registry has forgotten.                                    *)
(*                                                                         *)
(* A step is what the registry's lock or the ledger's own makes atomic;    *)
(* open_session is two, the unlocked resets and the write.  Failing writes *)
(* and connections are SqliteLedger's subject.                             *)
(***************************************************************************)
EXTENDS Ledger

CONSTANTS
    Threads,      \* threads of the gateway
    SessionKeys,  \* OpenClaw session keys
    MaxHooks      \* bound: hooks the gateway calls

ASSUME SkillAssumption == MaxHooks \in Nat

VARIABLES
    active,    \* session keys between the calls of their hooks
    hooks,     \* hooks called so far
    mixed,     \* history: the keys two hooks of which overlapped
    registry,  \* _ledgers: per key the number of its ledger, 0 if it has none
    objects,   \* the ledgers ever made, with the key each was made for
    exports,   \* the exported files
    pc, call, ref   \* per thread: where it is, its hook, the ledger it holds

gateway == <<active, hooks, mixed>>
locals == <<pc, call, ref>>
vars == <<gateway, registry, objects, exports, locals>>

Hooks == {"on_session_start", "on_session_end", "on_llm_call"}
NoCall == [id |-> 0]

Init ==
    /\ active = {} /\ hooks = 0 /\ mixed = {}
    /\ registry = [k \in SessionKeys |-> 0]
    /\ objects = <<>> /\ exports = {}
    /\ pc = [t \in Threads |-> "idle"]
    /\ call = [t \in Threads |-> NoCall]
    /\ ref = [t \in Threads |-> 0]

Goto(t, label) == pc' = [pc EXCEPT ![t] = label]
Hold(t, n) == ref' = [ref EXCEPT ![t] = n]
Return(t) ==
    /\ Goto(t, "idle")
    /\ Hold(t, 0)
    /\ call' = [call EXCEPT ![t] = NoCall]

\* The gateway calls a hook on any free thread, also for a session that it has not
\* started or has ended.  The id stands for the event's content.
Begin(t, key, hook) ==
    /\ pc[t] = "idle"
    /\ hooks < MaxHooks
    /\ hook = "on_session_start" => key \notin active
    /\ hooks' = hooks + 1
    /\ mixed' = IF \E u \in Threads : pc[u] # "idle" /\ call[u].key = key
                THEN mixed \cup {key} ELSE mixed
    /\ active' = CASE hook = "on_session_start" -> active \cup {key}
                   [] hook = "on_session_end"   -> active \ {key}
                   [] OTHER                     -> active
    /\ call' = [call EXCEPT ![t] = [id |-> hooks + 1, key |-> key, hook |-> hook]]
    /\ Goto(t, IF hook = "on_session_start" THEN "create" ELSE "lookup")
    /\ UNCHANGED <<registry, objects, exports, ref>>

\* self._ledgers.get(sk), without the lock.
Lookup(t) ==
    /\ pc[t] = "lookup"
    /\ LET n == registry[call[t].key]
       IN  /\ Hold(t, n)
           /\ Goto(t, IF call[t].hook = "on_session_end" THEN IF n = 0 THEN "pop" ELSE "close"
                      ELSE IF n = 0 THEN "create" ELSE "record")
    /\ UNCHANGED <<gateway, registry, objects, exports, call>>

\* A hook makes at most one session id, named here after the hook.
NewObject(c) == [key |-> c.key, ledger |-> NewLedger(c.id)]

\* Mutant: the registry is not consulted again under the lock.
CreateUnchecked(t) ==
    /\ pc[t] = "create"
    /\ objects' = Append(objects, NewObject(call[t]))
    /\ registry' = [registry EXCEPT ![call[t].key] = Len(objects) + 1]
    /\ Hold(t, Len(objects) + 1)
    /\ Goto(t, "reset")
    /\ UNCHANGED <<gateway, exports, call>>

\* _get_or_create_ledger, under the lock.
GetOrCreate(t) ==
    /\ pc[t] = "create"
    /\ IF registry[call[t].key] = 0
       THEN /\ objects' = Append(objects, NewObject(call[t]))
            /\ registry' = [registry EXCEPT ![call[t].key] = Len(objects) + 1]
            /\ Hold(t, Len(objects) + 1)
       ELSE Hold(t, registry[call[t].key]) /\ UNCHANGED <<objects, registry>>
    /\ Goto(t, "reset")
    /\ UNCHANGED <<gateway, exports, call>>

\* Mutant: the session keeps the id of the ledger it found.
ResetKeepingId(t) ==
    /\ pc[t] = "reset"
    /\ objects' = [objects EXCEPT ![ref[t]].ledger = [@ EXCEPT !.next = 1, !.tip = Genesis]]
    /\ Goto(t, "open")
    /\ UNCHANGED <<gateway, registry, exports, call, ref>>

\* open_session's assignments: on_session_start has an id of its own for the session,
\* the other hooks take the ledger's.
Reset(t) ==
    /\ pc[t] = "reset"
    /\ LET l == objects[ref[t]].ledger
           sid == IF call[t].hook = "on_session_start" THEN call[t].id ELSE l.sid
       IN  objects' = [objects EXCEPT ![ref[t]].ledger =
                         [l EXCEPT !.sid = sid, !.next = 1, !.tip = Genesis]]
    /\ Goto(t, "open")
    /\ UNCHANGED <<gateway, registry, exports, call, ref>>

Write(t, type, body) ==
    objects' = [objects EXCEPT ![ref[t]].ledger = Stored(@, type, body)]

Body(t) == [id |-> call[t].id, key |-> call[t].key]

\* open_session's __write_event; a hook that opened an implicit session goes on.
WriteStart(t) ==
    /\ pc[t] = "open"
    /\ IF call[t].hook = "on_session_start"
       THEN Write(t, "SESSION_START", Declared(Body(t))) /\ Return(t)
       ELSE /\ Write(t, "SESSION_START", Declared([implicit |-> TRUE]))
            /\ Goto(t, "record")
            /\ UNCHANGED <<call, ref>>
    /\ UNCHANGED <<gateway, registry, exports>>

WriteEvent(t) ==
    /\ pc[t] = "record"
    /\ Write(t, "ACTION", Body(t))
    /\ Return(t)
    /\ UNCHANGED <<gateway, registry, exports>>

WriteEnd(t) ==
    /\ pc[t] = "close"
    /\ Write(t, "SESSION_END", Body(t))
    /\ Goto(t, "pop")
    /\ UNCHANGED <<gateway, registry, exports, call, ref>>

\* _close_and_export: pop under the lock; whoever gets the ledger exports it.
Pop(t) ==
    /\ pc[t] = "pop"
    /\ registry' = [registry EXCEPT ![call[t].key] = 0]
    /\ IF registry[call[t].key] = 0 THEN Return(t)
       ELSE /\ Hold(t, registry[call[t].key])
            /\ Goto(t, "export")
            /\ UNCHANGED call
    /\ UNCHANGED <<gateway, objects, exports>>

Export(t) ==
    /\ pc[t] = "export"
    /\ LET l == objects[ref[t]].ledger
       IN  exports' = exports \cup {[object |-> ref[t], by |-> call[t].id, lines |-> Exported(l)]}
    /\ Return(t)
    /\ UNCHANGED <<gateway, registry, objects>>

Hook(t) ==
    \/ Lookup(t) \/ GetOrCreate(t) \/ Reset(t) \/ WriteStart(t) \/ WriteEvent(t)
    \/ WriteEnd(t) \/ Pop(t) \/ Export(t)

Next == \E t \in Threads : Hook(t) \/ \E k \in SessionKeys, h \in Hooks : Begin(t, k, h)

Spec == Init /\ [][Next]_vars

-----------------------------------------------------------------------------
(* Properties                                                              *)

\* However hooks overlap, a ledger is exported once: the registry has it, or the one
\* ending hook that took it out is about to export it, or has.
ExportedExactlyOnce ==
    \A n \in DOMAIN objects :
       LET registered == registry[objects[n].key] = n
           holders == {t \in Threads : pc[t] = "export" /\ ref[t] = n}
           files == {e \in exports : e.object = n}
       IN  Cardinality(holders) + Cardinality(files) = IF registered THEN 0 ELSE 1

\* A session whose hooks never overlapped exports files that verify, whatever other
\* sessions do meanwhile, also after a late hook left an implicit session for the
\* next on_session_start to find.
ExportsVerify ==
    \A e \in exports :
       objects[e.object].key \notin mixed => PythonVerify(e.lines, NoPin, FALSE).status = "INTACT"
=============================================================================
