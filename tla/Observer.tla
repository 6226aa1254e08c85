------------------------------ MODULE Observer ------------------------------
(***************************************************************************)
(* The passive observer (sasana/observer.py): one asyncio task that        *)
(* follows the gateway's WebSocket broadcast, reconnects after a failure,  *)
(* and records into one ledger per session key.  What the gateway          *)
(* broadcasts while nobody is connected is gone.                           *)
(***************************************************************************)
EXTENDS Ledger

CONSTANTS
    SessionKeys,   \* OpenClaw session keys
    MaxAttempts,   \* _MAX_RECONNECT_ATTEMPTS (12 in the code)
    MaxMessages,   \* bound: messages the gateway broadcasts
    MaxOutages     \* bound: times the gateway goes down

ASSUME ObserverAssumption ==
    MaxAttempts \in Nat \ {0} /\ MaxMessages \in Nat /\ MaxOutages \in Nat

VARIABLES
    pc,        \* of run: "idle", "loop", "connect", "consume", "sleep", "ended"
    running,   \* _running
    attempts,  \* failures run has counted
    gateway,   \* does the gateway listen?
    link,      \* the connection: "none", "open", "broken", "closed" (properly)
    outages,   \* outages so far
    active,    \* sessions the gateway has started and not ended
    sent,      \* messages broadcast so far
    inbox,     \* messages that arrived on the connection and are not handled
    ledgers,   \* ledger per session key, or NoLedger
    sids,      \* session ids given out
    exports    \* the exported files

loop == <<pc, running, attempts>>
source == <<gateway, link, outages, active, sent>>
store == <<ledgers, sids, exports>>
observerVars == <<loop, source, inbox, store>>

MessageTypes == {"session.start", "session.end", "llm.call", "other"}

ObserverInit ==
    /\ pc = "idle" /\ running = FALSE /\ attempts = 0
    /\ gateway \in BOOLEAN /\ link = "none" /\ outages = 0 /\ active = {} /\ sent = 0
    /\ inbox = <<>>
    /\ ledgers = [k \in SessionKeys |-> NoLedger] /\ sids = 0 /\ exports = {}

-----------------------------------------------------------------------------
(* The gateway                                                             *)

\* A message reaches the observer if it is connected.  The id stands for its content.
Broadcast(key, type) ==
    /\ gateway
    /\ sent < MaxMessages
    /\ type = "session.start" => key \notin active
    /\ type \in {"session.end", "llm.call"} => key \in active
    /\ sent' = sent + 1
    /\ active' = CASE type = "session.start" -> active \cup {key}
                   [] type = "session.end"   -> active \ {key}
                   [] OTHER                  -> active
    /\ inbox' = IF link = "open"
                THEN Append(inbox, [id |-> sent + 1, key |-> key, type |-> type]) ELSE inbox
    /\ UNCHANGED <<loop, gateway, link, outages, store>>

GatewayUp ==
    /\ ~gateway
    /\ gateway' = TRUE
    /\ UNCHANGED <<loop, link, outages, active, sent, inbox, store>>

\* The gateway goes away, and closes the connection properly or just breaks it.
GatewayDown ==
    /\ gateway
    /\ outages < MaxOutages
    /\ outages' = outages + 1
    /\ gateway' = FALSE
    /\ IF link = "open" THEN link' \in {"broken", "closed"} ELSE UNCHANGED link
    /\ UNCHANGED <<loop, active, sent, inbox, store>>

-----------------------------------------------------------------------------
(* run                                                                     *)

Run ==
    /\ pc = "idle"
    /\ pc' = "loop" /\ running' = TRUE
    /\ UNCHANGED <<attempts, source, inbox, store>>

\* while self._running and attempts < _MAX_RECONNECT_ATTEMPTS
Again == running /\ attempts < MaxAttempts

Loop ==
    /\ pc = "loop"
    /\ pc' = IF Again THEN "connect" ELSE "ended"
    /\ UNCHANGED <<running, attempts, source, inbox, store>>

\* Mutant: failures are not counted.
FailUncounted ==
    /\ pc' = IF running THEN "sleep" ELSE "loop"
    /\ UNCHANGED <<running, attempts>>

\* except Exception: count the failure, wait 5 s.
Fail ==
    /\ attempts' = attempts + 1
    /\ pc' = IF running THEN "sleep" ELSE "loop"
    /\ UNCHANGED running

\* _connect_and_consume returned.
Finish == pc' = "loop" /\ attempts' = 0 /\ UNCHANGED running

Connect ==
    /\ pc = "connect"
    /\ gateway
    /\ pc' = "consume" /\ link' = "open"
    /\ UNCHANGED <<running, attempts, gateway, outages, active, sent, inbox, store>>

\* Refused, or no handshake.
ConnectFails ==
    /\ pc = "connect"
    /\ ~gateway
    /\ Fail
    /\ UNCHANGED <<source, inbox, store>>

Wake ==
    /\ pc = "sleep"
    /\ pc' = "loop"
    /\ UNCHANGED <<running, attempts, source, inbox, store>>

\* What arrived was handled and the connection is gone: a proper close ends the
\* `async for`, any other end raises.
Disconnected ==
    /\ pc = "consume"
    /\ inbox = <<>>
    /\ \/ link = "broken" /\ Fail
       \/ link = "closed" /\ Finish
    /\ link' = "none"
    /\ UNCHANGED <<gateway, outages, active, sent, inbox, store>>

StopObserver ==
    /\ running
    /\ running' = FALSE
    /\ UNCHANGED <<pc, attempts, source, inbox, store>>

\* stop() is noticed when the next message arrives, which is not handled.
Leave ==
    /\ pc = "consume"
    /\ inbox # <<>>
    /\ ~running
    /\ Finish
    /\ link' = "none" /\ inbox' = <<>>
    /\ UNCHANGED <<gateway, outages, active, sent, store>>

-----------------------------------------------------------------------------
(* _handle_raw                                                             *)

Body(m) == [id |-> m.id, key |-> m.key]
Implicit == [implicit |-> TRUE]

\* _get_or_create_ledger gives the database its own id; an implicit session then
\* takes another one.
LedgerFor(key) == IF ledgers[key] = NoLedger THEN NewLedger(sids + 1) ELSE ledgers[key]
NextSids(key) == IF ledgers[key] = NoLedger THEN sids + 1 ELSE sids

HandleStart(m) ==
    /\ m.type = "session.start"
    /\ LET l == LedgerFor(m.key) IN ledgers' = [ledgers EXCEPT ![m.key] = Opened(l, l.sid, Body(m))]
    /\ sids' = NextSids(m.key)
    /\ UNCHANGED exports

\* An end without a ledger is ignored; otherwise close, export, forget.
HandleEnd(m) ==
    /\ m.type = "session.end"
    /\ IF ledgers[m.key] = NoLedger THEN UNCHANGED <<ledgers, exports>>
       ELSE LET l == Stored(ledgers[m.key], "SESSION_END", Body(m))
            IN  /\ exports' = exports \cup {[key |-> m.key, sid |-> l.sid, rows |-> l.rows, lines |-> Exported(l)]}
                /\ ledgers' = [ledgers EXCEPT ![m.key] = NoLedger]
    /\ UNCHANGED sids

\* Mutant: the implicit session is not opened.
RecordUnopened(m) ==
    /\ m.type = "llm.call"
    /\ ledgers' = [ledgers EXCEPT ![m.key] = Stored(LedgerFor(m.key), "ACTION", Body(m))]
    /\ sids' = NextSids(m.key)
    /\ UNCHANGED exports

RecordEvent(m) ==
    /\ m.type = "llm.call"
    /\ IF ledgers[m.key] = NoLedger
       THEN /\ ledgers' = [ledgers EXCEPT ![m.key] =
                 Stored(Opened(NewLedger(sids + 1), sids + 2, Implicit), "ACTION", Body(m))]
            /\ sids' = sids + 2
       ELSE /\ ledgers' = [ledgers EXCEPT ![m.key] = Stored(@, "ACTION", Body(m))]
            /\ UNCHANGED sids
    /\ UNCHANGED exports

Unmapped(m) == m.type = "other" /\ UNCHANGED store

HandleRaw ==
    /\ pc = "consume"
    /\ inbox # <<>>
    /\ running
    /\ LET m == Head(inbox)
       IN  HandleStart(m) \/ HandleEnd(m) \/ RecordEvent(m) \/ Unmapped(m)
    /\ inbox' = Tail(inbox)
    /\ UNCHANGED <<loop, source>>

Task ==
    Loop \/ Connect \/ ConnectFails \/ Wake \/ Disconnected \/ Leave \/ HandleRaw

ObserverNext ==
    \/ \E k \in SessionKeys, y \in MessageTypes : Broadcast(k, y)
    \/ GatewayUp \/ GatewayDown
    \/ Run \/ StopObserver \/ Task

ObserverSpec == ObserverInit /\ [][ObserverNext]_observerVars

\* The event loop runs the task; sleeps and connection attempts end.
Fairness == WF_observerVars(Task)
FairSpec == ObserverSpec /\ Fairness

-----------------------------------------------------------------------------
(* Properties                                                              *)

\* What was missed while disconnected does not spoil what was seen: the file of a
\* session that was started once, explicitly or not, verifies.
ObservedSessionsVerify ==
    \A r \in exports :
       Cardinality(Of(r.rows, "SESSION_START")) <= 1 => PythonVerify(r.lines, NoPin, FALSE).status = "INTACT"

\* A gateway that stays away does not keep the observer busy for ever.
GivesUp == <>[](~gateway) => <>[](pc \in {"idle", "ended"})
=============================================================================
