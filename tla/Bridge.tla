------------------------------- MODULE Bridge -------------------------------
(***************************************************************************)
(* The OpenClaw bridge: the plugin's client inside the gateway             *)
(* (openclaw-plugin/sasana-openclaw/index.ts), the Unix socket, and the    *)
(* server that records into one ledger per session key                     *)
(* (sasana/integrations/openclaw.py).                                      *)
(*                                                                         *)
(* The gateway fires hooks; the client writes them to the socket, or       *)
(* queues them and connects.  The server handles one line at a time.  Its  *)
(* ledgers live in memory: a crash leaves their rows in databases nobody   *)
(* exports.                                                                *)
(***************************************************************************)
EXTENDS Ledger

CONSTANTS
    SessionKeys,  \* OpenClaw session keys
    MaxQueue,     \* MAX_QUEUE of the client (200 in the code)
    MaxHooks,     \* bound: hooks the gateway fires
    MaxStops      \* bound: times the server goes down

ASSUME BridgeAssumption ==
    MaxQueue \in Nat /\ MaxHooks \in Nat /\ MaxStops \in Nat

VARIABLES
    gateway,    \* "new", "running" or "stopped"
    active,     \* session keys between session_start and session_end
    fired,      \* the lines of the hooks fired so far
    socket,     \* the client's connection: "none", "connecting", "up", "destroyed"
    closed,     \* the client was closed
    queue,      \* lines the client holds until it is connected
    wire,       \* lines written to the socket and not read yet
    peer,       \* does the server hold the other end of the connection?
    server,     \* is the bridge process running?
    ledgers,    \* its ledger per session key, or NoLedger
    sids,       \* session ids given out so far
    exports,    \* the exported files
    orphans,    \* ledgers whose process died
    stops       \* times the server went down

plugin == <<gateway, active, fired, socket, closed, queue>>
bridge == <<server, ledgers, sids, exports, orphans, stops>>
vars == <<plugin, wire, peer, bridge>>

Hooks == {"session_start", "session_end", "llm_input", "unknown_hook"}

Init ==
    /\ gateway = "new" /\ active = {} /\ fired = <<>>
    /\ socket = "none" /\ closed = FALSE /\ queue = <<>>
    /\ wire = <<>> /\ peer = FALSE
    /\ server \in BOOLEAN
    /\ ledgers = [k \in SessionKeys |-> NoLedger]
    /\ sids = 0 /\ exports = {} /\ orphans = {} /\ stops = 0

-----------------------------------------------------------------------------
(* The client                                                              *)

\* connect(): nothing if closed, connected or connecting.
Connect == IF socket = "none" /\ ~closed THEN socket' = "connecting" ELSE UNCHANGED socket

GatewayStart ==
    /\ gateway = "new"
    /\ gateway' = "running"
    /\ Connect
    /\ UNCHANGED <<active, fired, closed, queue, wire, peer, bridge>>

\* A line that is written when the server is gone is lost.
WriteLines(lines) == wire' = IF peer THEN wire \o lines ELSE wire

\* send(): to the socket, or into the queue if there is room; never an error.
Send(line) ==
    IF closed THEN UNCHANGED <<socket, queue, wire>>
    ELSE IF socket = "up" THEN WriteLines(<<line>>) /\ UNCHANGED <<socket, queue>>
    ELSE /\ queue' = IF Len(queue) < MaxQueue THEN Append(queue, line) ELSE queue
         /\ Connect
         /\ UNCHANGED wire

HasEnded(key) == \E i \in DOMAIN fired : fired[i].key = key /\ fired[i].hook = "session_end"

\* The gateway fires a hook: session_start at any time, the other hooks while their
\* session is active or after its end (a tool call that outlives it).  The id stands
\* for the hook's content.
Fire(key, hook) ==
    /\ gateway = "running"
    /\ Len(fired) < MaxHooks
    /\ hook \in {"session_end", "llm_input"} => key \in active \/ HasEnded(key)
    /\ active' = CASE hook = "session_start" -> active \cup {key}
                   [] hook = "session_end"   -> active \ {key}
                   [] OTHER                  -> active
    /\ LET line == [id |-> Len(fired) + 1, key |-> key, hook |-> hook]
       IN  fired' = Append(fired, line) /\ Send(line)
    /\ UNCHANGED <<gateway, closed, peer, bridge>>

\* Mutant: the queued lines are written and kept.
ConnectedKeepsQueue ==
    /\ socket = "connecting"
    /\ server
    /\ socket' = "up" /\ peer' = TRUE
    /\ wire' = wire \o queue
    /\ UNCHANGED <<gateway, active, fired, closed, queue, bridge>>

\* Mutant: the queued lines wait for the next connection.
ConnectedUnflushed ==
    /\ socket = "connecting"
    /\ server
    /\ socket' = "up" /\ peer' = TRUE
    /\ UNCHANGED <<gateway, active, fired, closed, queue, wire, bridge>>

\* "connect": the queued lines go first.
Connected ==
    /\ socket = "connecting"
    /\ server
    /\ socket' = "up" /\ peer' = TRUE
    /\ wire' = wire \o queue
    /\ queue' = <<>>
    /\ UNCHANGED <<gateway, active, fired, closed, bridge>>

\* "error": nobody listens; the next send tries again.
ConnectFails ==
    /\ socket = "connecting"
    /\ ~server
    /\ socket' = "none"
    /\ UNCHANGED <<gateway, active, fired, closed, queue, wire, peer, bridge>>

\* Node destroys the socket whose other end is gone.  Until its "close" a line is
\* queued, and nobody connects.
SocketDestroyed ==
    /\ socket = "up"
    /\ ~peer
    /\ socket' = "destroyed"
    /\ UNCHANGED <<gateway, active, fired, closed, queue, wire, peer, bridge>>

\* "close": the client forgets the connection.
SocketCloses ==
    /\ socket = "destroyed"
    /\ socket' = "none"
    /\ UNCHANGED <<gateway, active, fired, closed, queue, wire, peer, bridge>>

\* gateway_stop: end() lets the server read what was written.  A connection in
\* progress is not called off.
GatewayStop ==
    /\ gateway = "running"
    /\ gateway' = "stopped"
    /\ closed' = TRUE
    /\ socket' = IF socket = "connecting" THEN socket ELSE "none"
    /\ UNCHANGED <<active, fired, queue, wire, peer, bridge>>

-----------------------------------------------------------------------------
(* The server                                                              *)

\* handle_event opens an implicit session for the first event it has no ledger for.
Implicit == [implicit |-> TRUE]
Body(line) == [id |-> line.id, key |-> line.key]

\* Mutant: no implicit session is opened.
UnopenedLedger(key) ==
    IF ledgers[key] # NoLedger THEN ledgers[key] ELSE NewLedger(sids + 1)

\* The ledger an event other than session_start is recorded in.
LedgerFor(key) ==
    IF ledgers[key] # NoLedger THEN ledgers[key]
    ELSE Opened(NewLedger(sids + 1), sids + 1, Implicit)

FreshIds(key) == IF ledgers[key] = NoLedger THEN sids + 1 ELSE sids

\* _close_and_export; how tells session_end from close_all.
ExportFile(key, l, how) ==
    [key |-> key, sid |-> l.sid, rows |-> l.rows, lines |-> Exported(l), how |-> how]

StartSession(line) ==
    /\ line.hook = "session_start"
    /\ LET l == IF ledgers[line.key] = NoLedger THEN NewLedger(sids + 1) ELSE ledgers[line.key]
       IN  ledgers' = [ledgers EXCEPT ![line.key] = Opened(l, l.sid, Body(line))]
    /\ sids' = FreshIds(line.key)
    /\ UNCHANGED exports

RecordEvent(line) ==
    /\ line.hook = "llm_input"
    /\ ledgers' = [ledgers EXCEPT ![line.key] = Stored(LedgerFor(line.key), "ACTION", Body(line))]
    /\ sids' = FreshIds(line.key)
    /\ UNCHANGED exports

EndSession(line) ==
    /\ line.hook = "session_end"
    /\ LET l == Stored(LedgerFor(line.key), "SESSION_END", Body(line))
       IN  exports' = exports \cup {ExportFile(line.key, l, "end")}
    /\ ledgers' = [ledgers EXCEPT ![line.key] = NoLedger]
    /\ sids' = FreshIds(line.key)

Unrecognized(line) ==
    /\ line.hook = "unknown_hook"
    /\ UNCHANGED <<ledgers, sids, exports>>

HandleEvent(line) ==
    StartSession(line) \/ RecordEvent(line) \/ EndSession(line) \/ Unrecognized(line)

ReadLine ==
    /\ server
    /\ wire # <<>>
    /\ wire' = Tail(wire)
    /\ HandleEvent(Head(wire))
    /\ UNCHANGED <<plugin, peer, server, orphans, stops>>

ServerStart ==
    /\ ~server
    /\ server' = TRUE
    /\ UNCHANGED <<plugin, wire, peer, ledgers, sids, exports, orphans, stops>>

\* The process is gone: so are its end of the connection, unread lines, ledgers.
Down ==
    /\ server
    /\ stops < MaxStops
    /\ stops' = stops + 1
    /\ server' = FALSE /\ peer' = FALSE /\ wire' = <<>>
    /\ ledgers' = [k \in SessionKeys |-> NoLedger]
    /\ UNCHANGED <<plugin, sids>>

OpenKeys == {k \in SessionKeys : ledgers[k] # NoLedger}

\* Mutant: close_all only drops the ledgers.
StopWithoutExport ==
    /\ Down
    /\ UNCHANGED <<exports, orphans>>

\* Ctrl-C: close_all exports what is open, without a SESSION_END.
ServerStop ==
    /\ Down
    /\ exports' = exports \cup {ExportFile(k, ledgers[k], "stop") : k \in OpenKeys}
    /\ UNCHANGED orphans

ServerCrash ==
    /\ Down
    /\ orphans' = orphans \cup {ExportFile(k, ledgers[k], "crash") : k \in OpenKeys}
    /\ UNCHANGED exports

\* What Node's event loop reports of the one socket; at most one of them can happen.
SocketEvent == Connected \/ ConnectFails \/ SocketDestroyed \/ SocketCloses

Next ==
    \/ GatewayStart \/ GatewayStop \/ SocketEvent
    \/ \E k \in SessionKeys, h \in Hooks : Fire(k, h)
    \/ ReadLine \/ ServerStart \/ ServerStop \/ ServerCrash

Spec == Init /\ [][Next]_vars

\* Node's event loop and asyncio's run what is pending; nobody has to fire a hook or
\* to start the bridge.
Fairness == WF_vars(SocketEvent) /\ WF_vars(ReadLine)
FairSpec == Spec /\ Fairness

-----------------------------------------------------------------------------
(* Properties                                                              *)

\* Everything the server has stored for a key: files, databases left by a crash,
\* the open ledger.
Records(key) ==
    {r \in exports \cup orphans : r.key = key}
      \cup (IF ledgers[key] = NoLedger THEN {} ELSE {ExportFile(key, ledgers[key], "open")})

Id(e) == e.payload.body.id
FromHooks(r) == {i \in DOMAIN r.rows : "id" \in DOMAIN r.rows[i].payload.body}
Ids(r) == {Id(r.rows[i]) : i \in FromHooks(r)}
Starts(r) == Of(r.rows, "SESSION_START")

\* Queue and reconnects keep the order: within a ledger and from one ledger of a key
\* to the next the events are in the order in which their hooks fired, and none is
\* stored twice.
OrderKept ==
    \A k \in SessionKeys : \A r, q \in Records(k) : \A i \in FromHooks(r), j \in FromHooks(q) :
       r.sid < q.sid \/ (r.sid = q.sid /\ i < j) => Id(r.rows[i]) < Id(q.rows[j])

\* A ledger passes as complete exactly if its session ended: also when it began before
\* the bridge or before its restart, as an implicit SESSION_START makes it complete;
\* and never when Ctrl-C or a crash cut it off.  A session started twice is left out.
CompleteExactlyWhenEnded ==
    \A r \in exports \cup orphans :
       LET status == PythonVerify(r.lines, NoPin, FALSE).status
       IN  IF r.how = "end" THEN Cardinality(Starts(r)) <= 1 => status = "INTACT"
           ELSE status = "COMPROMISED"

\* A stopped bridge leaves no session behind: what was read was exported, unless the
\* process crashed.
ReadMeansKept ==
    [][\A k \in SessionKeys : ledgers[k] # NoLedger /\ ledgers'[k] = NoLedger =>
          \E r \in exports' \cup orphans' :
             /\ r.key = k /\ r.sid = ledgers[k].sid
             /\ SubSeq(r.rows, 1, Len(ledgers[k].rows)) = ledgers[k].rows]_vars

\* Is the n-th hook in the rows of an open, exported or orphaned ledger?
IsStored(n) ==
    \E rows \in {ledgers[k].rows : k \in SessionKeys} \cup {r.rows : r \in exports \cup orphans} :
       \E i \in DOMAIN rows :
          LET body == rows[i].payload.body IN Has(body, "id") /\ body.id = n

\* While the bridge runs and the queue has room, the hooks of a session are stored in
\* the end, over whatever connections and whenever the gateway stops: it cannot be
\* that one of them is missing for ever.
HooksAreStored ==
    [](server /\ Len(queue) < MaxQueue) =>
       []<>(\A n \in DOMAIN fired : fired[n].hook # "unknown_hook" => IsStored(n))
=============================================================================
