--------------------------- MODULE AutoGptPlugin ---------------------------
(***************************************************************************)
(* The AutoGPT plugin (sasana/integrations/autogpt.py): one session at a   *)
(* time, whose hooks begin a session under a fresh id when there is none,  *)
(* and the name of the command whose result is awaited, which outlives the *)
(* session.  A database or a directory that cannot be opened, an export    *)
(* that fails and the death of the process fall between the hooks.         *)
(***************************************************************************)
EXTENDS Ledger

CONSTANTS
    SessionIds,  \* ids given to start_session or drawn by uuid4
    Commands,    \* the names of commands
    None,        \* no command is pending, no session was started
    MaxHooks     \* bound: calls of the plugin

ASSUME PluginAssumption == MaxHooks \in Nat /\ None \notin SessionIds \cup Commands

VARIABLES
    pluginId,       \* _session_id
    pluginStarted,  \* _started
    pluginLedger,   \* _ledger: what it remembers, or NoLedger
    pending,        \* _pending_command
    sessionDb,      \* the rows of each session's database
    sessionFile,    \* the exported file of each session
    hooks           \* calls so far

pluginVars == <<pluginId, pluginStarted, pluginLedger, pending, sessionDb, sessionFile, hooks>>

PluginInit ==
    /\ pluginId = None /\ pluginStarted = FALSE /\ pluginLedger = NoLedger
    /\ pending = None
    /\ sessionDb = [s \in SessionIds |-> <<>>]
    /\ sessionFile = [s \in SessionIds |-> <<>>]
    /\ hooks = 0

Called == hooks < MaxHooks /\ hooks' = hooks + 1

\* The ids uuid4 can return.
FreshIds == {s \in SessionIds : sessionDb[s] = <<>>}

\* start_session: a new ledger on the database of s.
Begun(s) == Opened([NewLedger(s) EXCEPT !.rows = sessionDb[s]], s, [framework |-> "autogpt"])

Running == [pluginLedger EXCEPT !.rows = sessionDb[pluginId]]

\* Session s runs, and its ledger is l.
RunsWith(s, l) ==
    /\ pluginId' = s
    /\ pluginStarted' = TRUE
    /\ pluginLedger' = [l EXCEPT !.rows = <<>>]
    /\ sessionDb' = [sessionDb EXCEPT ![s] = l.rows]
    /\ UNCHANGED sessionFile

\* start_session returns at once when a session is running.
StartSession(s) ==
    /\ Called /\ ~pluginStarted
    /\ RunsWith(s, Begun(s))
    /\ UNCHANGED pending

\* mkdir or the connection raises: the id is set, nothing else.  The hooks swallow
\* the exception, with whatever was to be recorded.
StartRaises(s) ==
    /\ ~pluginStarted
    /\ pluginId' = s
    /\ UNCHANGED <<pluginStarted, pluginLedger, sessionDb, sessionFile>>

StartSessionFails(s) == Called /\ StartRaises(s) /\ UNCHANGED pending

\* _record: in the running session, or in a new one.
Recorded(body) ==
    IF pluginStarted THEN RunsWith(pluginId, Stored(Running, "ACTION", body))
    ELSE \E s \in FreshIds : RunsWith(s, Stored(Begun(s), "ACTION", body))

\* pre_command sets what is pending before it records.
PreCommand(c) ==
    /\ Called
    /\ pending' = c
    /\ \/ Recorded([tool |-> "call", command |-> c])
       \/ \E s \in FreshIds : StartRaises(s)

\* Mutant: the pending command is not forgotten.
PostCommandKeeping(c) ==
    /\ Called
    /\ Recorded([tool |-> "result", command |-> c, match |-> pending = c])
    /\ UNCHANGED pending

\* post_command: the result says whether it is that of the pending command.
PostCommand(c) ==
    /\ Called
    /\ Recorded([tool |-> "result", command |-> c, match |-> pending = c])
    /\ pending' = None

\* The response has no UTF-8 encoding, or the session does not start: the command
\* stays pending.
PostCommandFails(c) ==
    /\ Called
    /\ \/ UNCHANGED <<pluginId, pluginStarted, pluginLedger, sessionDb, sessionFile>>
       \/ \E s \in FreshIds : StartRaises(s)
    /\ UNCHANGED pending

\* The planning, summary and response hooks.
ModelHook ==
    /\ Called
    /\ \/ Recorded([model |-> "call or response"])
       \/ \E s \in FreshIds : StartRaises(s)
    /\ UNCHANGED pending

\* The session is over, whatever raised; _session_id and the pending command stay.
Forget ==
    /\ pluginStarted' = FALSE
    /\ pluginLedger' = NoLedger
    /\ UNCHANGED <<pluginId, pending>>

\* end_session and shutdown: close, export unless that raises, forget.
EndSession ==
    /\ Called /\ pluginStarted
    /\ LET l == Stored(Running, "SESSION_END", [status |-> "success"])
       IN  /\ sessionDb' = [sessionDb EXCEPT ![pluginId] = l.rows]
           /\ \/ sessionFile' = [sessionFile EXCEPT ![pluginId] = Exported(l)]
              \/ UNCHANGED sessionFile
    /\ Forget

\* The process dies; AutoGPT is started again with a new plugin.
PluginCrash ==
    /\ pluginId # None
    /\ pluginId' = None /\ pluginStarted' = FALSE /\ pluginLedger' = NoLedger
    /\ pending' = None
    /\ UNCHANGED <<sessionDb, sessionFile, hooks>>

PluginNext ==
    \/ \E s \in SessionIds : StartSession(s) \/ StartSessionFails(s)
    \/ \E c \in Commands : PreCommand(c) \/ PostCommand(c) \/ PostCommandFails(c)
    \/ ModelHook \/ EndSession \/ PluginCrash

PluginSpec == PluginInit /\ [][PluginNext]_pluginVars

-----------------------------------------------------------------------------
(* Properties                                                              *)

\* The indices of the tool events of a log after its last SESSION_START.
ToolEvents(log) ==
    {i \in DOMAIN log :
       /\ Has(log[i].payload.body, "tool")
       /\ \A j \in i..Len(log) : log[j].type # "SESSION_START"}

\* A result recorded as that of the pending command is that of the call recorded
\* before it, with no other call or result in between; only the first tool event
\* of a session can answer a call of an earlier session, or one whose session did
\* not start.
MatchedResultHasCall ==
    \A s \in SessionIds : LET log == sessionDb[s] IN
       \A i \in ToolEvents(log) :
          log[i].payload.body.tool = "result" /\ log[i].payload.body.match =>
             LET earlier == {j \in ToolEvents(log) : j < i}
             IN  earlier # {} =>
                   log[CHOOSE j \in earlier : \A k \in earlier : k <= j].payload.body
                     = [tool |-> "call", command |-> log[i].payload.body.command]

\* The file of a session that was started once verifies, whatever the plugin
\* records afterwards and whatever happened to its other sessions.
PluginFilesVerify ==
    \A s \in SessionIds :
       sessionFile[s] # <<>> /\ Cardinality(Of(sessionFile[s], "SESSION_START")) <= 1 =>
          PythonVerify(sessionFile[s], NoPin, FALSE).status = "INTACT"
=============================================================================
