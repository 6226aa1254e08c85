----------------------------- MODULE CrewTracer -----------------------------
(***************************************************************************)
(* The CrewAI tracer (sasana/integrations/crewai.py): each tracer records  *)
(* the callbacks of the crews it is wired to into the database of its one  *)
(* session id.  As a context manager it replaces the constructors of Crew  *)
(* and Agent, so that crews built inside the block call it; several        *)
(* tracers replace each other's replacements.                              *)
(*                                                                         *)
(* Callbacks come one at a time; a crew that was wired keeps calling.      *)
(***************************************************************************)
EXTENDS Ledger

LOCAL INSTANCE Functions

CONSTANTS
    Tracers,    \* tracers, each with a session id of its own
    MaxEvents,  \* bound: callbacks
    MaxStarts   \* bound: sessions a tracer opens

ASSUME CrewTracerAssumption == MaxEvents \in Nat /\ MaxStarts \in Nat

VARIABLES
    crewInit,  \* Crew.__init__ and Agent.__init__: the tracers wrapped around the original
    original,  \* per tracer: the constructors its block replaced, or NotPatched
    blocks,    \* the tracers whose block is open, in order
    nested,    \* history: has every block ended before those around it?
    wired,     \* the tracers some crew calls back
    started,   \* _started
    ledger,    \* _ledger: what it remembers, or NoLedger
    rows,      \* the database of each tracer
    files,     \* the exported file of each tracer
    starts,    \* sessions opened, per tracer
    stops,     \* sessions stopped, per tracer
    events     \* callbacks so far

patches == <<crewInit, original, blocks, nested>>
sessions == <<started, ledger, rows, files, starts, stops>>
vars == <<patches, wired, sessions, events>>

NotPatched == <<"not-patched">>
Unwrapped == <<>>

Init ==
    /\ crewInit = Unwrapped
    /\ original = [r \in Tracers |-> NotPatched]
    /\ blocks = <<>> /\ nested = TRUE /\ wired = {}
    /\ started = [r \in Tracers |-> FALSE]
    /\ ledger = [r \in Tracers |-> NoLedger]
    /\ rows = [r \in Tracers |-> <<>>] /\ files = [r \in Tracers |-> <<>>]
    /\ starts = [r \in Tracers |-> 0] /\ stops = [r \in Tracers |-> 0]
    /\ events = 0

\* A ledger writes to the tracer's database with the number and tip it remembers.
OnDatabase(r, l) == [l EXCEPT !.rows = rows[r]]

\* The ledger and the database of r after it wrote.
Keep(r, l) ==
    /\ ledger' = [ledger EXCEPT ![r] = [l EXCEPT !.rows = <<>>]]
    /\ rows' = [rows EXCEPT ![r] = l.rows]

\* What start leaves: a new ledger over the same database, unless there is one.
StartedLedger(r) ==
    IF started[r] THEN OnDatabase(r, ledger[r])
    ELSE Opened(OnDatabase(r, NewLedger(r)), r, [framework |-> "crewai"])

NextStarts(r) == IF started[r] THEN starts ELSE [starts EXCEPT ![r] = @ + 1]

\* Does r still start the session it was made for?
MayRun(r) ==
    started[r] \/ starts[r] < MaxStarts

Start(r) ==
    /\ Keep(r, StartedLedger(r))
    /\ started' = [started EXCEPT ![r] = TRUE]
    /\ starts' = NextStarts(r)
    /\ UNCHANGED <<files, stops>>

\* stop: close, export, forget the ledger.
Stop(r) ==
    IF ~started[r] THEN UNCHANGED sessions
    ELSE LET l == Stored(OnDatabase(r, ledger[r]), "SESSION_END", [status |-> "success"])
         IN  /\ rows' = [rows EXCEPT ![r] = l.rows]
             /\ files' = [files EXCEPT ![r] = Exported(l)]
             /\ ledger' = [ledger EXCEPT ![r] = NoLedger]
             /\ started' = [started EXCEPT ![r] = FALSE]
             /\ stops' = [stops EXCEPT ![r] = @ + 1]
             /\ UNCHANGED starts

-----------------------------------------------------------------------------
(* Calls of start and stop, inside a block of the tracer or without one    *)

InBlock(r) == \E i \in DOMAIN blocks : blocks[i] = r

\* The open blocks when that of r is over.
Without(r) ==
    LET i == CHOOSE i \in DOMAIN blocks : blocks[i] = r
    IN  SubSeq(blocks, 1, i - 1) \o SubSeq(blocks, i + 1, Len(blocks))

StartCall(r) ==
    /\ ~started[r] /\ MayRun(r)
    /\ Start(r)
    /\ UNCHANGED <<patches, wired, events>>

StopCall(r) ==
    /\ started[r]
    /\ Stop(r)
    /\ UNCHANGED <<patches, wired, events>>

-----------------------------------------------------------------------------
(* The context manager                                                     *)

\* __enter__: start, then wrap the constructors as they are now.
Enter(r) ==
    /\ ~InBlock(r) /\ MayRun(r)
    /\ Start(r)
    /\ original' = [original EXCEPT ![r] = crewInit]
    /\ crewInit' = Append(crewInit, r)
    /\ blocks' = Append(blocks, r)
    /\ UNCHANGED <<nested, wired, events>>

\* Mutant: the constructors are not put back.
ExitPatched(r) ==
    /\ InBlock(r)
    /\ nested' = (nested /\ blocks[Len(blocks)] = r)
    /\ original' = [original EXCEPT ![r] = NotPatched]
    /\ blocks' = Without(r)
    /\ Stop(r)
    /\ UNCHANGED <<crewInit, wired, events>>

\* __exit__: put back what the block replaced, whatever is there now, and stop.
Exit(r) ==
    /\ InBlock(r)
    /\ nested' = (nested /\ blocks[Len(blocks)] = r)
    /\ crewInit' = original[r]
    /\ original' = [original EXCEPT ![r] = NotPatched]
    /\ blocks' = Without(r)
    /\ Stop(r)
    /\ UNCHANGED <<wired, events>>

\* A crew is built with callbacks=[tracer], before the tracer starts or later.
WireCrew(r) ==
    /\ wired' = wired \cup {r}
    /\ wired' # wired
    /\ UNCHANGED <<patches, sessions, events>>

\* A crew is built inside blocks: its agents call every tracer wrapped around the constructor.
BuildCrew ==
    /\ wired' = wired \cup Range(crewInit)
    /\ wired' # wired
    /\ UNCHANGED <<patches, sessions, events>>

\* Mutant: a callback does not start the session.
CallbackUnstarted(r) ==
    /\ r \in wired
    /\ events < MaxEvents
    /\ events' = events + 1
    /\ IF started[r] THEN Keep(r, Stored(StartedLedger(r), "ACTION", [id |-> events + 1]))
       ELSE Keep(r, Stored(OnDatabase(r, NewLedger(r)), "ACTION", [id |-> events + 1]))
    /\ started' = [started EXCEPT ![r] = TRUE]
    /\ UNCHANGED <<patches, wired, files, starts, stops>>

\* _record: start if there is no session, then record.
Callback(r) ==
    /\ r \in wired
    /\ events < MaxEvents
    /\ events' = events + 1
    /\ MayRun(r)
    /\ Keep(r, Stored(StartedLedger(r), "ACTION", [id |-> events + 1]))
    /\ started' = [started EXCEPT ![r] = TRUE]
    /\ starts' = NextStarts(r)
    /\ UNCHANGED <<patches, wired, files, stops>>

Next ==
    \/ \E r \in Tracers :
          StartCall(r) \/ StopCall(r) \/ Enter(r) \/ Exit(r) \/ WireCrew(r) \/ Callback(r)
    \/ BuildCrew

Spec == Init /\ [][Next]_vars

-----------------------------------------------------------------------------
(* Properties                                                              *)

\* Blocks that are nested leave CrewAI as it was: inside, exactly the open blocks
\* are wrapped around the constructors.
NestedBlocksRestore == nested => crewInit = blocks

\* The file of a session that was stopped verifies, even when callbacks open the
\* next session in the same database, until that one is stopped too.
FirstFileVerifies ==
    \A r \in Tracers :
       stops[r] = 1 => PythonVerify(files[r], NoPin, FALSE).status = "INTACT"
=============================================================================
