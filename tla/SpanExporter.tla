---------------------------- MODULE SpanExporter ----------------------------
(***************************************************************************)
(* The OpenTelemetry exporter (sasana/integrations/otel.py): batches of    *)
(* spans are written to one ledger per trace.  A SimpleSpanProcessor calls *)
(* export from every thread that ends a span, also while and after the     *)
(* exporter is shut down; processes that take part in the same trace have  *)
(* exporters of their own over the same directory.  A ledger is an object  *)
(* of its own, because two of them may be open on the database of a trace. *)
(***************************************************************************)
EXTENDS Ledger, Functions

CONSTANTS
    Exporters,  \* exporters that share an output directory
    Callers,    \* threads that end spans
    Traces,
    Spans

VARIABLES
    traceOf,    \* the trace of each span that ended
    plain,      \* the spans among them that are neither tool nor model calls
    exporterOf, \* the exporter each caller last called
    objects,    \* the ledgers made so far: what each remembers
    registered, \* _ledgers of each exporter: the object of a trace, or 0
    batch,      \* per caller: the spans of its call of export
    at,         \* per caller: the span it is at
    step,       \* per caller: where it is in the loop, or "idle"
    using,      \* per caller: the local variable ledger
    reported,   \* per span: what export returned for its batch
    down,       \* per exporter: "up", "closing", "down"
    closing,    \* per exporter: the traces shutdown has still to close, with their ledgers
    ending,     \* per exporter: the one closed but not exported, or <<>>
    traceDb,    \* the rows of each trace's database
    traceFile   \* the exported file of each trace

calls == <<batch, at, step, using, reported>>
shutdowns == <<down, closing, ending>>
given == <<traceOf, plain, exporterOf>>
spanVars == <<given, objects, registered, calls, shutdowns, traceDb, traceFile>>

NoTrace == "no-trace"
NoExporter == "no-exporter"

SpanInit ==
    /\ traceOf = [s \in Spans |-> NoTrace] /\ plain = {}
    /\ exporterOf = [c \in Callers |-> NoExporter]
    /\ objects = <<>>
    /\ registered = [e \in Exporters |-> [t \in Traces |-> 0]]
    /\ batch = [c \in Callers |-> <<>>] /\ at = [c \in Callers |-> 1]
    /\ step = [c \in Callers |-> "idle"] /\ using = [c \in Callers |-> 0]
    /\ reported = [s \in Spans |-> "open"]
    /\ down = [e \in Exporters |-> "up"]
    /\ closing = [e \in Exporters |-> {}]
    /\ ending = [e \in Exporters |-> <<>>]
    /\ traceDb = [t \in Traces |-> <<>>] /\ traceFile = [t \in Traces |-> <<>>]

Span(c) == batch[c][at[c]]
Trace(c) == traceOf[Span(c)]
Step(c, label) == step' = [step EXCEPT ![c] = label]

-----------------------------------------------------------------------------
(* export                                                                  *)

\* export returns: the spans of the batch are not exported again.
Return(c, result) ==
    /\ reported' = [s \in Spans |-> IF s \in Range(batch[c]) THEN result ELSE reported[s]]
    /\ batch' = [batch EXCEPT ![c] = <<>>] /\ at' = [at EXCEPT ![c] = 1]
    /\ using' = [using EXCEPT ![c] = 0]
    /\ Step(c, "idle")

NextSpan(c) ==
    IF at[c] = Len(batch[c]) THEN Return(c, "SUCCESS")
    ELSE /\ at' = [at EXCEPT ![c] = @ + 1] /\ Step(c, "find")
         /\ UNCHANGED <<batch, using, reported>>

\* Spans of any traces end, and are handed over to an exporter in batches of one or
\* two; no span ends twice.
Export(c) ==
    /\ step[c] = "idle"
    /\ \E s \in Spans : \E more \in {<<>>} \cup {<<u>> : u \in Spans \ {s}} :
          LET ended == {s} \cup Range(more) IN
          /\ \A u \in ended : reported[u] = "open"
          /\ batch' = [batch EXCEPT ![c] = <<s>> \o more]
          /\ reported' = [u \in Spans |-> IF u \in ended THEN "exporting" ELSE reported[u]]
          /\ \E traces \in [ended -> Traces] :
                traceOf' = [u \in Spans |-> IF u \in ended THEN traces[u] ELSE traceOf[u]]
          /\ \E p \in SUBSET ended : plain' = plain \cup p
    /\ \E e \in Exporters : exporterOf' = [exporterOf EXCEPT ![c] = e]
    /\ Step(c, "find")
    /\ UNCHANGED <<objects, registered, at, using, shutdowns, traceDb, traceFile>>

\* A span that maps to no events is skipped.
Skip(c) ==
    /\ step[c] = "find" /\ Span(c) \in plain
    /\ NextSpan(c)
    /\ UNCHANGED <<given, objects, registered, shutdowns, traceDb, traceFile>>

\* _ledger_for: is there a ledger for the trace?
Find(c) ==
    /\ step[c] = "find" /\ Span(c) \notin plain
    /\ using' = [using EXCEPT ![c] = registered[exporterOf[c]][Trace(c)]]
    /\ Step(c, IF using'[c] = 0 THEN "open" ELSE "call")
    /\ UNCHANGED <<given, objects, registered, batch, at, reported, shutdowns,
                   traceDb, traceFile>>

\* Object number Len(objects) + 1 becomes the ledger of the trace.
Register(c, l) ==
    /\ objects' = Append(objects, [l EXCEPT !.rows = <<>>])
    /\ registered' = [registered EXCEPT ![exporterOf[c]][Trace(c)] = Len(objects')]

\* No ledger was found: make one, open the session, and only then register it,
\* whatever another thread has registered by now.
Open(c) ==
    /\ step[c] = "open"
    /\ LET l == Opened([NewLedger(Trace(c)) EXCEPT !.rows = traceDb[Trace(c)]],
                       Trace(c), [source |-> "opentelemetry"])
       IN  /\ Register(c, l)
           /\ traceDb' = [traceDb EXCEPT ![Trace(c)] = l.rows]
    /\ using' = [using EXCEPT ![c] = Len(objects')]
    /\ Step(c, "call")
    /\ UNCHANGED <<given, batch, at, reported, shutdowns, traceFile>>

\* Mutant: the ledger is registered before its session is open.
OpenFailsRegistered(c) ==
    /\ step[c] = "open"
    /\ Register(c, NewLedger("unknown"))
    /\ Return(c, "FAILURE")
    /\ UNCHANGED <<given, shutdowns, traceDb, traceFile>>

\* mkdir or the connection raises: the rest of the batch is lost.
OpenFails(c) ==
    /\ step[c] = "open"
    /\ Return(c, "FAILURE")
    /\ UNCHANGED <<given, objects, registered, shutdowns, traceDb, traceFile>>

\* Object o writes to the database of trace t.
Write(o, t, type, body) ==
    LET l == Stored([objects[o] EXCEPT !.rows = traceDb[t]], type, body)
    IN  /\ objects' = [objects EXCEPT ![o] = [l EXCEPT !.rows = <<>>]]
        /\ traceDb' = [traceDb EXCEPT ![t] = l.rows]

\* The two events of a span, one after the other; a closed ledger reconnects.
RecordCall(c) ==
    /\ step[c] = "call"
    /\ Write(using[c], Trace(c), "ACTION", [span |-> Span(c), half |-> "call"])
    /\ Step(c, "outcome")
    /\ UNCHANGED <<given, registered, batch, at, using, reported, shutdowns, traceFile>>

RecordOutcome(c) ==
    /\ step[c] = "outcome"
    /\ Write(using[c], Trace(c), "ACTION", [span |-> Span(c), half |-> "outcome"])
    /\ NextSpan(c)
    /\ UNCHANGED <<given, registered, shutdowns, traceFile>>

-----------------------------------------------------------------------------
(* shutdown                                                                *)

\* list(self._ledgers.items()): the traces that have a ledger now.
Shutdown(e) ==
    /\ down[e] = "up"
    /\ down' = [down EXCEPT ![e] = "closing"]
    /\ closing' = [closing EXCEPT ![e] =
                    {<<t, registered[e][t]>> : t \in {u \in Traces : registered[e][u] # 0}}]
    /\ UNCHANGED <<given, objects, registered, calls, ending, traceDb, traceFile>>

CloseTrace(e) ==
    /\ ending[e] = <<>>
    /\ \E item \in closing[e] :
          /\ ending' = [ending EXCEPT ![e] = item]
          /\ closing' = [closing EXCEPT ![e] = @ \ {item}]
          /\ Write(item[2], item[1], "SESSION_END", [status |-> "success"])
    /\ UNCHANGED <<given, registered, calls, down, traceFile>>

\* export_jsonl, unless it raises; then the ledger is closed.
ExportTrace(e) ==
    /\ ending[e] # <<>>
    /\ \/ LET t == ending[e][1] IN
             traceFile' = [traceFile EXCEPT ![t] =
                Exported([objects[ending[e][2]] EXCEPT !.rows = traceDb[t]])]
       \/ UNCHANGED traceFile
    /\ ending' = [ending EXCEPT ![e] = <<>>]
    /\ UNCHANGED <<given, objects, registered, calls, down, closing, traceDb>>

\* Every ledger is forgotten, also one that was registered meanwhile.
Clear(e) ==
    /\ down[e] = "closing" /\ closing[e] = {} /\ ending[e] = <<>>
    /\ down' = [down EXCEPT ![e] = "down"]
    /\ registered' = [registered EXCEPT ![e] = [t \in Traces |-> 0]]
    /\ UNCHANGED <<given, objects, calls, closing, ending, traceDb, traceFile>>

SpanNext ==
    \/ \E c \in Callers :
          \/ Export(c) \/ Skip(c) \/ Find(c) \/ Open(c) \/ OpenFails(c)
          \/ RecordCall(c) \/ RecordOutcome(c)
    \/ \E e \in Exporters : Shutdown(e) \/ CloseTrace(e) \/ ExportTrace(e) \/ Clear(e)

SpanSpec == SpanInit /\ [][SpanNext]_spanVars

-----------------------------------------------------------------------------
(* Properties                                                              *)

\* The events of a span, as places in the databases.
EventsOf(s) ==
    UNION {{<<t, i>> : i \in {k \in DOMAIN traceDb[t] :
                                LET body == traceDb[t][k].payload.body
                                IN  Has(body, "span") /\ body.span = s}} : t \in Traces}

\* The two events of span s: the call and then the outcome, in the session of its trace.
WhollyStored(s) ==
    \E i, j \in DOMAIN traceDb[traceOf[s]] :
       LET log == traceDb[traceOf[s]] IN
          /\ i < j
          /\ EventsOf(s) = {<<traceOf[s], i>>, <<traceOf[s], j>>}
          /\ log[i].payload.body.half = "call" /\ log[j].payload.body.half = "outcome"
          /\ log[i].session = traceOf[s] /\ log[j].session = traceOf[s]
          /\ log[1].type = "SESSION_START"

\* What export answers is true of every span, whichever threads and processes
\* write to the trace and whatever shutdown does meanwhile: SUCCESS means that
\* the events of the span are stored once, under the session of its trace, and
\* after a FAILURE a span is stored as a whole or not at all.
SuccessMeansStored ==
    \A s \in Spans \ plain :
       /\ reported[s] = "SUCCESS" => WhollyStored(s)
       /\ reported[s] = "FAILURE" => EventsOf(s) = {} \/ WhollyStored(s)

\* The file of a trace whose session was opened by one ledger verifies, also when
\* spans are recorded while it is closed and exported.
TraceFilesVerify ==
    \A t \in Traces :
       traceFile[t] # <<>> /\ Cardinality(Of(traceFile[t], "SESSION_START")) <= 1 =>
          PythonVerify(traceFile[t], NoPin, FALSE).status = "INTACT"
=============================================================================
