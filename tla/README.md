# Sasana in TLA+

Sasana records what an AI agent does in an append-only, hash-chained log that
anybody can verify offline. This directory holds TLA+ models of the system,
TLC configurations that check them on small instances, and TLAPS proofs about
the ledger and the components around it. Every module is written from the source under
`src/`; `PROJECT.json` maps each definition to the lines it models.

Contents: [the system](#the-system), [the modules](#the-modules),
[abstractions](#abstractions), [the runs](#the-runs), [fairness](#fairness),
[the proofs](#the-proofs), [limits of the code](#limits-of-the-code-met-while-modelling),
[not modelled](#not-modelled), [the plan](#the-plan).

## The system

```
 OpenClaw gateway --hooks--> plugin (index.ts) --Unix socket--> bridge server --+
 OpenClaw gateway --WebSocket broadcast----------------------> observer --------+
 OpenClaw gateway --hooks on threads-------------------------> skill -----------+--> SqliteLedger --export--> session.jsonl
 LangGraph threads --put/aput--------------------------------> checkpoint saver +                                |
 CrewAI crews --callbacks------------------------------------> tracer ----------+             sasana seal --> Archeion --> sealed.jsonl
 AutoGPT --hooks---------------------------------------------> plugin ----------+                                |
 OpenTelemetry threads --spans-------------------------------> span exporter ---+     Python verifier, Rust verifier,
                                                                                      evidence packs, SIEM exporter
```

| Component | State it keeps | Operations | What makes it correct |
|---|---|---|---|
| Event envelope (`envelope.py`, `events.py`, `signing.py`) | none | build, hash, sign an event | the hash covers every field but itself and the signature |
| SQLite ledger (`sqlite_ledger.py`) | rows (durable); connection, session id, next number, tip, lock (volatile) | `open_session`, `record`, `close_session`, `close`, `export_jsonl`, two-pass RFC 3161 anchoring | rows of a session form a chain; committed rows stay; a stored token fits the first event; what was exported stays true; the lock is held only inside `with self._lock` |
| Verifiers (`verifier.py`, `sasana-rs/src/main.rs`) | none | `verify` with and without a pinned key | pass only what was recorded; agree with each other |
| Archeion (`archeion/server.py`, `keys.py`) | key file, loaded key | start, `POST /seal`, `GET /pubkey` | seals only whole sessions, once; its key survives restarts |
| CLI (`sasana_cli.py`) | session files | `seal`, `verify`, `bridge`, `observe` | an overwritten file is whole or found damaged |
| Bridge (`integrations/openclaw.py`, `openclaw-plugin/.../index.ts`) | client: queue, socket; server: a ledger per session key | hooks, connect, reconnect, `handle_event`, `close_all` | hooks are stored once, in order; ended sessions verify; cut ones do not |
| Observer (`observer.py`) | retry counter, a ledger per session key | `run`, `stop`, message handling | gaps in the broadcast do not spoil what was seen; it gives up in the end |
| Skill (`skill.py`, `event_mapper.py`) | registry of ledgers under a lock | three hooks on any thread | no ledger is leaked or exported twice |
| Checkpoint saver (`integrations/langgraph.py`) | ledger, `_started`, lock | `put`, `aput`, `put_writes`, `aput_writes`, `end_session` | one event per put; the exported file verifies |
| CrewAI tracer (`integrations/crewai.py`) | ledger, patched constructors | `start`, `stop`, context manager, callbacks | CrewAI is left as it was; the exported file verifies |
| AutoGPT plugin (`integrations/autogpt.py`) | ledger, session id, pending command | `start_session`, `end_session`, command and model hooks | a result recorded as the pending command's follows its call; the file of an id used once verifies |
| OpenTelemetry exporter (`integrations/otel.py`) | a ledger per trace | `export`, `shutdown`, on any thread | SUCCESS means stored, once and whole; the file of a trace opened once verifies |
| Commitment (`commitment.py`), RFC 3161 (`rfc3161.py`) | none of its own: public parts and secrets with the caller, receipts with the counterparty | `commit`, `reveal_bundle`, `verify_commitment` | VALID_ON_TIME is true; no later decision is hidden; a careful committer is accepted; nothing after the deadline improves a verdict |
| SIEM exporter (`compliance/siem.py`) | the loaded session, counters | `_load`, `to_webhook`, `to_splunk_hec` | what is counted as sent was sent; what is sent as evidence is a whole session |
| Reports (`compliance/`), `verify` and `evidence-pack` (`sasana_cli.py`) | none | read, put in order, judge, exit code | no command praises a file that another refuses; every class and seal claimed is earned |

The hard behaviour is in the interleavings. A ledger is one Python object with
one lock, but `open_session` assigns its fields and talks to a timestamp
authority (TSA) for seconds without that lock, `close` takes the connection
away without it, and the adapters above keep registries of ledgers that they
read without theirs. Failures are the second source: SQLite statements raise
and the exception is swallowed, processes die between COMMIT and the assignments
that follow it, connections break, and the user repeats what timed out. The
list `hazards` of `PROJECT.json` names each of these at its line and the
properties that watch it.

## The modules

| Module | Models | State and actions |
|---|---|---|
| `EventChain` | event, digest, signature, chain | pure: `BuildEvent`, `Anchored`, `OrderBySeq`, `IsChain` |
| `AuditLog` | what the ledger promises | one log per session; `AppendTo`, `Anchor` |
| `SqliteLedger` | `SqliteLedger`, at the grain of its database statements | `table` is what is committed, `view` what the connection sees (the open transaction), `sessionId`/`nextSeq`/`lastHash` the fields, `lock` is `_lock`, `pc` a program point per thread; one action per statement or unlocked step |
| `Verifier` | both verifiers | pure: `PythonVerify`, `RustVerify` |
| `Archeion` | `POST /seal` | pure: `SealResponse` |
| `LogFile` | a stored session file and what happens to it | `recorded`, and sealed where Archeion seals it; `file` after faults; one action per kind of fault |
| `Sealing` | `sasana seal` against Archeion, with the server's key file | `files`, one program point per client, `server`, `keyFile`; actions are the steps of the command and of the server's start |
| `Commitment` | committer, authorities, counterparty and verifier | `call` is the running `commit`, `held` what the caller stored, `registry` the receipts, `bundle` what was revealed, `made` a history; `BeginCommit`, `TsaFails`, `Stamp`, `Keep`, `Deliver`, `RevealBundle`; the verdict is the pure `VerifyCommitment` |
| `Ledger` | a ledger called one call at a time, as a value | pure: `Stored`, `Opened`, `Exported` |
| `Bridge` | plugin client, socket and bridge server | `queue`, `socket`, `wire`, `peer`, `ledgers`; `Fire`, `Connected`, `ReadLine`, `ServerStop`, `ServerCrash`, ... |
| `Observer` | the observer's task and the gateway's broadcast | `pc` of `run`, `attempts`, `link`, `inbox`, `ledgers` |
| `Skill` | hooks on threads over the registry | `registry`, `objects` (ledgers by reference), per thread `pc`, `call`, `ref` |
| `Checkpointer` | the checkpoint saver | `lock`, `current`, `started`, `rows`, per thread `pc`, `call`, `ref` |
| `CrewTracer` | tracers and the constructors they patch | `crewInit` (who is wrapped around it), `original`, `blocks`, `rows`, `files` |
| `AutoGptPlugin` | the plugin's hooks | `pluginId`, `pluginStarted`, `pluginLedger`, `pending`, a database and a file per id; one action per hook, with one for a session that does not start, and `PluginCrash` |
| `SpanExporter` | exporters over one directory, called by threads | `registered` (per exporter, the ledger object of a trace), `objects`, per caller `batch`, `at`, `step`, `using`; `Find`, `Open`, `RecordCall`, `RecordOutcome` are the steps of `export`, `Shutdown`, `CloseTrace`, `ExportTrace`, `Clear` those of `shutdown` |
| `Siem` | the exporter, the file it reads, the endpoint | `siemFile` and `filling` (the `seal` command that replaces it), `buffer` and `snapshot` (what `_load` read), `next`, `counts`, `arrived` |
| `Integrations` | the four hosts before side by side | `host`, the one a behaviour runs, and all of theirs |
| `Reports` | `verify`, `evidence-pack`, the four reports | pure: `VerifyCommand`, `PackCommand` |
| `Rfc3161` | `verify_timestamp_strict` | pure: `VerifyTimestampStrict` with `FindSignerCert` and `BuildChain`; `IsTrusted` says what the search is for |
| `SessionProofs` | lemmas on sequences of events and on ledgers as values, `OrderBySeq`, when a file verifies | |
| `LedgerProofs`, `SealingProofs`, `CommitmentProofs`, `BridgeProofs`, `SkillProofs`, `CheckpointerProofs`, `IntegrationProofs` | theorems about the module each is named after (`LedgerProofs` about `SqliteLedger`, `SealingProofs` also about `LogFile`, `CommitmentProofs` also about `Rfc3161`, `IntegrationProofs` also about `Observer`) | |

`MC*` modules declare the model values of the small instances. `Sealing`
composes the client with `Archeion` and, through it, the verifier;
`LogFile` composes recording, sealing, both verifiers and the commands that
report on a file (`Reports`); `Commitment` judges its tokens with `Rfc3161`; `Siem`
reads what `Archeion` seals; the seven adapters extend `Ledger` and judge what they
export with `PythonVerify`. In `Integrations` a behaviour runs one of four hosts:
the tracer, the plugin, the span exporter or the SIEM exporter. They share no state,
and one run with a choice at the start checks what four would.

Next to an action `A` some modules hold a definition commented `Mutant:`, `A`
with a plausible mistake. `PROJECT.json` says which property each of them breaks;
they take part in no specification.

## Abstractions

* A digest is the tuple of the hashed fields: equal exactly when all fields
  are. This is the collision resistance of SHA-256 and the injectivity of the
  JSON encodings; an Ed25519 signature is the pair of key and digest. The two
  canonicalizations (RFC 8785 and legacy) give different digests.
* The wall-clock timestamp of an event is left out, so two events of equal
  content and position have equal digests. No property relies on them being
  different.
* Payloads are small records: the fields the verifier looks at, or an id that
  stands for the content. Event types that are treated alike share `ACTION`. In
  `Reports` it stands for both an input and an output, so that the EU AI Act report,
  which wants one of each, is never stricter in the model than in the code; what is
  claimed of it (that it passes no file `verify` refuses) is the safer for it.
* `Reports` leaves out rendering and timestamps of single events, and a pack whose
  file cannot be written.
* A TSA answers with a token over exactly the digest it was sent, or not at
  all; fallback to a second TSA is part of "not at all".
* In `Rfc3161` a response is the record that the DER parsers yield, and a set of
  certificates is a graph: per certificate its key, those that verify as its issuer, and
  the times at which it is valid. One that does not parse is no response; algorithm and
  content type identifiers are left out.
* In `Siem` an endpoint accepts, refuses or loses a request, and `urlopen` returns,
  raises the URLError that the loop catches, or raises something else. A file that is
  replaced while it is read yields a beginning of the old one and the rest of the new.
* In `Commitment` time is a counter, and an authority's genTime is off by at most
  the accuracy it states, or by `DefaultAccuracy` if it states none: this is what the
  verifier relies on too. The payload and the fresh salt are one number per call. A
  caller revises the latest commitment it has kept.
* SQLite keeps its promises: COMMIT is atomic and durable under WAL and
  `synchronous=FULL`, a failing COMMIT is rolled back, and a connection sees its
  own open transaction.
* In `Ledger`, and hence in the adapters, a call of the ledger is one step, as
  it is under a single event loop or when the ledger's lock covers it; where an
  adapter's threads can get between two parts of a call (`open_session` in
  `Skill`), these parts are steps. Failing statements are `SqliteLedger`'s
  subject and left out there.
* `CHECK_DEADLOCK FALSE` is set in all runs: callers, hooks and commands may
  stop at any time, and every history is bounded.

## The runs

Each run's properties are those of its `.cfg`; `tlc -config X.cfg M` with the
module named in `PROJECT.json` repeats it.

**MCLedgerSerial** (2 sessions, 1 thread, 3 rows per session; failures and
crashes). One call at a time: `ChainIntact` (numbers and links agree with what
is stored), `TokensMatch`, `ExportsAreDurable`, the inductive
invariant `SerialInv`, and the refinement `ImplementsAuditLog`. Three
rows hold the start, one event and the end; two sessions show that reopening
the object for another session leaves the first alone.

**MCLedgerChaos** (2 threads, 1 session, 2 rows; overlap, Ctrl-C, failures,
crashes). What survives everything: `TypeOK`, `LockDiscipline`,
`StoredEventsAreAuthentic`, `CommittedRowsStay`, and, as liveness,
`LockIsReleased`. Two threads are enough for every pair of steps to overlap;
the theorems cover any number.

**MCLedgerThreads** (violation). With overlap alone `ChainIntact` fails: see
limit 1 below.

**MCLogFile** (5 session shapes, signed or not, RFC 8785 or legacy, anchored or
not, sealed where Archeion seals; up to 2 faults among losing, truncating,
repeating, swapping, tearing, misplacing or altering lines). `PassedMeansRecorded`:
a file passes only if it is what was recorded of the session whose id it bears
(`Original`, since enough faults make another session's file of it), up to some event at
or after the SESSION_END, and its timestamp check says whether that session was anchored.
`ClaimsAreEarned`: with the server's key pinned nothing is missing at all, whichever
command says so; `--strict` exits 0 for nothing less; a class that speaks of signatures
means they are all there; no report passes a file that `verify` refuses, and but
for the EU AI Act's each passes exactly what it passes. `VerifiersAgree`: Python and
Rust give the same status and class on files in order with one start and nothing after
the end. Two faults are enough for one to hide another (a lost line and a renumbered one).

**MCCommitment** (2 authorities, one of which states no accuracy and is up to 1
unit off while the other is exact, renews its certificate and loses its root; 2
commits, 2 receipts, deadline 3, time up to 3; paths with at most 1 intermediate). The
committer may crash, send before it keeps, send again, and reveal any
part of what it kept, also while the session is open; the verifier pins any
authorities and may have the registry. `OnTimeIsTrue`, `NothingHidden`,
`PatientIsAccepted`, `VerdictIsFinal`. Two commits are a revision and what it
revises, or a lost commitment and its twin; three units leave room for the clock error
on both sides of a commitment in time, and for one at the deadline itself.
`AcceptedExactlyWhenIssued` compares the search for a path with what it is for, over
all graphs of two intermediates and a root that issue each other in any way, with any
of them expired, five lists of certificates in a token, both ways to name the
signer and five sets of anchors. A limit of 1 where the code has 8 makes paths that
are just short enough and just too long part of these graphs.

**MCSealing** (2 clients with one command each, 6 session files: complete ones of both
canonicalizations, open, reordered, partial, and one with an event after its end; server
key in its file, 1 crash of the server). Two clients are also a first and a second try.
`SealedAtMostOnce`, `WholeOrDetected` (a file that passes holds the session as far as a
SESSION_END, then nothing but a seal, so in-place overwriting that is cut short is found
as long as nothing follows the end: limit 23), `SealedMeansAuthoritative`, `PinStaysValid` (the key survives restarts),
`RestartsUnlessKeyFileEmpty` (liveness).

**MCSealingKeyFile** (violation). The server does not always come up: limit 2.

**MCBridge** (2 session keys, 4 hooks, a queue of 3, the bridge down once). Hooks
in session order plus late ones, repeated starts and unknown hooks, the bridge
starting late, stopping or crashing. `OrderKept` (within a file and from one file of
a key to the next), `CompleteExactlyWhenEnded` (ended sessions verify, cut ones never
do), `ReadMeansKept`, and `HooksAreStored` as liveness. The queue of 3 and 4 hooks fill the queue and overflow it; 4 hooks are
a start, an event and an end with one more hook before, between or after.

**MCObserver** (2 session keys, 4 messages, 2 attempts, 2 outages).
`ObservedSessionsVerify`, and `GivesUp` as liveness.

**MCSkill** (2 threads, 2 session keys, 4 hooks). `ExportedExactlyOnce` whatever
overlaps, `ExportsVerify` for keys whose own hooks never overlapped (the history
variable `mixed`).

**MCCheckpointer** (3 threads, 5 calls, a wrapped saver with asynchronous
methods). `AuditedOnce`, `EndedOnceVerifies`, `SavedMeansAudited`. Two putting
threads race to start the session while a third ends it; puts after the end
start it again.

**MCIntegrations** (one of four hosts).

* Tracer (2 tracers, 2 sessions each, 4 callbacks): `NestedBlocksRestore`, as long as
  blocks ended in reverse order (the history variable `nested`), and
  `FirstFileVerifies`, for the file of a tracer's first session whatever crews record
  after it. Two blocks are enough to end in the wrong order, two sessions to reopen one.
* AutoGPT plugin (2 session ids, 2 commands, 5 hooks): `MatchedResultHasCall`, also when
  a session does not start or ends between the call and its result, and
  `PluginFilesVerify`. Five hooks are a call, an end, a start, another call and a result.
* OpenTelemetry (2 exporters, 2 threads, 2 traces, 2 spans): `SuccessMeansStored` and
  `TraceFilesVerify`. Two spans of one trace on two threads race to open it; two in one
  batch fail halfway; two exporters are two processes over one directory.
* SIEM (a session of four events, sealed or not, batches of 2, 2 calls): `CountsAreTrue`
  and `SnapshotIsWhole`. The sealed session has a last batch that is not full.

`FirstFilesVerify` is the conjunction of the three properties about files.

Bounds appear in the guards and have names (`MaxRows`, `MaxHooks`, `MaxQueue`,
`MaxStops`, `MaxRuns`, `MaxCrashes`, `MaxMessages`, `MaxOutages`, `MaxAttempts`,
`MaxCalls`, `MaxEvents`, `MaxStarts`, `MaxFaults`, `MaxTime`, `MaxCommits`,
`MaxReceipts`). `MaxQueue`, `MaxAttempts`, `MaxDepth` and `BatchSize`
are constants of the code made small (200, 12, 8 and 50). Symmetry is used for threads,
sessions, keys and spans, in runs without liveness only.

## Fairness

* `SqliteLedger`: weak fairness of each thread's steps inside a call. The
  operating system schedules runnable threads, SQLite calls return or raise, and a
  TSA request ends by its 10 s timeout. No caller has to call.
* `Sealing`: weak fairness of the server's start (the container is declared
  `restart: unless-stopped`) and of the steps of a running command, which
  has a 30 s timeout. Nobody has to run a command, and a server may crash.
* `Bridge`: weak fairness of Node's socket events and of the server's read loop.
  Nobody has to fire a hook, or to start the bridge.
* `Observer`: weak fairness of the one asyncio task; `sleep` and connection
  attempts end.

## The proofs

All theorems hold for any values of the constants: sets of threads, sessions, keys,
clients or authorities, bounds, payloads. Beyond the named assumptions that
constants have the right kind they assume what is said below.

`LedgerProofs`, for every `Env` (overlap, reuse of session ids, Ctrl-C,
failures, crashes):

* `TypeInvariant`: `Spec => []TypeOK`.
* `MutualExclusion`: `Spec => []LockDiscipline`. Inductive with `TypeOK`; each
  action moves one thread and takes or frees the lock exactly when it moves it
  into or out of `Locked` (`LockTaken`, `LockKept`, `LockReleased`).
* `Authenticity`: `Spec => []StoredEventsAreAuthentic`. Strengthened by the same
  statement about the open transaction (`AllAuthentic`), since COMMIT copies it.
* `CommittedRowsAreKept`: the action property `CommittedRowsStay`; the UPDATE of
  the anchoring touches rows numbered 1 only, and the open transaction always
  extends the table (up to such rows);

and, under `Serial` (calls do not overlap, session ids are fresh, no
call is interrupted; statements may fail and processes may die anywhere):

* `SerialInvariant`: `Spec => []SerialInv`.
* `ChainIntegrity`, `TokenIntegrity`: `ChainIntact` and `TokensMatch` follow.
* `AnchoringTip`: the tip remembered after anchoring is that of the rows.
* `Refinement`: `Spec => ImplementsAuditLog`: a COMMIT is one step of `AuditLog`,
  everything else a stutter.
* `ExportsStayDurable`: `ExportsAreDurable`. Invariant `ExportInv`: a session that is
  being opened or anchored has no file yet, so the one UPDATE there is never touches an
  exported row, and COMMIT otherwise only appends.

`ChainIntact` alone is not inductive: a step that commits says nothing of what
the transaction holds or of whether the fields fit the rows. `SerialInv` adds
that at most one thread is in a call (`OneCall`), that unopened sessions have
no rows, that the transaction holds exactly the statement of the call in progress
(`Transaction`), that number and tip agree with the rows except between a
commit and the assignments after it (`FieldsInSync`), and that a session being
opened has only its unanchored first event (`Opening`). It is
inductive together with `TypeOK` and `StoredEventsAreAuthentic`; TLC checks it
in `MCLedgerSerial`. The assumption `Serial` is not idle: `MCLedgerThreads`
violates `ChainIntact` without it.

`SessionProofs` is what the adapters share. The number of a place in `OrderBySeq` is the
number of places that come before it, and this is a bijection; so `OrderBySeqSorts` proves
that the result has every event once, in ascending order, and equal numbers in file
order. A ledger that is called one call at a time is `Recording`: its rows are those of
its session, numbered and linked, after any rows of others, and it knows their number
and tip. `Opened` makes a ledger so and `Stored` keeps it so; once a SESSION_END is in,
`Exported` passes `PythonVerify`. Where the same session id may be opened again the
rows are `Tracking` instead: one session that is `Recording`, or a second SESSION_START
among them, from which no row takes it away. Two theorems are about any file:
`RootFixesFile`, that the root hash a verdict reports fixes every event of the file but its
signatures (from the last event down, each hash fixes its event and with `prev` the
hash before it), and `VerifiersAgreeInOrder`, which names what the Rust verifier does not look
at (limit 3) and shows that there is nothing else on which the two differ.

`SkillProofs`:

* `EveryLedgerExportedOnce`. The invariant (`Placed`) gives every ledger ever made
  exactly one place: the registry, one thread that holds it and is the one that took it
  out, or one exported file. Each step moves at most one ledger on.
* `ExportedFilesVerify`. Invariant `Sessions`: for a key without overlap either no hook
  runs and the registered ledger is `Recording`, or one hook does, and what the registry
  and the thread hold is as its label says (`Working`). A hook of another key leaves this
  alone because `Placed` keeps it away from the ledger, and a fresh ledger has rows of no
  session, since ids come from the number of the hook.

`CheckpointerProofs`:

* `CheckpointerTypes`, which includes that the thread that exports holds the lock.
* `SavesAreAudited`: strengthened to `Promised`: until a session is ended, a thread that passed
  `_ensure_started` finds the ledger, and one that is about to save has its event among
  the rows.
* `PutsAreCountedOnce`, for `Inner = "async"`: strengthened to `Counted`: ids not drawn
  yet and calls before their audit have no event, all others at most one.
  Without the assumption it is false (limit 11).
* `EndedFileVerifies`. Invariant `FirstSession`: up to the first export there is one
  ledger object, which is `Recording`, and every thread that fetched a ledger fetched this
  one; while `end_session` holds the lock its last row but those of late puts is the end.

`SealingProofs`:

* `NoFileSealedTwice`, `PinsStayValid`. Invariant: every list of lines that a file, a
  request or a response holds is sound (at most one seal, which is under the published key,
  and none before there is one), and the key of a server that is up is the published one.
  Files alone would not do: what a command holds in memory is written later, perhaps
  after a restart.
* `CutFilesAreFound`. Invariant `Origins`: whatever a file, a request or a response
  holds is a beginning of the session, perhaps torn at its end, or such a beginning in order
  with a seal behind it, since a command may read and have sealed what another has half
  written. It assumes of the session what exports are, `LogsAssumption`: events with numbers.
* `SuccessIsAuthoritative`, an action property. Invariant `Replies`: a 200 that a client holds is
  authoritative under the published key, for Archeion answers only to a session that is
  INTACT and hashes the seal with that session's canonicalization; the key cannot have changed
  between the answer and the write.

and there too, about `LogFile`, for any sessions, keys and number of faults:

* `PassedIsRecorded`. Invariant `LogFileInv`: whatever happened to the file, a line that
  still parses has a hash that some event of this or the other session was recorded with,
  or one that is none. A file that passes hashes to the hashes it stores, and a
  numbered chain that ends in the hash of a recorded event is, but for the signatures, what
  was recorded up to that event: the last hash commits to all before it
  (`ChainFollowsRecord`). Nothing is assumed of which lines are left or in what order:
  what passing means is stated without the order (`Good`), and sorting changes
  none of it (`RearrangedIsGood`), which is also why the reports, which sort, and `verify`,
  which does not, agree.
* `ClaimsEarned`. With the pinned key a file that passes has the seal, and the chain to the seal
  is the whole log (`PinnedIsWhole`). The exit codes of the commands are put in terms of what
  passes (`VerifyIsGood`, `PackIsGood`); signatures are Ed25519's, one per key and digest.
* `VerifiersAlwaysAgree`, from `VerifiersAgreeInOrder`: what the Rust verifier does not look
  at, types and session ids, is under the hashes, and both refuse a file whose hashes fail.

`LogFileAssumption` says of the constants what makes them sessions of the SDK: a
SESSION_START first, its own event types, and canonicalizations that verifiers know. That the
recursive `Recorded` is a chain of written events (`RecordedIsRecord`) is proved by the
least length for which there is none.

`CommitmentProofs`:

* `OnTimeMeansCommittedBefore`, `NoLaterDecisionHidden`. Invariant: everything kept, sent or revealed
  is genuine: the history `made` has it, its token has the nonce of its own call, and
  genTime is within the clock error of when it was stamped; an index is below the
  number of the call that drew it. The effective revision exists because these numbers
  bound the indices.
* `VerdictsAreFinal`, if `None` is no set of receipts: receipts that arrive after the
  deadline leave who was in time alone, and more receipts can only add to what refuses.
* `PatientCommitterIsAccepted`, if `None` is no commitment (`NoneIsApart`). Invariant `Steady`:
  what is kept has one commitment per index, each revises the one before it, and each
  token is one that the pinned authorities confirm; the session has only grown since.
  A commit that is asking revises the latest, so that keeping what it returns keeps all this.
  None of the reasons for INVALID is then left: the indices count the revisions (`AllCounted`),
  patience keeps upper bounds in order (`PatientIsMonotonic`), no link is broken
  (`LinksHold`) and no receipt is of a twin (`NothingEquivocal`).
* `SearchFindsPaths`: `_build_chain` and the set of certificates that lead to an anchor
  agree in every graph. The search is a recursive function on pairs of a certificate and
  a path; that a function solves its equation is proved from the least set of
  answers closed under the rules (`LeastAnswers`), that the levels of `LeadingTo` exist by the
  least length for which they do not. What the search finds climbs one level per intermediate
  (`WalkIsRight`). Conversely the search follows the levels at which each certificate
  is met first; on such a way none comes twice and the limit is kept (`WalkIsComplete`).
* `TokensAcceptedWhenIssued`: `AcceptedExactlyWhenIssued` in every state and for every time,
  from `SearchFindsPaths` and from which certificate `FindSignerCert` takes. `CasesAssumption`
  says that a token carries certificates, and that the lack of one is none.

`BridgeProofs`:

* `HooksStayInOrder`, `NothingReadIsForgotten`. Invariant: there is a mark
  such that what is stored has ids up to the mark, in order, no later log of a key before
  an earlier one (`Storage`), and what is on its way has ids above it, in order, the socket
  before the queue, which is empty while the socket is up (`Transit`). Reading a line
  moves the mark to its id; `OrderKept` alone says nothing of what is on its way.
* `EndedFilesVerify`. Invariant `Complete`: every ledger of a key that is open is
  `Tracking` and has no end among its rows; `close_all` and a crash take it away as it is,
  so that what they leave has no SESSION_END and is refused.

`IntegrationProofs`, where a behaviour of `IntegrationSpec` is one of each host (`EachRuns`):

* `ObservedFilesVerify`, of `ObserverSpec`, which is no host. Invariant `ObserverState`: the ledger of
  every key is `Tracking`, as those of the bridge are; whatever was missed, an event without a
  ledger opens a session first.
* `BlocksRestore`. Invariant `Nesting`: the constructors are wrapped by the open blocks,
  and each open block remembers what was wrapped when it was entered, those before it.
* `FirstFiles`, of the tracers' databases, the plugin's and the traces'. For the span exporter the
  invariant (`SpanState`) says of each caller what the step it is at may count on, of each ledger
  object that it is `Tracking` or that its session was opened twice, and that what
  `shutdown` is about to export has an end.
* `ResultsFollowCalls`. Invariant `Matching`: while a command is pending, the last tool event of
  the running session is its call, or there is none.
* `AnswersAreTrue`. Invariant `SpanProgress`: how many events of a span are stored follows from where
  its caller is; a caller past its own step never adds another, and nobody else adds any.
* `SnapshotWhole`. What is read is lines of the session up to a place and then nothing, a
  torn one or lines of the sealed session; one that is `Loaded` and passes is one of both. It assumes
  that the session is numbered and that an end, if any, is its last event (`RecordedAssumption`):
  with events after the end, part of a session could pass (limit 23).
* `CountsTrue`. Invariant: what is counted and what has arrived account for exactly the records
  before the next batch (`Accounted`), and without failures the numbers of the
  batches tell them apart (`TrueOf`).

Only model-checked is all liveness (`LockIsReleased`, `RestartsUnlessKeyFileEmpty`,
`HooksAreStored`, `GivesUp`): the prover has no rules for fairness or ENABLED. What
induction over data would prove of a recursive function is proved here by a least number or
a least set instead; functions of several arguments are functions of a pair, which is all
the prover reads.

No module declares a RECURSIVE operator.

## Limits of the code met while modelling

Shown by a violation run:

1. *Threads.* `sqlite_ledger.py:41` says "Thread-safe." The tip is read for the
   TSA at line 97 and the token embedded at 144-182 under separate holds of the
   lock. A `record` in between links to the first hash of SESSION_START, which
   the token then changes, and line 182 sets the tip back. `open_session`'s
   assignments (81-83) and `close` (61-67) are outside the lock as well.
2. *Key file.* `archeion/keys.py:39` creates the key file and then fills it. A crash
   in between leaves an empty file, on which every later start raises.

Visible in the models when a stated restriction is lifted:

3. *Verifiers.* `docs/TECHNICAL.md:447` says that the Rust verifier "Produces
   the same results as the Python verifier for all cases it checks." A record
   after `close_session` is INTACT for Python, which wants a SESSION_END anywhere,
   and COMPROMISED for Rust, which wants it last (`main.rs:640`). `VerifiersAgree`
   without `EndsLast`.
4. *Ctrl-C between COMMIT and the assignments* (`sqlite_ledger.py:237-239`): the
   next event repeats a number. `Env` with `"interrupt"` and `ChainIntact`.
5. *Swallowed failures* (`sqlite_ledger.py:240`): a failing statement is logged, the
   caller is not told and no LOG_DROP is written, while line 4 says "no data loss".
   `StatementFails`, `CommitFails`.
6. *Export during a call*: `export_jsonl` reads on the writers' connection and can
   write a row that is rolled back. `Exporters` in an overlapping run.
7. *PARTIAL sessions are not sealed*: `server.py:88` answers 422, where
   `docs/TECHNICAL.md:411` lets PARTIAL through. `SealResponse`.
8. *Dropped hooks*: a full queue drops lines (`index.ts:70`), the file verifies as
   INTACT, and no LOG_DROP tells (`README.md:65`). `Send`.
9. *Sessions opened twice in one ledger or database* (`docs/TECHNICAL.md:179`: "one
   session per ledger"): a late hook and the next `session_start` in the bridge, a
   missed `session.end` in the observer, two first hooks at once in the skill, a put
   after `end_session` in the saver, a callback after `stop` in the tracer. Numbers
   repeat and the file exported last does not verify. This is why
   `CompleteExactlyWhenEnded` and `ObservedSessionsVerify` speak of files with one
   SESSION_START, `EndedOnceVerifies` and `FirstFileVerifies` of the first export,
   `ExportsVerify` of keys whose hooks do not overlap.
10. *A put during `end_session`* (`langgraph.py:112`): the ledger fetched after the lock
    was released is None, the audit fails silently and the checkpoint is saved.
    `SavedMeansAudited` speaks of sessions not ended for this reason.
11. *aput without an inner aput* (`langgraph.py:186`) audits and then calls `put`, which
    audits again: `Inner` other than `"async"` and `AuditedOnce`.
12. *Tracer blocks that end in another order than the reverse* leave constructors
    wrapped by a stopped tracer (`crewai.py:197`): `NestedBlocksRestore` without `nested`.
13. *The last retry* that the observer logs (`observer.py:70`, "Retry 12/12") is never
    made, and `attempts` is reset by a proper close only, not by a connection that
    worked and then broke.
14. *Revisions close together* (`commitment.py:657`): with authorities of differing
    accuracy, or clocks off by it, the upper bounds of two honest revisions can
    decrease, and the whole verdict is INVALID, where
    `docs/pre-outcome-commitment.md:174` invalidates the later revision only.
    `PatientIsAccepted` without `Patient`.
15. *A commitment that was sent and not kept* (`commitment.py:325`): the committer
    commits again under the same index, and the counterparty's registry shows an
    equivocation. Callers have to keep before they send; `PatientIsAccepted`
    without the condition on the receipts.
16. *Ledgers of one trace* (`otel.py:225`): "One Sasana session (ledger) is created per
    OpenTelemetry trace" (`otel.py:33`). Two threads that end the first spans of a trace, two processes of
    it, or a span after `shutdown` open it twice; every span is stored, but the file does
    not verify. This is why `TraceFilesVerify` speaks of files with one SESSION_START.
17. *Reused ids* (`autogpt.py:88`): `start_session` with an id that was used, also before
    a crash, opens it again in the same database. `PluginFilesVerify`, likewise.
18. *The command's name outlives a session* (`autogpt.py:172`), so the first result of a
    session can match a call of the one before: `MatchedResultHasCall` leaves it out.
19. *A snapshot is kept* (`siem.py:126`): an exporter that loaded the file while `seal`
    had emptied it goes on exporting nothing, and one that loaded it before sends the
    old class after. `SnapshotIsWhole` speaks of evidence only.
20. *Webhook batches* (`siem.py:282`): after a failed batch the next has the same
    number, and only URLError is caught: a connection closed in place of the answer ends the call and the
    counts are lost. `CountsAreTrue` speaks of calls that return.
21. *Reports*: `soc2.py:62` says PASS for a PARTIAL session, as the other reports do;
    an empty file makes `verify` exit 3 and `evidence-pack` exit 2; `--strict` adds no
    check once a key is pinned, since a file without its seal is then not INTACT.
22. *Signers named by their key* (`rfc3161.py:705`): the first certificate with the key is
    taken. A token that carries an earlier certificate of the same key before the signer's is refused.
    `AcceptedExactlyWhenIssued` wants acceptance only where one certificate fits.
23. *Events after the end* (`verifier.py:247`): a SESSION_END anywhere makes a session
    complete, so one that goes on after it and is cut behind it verifies, INTACT or PARTIAL, and
    Archeion seals what is left if it is INTACT. `WholeOrDetected` claims no more than the session up to an end.

## Not modelled

* Of the commitment: `LOG_DROP` sessions and `allow_partial` (nothing in the SDK writes
  LOG_DROP), disclosures, `capture_mode` and the other informative warnings, malformed
  bundles, commitments of other subjects, the tolerance of 1e-6 s.
* DER parsing (`rfc3161.py`), JCS (`jcs.py`): byte- and character-level encodings; the
  models assume what they are for.
* The CEF, JSON and syslog renderings of `siem.py`, the HTML, CSV and JSON of the reports, CLI
  wording, demos and entry points: rendering without state.
* The Rust verifier's canonicalizer and argument parsing.
* The rest of `event_mapper.py` and the attributes of spans: which payload field is
  hashed under which name.

## The plan

1. Done: the ledger, verifiers, reports, sealing, commitment with strict timestamps, the seven
   adapters and the SIEM exporter; the theorems above.
2. Next models: disclosures and PARTIAL sessions of the commitment, commitments of
   other subjects in the registry, three revisions.
3. Next proofs: what the models of 2 add; the invariants above are the ones to extend.
