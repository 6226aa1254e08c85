-------------------------- MODULE IntegrationProofs --------------------------
(***************************************************************************)
(* The tracers and the SIEM exporter for any number of tracers, sessions,  *)
(* spans, threads and calls: nested blocks, matched results, the answers of*)
(* export, first files, whole snapshots and true counts.                   *)
(***************************************************************************)
EXTENDS Integrations, Observer, SessionProofs

\* A behaviour of the integrations is a behaviour of each of them.
LEMMA EachRuns == IntegrationSpec => Spec /\ PluginSpec /\ SpanSpec /\ SiemSpec
<1>1. IntegrationInit => Init /\ PluginInit /\ SpanInit /\ SiemInit
  BY DEF IntegrationInit
<1>2. [IntegrationNext]_allVars =>
        [Next]_vars /\ [PluginNext]_pluginVars /\ [SpanNext]_spanVars /\ [SiemNext]_siemVars
  BY DEF IntegrationNext, allVars
<1>. QED BY <1>1, <1>2, PTL DEF IntegrationSpec, Spec, PluginSpec, SpanSpec, SiemSpec

-----------------------------------------------------------------------------
(* CrewTracer: what a block restores.                                      *)

\* While blocks have ended from the inside out: each open block replaced the blocks
\* around it, and no tracer has two.
Nesting ==
    /\ nested \in BOOLEAN
    /\ nested =>
          /\ crewInit = blocks
          /\ blocks \in Seq(Tracers)
          /\ original = [r \in Tracers |-> original[r]]
          /\ \A i \in 1..Len(blocks) : original[blocks[i]] = SubSeq(blocks, 1, i - 1)
          /\ \A i, j \in 1..Len(blocks) : blocks[i] = blocks[j] => i = j

\* A block is entered inside the others.
LEMMA EnterNests == ASSUME Nesting, NEW r \in Tracers, Enter(r) PROVE Nesting'
<1>. SUFFICES ASSUME nested PROVE Nesting'
  BY DEF Nesting, Enter
<1>1. /\ crewInit = blocks /\ blocks \in Seq(Tracers) /\ original = [q \in Tracers |-> original[q]]
      /\ \A i \in 1..Len(blocks) : original[blocks[i]] = SubSeq(blocks, 1, i - 1)
      /\ \A i, j \in 1..Len(blocks) : blocks[i] = blocks[j] => i = j
  BY DEF Nesting
<1>2. /\ original' = [original EXCEPT ![r] = crewInit] /\ crewInit' = Append(crewInit, r)
      /\ blocks' = Append(blocks, r) /\ nested' = nested
      /\ \A i \in 1..Len(blocks) : blocks[i] # r
  BY <1>1 DEF Enter, InBlock
<1>3. /\ blocks' \in Seq(Tracers) /\ Len(blocks') = Len(blocks) + 1 /\ Len(blocks) \in Nat
      /\ \A i \in 1..Len(blocks) : blocks'[i] = blocks[i]
      /\ blocks'[Len(blocks) + 1] = r
  BY <1>1, <1>2
<1>4. \A i \in 1..Len(blocks') : SubSeq(blocks', 1, i - 1) = SubSeq(blocks, 1, i - 1)
  BY <1>1, <1>2
<1>5. SubSeq(blocks, 1, Len(blocks)) = blocks
  BY <1>1
<1>6. \A i \in 1..Len(blocks') : original'[blocks'[i]] = SubSeq(blocks', 1, i - 1)
  <2>. SUFFICES ASSUME NEW i \in 1..Len(blocks')
                PROVE  original'[blocks'[i]] = SubSeq(blocks, 1, i - 1)
    BY <1>4
  <2>1. CASE i = Len(blocks) + 1
    <3>1. original'[r] = blocks /\ i - 1 = Len(blocks)
      BY <1>1, <1>2, <1>3, <2>1
    <3>. QED BY <1>3, <1>5, <2>1, <3>1
  <2>2. CASE i # Len(blocks) + 1
    <3>1. i \in 1..Len(blocks) /\ blocks[i] \in Tracers /\ blocks[i] # r
      BY <1>1, <1>2, <1>3, <2>2
    <3>. QED BY <1>1, <1>2, <1>3, <3>1
  <2>. QED BY <2>1, <2>2
<1>7. \A i, j \in 1..Len(blocks') : blocks'[i] = blocks'[j] => i = j
  BY <1>1, <1>2, <1>3
<1>8. original' = [q \in Tracers |-> original'[q]]
  BY <1>1, <1>2
<1>. QED BY <1>1, <1>2, <1>3, <1>6, <1>7, <1>8 DEF Nesting

\* The innermost block is left.
LEMMA ExitNests == ASSUME Nesting, NEW r \in Tracers, Exit(r) PROVE Nesting'
<1>1. nested' = (nested /\ blocks[Len(blocks)] = r)
  BY DEF Exit
<1>. SUFFICES ASSUME nested, blocks[Len(blocks)] = r PROVE Nesting'
  BY <1>1 DEF Nesting
<1>2. /\ crewInit = blocks /\ blocks \in Seq(Tracers) /\ original = [q \in Tracers |-> original[q]]
      /\ \A i \in 1..Len(blocks) : original[blocks[i]] = SubSeq(blocks, 1, i - 1)
      /\ \A i, j \in 1..Len(blocks) : blocks[i] = blocks[j] => i = j
  BY DEF Nesting
<1>. PICK n : n = Len(blocks)
  OBVIOUS
<1>3. n \in Nat /\ DOMAIN blocks = 1..n /\ n # 0
  BY <1>2 DEF Exit, InBlock
<1>4. (CHOOSE i \in DOMAIN blocks : blocks[i] = r) = n
  BY <1>2, <1>3
<1>5. PICK rest : rest = SubSeq(blocks, 1, n - 1)
  OBVIOUS
<1>6. /\ rest \in Seq(Tracers) /\ Len(rest) = n - 1
      /\ \A i \in 1..(n - 1) : rest[i] = blocks[i]
  BY <1>2, <1>3, <1>5
<1>7. Without(r) = rest
  <2>1. Without(r) = SubSeq(blocks, 1, n - 1) \o SubSeq(blocks, n + 1, n)
    BY <1>4 DEF Without
  <2>2. SubSeq(blocks, n + 1, n) = <<>>
    BY <1>2, <1>3
  <2>. QED BY <1>5, <1>6, <2>1, <2>2
<1>8. /\ crewInit' = original[r] /\ original' = [original EXCEPT ![r] = NotPatched]
      /\ blocks' = rest
  BY <1>7 DEF Exit
<1>9. crewInit' = rest
  BY <1>2, <1>3, <1>5, <1>8
<1>10. \A i \in 1..Len(rest) : SubSeq(rest, 1, i - 1) = SubSeq(blocks, 1, i - 1)
  <2>. SUFFICES ASSUME NEW i \in 1..Len(rest)
                PROVE  SubSeq(rest, 1, i - 1) = SubSeq(blocks, 1, i - 1)
    OBVIOUS
  <2>1. i \in 1..(n - 1) /\ i - 1 \in 0..(n - 1)
    BY <1>3, <1>6
  <2>2. SubSeq(rest, 1, i - 1) = [k \in 1..(i - 1) |-> rest[k]]
    BY <1>6, <2>1
  <2>3. SubSeq(blocks, 1, i - 1) = [k \in 1..(i - 1) |-> blocks[k]]
    BY <1>2, <1>3, <2>1
  <2>4. \A k \in 1..(i - 1) : rest[k] = blocks[k]
    BY <1>3, <1>6, <2>1
  <2>. QED BY <2>2, <2>3, <2>4
<1>11. \A i \in 1..Len(rest) : original'[rest[i]] = SubSeq(rest, 1, i - 1)
  <2>. SUFFICES ASSUME NEW i \in 1..Len(rest) PROVE original'[rest[i]] = SubSeq(blocks, 1, i - 1)
    BY <1>10
  <2>1. i \in 1..n /\ i # n /\ rest[i] = blocks[i] /\ blocks[i] \in Tracers
    BY <1>2, <1>3, <1>6
  <2>2. blocks[i] # r
    BY <1>2, <1>3, <2>1
  <2>. QED BY <1>2, <1>8, <2>1, <2>2
<1>12. \A i, j \in 1..Len(rest) : rest[i] = rest[j] => i = j
  BY <1>2, <1>3, <1>6
<1>13. original' = [q \in Tracers |-> original'[q]] /\ nested' \in BOOLEAN
  BY <1>1, <1>2, <1>8
<1>. QED BY <1>6, <1>8, <1>9, <1>11, <1>12, <1>13 DEF Nesting

\* Blocks that end from the inside out, of any number of tracers and with any calls of
\* start and stop between: inside them the open blocks are wrapped around the constructors
\* in their order, and outside CrewAI is as it was.
THEOREM BlocksRestore == Spec => []NestedBlocksRestore
<1>1. Init => Nesting
  BY DEF Init, Nesting, Unwrapped
<1>2. Nesting /\ [Next]_vars => Nesting'
  <2>. SUFFICES ASSUME Nesting, [Next]_vars PROVE Nesting'
    OBVIOUS
  <2>1. CASE UNCHANGED patches
    BY <2>1 DEF patches, Nesting
  <2>2. ASSUME NEW r \in Tracers, Enter(r) \/ Exit(r) PROVE Nesting'
    BY <2>2, EnterNests, ExitNests
  <2>3. UNCHANGED vars \/ BuildCrew => UNCHANGED patches
    BY DEF vars, BuildCrew
  <2>4. ASSUME NEW r \in Tracers, StartCall(r) \/ StopCall(r) \/ WireCrew(r) \/ Callback(r)
        PROVE  UNCHANGED patches
    BY <2>4 DEF StartCall, StopCall, WireCrew, Callback
  <2>. QED BY <2>1, <2>2, <2>3, <2>4 DEF Next
<1>3. Nesting => NestedBlocksRestore
  BY DEF Nesting, NestedBlocksRestore
<1>. QED BY <1>1, <1>2, <1>3, PTL DEF Spec

-----------------------------------------------------------------------------
(* CrewTracer: the first file of a tracer.                                 *)

CrewTypes ==
    /\ started \in [Tracers -> BOOLEAN]
    /\ ledger = [r \in Tracers |-> ledger[r]]
    /\ rows = [r \in Tracers |-> rows[r]]
    /\ files = [r \in Tracers |-> files[r]]
    /\ stops \in [Tracers -> Nat]

\* The session of r as its ledger sees it.
Traced(r) == OnDatabase(r, ledger[r])

Intact(lines) == PythonVerify(lines, NoPin, FALSE).status = "INTACT"

\* Until r stops for the first time its database holds nothing or the one session its
\* ledger records; then it keeps the file until it stops again.
FirstOf(r) ==
    /\ stops[r] = 0 => IF started[r] THEN Recording(Traced(r), 0) ELSE rows[r] = <<>>
    /\ stops[r] = 1 => Intact(files[r])

CrewFiles == CrewTypes /\ \A r \in Tracers : FirstOf(r)

\* start finds the session of its ledger, or opens the first one.
LEMMA StartedRecords ==
    ASSUME CrewFiles, NEW r \in Tracers, stops[r] = 0
    PROVE  Recording(StartedLedger(r), 0)
<1>1. CASE started[r]
  BY <1>1 DEF CrewFiles, FirstOf, StartedLedger, Traced
<1>2. CASE ~started[r]
  <2>1. rows[r] = <<>>
    BY <1>2 DEF CrewFiles, FirstOf
  <2>. PICK k : k = OnDatabase(r, NewLedger(r))
    OBVIOUS
  <2>2. IsLedger(k) /\ k.rows = <<>> /\ Len(k.rows) = 0
    BY <2>1 DEF OnDatabase, NewLedger, IsLedger, IsSeq
  <2>3. \A i \in DOMAIN k.rows : k.rows[i].session # r
    BY <2>2
  <2>4. ~Has([framework |-> "crewai"], "pubkey")
    BY DEF Has
  <2>5. StartedLedger(r) = Opened(k, r, [framework |-> "crewai"])
    BY <1>2 DEF StartedLedger
  <2>. QED BY <2>2, <2>3, <2>4, <2>5, OpenedRecords
<1>. QED BY <1>1, <1>2

\* What r keeps of a ledger is what it finds again.
LEMMA KeptIsTraced ==
    ASSUME CrewTypes, NEW r \in Tracers, NEW l, Keep(r, l)
    PROVE  /\ IsLedger(l) => Traced(r)' = l
           /\ ledger' = [q \in Tracers |-> ledger'[q]] /\ rows' = [q \in Tracers |-> rows'[q]]
           /\ \A q \in Tracers \ {r} : ledger'[q] = ledger[q] /\ rows'[q] = rows[q]
<1>1. /\ ledger'[r] = [l EXCEPT !.rows = <<>>] /\ rows'[r] = l.rows
      /\ ledger' = [q \in Tracers |-> ledger'[q]] /\ rows' = [q \in Tracers |-> rows'[q]]
      /\ \A q \in Tracers \ {r} : ledger'[q] = ledger[q] /\ rows'[q] = rows[q]
  BY DEF CrewTypes, Keep
<1>2. IsLedger(l) => [[l EXCEPT !.rows = <<>>] EXCEPT !.rows = l.rows] = l
  BY DEF IsLedger
<1>. QED BY <1>1, <1>2 DEF Traced, OnDatabase

\* A tracer that another one's call leaves alone.
LEMMA OtherTracer ==
    ASSUME NEW r, FirstOf(r), ledger'[r] = ledger[r], rows'[r] = rows[r], files'[r] = files[r],
           started'[r] = started[r], stops'[r] = stops[r]
    PROVE  FirstOf(r)'
BY DEF FirstOf, Traced, OnDatabase, Recording, IsLedger, IsSession, Intact

\* start, or a callback: the tracer keeps the ledger it started or found, with an event
\* more if one was recorded.
LEMMA KeepFirst ==
    ASSUME CrewFiles, NEW r \in Tracers, NEW l, Keep(r, l),
           stops[r] = 0 => Recording(l, 0),
           started' = [started EXCEPT ![r] = TRUE], UNCHANGED <<files, stops>>
    PROVE  CrewFiles'
<1>1. CrewTypes
  BY DEF CrewFiles
<1>2. /\ IsLedger(l) => Traced(r)' = l
      /\ ledger' = [q \in Tracers |-> ledger'[q]] /\ rows' = [q \in Tracers |-> rows'[q]]
      /\ \A q \in Tracers \ {r} : ledger'[q] = ledger[q] /\ rows'[q] = rows[q]
  BY <1>1, KeptIsTraced
<1>3. CrewTypes'
  BY <1>1, <1>2 DEF CrewTypes
<1>4. \A q \in Tracers \ {r} : FirstOf(q)'
  <2>1. \A q \in Tracers \ {r} : started'[q] = started[q]
    BY <1>1 DEF CrewTypes
  <2>. QED BY <1>2, <2>1, OtherTracer DEF CrewFiles
<1>5. FirstOf(r)'
  <2>1. started'[r]
    BY <1>1 DEF CrewTypes
  <2>2. stops[r] = 0 => Recording(Traced(r)', 0)
    BY <1>2 DEF Recording
  <2>3. stops[r] = 1 => Intact(files[r])
    BY DEF CrewFiles, FirstOf
  <2>4. stops'[r] = 1 => Intact(files'[r])
    BY <2>3
  <2>5. stops'[r] = 0 => Recording(Traced(r), 0)'
    BY <2>2 DEF Recording, IsLedger, IsSession
  <2>. QED BY <2>1, <2>4, <2>5 DEF FirstOf, Intact
<1>. QED BY <1>3, <1>4, <1>5 DEF CrewFiles

LEMMA StartFirst == ASSUME CrewFiles, NEW r \in Tracers, Start(r) PROVE CrewFiles'
<1>. PICK l : l = StartedLedger(r)
  OBVIOUS
<1>1. stops[r] = 0 => Recording(l, 0)
  BY StartedRecords
<1>. QED BY <1>1, KeepFirst DEF Start

LEMMA CallbackFirst == ASSUME CrewFiles, NEW r \in Tracers, Callback(r) PROVE CrewFiles'
<1>. PICK l : l = Stored(StartedLedger(r), "ACTION", [id |-> events + 1])
  OBVIOUS
<1>1. stops[r] = 0 => Recording(l, 0)
  BY StartedRecords, StoredRecords
<1>. QED BY <1>1, KeepFirst DEF Callback

LEMMA StopFirst == ASSUME CrewFiles, NEW r \in Tracers, Stop(r) PROVE CrewFiles'
<1>1. CrewTypes
  BY DEF CrewFiles
<1>2. CASE ~started[r]
  BY <1>2, OtherTracer DEF Stop, sessions, CrewFiles, CrewTypes
<1>3. CASE started[r]
  <2>. PICK l : l = Stored(Traced(r), "SESSION_END", [status |-> "success"])
    OBVIOUS
  <2>1. /\ rows' = [rows EXCEPT ![r] = l.rows] /\ files' = [files EXCEPT ![r] = Exported(l)]
        /\ ledger' = [ledger EXCEPT ![r] = NoLedger]
        /\ started' = [started EXCEPT ![r] = FALSE]
        /\ stops' = [stops EXCEPT ![r] = stops[r] + 1]
    BY <1>3 DEF Stop, Traced
  <2>2. CrewTypes'
    <3>1. ledger' = [q \in Tracers |-> ledger'[q]] /\ rows' = [q \in Tracers |-> rows'[q]]
      BY <1>1, <2>1 DEF CrewTypes
    <3>2. files' = [q \in Tracers |-> files'[q]]
      BY <1>1, <2>1 DEF CrewTypes
    <3>3. started' \in [Tracers -> BOOLEAN] /\ stops' \in [Tracers -> Nat]
      BY <1>1, <2>1 DEF CrewTypes
    <3>. QED BY <3>1, <3>2, <3>3 DEF CrewTypes
  <2>3. \A q \in Tracers \ {r} : FirstOf(q)'
    <3>1. \A q \in Tracers \ {r} :
             /\ ledger'[q] = ledger[q] /\ rows'[q] = rows[q] /\ files'[q] = files[q]
             /\ started'[q] = started[q] /\ stops'[q] = stops[q]
      BY <1>1, <2>1 DEF CrewTypes
    <3>. QED BY <3>1, OtherTracer DEF CrewFiles
  <2>4. stops[r] \in Nat /\ stops'[r] = stops[r] + 1 /\ files'[r] = Exported(l)
    BY <1>1, <2>1 DEF CrewTypes
  <2>5. stops[r] = 0 => Intact(Exported(l))
    <3>1. stops[r] = 0 => Recording(Traced(r), 0)
      BY <1>3 DEF CrewFiles, FirstOf
    <3>2. stops[r] = 0 => Recording(l, 0) /\ Ended(l, 0)
      BY <3>1, StoredRecords, StoredEnds
    <3>. QED BY <3>2, EndedVerifies DEF Intact
  <2>6. stops'[r] = 1 => Intact(files'[r])
    BY <2>4, <2>5
  <2>7. stops'[r] # 0
    BY <2>4
  <2>8. FirstOf(r)'
    BY <2>6, <2>7 DEF FirstOf, Intact
  <2>. QED BY <2>2, <2>3, <2>8 DEF CrewFiles
<1>. QED BY <1>2, <1>3

LEMMA CrewFilesHold == Spec => []CrewFiles
<1>1. Init => CrewFiles
  BY DEF Init, CrewFiles, CrewTypes, FirstOf
<1>2. CrewFiles /\ [Next]_vars => CrewFiles'
  <2>. SUFFICES ASSUME CrewFiles, [Next]_vars PROVE CrewFiles'
    OBVIOUS
  <2>1. CASE UNCHANGED sessions
    BY <2>1, OtherTracer DEF sessions, CrewFiles, CrewTypes
  <2>2. UNCHANGED vars \/ BuildCrew => UNCHANGED sessions
    BY DEF vars, BuildCrew
  <2>3. ASSUME NEW r \in Tracers, StartCall(r) \/ Enter(r) PROVE CrewFiles'
    BY <2>3, StartFirst DEF StartCall, Enter
  <2>4. ASSUME NEW r \in Tracers, StopCall(r) \/ Exit(r) PROVE CrewFiles'
    BY <2>4, StopFirst DEF StopCall, Exit
  <2>5. ASSUME NEW r \in Tracers, WireCrew(r) PROVE UNCHANGED sessions
    BY <2>5 DEF WireCrew
  <2>6. ASSUME NEW r \in Tracers, Callback(r) PROVE CrewFiles'
    BY <2>6, CallbackFirst
  <2>. QED BY <2>1, <2>2, <2>3, <2>4, <2>5, <2>6 DEF Next
<1>. QED BY <1>1, <1>2, PTL DEF Spec

LEMMA CrewFileVerifies == Spec => []FirstFileVerifies
<1>1. CrewFiles => FirstFileVerifies
  BY DEF CrewFiles, FirstOf, FirstFileVerifies, Intact
<1>. QED BY <1>1, CrewFilesHold, PTL

-----------------------------------------------------------------------------
(* AutoGptPlugin: the databases and the files.                             *)

\* The databases hold whole sessions of their id; the running session's ledger knows its
\* own; a file that was not written over several sessions verifies.
PluginState ==
    /\ pluginStarted \in BOOLEAN
    /\ sessionDb = [s \in SessionIds |-> sessionDb[s]]
    /\ sessionFile = [s \in SessionIds |-> sessionFile[s]]
    /\ \A s \in SessionIds : IsLogOf(sessionDb[s], s)
    /\ \A s \in SessionIds : EmptyOrStarted(sessionDb[s])
    /\ pluginStarted => pluginId \in SessionIds /\ Tracking(Running) /\ Running.sid = pluginId
    /\ \A s \in SessionIds : VerifiesIfOne(sessionFile[s])

\* A step that leaves the session alone, or ends it without a trace.
LEMMA PluginKept ==
    ASSUME PluginState, UNCHANGED <<sessionDb, sessionFile>>,
           UNCHANGED <<pluginStarted, pluginLedger, pluginId>> \/ pluginStarted' = FALSE
    PROVE  PluginState'
<1>1. /\ sessionDb' = [s \in SessionIds |-> sessionDb'[s]]
      /\ sessionFile' = [s \in SessionIds |-> sessionFile'[s]]
      /\ \A s \in SessionIds : IsLogOf(sessionDb'[s], s)
      /\ \A s \in SessionIds : EmptyOrStarted(sessionDb'[s])
      /\ \A s \in SessionIds : VerifiesIfOne(sessionFile'[s])
  BY DEF PluginState
<1>2. pluginStarted' \in BOOLEAN
  BY DEF PluginState
<1>3. pluginStarted' => pluginId' \in SessionIds /\ Tracking(Running') /\ Running'.sid = pluginId'
  <2>1. CASE pluginStarted' = FALSE
    BY <2>1
  <2>2. CASE UNCHANGED <<pluginStarted, pluginLedger, pluginId>>
    <3>1. Running' = Running
      BY <2>2 DEF Running
    <3>. QED BY <2>2, <3>1 DEF PluginState
  <2>. QED BY <2>1, <2>2
<1>. QED BY <1>1, <1>2, <1>3 DEF PluginState

\* The plugin goes on with a ledger that tracks session s.
LEMMA RunsTracking ==
    ASSUME PluginState, NEW s \in SessionIds, NEW l, Tracking(l), l.sid = s, RunsWith(s, l)
    PROVE  PluginState' /\ Running' = l
<1>1. /\ pluginId' = s /\ pluginStarted' = TRUE /\ UNCHANGED sessionFile
      /\ pluginLedger' = [l EXCEPT !.rows = <<>>] /\ sessionDb' = [sessionDb EXCEPT ![s] = l.rows]
  BY DEF RunsWith
<1>2. /\ sessionDb' = [q \in SessionIds |-> sessionDb'[q]]
      /\ \A q \in SessionIds : sessionDb'[q] = IF q = s THEN l.rows ELSE sessionDb[q]
  BY <1>1 DEF PluginState
<1>3. [[l EXCEPT !.rows = <<>>] EXCEPT !.rows = l.rows] = l
  BY DEF Tracking, IsLedger
<1>4. Running' = l
  BY <1>1, <1>2, <1>3 DEF Running
<1>5. IsLogOf(l.rows, s) /\ HasStart(l.rows)
  BY DEF Tracking
<1>6. \A q \in SessionIds : IsLogOf(sessionDb'[q], q) /\ EmptyOrStarted(sessionDb'[q])
  BY <1>2, <1>5 DEF PluginState, EmptyOrStarted
<1>7. Tracking(Running')
  BY <1>4
<1>8. \A q \in SessionIds : VerifiesIfOne(sessionFile'[q])
  BY <1>1 DEF PluginState
<1>9. sessionFile' = [q \in SessionIds |-> sessionFile'[q]]
  BY <1>1 DEF PluginState
<1>10. Running'.sid = pluginId'
  BY <1>1, <1>4
<1>. QED BY <1>1, <1>2, <1>4, <1>6, <1>7, <1>8, <1>9, <1>10 DEF PluginState

\* start_session on the database of s.
LEMMA BegunTracks ==
    ASSUME PluginState, NEW s \in SessionIds
    PROVE  /\ Tracking(Begun(s)) /\ Begun(s).sid = s
           /\ \E e : /\ e.type = "SESSION_START"
                     /\ e.payload.body = Declared([framework |-> "autogpt"])
                     /\ Begun(s).rows = Append(sessionDb[s], e)
<1>. PICK k : k = [NewLedger(s) EXCEPT !.rows = sessionDb[s]]
  OBVIOUS
<1>1. k = [sid |-> s, next |-> 1, tip |-> Genesis, rows |-> sessionDb[s]]
  BY DEF NewLedger
<1>2. IsLedger(k) /\ k.rows = sessionDb[s] /\ IsLogOf(k.rows, s) /\ EmptyOrStarted(k.rows)
  BY <1>1 DEF PluginState, IsLedger, IsLogOf
<1>. PICK b : b = [framework |-> "autogpt"]
  OBVIOUS
<1>3. ~Has(b, "pubkey")
  BY DEF Has
<1>4. Begun(s) = Opened(k, s, b)
  BY DEF Begun
<1>. PICK l : l = Opened(k, s, b)
  OBVIOUS
<1>5. /\ Tracking(l) /\ l.sid = s
      /\ \E e : /\ e.type = "SESSION_START" /\ e.payload.body = Declared(b)
                /\ l.rows = Append(k.rows, e)
  <2>1. IsLedger(k) /\ IsLogOf(k.rows, s) /\ EmptyOrStarted(k.rows)
    BY <1>2
  <2>2. Tracking(Opened(k, s, b))
    BY ONLY <2>1, <1>3, OpenedTracks
  <2>3. Opened(k, s, b).sid = s
    BY ONLY <2>1, <1>3, OpenedTracks
  <2>4. \E e : /\ e.type = "SESSION_START" /\ e.payload.body = Declared(b)
               /\ Opened(k, s, b).rows = Append(k.rows, e)
    BY ONLY <2>1, <1>3, OpenedTracks
  <2>. QED BY <2>2, <2>3, <2>4
<1>. QED BY <1>2, <1>4, <1>5

\* A recorded event is the next of the running session, or the first of a new one.
RecordedAt(body, s, log, e) ==
    /\ s \in SessionIds /\ e.type = "ACTION" /\ e.payload.body = body
    /\ pluginId' = s /\ sessionDb' = [sessionDb EXCEPT ![s] = Append(log, e)]
    /\ \/ pluginStarted /\ pluginId = s /\ log = sessionDb[s]
       \/ \E d : /\ ~pluginStarted /\ d.type = "SESSION_START"
                 /\ d.payload.body = Declared([framework |-> "autogpt"])
                 /\ log = Append(sessionDb[s], d)

LEMMA RecordedTracks ==
    ASSUME PluginState, NEW body, Recorded(body)
    PROVE  /\ PluginState' /\ pluginStarted' = TRUE
           /\ \E s, log, e : RecordedAt(body, s, log, e)
<1>1. CASE pluginStarted
  <2>. PICK l : l = Stored(Running, "ACTION", body)
    OBVIOUS
  <2>1. pluginId \in SessionIds /\ Tracking(Running) /\ Running.sid = pluginId
    BY <1>1 DEF PluginState
  <2>2. RunsWith(pluginId, l)
    BY <1>1 DEF Recorded
  <2>3. /\ Tracking(l) /\ l.sid = pluginId
        /\ \E e : e.type = "ACTION" /\ e.payload.body = body /\ l.rows = Append(Running.rows, e)
    BY <2>1, StoredTracks
  <2>4. Running.rows = sessionDb[pluginId]
    <3>1. \E k : k = pluginLedger
      OBVIOUS
    <3>. QED BY <2>1 DEF Running, Tracking, IsLedger
  <2>5. PluginState'
    BY <2>1, <2>2, <2>3, RunsTracking
  <2>. QED BY <1>1, <2>1, <2>2, <2>3, <2>4, <2>5 DEF RunsWith, RecordedAt
<1>2. CASE ~pluginStarted
  <2>1. PICK s \in SessionIds : RunsWith(s, Stored(Begun(s), "ACTION", body))
    BY <1>2 DEF Recorded, FreshIds
  <2>. PICK l : l = Stored(Begun(s), "ACTION", body)
    OBVIOUS
  <2>2. PICK d : /\ d.type = "SESSION_START"
                 /\ d.payload.body = Declared([framework |-> "autogpt"])
                 /\ Begun(s).rows = Append(sessionDb[s], d)
    BY BegunTracks
  <2>3. /\ Tracking(l) /\ l.sid = s
        /\ \E e : e.type = "ACTION" /\ e.payload.body = body /\ l.rows = Append(Begun(s).rows, e)
    BY BegunTracks, StoredTracks
  <2>4. PluginState'
    BY <2>1, <2>3, RunsTracking
  <2>. QED BY <1>2, <2>1, <2>2, <2>3, <2>4 DEF RunsWith, RecordedAt
<1>. QED BY <1>1, <1>2

\* end_session leaves a session of the database with its end in it, exported or not.
LEMMA EndTracks ==
    ASSUME PluginState, EndSession
    PROVE  /\ PluginState'
           /\ \E e : /\ e.type = "SESSION_END"
                     /\ e.payload.body = [status |-> "success"]
                     /\ sessionDb' = [sessionDb EXCEPT ![pluginId] = Append(sessionDb[pluginId], e)]
<1>. PICK s : s = pluginId
  OBVIOUS
<1>. PICK body : body = [status |-> "success"]
  OBVIOUS
<1>. PICK l : l = Stored(Running, "SESSION_END", body)
  OBVIOUS
<1>1. s \in SessionIds /\ Tracking(Running) /\ Running.sid = s
  BY DEF PluginState, EndSession
<1>2. /\ sessionDb' = [sessionDb EXCEPT ![s] = l.rows]
      /\ sessionFile' = [sessionFile EXCEPT ![s] = Exported(l)] \/ UNCHANGED sessionFile
      /\ pluginStarted' = FALSE
  BY DEF EndSession, Forget
<1>3. /\ Tracking(l) /\ l.sid = s /\ EndsIfOne(l)
      /\ \E e : e.type = "SESSION_END" /\ e.payload.body = body /\ l.rows = Append(Running.rows, e)
  BY <1>1, StoredTracks
<1>4. Running.rows = sessionDb[s]
  BY <1>1 DEF Running, Tracking, IsLedger
<1>5. /\ sessionDb' = [q \in SessionIds |-> sessionDb'[q]]
      /\ \A q \in SessionIds : sessionDb'[q] = IF q = s THEN l.rows ELSE sessionDb[q]
  BY <1>1, <1>2 DEF PluginState
<1>6. IsLogOf(l.rows, s) /\ EmptyOrStarted(l.rows)
  BY <1>3 DEF Tracking, EmptyOrStarted
<1>7. \A q \in SessionIds : IsLogOf(sessionDb'[q], q) /\ EmptyOrStarted(sessionDb'[q])
  BY <1>5, <1>6 DEF PluginState
<1>8. VerifiesIfOne(Exported(l))
  BY <1>3, TrackedVerifies
<1>9. /\ sessionFile' = [q \in SessionIds |-> sessionFile'[q]]
      /\ \A q \in SessionIds : VerifiesIfOne(sessionFile'[q])
  BY <1>1, <1>2, <1>8 DEF PluginState
<1>10. PluginState'
  BY <1>2, <1>5, <1>7, <1>9 DEF PluginState
<1>. QED BY <1>2, <1>3, <1>4, <1>10

\* A session that does not start.
LEMMA RaisesKeeps ==
    ASSUME PluginState, NEW s, StartRaises(s)
    PROVE  PluginState' /\ pluginStarted' = FALSE /\ UNCHANGED sessionDb
<1>1. UNCHANGED <<sessionDb, sessionFile>> /\ pluginStarted' = FALSE
  BY DEF StartRaises, PluginState
<1>. QED BY <1>1, PluginKept

LEMMA PluginStateStep == PluginState /\ [PluginNext]_pluginVars => PluginState'
<1>. SUFFICES ASSUME PluginState, [PluginNext]_pluginVars PROVE PluginState'
  OBVIOUS
<1>1. CASE UNCHANGED pluginVars
  BY <1>1, PluginKept DEF pluginVars
<1>2. ASSUME NEW s \in SessionIds, StartSession(s) PROVE PluginState'
  BY <1>2, BegunTracks, RunsTracking DEF StartSession
<1>3. ASSUME NEW s \in SessionIds, StartSessionFails(s) PROVE PluginState'
  BY <1>3, RaisesKeeps DEF StartSessionFails
<1>4. ASSUME NEW c \in Commands, PreCommand(c) PROVE PluginState'
  BY <1>4, RecordedTracks, RaisesKeeps DEF PreCommand
<1>5. ASSUME NEW c \in Commands, PostCommand(c) PROVE PluginState'
  BY <1>5, RecordedTracks DEF PostCommand
<1>6. ASSUME NEW c \in Commands, PostCommandFails(c) PROVE PluginState'
  BY <1>6, RaisesKeeps, PluginKept DEF PostCommandFails
<1>7. CASE ModelHook
  BY <1>7, RecordedTracks, RaisesKeeps DEF ModelHook
<1>8. CASE EndSession
  BY <1>8, EndTracks
<1>9. CASE PluginCrash
  BY <1>9, PluginKept DEF PluginCrash
<1>. QED BY <1>1, <1>2, <1>3, <1>4, <1>5, <1>6, <1>7, <1>8, <1>9 DEF PluginNext

LEMMA PluginStateInit == PluginInit => PluginState
<1>. SUFFICES ASSUME PluginInit PROVE PluginState
  OBVIOUS
<1>. PICK none : none = <<>>
  OBVIOUS
<1>1. /\ pluginStarted = FALSE /\ sessionDb = [s \in SessionIds |-> none]
      /\ sessionFile = [s \in SessionIds |-> none]
  BY DEF PluginInit
<1>2. \A s : IsLogOf(none, s) /\ EmptyOrStarted(none) /\ VerifiesIfOne(none)
  BY DEF IsLogOf, IsSeq, EmptyOrStarted, VerifiesIfOne
<1>. QED BY <1>1, <1>2 DEF PluginState

LEMMA PluginStateHolds == PluginSpec => []PluginState
BY PluginStateInit, PluginStateStep, PTL DEF PluginSpec

LEMMA PluginFileVerifies == PluginSpec => []PluginFilesVerify
<1>1. PluginState => PluginFilesVerify
  BY DEF PluginState, VerifiesIfOne, PluginFilesVerify
<1>. QED BY <1>1, PluginStateHolds, PTL

-----------------------------------------------------------------------------
(* AutoGptPlugin: the call a result is matched with.                       *)

\* The last tool event of the log's session, if there is one, says body.
LastToolIs(log, body) ==
    \A i \in ToolEvents(log) :
       (\A j \in ToolEvents(log) : j <= i) => log[i].payload.body = body

\* The tool event before i, if there is one, is the call i answers.
Answers(log, i) ==
    \A j \in ToolEvents(log) :
       /\ j < i
       /\ \A k \in ToolEvents(log) : k < i => k <= j
       => log[j].payload.body = [tool |-> "call", command |-> log[i].payload.body.command]

IsMatch(body) == body.tool = "result" /\ body.match

AllMatched(log) ==
    \A i \in ToolEvents(log) : IsMatch(log[i].payload.body) => Answers(log, i)

CallOf(c) == [tool |-> "call", command |-> c]

\* While a session runs and a command is pending, nothing was recorded of a tool since
\* the call of that command.
Matching ==
    /\ \A s \in SessionIds : AllMatched(sessionDb[s])
    /\ pluginStarted /\ pending # None => LastToolIs(sessionDb[pluginId], CallOf(pending))

\* An event of that body can be recorded after log.
MayMatch(log, body) == IsMatch(body) => LastToolIs(log, CallOf(body.command))

\* What a new event does to the tool events of the running session.
LEMMA ToolAppended ==
    ASSUME NEW log, IsSeq(log), NEW e
    PROVE  /\ e.type = "SESSION_START" /\ ~Has(e.payload.body, "tool") =>
                ToolEvents(Append(log, e)) = {}
           /\ e.type # "SESSION_START" /\ ~Has(e.payload.body, "tool") =>
                ToolEvents(Append(log, e)) = ToolEvents(log)
           /\ e.type # "SESSION_START" /\ Has(e.payload.body, "tool") =>
                ToolEvents(Append(log, e)) = ToolEvents(log) \cup {Len(log) + 1}
           /\ ToolEvents(log) \subseteq 1..Len(log)
           /\ \A i \in ToolEvents(log) : Append(log, e)[i] = log[i]
           /\ Append(log, e)[Len(log) + 1] = e /\ Len(log) \in Nat
<1>. PICK r : r = Append(log, e)
  OBVIOUS
<1>. PICK n : n = Len(log)
  OBVIOUS
<1>1. /\ n \in Nat /\ DOMAIN log = 1..n /\ DOMAIN r = 1..(n + 1) /\ Len(r) = n + 1
      /\ \A i \in 1..n : r[i] = log[i]
      /\ r[n + 1] = e
  BY Appending, SeqDomain
<1>2. ToolEvents(log) \subseteq 1..n
  BY <1>1 DEF ToolEvents
<1>3. ASSUME NEW i \in 1..n
      PROVE  i \in ToolEvents(r) <=> i \in ToolEvents(log) /\ e.type # "SESSION_START"
  <2>1. i \in DOMAIN r /\ i \in DOMAIN log /\ r[i] = log[i]
    BY <1>1
  <2>2. (\A j \in i..(n + 1) : r[j].type # "SESSION_START")
          <=> (\A j \in i..n : log[j].type # "SESSION_START") /\ e.type # "SESSION_START"
    <3>1. \A j : j \in i..(n + 1) <=> j \in i..n \/ j = n + 1
      BY <1>1
    <3>2. \A j \in i..n : r[j] = log[j]
      BY <1>1
    <3>. QED BY <1>1, <3>1, <3>2
  <2>. QED BY <1>1, <2>1, <2>2 DEF ToolEvents
<1>4. n + 1 \in ToolEvents(r) <=> Has(e.payload.body, "tool") /\ e.type # "SESSION_START"
  <2>1. \A j : j \in (n + 1)..(n + 1) <=> j = n + 1
    BY <1>1
  <2>. QED BY <1>1, <2>1 DEF ToolEvents
<1>5. ToolEvents(r) \subseteq 1..(n + 1)
  BY <1>1 DEF ToolEvents
<1>6. \A i \in 1..(n + 1) : i \in 1..n \/ i = n + 1
  BY <1>1
<1>7. e.type = "SESSION_START" /\ ~Has(e.payload.body, "tool") => ToolEvents(r) = {}
  BY <1>3, <1>4, <1>5, <1>6
<1>8. e.type # "SESSION_START" /\ ~Has(e.payload.body, "tool") => ToolEvents(r) = ToolEvents(log)
  BY <1>2, <1>3, <1>4, <1>5, <1>6
<1>9. e.type # "SESSION_START" /\ Has(e.payload.body, "tool") =>
        ToolEvents(r) = ToolEvents(log) \cup {n + 1}
  BY <1>2, <1>3, <1>4, <1>5, <1>6
<1>10. \A i \in ToolEvents(log) : r[i] = log[i]
  BY <1>1, <1>2
<1>. QED BY <1>1, <1>2, <1>7, <1>8, <1>9, <1>10

\* An event that is about no tool.
LEMMA OtherEvent ==
    ASSUME NEW log, IsSeq(log), NEW e, ~Has(e.payload.body, "tool"), AllMatched(log)
    PROVE  /\ AllMatched(Append(log, e))
           /\ e.type = "SESSION_START" => ToolEvents(Append(log, e)) = {}
           /\ \A body : LastToolIs(log, body) => LastToolIs(Append(log, e), body)
<1>. PICK r : r = Append(log, e)
  OBVIOUS
<1>1. /\ ToolEvents(r) = {} \/ ToolEvents(r) = ToolEvents(log)
      /\ e.type = "SESSION_START" => ToolEvents(r) = {}
      /\ \A i \in ToolEvents(log) : r[i] = log[i]
  BY ToolAppended
<1>. QED BY <1>1 DEF AllMatched, Answers, LastToolIs

\* A tool event that, if it claims to be the result of the last call, is.
LEMMA ToolEvent ==
    ASSUME NEW log, IsSeq(log), NEW e, e.type = "ACTION", Has(e.payload.body, "tool"),
           AllMatched(log),
           MayMatch(log, e.payload.body)
    PROVE  AllMatched(Append(log, e)) /\ LastToolIs(Append(log, e), e.payload.body)
<1>. PICK r : r = Append(log, e)
  OBVIOUS
<1>. PICK n : n = Len(log)
  OBVIOUS
<1>1. /\ ToolEvents(r) = ToolEvents(log) \cup {n + 1} /\ n \in Nat
      /\ ToolEvents(log) \subseteq 1..n
      /\ \A i \in ToolEvents(log) : r[i] = log[i]
      /\ r[n + 1] = e
  BY ToolAppended
<1>2. \A i \in ToolEvents(log) : i \in Nat /\ i < n + 1
  BY <1>1
<1>3. LastToolIs(r, e.payload.body)
  <2>. SUFFICES ASSUME NEW i \in ToolEvents(r), \A j \in ToolEvents(r) : j <= i
                PROVE  r[i].payload.body = e.payload.body
    BY DEF LastToolIs
  <2>1. n + 1 <= i
    BY <1>1
  <2>2. i = n + 1
    BY <1>1, <1>2, <2>1
  <2>. QED BY <1>1, <2>2
<1>4. ASSUME NEW i \in ToolEvents(log), IsMatch(log[i].payload.body) PROVE Answers(r, i)
  <2>. SUFFICES ASSUME NEW j \in ToolEvents(r), j < i,
                       \A k \in ToolEvents(r) : k < i => k <= j
                PROVE  r[j].payload.body = CallOf(r[i].payload.body.command)
    BY DEF Answers, CallOf
  <2>1. j \in ToolEvents(log) /\ r[j] = log[j] /\ r[i] = log[i]
    BY <1>1, <1>2
  <2>2. \A k \in ToolEvents(log) : k < i => k <= j
    BY <1>1
  <2>3. Answers(log, i)
    BY <1>4 DEF AllMatched
  <2>. QED BY <2>1, <2>2, <2>3 DEF Answers, CallOf
<1>5. ASSUME IsMatch(e.payload.body) PROVE Answers(r, n + 1)
  <2>. SUFFICES ASSUME NEW j \in ToolEvents(r), j < n + 1,
                       \A k \in ToolEvents(r) : k < n + 1 => k <= j
                PROVE  r[j].payload.body = CallOf(r[n + 1].payload.body.command)
    BY DEF Answers, CallOf
  <2>1. j \in ToolEvents(log) /\ r[j] = log[j]
    BY <1>1
  <2>2. \A k \in ToolEvents(log) : k <= j
    BY <1>1, <1>2
  <2>3. LastToolIs(log, CallOf(e.payload.body.command))
    BY <1>5 DEF MayMatch
  <2>. QED BY <1>1, <2>1, <2>2, <2>3 DEF LastToolIs
<1>6. AllMatched(r)
  <2>. SUFFICES ASSUME NEW i \in ToolEvents(r), IsMatch(r[i].payload.body) PROVE Answers(r, i)
    BY DEF AllMatched
  <2>1. i \in ToolEvents(log) \/ i = n + 1
    BY <1>1
  <2>2. i \in ToolEvents(log) => r[i] = log[i]
    BY <1>1
  <2>. QED BY <1>1, <1>4, <1>5, <2>1, <2>2
<1>. QED BY <1>3, <1>6

\* Where an event is recorded, the pending command is the last one, and its results match.
RecordedAfter(body, s, log, e) ==
    /\ IsSeq(log) /\ AllMatched(log)
    /\ pending # None => LastToolIs(log, CallOf(pending))
    /\ s \in SessionIds /\ e.type = "ACTION" /\ e.payload.body = body
    /\ pluginId' = s /\ sessionDb'[s] = Append(log, e)
    /\ \A q \in SessionIds \ {s} : sessionDb'[q] = sessionDb[q]

LEMMA RecordedAfterCall ==
    ASSUME PluginState, Matching, NEW body, Recorded(body)
    PROVE  \E s, log, e : RecordedAfter(body, s, log, e)
<1>1. PICK s, log, e : RecordedAt(body, s, log, e)
  BY RecordedTracks
<1>2. /\ s \in SessionIds /\ sessionDb' = [sessionDb EXCEPT ![s] = Append(log, e)]
      /\ \/ pluginStarted /\ pluginId = s /\ log = sessionDb[s]
         \/ \E d : /\ ~pluginStarted /\ d.type = "SESSION_START"
                   /\ d.payload.body = Declared([framework |-> "autogpt"])
                   /\ log = Append(sessionDb[s], d)
  BY <1>1 DEF RecordedAt
<1>3. IsSeq(sessionDb[s]) /\ AllMatched(sessionDb[s])
  BY <1>2 DEF PluginState, IsLogOf, Matching
<1>4. /\ IsSeq(log) /\ AllMatched(log)
      /\ pending # None => LastToolIs(log, CallOf(pending))
  <2>1. CASE pluginStarted /\ pluginId = s /\ log = sessionDb[s]
    BY <1>3, <2>1 DEF Matching
  <2>2. ASSUME NEW d, d.type = "SESSION_START",
               d.payload.body = Declared([framework |-> "autogpt"]), log = Append(sessionDb[s], d)
        PROVE  /\ IsSeq(log) /\ AllMatched(log)
               /\ pending # None => LastToolIs(log, CallOf(pending))
    <3>1. ~Has(d.payload.body, "tool")
      BY <2>2 DEF Has, Declared
    <3>2. AllMatched(log) /\ ToolEvents(log) = {}
      BY <1>3, <2>2, <3>1, OtherEvent
    <3>3. IsSeq(log)
      BY <1>3, <2>2, Appending
    <3>. QED BY <3>2, <3>3 DEF LastToolIs
  <2>. QED BY <1>2, <2>1, <2>2
<1>5. sessionDb'[s] = Append(log, e) /\ \A q \in SessionIds \ {s} : sessionDb'[q] = sessionDb[q]
  BY <1>2 DEF PluginState
<1>. QED BY <1>1, <1>4, <1>5 DEF RecordedAt, RecordedAfter

\* An event about no tool, in the running session or in a new one.
LEMMA OtherRecorded ==
    ASSUME PluginState, Matching, NEW body, ~Has(body, "tool"), Recorded(body), UNCHANGED pending
    PROVE  Matching'
<1>1. PICK s, log, e : RecordedAfter(body, s, log, e)
  BY RecordedAfterCall
<1>2. /\ AllMatched(Append(log, e))
      /\ pending # None => LastToolIs(Append(log, e), CallOf(pending))
  BY <1>1, OtherEvent DEF RecordedAfter
<1>. QED BY <1>1, <1>2 DEF RecordedAfter, Matching

\* The call of a command that becomes the pending one, or a result after which none is.
LEMMA ToolRecorded ==
    ASSUME PluginState, Matching, NEW body, Has(body, "tool"), Recorded(body),
           IsMatch(body) => pending # None /\ body.command = pending,
           pending' # None => body = CallOf(pending')
    PROVE  Matching'
<1>1. PICK s, log, e : RecordedAfter(body, s, log, e)
  BY RecordedAfterCall
<1>2. MayMatch(log, e.payload.body)
  BY <1>1 DEF RecordedAfter, MayMatch
<1>3. AllMatched(Append(log, e)) /\ LastToolIs(Append(log, e), body)
  BY <1>1, <1>2, ToolEvent DEF RecordedAfter
<1>. QED BY <1>1, <1>3 DEF RecordedAfter, Matching

LEMMA MatchingStep == PluginState /\ Matching /\ [PluginNext]_pluginVars => Matching'
<1>. SUFFICES ASSUME PluginState, Matching, [PluginNext]_pluginVars PROVE Matching'
  OBVIOUS
<1>0. ASSUME UNCHANGED sessionDb, pluginStarted' = FALSE PROVE Matching'
  BY <1>0 DEF Matching
<1>R. ASSUME NEW s, StartRaises(s) PROVE Matching'
  BY <1>0, <1>R, RaisesKeeps
<1>1. CASE UNCHANGED pluginVars
  BY <1>1 DEF pluginVars, Matching
<1>2. ASSUME NEW s \in SessionIds, StartSession(s) PROVE Matching'
  <2>1. UNCHANGED pending /\ RunsWith(s, Begun(s))
    BY <1>2 DEF StartSession
  <2>2. /\ pluginId' = s /\ sessionDb'[s] = Begun(s).rows
        /\ \A q \in SessionIds \ {s} : sessionDb'[q] = sessionDb[q]
    BY <2>1 DEF RunsWith, PluginState
  <2>3. PICK d : /\ d.type = "SESSION_START"
                 /\ d.payload.body = Declared([framework |-> "autogpt"])
                 /\ Begun(s).rows = Append(sessionDb[s], d)
    BY BegunTracks
  <2>4. ~Has(d.payload.body, "tool")
    BY <2>3 DEF Has, Declared
  <2>5. IsSeq(sessionDb[s]) /\ AllMatched(sessionDb[s])
    BY DEF PluginState, IsLogOf, Matching
  <2>6. AllMatched(sessionDb'[s]) /\ ToolEvents(sessionDb'[s]) = {}
    BY <2>2, <2>3, <2>4, <2>5, OtherEvent
  <2>. QED BY <2>2, <2>6 DEF Matching, LastToolIs
<1>3. ASSUME NEW s \in SessionIds, StartSessionFails(s) PROVE Matching'
  BY <1>3, <1>R DEF StartSessionFails
<1>4. ASSUME NEW c \in Commands, PreCommand(c) PROVE Matching'
  <2>1. CASE Recorded(CallOf(c))
    <3>1. pending' = c
      BY <1>4 DEF PreCommand
    <3>. PICK body : body = CallOf(c)
      OBVIOUS
    <3>2. Has(body, "tool") /\ ~IsMatch(body)
      BY DEF Has, IsMatch, CallOf
    <3>. QED BY <2>1, <3>1, <3>2, ToolRecorded
  <2>. QED BY <1>4, <1>R, <2>1 DEF PreCommand, CallOf
<1>5. ASSUME NEW c \in Commands, PostCommand(c) PROVE Matching'
  <2>. PICK body : body = [tool |-> "result", command |-> c, match |-> pending = c]
    OBVIOUS
  <2>1. Recorded(body) /\ pending' = None
    BY <1>5 DEF PostCommand
  <2>2. Has(body, "tool") /\ body.command = c /\ (body.match => pending = c)
    BY DEF Has
  <2>3. c # None
    BY PluginAssumption
  <2>4. IsMatch(body) => pending # None /\ body.command = pending
    BY <2>2, <2>3 DEF IsMatch
  <2>. QED BY <2>1, <2>2, <2>4, ToolRecorded
<1>6. ASSUME NEW c \in Commands, PostCommandFails(c) PROVE Matching'
  BY <1>6, <1>R DEF PostCommandFails, Matching
<1>7. CASE ModelHook
  <2>. PICK body : body = [model |-> "call or response"]
    OBVIOUS
  <2>1. ~Has(body, "tool")
    BY DEF Has
  <2>. QED BY <1>7, <1>R, <2>1, OtherRecorded DEF ModelHook
<1>8. CASE EndSession
  <2>. PICK s : s = pluginId
    OBVIOUS
  <2>1. PICK e : /\ e.payload.body = [status |-> "success"]
                 /\ sessionDb' = [sessionDb EXCEPT ![s] = Append(sessionDb[s], e)]
    BY <1>8, EndTracks
  <2>2. pluginStarted' = FALSE /\ s \in SessionIds
    BY <1>8 DEF EndSession, Forget, PluginState
  <2>3. ~Has(e.payload.body, "tool")
    BY <2>1 DEF Has
  <2>4. IsSeq(sessionDb[s]) /\ AllMatched(sessionDb[s])
    BY <2>2 DEF PluginState, IsLogOf, Matching
  <2>5. AllMatched(Append(sessionDb[s], e))
    BY <2>3, <2>4, OtherEvent
  <2>6. \A q \in SessionIds : sessionDb'[q] = IF q = s THEN Append(sessionDb[s], e)
                                              ELSE sessionDb[q]
    BY <2>1 DEF PluginState
  <2>. QED BY <2>2, <2>5, <2>6 DEF Matching
<1>9. CASE PluginCrash
  BY <1>0, <1>9 DEF PluginCrash
<1>. QED BY <1>1, <1>2, <1>3, <1>4, <1>5, <1>6, <1>7, <1>8, <1>9 DEF PluginNext

LEMMA MatchedCalls == PluginState /\ Matching => MatchedResultHasCall
<1>. SUFFICES ASSUME PluginState, Matching, NEW s \in SessionIds,
                     NEW i \in ToolEvents(sessionDb[s]),
                     sessionDb[s][i].payload.body.tool = "result",
                     sessionDb[s][i].payload.body.match,
                     {j \in ToolEvents(sessionDb[s]) : j < i} # {}
              PROVE  LET earlier == {j \in ToolEvents(sessionDb[s]) : j < i}
                     IN  sessionDb[s][CHOOSE j \in earlier : \A k \in earlier : k <= j].payload.body
                           = [tool |-> "call", command |-> sessionDb[s][i].payload.body.command]
  BY DEF MatchedResultHasCall
<1>. PICK log : log = sessionDb[s]
  OBVIOUS
<1>. PICK earlier : earlier = {j \in ToolEvents(log) : j < i}
  OBVIOUS
<1>1. Answers(log, i)
  BY DEF Matching, AllMatched, IsMatch
<1>2. earlier \in SUBSET (1..Len(log)) /\ Len(log) \in Nat
  <2>1. IsSeq(log)
    BY DEF PluginState, IsLogOf
  <2>. QED BY <2>1, SeqDomain DEF ToolEvents
<1>3. \E j \in earlier : \A k \in earlier : k <= j
  BY <1>2, GreatestElement
<1>. PICK j : j = CHOOSE m \in earlier : \A k \in earlier : k <= m
  OBVIOUS
<1>4. j \in earlier /\ \A k \in earlier : k <= j
  BY <1>3
<1>5. log[j].payload.body = [tool |-> "call", command |-> log[i].payload.body.command]
  BY <1>1, <1>4 DEF Answers
<1>. QED BY <1>5

\* Whatever fails between the hooks, and however often AutoGPT is started again: a result
\* that is recorded as that of the pending command directly follows the call of that command
\* in its session, unless it is the session's first tool event.
THEOREM ResultsFollowCalls == PluginSpec => []MatchedResultHasCall
<1>1. PluginInit => Matching
  BY DEF PluginInit, Matching, AllMatched, ToolEvents
<1>. QED BY <1>1, PluginStateHolds, MatchingStep, MatchedCalls, PTL DEF PluginSpec

-----------------------------------------------------------------------------
(* SpanExporter: ledger objects and the databases of the traces.           *)

\* A ledger object remembers no rows.
IsHandle(o) == o = [sid |-> o.sid, next |-> o.next, tip |-> o.tip, rows |-> <<>>]

\* The ledger that object o is on database log.
OnLog(o, log) == [o EXCEPT !.rows = log]

StartsFirst(log) == log = <<>> \/ log[1].type = "SESSION_START"

IsTraceLog(log, t) == IsLogOf(log, t) /\ EmptyOrStarted(log) /\ StartsFirst(log)

IsObjectOf(n, t) == n \in 1..Len(objects) /\ objects[n].sid = t

Ledger(n) == OnLog(objects[n], traceDb[objects[n].sid])

\* Every object tracks the session of its trace; where there are two, each opened it.
Objects ==
    /\ IsSeq(objects)
    /\ \A n \in 1..Len(objects) :
          IsHandle(objects[n]) /\ objects[n].sid \in Traces /\ Tracking(Ledger(n))
    /\ \A m, n \in 1..Len(objects) :
          m # n /\ objects[m].sid = objects[n].sid => StartsTwice(traceDb[objects[n].sid])

Databases ==
    /\ traceDb = [t \in Traces |-> traceDb[t]]
    /\ \A t \in Traces : IsTraceLog(traceDb[t], t)

LEMMA HandleForms ==
    ASSUME NEW o, IsHandle(o), NEW log, IsSeq(log), NEW l, l = OnLog(o, log)
    PROVE  IsLedger(l) /\ l.sid = o.sid /\ l.next = o.next /\ l.tip = o.tip /\ l.rows = log
<1>1. l = [sid |-> o.sid, next |-> o.next, tip |-> o.tip, rows |-> log]
  BY DEF OnLog, IsHandle
<1>. QED BY <1>1 DEF IsLedger

LEMMA LedgerForms ==
    ASSUME NEW l, IsLedger(l), NEW o, o = [l EXCEPT !.rows = <<>>]
    PROVE  IsHandle(o) /\ o.sid = l.sid /\ OnLog(o, l.rows) = l
<1>1. o = [sid |-> l.sid, next |-> l.next, tip |-> l.tip, rows |-> <<>>]
  BY DEF IsLedger
<1>2. IsHandle(o) /\ o.sid = l.sid /\ o.next = l.next /\ o.tip = l.tip
  BY <1>1 DEF IsHandle
<1>. PICK log : log = l.rows
  OBVIOUS
<1>3. PICK k : k = OnLog(o, log)
  OBVIOUS
<1>4. IsSeq(log)
  BY DEF IsLedger
<1>5. IsLedger(k) /\ k.sid = o.sid /\ k.next = o.next /\ k.tip = o.tip /\ k.rows = log
  BY ONLY <1>2, <1>3, <1>4, HandleForms
<1>6. k = l
  BY <1>2, <1>5 DEF IsLedger
<1>. QED BY <1>2, <1>3, <1>6

\* An object over a database whose session was opened twice.
LEMMA TracksTwice ==
    ASSUME NEW o, IsHandle(o), NEW log, Tracking(OnLog(o, log)),
           NEW new, IsLogOf(new, o.sid), StartsTwice(new)
    PROVE  Tracking(OnLog(o, new)) /\ EndsIfOne(OnLog(o, new))
<1>. PICK k : k = OnLog(o, log)
  OBVIOUS
<1>. PICK l : l = OnLog(o, new)
  OBVIOUS
<1>1. k.next = o.next
  BY DEF OnLog, IsHandle
<1>2. o.next \in Nat
  BY <1>1 DEF Tracking
<1>3. IsLedger(l) /\ l.sid = o.sid /\ l.next = o.next /\ l.rows = new
  BY HandleForms DEF IsLogOf
<1>4. HasStart(new)
  BY DEF HasStart, StartsTwice
<1>. QED BY <1>2, <1>3, <1>4 DEF Tracking, EndsIfOne

\* The database of trace t gets the event e.
GrowsBy(t, e) ==
    /\ t \in Traces
    /\ traceDb' = [traceDb EXCEPT ![t] = Append(traceDb[t], e)]

LEMMA DatabaseGrows ==
    ASSUME Databases, NEW t, NEW e, GrowsBy(t, e), IsLogOf(Append(traceDb[t], e), t),
           e.type = "SESSION_START" \/ HasStart(traceDb[t])
    PROVE  /\ Databases' /\ traceDb'[t] = Append(traceDb[t], e)
           /\ \A u \in Traces \ {t} : traceDb'[u] = traceDb[u]
<1>1. t \in Traces /\ IsTraceLog(traceDb[t], t)
  BY DEF Databases, GrowsBy
<1>2. /\ traceDb'[t] = Append(traceDb[t], e)
      /\ \A u \in Traces \ {t} : traceDb'[u] = traceDb[u]
      /\ traceDb' = [u \in Traces |-> traceDb'[u]]
  BY <1>1 DEF Databases, GrowsBy
<1>. PICK log : log = traceDb[t]
  OBVIOUS
<1>. PICK new : new = Append(log, e)
  OBVIOUS
<1>3. /\ Len(log) \in Nat /\ DOMAIN log = 1..Len(log) /\ DOMAIN new = 1..(Len(log) + 1)
      /\ \A i \in 1..Len(log) : new[i] = log[i]
      /\ new[Len(log) + 1] = e
  <2>1. IsSeq(log)
    BY <1>1 DEF IsTraceLog, IsLogOf
  <2>. QED BY <2>1, Appending, SeqDomain
<1>4. EmptyOrStarted(new)
  <2>1. CASE e.type = "SESSION_START"
    BY <1>3, <2>1 DEF EmptyOrStarted, HasStart
  <2>2. CASE HasStart(log)
    BY <1>3, <2>2 DEF EmptyOrStarted, HasStart
  <2>. QED BY <2>1, <2>2
<1>5. StartsFirst(new)
  <2>1. CASE log = <<>>
    <3>1. Len(log) = 0 /\ ~HasStart(log)
      BY <2>1 DEF HasStart
    <3>. QED BY <1>3, <3>1 DEF StartsFirst
  <2>2. CASE log # <<>>
    <3>1. log[1].type = "SESSION_START" /\ HasStart(log)
      BY <1>1, <2>2 DEF IsTraceLog, StartsFirst, EmptyOrStarted
    <3>2. 1 \in 1..Len(log)
      BY <1>3, <3>1 DEF HasStart
    <3>. QED BY <1>3, <3>1, <3>2 DEF StartsFirst
  <2>. QED BY <2>1, <2>2
<1>6. IsTraceLog(new, t)
  BY <1>4, <1>5 DEF IsTraceLog
<1>. QED BY <1>2, <1>6 DEF Databases

\* What a write does to the objects: they stay objects of their traces, and those that
\* ended their session still have.
ObjectsKept ==
    /\ Len(objects') \in Nat /\ Len(objects) <= Len(objects')
    /\ \A n \in 1..Len(objects) : /\ objects'[n].sid = objects[n].sid
                                  /\ EndsIfOne(Ledger(n)) => EndsIfOne(Ledger(n))'

\* A session with an end keeps it when its database grows.
LEMMA EndKept ==
    ASSUME NEW l, EndsIfOne(l), IsLogOf(l.rows, l.sid), NEW e, NEW o, o.rows = Append(l.rows, e)
    PROVE  EndsIfOne(o)
<1>. PICK log : log = l.rows
  OBVIOUS
<1>. PICK new : new = o.rows
  OBVIOUS
<1>1. /\ Len(log) \in Nat /\ DOMAIN log = 1..Len(log) /\ DOMAIN new = 1..(Len(log) + 1)
      /\ Len(new) = Len(log) + 1 /\ \A i \in 1..Len(log) : new[i] = log[i]
  <2>1. IsSeq(log)
    BY DEF IsLogOf
  <2>. QED BY <2>1, Appending, SeqDomain
<1>2. CASE StartsTwice(log)
  BY <1>1, <1>2 DEF EndsIfOne, StartsTwice
<1>3. CASE Ended(l, 0)
  BY <1>1, <1>3 DEF EndsIfOne, Ended
<1>. QED BY <1>2, <1>3 DEF EndsIfOne

\* An object whose trace gets an event from another one, or none.
LEMMA OtherKept ==
    ASSUME Objects, Databases, NEW t, NEW e, GrowsBy(t, e), IsLogOf(Append(traceDb[t], e), t),
           HasStart(traceDb[t]) \/ e.type = "SESSION_START",
           NEW n \in 1..Len(objects), objects'[n] = objects[n],
           objects[n].sid = t => StartsTwice(Append(traceDb[t], e))
    PROVE  Tracking(Ledger(n)') /\ (EndsIfOne(Ledger(n)) => EndsIfOne(Ledger(n)'))
<1>. PICK new : new = traceDb'[t]
  OBVIOUS
<1>1. new = Append(traceDb[t], e) /\ \A u \in Traces \ {t} : traceDb'[u] = traceDb[u]
  BY DatabaseGrows
<1>2. IsHandle(objects[n]) /\ Tracking(Ledger(n)) /\ objects[n].sid \in Traces
  BY DEF Objects
<1>3. CASE objects[n].sid = t
  <2>. PICK log : log = traceDb[t]
    OBVIOUS
  <2>1. IsLogOf(new, objects[n].sid) /\ StartsTwice(new)
    BY <1>1, <1>3
  <2>2. Tracking(OnLog(objects[n], log)) /\ Ledger(n)' = OnLog(objects[n], new)
    BY <1>2, <1>3 DEF Ledger
  <2>. QED BY <1>2, <2>1, <2>2, TracksTwice
<1>4. CASE objects[n].sid # t
  <2>1. Ledger(n)' = Ledger(n)
    BY <1>1, <1>2, <1>4 DEF Ledger
  <2>. QED BY <1>2, <2>1
<1>. QED BY <1>3, <1>4

\* Object o writes an event to its database.
LEMMA WriteKeeps ==
    ASSUME Objects, Databases, NEW o, NEW t, IsObjectOf(o, t),
           NEW type \in {"ACTION", "SESSION_END"}, NEW body, Write(o, t, type, body)
    PROVE  /\ Objects' /\ Databases' /\ ObjectsKept /\ Len(objects') = Len(objects)
           /\ \E e : e.type = type /\ e.payload.body = body /\ GrowsBy(t, e)
           /\ type = "SESSION_END" => EndsIfOne(Ledger(o))'
<1>. PICK k : k = Ledger(o)
  OBVIOUS
<1>. PICK l : l = Stored(k, type, body)
  OBVIOUS
<1>. PICK h : h = [l EXCEPT !.rows = <<>>]
  OBVIOUS
<1>. PICK log : log = traceDb[t]
  OBVIOUS
<1>1. /\ o \in 1..Len(objects) /\ objects[o].sid = t /\ t \in Traces
      /\ IsHandle(objects[o]) /\ Tracking(k) /\ IsLogOf(log, t)
  BY DEF IsObjectOf, Objects, Databases, IsTraceLog
<1>2. k = OnLog(objects[o], log) /\ k.sid = t /\ k.rows = log
  BY <1>1, HandleForms DEF Ledger, IsLogOf
<1>3. traceDb' = [traceDb EXCEPT ![t] = l.rows] /\ objects' = [objects EXCEPT ![o] = h]
  BY <1>2 DEF Write, OnLog
<1>4. PICK e : e.type = type /\ e.payload.body = body /\ l.rows = Append(k.rows, e)
  BY <1>1, StoredTracks
<1>5. Tracking(l) /\ l.sid = t /\ (type = "SESSION_END" => EndsIfOne(l))
  BY <1>1, <1>2, StoredTracks
<1>6. GrowsBy(t, e) /\ IsLogOf(Append(log, e), t) /\ HasStart(log)
  BY <1>1, <1>2, <1>3, <1>4, <1>5 DEF GrowsBy, Tracking
<1>7. /\ Databases' /\ traceDb'[t] = Append(log, e)
      /\ \A u \in Traces \ {t} : traceDb'[u] = traceDb[u]
  BY <1>6, DatabaseGrows
<1>8. IsHandle(h) /\ h.sid = t /\ OnLog(h, l.rows) = l
  BY <1>5, LedgerForms DEF Tracking
<1>9. /\ IsSeq(objects') /\ Len(objects') = Len(objects) /\ Len(objects) \in Nat
      /\ objects'[o] = h /\ \A n \in 1..Len(objects) \ {o} : objects'[n] = objects[n]
  <2>1. Len(objects) \in Nat /\ DOMAIN objects = 1..Len(objects)
    BY SeqDomain DEF Objects
  <2>2. objects' = [n \in 1..Len(objects) |-> objects'[n]]
    BY <1>3, <2>1
  <2>. QED BY <1>1, <1>3, <2>1, <2>2, FunctionIsSequence
<1>10. Ledger(o)' = l
  BY <1>2, <1>4, <1>7, <1>8, <1>9 DEF Ledger
<1>11. StartsTwice(log) => StartsTwice(traceDb'[t])
  <2>1. e.session = t /\ e.seq \in Nat
    <3>1. /\ Len(log) + 1 \in DOMAIN Append(log, e) /\ Append(log, e)[Len(log) + 1] = e
      BY <1>1, Appending, SeqDomain DEF IsLogOf
    <3>. QED BY <1>6, <3>1 DEF IsLogOf
  <2>. QED BY <1>1, <1>7, <2>1, LogAppended
<1>12. ASSUME NEW n \in 1..Len(objects), n # o
       PROVE  Tracking(Ledger(n)') /\ (EndsIfOne(Ledger(n)) => EndsIfOne(Ledger(n)'))
  <2>1. objects'[n] = objects[n]
    BY <1>9, <1>12
  <2>2. objects[n].sid = t => StartsTwice(Append(log, e))
    BY <1>1, <1>7, <1>11, <1>12 DEF Objects
  <2>. QED BY <1>6, <2>1, <2>2, OtherKept
<1>13. Objects'
  <2>1. ASSUME NEW n \in 1..Len(objects)
        PROVE  IsHandle(objects'[n]) /\ objects'[n].sid = objects[n].sid /\ Tracking(Ledger(n)')
    BY <1>1, <1>5, <1>8, <1>9, <1>10, <1>12 DEF Objects
  <2>2. \A n \in 1..Len(objects) : objects'[n].sid \in Traces
    BY <2>1 DEF Objects
  <2>3. ASSUME NEW m \in 1..Len(objects), NEW n \in 1..Len(objects),
               m # n, objects[m].sid = objects[n].sid
        PROVE  StartsTwice(traceDb'[objects[n].sid])
    BY <1>7, <1>11, <2>3 DEF Objects
  <2>. QED BY <1>9, <2>1, <2>2, <2>3 DEF Objects
<1>14. ObjectsKept
  <2>1. ASSUME NEW n \in 1..Len(objects), EndsIfOne(Ledger(n)) PROVE EndsIfOne(Ledger(n)')
    <3>1. CASE n = o
      BY <1>1, <1>2, <1>4, <1>10, <2>1, <3>1, EndKept
    <3>. QED BY <1>12, <2>1, <3>1
  <2>2. \A n \in 1..Len(objects) : objects'[n].sid = objects[n].sid
    BY <1>1, <1>8, <1>9
  <2>. QED BY <1>9, <2>1, <2>2 DEF ObjectsKept
<1>. QED BY <1>4, <1>5, <1>6, <1>7, <1>9, <1>10, <1>13, <1>14

\* A new object opens the session of trace t, whatever is in its database.
OpensOn(t, l) ==
    /\ l = Opened([NewLedger(t) EXCEPT !.rows = traceDb[t]], t, [source |-> "opentelemetry"])
    /\ objects' = Append(objects, [l EXCEPT !.rows = <<>>])
    /\ traceDb' = [traceDb EXCEPT ![t] = l.rows]

LEMMA OpenedOn ==
    ASSUME Databases, NEW t \in Traces, NEW l, OpensOn(t, l)
    PROVE  /\ Tracking(l) /\ l.sid = t
           /\ \E e : /\ e.type = "SESSION_START" /\ ~Has(e.payload.body, "span")
                     /\ l.rows = Append(traceDb[t], e) /\ GrowsBy(t, e)
<1>. PICK k : k = [NewLedger(t) EXCEPT !.rows = traceDb[t]]
  OBVIOUS
<1>. PICK b : b = [source |-> "opentelemetry"]
  OBVIOUS
<1>1. k = [sid |-> t, next |-> 1, tip |-> Genesis, rows |-> traceDb[t]]
  BY DEF NewLedger
<1>2. k.rows = traceDb[t] /\ IsLedger(k) /\ IsLogOf(k.rows, t) /\ EmptyOrStarted(k.rows)
  BY <1>1 DEF Databases, IsTraceLog, IsLedger, IsLogOf
<1>3. ~Has(b, "pubkey") /\ DOMAIN Declared(b) = {"source", "canon"}
  BY DEF Has, Declared
<1>4. l = Opened(k, t, b)
  BY DEF OpensOn
<1>5. IsLedger(k) /\ IsLogOf(k.rows, t) /\ EmptyOrStarted(k.rows)
  BY <1>2
<1>6. /\ Tracking(Opened(k, t, b)) /\ Opened(k, t, b).sid = t
      /\ \E e : /\ e.type = "SESSION_START" /\ e.payload.body = Declared(b)
                /\ Opened(k, t, b).rows = Append(k.rows, e)
  <2>1. Tracking(Opened(k, t, b))
    BY ONLY <1>3, <1>5, OpenedTracks
  <2>2. Opened(k, t, b).sid = t
    BY ONLY <1>3, <1>5, OpenedTracks
  <2>3. \E e : /\ e.type = "SESSION_START" /\ e.payload.body = Declared(b)
               /\ Opened(k, t, b).rows = Append(k.rows, e)
    BY ONLY <1>3, <1>5, OpenedTracks
  <2>. QED BY <2>1, <2>2, <2>3
<1>7. PICK e : /\ e.type = "SESSION_START" /\ e.payload.body = Declared(b)
               /\ l.rows = Append(k.rows, e)
  BY <1>4, <1>6
<1>8. ~Has(e.payload.body, "span")
  BY <1>3, <1>7 DEF Has
<1>. QED BY <1>2, <1>4, <1>6, <1>7, <1>8 DEF OpensOn, GrowsBy

LEMMA OpenKeeps ==
    ASSUME Objects, Databases, NEW t \in Traces, NEW l, OpensOn(t, l)
    PROVE  /\ Objects' /\ Databases' /\ ObjectsKept /\ Len(objects') = Len(objects) + 1
           /\ IsObjectOf(Len(objects), t)'
           /\ \E e : /\ e.type = "SESSION_START" /\ ~Has(e.payload.body, "span")
                     /\ GrowsBy(t, e)
<1>. PICK h : h = [l EXCEPT !.rows = <<>>]
  OBVIOUS
<1>. PICK log : log = traceDb[t]
  OBVIOUS
<1>1. Tracking(l) /\ l.sid = t
  BY OpenedOn
<1>2. PICK e : /\ e.type = "SESSION_START" /\ ~Has(e.payload.body, "span")
               /\ l.rows = Append(log, e) /\ GrowsBy(t, e)
  BY OpenedOn
<1>3. IsLogOf(Append(log, e), t)
  BY <1>1, <1>2 DEF Tracking
<1>4. Databases' /\ traceDb'[t] = l.rows
  BY <1>2, <1>3, DatabaseGrows
<1>5. IsHandle(h) /\ h.sid = t /\ OnLog(h, l.rows) = l
  BY <1>1, LedgerForms DEF Tracking
<1>. PICK n \in Nat : n = Len(objects)
  BY SeqDomain DEF Objects
<1>6. /\ IsSeq(objects') /\ Len(objects') = n + 1 /\ objects'[n + 1] = h
      /\ \A m \in 1..n : objects'[m] = objects[m]
  BY Appending DEF Objects, OpensOn
<1>. PICK o : o = n + 1
  OBVIOUS
<1>7. Ledger(o)' = l
  BY <1>4, <1>5, <1>6 DEF Ledger
<1>8. ASSUME NEW m \in 1..n, objects[m].sid = t PROVE StartsTwice(Append(log, e))
  <2>1. HasStart(log) /\ IsLogOf(log, t)
    <3>1. IsHandle(objects[m]) /\ Tracking(Ledger(m)) /\ IsLogOf(log, t)
      BY <1>8 DEF Objects, Databases, IsTraceLog
    <3>2. Ledger(m).rows = log
      BY <1>8, <3>1, HandleForms DEF Ledger, IsLogOf
    <3>. QED BY <3>1, <3>2 DEF Tracking
  <2>2. e.session = t /\ e.seq \in Nat
    <3>1. /\ Len(log) + 1 \in DOMAIN Append(log, e) /\ Append(log, e)[Len(log) + 1] = e
      BY <2>1, Appending, SeqDomain DEF IsLogOf
    <3>. QED BY <1>3, <3>1 DEF IsLogOf
  <2>. QED BY <1>2, <2>1, <2>2, LogAppended
<1>9. ASSUME NEW m \in 1..n
      PROVE  Tracking(Ledger(m)') /\ (EndsIfOne(Ledger(m)) => EndsIfOne(Ledger(m)'))
  BY <1>2, <1>3, <1>6, <1>8, <1>9, OtherKept
<1>10. Objects'
  <2>1. ASSUME NEW m \in 1..(n + 1)
        PROVE  IsHandle(objects'[m]) /\ objects'[m].sid \in Traces /\ Tracking(Ledger(m)')
    <3>1. CASE m = o
      BY <1>1, <1>5, <1>6, <1>7, <3>1
    <3>2. CASE m \in 1..n
      BY <1>6, <1>9, <3>2 DEF Objects
    <3>. QED BY <3>1, <3>2
  <2>2. ASSUME NEW m \in 1..n, NEW k \in 1..n, m # k, objects[m].sid = objects[k].sid
        PROVE  StartsTwice(traceDb'[objects[k].sid])
    <3>1. CASE objects[k].sid = t
      BY <1>2, <1>4, <1>8, <3>1
    <3>2. CASE objects[k].sid # t
      BY <1>2, <1>3, <2>2, <3>2, DatabaseGrows DEF Objects
    <3>. QED BY <3>1, <3>2
  <2>3. ASSUME NEW m \in 1..n, objects[m].sid = t PROVE StartsTwice(traceDb'[t])
    BY <1>2, <1>4, <1>8, <2>3
  <2>4. ASSUME NEW m \in 1..(n + 1), NEW k \in 1..(n + 1),
               m # k, objects'[m].sid = objects'[k].sid
        PROVE  StartsTwice(traceDb'[objects'[k].sid])
    <3>1. CASE m = n + 1
      <4>1. k \in 1..n /\ objects'[m] = h
        BY <1>6, <2>4, <3>1
      <4>2. objects'[k] = objects[k]
        BY <1>6, <4>1
      <4>. QED BY <1>5, <2>3, <2>4, <4>1, <4>2
    <3>2. CASE k = n + 1
      <4>1. m \in 1..n /\ objects'[k] = h
        BY <1>6, <2>4, <3>2
      <4>2. objects'[m] = objects[m]
        BY <1>6, <4>1
      <4>. QED BY <1>5, <2>3, <2>4, <4>1, <4>2
    <3>3. CASE m # n + 1 /\ k # n + 1
      BY <1>6, <2>2, <2>4, <3>3
    <3>. QED BY <3>1, <3>2, <3>3
  <2>. QED BY <1>6, <2>1, <2>4 DEF Objects
<1>11. ObjectsKept
  BY <1>6, <1>9 DEF ObjectsKept
<1>12. IsObjectOf(Len(objects), t)'
  BY <1>5, <1>6 DEF IsObjectOf
<1>. QED BY <1>2, <1>4, <1>6, <1>10, <1>11, <1>12

\* The calls of export: the spans handed over are in one batch once, and being exported.
Calls ==
    /\ batch = [c \in Callers |-> batch[c]] /\ at = [c \in Callers |-> at[c]]
    /\ step = [c \in Callers |-> step[c]] /\ using = [c \in Callers |-> using[c]]
    /\ exporterOf = [c \in Callers |-> exporterOf[c]]
    /\ \A c \in Callers :
          /\ IsSeq(batch[c])
          /\ step[c] = "idle" => batch[c] = <<>> /\ at[c] = 1
          /\ step[c] # "idle" => at[c] \in 1..Len(batch[c]) /\ exporterOf[c] \in Exporters
          /\ step[c] \in {"idle", "find", "open", "call", "outcome"}
    /\ \A c \in Callers : \A i \in 1..Len(batch[c]) :
          /\ batch[c][i] \in Spans /\ reported[batch[c][i]] = "exporting"
          /\ traceOf[batch[c][i]] \in Traces
    /\ \A c, d \in Callers : \A i \in 1..Len(batch[c]), j \in 1..Len(batch[d]) :
          batch[c][i] = batch[d][j] => c = d /\ i = j

SameCall(d) ==
    /\ batch'[d] = batch[d] /\ at'[d] = at[d] /\ step'[d] = step[d] /\ using'[d] = using[d]
    /\ exporterOf'[d] = exporterOf[d]
    /\ \A i \in 1..Len(batch[d]) : traceOf'[batch[d][i]] = traceOf[batch[d][i]]

OthersCall(c) == \A d \in Callers \ {c} : SameCall(d)

LEMMA ReturnCalls ==
    ASSUME Calls, NEW c \in Callers, step[c] # "idle", NEW r, Return(c, r), UNCHANGED given
    PROVE  Calls' /\ OthersCall(c) /\ step'[c] = "idle"
<1>1. /\ batch' = [d \in Callers |-> batch'[d]] /\ at' = [d \in Callers |-> at'[d]]
      /\ step' = [d \in Callers |-> step'[d]] /\ using' = [d \in Callers |-> using'[d]]
      /\ exporterOf' = exporterOf /\ traceOf' = traceOf
  BY DEF Calls, Return, Step, given
<1>2. batch'[c] = <<>> /\ at'[c] = 1 /\ step'[c] = "idle"
  BY DEF Calls, Return, Step
<1>3. ASSUME NEW d \in Callers, d # c PROVE SameCall(d)
  <2>1. batch'[d] = batch[d] /\ at'[d] = at[d] /\ step'[d] = step[d] /\ using'[d] = using[d]
    BY <1>3 DEF Calls, Return, Step
  <2>. QED BY <1>1, <2>1 DEF SameCall
<1>4. IsSeq(<<>>) /\ Len(<<>>) = 0
  BY DEF IsSeq
<1>5. Range(batch[c]) = {batch[c][i] : i \in 1..Len(batch[c])}
  BY SeqDomain DEF Calls, Range
<1>6. ASSUME NEW d \in Callers, NEW i \in 1..Len(batch'[d])
      PROVE  /\ batch'[d][i] \in Spans /\ reported'[batch'[d][i]] = "exporting"
             /\ traceOf'[batch'[d][i]] \in Traces
  <2>1. d # c /\ batch'[d] = batch[d]
    BY <1>2, <1>3, <1>4, <1>6 DEF SameCall
  <2>2. batch[d][i] \notin Range(batch[c])
    BY <1>5, <1>6, <2>1 DEF Calls
  <2>3. batch[d][i] \in Spans /\ reported[batch[d][i]] = "exporting" /\ traceOf[batch[d][i]] \in Traces
    BY <1>6, <2>1 DEF Calls
  <2>4. reported' = [s \in Spans |-> IF s \in Range(batch[c]) THEN r ELSE reported[s]]
    BY DEF Return
  <2>. QED BY <1>1, <2>1, <2>2, <2>3, <2>4
<1>7. ASSUME NEW a \in Callers, NEW d \in Callers, NEW i \in 1..Len(batch'[a]),
             NEW j \in 1..Len(batch'[d]), batch'[a][i] = batch'[d][j]
      PROVE  a = d /\ i = j
  <2>1. a # c /\ d # c /\ batch'[a] = batch[a] /\ batch'[d] = batch[d]
    BY <1>2, <1>3, <1>4, <1>7 DEF SameCall
  <2>. QED BY <1>7, <2>1 DEF Calls
<1>8. ASSUME NEW d \in Callers
      PROVE  /\ IsSeq(batch'[d])
             /\ step'[d] = "idle" => batch'[d] = <<>> /\ at'[d] = 1
             /\ step'[d] # "idle" => at'[d] \in 1..Len(batch'[d]) /\ exporterOf'[d] \in Exporters
             /\ step'[d] \in {"idle", "find", "open", "call", "outcome"}
  <2>1. CASE d = c
    BY <1>2, <1>4, <2>1
  <2>2. CASE d # c
    BY <1>3, <2>2 DEF Calls, SameCall
  <2>. QED BY <2>1, <2>2
<1>9. Calls'
  <2>1. exporterOf' = [d \in Callers |-> exporterOf'[d]]
    BY <1>1 DEF Calls
  <2>. QED BY <1>1, <1>6, <1>7, <1>8, <2>1 DEF Calls
<1>. QED BY <1>2, <1>3, <1>9 DEF OthersCall

\* A step of a call within its batch.
LEMMA StepCalls ==
    ASSUME Calls, NEW c \in Callers, step[c] # "idle",
           NEW to \in {"find", "open", "call", "outcome"}, Step(c, to),
           UNCHANGED <<given, batch, reported>>,
           at' = at \/ (at[c] < Len(batch[c]) /\ at' = [at EXCEPT ![c] = @ + 1]),
           using' = using \/ \E u : using' = [using EXCEPT ![c] = u]
    PROVE  Calls' /\ OthersCall(c) /\ step'[c] = to
<1>1. /\ batch' = batch /\ exporterOf' = exporterOf /\ traceOf' = traceOf /\ reported' = reported
      /\ step' = [d \in Callers |-> step'[d]] /\ step'[c] = to
      /\ \A d \in Callers \ {c} : step'[d] = step[d]
  BY DEF Calls, Step, given
<1>2. at' = [d \in Callers |-> at'[d]] /\ \A d \in Callers \ {c} : at'[d] = at[d]
  BY DEF Calls
<1>3. using' = [d \in Callers |-> using'[d]] /\ \A d \in Callers \ {c} : using'[d] = using[d]
  BY DEF Calls
<1>4. at'[c] \in 1..Len(batch[c])
  <2>1. Len(batch[c]) \in Nat /\ at[c] \in 1..Len(batch[c])
    BY SeqDomain DEF Calls
  <2>2. at'[c] = at[c] \/ (at[c] < Len(batch[c]) /\ at'[c] = at[c] + 1)
    BY DEF Calls
  <2>. QED BY <2>1, <2>2
<1>5. ASSUME NEW d \in Callers
      PROVE  /\ IsSeq(batch'[d])
             /\ step'[d] = "idle" => batch'[d] = <<>> /\ at'[d] = 1
             /\ step'[d] # "idle" => at'[d] \in 1..Len(batch'[d]) /\ exporterOf'[d] \in Exporters
             /\ step'[d] \in {"idle", "find", "open", "call", "outcome"}
  <2>1. CASE d = c
    BY <1>1, <1>4, <2>1 DEF Calls
  <2>2. CASE d # c
    BY <1>1, <1>2, <2>2 DEF Calls
  <2>. QED BY <2>1, <2>2
<1>6. Calls'
  BY <1>1, <1>2, <1>3, <1>5 DEF Calls
<1>7. OthersCall(c)
  BY <1>1, <1>2, <1>3 DEF OthersCall, SameCall
<1>. QED BY <1>1, <1>6, <1>7

LEMMA NextCalls ==
    ASSUME Calls, NEW c \in Callers, step[c] # "idle", NextSpan(c), UNCHANGED given
    PROVE  Calls' /\ OthersCall(c) /\ step'[c] \in {"idle", "find"}
<1>1. CASE at[c] = Len(batch[c])
  BY <1>1, ReturnCalls DEF NextSpan
<1>2. CASE at[c] # Len(batch[c])
  <2>1. Len(batch[c]) \in Nat /\ at[c] \in 1..Len(batch[c])
    BY SeqDomain DEF Calls
  <2>. PICK to \in {"find", "open", "call", "outcome"} : to = "find"
    OBVIOUS
  <2>2. /\ at' = [at EXCEPT ![c] = @ + 1] /\ Step(c, to) /\ UNCHANGED <<given, batch, reported>>
        /\ at[c] < Len(batch[c]) /\ using' = using
    BY <1>2, <2>1 DEF NextSpan
  <2>. QED BY <2>2, StepCalls
<1>. QED BY <1>1, <1>2

LEMMA SequenceOf == ASSUME NEW S, NEW s \in Seq(S) PROVE IsSeq(s)
<1>1. s = [i \in 1..Len(s) |-> s[i]] /\ Len(s) \in Nat
  OBVIOUS
<1>. QED BY <1>1, FunctionIsSequence

\* export is called with one span or two that nobody has exported.
LEMMA ExportCalls ==
    ASSUME Calls, NEW c \in Callers, Export(c)
    PROVE  Calls' /\ OthersCall(c) /\ step'[c] = "find"
<1>0. PICK s \in Spans : \E more \in {<<>>} \cup {<<u>> : u \in Spans \ {s}} :
         LET ended == {s} \cup Range(more) IN
         /\ \A u \in ended : reported[u] = "open"
         /\ batch' = [batch EXCEPT ![c] = <<s>> \o more]
         /\ reported' = [u \in Spans |-> IF u \in ended THEN "exporting" ELSE reported[u]]
         /\ \E traces \in [ended -> Traces] :
               traceOf' = [u \in Spans |-> IF u \in ended THEN traces[u] ELSE traceOf[u]]
  BY DEF Export
<1>1. PICK more \in {<<>>} \cup {<<u>> : u \in Spans \ {s}} :
         LET ended == {s} \cup Range(more) IN
         /\ \A u \in ended : reported[u] = "open"
         /\ batch' = [batch EXCEPT ![c] = <<s>> \o more]
         /\ reported' = [u \in Spans |-> IF u \in ended THEN "exporting" ELSE reported[u]]
         /\ \E traces \in [ended -> Traces] :
               traceOf' = [u \in Spans |-> IF u \in ended THEN traces[u] ELSE traceOf[u]]
  BY <1>0
<1>. PICK ended : ended = {s} \cup Range(more)
  OBVIOUS
<1>. PICK new : new = <<s>> \o more
  OBVIOUS
<1>2. /\ IsSeq(new) /\ Len(new) \in {1, 2} /\ ended \subseteq Spans
      /\ \A i \in 1..Len(new) : new[i] \in ended
      /\ \A i, j \in 1..Len(new) : new[i] = new[j] => i = j
  <2>1. CASE more = <<>>
    <3>1. ended = {s}
      BY <2>1 DEF Range
    <3>2. new \in Seq(Spans) /\ Len(new) = 1 /\ new[1] = s
      BY <2>1
    <3>3. IsSeq(new)
      BY <3>2, SequenceOf
    <3>. QED BY <3>1, <3>2, <3>3
  <2>2. ASSUME NEW u \in Spans \ {s}, more = <<u>>
        PROVE  /\ IsSeq(new) /\ Len(new) \in {1, 2} /\ ended \subseteq Spans
               /\ \A i \in 1..Len(new) : new[i] \in ended
               /\ \A i, j \in 1..Len(new) : new[i] = new[j] => i = j
    <3>1. ended = {s, u}
      <4>1. DOMAIN <<u>> = {1} /\ <<u>>[1] = u
        OBVIOUS
      <4>. QED BY <2>2, <4>1 DEF Range
    <3>2. <<s>> \in Seq(Spans) /\ <<u>> \in Seq(Spans) /\ Len(<<s>>) = 1 /\ Len(<<u>>) = 1
      OBVIOUS
    <3>3. new \in Seq(Spans) /\ Len(new) = 2 /\ new[1] = s /\ new[2] = u
      BY <2>2, <3>2
    <3>4. IsSeq(new)
      BY <3>3, SequenceOf
    <3>. QED BY <3>1, <3>3, <3>4
  <2>. QED BY <2>1, <2>2
<1>3. PICK traces \in [ended -> Traces] :
         traceOf' = [u \in Spans |-> IF u \in ended THEN traces[u] ELSE traceOf[u]]
  BY <1>1
<1>4. /\ \A u \in ended : reported[u] = "open"
      /\ reported' = [u \in Spans |-> IF u \in ended THEN "exporting" ELSE reported[u]]
  BY <1>1
<1>5. /\ batch'[c] = new /\ batch' = [d \in Callers |-> batch'[d]]
      /\ \A d \in Callers \ {c} : batch'[d] = batch[d]
  BY <1>1 DEF Calls
<1>6. /\ step'[c] = "find" /\ step' = [d \in Callers |-> step'[d]]
      /\ \A d \in Callers \ {c} : step'[d] = step[d]
  <2>1. step' = [step EXCEPT ![c] = "find"]
    BY DEF Export, Step
  <2>2. step = [d \in Callers |-> step[d]]
    BY DEF Calls
  <2>. QED BY ONLY <2>1, <2>2
<1>7. /\ exporterOf'[c] \in Exporters /\ exporterOf' = [d \in Callers |-> exporterOf'[d]]
      /\ \A d \in Callers \ {c} : exporterOf'[d] = exporterOf[d]
  <2>1. \E e \in Exporters : exporterOf' = [exporterOf EXCEPT ![c] = e]
    BY DEF Export
  <2>2. exporterOf = [d \in Callers |-> exporterOf[d]]
    BY DEF Calls
  <2>. QED BY ONLY <2>1, <2>2
<1>8. at' = at /\ using' = using /\ at[c] = 1
  BY DEF Export, Calls
<1>9. ASSUME NEW d \in Callers, NEW i \in 1..Len(batch[d])
      PROVE  batch[d][i] \in Spans \ ended
  BY <1>4 DEF Calls
<1>10. ASSUME NEW d \in Callers, d # c PROVE SameCall(d)
  <2>1. \A i \in 1..Len(batch[d]) : traceOf'[batch[d][i]] = traceOf[batch[d][i]]
    BY <1>3, <1>9
  <2>. QED BY <1>5, <1>6, <1>7, <1>8, <1>10, <2>1 DEF SameCall
<1>11. ASSUME NEW d \in Callers, NEW i \in 1..Len(batch'[d])
       PROVE  /\ batch'[d][i] \in Spans /\ reported'[batch'[d][i]] = "exporting"
              /\ traceOf'[batch'[d][i]] \in Traces
  <2>1. CASE d = c
    <3>1. new[i] \in ended /\ new[i] \in Spans
      BY <1>2, <1>5, <1>11, <2>1
    <3>. QED BY <1>3, <1>4, <1>5, <2>1, <3>1
  <2>2. CASE d # c
    <3>1. batch'[d] = batch[d] /\ batch[d][i] \in Spans \ ended
      BY <1>5, <1>9, <1>11, <2>2
    <3>2. reported[batch[d][i]] = "exporting" /\ traceOf[batch[d][i]] \in Traces
      BY <1>11, <3>1 DEF Calls
    <3>. QED BY <1>3, <1>4, <3>1, <3>2
  <2>. QED BY <2>1, <2>2
<1>12. ASSUME NEW a \in Callers, NEW d \in Callers, NEW i \in 1..Len(batch'[a]),
              NEW j \in 1..Len(batch'[d]), batch'[a][i] = batch'[d][j]
       PROVE  a = d /\ i = j
  <2>1. CASE a = c /\ d = c
    BY <1>2, <1>5, <1>12, <2>1
  <2>2. CASE a # c /\ d # c
    BY <1>5, <1>12, <2>2 DEF Calls
  <2>3. CASE a = c /\ d # c
    <3>1. batch'[a][i] \in ended /\ batch'[d][j] \notin ended
      BY <1>2, <1>5, <1>9, <2>3
    <3>. QED BY <1>12, <3>1
  <2>4. CASE a # c /\ d = c
    <3>1. batch'[a][i] \notin ended /\ batch'[d][j] \in ended
      BY <1>2, <1>5, <1>9, <2>4
    <3>. QED BY <1>12, <3>1
  <2>. QED BY <2>1, <2>2, <2>3, <2>4
<1>13. ASSUME NEW d \in Callers
       PROVE  /\ IsSeq(batch'[d])
              /\ step'[d] = "idle" => batch'[d] = <<>> /\ at'[d] = 1
              /\ step'[d] # "idle" => at'[d] \in 1..Len(batch'[d]) /\ exporterOf'[d] \in Exporters
              /\ step'[d] \in {"idle", "find", "open", "call", "outcome"}
  <2>1. CASE d = c
    <3>1. 1 \in 1..Len(new)
      BY <1>2
    <3>. QED BY <1>2, <1>5, <1>6, <1>7, <1>8, <2>1, <3>1
  <2>2. CASE d # c
    BY <1>5, <1>6, <1>7, <1>8, <2>2 DEF Calls
  <2>. QED BY <2>1, <2>2
<1>14. Calls'
  <2>1. at' = [d \in Callers |-> at'[d]] /\ using' = [d \in Callers |-> using'[d]]
    BY <1>8 DEF Calls
  <2>. QED BY <1>5, <1>6, <1>7, <1>11, <1>12, <1>13, <2>1 DEF Calls
<1>. QED BY <1>6, <1>10, <1>14 DEF OthersCall

\* The local variable ledger of a call, and the ledgers an exporter has registered.
Registry ==
    /\ \A c \in Callers : step[c] \in {"call", "outcome"} => IsObjectOf(using[c], Trace(c))
    /\ registered = [e \in Exporters |-> registered[e]]
    /\ \A e \in Exporters :
          /\ registered[e] = [t \in Traces |-> registered[e][t]]
          /\ \A t \in Traces : registered[e][t] # 0 => IsObjectOf(registered[e][t], t)

IsItem(item) == item = <<item[1], item[2]>> /\ IsObjectOf(item[2], item[1])

\* The ledgers shutdown has still to close, and the one it has still to export.
Closings ==
    /\ closing = [e \in Exporters |-> closing[e]] /\ ending = [e \in Exporters |-> ending[e]]
    /\ \A e \in Exporters : \A item \in closing[e] : IsItem(item)
    /\ \A e \in Exporters :
          ending[e] # <<>> => IsItem(ending[e]) /\ EndsIfOne(Ledger(ending[e][2]))

TraceFiles ==
    /\ traceFile = [t \in Traces |-> traceFile[t]]
    /\ \A t \in Traces : VerifiesIfOne(traceFile[t])

SpanState == Calls /\ Objects /\ Databases /\ Registry /\ Closings /\ TraceFiles

LEMMA KeptObjects ==
    ASSUME Objects, UNCHANGED <<objects, traceDb>>
    PROVE  Objects' /\ ObjectsKept
<1>1. Len(objects) \in Nat
  BY SeqDomain DEF Objects
<1>. QED BY <1>1 DEF Objects, ObjectsKept, Ledger

LEMMA ObjectOfKept ==
    ASSUME Objects, ObjectsKept, NEW n, NEW t, IsObjectOf(n, t)
    PROVE  IsObjectOf(n, t)'
<1>1. Len(objects) \in Nat
  BY SeqDomain DEF Objects
<1>. QED BY <1>1 DEF ObjectsKept, IsObjectOf

LEMMA ClosingsKept ==
    ASSUME Objects, ObjectsKept, Closings, UNCHANGED <<closing, ending>>
    PROVE  Closings'
<1>1. ASSUME NEW item, IsItem(item) PROVE IsItem(item)'
  BY <1>1, ObjectOfKept DEF IsItem
<1>2. ASSUME NEW e \in Exporters, ending[e] # <<>>
      PROVE  IsItem(ending[e])' /\ EndsIfOne(Ledger(ending[e][2]))'
  <2>1. IsItem(ending[e]) /\ EndsIfOne(Ledger(ending[e][2]))
    BY <1>2 DEF Closings
  <2>. PICK n : n = ending[e][2]
    OBVIOUS
  <2>2. n \in 1..Len(objects) /\ n = ending'[e][2]
    BY <2>1 DEF IsItem, IsObjectOf
  <2>. QED BY <1>1, <2>1, <2>2 DEF ObjectsKept, Ledger
<1>. QED BY <1>1, <1>2 DEF Closings

\* The registry after a step of call c, of which others see nothing.
LEMMA RegistryKept ==
    ASSUME Calls, Calls', Objects, ObjectsKept, Registry, NEW c \in Callers, OthersCall(c),
           UNCHANGED registered,
           step'[c] \in {"call", "outcome"} => IsObjectOf(using[c], Trace(c))'
    PROVE  Registry'
<1>1. ASSUME NEW d \in Callers, d # c, step'[d] \in {"call", "outcome"}
      PROVE  IsObjectOf(using[d], Trace(d))'
  <2>1. SameCall(d) /\ IsObjectOf(using[d], Trace(d)) /\ at[d] \in 1..Len(batch[d])
    BY <1>1 DEF OthersCall, SameCall, Registry, Calls
  <2>2. Trace(d)' = Trace(d)
    BY <2>1 DEF SameCall, Trace, Span
  <2>3. IsObjectOf(using[d], Trace(d))'
    <3>. PICK n, t : n = using[d] /\ t = Trace(d)
      OBVIOUS
    <3>1. IsObjectOf(n, t)'
      BY <2>1, ObjectOfKept
    <3>. QED BY <2>1, <2>2, <3>1 DEF SameCall, IsObjectOf
  <2>. QED BY <2>3
<1>2. \A e \in Exporters : \A t \in Traces :
         registered[e][t] # 0 => IsObjectOf(registered[e][t], t)'
  BY ObjectOfKept DEF Registry
<1>. QED BY <1>1, <1>2 DEF Registry, IsObjectOf

LEMMA InCall ==
    ASSUME Calls, NEW c \in Callers, step[c] # "idle"
    PROVE  /\ at[c] \in 1..Len(batch[c]) /\ exporterOf[c] \in Exporters
           /\ Span(c) \in Spans /\ Trace(c) \in Traces /\ reported[Span(c)] = "exporting"
BY DEF Calls, Span, Trace

\* A step of a call after which it is not between the two events of a span.
LEMMA LoopKeeps ==
    ASSUME SpanState, NEW c \in Callers, Calls', OthersCall(c),
           step'[c] \notin {"call", "outcome"},
           UNCHANGED <<objects, registered, shutdowns, traceDb, traceFile>>
    PROVE  SpanState'
<1>1. Objects' /\ ObjectsKept /\ Closings'
  BY KeptObjects, ClosingsKept DEF SpanState, shutdowns
<1>2. Registry'
  BY <1>1, RegistryKept DEF SpanState
<1>. QED BY <1>1, <1>2 DEF SpanState, Databases, TraceFiles

LEMMA SkipState == ASSUME SpanState, NEW c \in Callers, Skip(c) PROVE SpanState'
<1>1. step[c] # "idle" /\ NextSpan(c) /\ UNCHANGED given
  BY DEF Skip
<1>2. Calls' /\ OthersCall(c) /\ step'[c] \in {"idle", "find"}
  BY <1>1, NextCalls DEF SpanState
<1>. QED BY <1>2, LoopKeeps DEF Skip

LEMMA FindState == ASSUME SpanState, NEW c \in Callers, Find(c) PROVE SpanState'
<1>. PICK n : n = registered[exporterOf[c]][Trace(c)]
  OBVIOUS
<1>. PICK to \in {"open", "call"} : to = IF n = 0 THEN "open" ELSE "call"
  OBVIOUS
<1>1. using' = [using EXCEPT ![c] = n] /\ using'[c] = n /\ Step(c, to)
  BY DEF Find, SpanState, Calls
<1>2. Calls' /\ OthersCall(c) /\ step'[c] = to
  BY <1>1, StepCalls DEF Find, SpanState
<1>3. Objects' /\ ObjectsKept /\ Closings'
  BY KeptObjects, ClosingsKept DEF SpanState, shutdowns, Find
<1>4. CASE to = "open"
  BY <1>2, <1>4, LoopKeeps DEF Find
<1>5. CASE to = "call"
  <2>1. n # 0
    BY <1>5
  <2>. PICK t : t = Trace(c)
    OBVIOUS
  <2>2. IsObjectOf(n, t)
    BY <2>1, InCall DEF SpanState, Registry, Find
  <2>3. IsObjectOf(n, t)'
    BY <1>3, <2>2, ObjectOfKept DEF SpanState
  <2>4. Trace(c)' = t
    BY DEF Find, Trace, Span, given
  <2>5. IsObjectOf(using[c], Trace(c))'
    BY <1>1, <2>3, <2>4 DEF IsObjectOf
  <2>6. Registry'
    BY <1>2, <1>3, <2>5, RegistryKept DEF SpanState, Find
  <2>. QED BY <1>2, <1>3, <2>6 DEF SpanState, Databases, TraceFiles, Find
<1>. QED BY <1>4, <1>5

LEMMA OpenState == ASSUME SpanState, NEW c \in Callers, Open(c) PROVE SpanState'
<1>. PICK t : t = Trace(c)
  OBVIOUS
<1>. PICK f : f = exporterOf[c]
  OBVIOUS
<1>1. t \in Traces /\ f \in Exporters /\ Trace(c)' = t
  BY InCall DEF SpanState, Open, Trace, Span, given
<1>2. PICK l : /\ OpensOn(t, l)
               /\ registered' = [registered EXCEPT ![f][t] = Len(objects')]
  BY DEF Open, Register, OpensOn
<1>3. /\ Objects' /\ Databases' /\ ObjectsKept /\ Len(objects') = Len(objects) + 1
      /\ IsObjectOf(Len(objects), t)'
  BY <1>1, <1>2, OpenKeeps DEF SpanState
<1>. PICK n : n = Len(objects')
  OBVIOUS
<1>4. using' = [using EXCEPT ![c] = n] /\ Step(c, "call") /\ using'[c] = n
  BY DEF Open, SpanState, Calls
<1>5. Calls' /\ OthersCall(c) /\ step'[c] = "call"
  <2>. PICK to \in {"find", "open", "call", "outcome"} : to = "call"
    OBVIOUS
  <2>1. Calls' /\ OthersCall(c) /\ step'[c] = to
    BY <1>4, StepCalls DEF Open, SpanState
  <2>. QED BY <2>1
<1>6. Closings'
  BY <1>3, ClosingsKept DEF SpanState, Open, shutdowns
<1>7. ASSUME NEW d \in Callers, step'[d] \in {"call", "outcome"}
      PROVE  IsObjectOf(using[d], Trace(d))'
  <2>1. CASE d = c
    BY <1>1, <1>3, <1>4, <2>1 DEF IsObjectOf
  <2>2. CASE d # c
    <3>1. SameCall(d) /\ IsObjectOf(using[d], Trace(d)) /\ at[d] \in 1..Len(batch[d])
      BY <1>5, <1>7, <2>2 DEF SpanState, OthersCall, SameCall, Registry, Calls
    <3>2. Trace(d)' = Trace(d)
      BY <3>1 DEF SameCall, Trace, Span
    <3>. PICK m, u : m = using[d] /\ u = Trace(d)
      OBVIOUS
    <3>3. IsObjectOf(m, u)'
      BY <1>3, <3>1, ObjectOfKept DEF SpanState
    <3>. QED BY <3>1, <3>2, <3>3 DEF SameCall, IsObjectOf
  <2>. QED BY <2>1, <2>2
<1>8. /\ registered' = [e \in Exporters |-> registered'[e]]
      /\ \A e \in Exporters :
            /\ registered'[e] = [u \in Traces |-> registered'[e][u]]
            /\ \A u \in Traces : registered'[e][u] = IF e = f /\ u = t THEN n
                                                     ELSE registered[e][u]
  BY <1>1, <1>2 DEF SpanState, Registry
<1>9. ASSUME NEW e \in Exporters, NEW u \in Traces, registered'[e][u] # 0
      PROVE  IsObjectOf(registered[e][u], u)'
  <2>1. CASE e = f /\ u = t
    BY <1>3, <1>8, <2>1 DEF IsObjectOf
  <2>2. CASE ~(e = f /\ u = t)
    <3>. PICK m : m = registered[e][u]
      OBVIOUS
    <3>1. registered'[e][u] = m
      BY <1>8, <2>2
    <3>2. IsObjectOf(m, u)
      BY <1>9, <3>1 DEF SpanState, Registry
    <3>3. IsObjectOf(m, u)'
      BY <1>3, <3>2, ObjectOfKept DEF SpanState
    <3>. QED BY <3>1, <3>3 DEF IsObjectOf
  <2>. QED BY <2>1, <2>2
<1>10. Registry'
  BY <1>7, <1>8, <1>9 DEF Registry
<1>. QED BY <1>3, <1>5, <1>6, <1>10 DEF SpanState, TraceFiles, Open

LEMMA OpenFailsState == ASSUME SpanState, NEW c \in Callers, OpenFails(c) PROVE SpanState'
<1>. PICK r : r = "FAILURE"
  OBVIOUS
<1>1. step[c] # "idle" /\ Return(c, r) /\ UNCHANGED given
  BY DEF OpenFails
<1>2. Calls' /\ OthersCall(c) /\ step'[c] = "idle"
  BY <1>1, ReturnCalls DEF SpanState
<1>. QED BY <1>2, LoopKeeps DEF OpenFails

LEMMA RecordCallState == ASSUME SpanState, NEW c \in Callers, RecordCall(c) PROVE SpanState'
<1>. PICK n, t : n = using[c] /\ t = Trace(c)
  OBVIOUS
<1>. PICK body : body = [span |-> Span(c), half |-> "call"]
  OBVIOUS
<1>1. IsObjectOf(n, t) /\ Trace(c)' = t /\ using'[c] = n
  BY DEF SpanState, Registry, RecordCall, Trace, Span, given
<1>2. Objects' /\ Databases' /\ ObjectsKept
  <2>1. Write(n, t, "ACTION", body)
    BY DEF RecordCall
  <2>. QED BY <1>1, <2>1, WriteKeeps DEF SpanState
<1>3. Calls' /\ OthersCall(c)
  <2>. PICK to \in {"find", "open", "call", "outcome"} : to = "outcome"
    OBVIOUS
  <2>. QED BY StepCalls DEF RecordCall, SpanState
<1>4. IsObjectOf(using[c], Trace(c))'
  <2>1. IsObjectOf(n, t)'
    BY <1>1, <1>2, ObjectOfKept DEF SpanState
  <2>. QED BY <1>1, <2>1 DEF IsObjectOf
<1>5. Registry'
  BY <1>2, <1>3, <1>4, RegistryKept DEF SpanState, RecordCall
<1>6. Closings'
  BY <1>2, ClosingsKept DEF SpanState, RecordCall, shutdowns
<1>. QED BY <1>2, <1>3, <1>5, <1>6 DEF SpanState, TraceFiles, RecordCall

LEMMA RecordOutcomeState ==
    ASSUME SpanState, NEW c \in Callers, RecordOutcome(c) PROVE SpanState'
<1>. PICK n, t : n = using[c] /\ t = Trace(c)
  OBVIOUS
<1>. PICK body : body = [span |-> Span(c), half |-> "outcome"]
  OBVIOUS
<1>1. IsObjectOf(n, t)
  BY DEF SpanState, Registry, RecordOutcome
<1>2. Objects' /\ Databases' /\ ObjectsKept
  <2>1. Write(n, t, "ACTION", body)
    BY DEF RecordOutcome
  <2>. QED BY <1>1, <2>1, WriteKeeps DEF SpanState
<1>3. Calls' /\ OthersCall(c) /\ step'[c] \in {"idle", "find"}
  BY NextCalls DEF RecordOutcome, SpanState
<1>4. Registry'
  BY <1>2, <1>3, RegistryKept DEF SpanState, RecordOutcome
<1>5. Closings'
  BY <1>2, ClosingsKept DEF SpanState, RecordOutcome, shutdowns
<1>. QED BY <1>2, <1>3, <1>4, <1>5 DEF SpanState, TraceFiles, RecordOutcome

\* shutdown changes no call and registers nothing.
LEMMA ShutdownKeeps ==
    ASSUME SpanState, ObjectsKept, UNCHANGED <<given, calls>>,
           registered' = [e \in Exporters |-> registered'[e]],
           \A e \in Exporters : \/ registered'[e] = registered[e]
                                \/ registered'[e] = [t \in Traces |-> 0]
    PROVE  Calls' /\ Registry'
<1>1. Calls'
  BY DEF SpanState, Calls, given, calls
<1>2. ASSUME NEW c \in Callers, step'[c] \in {"call", "outcome"}
      PROVE  IsObjectOf(using[c], Trace(c))'
  <2>. PICK n, t : n = using[c] /\ t = Trace(c)
    OBVIOUS
  <2>1. IsObjectOf(n, t) /\ using'[c] = n /\ Trace(c)' = t
    BY <1>2 DEF SpanState, Registry, calls, given, Trace, Span
  <2>2. IsObjectOf(n, t)'
    BY <2>1, ObjectOfKept DEF SpanState
  <2>. QED BY <2>1, <2>2 DEF IsObjectOf
<1>3. ASSUME NEW e \in Exporters
      PROVE  registered'[e] = [t \in Traces |-> registered'[e][t]]
  BY DEF SpanState, Registry
<1>4. ASSUME NEW e \in Exporters, NEW t \in Traces, registered'[e][t] # 0
      PROVE  IsObjectOf(registered[e][t], t)'
  <2>. PICK n : n = registered'[e][t]
    OBVIOUS
  <2>1. registered'[e] = registered[e]
    BY <1>4
  <2>2. IsObjectOf(n, t)'
    BY <1>4, <2>1, ObjectOfKept DEF SpanState, Registry
  <2>. QED BY <2>2 DEF IsObjectOf
<1>. QED BY <1>1, <1>2, <1>3, <1>4 DEF Registry

LEMMA ShutdownState == ASSUME SpanState, NEW e \in Exporters, Shutdown(e) PROVE SpanState'
<1>1. Objects' /\ ObjectsKept
  BY KeptObjects DEF SpanState, Shutdown
<1>2. Calls' /\ Registry'
  BY <1>1, ShutdownKeeps DEF Shutdown, SpanState, Registry
<1>. PICK items : items = {<<t, registered[e][t]>> : t \in {u \in Traces : registered[e][u] # 0}}
  OBVIOUS
<1>3. /\ closing' = [f \in Exporters |-> closing'[f]] /\ closing'[e] = items
      /\ \A f \in Exporters \ {e} : closing'[f] = closing[f]
  BY DEF Shutdown, SpanState, Closings
<1>4. ASSUME NEW item \in items PROVE IsItem(item)
  BY DEF SpanState, Registry, IsItem
<1>5. \A f \in Exporters : \A item \in closing'[f] : IsItem(item)
  BY <1>3, <1>4 DEF SpanState, Closings
<1>6. Closings'
  BY <1>3, <1>5 DEF SpanState, Closings, IsItem, IsObjectOf, Ledger, Shutdown
<1>. QED BY <1>1, <1>2, <1>6 DEF SpanState, Databases, TraceFiles, Shutdown

LEMMA CloseTraceState == ASSUME SpanState, NEW e \in Exporters, CloseTrace(e) PROVE SpanState'
<1>1. PICK item \in closing[e] :
         /\ ending' = [ending EXCEPT ![e] = item]
         /\ closing' = [closing EXCEPT ![e] = @ \ {item}]
         /\ Write(item[2], item[1], "SESSION_END", [status |-> "success"])
  BY DEF CloseTrace
<1>. PICK n, t : n = item[2] /\ t = item[1]
  OBVIOUS
<1>. PICK body : body = [status |-> "success"]
  OBVIOUS
<1>. PICK type \in {"ACTION", "SESSION_END"} : type = "SESSION_END"
  OBVIOUS
<1>2. IsItem(item) /\ IsObjectOf(n, t)
  BY DEF SpanState, Closings, IsItem
<1>3. Objects' /\ Databases' /\ ObjectsKept /\ EndsIfOne(Ledger(n))'
  <2>1. Write(n, t, type, body)
    BY <1>1
  <2>. QED BY <1>2, <2>1, WriteKeeps DEF SpanState
<1>4. Calls' /\ Registry'
  BY <1>3, ShutdownKeeps DEF CloseTrace, SpanState, Registry
<1>5. ASSUME NEW i, IsItem(i) PROVE IsItem(i)'
  BY <1>3, <1>5, ObjectOfKept DEF SpanState, IsItem
<1>6. /\ closing' = [f \in Exporters |-> closing'[f]] /\ ending' = [f \in Exporters |-> ending'[f]]
      /\ ending'[e] = item /\ \A f \in Exporters \ {e} : ending'[f] = ending[f]
      /\ \A f \in Exporters : closing'[f] \subseteq closing[f]
  BY <1>1 DEF SpanState, Closings
<1>7. ASSUME NEW f \in Exporters, ending'[f] # <<>>
      PROVE  IsItem(ending[f])' /\ EndsIfOne(Ledger(ending[f][2]))'
  <2>1. CASE f = e
    BY <1>2, <1>3, <1>5, <1>6, <2>1 DEF IsItem, IsObjectOf, Ledger
  <2>2. CASE f # e
    <3>. PICK i, m : i = ending[f] /\ m = i[2]
      OBVIOUS
    <3>1. ending'[f] = i /\ IsItem(i) /\ EndsIfOne(Ledger(m)) /\ m \in 1..Len(objects)
      BY <1>6, <1>7, <2>2 DEF SpanState, Closings, IsItem, IsObjectOf
    <3>2. IsItem(i)' /\ EndsIfOne(Ledger(m))'
      BY <1>3, <1>5, <3>1 DEF ObjectsKept
    <3>. QED BY <3>1, <3>2 DEF IsItem, IsObjectOf, Ledger
  <2>. QED BY <2>1, <2>2
<1>8. Closings'
  BY <1>5, <1>6, <1>7 DEF SpanState, Closings
<1>. QED BY <1>3, <1>4, <1>8 DEF SpanState, TraceFiles, CloseTrace

LEMMA ExportTraceState == ASSUME SpanState, NEW e \in Exporters, ExportTrace(e) PROVE SpanState'
<1>. PICK t, n : t = ending[e][1] /\ n = ending[e][2]
  OBVIOUS
<1>1. IsObjectOf(n, t) /\ EndsIfOne(Ledger(n)) /\ Tracking(Ledger(n)) /\ t \in Traces
  BY DEF SpanState, Closings, IsItem, IsObjectOf, Objects, ExportTrace
<1>2. VerifiesIfOne(Exported(Ledger(n)))
  BY <1>1, TrackedVerifies
<1>3. Exported([objects[n] EXCEPT !.rows = traceDb[t]]) = Exported(Ledger(n))
  BY <1>1 DEF Ledger, OnLog, IsObjectOf
<1>4. TraceFiles'
  BY <1>1, <1>2, <1>3 DEF ExportTrace, SpanState, TraceFiles
<1>5. Objects' /\ ObjectsKept
  BY KeptObjects DEF SpanState, ExportTrace
<1>6. Calls' /\ Registry'
  BY <1>5, ShutdownKeeps DEF ExportTrace, SpanState, Registry
<1>7. Closings'
  BY DEF SpanState, Closings, ExportTrace, IsItem, IsObjectOf, Ledger
<1>. QED BY <1>4, <1>5, <1>6, <1>7 DEF SpanState, Databases, ExportTrace

LEMMA ClearState == ASSUME SpanState, NEW e \in Exporters, Clear(e) PROVE SpanState'
<1>1. Objects' /\ ObjectsKept
  BY KeptObjects DEF SpanState, Clear
<1>2. Calls' /\ Registry'
  BY <1>1, ShutdownKeeps DEF Clear, SpanState, Registry
<1>3. Closings'
  BY <1>1, ClosingsKept DEF SpanState, Clear
<1>. QED BY <1>1, <1>2, <1>3 DEF SpanState, Databases, TraceFiles, Clear

LEMMA ExportState == ASSUME SpanState, NEW c \in Callers, Export(c) PROVE SpanState'
<1>1. Calls' /\ OthersCall(c) /\ step'[c] = "find"
  BY ExportCalls DEF SpanState
<1>. QED BY <1>1, LoopKeeps DEF Export

LEMMA SpanStateStep == SpanState /\ [SpanNext]_spanVars => SpanState'
<1>. SUFFICES ASSUME SpanState, [SpanNext]_spanVars PROVE SpanState'
  OBVIOUS
<1>1. CASE UNCHANGED spanVars
  <2>1. Objects' /\ ObjectsKept
    BY <1>1, KeptObjects DEF SpanState, spanVars
  <2>2. Calls' /\ Registry'
    BY <1>1, <2>1, ShutdownKeeps DEF spanVars, SpanState, Registry
  <2>3. Closings'
    BY <1>1, <2>1, ClosingsKept DEF SpanState, spanVars, shutdowns
  <2>. QED BY <1>1, <2>1, <2>2, <2>3 DEF SpanState, Databases, TraceFiles, spanVars
<1>2. ASSUME NEW c \in Callers,
             \/ Export(c) \/ Skip(c) \/ Find(c) \/ Open(c) \/ OpenFails(c)
             \/ RecordCall(c) \/ RecordOutcome(c)
      PROVE  SpanState'
  BY <1>2, ExportState, SkipState, FindState, OpenState, OpenFailsState, RecordCallState,
     RecordOutcomeState
<1>3. ASSUME NEW e \in Exporters,
             Shutdown(e) \/ CloseTrace(e) \/ ExportTrace(e) \/ Clear(e)
      PROVE  SpanState'
  BY <1>3, ShutdownState, CloseTraceState, ExportTraceState, ClearState
<1>. QED BY <1>1, <1>2, <1>3 DEF SpanNext

LEMMA SpanStateInit == SpanInit => SpanState
<1>. SUFFICES ASSUME SpanInit PROVE SpanState
  OBVIOUS
<1>1. IsSeq(<<>>) /\ Len(<<>>) = 0
  BY DEF IsSeq
<1>2. Calls
  BY <1>1 DEF SpanInit, Calls
<1>3. Objects
  BY <1>1 DEF SpanInit, Objects
<1>4. Databases
  BY <1>1 DEF SpanInit, Databases, IsTraceLog, IsLogOf, EmptyOrStarted, StartsFirst
<1>5. Registry
  BY DEF SpanInit, Registry
<1>6. Closings
  BY DEF SpanInit, Closings
<1>7. TraceFiles
  BY DEF SpanInit, TraceFiles, VerifiesIfOne
<1>. QED BY <1>2, <1>3, <1>4, <1>5, <1>6, <1>7 DEF SpanState

LEMMA SpanStateHolds == SpanSpec => []SpanState
  BY SpanStateInit, SpanStateStep, PTL DEF SpanSpec

LEMMA TraceFileVerifies == SpanSpec => []TraceFilesVerify
<1>1. SpanState => TraceFilesVerify
  BY DEF SpanState, TraceFiles, TraceFilesVerify, VerifiesIfOne
<1>. QED BY <1>1, SpanStateHolds, PTL

\* However the callbacks of CrewAI, AutoGPT and OpenTelemetry follow each other, whatever
\* threads and processes they come from and whatever fails in between: a file that one of
\* the integrations wrote, holding one session, verifies.
THEOREM FirstFiles == IntegrationSpec => []FirstFilesVerify
  BY EachRuns, CrewFileVerifies, PluginFileVerifies, TraceFileVerifies, PTL
  DEF FirstFilesVerify

\* How much of a span is in the databases: nothing, its call or (WhollyStored) both events.
Unstored(s) == EventsOf(s) = {}

HalfStored(s) ==
    \E i \in DOMAIN traceDb[traceOf[s]] :
       /\ EventsOf(s) = {<<traceOf[s], i>>}
       /\ traceDb[traceOf[s]][i].payload.body.half = "call"

OfSpan(e, s) == Has(e.payload.body, "span") /\ e.payload.body.span = s

\* A step keeps what is stored of span s.
Keeps(s) ==
    /\ Unstored(s) => Unstored(s)'
    /\ HalfStored(s) => HalfStored(s)'
    /\ WhollyStored(s) => WhollyStored(s)'

LEMMA InEventsOf ==
    ASSUME NEW s, NEW t, NEW i
    PROVE  <<t, i>> \in EventsOf(s) <=>
              t \in Traces /\ i \in DOMAIN traceDb[t] /\ OfSpan(traceDb[t][i], s)
BY DEF EventsOf, OfSpan

LEMMA EventsAre ==
    ASSUME NEW s, NEW x \in EventsOf(s)
    PROVE  \E t, i : x = <<t, i>>
BY DEF EventsOf

LEMMA EventsSame == ASSUME NEW s, UNCHANGED traceDb PROVE EventsOf(s)' = EventsOf(s)
BY DEF EventsOf

LEMMA KeptUnwritten ==
    ASSUME NEW s, UNCHANGED traceDb, traceOf'[s] = traceOf[s]
    PROVE  Keeps(s)
<1>1. EventsOf(s)' = EventsOf(s)
  BY EventsSame
<1>. QED BY <1>1 DEF Keeps, Unstored, HalfStored, WhollyStored

LEMMA EventsGrow ==
    ASSUME Databases, NEW t, NEW e, GrowsBy(t, e), NEW s
    PROVE  /\ ~OfSpan(e, s) => EventsOf(s)' = EventsOf(s)
           /\ OfSpan(e, s) => EventsOf(s)' = EventsOf(s) \cup {<<t, Len(traceDb[t]) + 1>>}
<1>. PICK log : log = traceDb[t]
  OBVIOUS
<1>1. /\ Len(log) \in Nat /\ DOMAIN log = 1..Len(log) /\ DOMAIN traceDb'[t] = 1..(Len(log) + 1)
      /\ \A i \in 1..Len(log) : traceDb'[t][i] = log[i]
      /\ traceDb'[t][Len(log) + 1] = e
  <2>1. IsSeq(log) /\ traceDb'[t] = Append(log, e)
    BY DEF Databases, GrowsBy, IsTraceLog, IsLogOf
  <2>. QED BY <2>1, Appending, SeqDomain
<1>2. t \in Traces /\ \A u \in Traces \ {t} : traceDb'[u] = traceDb[u]
  BY DEF Databases, GrowsBy
<1>3. ASSUME NEW u, NEW i
      PROVE  <<u, i>> \in EventsOf(s)' <=>
                <<u, i>> \in EventsOf(s) \/ (OfSpan(e, s) /\ u = t /\ i = Len(log) + 1)
  <2>1. <<u, i>> \in EventsOf(s)' <=>
           u \in Traces /\ i \in DOMAIN traceDb'[u] /\ OfSpan(traceDb'[u][i], s)
    BY DEF EventsOf, OfSpan
  <2>2. <<u, i>> \in EventsOf(s) <=>
           u \in Traces /\ i \in DOMAIN traceDb[u] /\ OfSpan(traceDb[u][i], s)
    BY InEventsOf
  <2>3. CASE u = t
    <3>1. CASE i = Len(log) + 1
      BY <1>1, <1>2, <2>1, <2>2, <2>3, <3>1
    <3>2. CASE i # Len(log) + 1
      <4>1. i \in 1..(Len(log) + 1) <=> i \in 1..Len(log)
        BY <1>1, <3>2
      <4>. QED BY <1>1, <1>2, <2>1, <2>2, <2>3, <3>2, <4>1
    <3>. QED BY <3>1, <3>2
  <2>4. CASE u # t
    BY <1>2, <2>1, <2>2, <2>4
  <2>. QED BY <2>3, <2>4
<1>4. /\ \A x \in EventsOf(s) : \E u, i : x = <<u, i>>
      /\ \A x \in EventsOf(s)' : \E u, i : x = <<u, i>>
  BY DEF EventsOf
<1>5. CASE ~OfSpan(e, s)
  BY <1>3, <1>4, <1>5
<1>6. CASE OfSpan(e, s)
  BY <1>3, <1>4, <1>6
<1>. QED BY <1>5, <1>6

\* Places in the database of a trace that grows stay what they are.
PlacesKept(t) ==
    \A i \in DOMAIN traceDb[t] : i \in DOMAIN traceDb'[t] /\ traceDb'[t][i] = traceDb[t][i]

LEMMA PlacesStay ==
    ASSUME Databases, NEW t, NEW e, GrowsBy(t, e), NEW u \in Traces
    PROVE  PlacesKept(u)
<1>1. CASE u = t
  <2>1. IsSeq(traceDb[t]) /\ traceDb'[t] = Append(traceDb[t], e)
    BY <1>1 DEF Databases, GrowsBy, IsTraceLog, IsLogOf
  <2>. QED BY <1>1, <2>1, Appending, SeqDomain DEF PlacesKept
<1>2. CASE u # t
  BY <1>2 DEF Databases, GrowsBy, PlacesKept
<1>. QED BY <1>1, <1>2

\* An event that is not of span s.
LEMMA KeptByOthers ==
    ASSUME Databases, NEW t, NEW e, GrowsBy(t, e), NEW s, ~OfSpan(e, s),
           traceOf'[s] = traceOf[s]
    PROVE  Keeps(s)
<1>1. EventsOf(s)' = EventsOf(s)
  BY EventsGrow
<1>2. Unstored(s) => Unstored(s)'
  BY <1>1 DEF Unstored
<1>. PICK u : u = traceOf[s]
  OBVIOUS
<1>3. ASSUME NEW i, <<u, i>> \in EventsOf(s)
      PROVE  i \in DOMAIN traceDb'[u] /\ traceDb'[u][i] = traceDb[u][i] /\ 1 \in DOMAIN traceDb[u]
  <2>1. u \in Traces /\ i \in DOMAIN traceDb[u]
    BY <1>3, InEventsOf
  <2>2. PlacesKept(u)
    BY <2>1, PlacesStay
  <2>3. 1 \in DOMAIN traceDb[u]
    <3>1. IsSeq(traceDb[u])
      BY <2>1 DEF Databases, IsTraceLog, IsLogOf
    <3>. QED BY <2>1, <3>1, SeqDomain
  <2>. QED BY <2>1, <2>2, <2>3 DEF PlacesKept
<1>4. HalfStored(s) => HalfStored(s)'
  <2>. SUFFICES ASSUME HalfStored(s) PROVE HalfStored(s)'
    OBVIOUS
  <2>1. PICK i \in DOMAIN traceDb[u] :
           EventsOf(s) = {<<u, i>>} /\ traceDb[u][i].payload.body.half = "call"
    BY DEF HalfStored
  <2>. QED BY <1>1, <1>3, <2>1 DEF HalfStored
<1>5. WhollyStored(s) => WhollyStored(s)'
  <2>. SUFFICES ASSUME WhollyStored(s) PROVE WhollyStored(s)'
    OBVIOUS
  <2>1. PICK i \in DOMAIN traceDb[u], j \in DOMAIN traceDb[u] :
           /\ i < j /\ EventsOf(s) = {<<u, i>>, <<u, j>>}
           /\ traceDb[u][i].payload.body.half = "call"
           /\ traceDb[u][j].payload.body.half = "outcome"
           /\ traceDb[u][i].session = u /\ traceDb[u][j].session = u
           /\ traceDb[u][1].type = "SESSION_START"
    BY DEF WhollyStored
  <2>2. u \in Traces
    BY <2>1, InEventsOf
  <2>3. /\ i \in DOMAIN traceDb'[u] /\ traceDb'[u][i] = traceDb[u][i]
        /\ j \in DOMAIN traceDb'[u] /\ traceDb'[u][j] = traceDb[u][j]
        /\ traceDb'[u][1] = traceDb[u][1]
    <3>1. 1 \in DOMAIN traceDb[u] /\ PlacesKept(u)
      BY <1>3, <2>1, <2>2, PlacesStay
    <3>. QED BY <2>1, <3>1 DEF PlacesKept
  <2>. QED BY <1>1, <2>1, <2>3 DEF WhollyStored
<1>. QED BY <1>2, <1>4, <1>5 DEF Keeps

\* The call of a span is recorded.
LEMMA CallIsHalf ==
    ASSUME Databases, NEW s, NEW t, t = traceOf[s], traceOf'[s] = t, NEW e, GrowsBy(t, e),
           e.payload.body = [span |-> s, half |-> "call"], Unstored(s)
    PROVE  HalfStored(s)'
<1>. PICK n : n = Len(traceDb[t]) + 1
  OBVIOUS
<1>1. OfSpan(e, s) /\ e.payload.body.half = "call"
  BY DEF OfSpan, Has
<1>2. EventsOf(s)' = {<<t, n>>}
  BY <1>1, EventsGrow DEF Unstored
<1>3. n \in DOMAIN traceDb'[t] /\ traceDb'[t][n] = e
  <2>1. IsSeq(traceDb[t]) /\ traceDb'[t] = Append(traceDb[t], e)
    BY DEF Databases, GrowsBy, IsTraceLog, IsLogOf
  <2>. QED BY <2>1, Appending, SeqDomain
<1>. QED BY <1>1, <1>2, <1>3 DEF HalfStored

\* The outcome of a span is recorded after its call.
LEMMA OutcomeIsWhole ==
    ASSUME Databases, Databases', NEW s, NEW t, t = traceOf[s], traceOf'[s] = t, NEW e,
           GrowsBy(t, e), e.payload.body = [span |-> s, half |-> "outcome"], HalfStored(s)
    PROVE  WhollyStored(s)'
<1>. PICK n : n = Len(traceDb[t]) + 1
  OBVIOUS
<1>1. OfSpan(e, s) /\ e.payload.body.half = "outcome"
  BY DEF OfSpan, Has
<1>2. PICK i \in DOMAIN traceDb[t] :
         EventsOf(s) = {<<t, i>>} /\ traceDb[t][i].payload.body.half = "call"
  BY DEF HalfStored
<1>3. EventsOf(s)' = {<<t, i>>, <<t, n>>}
  BY <1>1, <1>2, EventsGrow
<1>4. /\ n \in DOMAIN traceDb'[t] /\ traceDb'[t][n] = e /\ i < n
      /\ i \in DOMAIN traceDb'[t] /\ traceDb'[t][i] = traceDb[t][i]
  <2>1. IsSeq(traceDb[t]) /\ traceDb'[t] = Append(traceDb[t], e)
    BY DEF Databases, GrowsBy, IsTraceLog, IsLogOf
  <2>. QED BY <1>2, <2>1, Appending, SeqDomain
<1>5. t \in Traces /\ IsTraceLog(traceDb'[t], t)
  BY DEF Databases, GrowsBy
<1>6. /\ traceDb'[t][i].session = t /\ traceDb'[t][n].session = t
      /\ traceDb'[t][1].type = "SESSION_START"
  BY <1>4, <1>5 DEF IsTraceLog, IsLogOf, StartsFirst
<1>. QED BY <1>1, <1>2, <1>3, <1>4, <1>6 DEF WhollyStored

-----------------------------------------------------------------------------
(* What is stored of the spans of a call.                                  *)

\* Place i of the batch of call c.
Progress(c, i) ==
    /\ i < at[c] => batch[c][i] \in plain \/ WhollyStored(batch[c][i])
    /\ i = at[c] => IF step[c] = "outcome" THEN HalfStored(batch[c][i]) ELSE Unstored(batch[c][i])
    /\ i > at[c] => Unstored(batch[c][i])

Reported(s) ==
    /\ reported[s] = "open" => Unstored(s)
    /\ reported[s] = "SUCCESS" => s \in plain \/ WhollyStored(s)
    /\ reported[s] = "FAILURE" => s \in plain \/ Unstored(s) \/ WhollyStored(s)

SpanProgress ==
    /\ \A s \in Spans : Reported(s)
    /\ \A c \in Callers : \A i \in 1..Len(batch[c]) : Progress(c, i)

LEMMA ProgressKept ==
    ASSUME Calls, NEW d \in Callers, SameCall(d), plain \subseteq plain',
           NEW i \in 1..Len(batch[d]), Keeps(batch[d][i]), Progress(d, i)
    PROVE  Progress(d, i)'
BY DEF SameCall, Keeps, Progress

LEMMA ReportedKept ==
    ASSUME NEW s, Keeps(s), reported'[s] = reported[s], plain \subseteq plain', Reported(s)
    PROVE  Reported(s)'
BY DEF Keeps, Reported

\* Calls other than c, when a step keeps what is stored of their spans.
LEMMA OthersProgress ==
    ASSUME Calls, SpanProgress, NEW c \in Callers, OthersCall(c), plain \subseteq plain',
           \A d \in Callers \ {c} : \A i \in 1..Len(batch[d]) : Keeps(batch[d][i])
    PROVE  \A d \in Callers \ {c} : \A i \in 1..Len(batch'[d]) : Progress(d, i)'
<1>. SUFFICES ASSUME NEW d \in Callers, d # c, NEW i \in 1..Len(batch'[d])
              PROVE  Progress(d, i)'
  OBVIOUS
<1>1. SameCall(d) /\ i \in 1..Len(batch[d])
  BY DEF OthersCall, SameCall
<1>2. Keeps(batch[d][i]) /\ Progress(d, i)
  BY <1>1 DEF SpanProgress
<1>. QED BY <1>1, <1>2, ProgressKept

LEMMA BatchSpans ==
    ASSUME Calls, NEW c \in Callers
    PROVE  \A s : s \in Range(batch[c]) <=> \E i \in 1..Len(batch[c]) : s = batch[c][i]
BY SeqDomain DEF Calls, Range

\* What is reported when a call returns.
LEMMA ReturnReports ==
    ASSUME Calls, SpanProgress, NEW c \in Callers, step[c] # "idle",
           NEW r \in {"SUCCESS", "FAILURE"}, Return(c, r), UNCHANGED given,
           \A s \in Spans \ {Span(c)} : Keeps(s),
           \A s \in Range(batch[c]) :
              \/ s \in plain
              \/ WhollyStored(s)'
              \/ r = "FAILURE" /\ Unstored(s)'
    PROVE  SpanProgress'
<1>1. OthersCall(c) /\ batch'[c] = <<>> /\ plain' = plain
  <2>1. OthersCall(c)
    BY ReturnCalls
  <2>2. batch'[c] = <<>> /\ plain' = plain
    BY DEF Return, given, Calls
  <2>. QED BY <2>1, <2>2
<1>2. ASSUME NEW s \in Spans PROVE Reported(s)'
  <2>1. reported' = [u \in Spans |-> IF u \in Range(batch[c]) THEN r ELSE reported[u]]
    BY DEF Return
  <2>2. CASE s \in Range(batch[c])
    <3>1. reported'[s] = r
      BY <2>1, <2>2
    <3>2. s \in plain' \/ WhollyStored(s)' \/ (r = "FAILURE" /\ Unstored(s)')
      BY <1>1, <2>2
    <3>. QED BY <3>1, <3>2 DEF Reported
  <2>3. CASE s \notin Range(batch[c])
    <3>1. reported'[s] = reported[s]
      BY <2>1, <2>3
    <3>2. s # Span(c)
      BY <2>3, BatchSpans, InCall DEF Span
    <3>. QED BY <1>1, <3>1, <3>2, ReportedKept DEF SpanProgress
  <2>. QED BY <2>2, <2>3
<1>3. ASSUME NEW d \in Callers, d # c, NEW i \in 1..Len(batch[d]) PROVE Keeps(batch[d][i])
  <2>1. batch[d][i] \in Spans /\ batch[d][i] # Span(c)
    BY <1>3, InCall DEF Calls, Span
  <2>. QED BY <2>1
<1>4. \A d \in Callers \ {c} : \A i \in 1..Len(batch'[d]) : Progress(d, i)'
  BY <1>1, <1>3, OthersProgress
<1>5. Len(batch'[c]) = 0
  BY <1>1
<1>. QED BY <1>2, <1>4, <1>5 DEF SpanProgress

\* A call that goes on, with the spans before and after the current one as they were.
LEMMA GoesOn ==
    ASSUME Calls, SpanProgress, NEW c \in Callers, step[c] # "idle", OthersCall(c),
           UNCHANGED <<given, batch, reported>>, at'[c] \in {at[c], at[c] + 1},
           \A s \in Spans \ {Span(c)} : Keeps(s),
           \A i \in at[c]..Len(batch[c]) : Progress(c, i)'
    PROVE  SpanProgress'
<1>1. at[c] \in 1..Len(batch[c]) /\ plain' = plain /\ traceOf' = traceOf
  BY InCall DEF given
<1>2. ASSUME NEW d \in Callers, NEW i \in 1..Len(batch[d]), d # c \/ i # at[c]
      PROVE  Keeps(batch[d][i])
  <2>1. batch[d][i] \in Spans /\ batch[d][i] # Span(c)
    BY <1>1, <1>2 DEF Calls, Span
  <2>. QED BY <2>1
<1>3. \A d \in Callers \ {c} : \A i \in 1..Len(batch'[d]) : Progress(d, i)'
  BY <1>1, <1>2, OthersProgress
<1>4. ASSUME NEW i \in 1..Len(batch'[c]) PROVE Progress(c, i)'
  <2>1. CASE i \in at[c]..Len(batch[c])
    BY <2>1
  <2>2. CASE i \notin at[c]..Len(batch[c])
    <3>0. Len(batch[c]) \in Nat
      BY SeqDomain DEF Calls
    <3>1. i < at[c] /\ i \in 1..Len(batch[c]) /\ at'[c] \in Nat
      BY <1>1, <1>4, <2>2, <3>0
    <3>2. Progress(c, i) /\ Keeps(batch[c][i])
      BY <1>2, <3>1 DEF SpanProgress
    <3>3. i < at'[c] /\ ~(i = at'[c]) /\ ~(i > at'[c])
      BY <1>1, <3>0, <3>1
    <3>. QED BY <1>1, <3>1, <3>2, <3>3 DEF Progress, Keeps
  <2>. QED BY <2>1, <2>2
<1>5. ASSUME NEW s \in Spans PROVE Reported(s)'
  <2>1. CASE s = Span(c)
    <3>1. reported'[s] = "exporting"
      BY <2>1, InCall
    <3>. QED BY <3>1 DEF Reported
  <2>2. CASE s # Span(c)
    BY <1>1, <2>2, ReportedKept DEF SpanProgress
  <2>. QED BY <2>1, <2>2
<1>. QED BY <1>3, <1>4, <1>5 DEF SpanProgress

\* The current span of a call is done, and the call goes to the next one or returns.
LEMMA NextProgress ==
    ASSUME Calls, SpanProgress, NEW c \in Callers, step[c] # "idle", NextSpan(c), UNCHANGED given,
           \A s \in Spans \ {Span(c)} : Keeps(s),
           NEW u, u = Span(c), u \in plain \/ WhollyStored(u)'
    PROVE  SpanProgress'
<1>1. OthersCall(c) /\ Len(batch[c]) \in Nat /\ at[c] \in 1..Len(batch[c])
  BY NextCalls, InCall, SeqDomain DEF Calls
<1>2. ASSUME NEW i \in 1..Len(batch[c]), i # at[c]
      PROVE  batch[c][i] \in Spans \ {u} /\ Progress(c, i)
  BY <1>1, <1>2 DEF Calls, Span, SpanProgress
<1>3. CASE at[c] = Len(batch[c])
  <2>. PICK r \in {"SUCCESS", "FAILURE"} : r = "SUCCESS"
    OBVIOUS
  <2>1. Return(c, r)
    BY <1>3 DEF NextSpan
  <2>2. ASSUME NEW s \in Range(batch[c]) PROVE s \in plain \/ WhollyStored(s)'
    <3>1. PICK i \in 1..Len(batch[c]) : s = batch[c][i]
      BY BatchSpans
    <3>2. CASE i = at[c]
      BY <3>1, <3>2 DEF Span
    <3>3. CASE i # at[c]
      <4>1. i < at[c]
        BY <1>1, <1>3, <3>3
      <4>2. s \in Spans \ {u} /\ (s \in plain \/ WhollyStored(s))
        BY <1>2, <3>1, <3>3, <4>1 DEF Progress
      <4>. QED BY <4>2 DEF Keeps
    <3>. QED BY <3>2, <3>3
  <2>. QED BY <2>1, <2>2, ReturnReports
<1>4. CASE at[c] # Len(batch[c])
  <2>1. /\ at' = [at EXCEPT ![c] = @ + 1] /\ Step(c, "find") /\ UNCHANGED <<batch, reported>>
    BY <1>4 DEF NextSpan
  <2>2. at'[c] = at[c] + 1 /\ step'[c] = "find"
    BY <2>1 DEF Calls, Step
  <2>3. ASSUME NEW i \in at[c]..Len(batch[c]) PROVE Progress(c, i)'
    <3>1. plain' = plain /\ batch' = batch
      BY <2>1 DEF given
    <3>2. CASE i = at[c]
      <4>1. i < at'[c] /\ i # at'[c] /\ ~(i > at'[c]) /\ batch'[c][i] = u
        BY <1>1, <2>2, <3>1, <3>2 DEF Span
      <4>. QED BY <3>1, <4>1 DEF Progress
    <3>3. CASE i # at[c]
      <4>. PICK s : s = batch[c][i]
        OBVIOUS
      <4>1. i \in 1..Len(batch[c]) /\ i > at[c] /\ ~(i < at'[c])
        BY <1>1, <2>2, <3>3
      <4>2. s \in Spans \ {u} /\ Unstored(s)
        BY <1>2, <3>3, <4>1 DEF Progress
      <4>3. Unstored(s)'
        BY <4>2 DEF Keeps
      <4>. QED BY <2>2, <3>1, <4>1, <4>3 DEF Progress
    <3>. QED BY <3>2, <3>3
  <2>4. UNCHANGED <<given, batch, reported>> /\ at'[c] \in {at[c], at[c] + 1}
    BY <2>1, <2>2
  <2>. QED BY <1>1, <2>3, <2>4, GoesOn
<1>. QED BY <1>3, <1>4

\* A call stays at its current span.
LEMMA StaysProgress ==
    ASSUME Calls, SpanProgress, NEW c \in Callers, step[c] # "idle", OthersCall(c),
           UNCHANGED <<given, batch, at, reported>>,
           \A s \in Spans \ {Span(c)} : Keeps(s),
           IF step'[c] = "outcome" THEN HalfStored(Span(c))' ELSE Unstored(Span(c))'
    PROVE  SpanProgress'
<1>1. at[c] \in 1..Len(batch[c]) /\ Len(batch[c]) \in Nat /\ plain' = plain
  BY InCall, SeqDomain DEF Calls, given
<1>2. ASSUME NEW i \in at[c]..Len(batch[c]) PROVE Progress(c, i)'
  <2>1. CASE i = at[c]
    BY <1>1, <2>1 DEF Progress, Span
  <2>2. CASE i # at[c]
    <3>. PICK s : s = batch[c][i]
      OBVIOUS
    <3>1. i \in 1..Len(batch[c]) /\ i > at[c] /\ ~(i < at[c])
      BY <1>1, <2>2
    <3>2. s \in Spans \ {Span(c)} /\ Unstored(s)
      BY <1>1, <2>2, <3>1 DEF Calls, Span, SpanProgress, Progress
    <3>3. Unstored(s)'
      BY <3>2 DEF Keeps
    <3>. QED BY <2>2, <3>1, <3>3 DEF Progress
  <2>. QED BY <2>1, <2>2
<1>3. UNCHANGED <<given, batch, reported>> /\ at'[c] \in {at[c], at[c] + 1}
  OBVIOUS
<1>. QED BY <1>2, <1>3, GoesOn

LEMMA SkipProgress ==
    ASSUME SpanState, SpanProgress, NEW c \in Callers, Skip(c) PROVE SpanProgress'
<1>. PICK u : u = Span(c)
  OBVIOUS
<1>1. u \in plain /\ step[c] # "idle" /\ NextSpan(c) /\ UNCHANGED given
  BY DEF Skip
<1>2. \A s \in Spans \ {Span(c)} : Keeps(s)
  BY KeptUnwritten DEF Skip, given
<1>. QED BY <1>1, <1>2, NextProgress DEF SpanState

LEMMA FindProgress ==
    ASSUME SpanState, SpanProgress, NEW c \in Callers, Find(c) PROVE SpanProgress'
<1>. PICK n : n = registered[exporterOf[c]][Trace(c)]
  OBVIOUS
<1>. PICK to \in {"open", "call"} : to = IF n = 0 THEN "open" ELSE "call"
  OBVIOUS
<1>1. using' = [using EXCEPT ![c] = n] /\ using'[c] = n /\ Step(c, to)
  BY DEF Find, SpanState, Calls
<1>2. OthersCall(c) /\ step'[c] = to
  BY <1>1, StepCalls DEF Find, SpanState
<1>3. \A s : Keeps(s)
  BY KeptUnwritten DEF Find, given
<1>4. Unstored(Span(c))'
  <2>. PICK u : u = Span(c)
    OBVIOUS
  <2>1. Unstored(u) /\ u = Span(c)'
    BY InCall DEF Find, SpanState, SpanProgress, Progress, Span
  <2>2. Unstored(u)'
    BY <1>3, <2>1 DEF Keeps
  <2>. QED BY <2>1, <2>2 DEF Unstored
<1>. QED BY <1>2, <1>3, <1>4, StaysProgress DEF Find, SpanState

LEMMA OpenProgress ==
    ASSUME SpanState, SpanProgress, NEW c \in Callers, Open(c) PROVE SpanProgress'
<1>. PICK t : t = Trace(c)
  OBVIOUS
<1>1. t \in Traces
  BY InCall DEF SpanState, Open
<1>2. PICK l : OpensOn(t, l)
  BY DEF Open, Register, OpensOn
<1>3. PICK e : ~Has(e.payload.body, "span") /\ GrowsBy(t, e)
  BY <1>1, <1>2, OpenKeeps DEF SpanState
<1>4. \A s : Keeps(s)
  BY <1>3, KeptByOthers DEF SpanState, Open, given, OfSpan
<1>5. OthersCall(c) /\ step'[c] = "call"
  <2>. PICK n : n = Len(objects')
    OBVIOUS
  <2>. PICK to \in {"find", "open", "call", "outcome"} : to = "call"
    OBVIOUS
  <2>1. using' = [using EXCEPT ![c] = n] /\ Step(c, to)
    BY DEF Open
  <2>. QED BY <2>1, StepCalls DEF Open, SpanState
<1>6. Unstored(Span(c))'
  <2>. PICK u : u = Span(c)
    OBVIOUS
  <2>1. Unstored(u) /\ u = Span(c)'
    BY InCall DEF Open, SpanState, SpanProgress, Progress, Span
  <2>2. Unstored(u)'
    BY <1>4, <2>1 DEF Keeps
  <2>. QED BY <2>1, <2>2 DEF Unstored
<1>. QED BY <1>4, <1>5, <1>6, StaysProgress DEF Open, SpanState

LEMMA OpenFailsProgress ==
    ASSUME SpanState, SpanProgress, NEW c \in Callers, OpenFails(c) PROVE SpanProgress'
<1>1. \A s : Keeps(s)
  BY KeptUnwritten DEF OpenFails, given
<1>. PICK r \in {"SUCCESS", "FAILURE"} : r = "FAILURE"
  OBVIOUS
<1>2. ASSUME NEW s \in Range(batch[c])
      PROVE  s \in plain \/ WhollyStored(s)' \/ (r = "FAILURE" /\ Unstored(s)')
  <2>1. PICK i \in 1..Len(batch[c]) : s = batch[c][i]
    BY BatchSpans DEF SpanState
  <2>2. at[c] \in Nat /\ i \in Nat
    BY InCall, SeqDomain DEF OpenFails, SpanState, Calls
  <2>3. s \in plain \/ WhollyStored(s) \/ Unstored(s)
    BY <2>1, <2>2 DEF SpanProgress, Progress, OpenFails
  <2>. QED BY <1>1, <2>3 DEF Keeps
<1>3. step[c] # "idle" /\ Return(c, r) /\ UNCHANGED given
  BY DEF OpenFails
<1>. QED BY <1>1, <1>2, <1>3, ReturnReports DEF SpanState

LEMMA RecordCallProgress ==
    ASSUME SpanState, SpanProgress, NEW c \in Callers, RecordCall(c) PROVE SpanProgress'
<1>. PICK n, t, u : n = using[c] /\ t = Trace(c) /\ u = Span(c)
  OBVIOUS
<1>. PICK body : body = [span |-> u, half |-> "call"]
  OBVIOUS
<1>1. PICK e : e.payload.body = body /\ GrowsBy(t, e)
  <2>1. IsObjectOf(n, t) /\ Write(n, t, "ACTION", body)
    BY DEF SpanState, Registry, RecordCall
  <2>. QED BY <2>1, WriteKeeps DEF SpanState
<1>2. ASSUME NEW s \in Spans \ {Span(c)} PROVE Keeps(s)
  <2>1. ~OfSpan(e, s)
    BY <1>1, <1>2 DEF OfSpan
  <2>. QED BY <1>1, <2>1, KeptByOthers DEF SpanState, RecordCall, given
<1>3. OthersCall(c) /\ step'[c] = "outcome"
  <2>. PICK to \in {"find", "open", "call", "outcome"} : to = "outcome"
    OBVIOUS
  <2>1. OthersCall(c) /\ step'[c] = to
    BY StepCalls DEF RecordCall, SpanState
  <2>. QED BY <2>1
<1>4. HalfStored(Span(c))'
  <2>1. Unstored(u) /\ u = Span(c)' /\ t = traceOf[u] /\ traceOf'[u] = t
    BY InCall DEF RecordCall, SpanState, SpanProgress, Progress, Span, Trace, given
  <2>2. HalfStored(u)'
    BY <1>1, <2>1, CallIsHalf DEF SpanState
  <2>. QED BY <2>1, <2>2 DEF HalfStored
<1>. QED BY <1>2, <1>3, <1>4, StaysProgress DEF RecordCall, SpanState

LEMMA RecordOutcomeProgress ==
    ASSUME SpanState, SpanProgress, NEW c \in Callers, RecordOutcome(c) PROVE SpanProgress'
<1>. PICK n, t, u : n = using[c] /\ t = Trace(c) /\ u = Span(c)
  OBVIOUS
<1>. PICK body : body = [span |-> u, half |-> "outcome"]
  OBVIOUS
<1>1. PICK e : e.payload.body = body /\ GrowsBy(t, e)
  <2>1. IsObjectOf(n, t) /\ Write(n, t, "ACTION", body)
    BY DEF SpanState, Registry, RecordOutcome
  <2>. QED BY <2>1, WriteKeeps DEF SpanState
<1>2. ASSUME NEW s \in Spans \ {Span(c)} PROVE Keeps(s)
  <2>1. ~OfSpan(e, s)
    BY <1>1, <1>2 DEF OfSpan
  <2>. QED BY <1>1, <2>1, KeptByOthers DEF SpanState, RecordOutcome, given
<1>3. WhollyStored(u)'
  <2>1. HalfStored(u) /\ t = traceOf[u] /\ traceOf'[u] = t
    BY InCall DEF RecordOutcome, SpanState, SpanProgress, Progress, Span, Trace, given
  <2>2. Databases'
    BY RecordOutcomeState DEF SpanState
  <2>. QED BY <1>1, <2>1, <2>2, OutcomeIsWhole DEF SpanState
<1>4. step[c] # "idle" /\ NextSpan(c) /\ UNCHANGED given
  BY DEF RecordOutcome
<1>. QED BY <1>2, <1>3, <1>4, NextProgress DEF SpanState

LEMMA ExportProgress ==
    ASSUME SpanState, SpanProgress, NEW c \in Callers, Export(c) PROVE SpanProgress'
<1>1. PICK ended \in SUBSET Spans :
         /\ \A u \in ended : reported[u] = "open"
         /\ Range(batch'[c]) \subseteq ended
         /\ reported' = [u \in Spans |-> IF u \in ended THEN "exporting" ELSE reported[u]]
         /\ \A u \in Spans \ ended : traceOf'[u] = traceOf[u]
  <2>1. PICK s \in Spans : \E more \in {<<>>} \cup {<<u>> : u \in Spans \ {s}} :
           LET ended == {s} \cup Range(more) IN
           /\ \A u \in ended : reported[u] = "open"
           /\ batch' = [batch EXCEPT ![c] = <<s>> \o more]
           /\ reported' = [u \in Spans |-> IF u \in ended THEN "exporting" ELSE reported[u]]
           /\ \E traces \in [ended -> Traces] :
                 traceOf' = [u \in Spans |-> IF u \in ended THEN traces[u] ELSE traceOf[u]]
    BY DEF Export
  <2>2. PICK more \in {<<>>} \cup {<<u>> : u \in Spans \ {s}} :
           LET ended == {s} \cup Range(more) IN
           /\ \A u \in ended : reported[u] = "open"
           /\ batch' = [batch EXCEPT ![c] = <<s>> \o more]
           /\ reported' = [u \in Spans |-> IF u \in ended THEN "exporting" ELSE reported[u]]
           /\ \E traces \in [ended -> Traces] :
                 traceOf' = [u \in Spans |-> IF u \in ended THEN traces[u] ELSE traceOf[u]]
    BY <2>1
  <2>. PICK ended : ended = {s} \cup Range(more)
    OBVIOUS
  <2>3. /\ \A u \in ended : reported[u] = "open"
        /\ reported' = [u \in Spans |-> IF u \in ended THEN "exporting" ELSE reported[u]]
        /\ \A u \in Spans \ ended : traceOf'[u] = traceOf[u]
    BY <2>2
  <2>4. Range(more) \subseteq Spans /\ more \in Seq(Spans)
    <3>1. more \in Seq(Spans)
      <4>1. CASE more = <<>>
        BY <4>1
      <4>2. CASE more # <<>>
        BY <4>2
      <4>. QED BY <4>1, <4>2
    <3>2. \A i \in DOMAIN more : more[i] \in Spans
      BY <3>1
    <3>. QED BY <3>1, <3>2 DEF Range
  <2>5. batch'[c] = <<s>> \o more
    BY <2>2 DEF SpanState, Calls
  <2>6. Range(<<s>> \o more) \subseteq ended
    <3>1. /\ <<s>> \o more \in Seq(Spans) /\ Len(<<s>> \o more) = 1 + Len(more)
          /\ (<<s>> \o more)[1] = s /\ Len(more) \in Nat
          /\ \A i \in 1..Len(more) : (<<s>> \o more)[i + 1] = more[i]
      BY <2>4
    <3>2. ASSUME NEW i \in 1..(1 + Len(more)) PROVE (<<s>> \o more)[i] \in ended
      <4>1. CASE i = 1
        BY <3>1, <4>1
      <4>2. CASE i # 1
        <5>. PICK j \in 1..Len(more) : i = j + 1
          BY <3>1, <4>2
        <5>1. more[j] \in Range(more)
          BY <2>4 DEF Range
        <5>2. more[j] \in ended
          BY <5>1
        <5>. QED BY ONLY <3>1, <5>2, i = j + 1, j \in 1..Len(more)
      <4>. QED BY ONLY <4>1, <4>2
    <3>3. DOMAIN (<<s>> \o more) = 1..(1 + Len(more))
      BY <3>1
    <3>. QED BY ONLY <3>2, <3>3 DEF Range
  <2>. QED BY <2>3, <2>4, <2>5, <2>6
<1>2. Calls' /\ OthersCall(c) /\ step'[c] = "find" /\ at'[c] = 1
  <2>1. Calls' /\ OthersCall(c) /\ step'[c] = "find"
    BY ExportCalls DEF SpanState
  <2>2. at'[c] = at[c] /\ step[c] = "idle"
    BY DEF Export
  <2>3. at'[c] = 1
    BY ONLY <2>2, SpanState, c \in Callers DEF SpanState, Calls
  <2>. QED BY ONLY <2>1, <2>3
<1>3. plain \subseteq plain' /\ UNCHANGED traceDb
  BY DEF Export
<1>4. \A s \in Spans \ ended : Keeps(s)
  BY <1>1, <1>3, KeptUnwritten
<1>5. ASSUME NEW s \in ended PROVE Unstored(s)'
  <2>1. Unstored(s)
    BY <1>1 DEF SpanProgress, Reported
  <2>. QED BY <1>3, <2>1, EventsSame DEF Unstored
<1>6. ASSUME NEW s \in Spans PROVE Reported(s)'
  <2>1. CASE s \in ended
    BY <1>1, <2>1 DEF Reported
  <2>2. CASE s \notin ended
    BY <1>1, <1>3, <1>4, <2>2, ReportedKept DEF SpanProgress
  <2>. QED BY <2>1, <2>2
<1>7. ASSUME NEW d \in Callers, d # c, NEW i \in 1..Len(batch[d]) PROVE Keeps(batch[d][i])
  <2>1. batch[d][i] \in Spans /\ reported[batch[d][i]] = "exporting"
    BY DEF SpanState, Calls
  <2>2. batch[d][i] \in Spans \ ended /\ batch'[d] = batch[d]
    BY <1>1, <1>2, <1>7, <2>1 DEF OthersCall, SameCall
  <2>. PICK s : s = batch[d][i]
    OBVIOUS
  <2>3. Keeps(s)
    BY <1>4, <2>2
  <2>. QED BY <2>2, <2>3 DEF Keeps
<1>8. \A d \in Callers \ {c} : \A i \in 1..Len(batch'[d]) : Progress(d, i)'
  BY <1>2, <1>3, <1>7, OthersProgress DEF SpanState
<1>9. ASSUME NEW i \in 1..Len(batch'[c]) PROVE Progress(c, i)'
  <2>. PICK s : s = batch'[c][i]
    OBVIOUS
  <2>1. s \in Range(batch'[c])
    <3>1. DOMAIN batch'[c] = 1..Len(batch'[c])
      BY <1>2, SeqDomain DEF Calls
    <3>. QED BY <1>9, <3>1 DEF Range
  <2>2. Unstored(s)' /\ ~(i < at'[c])
    BY <1>1, <1>2, <1>5, <1>9, <2>1
  <2>. QED BY <1>2, <2>2 DEF Progress
<1>. QED BY <1>6, <1>8, <1>9 DEF SpanProgress

\* shutdown writes no event of a span.
LEMMA UncalledProgress ==
    ASSUME Calls, SpanProgress, UNCHANGED <<given, calls>>, \A s : Keeps(s)
    PROVE  SpanProgress'
<1>1. ASSUME NEW s \in Spans PROVE Reported(s)'
  BY ReportedKept DEF SpanProgress, calls, given
<1>2. ASSUME NEW c \in Callers, NEW i \in 1..Len(batch[c]) PROVE Progress(c, i)'
  <2>1. SameCall(c)
    BY DEF SameCall, calls, given
  <2>. PICK s : s = batch[c][i]
    OBVIOUS
  <2>2. Keeps(s) /\ batch'[c][i] = s /\ plain' = plain
    BY DEF calls, given
  <2>3. Keeps(batch[c][i])
    BY <2>2 DEF Keeps
  <2>. QED BY <2>1, <2>2, <2>3, ProgressKept DEF SpanProgress
<1>. QED BY <1>1, <1>2 DEF SpanProgress, calls

LEMMA CloseTraceProgress ==
    ASSUME SpanState, SpanProgress, NEW e \in Exporters, CloseTrace(e) PROVE SpanProgress'
<1>1. PICK item \in closing[e] : Write(item[2], item[1], "SESSION_END", [status |-> "success"])
  BY DEF CloseTrace
<1>. PICK n, t : n = item[2] /\ t = item[1]
  OBVIOUS
<1>. PICK body : body = [status |-> "success"]
  OBVIOUS
<1>. PICK type \in {"ACTION", "SESSION_END"} : type = "SESSION_END"
  OBVIOUS
<1>2. PICK d : d.payload.body = body /\ GrowsBy(t, d)
  <2>1. IsObjectOf(n, t) /\ Write(n, t, type, body)
    BY <1>1 DEF SpanState, Closings, IsItem
  <2>. QED BY <2>1, WriteKeeps DEF SpanState
<1>3. \A s : ~OfSpan(d, s)
  BY <1>2 DEF OfSpan, Has
<1>4. \A s : Keeps(s)
  BY <1>2, <1>3, KeptByOthers DEF SpanState, CloseTrace, given
<1>. QED BY <1>4, UncalledProgress DEF CloseTrace, SpanState

LEMMA SpanProgressStep == SpanState /\ SpanProgress /\ [SpanNext]_spanVars => SpanProgress'
<1>. SUFFICES ASSUME SpanState, SpanProgress, [SpanNext]_spanVars PROVE SpanProgress'
  OBVIOUS
<1>1. ASSUME UNCHANGED <<given, calls, traceDb>> PROVE SpanProgress'
  <2>1. \A s : Keeps(s)
    BY <1>1, KeptUnwritten DEF given
  <2>. QED BY <1>1, <2>1, UncalledProgress DEF SpanState
<1>2. CASE UNCHANGED spanVars
  BY <1>1, <1>2 DEF spanVars
<1>3. ASSUME NEW c \in Callers,
             \/ Export(c) \/ Skip(c) \/ Find(c) \/ Open(c) \/ OpenFails(c)
             \/ RecordCall(c) \/ RecordOutcome(c)
      PROVE  SpanProgress'
  BY <1>3, ExportProgress, SkipProgress, FindProgress, OpenProgress, OpenFailsProgress,
     RecordCallProgress, RecordOutcomeProgress
<1>4. ASSUME NEW e \in Exporters, Shutdown(e) \/ ExportTrace(e) \/ Clear(e)
      PROVE  SpanProgress'
  BY <1>1, <1>4 DEF Shutdown, ExportTrace, Clear
<1>5. ASSUME NEW e \in Exporters, CloseTrace(e) PROVE SpanProgress'
  BY <1>5, CloseTraceProgress
<1>. QED BY <1>2, <1>3, <1>4, <1>5 DEF SpanNext

LEMMA SpanProgressInit == SpanInit => SpanProgress
<1>. SUFFICES ASSUME SpanInit PROVE SpanProgress
  OBVIOUS
<1>1. ASSUME NEW s PROVE EventsOf(s) = {}
  BY DEF SpanInit, EventsOf
<1>. QED BY <1>1 DEF SpanInit, SpanProgress, Reported, Unstored

\* Whichever threads and processes end the spans of a trace, whatever opening a ledger
\* raises and whatever shutdown does meanwhile: export answers SUCCESS only when the call
\* and the outcome of every span of its batch are stored once in the session of its trace,
\* and never leaves the half of one behind when it answers FAILURE.
THEOREM AnswersAreTrue == SpanSpec => []SuccessMeansStored
<1>1. SpanProgress => SuccessMeansStored
  BY DEF SpanProgress, Reported, SuccessMeansStored, Unstored
<1>. QED BY <1>1, SpanProgressInit, SpanProgressStep, SpanStateHolds, PTL DEF SpanSpec

-----------------------------------------------------------------------------
(* Siem: what a call reads from a file that is being replaced.             *)

N == Len(Recorded0)

\* Line i of the session, or of its seal.
LineAt(i) == IF i <= N THEN Recorded0[i] ELSE SealedLog[i]

\* Lines of the session from the first on, with anything torn among them; the seal only
\* if there is one.
Lines(lines) ==
    /\ IsSeq(lines) /\ Len(lines) <= N + 1
    /\ \A i \in 1..Len(lines) :
          IsEvent(lines[i]) => lines[i] = LineAt(i) /\ (i = N + 1 => Len(SealedLog) = N + 1)

\* What a call has loaded.
Loaded(lines) == Lines(lines) /\ \A i \in DOMAIN lines : IsEvent(lines[i])

LEMMA Recording0 ==
    /\ IsSeq(Recorded0) /\ N \in Nat /\ DOMAIN Recorded0 = 1..N
    /\ \A i \in 1..N : Recorded0[i].seq = i
<1>1. IsSeq(Recorded0)
  BY RecordedAssumption DEF IsSeq
<1>. QED BY <1>1, SeqDomain, RecordedAssumption DEF N, Numbered

\* The sealed file is the session with a seal after it, or empty when the server refuses.
LEMMA SealedForm ==
    \/ SealedLog = <<>>
    \/ /\ IsSeq(SealedLog) /\ Len(SealedLog) = N + 1 /\ N # 0
       /\ \A i \in 1..N : SealedLog[i] = Recorded0[i]
       /\ SealedLog[N + 1].seq = N + 1
<1>1. OrderBySeq(Recorded0) = Recorded0
  BY Recording0, NumberedIsSorted, RecordedAssumption
<1>2. CASE \E canon, stamped :
              /\ Recorded0 # <<>>
              /\ SealedLog = Append(Recorded0, SealEvent(Recorded0[Len(Recorded0)], canon, SealKey, stamped))
  <2>1. PICK canon, stamped :
           /\ Recorded0 # <<>>
           /\ SealedLog = Append(Recorded0, SealEvent(Recorded0[Len(Recorded0)], canon, SealKey, stamped))
    BY <1>2
  <2>. PICK e : e = SealEvent(Recorded0[Len(Recorded0)], canon, SealKey, stamped)
    OBVIOUS
  <2>2. N # 0 /\ Recorded0[N].seq = N
    BY <2>1, Recording0 DEF N
  <2>3. e.seq = N + 1
    BY <2>2 DEF SealEvent, BuildEvent, N
  <2>. QED BY <2>1, <2>2, <2>3, Recording0, Appending DEF N
<1>3. \/ SealedLog = <<>>
      \/ \E canon, stamped :
            /\ Recorded0 # <<>>
            /\ SealedLog = Append(Recorded0, SealEvent(Recorded0[Len(Recorded0)], canon, SealKey, stamped))
  BY <1>1 DEF SealedLog, SealResponse, Refused
<1>. QED BY <1>2, <1>3

LEMMA LoadedIsSorted ==
    ASSUME NEW lines, Loaded(lines)
    PROVE  OrderBySeq(lines) = lines
<1>1. IsSeq(lines) /\ DOMAIN lines = 1..Len(lines) /\ Len(lines) \in Nat
  BY SeqDomain DEF Loaded, Lines
<1>2. ASSUME NEW i \in 1..Len(lines) PROVE lines[i].seq = i
  <2>1. i \in 1..(N + 1) /\ lines[i] = LineAt(i) /\ (i = N + 1 => Len(SealedLog) = N + 1)
    BY <1>1, Recording0 DEF Loaded, Lines
  <2>2. CASE i <= N
    BY <2>1, <2>2, Recording0 DEF LineAt
  <2>3. CASE i = N + 1
    <3>1. SealedLog # <<>> /\ ~(i <= N)
      BY <2>1, <2>3, Recording0
    <3>2. SealedLog[N + 1].seq = N + 1
      BY ONLY <3>1, SealedForm
    <3>3. lines[i] = SealedLog[i]
      BY ONLY <2>1, <3>1 DEF LineAt
    <3>. QED BY ONLY <2>3, <3>2, <3>3
  <2>. QED BY <2>1, <2>2, <2>3, Recording0
<1>. QED BY <1>1, <1>2, NumberedIsSorted DEF Numbered

LEMMA EndsLast0 ==
    \A i \in 1..N : i # N => Recorded0[i].type # "SESSION_END" /\ Recorded0[i].type # "CHAIN_SEAL"
<1>1. DOMAIN Recorded0 = 1..N
  BY Recording0
<1>2. Of(Recorded0, "SESSION_END") \subseteq {N} /\ Of(Recorded0, "CHAIN_SEAL") \subseteq {N}
  BY RecordedAssumption DEF N
<1>. QED BY ONLY <1>1, <1>2 DEF Of

\* Part of the session is no evidence.
LEMMA LoadedIsWhole ==
    ASSUME NEW lines, Loaded(lines),
           PythonVerify(lines, NoPin, FALSE).class # "NO_EVIDENCE"
    PROVE  lines \in {Recorded0, SealedLog}
<1>1. IsSeq(lines) /\ DOMAIN lines = 1..Len(lines) /\ Len(lines) \in Nat /\ Len(lines) <= N + 1
  BY SeqDomain DEF Loaded, Lines
<1>2. \A i \in 1..Len(lines) :
         lines[i] = LineAt(i) /\ (i = N + 1 => Len(SealedLog) = N + 1)
  BY <1>1 DEF Loaded, Lines
<1>3. lines = [i \in 1..Len(lines) |-> lines[i]]
  BY <1>1 DEF IsSeq
<1>4. CASE Len(lines) = N
  <2>1. Recorded0 = [i \in 1..N |-> Recorded0[i]]
    BY Recording0 DEF IsSeq
  <2>2. \A i \in 1..N : lines[i] = Recorded0[i]
    BY <1>2, <1>4, Recording0 DEF LineAt
  <2>. QED BY <1>3, <1>4, <2>1, <2>2
<1>5. CASE Len(lines) = N + 1
  <2>1. Len(SealedLog) = N + 1
    BY <1>2, <1>5, Recording0
  <2>2. /\ IsSeq(SealedLog) /\ \A i \in 1..N : SealedLog[i] = Recorded0[i]
    BY <2>1, SealedForm, Recording0
  <2>3. SealedLog = [i \in 1..(N + 1) |-> SealedLog[i]]
    BY <2>1, <2>2 DEF IsSeq
  <2>4. \A i \in 1..(N + 1) : lines[i] = SealedLog[i]
    BY <1>2, <1>5, <2>2, Recording0 DEF LineAt
  <2>. QED BY <1>3, <1>5, <2>3, <2>4
<1>6. CASE Len(lines) < N
  <2>1. ASSUME NEW i \in DOMAIN lines
        PROVE  lines[i].type # "SESSION_END" /\ lines[i].type # "CHAIN_SEAL"
    <3>1. i \in 1..N /\ i # N /\ lines[i] = Recorded0[i]
      BY <1>1, <1>2, <1>6, Recording0 DEF LineAt
    <3>. QED BY ONLY <3>1, EndsLast0
  <2>2. Of(lines, "SESSION_END") \cup Of(lines, "CHAIN_SEAL") = {}
    BY <2>1 DEF Of
  <2>. QED BY <2>2, OpenEnded
<1>7. \A m, n \in Nat : m <= n + 1 => m < n \/ m = n \/ m = n + 1
  OBVIOUS
<1>8. N \in Nat /\ Len(lines) \in Nat /\ Len(lines) <= N + 1
  BY <1>1, Recording0
<1>. QED BY ONLY <1>4, <1>5, <1>6, <1>7, <1>8

LEMMA LinesFixed ==
    /\ Lines(<<>>) /\ Loaded(<<>>) /\ Lines(Recorded0)
    /\ \A n \in 0..Len(SealedLog) : Lines(SubSeq(SealedLog, 1, n))
    /\ \A n \in 0..(Len(SealedLog) - 1) : Lines(Append(SubSeq(SealedLog, 1, n), Torn))
<1>1. IsSeq(<<>>) /\ Len(<<>>) = 0
  BY DEF IsSeq
<1>2. IsSeq(Recorded0) /\ N \in Nat /\ DOMAIN Recorded0 = 1..N
  BY Recording0
<1>3. Lines(<<>>) /\ Loaded(<<>>)
  BY <1>1, <1>2 DEF Lines, Loaded
<1>4. Lines(Recorded0)
  BY <1>2 DEF Lines, LineAt, N
<1>5. IsSeq(SealedLog) /\ Len(SealedLog) \in Nat /\ Len(SealedLog) \in {0, N + 1}
  BY <1>1, <1>2, SealedForm
<1>6. ASSUME NEW n \in 0..Len(SealedLog)
      PROVE  /\ Lines(SubSeq(SealedLog, 1, n)) /\ IsSeq(SubSeq(SealedLog, 1, n))
             /\ Len(SubSeq(SealedLog, 1, n)) = n
  <2>. PICK s : s = SubSeq(SealedLog, 1, n)
    OBVIOUS
  <2>1. \A i \in 1..n : s[i] = SealedLog[i]
    BY <1>5, FirstPart
  <2>2. IsSeq(s) /\ Len(s) = n /\ n <= N + 1 /\ n \in Nat
    BY <1>2, <1>5, FirstPart
  <2>3. ASSUME NEW i \in 1..n PROVE s[i] = LineAt(i) /\ Len(SealedLog) = N + 1
    <3>1. Len(SealedLog) = N + 1 /\ SealedLog # <<>>
      BY <1>1, <1>2, <1>5, <2>2
    <3>2. i <= N => SealedLog[i] = Recorded0[i]
      BY <1>2, <2>2, <3>1, SealedForm
    <3>. QED BY <2>1, <3>1, <3>2 DEF LineAt
  <2>. QED BY <2>2, <2>3 DEF Lines
<1>7. ASSUME NEW n \in 0..(Len(SealedLog) - 1)
      PROVE  Lines(Append(SubSeq(SealedLog, 1, n), Torn))
  <2>. PICK s : s = SubSeq(SealedLog, 1, n)
    OBVIOUS
  <2>. PICK a : a = Append(s, Torn)
    OBVIOUS
  <2>1. Lines(s) /\ IsSeq(s) /\ Len(s) = n /\ n \in Nat /\ n + 1 <= N + 1
    BY <1>2, <1>5, <1>6
  <2>2. /\ IsSeq(a) /\ Len(a) = n + 1 /\ a[n + 1] = Torn
        /\ \A i \in 1..n : a[i] = s[i]
    BY <2>1, Appending
  <2>. QED BY <2>1, <2>2 DEF Lines, IsEvent
<1>. QED BY <1>3, <1>4, <1>6, <1>7

\* The first lines of a file, and what follows them in it or in a later one.
LEMMA LinesRead ==
    ASSUME NEW file, Lines(file), NEW n \in 0..Len(file)
    PROVE  Lines(SubSeq(file, 1, n)) /\ Len(SubSeq(file, 1, n)) = n
<1>. PICK s : s = SubSeq(file, 1, n)
  OBVIOUS
<1>1. IsSeq(file) /\ Len(file) \in Nat /\ N \in Nat
  BY SeqDomain, Recording0 DEF Lines
<1>2. IsSeq(s) /\ Len(s) = n /\ \A i \in 1..n : s[i] = file[i]
  BY <1>1, FirstPart
<1>. QED BY <1>1, <1>2 DEF Lines

LEMMA LinesJoined ==
    ASSUME NEW first, Lines(first), NEW file, Lines(file), NEW rest,
           \/ rest = SubSeq(file, Len(first) + 1, Len(file))
           \/ Len(file) > Len(first) /\ rest = <<Torn>>
    PROVE  Lines(first \o rest)
<1>. PICK m \in Nat, n \in Nat : m = Len(first) /\ n = Len(file)
  BY SeqDomain DEF Lines
<1>1. IsSeq(first) /\ IsSeq(file) /\ N \in Nat /\ m <= N + 1 /\ n <= N + 1
  BY Recording0 DEF Lines
<1>. PICK s : s = first \o rest
  OBVIOUS
<1>2. CASE rest = SubSeq(file, m + 1, n)
  <2>1. /\ IsSeq(s) /\ Len(s) = IF m < n THEN n ELSE m
        /\ \A i \in 1..m : s[i] = first[i]
        /\ \A i \in (m + 1)..n : s[i] = file[i]
    <3>1. Continues(s, first, file)
      BY <1>1, <1>2, LastPart
    <3>. QED BY <3>1 DEF Continues
  <2>2. Len(s) <= N + 1
    BY <1>1, <2>1
  <2>3. ASSUME NEW i \in 1..Len(s), IsEvent(s[i])
        PROVE  s[i] = LineAt(i) /\ (i = N + 1 => Len(SealedLog) = N + 1)
    <3>1. CASE i \in 1..m
      BY <2>1, <2>3, <3>1 DEF Lines
    <3>2. CASE i \in (m + 1)..n
      <4>1. s[i] = file[i] /\ i \in 1..n
        BY <2>1, <3>2
      <4>. QED BY <2>3, <4>1 DEF Lines
    <3>. QED BY <2>1, <3>1, <3>2
  <2>. QED BY <2>1, <2>2, <2>3 DEF Lines
<1>3. CASE n > m /\ rest = <<Torn>>
  <2>1. s = Append(first, Torn)
    BY <1>1, <1>3 DEF IsSeq
  <2>2. /\ IsSeq(s) /\ Len(s) = m + 1 /\ s[m + 1] = Torn
        /\ \A i \in 1..m : s[i] = first[i]
    BY <1>1, <2>1, Appending
  <2>. QED BY <1>1, <1>3, <2>2 DEF Lines, IsEvent
<1>. QED BY <1>2, <1>3
\* Before and after every step: the file and what was read of it.
SiemFiles == Lines(siemFile) /\ Lines(buffer) /\ Loaded(snapshot)

LEMMA SiemFilesHolds == SiemSpec => []SiemFiles
<1>1. SiemInit => SiemFiles
  BY LinesFixed DEF SiemInit, SiemFiles
<1>2. ASSUME SiemFiles, [SiemNext]_siemVars PROVE SiemFiles'
  <2>. USE <1>2 DEF SiemFiles
  <2>1. CASE Truncate
    BY <2>1, LinesFixed DEF Truncate, reader
  <2>2. CASE Fill
    <3>. PICK file : file = siemFile'
      OBVIOUS
    <3>1. file \in Written
      BY <2>2 DEF Fill
    <3>2. Lines(file)
      BY <3>1, LinesFixed DEF Written
    <3>. QED BY <2>2, <3>2 DEF Fill, reader
  <2>3. CASE CallExport
    <3>1. Lines(buffer')
      BY <2>3, LinesFixed, LinesRead DEF CallExport
    <3>. QED BY <2>3, <3>1 DEF CallExport, seal
  <2>4. CASE LoadRest
    <3>1. PICK rest \in RestOfFile :
             /\ \A i \in DOMAIN (buffer \o rest) : IsEvent((buffer \o rest)[i])
             /\ snapshot' = OrderBySeq(buffer \o rest)
      BY <2>4 DEF LoadRest
    <3>2. Lines(buffer \o rest)
      <4>1. \/ rest = SubSeq(siemFile, Len(buffer) + 1, Len(siemFile))
            \/ Len(siemFile) > Len(buffer) /\ rest = <<Torn>>
        BY <3>1 DEF RestOfFile
      <4>. QED BY <4>1, LinesJoined
    <3>. PICK lines : lines = buffer \o rest
      OBVIOUS
    <3>3. Loaded(lines) /\ snapshot' = lines
      BY <3>1, <3>2, LoadedIsSorted DEF Loaded
    <3>. QED BY <2>4, <3>3, LinesFixed DEF LoadRest, seal
  <2>5. CASE LoadFails \/ PostRaises \/ ReturnCounts
    BY <2>5, LinesFixed DEF LoadFails, PostRaises, ReturnCounts, Over, seal
  <2>6. CASE PostAnswered \/ PostFails
    BY <2>6 DEF PostAnswered, PostFails, seal
  <2>7. CASE UNCHANGED siemVars
    BY <2>7 DEF siemVars
  <2>. QED BY <2>1, <2>2, <2>3, <2>4, <2>5, <2>6, <2>7 DEF SiemNext
<1>. QED BY <1>1, <1>2, PTL DEF SiemSpec

\* However a call's reads fall between the writes of `sasana seal` on the same file, and
\* wherever that was killed: what the exporter loads, keeps and sends along with a class
\* other than NO_EVIDENCE is the session, or the sealed session, and no part of either.
THEOREM SnapshotWhole == SiemSpec => []SnapshotIsWhole
<1>1. SiemFiles => SnapshotIsWhole
  BY LoadedIsWhole DEF SiemFiles, SnapshotIsWhole
<1>. QED BY <1>1, SiemFilesHolds, PTL

-----------------------------------------------------------------------------
(* Siem: what a call counts and what the endpoint has.                     *)

\* The records before the x-th, of n.
Before(x, n) == {r \in 1..n : r < x}

\* The records of some batches.
RecordsOf(b) == UNION {b[i].records : i \in DOMAIN b}

Counts == [sent : Nat, failed : Nat, batches : Nat]

\* The counts c of a call before its x-th record, of n, and the batches b that arrived.
Accounted(c, b, x, n) ==
    /\ c \in Counts /\ IsSeq(b) /\ x \in Nat \ {0}
    /\ c.sent + c.failed = Cardinality(Before(x, n))
    /\ RecordsOf(b) \subseteq Before(x, n)
    /\ Cardinality(RecordsOf(b)) >= c.sent
    /\ c.failed = 0 => /\ c.batches = Len(b)
                       /\ \A i \in DOMAIN b : b[i].number = i - 1
                       /\ RecordsOf(b) = Before(x, n)

\* What a call that returned counts c says of the batches b that arrived.
TrueOf(c, b, s) ==
    c # Raised =>
       /\ c.sent + c.failed = Len(s)
       /\ Cardinality(RecordsOf(b)) >= c.sent
       /\ c.failed = 0 => ByNumber(b) = DOMAIN s

\* The records of the next request, of n.
NextBatch(x, n) == x..(IF x + BatchSize - 1 < n THEN x + BatchSize - 1 ELSE n)

LEMMA BatchFollows ==
    ASSUME NEW x \in Nat \ {0}, NEW n \in Nat, NextBatch(x, n) # {}
    PROVE  /\ IsFiniteSet(Before(x, n)) /\ IsFiniteSet(NextBatch(x, n))
           /\ Before(x + BatchSize, n) = Before(x, n) \cup NextBatch(x, n)
           /\ IsFiniteSet(Before(x + BatchSize, n))
           /\ Cardinality(NextBatch(x, n)) \in Nat \ {0}
           /\ Cardinality(Before(x, n)) \in Nat
           /\ Cardinality(Before(x + BatchSize, n))
                = Cardinality(Before(x, n)) + Cardinality(NextBatch(x, n))
<1>1. BatchSize \in Nat \ {0} /\ x + BatchSize \in Nat
  BY SiemAssumption
<1>2. IsFiniteSet(1..n)
  BY FS_Interval
<1>3. /\ Before(x, n) \subseteq 1..n /\ Before(x + BatchSize, n) \subseteq 1..n
      /\ NextBatch(x, n) \subseteq 1..n
  BY <1>1 DEF Before, NextBatch
<1>4. IsFiniteSet(Before(x, n)) /\ IsFiniteSet(NextBatch(x, n))
  BY <1>2, <1>3, FS_Subset
<1>5. Before(x + BatchSize, n) = Before(x, n) \cup NextBatch(x, n)
  BY <1>1, <1>3 DEF Before, NextBatch
<1>6. Before(x, n) \cap NextBatch(x, n) = {}
  BY DEF Before, NextBatch
<1>7. IsFiniteSet(Before(x + BatchSize, n))
  BY <1>2, <1>3, FS_Subset
<1>8. Cardinality(NextBatch(x, n)) \in Nat \ {0} /\ Cardinality(Before(x, n)) \in Nat
  BY <1>4, FS_CardinalityType, FS_EmptySet
<1>9. Cardinality(Before(x, n) \cup NextBatch(x, n))
        = Cardinality(Before(x, n)) + Cardinality(NextBatch(x, n)) - Cardinality({})
  BY <1>4, <1>6, FS_Union
<1>10. Cardinality({}) = 0
  BY FS_EmptySet
<1>. QED BY <1>4, <1>5, <1>7, <1>8, <1>9, <1>10

\* One more batch.
WithBatch(b, k, B) == Append(b, [number |-> k, records |-> B])

LEMMA OneMoreBatch ==
    ASSUME NEW b, IsSeq(b), NEW k, NEW B, NEW a, a = WithBatch(b, k, B)
    PROVE  /\ IsSeq(a) /\ Len(a) = Len(b) + 1 /\ Len(b) \in Nat
           /\ DOMAIN a = 1..(Len(b) + 1) /\ DOMAIN b = 1..Len(b)
           /\ \A i \in DOMAIN b : a[i] = b[i]
           /\ a[Len(b) + 1].number = k
           /\ RecordsOf(a) = RecordsOf(b) \cup B
<1>. PICK e : e = [number |-> k, records |-> B]
  OBVIOUS
<1>1. e.number = k /\ e.records = B /\ a = Append(b, e)
  BY DEF WithBatch
<1>2. /\ IsSeq(a) /\ Len(a) = Len(b) + 1 /\ Len(b) \in Nat
      /\ DOMAIN b = 1..Len(b) /\ a[Len(b) + 1] = e
      /\ \A i \in DOMAIN b : a[i] = b[i]
  BY <1>1, Appending, SeqDomain
<1>3. DOMAIN a = 1..(Len(b) + 1)
  BY <1>2, SeqDomain
<1>4. RecordsOf(a) = RecordsOf(b) \cup B
  <2>1. ASSUME NEW r \in RecordsOf(a) PROVE r \in RecordsOf(b) \cup B
    BY <1>1, <1>2, <1>3 DEF RecordsOf
  <2>2. ASSUME NEW r \in RecordsOf(b) PROVE r \in RecordsOf(a)
    BY <1>1, <1>2, <1>3 DEF RecordsOf
  <2>3. ASSUME NEW r \in B PROVE r \in RecordsOf(a)
    BY <1>1, <1>2, <1>3 DEF RecordsOf
  <2>. QED BY <2>1, <2>2, <2>3
<1>. QED BY <1>1, <1>2, <1>3, <1>4

LEMMA AccountedStarts ==
    ASSUME NEW n \in Nat PROVE Accounted(NoCounts, <<>>, 1, n)
<1>. PICK c : c = NoCounts
  OBVIOUS
<1>. PICK b : b = <<>>
  OBVIOUS
<1>1. IsSeq(b) /\ Len(b) = 0 /\ DOMAIN b = {}
  BY DEF IsSeq
<1>2. Before(1, n) = {} /\ RecordsOf(b) = {} /\ Cardinality({}) = 0
  BY <1>1, FS_EmptySet DEF Before, RecordsOf
<1>3. c \in Counts /\ c.sent = 0 /\ c.failed = 0 /\ c.batches = 0
  BY DEF NoCounts, Counts
<1>4. c.sent + c.failed = Cardinality(Before(1, n)) /\ Cardinality(RecordsOf(b)) >= c.sent
  BY ONLY <1>2, <1>3
<1>5. /\ c.batches = Len(b) /\ RecordsOf(b) = Before(1, n)
      /\ \A i \in DOMAIN b : b[i].number = i - 1
  BY ONLY <1>1, <1>2, <1>3
<1>6. c \in Counts /\ IsSeq(b) /\ 1 \in Nat \ {0}
  BY <1>1, <1>3
<1>7. RecordsOf(b) \subseteq Before(1, n)
  BY <1>5
<1>8. Accounted(c, b, 1, n)
  BY ONLY <1>4, <1>5, <1>6, <1>7 DEF Accounted
<1>. QED BY <1>8

LEMMA AccountedAnswer ==
    ASSUME NEW c, NEW b, NEW x, NEW n \in Nat, Accounted(c, b, x, n), NextBatch(x, n) # {},
           NEW a, a = WithBatch(b, c.batches, NextBatch(x, n)),
           NEW d \in Counts, d.sent = c.sent + Cardinality(NextBatch(x, n)),
           d.failed = c.failed, d.batches = c.batches + 1
    PROVE  Accounted(d, a, x + BatchSize, n)
<1>. PICK B : B = NextBatch(x, n)
  OBVIOUS
<1>. PICK y : y = x + BatchSize
  OBVIOUS
<1>1. /\ x \in Nat \ {0} /\ y \in Nat \ {0} /\ c.sent \in Nat /\ c.failed \in Nat
      /\ c.batches \in Nat /\ IsSeq(b)
  BY SiemAssumption DEF Accounted, Counts
<1>2. /\ IsFiniteSet(Before(x, n)) /\ IsFiniteSet(B) /\ IsFiniteSet(Before(y, n))
      /\ Before(y, n) = Before(x, n) \cup B
      /\ Cardinality(B) \in Nat \ {0} /\ Cardinality(Before(x, n)) \in Nat
      /\ Cardinality(Before(y, n)) = Cardinality(Before(x, n)) + Cardinality(B)
  BY <1>1, BatchFollows
<1>3. /\ IsSeq(a) /\ Len(a) = Len(b) + 1 /\ Len(b) \in Nat
      /\ DOMAIN a = 1..(Len(b) + 1) /\ DOMAIN b = 1..Len(b)
      /\ \A i \in DOMAIN b : a[i] = b[i]
      /\ a[Len(b) + 1].number = c.batches
      /\ RecordsOf(a) = RecordsOf(b) \cup B
  BY <1>1, OneMoreBatch
<1>4. RecordsOf(a) \subseteq Before(y, n)
  BY <1>2, <1>3 DEF Accounted
<1>5. Cardinality(RecordsOf(a)) >= d.sent
  <2>1. RecordsOf(b) \cap B = {} /\ RecordsOf(b) \subseteq Before(x, n)
    BY <1>1 DEF Accounted, Before, NextBatch
  <2>2. IsFiniteSet(RecordsOf(b)) /\ Cardinality(RecordsOf(b)) \in Nat
    BY <1>2, <2>1, FS_Subset, FS_CardinalityType
  <2>3. Cardinality(RecordsOf(b) \cup B)
          = Cardinality(RecordsOf(b)) + Cardinality(B) - Cardinality({})
    BY <1>2, <2>1, <2>2, FS_Union
  <2>4. Cardinality({}) = 0
    BY FS_EmptySet
  <2>5. Cardinality(RecordsOf(b)) >= c.sent
    BY DEF Accounted
  <2>. QED BY <1>1, <1>2, <1>3, <2>2, <2>3, <2>4, <2>5
<1>6. d.sent + d.failed = Cardinality(Before(y, n))
  BY <1>1, <1>2 DEF Accounted
<1>7. ASSUME d.failed = 0
      PROVE  /\ d.batches = Len(a) /\ RecordsOf(a) = Before(y, n)
             /\ \A i \in DOMAIN a : a[i].number = i - 1
  <2>1. /\ c.batches = Len(b) /\ RecordsOf(b) = Before(x, n)
        /\ \A i \in DOMAIN b : b[i].number = i - 1
    BY <1>7 DEF Accounted
  <2>2. ASSUME NEW i \in DOMAIN a PROVE a[i].number = i - 1
    BY <1>3, <2>1
  <2>. QED BY <1>2, <1>3, <2>1, <2>2
<1>. QED BY <1>1, <1>3, <1>4, <1>5, <1>6, <1>7 DEF Accounted

LEMMA AccountedFailure ==
    ASSUME NEW c, NEW b, NEW x, NEW n \in Nat, Accounted(c, b, x, n), NextBatch(x, n) # {},
           NEW a, a = b \/ a = WithBatch(b, c.batches, NextBatch(x, n)),
           NEW d \in Counts, d.failed = c.failed + Cardinality(NextBatch(x, n)),
           d.sent = c.sent
    PROVE  Accounted(d, a, x + BatchSize, n)
<1>. PICK B : B = NextBatch(x, n)
  OBVIOUS
<1>. PICK y : y = x + BatchSize
  OBVIOUS
<1>1. /\ x \in Nat \ {0} /\ y \in Nat \ {0} /\ c.sent \in Nat /\ c.failed \in Nat
      /\ c.batches \in Nat /\ IsSeq(b)
  BY SiemAssumption DEF Accounted, Counts
<1>2. /\ IsFiniteSet(Before(y, n)) /\ Before(y, n) = Before(x, n) \cup B
      /\ Cardinality(B) \in Nat \ {0} /\ Cardinality(Before(x, n)) \in Nat
      /\ Cardinality(Before(y, n)) = Cardinality(Before(x, n)) + Cardinality(B)
  BY <1>1, BatchFollows
<1>3. /\ IsSeq(a) /\ RecordsOf(b) \subseteq RecordsOf(a)
      /\ RecordsOf(a) \subseteq RecordsOf(b) \cup B
  <2>1. CASE a = b
    BY <1>1, <2>1
  <2>2. CASE a = WithBatch(b, c.batches, B)
    BY <1>1, <2>2, OneMoreBatch
  <2>. QED BY <2>1, <2>2
<1>4. RecordsOf(a) \subseteq Before(y, n)
  BY <1>2, <1>3 DEF Accounted
<1>5. Cardinality(RecordsOf(a)) >= d.sent
  <2>1. IsFiniteSet(RecordsOf(a)) /\ Cardinality(RecordsOf(a)) \in Nat
    BY <1>2, <1>4, FS_Subset, FS_CardinalityType
  <2>2. Cardinality(RecordsOf(b)) <= Cardinality(RecordsOf(a))
        /\ IsFiniteSet(RecordsOf(b)) /\ Cardinality(RecordsOf(b)) \in Nat
    BY <1>3, <2>1, FS_Subset, FS_CardinalityType
  <2>3. Cardinality(RecordsOf(b)) >= c.sent
    BY DEF Accounted
  <2>. QED BY <1>1, <2>1, <2>2, <2>3
<1>6. d.sent + d.failed = Cardinality(Before(y, n)) /\ d.failed # 0
  BY <1>1, <1>2 DEF Accounted
<1>. QED BY <1>1, <1>3, <1>4, <1>5, <1>6 DEF Accounted

\* A call that has no record left.
LEMMA AccountedEnds ==
    ASSUME NEW c, NEW b, NEW x, NEW s, IsSeq(s), Accounted(c, b, x, Len(s)),
           NextBatch(x, Len(s)) = {}
    PROVE  TrueOf(c, b, s)
<1>. PICK n \in Nat : n = Len(s)
  BY SeqDomain
<1>1. x \in Nat \ {0} /\ BatchSize \in Nat \ {0} /\ IsSeq(b)
  BY SiemAssumption DEF Accounted
<1>2. DOMAIN s = 1..n /\ DOMAIN b = 1..Len(b) /\ Len(b) \in Nat
  BY <1>1, SeqDomain
<1>3. x > n
  <2>1. x <= n => x \in NextBatch(x, n)
    BY <1>1 DEF NextBatch
  <2>. QED BY <1>1, <2>1
<1>4. Before(x, n) = 1..n
  BY <1>1, <1>3 DEF Before
<1>5. Cardinality(1..n) = n
  BY IntervalSize
<1>6. ASSUME c.failed = 0 PROVE ByNumber(b) = 1..n
  <2>1. RecordsOf(b) = 1..n /\ \A i \in DOMAIN b : b[i].number = i - 1
    BY <1>4, <1>6 DEF Accounted
  <2>2. {j \in DOMAIN b : \A k \in DOMAIN b : k > j => b[k].number # b[j].number} = DOMAIN b
    BY <1>2, <2>1
  <2>3. ByNumber(b) = RecordsOf(b)
    BY <2>2 DEF ByNumber, RecordsOf
  <2>. QED BY <2>1, <2>3
<1>. QED BY <1>2, <1>4, <1>5, <1>6 DEF TrueOf, Accounted

SiemCalls ==
    /\ IsSeq(returns) /\ IsSeq(arrived) /\ IsSeq(snapshot)
    /\ phase \in {"idle", "reading", "posting"}
    /\ Len(arrived) = Len(returns) + (IF phase = "idle" THEN 0 ELSE 1)
    /\ phase = "reading" => ~cached /\ next = 1 /\ counts = NoCounts
                              /\ arrived[Len(arrived)] = <<>>
    /\ phase = "posting" => cached
    /\ ~cached => \A k \in DOMAIN returns : returns[k] = Raised
    /\ \A k \in DOMAIN returns : TrueOf(returns[k], arrived[k], snapshot)

\* Before and after every step of the exporter.
SiemProgress ==
    /\ SiemCalls
    /\ phase = "posting" =>
          Accounted(counts, arrived[Len(arrived)], next, Len(snapshot))

LEMMA NotRaised == \A b, s : TrueOf(Raised, b, s)
  BY DEF TrueOf

LEMMA SiemProgressInit == SiemInit => SiemProgress
<1>1. IsSeq(<<>>) /\ Len(<<>>) = 0 /\ DOMAIN <<>> = {}
  BY DEF IsSeq
<1>. QED BY <1>1 DEF SiemInit, SiemProgress, SiemCalls

LEMMA CallProgress == SiemProgress /\ CallExport => SiemProgress'
<1>. SUFFICES ASSUME SiemProgress, CallExport PROVE SiemProgress'
  OBVIOUS
<1>1. /\ IsSeq(arrived) /\ IsSeq(returns) /\ IsSeq(snapshot) /\ phase = "idle"
      /\ Len(arrived) = Len(returns) + 0
      /\ ~cached => \A k \in DOMAIN returns : returns[k] = Raised
      /\ \A k \in DOMAIN returns : TrueOf(returns[k], arrived[k], snapshot)
  BY DEF SiemProgress, SiemCalls, CallExport
<1>2. /\ phase' = (IF cached THEN "posting" ELSE "reading")
      /\ next' = 1 /\ counts' = NoCounts /\ cached' = cached
      /\ arrived' = Append(arrived, <<>>) /\ returns' = returns /\ snapshot' = snapshot
  BY DEF CallExport
<1>3. /\ Len(arrived) \in Nat /\ Len(returns) \in Nat /\ Len(snapshot) \in Nat
      /\ DOMAIN returns = 1..Len(returns) /\ DOMAIN arrived = 1..Len(arrived)
  BY <1>1, SeqDomain
<1>. PICK a : a = arrived'
  OBVIOUS
<1>. PICK m \in Nat : m = Len(arrived)
  BY <1>3
<1>4. /\ IsSeq(a) /\ Len(a) = m + 1 /\ a[m + 1] = <<>>
      /\ \A i \in DOMAIN arrived : a[i] = arrived[i]
  BY <1>1, <1>2, Appending
<1>5. a[Len(a)] = <<>>
  BY <1>4
<1>6. Accounted(NoCounts, <<>>, 1, Len(snapshot))
  BY <1>3, AccountedStarts
<1>7. \A k \in DOMAIN returns : TrueOf(returns[k], a[k], snapshot)
  BY <1>1, <1>3, <1>4
<1>8. SiemCalls'
  BY <1>1, <1>2, <1>3, <1>4, <1>5, <1>7 DEF SiemCalls
<1>. QED BY <1>2, <1>5, <1>6, <1>8 DEF SiemProgress

LEMMA LoadProgress == SiemProgress /\ SiemFiles' /\ LoadRest => SiemProgress'
<1>. SUFFICES ASSUME SiemProgress, SiemFiles', LoadRest PROVE SiemProgress'
  OBVIOUS
<1>1. /\ phase = "reading" /\ ~cached /\ next = 1 /\ counts = NoCounts
      /\ arrived[Len(arrived)] = <<>> /\ IsSeq(returns) /\ IsSeq(arrived)
      /\ Len(arrived) = Len(returns) + 1
      /\ \A k \in DOMAIN returns : returns[k] = Raised
  BY DEF SiemProgress, SiemCalls, LoadRest
<1>2. /\ phase' = "posting" /\ cached' = TRUE /\ next' = next /\ counts' = counts
      /\ arrived' = arrived /\ returns' = returns
  BY DEF LoadRest, seal
<1>3. IsSeq(snapshot') /\ Len(snapshot') \in Nat
  BY SeqDomain DEF SiemFiles, Loaded, Lines
<1>4. Accounted(NoCounts, <<>>, 1, Len(snapshot'))
  BY <1>3, AccountedStarts
<1>5. \A k \in DOMAIN returns : TrueOf(returns[k], arrived[k], snapshot')
  BY <1>1, NotRaised
<1>6. SiemCalls'
  BY <1>1, <1>2, <1>3, <1>5 DEF SiemCalls
<1>. QED BY <1>1, <1>2, <1>4, <1>6 DEF SiemProgress

\* The last entry of a sequence is replaced.
WithLast(s, v) == [s EXCEPT ![Len(s)] = v]

LEMMA LastReplaced ==
    ASSUME NEW s, IsSeq(s), Len(s) # 0, NEW v, NEW a, a = WithLast(s, v)
    PROVE  /\ IsSeq(a) /\ Len(a) = Len(s) /\ a[Len(a)] = v
           /\ \A i \in DOMAIN s : i # Len(s) => a[i] = s[i]
<1>1. DOMAIN s = 1..Len(s) /\ Len(s) \in Nat /\ Len(s) \in DOMAIN s
  BY SeqDomain
<1>2. /\ DOMAIN a = 1..Len(s) /\ a[Len(s)] = v
      /\ \A i \in DOMAIN s : i # Len(s) => a[i] = s[i]
      /\ a = [i \in 1..Len(s) |-> a[i]]
  BY <1>1 DEF WithLast
<1>3. IsSeq(a) /\ Len(a) = Len(s)
  BY <1>1, <1>2, FunctionIsSequence
<1>. QED BY <1>2, <1>3

\* A call is over with a result, and the batches of the last call with it.
LEMMA OverProgress ==
    ASSUME SiemProgress, phase # "idle", NEW r, Over(r),
           cached' = cached, snapshot' = snapshot, next' = next, counts' = counts,
           IsSeq(arrived'), Len(arrived') = Len(arrived),
           \A i \in DOMAIN arrived : i # Len(arrived) => arrived'[i] = arrived[i],
           ~cached => r = Raised,
           TrueOf(r, arrived'[Len(arrived)], snapshot)
    PROVE  SiemProgress'
<1>. PICK m \in Nat : m = Len(returns)
  BY SeqDomain DEF SiemProgress, SiemCalls
<1>. PICK a, s : a = arrived' /\ s = returns'
  OBVIOUS
<1>1. /\ IsSeq(arrived) /\ IsSeq(returns) /\ IsSeq(snapshot)
      /\ Len(arrived) = m + 1
      /\ ~cached => \A k \in DOMAIN returns : returns[k] = Raised
      /\ \A k \in DOMAIN returns : TrueOf(returns[k], arrived[k], snapshot)
  BY DEF SiemProgress, SiemCalls
<1>2. phase' = "idle" /\ s = Append(returns, r)
  BY DEF Over
<1>3. DOMAIN arrived = 1..(m + 1) /\ DOMAIN returns = 1..m
  BY <1>1, SeqDomain
<1>4. /\ IsSeq(s) /\ Len(s) = m + 1 /\ s[m + 1] = r
      /\ \A i \in DOMAIN returns : s[i] = returns[i]
  BY <1>1, <1>2, Appending
<1>5. DOMAIN s = 1..(m + 1)
  BY <1>4, SeqDomain
<1>6. ASSUME NEW k \in DOMAIN s PROVE TrueOf(s[k], a[k], snapshot)
  <2>1. CASE k = m + 1
    BY <1>1, <1>4, <2>1
  <2>2. CASE k \in 1..m
    <3>1. s[k] = returns[k] /\ a[k] = arrived[k]
      BY <1>1, <1>3, <1>4, <2>2
    <3>. QED BY <1>1, <1>3, <2>2, <3>1
  <2>. QED BY <1>5, <2>1, <2>2
<1>7. ~cached => \A k \in DOMAIN s : s[k] = Raised
  BY <1>1, <1>3, <1>4, <1>5
<1>8. SiemCalls'
  BY <1>1, <1>2, <1>4, <1>6, <1>7 DEF SiemCalls
<1>. QED BY <1>2, <1>8 DEF SiemProgress

\* The endpoint accepts the request or never sees it.
LEMMA ArriveForm ==
    ASSUME SiemProgress, phase = "posting", Arrive \/ UNCHANGED arrived
    PROVE  /\ IsSeq(arrived') /\ Len(arrived') = Len(arrived) /\ Len(arrived) # 0
           /\ \A i \in DOMAIN arrived : i # Len(arrived) => arrived'[i] = arrived[i]
           /\ Arrive => arrived'[Len(arrived)]
                = WithBatch(arrived[Len(arrived)], counts.batches, NextBatch(next, Len(snapshot)))
           /\ ~Arrive => arrived' = arrived
<1>. PICK a : a = arrived'
  OBVIOUS
<1>1. IsSeq(arrived) /\ Len(arrived) = Len(returns) + 1 /\ IsSeq(returns)
  BY DEF SiemProgress, SiemCalls
<1>2. Len(returns) \in Nat /\ Len(arrived) # 0
  BY <1>1, SeqDomain
<1>3. CASE Arrive
  <2>. PICK v : v = WithBatch(arrived[Len(arrived)], counts.batches, NextBatch(next, Len(snapshot)))
    OBVIOUS
  <2>1. a = WithLast(arrived, v)
    BY <1>3 DEF Arrive, WithBatch, WithLast, Batch, NextBatch
  <2>2. /\ IsSeq(a) /\ Len(a) = Len(arrived) /\ a[Len(a)] = v
        /\ \A i \in DOMAIN arrived : i # Len(arrived) => a[i] = arrived[i]
    BY <1>1, <1>2, <2>1, LastReplaced
  <2>. QED BY <1>2, <1>3, <2>2
<1>4. CASE ~Arrive
  BY <1>1, <1>2, <1>4
<1>. QED BY <1>3, <1>4

\* The counts after an answered batch of k records.
AddBatch(c, k) == [c EXCEPT !.sent = @ + k, !.batches = @ + 1]

LEMMA CountsAnswered ==
    ASSUME NEW c \in Counts, NEW k \in Nat, NEW d, d = AddBatch(c, k)
    PROVE  /\ d \in Counts /\ d.sent = c.sent + k /\ d.failed = c.failed
           /\ d.batches = c.batches + 1
<1>1. /\ c = [sent |-> c.sent, failed |-> c.failed, batches |-> c.batches]
      /\ c.sent \in Nat /\ c.failed \in Nat /\ c.batches \in Nat
  BY DEF Counts
<1>2. d = [sent |-> c.sent + k, failed |-> c.failed, batches |-> c.batches + 1]
  BY <1>1 DEF AddBatch
<1>. QED BY <1>1, <1>2 DEF Counts

LEMMA PostProgress == SiemProgress /\ (PostAnswered \/ PostFails) => SiemProgress'
<1>. SUFFICES ASSUME SiemProgress, PostAnswered \/ PostFails PROVE SiemProgress'
  OBVIOUS
<1>0. phase = "posting" /\ (Arrive \/ UNCHANGED arrived) /\ (PostAnswered => Arrive)
  BY DEF PostAnswered, PostFails, Posting
<1>. PICK m : m = Len(arrived)
  OBVIOUS
<1>. PICK n \in Nat : n = Len(snapshot)
  BY SeqDomain DEF SiemProgress, SiemCalls
<1>. PICK B : B = NextBatch(next, n)
  OBVIOUS
<1>. PICK k : k = Cardinality(B)
  OBVIOUS
<1>. PICK a, b : a = arrived'[m] /\ b = arrived[m]
  OBVIOUS
<1>1. /\ IsSeq(arrived') /\ Len(arrived') = m /\ m # 0
      /\ \A i \in DOMAIN arrived : i # m => arrived'[i] = arrived[i]
      /\ Arrive => a = WithBatch(b, counts.batches, B)
      /\ ~Arrive => a = b
  BY <1>0, ArriveForm
<1>2. Accounted(counts, b, next, n)
  BY <1>0 DEF SiemProgress
<1>3. B # {} /\ counts \in Counts /\ next \in Nat \ {0}
  BY <1>2 DEF PostAnswered, PostFails, Posting, Batch, NextBatch, Accounted
<1>4. k \in Nat
  BY <1>3, BatchFollows
<1>5. /\ phase' = phase /\ cached' = cached /\ snapshot' = snapshot /\ returns' = returns
      /\ next' = next + BatchSize
  BY DEF PostAnswered, PostFails, seal
<1>6. Accounted(counts', a, next', n)
  <2>. PICK d : d = counts'
    OBVIOUS
  <2>1. CASE PostAnswered
    <3>1. d = AddBatch(counts, k)
      BY <2>1 DEF PostAnswered, Answered, AddBatch, Batch, NextBatch
    <3>2. /\ d \in Counts /\ d.sent = counts.sent + k /\ d.failed = counts.failed
          /\ d.batches = counts.batches + 1
      BY ONLY <1>3, <1>4, <3>1, CountsAnswered
    <3>3. a = WithBatch(b, counts.batches, B)
      BY <1>0, <1>1, <2>1
    <3>. QED BY <1>2, <1>3, <1>5, <3>2, <3>3, AccountedAnswer
  <2>2. CASE PostFails
    <3>1. d = [counts EXCEPT !.failed = @ + k]
      BY <2>2 DEF PostFails, Batch, NextBatch
    <3>2. d \in Counts /\ d.sent = counts.sent /\ d.failed = counts.failed + k
      BY <1>3, <1>4, <3>1 DEF Counts
    <3>3. a = b \/ a = WithBatch(b, counts.batches, B)
      BY <1>1
    <3>. QED BY <1>2, <1>3, <1>5, <3>2, <3>3, AccountedFailure
  <2>. QED BY <2>1, <2>2
<1>7. /\ IsSeq(returns) /\ IsSeq(snapshot) /\ cached /\ m = Len(returns) + 1
      /\ \A i \in DOMAIN returns : TrueOf(returns[i], arrived[i], snapshot)
      /\ IsSeq(arrived)
  BY <1>0 DEF SiemProgress, SiemCalls
<1>8. ASSUME NEW i \in DOMAIN returns PROVE TrueOf(returns[i], arrived'[i], snapshot)
  <2>1. /\ DOMAIN returns = 1..Len(returns) /\ Len(returns) \in Nat
        /\ DOMAIN arrived = 1..m
    BY <1>7, SeqDomain
  <2>2. i \in DOMAIN arrived /\ i # m
    BY <1>7, <2>1
  <2>. QED BY <1>1, <1>7, <2>2
<1>9. SiemCalls'
  BY <1>0, <1>1, <1>5, <1>7, <1>8 DEF SiemCalls
<1>. QED BY <1>1, <1>5, <1>6, <1>9 DEF SiemProgress

LEMMA EndProgress == SiemProgress /\ (LoadFails \/ PostRaises \/ ReturnCounts) => SiemProgress'
<1>. SUFFICES ASSUME SiemProgress, LoadFails \/ PostRaises \/ ReturnCounts PROVE SiemProgress'
  OBVIOUS
<1>0. \A b, s : TrueOf(Raised, b, s)
  BY NotRaised
<1>1. CASE LoadFails
  <2>1. /\ phase = "reading" /\ Over(Raised) /\ cached' = cached /\ snapshot' = snapshot
        /\ next' = next /\ counts' = counts /\ arrived' = arrived /\ IsSeq(arrived)
    BY <1>1 DEF LoadFails, SiemProgress, SiemCalls
  <2>. QED BY <1>0, <2>1, OverProgress
<1>2. CASE PostRaises
  <2>1. /\ phase = "posting" /\ Over(Raised) /\ cached' = cached /\ snapshot' = snapshot
        /\ next' = next /\ counts' = counts /\ (Arrive \/ UNCHANGED arrived)
    BY <1>2 DEF PostRaises, Posting
  <2>2. /\ IsSeq(arrived') /\ Len(arrived') = Len(arrived)
        /\ \A i \in DOMAIN arrived : i # Len(arrived) => arrived'[i] = arrived[i]
    BY <2>1, ArriveForm
  <2>. QED BY <1>0, <2>1, <2>2, OverProgress
<1>3. CASE ReturnCounts
  <2>1. /\ phase = "posting" /\ Over(counts) /\ cached' = cached /\ snapshot' = snapshot
        /\ next' = next /\ counts' = counts /\ arrived' = arrived /\ IsSeq(arrived) /\ cached
        /\ IsSeq(snapshot)
    BY <1>3 DEF ReturnCounts, seal, SiemProgress, SiemCalls
  <2>2. /\ Accounted(counts, arrived[Len(arrived)], next, Len(snapshot))
        /\ NextBatch(next, Len(snapshot)) = {}
    BY <1>3, <2>1 DEF ReturnCounts, SiemProgress, Batch, NextBatch
  <2>3. TrueOf(counts, arrived[Len(arrived)], snapshot)
    BY <2>1, <2>2, AccountedEnds
  <2>. QED BY <2>1, <2>3, OverProgress
<1>. QED BY <1>1, <1>2, <1>3

LEMMA SiemProgressStep == SiemProgress /\ SiemFiles' /\ [SiemNext]_siemVars => SiemProgress'
<1>. SUFFICES ASSUME SiemProgress, SiemFiles', [SiemNext]_siemVars PROVE SiemProgress'
  OBVIOUS
<1>1. CASE Truncate \/ Fill \/ UNCHANGED siemVars
  <2>1. UNCHANGED reader
    BY <1>1 DEF Truncate, Fill, siemVars, reader
  <2>. QED BY <2>1 DEF reader, SiemProgress, SiemCalls
<1>. QED BY <1>1, CallProgress, LoadProgress, PostProgress, EndProgress DEF SiemNext

\* Whatever is lost, refused or broken off on the way, and however often the calls are
\* repeated: the counts a call returns account for every record of the session once, no more
\* count as sent than the endpoint has, and if nothing failed an endpoint that keeps one
\* batch per number has all of them.
THEOREM CountsTrue == SiemSpec => []CountsAreTrue
<1>1. SiemProgress => CountsAreTrue
  BY DEF SiemProgress, SiemCalls, TrueOf, RecordsOf, CountsAreTrue
<1>. QED BY <1>1, SiemProgressInit, SiemProgressStep, SiemFilesHolds, PTL DEF SiemSpec

-----------------------------------------------------------------------------
(* Observer: the ledgers of the sessions and their files.                  *)

\* A key's ledger holds one session or several that were started in it; a file verifies
\* unless its session was started again.
ObserverState ==
    /\ ledgers = [k \in SessionKeys |-> ledgers[k]]
    /\ \A k \in SessionKeys : ledgers[k] # NoLedger => Tracking(ledgers[k])
    /\ ObservedSessionsVerify

\* The key of a message is one of the gateway's.
InboxKeys == IsSeq(inbox) /\ \A i \in DOMAIN inbox : inbox[i].key \in SessionKeys

ObserverInv == InboxKeys /\ ObserverState

LEMMA NothingIsLog == \A sid : IsLogOf(<<>>, sid) /\ EmptyOrStarted(<<>>)
BY DEF IsLogOf, IsSeq, EmptyOrStarted

LEMMA LedgerForStarts ==
    ASSUME ObserverState, NEW key \in SessionKeys
    PROVE  LET l == LedgerFor(key)
           IN  IsLedger(l) /\ IsLogOf(l.rows, l.sid) /\ EmptyOrStarted(l.rows)
<1>1. CASE ledgers[key] = NoLedger
  <2>1. LedgerFor(key) = NewLedger(sids + 1)
    BY <1>1 DEF LedgerFor
  <2>2. IsLedger(NewLedger(sids + 1)) /\ NewLedger(sids + 1).rows = <<>>
    BY NewLedgerIsLedger
  <2>. QED BY <2>1, <2>2, NothingIsLog
<1>2. CASE ledgers[key] # NoLedger
  BY <1>2 DEF LedgerFor, ObserverState, Tracking, EmptyOrStarted
<1>. QED BY <1>1, <1>2

\* The handling of a message leaves a ledger that tracks its session, or ends it.
LEMMA Replaces ==
    ASSUME ObserverState, NEW key \in SessionKeys, NEW l, Tracking(l),
           ledgers' = [ledgers EXCEPT ![key] = l], UNCHANGED exports
    PROVE  ObserverState'
<1>1. \A k \in SessionKeys : ledgers'[k] = IF k = key THEN l ELSE ledgers[k]
  BY DEF ObserverState
<1>2. ledgers' = [k \in SessionKeys |-> ledgers'[k]]
  BY DEF ObserverState
<1>3. \A k \in SessionKeys : ledgers'[k] # NoLedger => Tracking(ledgers'[k])
  BY <1>1 DEF ObserverState
<1>4. ObservedSessionsVerify'
  BY DEF ObserverState, ObservedSessionsVerify
<1>. QED BY <1>2, <1>3, <1>4 DEF ObserverState

LEMMA StartTracks ==
    ASSUME ObserverState, NEW m, m.key \in SessionKeys, HandleStart(m)
    PROVE  ObserverState'
<1>. PICK l : l = LedgerFor(m.key)
  OBVIOUS
<1>1. ledgers' = [ledgers EXCEPT ![m.key] = Opened(l, l.sid, Body(m))] /\ UNCHANGED exports
  BY DEF HandleStart
<1>2. IsLedger(l) /\ IsLogOf(l.rows, l.sid) /\ EmptyOrStarted(l.rows)
  BY LedgerForStarts
<1>3. ~Has(Body(m), "pubkey")
  BY DEF Has, Body
<1>4. Tracking(Opened(l, l.sid, Body(m)))
  BY ONLY <1>2, <1>3, OpenedTracks
<1>. QED BY <1>1, <1>4, Replaces

LEMMA RecordTracks ==
    ASSUME ObserverState, NEW m, m.key \in SessionKeys, RecordEvent(m)
    PROVE  ObserverState'
<1>1. CASE ledgers[m.key] = NoLedger
  <2>. PICK l : l = NewLedger(sids + 1)
    OBVIOUS
  <2>. PICK o : o = Opened(l, sids + 2, Implicit)
    OBVIOUS
  <2>1. ledgers' = [ledgers EXCEPT ![m.key] = Stored(o, "ACTION", Body(m))] /\ UNCHANGED exports
    BY <1>1 DEF RecordEvent
  <2>2. IsLedger(l) /\ l.rows = <<>>
    BY NewLedgerIsLedger
  <2>3. IsLogOf(l.rows, sids + 2) /\ EmptyOrStarted(l.rows)
    BY <2>2, NothingIsLog
  <2>4. ~Has(Implicit, "pubkey")
    BY DEF Has, Implicit
  <2>5. Tracking(Opened(l, sids + 2, Implicit))
    BY ONLY <2>2, <2>3, <2>4, OpenedTracks
  <2>6. Tracking(Stored(o, "ACTION", Body(m)))
    BY <2>5, StoredTracks
  <2>. QED BY <2>1, <2>6, Replaces
<1>2. CASE ledgers[m.key] # NoLedger
  <2>1. ledgers' = [ledgers EXCEPT ![m.key] = Stored(ledgers[m.key], "ACTION", Body(m))]
    BY <1>2 DEF RecordEvent
  <2>2. Tracking(ledgers[m.key]) /\ UNCHANGED exports
    BY <1>2 DEF ObserverState, RecordEvent
  <2>3. Tracking(Stored(ledgers[m.key], "ACTION", Body(m)))
    BY <2>2, StoredTracks
  <2>. QED BY <2>1, <2>2, <2>3, Replaces
<1>. QED BY <1>1, <1>2

LEMMA EndVerifies ==
    ASSUME ObserverState, NEW m, m.key \in SessionKeys, HandleEnd(m)
    PROVE  ObserverState'
<1>1. CASE ledgers[m.key] = NoLedger
  BY <1>1 DEF HandleEnd, ObserverState, ObservedSessionsVerify
<1>2. CASE ledgers[m.key] # NoLedger
  <2>. PICK l : l = Stored(ledgers[m.key], "SESSION_END", Body(m))
    OBVIOUS
  <2>. PICK r : r = [key |-> m.key, sid |-> l.sid, rows |-> l.rows, lines |-> Exported(l)]
    OBVIOUS
  <2>1. exports' = exports \cup {r} /\ ledgers' = [ledgers EXCEPT ![m.key] = NoLedger]
    BY <1>2 DEF HandleEnd
  <2>2. Tracking(ledgers[m.key])
    BY <1>2 DEF ObserverState
  <2>3. Tracking(l) /\ EndsIfOne(l)
    BY <2>2, StoredTracks
  <2>4. Cardinality(Of(l.rows, "SESSION_START")) <= 1 =>
           PythonVerify(Exported(l), NoPin, FALSE).status = "INTACT"
    <3>1. CASE StartsTwice(l.rows)
      BY <2>3, <3>1, TwoStarts DEF Tracking, IsLedger
    <3>2. CASE ~StartsTwice(l.rows)
      BY <2>3, <3>2, EndedVerifies DEF Tracking, EndsIfOne
    <3>. QED BY <3>1, <3>2
  <2>5. ObservedSessionsVerify'
    <3>1. r.rows = l.rows /\ r.lines = Exported(l)
      OBVIOUS
    <3>. QED BY <2>1, <2>4, <3>1 DEF ObserverState, ObservedSessionsVerify
  <2>6. \A k \in SessionKeys : ledgers'[k] = IF k = m.key THEN NoLedger ELSE ledgers[k]
    BY <2>1 DEF ObserverState
  <2>7. ledgers' = [k \in SessionKeys |-> ledgers'[k]]
    BY <2>1 DEF ObserverState
  <2>. QED BY <2>5, <2>6, <2>7 DEF ObserverState
<1>. QED BY <1>1, <1>2

\* A broadcast reaches the inbox under one of the keys.
LEMMA BroadcastArrives ==
    ASSUME InboxKeys, NEW k \in SessionKeys, NEW y \in MessageTypes, Broadcast(k, y)
    PROVE  InboxKeys' /\ UNCHANGED <<ledgers, exports>>
<1>. PICK m : m = [id |-> sent + 1, key |-> k, type |-> y]
  OBVIOUS
<1>1. inbox' = Append(inbox, m) \/ inbox' = inbox
  BY DEF Broadcast
<1>2. IsSeq(inbox) /\ \A i \in DOMAIN inbox : inbox[i].key \in SessionKeys
  BY DEF InboxKeys
<1>3. DOMAIN inbox = 1..Len(inbox) /\ Len(inbox) \in Nat
  BY <1>2, SeqDomain
<1>4. CASE inbox' = Append(inbox, m)
  <2>1. /\ IsSeq(inbox') /\ Len(inbox') = Len(inbox) + 1 /\ inbox'[Len(inbox) + 1] = m
        /\ \A i \in 1..Len(inbox) : inbox'[i] = inbox[i]
    BY <1>2, <1>4, Appending
  <2>2. DOMAIN inbox' = 1..(Len(inbox) + 1)
    BY <2>1, SeqDomain
  <2>. QED BY <1>2, <1>3, <2>1, <2>2 DEF InboxKeys, Broadcast, store
<1>5. CASE inbox' = inbox
  BY <1>5 DEF InboxKeys, Broadcast, store
<1>. QED BY <1>1, <1>4, <1>5

LEMMA TailOfInbox ==
    ASSUME InboxKeys, inbox # <<>>
    PROVE  Head(inbox).key \in SessionKeys /\ (inbox' = Tail(inbox) => InboxKeys')
<1>. PICK S : S = {inbox[i] : i \in DOMAIN inbox}
  OBVIOUS
<1>1. inbox \in Seq(S) /\ \A i \in DOMAIN inbox : inbox[i].key \in SessionKeys
  BY DEF InboxKeys, IsSeq
<1>2. DOMAIN inbox = 1..Len(inbox) /\ Len(inbox) \in Nat /\ Len(inbox) # 0
  BY <1>1
<1>3. Head(inbox) = inbox[1]
  BY <1>1
<1>4. ASSUME inbox' = Tail(inbox) PROVE InboxKeys'
  <2>1. /\ inbox' \in Seq(S) /\ Len(inbox') = Len(inbox) - 1
        /\ \A i \in 1..Len(inbox') : inbox'[i] = inbox[i + 1]
    BY <1>1, <1>2, <1>4
  <2>2. IsSeq(inbox')
    <3>1. inbox' = [i \in 1..Len(inbox') |-> inbox'[i]] /\ Len(inbox') \in Nat
      BY <2>1
    <3>. QED BY <3>1, FunctionIsSequence
  <2>3. DOMAIN inbox' = 1..Len(inbox')
    BY <2>2, SeqDomain
  <2>4. \A i \in DOMAIN inbox' : i + 1 \in DOMAIN inbox
    BY <1>2, <2>1, <2>3
  <2>. QED BY <1>1, <2>1, <2>2, <2>3, <2>4 DEF InboxKeys
<1>. QED BY <1>1, <1>2, <1>3, <1>4

LEMMA HandleRawVerifies ==
    ASSUME ObserverInv, HandleRaw
    PROVE  ObserverInv'
<1>. PICK m : m = Head(inbox)
  OBVIOUS
<1>1. /\ HandleStart(m) \/ HandleEnd(m) \/ RecordEvent(m) \/ Unmapped(m)
      /\ inbox # <<>> /\ inbox' = Tail(inbox)
  BY DEF HandleRaw
<1>2. m.key \in SessionKeys /\ InboxKeys'
  BY <1>1, TailOfInbox DEF ObserverInv
<1>3. CASE Unmapped(m)
  BY <1>2, <1>3 DEF ObserverInv, ObserverState, ObservedSessionsVerify, Unmapped, store
<1>. QED BY <1>1, <1>2, <1>3, StartTracks, EndVerifies, RecordTracks DEF ObserverInv

LEMMA ObserverInvKept == ObserverInv /\ [ObserverNext]_observerVars => ObserverInv'
<1>. SUFFICES ASSUME ObserverInv, [ObserverNext]_observerVars PROVE ObserverInv'
  OBVIOUS
<1>1. CASE InboxKeys' /\ UNCHANGED <<ledgers, exports>>
  BY <1>1 DEF ObserverInv, ObserverState, ObservedSessionsVerify
<1>2. ASSUME NEW k \in SessionKeys, NEW y \in MessageTypes, Broadcast(k, y) PROVE ObserverInv'
  BY <1>1, <1>2, BroadcastArrives DEF ObserverInv
<1>3. CASE HandleRaw
  BY <1>3, HandleRawVerifies
<1>4. CASE Leave
  <2>1. InboxKeys'
    BY <1>4 DEF Leave, InboxKeys, IsSeq
  <2>. QED BY <1>1, <1>4, <2>1 DEF Leave, store
<1>5. CASE GatewayUp \/ GatewayDown \/ Run \/ StopObserver \/ UNCHANGED observerVars
             \/ Loop \/ Connect \/ ConnectFails \/ Wake \/ Disconnected
  <2>1. UNCHANGED <<inbox, ledgers, exports>>
    BY <1>5 DEF GatewayUp, GatewayDown, Run, StopObserver, Loop, Connect, ConnectFails, Wake,
                Disconnected, observerVars, store
  <2>. QED BY <1>1, <2>1 DEF ObserverInv, InboxKeys
<1>. QED BY <1>2, <1>3, <1>4, <1>5 DEF ObserverNext, Task

LEMMA ObserverBegins == ObserverInit => ObserverInv
<1>. SUFFICES ASSUME ObserverInit PROVE ObserverInv
  OBVIOUS
<1>1. inbox = <<>> /\ exports = {} /\ ledgers = [k \in SessionKeys |-> NoLedger]
  BY DEF ObserverInit
<1>2. InboxKeys
  BY <1>1 DEF InboxKeys, IsSeq
<1>. QED BY <1>1, <1>2 DEF ObserverInv, ObserverState, ObservedSessionsVerify

\* For any sessions, messages, outages, reconnects and stops, what the observer missed while
\* it was disconnected does not spoil what it saw (OpenClawObserver._handle_raw).
THEOREM ObservedFilesVerify == ObserverSpec => []ObservedSessionsVerify
<1>1. ObserverInv => ObservedSessionsVerify
  BY DEF ObserverInv, ObserverState
<1>. QED BY <1>1, ObserverBegins, ObserverInvKept, PTL DEF ObserverSpec
=============================================================================
