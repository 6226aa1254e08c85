-------------------------------- MODULE Siem --------------------------------
(***************************************************************************)
(* The SIEM exporter (sasana/compliance/siem.py): the session file is read *)
(* and judged once, while `sasana seal` may be replacing it in place, and  *)
(* what was read is posted in batches, to a webhook or to Splunk, by calls *)
(* that may be repeated.  A request or its answer gets lost, the endpoint  *)
(* refuses, or the answer breaks off, which urlopen does not turn into the *)
(* URLError the loop catches.                                              *)
(***************************************************************************)
EXTENDS Archeion

CONSTANTS
    Recorded0,  \* the exported session
    SealKey,    \* the Archeion server's key
    BatchSize,  \* records per request
    MaxCalls    \* bound: calls of to_webhook or to_splunk_hec

ASSUME SiemAssumption == BatchSize \in Nat \ {0} /\ MaxCalls \in Nat

\* The file of a session that was recorded, ended and exported: its end, if it has one, is
\* its last event.
ASSUME RecordedAssumption ==
    /\ Recorded0 \in Seq({Recorded0[i] : i \in DOMAIN Recorded0})
    /\ Numbered(Recorded0)
    /\ Of(Recorded0, "SESSION_END") \cup Of(Recorded0, "CHAIN_SEAL") \subseteq {Len(Recorded0)}

VARIABLES
    siemFile,  \* the lines of the session file
    filling,   \* is the command that replaces them still writing?
    phase,     \* "idle", "reading" or "posting"
    buffer,    \* the lines _load has read so far
    sawFile,   \* the file as it was when they were read
    cached,    \* was the session loaded?  _events is not None
    snapshot,  \* _events
    next,      \* the first record not posted yet
    counts,    \* sent, failed and batches of the call
    returns,   \* per call so far: its counts, or Raised
    arrived    \* per call: the batches the endpoint accepted, each with its number

siemVars == <<siemFile, filling, phase, buffer, sawFile, cached, snapshot, next, counts,
              returns, arrived>>

SealedLog == SealResponse(Recorded0, SealKey).body

NoCounts == [sent |-> 0, failed |-> 0, batches |-> 0]
Raised == [raised |-> TRUE]

SiemInit ==
    /\ siemFile = Recorded0 /\ filling = FALSE
    /\ phase = "idle" /\ buffer = <<>> /\ sawFile = <<>>
    /\ cached = FALSE /\ snapshot = <<>>
    /\ next = 1 /\ counts = NoCounts
    /\ returns = <<>> /\ arrived = <<>>

-----------------------------------------------------------------------------
(* `sasana seal` on the same file; it may be killed after any step.        *)

reader == <<phase, buffer, sawFile, cached, snapshot, next, counts, returns, arrived>>

Truncate ==
    /\ siemFile = Recorded0
    /\ siemFile' = <<>> /\ filling' = TRUE
    /\ UNCHANGED reader

\* What of the sealed log can be in the file.
Written == {SubSeq(SealedLog, 1, n) : n \in 0..Len(SealedLog)}
             \cup {Append(SubSeq(SealedLog, 1, n), Torn) : n \in 0..(Len(SealedLog) - 1)}

\* Two for a whole line, one for the beginning of a line.
Extent(lines) == Len(lines) + Cardinality({i \in DOMAIN lines : IsEvent(lines[i])})

\* More of the sealed log has reached the file.
Fill ==
    /\ filling
    /\ siemFile' \in Written
    /\ Extent(siemFile') > Extent(siemFile)
    /\ filling' = (siemFile' # SealedLog)
    /\ UNCHANGED reader

-----------------------------------------------------------------------------
(* The exporter                                                            *)

seal == <<siemFile, filling>>

\* A call of to_webhook or to_splunk_hec: what was loaded before is used again.
CallExport ==
    /\ phase = "idle" /\ Len(returns) < MaxCalls
    /\ phase' = IF cached THEN "posting" ELSE "reading"
    /\ sawFile' = siemFile
    /\ \E n \in 0..Len(siemFile) : buffer' = IF cached THEN <<>> ELSE SubSeq(siemFile, 1, n)
    /\ next' = 1 /\ counts' = NoCounts
    /\ arrived' = Append(arrived, <<>>)
    /\ UNCHANGED <<seal, cached, snapshot, returns>>

\* The call ends.
Over(result) ==
    /\ phase' = "idle"
    /\ returns' = Append(returns, result)
    /\ buffer' = <<>> /\ sawFile' = <<>>

\* The rest of the file as it is now, if the first part ended inside a line of it
\* or not.
RestOfFile ==
    {SubSeq(siemFile, Len(buffer) + 1, Len(siemFile))}
       \cup IF siemFile # sawFile /\ Len(siemFile) > Len(buffer) THEN {<<Torn>>} ELSE {}

\* load_session: every line parses, and the events are put in order.
LoadRest ==
    /\ phase = "reading"
    /\ \E rest \in RestOfFile : LET lines == buffer \o rest IN
          /\ \A i \in DOMAIN lines : IsEvent(lines[i])
          /\ snapshot' = OrderBySeq(lines)
    /\ cached' = TRUE
    /\ phase' = "posting"
    /\ buffer' = <<>> /\ sawFile' = <<>>
    /\ UNCHANGED <<seal, next, counts, returns, arrived>>

\* A line does not parse: the call raises, and nothing was loaded.
LoadFails ==
    /\ phase = "reading"
    /\ \E rest \in RestOfFile : \E i \in DOMAIN (buffer \o rest) : ~IsEvent((buffer \o rest)[i])
    /\ Over(Raised)
    /\ UNCHANGED <<seal, cached, snapshot, next, counts, arrived>>

\* The records of the next request.
Batch == next..(IF next + BatchSize - 1 < Len(snapshot) THEN next + BatchSize - 1
                ELSE Len(snapshot))

Posting == phase = "posting" /\ Batch # {}

\* The endpoint accepts the request.
Arrive ==
    arrived' = [arrived EXCEPT ![Len(arrived)] =
                  Append(@, [number |-> counts.batches, records |-> Batch])]

\* Mutant: the number of batches is not advanced.
Unnumbered == [counts EXCEPT !.sent = @ + Cardinality(Batch)]

\* What an answered batch adds to the counts.
Answered == [counts EXCEPT !.sent = @ + Cardinality(Batch), !.batches = @ + 1]

PostAnswered ==
    /\ Posting
    /\ Arrive
    /\ counts' = Answered
    /\ next' = next + BatchSize
    /\ UNCHANGED <<seal, phase, buffer, sawFile, cached, snapshot, returns>>

\* URLError: refused, not delivered, or accepted behind a gateway that gave up.  The
\* next batch has the same number.
PostFails ==
    /\ Posting
    /\ Arrive \/ UNCHANGED arrived
    /\ counts' = [counts EXCEPT !.failed = @ + Cardinality(Batch)]
    /\ next' = next + BatchSize
    /\ UNCHANGED <<seal, phase, buffer, sawFile, cached, snapshot, returns>>

\* The connection is closed or times out instead of an answer, whether the request
\* was accepted or not: the exception ends the call, the counts are lost.
PostRaises ==
    /\ Posting
    /\ Arrive \/ UNCHANGED arrived
    /\ Over(Raised)
    /\ UNCHANGED <<seal, cached, snapshot, next, counts>>

ReturnCounts ==
    /\ phase = "posting" /\ Batch = {}
    /\ Over(counts)
    /\ UNCHANGED <<seal, cached, snapshot, next, counts, arrived>>

SiemNext ==
    \/ Truncate \/ Fill
    \/ CallExport \/ LoadRest \/ LoadFails
    \/ PostAnswered \/ PostFails \/ PostRaises \/ ReturnCounts

SiemSpec == SiemInit /\ [][SiemNext]_siemVars

-----------------------------------------------------------------------------
(* Properties                                                              *)

\* The records of a call the endpoint has, when it keeps one batch per number.
ByNumber(batches) ==
    UNION {batches[i].records :
             i \in {j \in DOMAIN batches :
                      \A k \in DOMAIN batches : k > j => batches[k].number # batches[j].number}}

\* The counts a call returns are true of the endpoint: each record is counted
\* once, at least as many have arrived as count as sent, and when nothing failed an endpoint
\* that keeps one batch per number has the whole session.
CountsAreTrue ==
    \A k \in DOMAIN returns : returns[k] # Raised =>
       /\ returns[k].sent + returns[k].failed = Len(snapshot)
       /\ Cardinality(UNION {arrived[k][i].records : i \in DOMAIN arrived[k]}) >= returns[k].sent
       /\ returns[k].failed = 0 => ByNumber(arrived[k]) = DOMAIN snapshot

\* The class the exporter sends along, and caches, is that of a whole session: a
\* file that is being replaced while it is read never yields part of a session
\* that passes for evidence.
SnapshotIsWhole ==
    PythonVerify(snapshot, NoPin, FALSE).class # "NO_EVIDENCE" =>
       snapshot \in {Recorded0, SealedLog}
=============================================================================
