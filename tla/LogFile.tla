------------------------------ MODULE LogFile -------------------------------
(***************************************************************************)
(* What the verifiers say of a session file that was stored, copied or     *)
(* edited after it was exported: lines get lost, repeated, moved, torn,    *)
(* mixed with another session's, or a field of one changes while its hash  *)
(* stays.                                                                  *)
(***************************************************************************)
EXTENDS Archeion, Reports

CONSTANTS
    Shapes,      \* the event types of the recorded sessions, in order
    Keys,        \* the session keys in use, NoKey among them
    Canons,      \* the canonicalizations of the SDK releases in use
    ServerKey,   \* Archeion's key, the one verifiers pin
    MaxFaults    \* bound: faults a file suffers

\* The SDK's own events, a SESSION_START first, under a canonicalization verifiers know.
ASSUME LogFileAssumption ==
    /\ \A shape \in Shapes : /\ shape \in Seq(SdkTypes) /\ shape # <<>>
                             /\ shape[1] = "SESSION_START"
    /\ Canons \subseteq {Rfc8785, Legacy}
    /\ ServerKey # NoKey
    /\ MaxFaults \in Nat

VARIABLES
    recorded, \* the session as it was recorded, and sealed if it could be
    file,     \* the lines of its file
    faults    \* how many faults there have been

logFileVars == <<recorded, file, faults>>

-----------------------------------------------------------------------------
(* The recorded sessions                                                   *)

StartBody(canon, key) ==
    IF canon = Rfc8785 THEN [canon |-> Rfc8785, pubkey |-> key] ELSE [pubkey |-> key]

\* An event as the SDK release that declares canon writes it: hash, then sign.
Written(seq, type, session, payload, prev, key, canon) ==
    LET bare == BuildEvent(seq, type, session, payload, prev, NoKey)
        hash == ComputeEventHash(bare, canon)
    IN  [bare EXCEPT !.hash = hash, !.sig = Signature(key, hash)]

\* The first event, and what anchoring makes of it.
Started(session, key, canon, stamped) ==
    LET start == Written(1, "SESSION_START", session, Payload(StartBody(canon, key)),
                         Genesis, key, canon)
    IN  IF ~stamped THEN start
        ELSE Written(1, "SESSION_START", session,
                     [start.payload EXCEPT !.token = <<start.hash>>], Genesis, key, canon)

\* The log of a session whose calls did not overlap.
Recorded(shape, session, key, canon, stamped) ==
    LET body(type) == IF type = "SESSION_START" THEN StartBody(canon, key)
                      ELSE [text |-> session]
        event[i \in DOMAIN shape] ==
            IF i = 1 THEN Started(session, key, canon, stamped)
            ELSE Written(i, shape[i], session, Payload(body(shape[i])),
                         event[i - 1].hash, key, canon)
    IN  [i \in DOMAIN shape |-> event[i]]

Originals ==
    {Recorded(shape, "s1", key, canon, stamped) :
        shape \in Shapes, key \in Keys, canon \in Canons, stamped \in BOOLEAN}

\* Another session of the same SDK, the source of misplaced lines.
Other == Recorded(<<"SESSION_START", "ACTION", "SESSION_END">>, "s2", NoKey, Rfc8785, FALSE)

\* What the operator keeps: the exported file, or Archeion's answer to it.
Kept(l) ==
    {l} \cup (IF SealResponse(l, ServerKey).code = 200
              THEN {SealResponse(l, ServerKey).body} ELSE {})

LogFileInit ==
    /\ \E l \in Originals : recorded \in Kept(l)
    /\ file = recorded
    /\ faults = 0

-----------------------------------------------------------------------------
(* The faults                                                              *)

Remove(s, i) == SubSeq(s, 1, i - 1) \o SubSeq(s, i + 1, Len(s))
InsertAfter(s, i, x) == SubSeq(s, 1, i) \o <<x>> \o SubSeq(s, i + 1, Len(s))

\* One field of an event changed, its stored hash left as it was unless the hash
\* is the field.
Altered(e) ==
    {[e EXCEPT !.seq = n] : n \in {e.seq - 1, e.seq + 1} \ {0}}
      \cup {[e EXCEPT !.type = y] : y \in {"ACTION", "SESSION_END"} \ {e.type}}
      \cup {[e EXCEPT !.session = "s2"], [e EXCEPT !.prev = Genesis],
            [e EXCEPT !.hash = Genesis], [e EXCEPT !.sig = NoSig],
            [e EXCEPT !.sig = Signature("other-key", e.hash)],
            [e EXCEPT !.payload.body = [text |-> "changed"]],
            [e EXCEPT !.payload.token = NoToken]}

Fault(next) ==
    /\ faults < MaxFaults
    /\ faults' = faults + 1
    /\ file' = next
    /\ UNCHANGED recorded

LoseLine == \E i \in DOMAIN file : Fault(Remove(file, i))

LoseTail == \E n \in 1..(Len(file) - 1) : Fault(SubSeq(file, 1, n))

RepeatLine == \E i, j \in DOMAIN file : Fault(InsertAfter(file, j, file[i]))

SwapLines ==
    \E i, j \in DOMAIN file :
       i < j /\ Fault([file EXCEPT ![i] = file[j], ![j] = file[i]])

TearLine == \E i \in DOMAIN file : Fault([file EXCEPT ![i] = Torn])

MisplaceLine ==
    \E i \in 0..Len(file), j \in DOMAIN Other : Fault(InsertAfter(file, i, Other[j]))

AlterLine ==
    \E i \in DOMAIN file : IsEvent(file[i])
       /\ \E e \in Altered(file[i]) : Fault([file EXCEPT ![i] = e])

LogFileNext ==
    \/ LoseLine \/ LoseTail \/ RepeatLine \/ SwapLines
    \/ TearLine \/ MisplaceLine \/ AlterLine

LogFileSpec == LogFileInit /\ [][LogFileNext]_logFileVars

-----------------------------------------------------------------------------
(* Properties                                                              *)

Unpinned == PythonVerify(file, NoPin, FALSE)

\* Events without their signatures, which no hash covers.
Content(events) == [i \in DOMAIN events |-> [events[i] EXCEPT !.sig = NoSig]]
IsPrefixOf(s, l) == Len(s) <= Len(l) /\ s = SubSeq(l, 1, Len(s))

\* What was recorded of the session whose id the file bears: enough faults turn it
\* into the other session's.
Original == IF file[1].session = Other[1].session THEN Other ELSE recorded

\* A file passes only if, put in order, it is what was recorded of its session up to
\* some event at or after the first SESSION_END: whatever else happened to it is found
\* (sasana/verifier.py, checks 1 to 6).  Its timestamp check then says whether the
\* session was anchored, under either canonicalization.
PassedMeansRecorded ==
    Intact(Unpinned) =>
       /\ IsPrefixOf(Content(OrderBySeq(file)), Content(Original))
       /\ Of(file, "SESSION_END") # {}
       /\ Unpinned.timestamp =
            IF Original[1].payload.token = NoToken THEN "SKIPPED" ELSE "IMPRINT_MATCH"

\* The file is all of a log that Archeion sealed.
WholeAndSealed ==
    /\ recorded[Len(recorded)].type = "CHAIN_SEAL"
    /\ Readable(file) /\ Content(OrderBySeq(file)) = Content(recorded)

\* Whether a command that pins the server's key has a good word for the file: strict
\* or not, `verify` with 0 or 2, a report with 0, or the "server sealed" of a report.
PraisedWithPin ==
    \/ \E strict \in BOOLEAN : VerifyCommand(file, ServerKey, FALSE, strict) \in {0, 2}
    \/ \E standard \in Standards : PackCommand(standard, file, ServerKey) = 0
    \/ Readable(file) /\ ServerSealed(file, ServerKey)

\* What the commands claim of a file is earned, whatever happened to it.
\*  - With the pinned key nothing is missing, not even at the end, and the seal is
\*    Archeion's own; --strict never exits 0 otherwise, nor without a pin.
\*  - SIGNED_NON_AUTHORITATIVE means that every signature the session wrote is there.
\*  - No report passes a file that `verify` refuses, though they read it in another
\*    order; but for the EU AI Act's, they pass exactly what it passes.
ClaimsAreEarned ==
    /\ PraisedWithPin => WholeAndSealed
    /\ \A pin \in {NoPin, ServerKey} : VerifyCommand(file, pin, FALSE, TRUE) = 0 => WholeAndSealed
    /\ Unpinned.class = "SIGNED_NON_AUTHORITATIVE_EVIDENCE" => IsPrefixOf(OrderBySeq(file), recorded)
    /\ \A standard \in Standards, pin \in {NoPin, ServerKey} :
          LET passes == PackCommand(standard, file, pin) = 0
              verified == VerifyCommand(file, pin, FALSE, FALSE) \in {0, 2}
          IN  IF standard = "eu_ai_act" THEN passes => verified ELSE passes <=> verified

\* A file in order is what the SDK and Archeion write.
InOrder == \A i, j \in DOMAIN file : i < j => file[i].seq <= file[j].seq

\* Nothing but the seal comes after the last SESSION_END.
EndsLast ==
    \/ file[Len(file)].type \in {"SESSION_END", "CHAIN_SEAL"}
    \/ Of(file, "SESSION_END") \cup Of(file, "CHAIN_SEAL") = {}

Same(v, w) == <<v.status, v.class>> = <<w.status, w.class>>

\* The Rust and the Python verifier give the same verdict, pinned and unpinned, on
\* every file with readable lines in order, one SESSION_START and nothing after
\* its end, however damaged otherwise.
VerifiersAgree ==
    LET readable == \A i \in DOMAIN file : IsEvent(file[i])
    IN  ~readable \/ file = <<>>
          \/ (InOrder /\ EndsLast /\ Cardinality(Of(file, "SESSION_START")) <= 1) =>
       \A pin \in {NoPin, ServerKey}, require \in BOOLEAN :
          Same(PythonVerify(file, pin, require), RustVerify(file, pin, require))
=============================================================================
