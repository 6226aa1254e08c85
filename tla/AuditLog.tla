------------------------------ MODULE AuditLog ------------------------------
(***************************************************************************)
(* What the ledger promises to the rest of Sasana: per session, a log that *)
(* only grows, one chained event at a time.  The single permitted rewrite  *)
(* is the documented two-pass anchoring of the first event, before a       *)
(* second event exists.                                                    *)
(***************************************************************************)
EXTENDS EventChain

CONSTANTS Sessions,   \* session ids
          Data,       \* payload bodies of the events after SESSION_START
          Key         \* the session signing key, or NoKey

VARIABLE log          \* per session, its committed events in order

AbstractInit == log = [s \in Sessions |-> <<>>]

\* One more event of session s, chained to its tip.
AppendTo(s) ==
    \E type \in SdkTypes, p \in {StartPayload(Key)} \cup {Payload(d) : d \in Data} :
       log' = [log EXCEPT ![s] =
                 Append(@, BuildEvent(Len(@) + 1, type, s, p, Tip(@), Key))]

\* The only event of session s receives a token over its own hash.
Anchor(s) ==
    /\ Len(log[s]) = 1
    /\ log[s][1].payload.token = NoToken
    /\ log' = [log EXCEPT ![s] = <<Anchored(@[1], @[1].hash, Key)>>]

AbstractNext == \E s \in Sessions : AppendTo(s) \/ Anchor(s)

AbstractSpec == AbstractInit /\ [][AbstractNext]_log
=============================================================================
