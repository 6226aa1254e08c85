------------------------------ MODULE Reports -------------------------------
(***************************************************************************)
(* What the commands say of a session file: `sasana verify` with its exit  *)
(* codes, and `sasana evidence-pack` with the four reports of              *)
(* sasana/compliance, which read the file on their own and judge the       *)
(* events they have put in order.                                          *)
(*                                                                         *)
(* Rendering and the timestamps of single events are left out.  ACTION     *)
(* stands for the types of an input and of an output: the EU AI Act report *)
(* is never stricter here than it is.                                      *)
(***************************************************************************)
EXTENDS Verifier

Standards == {"eu_ai_act", "soc2", "hipaa", "siem"}

StatusCode == [INTACT |-> 0, COMPROMISED |-> 1, PARTIAL |-> 2, ERROR |-> 3]

VerifyExitCode(verdict, strict) ==
    IF strict /\ verdict.status = "INTACT" /\ verdict.class # "AUTHORITATIVE_EVIDENCE"
    THEN 4 ELSE StatusCode[verdict.status]

\* `sasana verify`: the events as they are in the file; --strict needs --trust-key.
VerifyCommand(lines, pin, requireSeal, strict) ==
    IF strict /\ pin = NoPin THEN 3
    ELSE VerifyExitCode(PythonVerify(lines, pin, requireSeal), strict)

-----------------------------------------------------------------------------
(* sasana/compliance                                                       *)

\* verify_session on what load_session returns; no report demands a seal.
VerifySession(lines, pin) == PythonVerify(OrderBySeq(lines), pin, FALSE)

Intact(verdict) == verdict.status \in {"INTACT", "PARTIAL"}

\* seal_trusted: the seal is there, and signed by the pinned key.
ServerSealed(lines, pin) ==
    /\ pin # NoPin
    /\ Intact(VerifySession(lines, pin))

EuAiActCompliant(lines, pin) ==
    /\ Intact(VerifySession(lines, pin))
    /\ \A type \in {"ACTION", "SESSION_START", "SESSION_END"} : Of(lines, type) # {}

Soc2Passes(lines, pin) == Intact(VerifySession(lines, pin))

HipaaCompliant(lines, pin) == Intact(VerifySession(lines, pin))

SiemExported(lines, pin) == VerifySession(lines, pin).class # "NO_EVIDENCE"

StatusOk(standard, lines, pin) ==
    CASE standard = "eu_ai_act" -> EuAiActCompliant(lines, pin)
      [] standard = "soc2"      -> Soc2Passes(lines, pin)
      [] standard = "hipaa"     -> HipaaCompliant(lines, pin)
      [] standard = "siem"      -> SiemExported(lines, pin)

\* `sasana evidence-pack`: 3 for a line that does not parse, which load_session raises.
PackCommand(standard, lines, pin) ==
    IF ~Readable(lines) THEN 3
    ELSE IF StatusOk(standard, lines, pin) THEN 0 ELSE 2
=============================================================================
