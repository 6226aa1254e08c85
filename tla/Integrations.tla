---------------------------- MODULE Integrations ----------------------------
(***************************************************************************)
(* The tracers and the SIEM exporter side by side.  They share no state: a *)
(* process uses one of them, and a behaviour runs one.                     *)
(***************************************************************************)
EXTENDS CrewTracer, AutoGptPlugin, SpanExporter, Siem

VARIABLE host   \* the integration that runs

Hosts == {"crewai", "autogpt", "otel", "siem"}

allVars == <<vars, pluginVars, spanVars, siemVars, host>>

IntegrationInit == host \in Hosts /\ Init /\ PluginInit /\ SpanInit /\ SiemInit

Runs(h) == host = h /\ UNCHANGED host

IntegrationNext ==
    \/ Runs("crewai") /\ Next /\ UNCHANGED <<pluginVars, spanVars, siemVars>>
    \/ Runs("autogpt") /\ PluginNext /\ UNCHANGED <<vars, spanVars, siemVars>>
    \/ Runs("otel") /\ SpanNext /\ UNCHANGED <<vars, pluginVars, siemVars>>
    \/ Runs("siem") /\ SiemNext /\ UNCHANGED <<vars, pluginVars, spanVars>>

IntegrationSpec == IntegrationInit /\ [][IntegrationNext]_allVars

\* The file of a session that was opened once verifies, in each of the tracers,
\* whatever they record in its database afterwards.
FirstFilesVerify == FirstFileVerifies /\ PluginFilesVerify /\ TraceFilesVerify
=============================================================================
