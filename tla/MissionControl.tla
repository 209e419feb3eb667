---------------------------- MODULE MissionControl ----------------------------
(***************************************************************************)
(* Triage passes that write agent_runs and run_steps while an operator     *)
(* watches them on the Mission Control page: Triage and RunFeed share the  *)
(* tables of AgentRuns and nothing else.                                   *)
(***************************************************************************)
EXTENDS Triage, RunFeed

vars == <<tables, triageVars, feedVars>>

Init == TablesInit /\ TriageInit /\ FeedInit

Next ==
  \/ TriageNext /\ UNCHANGED feedVars
  \/ FeedNext /\ UNCHANGED <<tables, triageVars>>

Spec == Init /\ [][Next]_vars

\* The tables, the events, the passes and the page hold values of their types, and a
\* pass that goes on has an event that was reported.
TypeOK == TablesOK /\ TriageOK /\ FeedOK

=============================================================================
