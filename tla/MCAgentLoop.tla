----------------------------- MODULE MCAgentLoop -----------------------------
(***************************************************************************)
(* Instances of AgentLoop for TLC.                                         *)
(***************************************************************************)
EXTENDS AgentLoop

Call(repro, open, retro, faults) ==
  [enforce_repro |-> repro, open_pr |-> open, retro |-> retro, faults |-> faults]

\* build-feature with and without its options, triage with and without --no-pr; one
\* call of each kind meets faults (every one of them for build-feature).
MCModes ==
  {Call(FALSE, TRUE, TRUE, {}), Call(FALSE, TRUE, FALSE, {}), Call(FALSE, FALSE, TRUE, {}),
   Call(FALSE, TRUE, TRUE, Faults),
   Call(TRUE, TRUE, TRUE, {}), Call(TRUE, FALSE, TRUE, {}),
   Call(TRUE, TRUE, TRUE, {"lost_reply", "journal"})}

\* triage alone, with no fault: for the runs about the reproduction proof.
TriageModes == {Call(TRUE, TRUE, TRUE, {})}

FeatureModes == {Call(FALSE, TRUE, FALSE, {})}

=============================================================================
