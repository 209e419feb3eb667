----------------------------- MODULE MCRunBudget -----------------------------
(* 4.5 seconds of budget, a gate of three steps with pytest in the middle.   *)
EXTENDS RunBudget

MCSteps == <<"ruff-check", "pytest", "web-build">>

=============================================================================
