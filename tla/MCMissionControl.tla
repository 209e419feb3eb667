--------------------------- MODULE MCMissionControl ---------------------------
(* Two triage passes, two reported events, one operator.                     *)
EXTENDS MissionControl

Symmetry == Permutations(Runs) \cup Permutations(Reports)

=============================================================================
