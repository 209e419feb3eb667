----------------------------- MODULE RunContract -----------------------------
(***************************************************************************)
(* What an agent run promises, without saying how: the robustness          *)
(* invariants at the head of rails/agents/loop.py.  Work is unproven until *)
(* a gate is green on it; green work is judged by the reviewer; rejected   *)
(* work goes back once, and becomes unproven again; only judged work is    *)
(* published; every run ends, with at most one report.                     *)
(***************************************************************************)

VARIABLES stage, verdict, reworked, published, report

vars == <<stage, verdict, reworked, published, report>>

Stages == {"unproven", "green", "judged", "published", "ended"}

Init ==
  /\ stage = "unproven" /\ verdict = "none"
  /\ reworked = FALSE /\ published = FALSE /\ report = "none"

GreenGate ==
  /\ stage = "unproven" /\ stage' = "green"
  /\ UNCHANGED <<verdict, reworked, published, report>>

\* Rejected work goes back to the builder the first time, and only then.
SendBack ==
  /\ stage = "green" /\ ~reworked
  /\ stage' = "unproven" /\ verdict' = "REQUEST_CHANGES" /\ reworked' = TRUE
  /\ UNCHANGED <<published, report>>

\* The caller may ask for the verdict alone, and the run ends with it.
Accept(v) ==
  /\ stage = "green" /\ (v = "APPROVE" \/ reworked)
  /\ verdict' = v
  /\ \/ stage' = "judged" /\ UNCHANGED report
     \/ stage' = "ended" /\ report' = "completed_no_pr"
  /\ UNCHANGED <<reworked, published>>

Publish ==
  /\ stage = "judged" /\ stage' = "published" /\ published' = TRUE
  /\ UNCHANGED <<verdict, reworked, report>>

\* A failed publication may have reached the remote all the same.
PublishFails ==
  /\ stage = "judged" /\ stage' = "ended"
  /\ published' \in BOOLEAN /\ report' = "error"
  /\ UNCHANGED <<verdict, reworked>>

ReportPr ==
  /\ stage = "published" /\ stage' = "ended" /\ report' = "pr_opened"
  /\ UNCHANGED <<verdict, reworked, published>>

FailureReports ==
  CASE stage = "unproven" -> {"none", "error", "timeout", "gate_failed", "cannot_reproduce"}
    [] stage = "green" -> {"none", "error", "timeout", "no_changes"}
    [] OTHER -> {"none", "error"}

Fail ==
  /\ stage # "ended" /\ stage' = "ended"
  /\ report' \in FailureReports
  /\ UNCHANGED <<verdict, reworked, published>>

Next ==
  \/ GreenGate \/ SendBack \/ Publish \/ PublishFails \/ ReportPr \/ Fail
  \/ \E v \in {"APPROVE", "REQUEST_CHANGES"} : Accept(v)

Spec == Init /\ [][Next]_vars /\ WF_vars(Next)

=============================================================================
