------------------------------ MODULE AgentRuns ------------------------------
(***************************************************************************)
(* The tables agent_runs and run_steps: written by the rails runner        *)
(* (rails/mission_control.py, called through the _mc_ wrappers of          *)
(* rails/agents/loop.py), read by the deployed API (api/_lib/runs.py).     *)
(* Of a row only its progress is kept, of the steps only their number.     *)
(***************************************************************************)
EXTENDS Naturals

CONSTANTS
  Runs,      \* the runs that may be started
  MaxSteps   \* bound of this model: the steps a run reports

ASSUME StepsAssumption == MaxSteps \in Nat

VARIABLES agent_runs, run_steps

tables == <<agent_runs, run_steps>>

\* In the order a row goes through them; every outcome of the loop is `finished'.
RowStatuses == <<"absent", "running", "finished">>
Progress(status) == CHOOSE i \in DOMAIN RowStatuses : RowStatuses[i] = status

TablesInit ==
  /\ agent_runs = [r \in Runs |-> "absent"]
  /\ run_steps = [r \in Runs |-> 0]

SetStatus(r, status) ==
  agent_runs' = [agent_runs EXCEPT ![r] = status] /\ UNCHANGED run_steps

start_run(r) == SetStatus(r, "running")

finish_run(r) == SetStatus(r, "finished")

add_step(r) ==
  /\ run_steps[r] < MaxSteps
  /\ run_steps' = [run_steps EXCEPT ![r] = @ + 1]
  /\ UNCHANGED agent_runs

\* One SELECT, so one snapshot; fewer runs than its LIMIT of 50.
list_runs == agent_runs

\* The row's existence is read first and its steps after it.  Nothing deletes a row.
get_run(r) == [run |-> r, steps |-> run_steps[r]]

TablesOK ==
  /\ agent_runs \in [Runs -> {RowStatuses[i] : i \in DOMAIN RowStatuses}]
  /\ run_steps \in [Runs -> 0..MaxSteps]

=============================================================================
