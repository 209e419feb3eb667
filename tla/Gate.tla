--------------------------------- MODULE Gate ---------------------------------
(***************************************************************************)
(* One call of run_gate (rails/gate.py): the steps of the gate, one after  *)
(* the other under one wall-clock budget, whatever they answer.            *)
(*                                                                         *)
(* Time is counted in half seconds, so that the truncation to whole        *)
(* seconds in the callers shows; it passes while a step runs.              *)
(***************************************************************************)
EXTENDS Integers, Sequences

CONSTANT DEFAULT_STEPS     \* the names of the steps, in order

ASSUME StepsAssumption ==
  /\ DEFAULT_STEPS \in Seq(STRING)
  /\ \A i, j \in DOMAIN DEFAULT_STEPS : DEFAULT_STEPS[i] = DEFAULT_STEPS[j] => i = j

VARIABLES
  now,                     \* time.monotonic()
  gate,                    \* "closed", "between" two steps, or "step" while one runs
  total_timeout, start_all,
  start, timeout,          \* of the step that runs
  position,                \* the step that comes next, or runs
  results,                 \* what became of each recorded step
  passed                   \* the steps that ran and exited 0

gateVars == <<gate, total_timeout, start_all, start, timeout, position, results, passed>>

StepResults == {"ok", "failed", "timed_out", "skipped", "not_started"}
Positions == 1..Len(DEFAULT_STEPS)

GateInit ==
  /\ gate = "closed" /\ total_timeout = 0 /\ start_all = 0 /\ start = 0 /\ timeout = 0
  /\ position = 1 /\ results = <<>> /\ passed = {}

OpenGate(seconds) ==
  /\ gate' = "between" /\ total_timeout' = seconds /\ start_all' = now
  /\ UNCHANGED <<start, timeout, position, results, passed>>

\* Mutant: every step gets the whole budget.
BudgetRemaining_PerStep == total_timeout

BudgetRemaining == total_timeout - (now - start_all)

\* Mutant: a skipped step is passed over.
Recorded_SkippedLeftOut(result) ==
  IF result = "skipped" THEN results ELSE Append(results, result)

Recorded(result) == Append(results, result)

StepsLeft == gate = "between" /\ position \in Positions

Record(result) ==
  /\ gate' = "between" /\ position' = position + 1 /\ results' = Recorded(result)
  /\ start' = 0 /\ timeout' = 0
  /\ UNCHANGED <<total_timeout, start_all>>

SkipStep ==
  /\ StepsLeft /\ BudgetRemaining <= 0
  /\ Record("skipped") /\ UNCHANGED passed

StartStep ==
  /\ StepsLeft /\ BudgetRemaining > 0
  /\ gate' = "step" /\ start' = now /\ timeout' = BudgetRemaining
  /\ UNCHANGED <<total_timeout, start_all, position, results, passed>>

\* subprocess.run raises OSError: the program is not there.
StepNotStarted ==
  /\ StepsLeft /\ BudgetRemaining > 0
  /\ Record("not_started") /\ UNCHANGED passed

\* The step exits, with the code 0 or another, at the latest when its time is up.
StepExits(ok) ==
  /\ gate = "step"
  /\ Record(IF ok THEN "ok" ELSE "failed")
  /\ passed' = IF ok THEN passed \cup {position} ELSE passed

StepTimesOut ==
  /\ gate = "step" /\ now >= start + timeout
  /\ Record("timed_out") /\ UNCHANGED passed

GateStep ==
  \/ SkipStep \/ StartStep \/ StepNotStarted \/ StepTimesOut
  \/ \E ok \in BOOLEAN : StepExits(ok)

GateDone == gate = "between" /\ position \notin Positions

\* The caller has its GateResult; run_gate's locals are gone.
CloseGate ==
  /\ gate' = "closed" /\ total_timeout' = 0 /\ start_all' = 0 /\ start' = 0 /\ timeout' = 0
  /\ position' = 1 /\ results' = <<>> /\ passed' = {}

\* GateResult.ok
GateOk == \A i \in DOMAIN results : results[i] = "ok"

\* The step called name, as _pytest_step looks it up; "none" if it is not there.
ResultOf(name) ==
  LET found == {i \in DOMAIN results : DEFAULT_STEPS[i] = name}
  IN  IF found = {} THEN "none" ELSE results[CHOOSE i \in found : TRUE]

GateTypeOK ==
  /\ now \in Nat
  /\ gate \in {"closed", "between", "step"}
  /\ total_timeout \in Nat /\ start_all \in Nat /\ start \in Nat /\ timeout \in Nat
  /\ position \in 1..(Len(DEFAULT_STEPS) + 1)
  /\ results \in Seq(StepResults)
  /\ passed \subseteq Positions

\* A gate that reports green ran every one of its steps and each of them exited 0: none
\* is missing because time was up, the program was not there or an earlier one was red.
GreenIsEarned == GateDone /\ GateOk => passed = Positions

=============================================================================
