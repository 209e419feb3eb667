------------------------------ MODULE RunBudget ------------------------------
(***************************************************************************)
(* The wall clock of an agent run: what run_agent_task (rails/agents/      *)
(* loop.py) grants to each session and gate out of total_timeout_s, and    *)
(* when the run is cut off.                                                *)
(*                                                                         *)
(* AgentLoop says which call comes when; here, once the bug is reproduced, *)
(* any call may come next.  Between the calls the run uses git and reports *)
(* to Mission Control without a timeout: any time may pass there.          *)
(***************************************************************************)
EXTENDS Gate

CONSTANTS
  TOTAL_TIMEOUT,          \* total_timeout_s
  DEFAULT_GATE_TIMEOUT, RETRO_MAX_TIMEOUT,
  JoinTimeout,            \* of each of the two pump threads, at the end of a session
  ReportDelay,            \* bound: how long the report that a session starts may take
  MaxTime                 \* bound: time between the calls passes up to here

ASSUME TimesAssumption ==
  /\ TOTAL_TIMEOUT \in Nat /\ DEFAULT_GATE_TIMEOUT \in Nat /\ RETRO_MAX_TIMEOUT \in Nat
  /\ JoinTimeout \in Nat /\ ReportDelay \in Nat /\ MaxTime \in Nat

VARIABLES
  pc,                     \* "idle" between calls
  next, attempt,          \* phase 1: what is due, and which attempt this is
  phase,
  granted, since,         \* the session's timeout_s; when the present wait began
  fatal,                  \* does the end of this session end the run
  reproduced_on           \* the pytest result that was taken for a reproduction

runVars == <<pc, next, attempt, phase, granted, since, fatal, reproduced_on>>
vars == <<now, gateVars, runVars>>

deadline == TOTAL_TIMEOUT

\* enforce_repro or not: the run starts with phase 1 or goes straight to the fix.
Init ==
  /\ now = 0 /\ GateInit
  /\ pc = "idle" /\ next = "session" /\ attempt = 1 /\ phase \in {1, 2}
  /\ granted = 0 /\ since = 0 /\ fatal = FALSE /\ reproduced_on = "none"

Remaining == deadline - now
Whole(t) == 2 * (t \div 2)
LesserOf(a, b) == IF a < b THEN a ELSE b

\* Mutant: a fraction of a second is granted as 0.
AtLeastOneSecond_Never(t) == t

AtLeastOneSecond(t) == IF t < 2 THEN 2 ELSE t

Due(call) == pc = "idle" /\ (phase = 2 \/ next = call)

\* _budget_or_exit with nothing left, before a session or a gate.
OutOfBudget ==
  /\ pc = "idle" /\ Remaining <= 0
  /\ pc' = "over"
  /\ UNCHANGED <<now, gateVars, next, attempt, phase, granted, since, fatal, reproduced_on>>

\* timeout_s is computed, then the start is reported, then the session is launched.
GrantSession ==
  /\ Due("session") /\ Remaining > 0
  /\ pc' = "reporting" /\ since' = now /\ granted' = AtLeastOneSecond(Whole(Remaining))
  /\ fatal' = TRUE
  /\ UNCHANGED <<now, gateVars, next, attempt, phase, reproduced_on>>

\* _run_retro: no budget means no retro, and no exit either.
GrantRetro ==
  /\ pc = "idle" /\ phase = 2 /\ Remaining > 0
  /\ pc' = "reporting" /\ since' = now
  /\ granted' = AtLeastOneSecond(LesserOf(RETRO_MAX_TIMEOUT, Whole(Remaining)))
  /\ fatal' = FALSE
  /\ UNCHANGED <<now, gateVars, next, attempt, phase, reproduced_on>>

LaunchSession ==
  /\ pc = "reporting"
  /\ pc' = "session" /\ since' = now
  /\ UNCHANGED <<now, gateVars, next, attempt, phase, granted, fatal, reproduced_on>>

\* The engine exits, or its time is up and it is killed; then the joins.
SessionExits ==
  /\ pc = "session"
  /\ pc' \in IF now < since + granted THEN {"joining"} ELSE {"joining", "killed"}
  /\ since' = now
  /\ UNCHANGED <<now, gateVars, next, attempt, phase, granted, fatal, reproduced_on>>

\* run() returns or, after a kill or a failed capture, raises SessionError.
SessionEnds ==
  /\ pc \in {"joining", "killed"}
  /\ \/ pc = "joining" /\ pc' = "idle"
     \/ pc' = IF fatal THEN "over" ELSE "idle"
  /\ next' = "gate" /\ granted' = 0 /\ since' = 0 /\ fatal' = FALSE
  /\ UNCHANGED <<now, gateVars, attempt, phase, reproduced_on>>

\* Mutant: run_gate is left its own default.
GateTimeout_Default == DEFAULT_GATE_TIMEOUT

GateTimeout == AtLeastOneSecond(Whole(Remaining))

RunsGate ==
  /\ Due("gate") /\ Remaining > 0
  /\ pc' = "gate" /\ OpenGate(GateTimeout)
  /\ UNCHANGED <<now, next, attempt, phase, granted, since, fatal, reproduced_on>>

InGate == pc = "gate" /\ GateStep /\ UNCHANGED <<now, runVars>>

\* pytest red and a test file in the branch: whatever made pytest red.
Reproduced(touchesTests) == ResultOf("pytest") \notin {"ok", "none"} /\ touchesTests

PhaseOneEnds(touchesTests) ==
  /\ pc = "gate" /\ GateDone /\ phase = 1
  /\ CloseGate
  /\ next' = "session"
  /\ \/ /\ Reproduced(touchesTests)
        /\ phase' = 2 /\ reproduced_on' = ResultOf("pytest") /\ pc' = "idle"
        /\ UNCHANGED attempt
     \/ /\ ~Reproduced(touchesTests) /\ attempt < 2
        /\ attempt' = attempt + 1 /\ pc' = "idle"
        /\ UNCHANGED <<phase, reproduced_on>>
     \/ /\ ~Reproduced(touchesTests) /\ attempt >= 2
        /\ pc' = "over"
        /\ UNCHANGED <<attempt, phase, reproduced_on>>
  /\ UNCHANGED <<now, granted, since, fatal>>

GateEnds ==
  /\ pc = "gate" /\ GateDone /\ phase = 2
  /\ CloseGate
  /\ pc' = "idle"
  /\ UNCHANGED <<now, next, attempt, phase, granted, since, fatal, reproduced_on>>

\* The run has come to its end, or fails for a reason of its own.
RunEnds ==
  /\ pc = "idle" /\ phase = 2
  /\ pc' = "over"
  /\ UNCHANGED <<now, gateVars, next, attempt, phase, granted, since, fatal, reproduced_on>>

\* When the present wait is over at the latest.
Horizon ==
  CASE pc = "idle" -> MaxTime
    [] pc = "reporting" -> since + ReportDelay
    [] pc = "session" -> since + granted
    [] pc \in {"joining", "killed"} -> since + 2 * JoinTimeout
    [] pc = "gate" /\ gate = "step" -> start + timeout
    [] OTHER -> now

Tick ==
  /\ now < Horizon /\ now' = now + 1
  /\ UNCHANGED <<gateVars, runVars>>

Next ==
  \/ OutOfBudget \/ GrantSession \/ GrantRetro \/ LaunchSession \/ SessionExits \/ SessionEnds
  \/ RunsGate \/ InGate \/ (\E touchesTests \in BOOLEAN : PhaseOneEnds(touchesTests))
  \/ GateEnds \/ RunEnds \/ Tick
  \/ pc = "over" /\ UNCHANGED vars

Spec == Init /\ [][Next]_vars

-----------------------------------------------------------------------------

\* The types; no session or gate is ever given less than a second.
TypeOK ==
  /\ GateTypeOK
  /\ pc \in {"idle", "reporting", "session", "joining", "killed", "gate", "over"}
  /\ next \in {"session", "gate"} /\ attempt \in {1, 2} /\ phase \in {1, 2}
  /\ granted \in Nat /\ since \in Nat /\ fatal \in BOOLEAN
  /\ reproduced_on \in StepResults \cup {"none"}
  /\ pc \in {"reporting", "session"} => granted >= 2
  /\ gate # "closed" => total_timeout >= 2

\* loop.py:60, "a whole-run wall-clock budget bounds the entire run": a gate, all its
\* steps together, is over less than a second after the deadline, and so is a session but
\* for the report that precedes it and the two joins that end it.
BudgetKept ==
  /\ pc = "gate" => now <= deadline + 1
  /\ pc \in {"session", "joining", "killed"} =>
       now <= deadline + 1 + ReportDelay + 2 * JoinTimeout

\* A pytest step that time cut off, or left no time to start, is as red as a failing test,
\* and the fix then begins on no evidence; but only a run with less than a second left
\* gets there (loop.py:901, gate.py:118 and 165).
CutOffIsLate == reproduced_on \in {"timed_out", "skipped"} => now > deadline - 2

\* The gate's verdicts rest on what its steps did: green on every step having passed, and
\* a reproduction on a pytest that had its time, but for the last second of the budget.
VerdictsAreEarned == GreenIsEarned /\ CutOffIsLate

=============================================================================
