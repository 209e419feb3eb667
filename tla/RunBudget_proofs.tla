--------------------------- MODULE RunBudget_proofs ---------------------------
(***************************************************************************)
(* What the clock of an agent run bounds, for every budget, every list of  *)
(* gate steps and every delay.                                             *)
(***************************************************************************)
EXTENDS RunBudget, TLAPS

USE StepsAssumption, TimesAssumption

-----------------------------------------------------------------------------
(* Types.                                                                   *)

\* What is granted out of a remaining budget: at least a second, never a whole second
\* more than remains, and never a whole second less.
LEMMA GrantBounds ==
  ASSUME NEW r \in Int, r > 0
  PROVE  /\ AtLeastOneSecond(Whole(r)) \in Nat
         /\ AtLeastOneSecond(Whole(r)) >= 2
         /\ AtLeastOneSecond(Whole(r)) <= r + 1
         /\ AtLeastOneSecond(Whole(r)) >= r - 1
  BY DEF AtLeastOneSecond, Whole

LEMMA RetroBounds ==
  ASSUME NEW r \in Int, r > 0
  PROVE  /\ AtLeastOneSecond(LesserOf(RETRO_MAX_TIMEOUT, Whole(r))) \in Nat
         /\ AtLeastOneSecond(LesserOf(RETRO_MAX_TIMEOUT, Whole(r))) >= 2
         /\ AtLeastOneSecond(LesserOf(RETRO_MAX_TIMEOUT, Whole(r))) <= r + 1
  BY DEF AtLeastOneSecond, LesserOf, Whole

\* The pytest result is the result of some step.
LEMMA ResultOfType ==
  ASSUME results \in Seq(StepResults)
  PROVE  \/ ResultOf("pytest") = "none"
         \/ \E i \in DOMAIN results : ResultOf("pytest") = results[i]
<1> DEFINE found == {i \in DOMAIN results : DEFAULT_STEPS[i] = "pytest"}
<1>1. CASE found = {}
  BY <1>1 DEF ResultOf
<1>2. CASE found # {}
  BY <1>2 DEF ResultOf
<1> QED
  BY <1>1, <1>2

-----------------------------------------------------------------------------
(* Type correctness, and how the results follow the position.               *)

\* One result per position passed; the steps that passed are those recorded as ok; a
\* gate is open exactly while the run waits for it.
ResultsFollow ==
  /\ Len(results) = position - 1
  /\ passed = {i \in DOMAIN results : results[i] = "ok"}
  /\ gate = "step" => position \in Positions

GateIsOpen ==
  /\ gate # "closed" <=> pc = "gate"
  /\ gate = "closed" => results = <<>>

TypeInv == TypeOK /\ ResultsFollow /\ GateIsOpen

LEMMA TypeInit == Init => TypeInv
<1> SUFFICES ASSUME Init PROVE TypeInv
  OBVIOUS
<1> USE DEF Init, GateInit
<1>1. results \in Seq(StepResults) /\ Len(results) = 0 /\ DOMAIN results = {}
  OBVIOUS
<1>2. GateTypeOK
  BY <1>1 DEF GateTypeOK, Positions
<1>3. TypeOK
  BY <1>2 DEF TypeOK
<1>4. ResultsFollow
  BY <1>1 DEF ResultsFollow
<1> QED
  BY <1>3, <1>4 DEF TypeInv, GateIsOpen

LEMMA RemainingInt == ASSUME TypeOK PROVE Remaining \in Int /\ BudgetRemaining \in Int
<1>1. now \in Nat /\ total_timeout \in Nat /\ start_all \in Nat
  BY DEF TypeOK, GateTypeOK
<1> QED
  BY <1>1 DEF Remaining, deadline, BudgetRemaining

\* Recording a result keeps the gate's types and lets the results follow.
LEMMA RecordType ==
  ASSUME TypeInv, NEW result \in StepResults, position \in Positions, gate # "closed",
         Record(result), now' = now,
         passed' = IF result = "ok" THEN passed \cup {position} ELSE passed
  PROVE  GateTypeOK' /\ ResultsFollow' /\ gate' = "between" /\ total_timeout' = total_timeout
<1> USE DEF TypeInv, TypeOK, GateTypeOK, Record, Recorded, Positions
<1>1. /\ results \in Seq(StepResults) /\ results' = Append(results, result)
      /\ position \in Nat /\ position <= Len(DEFAULT_STEPS) /\ Len(DEFAULT_STEPS) \in Nat
  OBVIOUS
<1>2. /\ results' \in Seq(StepResults) /\ Len(results') = Len(results) + 1
      /\ \A i \in DOMAIN results : results'[i] = results[i]
      /\ results'[Len(results) + 1] = result
      /\ DOMAIN results' = DOMAIN results \cup {Len(results) + 1}
  BY <1>1
<1>3. GateTypeOK'
  BY <1>1, <1>2
<1>4. position = Len(results) + 1 /\ Len(results) \in Nat
  BY <1>1 DEF ResultsFollow
<1>5. passed' = {i \in DOMAIN results' : results'[i] = "ok"}
  BY <1>2, <1>4 DEF ResultsFollow
<1>6. ResultsFollow'
  BY <1>1, <1>2, <1>4, <1>5 DEF ResultsFollow
<1> QED
  BY <1>3, <1>6

LEMMA GateStepType ==
  ASSUME TypeInv, gate # "closed", GateStep, now' = now
  PROVE  GateTypeOK' /\ ResultsFollow' /\ gate' # "closed" /\ total_timeout' = total_timeout
<1>1. CASE SkipStep
  BY <1>1, RecordType DEF SkipStep, StepsLeft, StepResults
<1>2. CASE StartStep
  <2>1. timeout' \in Nat /\ start' \in Nat
    <3>1. BudgetRemaining \in Int /\ now \in Nat
      BY RemainingInt DEF TypeInv, TypeOK, GateTypeOK
    <3> QED
      BY <1>2, <3>1 DEF StartStep
  <2>2. GateTypeOK'
    BY <1>2, <2>1 DEF StartStep, StepsLeft, TypeInv, TypeOK, GateTypeOK
  <2>3. ResultsFollow'
    BY <1>2 DEF StartStep, StepsLeft, TypeInv, ResultsFollow, Positions
  <2> QED
    BY <1>2, <2>2, <2>3 DEF StartStep
<1>3. CASE StepNotStarted
  BY <1>3, RecordType DEF StepNotStarted, StepsLeft, StepResults
<1>4. CASE StepTimesOut
  BY <1>4, RecordType DEF StepTimesOut, StepResults, TypeInv, ResultsFollow
<1>5. CASE StepExits(TRUE)
  BY <1>5, RecordType DEF StepExits, StepResults, TypeInv, ResultsFollow
<1>6. CASE StepExits(FALSE)
  BY <1>6, RecordType DEF StepExits, StepResults, TypeInv, ResultsFollow
<1> QED
  BY <1>1, <1>2, <1>3, <1>4, <1>5, <1>6 DEF GateStep

LEMMA TypeStep == TypeInv /\ [Next]_vars => TypeInv'
<1> SUFFICES ASSUME TypeInv, [Next]_vars PROVE TypeInv'
  OBVIOUS
<1> USE DEF TypeInv, TypeOK, GateIsOpen
<1>1. CASE OutOfBudget
  BY <1>1 DEF OutOfBudget, gateVars, GateTypeOK, ResultsFollow, Positions
<1>2. CASE GrantSession
  <2>1. granted' \in Nat /\ granted' >= 2
    BY <1>2, GrantBounds, RemainingInt DEF GrantSession
  <2>2. GateTypeOK' /\ ResultsFollow'
    BY <1>2 DEF GrantSession, gateVars, GateTypeOK, ResultsFollow, Positions
  <2>3. pc' = "reporting" /\ since' = now /\ now \in Nat /\ fatal' \in BOOLEAN
    BY <1>2 DEF GrantSession, GateTypeOK
  <2> QED
    BY <1>2, <2>1, <2>2, <2>3 DEF GrantSession, Due, gateVars
<1>3. CASE GrantRetro
  <2>1. granted' \in Nat /\ granted' >= 2
    BY <1>3, RetroBounds, RemainingInt DEF GrantRetro
  <2>2. GateTypeOK' /\ ResultsFollow'
    BY <1>3 DEF GrantRetro, gateVars, GateTypeOK, ResultsFollow, Positions
  <2>3. pc' = "reporting" /\ since' = now /\ now \in Nat /\ fatal' \in BOOLEAN
    BY <1>3 DEF GrantRetro, GateTypeOK
  <2> QED
    BY <1>3, <2>1, <2>2, <2>3 DEF GrantRetro, Due, gateVars
<1>4. CASE LaunchSession
  BY <1>4 DEF LaunchSession, gateVars, GateTypeOK, ResultsFollow, Positions
<1>5. CASE SessionExits
  BY <1>5 DEF SessionExits, gateVars, GateTypeOK, ResultsFollow, Positions
<1>6. CASE SessionEnds
  BY <1>6 DEF SessionEnds, gateVars, GateTypeOK, ResultsFollow, Positions
<1>7. CASE RunsGate
  <2>1. GateTimeout \in Nat /\ GateTimeout >= 2
    BY <1>7, GrantBounds, RemainingInt DEF RunsGate, GateTimeout
  <2> QED
    BY <1>7, <2>1 DEF RunsGate, Due, OpenGate, GateTypeOK, ResultsFollow, Positions
<1>8. CASE InGate
  BY <1>8, GateStepType DEF InGate, runVars
<1>9. ASSUME NEW t \in BOOLEAN, PhaseOneEnds(t) PROVE TypeInv'
  <2>1. ResultOf("pytest") \in StepResults \cup {"none"}
    BY ResultOfType DEF GateTypeOK
  <2>2. GateTypeOK' /\ ResultsFollow' /\ GateIsOpen'
    BY <1>9 DEF PhaseOneEnds, CloseGate, GateTypeOK, ResultsFollow, Positions
  <2>3. attempt' \in {1, 2}
    BY <1>9 DEF PhaseOneEnds
  <2> QED
    BY <1>9, <2>1, <2>2, <2>3 DEF PhaseOneEnds, CloseGate
<1>10. CASE GateEnds
  BY <1>10 DEF GateEnds, CloseGate, GateTypeOK, ResultsFollow, Positions
<1>11. CASE RunEnds
  BY <1>11 DEF RunEnds, gateVars, GateTypeOK, ResultsFollow, Positions
<1>12. CASE Tick
  BY <1>12 DEF Tick, gateVars, runVars, GateTypeOK, ResultsFollow, Positions
<1>13. CASE UNCHANGED vars
  BY <1>13 DEF vars, gateVars, runVars, GateTypeOK, ResultsFollow, Positions
<1> QED
  BY <1>1, <1>2, <1>3, <1>4, <1>5, <1>6, <1>7, <1>8, <1>9, <1>10, <1>11, <1>12, <1>13 DEF Next

LEMMA TypeInvariant == Spec => []TypeInv
<1> QED
  BY TypeInit, TypeStep, PTL DEF Spec

\* Every variable of the clock keeps its type, and no call is granted less than a second
\* (the max(1, ...) of _budget_or_exit and _run_retro).
THEOREM TypeCorrect == Spec => []TypeOK
<1>1. TypeInv => TypeOK
  BY DEF TypeInv
<1> QED
  BY <1>1, TypeInvariant, PTL

\* A green verdict of run_gate stands for every step (GateResult.ok).
LEMMA GreenEarned == Spec => []GreenIsEarned
<1>1. TypeInv => GreenIsEarned
  BY DEF TypeInv, TypeOK, GateTypeOK, ResultsFollow, GreenIsEarned, GateDone, GateOk, Positions
<1> QED
  BY <1>1, TypeInvariant, PTL

-----------------------------------------------------------------------------
(* The clock.                                                               *)

\* Where the present wait stands against the deadline: what was granted at its start ran
\* out at most a rounded-up second after it, the report may then have shifted it, and a
\* gate spends one fixed end over all its steps.
WaitInv ==
  /\ pc = "reporting" => since + granted <= deadline + 1 /\ now <= since + ReportDelay
  /\ pc = "session" => since + granted <= deadline + 1 + ReportDelay /\ now <= since + granted
  /\ pc \in {"joining", "killed"} =>
       since <= deadline + 1 + ReportDelay /\ now <= since + 2 * JoinTimeout

GateEnd == start_all + total_timeout

GateClock ==
  pc = "gate" =>
    /\ deadline - 1 <= GateEnd /\ GateEnd <= deadline + 1 /\ now <= GateEnd
    /\ gate = "step" => start + timeout = GateEnd

CutOffs == {"timed_out", "skipped"}

CutOffResults ==
  pc = "gate" => \A i \in DOMAIN results : results[i] \in CutOffs => now >= GateEnd

ClockInv == TypeInv /\ WaitInv /\ GateClock /\ CutOffResults /\ CutOffIsLate

\* What ClockInv says of the numbers, for the solver.
LEMMA Numbers ==
  ASSUME TypeInv
  PROVE  /\ now \in Nat /\ since \in Nat /\ granted \in Nat /\ deadline \in Nat
         /\ start_all \in Nat /\ total_timeout \in Nat /\ start \in Nat /\ timeout \in Nat
         /\ ReportDelay \in Nat /\ JoinTimeout \in Nat
  BY DEF TypeInv, TypeOK, GateTypeOK, deadline

LEMMA ClockInit == Init => ClockInv
  BY TypeInit DEF Init, GateInit, ClockInv, WaitInv, GateClock, CutOffResults, CutOffIsLate,
                  CutOffs

\* A step of the gate: the end stays where it is, and only at the end is a step cut off.
LEMMA GateStepClock ==
  ASSUME ClockInv, InGate
  PROVE  WaitInv' /\ GateClock' /\ CutOffResults' /\ CutOffIsLate'
<1> USE DEF ClockInv, InGate
<1>1. /\ now' = now /\ pc' = pc /\ pc = "gate" /\ since' = since /\ granted' = granted
      /\ reproduced_on' = reproduced_on /\ deadline' = deadline
  BY DEF runVars, deadline
<1>2. WaitInv' /\ CutOffIsLate'
  BY <1>1 DEF WaitInv, CutOffIsLate
<1>3. start_all' = start_all /\ total_timeout' = total_timeout
  BY DEF GateStep, SkipStep, StartStep, StepNotStarted, StepTimesOut, StepExits, Record
<1>4. gate' = "step" => start' + timeout' = GateEnd
  <2>1. CASE StartStep
    BY <2>1, Numbers DEF StartStep, BudgetRemaining, GateEnd
  <2>2. CASE ~StartStep
    BY <2>2 DEF GateStep, SkipStep, StepNotStarted, StepTimesOut, StepExits, Record
  <2> QED
    BY <2>1, <2>2
<1>5. GateClock'
  BY <1>1, <1>3, <1>4 DEF GateClock, GateEnd
<1>6. ASSUME NEW r \in StepResults, Record(r), r \in CutOffs => now >= GateEnd
      PROVE  CutOffResults'
  <2>1. results \in Seq(StepResults) /\ results' = Append(results, r)
    BY <1>6 DEF Record, Recorded, TypeInv, TypeOK, GateTypeOK
  <2>2. \A i \in DOMAIN results' :
          \/ i \in DOMAIN results /\ results'[i] = results[i]
          \/ results'[i] = r
    BY <2>1
  <2> QED
    BY <1>1, <1>3, <1>6, <2>2 DEF CutOffResults, GateEnd
<1>7. now >= GateEnd \/ ~SkipStep
  BY Numbers DEF SkipStep, BudgetRemaining, GateEnd
<1>8. now >= GateEnd \/ ~StepTimesOut
  BY <1>1 DEF StepTimesOut, GateClock
<1>9. CutOffResults'
  <2>1. CASE SkipStep
    BY <1>6, <1>7, <2>1 DEF SkipStep, StepResults
  <2>2. CASE StepTimesOut
    BY <1>6, <1>8, <2>2 DEF StepTimesOut, StepResults
  <2>3. CASE StepNotStarted
    BY <1>6, <2>3 DEF StepNotStarted, StepResults, CutOffs
  <2>4. CASE StepExits(TRUE)
    BY <1>6, <2>4 DEF StepExits, StepResults, CutOffs
  <2>5. CASE StepExits(FALSE)
    BY <1>6, <2>5 DEF StepExits, StepResults, CutOffs
  <2>6. CASE StartStep
    BY <1>1, <1>3, <2>6 DEF StartStep, CutOffResults, GateEnd
  <2> QED
    BY <2>1, <2>2, <2>3, <2>4, <2>5, <2>6 DEF GateStep
<1> QED
  BY <1>2, <1>5, <1>9

LEMMA ClockStep == ClockInv /\ [Next]_vars => ClockInv'
<1> SUFFICES ASSUME ClockInv, [Next]_vars PROVE ClockInv'
  OBVIOUS
<1> USE DEF ClockInv
<1>0. TypeInv'
  BY TypeStep
<1> SUFFICES WaitInv' /\ GateClock' /\ CutOffResults' /\ CutOffIsLate'
  BY <1>0
<1>1. CASE OutOfBudget
  BY <1>1 DEF OutOfBudget, WaitInv, GateClock, CutOffResults, CutOffIsLate, deadline
<1>2. CASE GrantSession
  <2>1. /\ pc' = "reporting" /\ since' = now /\ now' = now /\ reproduced_on' = reproduced_on
        /\ deadline - now > 0 /\ granted' = AtLeastOneSecond(Whole(deadline - now))
    BY <1>2 DEF GrantSession, Remaining
  <2>2. granted' \in Nat /\ granted' <= deadline - now + 1
    <3>1. deadline - now \in Int
      BY ONLY Numbers, TypeInv
    <3> QED
      BY ONLY <2>1, <3>1, GrantBounds, TimesAssumption
  <2> QED
    BY <2>1, <2>2, Numbers DEF WaitInv, GateClock, CutOffResults, CutOffIsLate, deadline
<1>3. CASE GrantRetro
  <2>1. /\ pc' = "reporting" /\ since' = now /\ now' = now /\ reproduced_on' = reproduced_on
        /\ deadline - now > 0
        /\ granted' = AtLeastOneSecond(LesserOf(RETRO_MAX_TIMEOUT, Whole(deadline - now)))
    BY <1>3 DEF GrantRetro, Remaining
  <2>2. granted' \in Nat /\ granted' <= deadline - now + 1
    <3>1. deadline - now \in Int
      BY ONLY Numbers, TypeInv
    <3> QED
      BY ONLY <2>1, <3>1, RetroBounds, TimesAssumption
  <2> QED
    BY <2>1, <2>2, Numbers DEF WaitInv, GateClock, CutOffResults, CutOffIsLate, deadline
<1>4. CASE LaunchSession
  BY <1>4, Numbers
     DEF LaunchSession, WaitInv, GateClock, CutOffResults, CutOffIsLate, deadline
<1>5. CASE SessionExits
  BY <1>5, Numbers
     DEF SessionExits, WaitInv, GateClock, CutOffResults, CutOffIsLate, deadline
<1>6. CASE SessionEnds
  BY <1>6 DEF SessionEnds, WaitInv, GateClock, CutOffResults, CutOffIsLate, deadline
<1>7. CASE RunsGate
  <2>1. /\ pc' = "gate" /\ gate' = "between" /\ now' = now /\ start_all' = now
        /\ reproduced_on' = reproduced_on /\ results' = results /\ gate = "closed"
        /\ deadline - now > 0 /\ total_timeout' = AtLeastOneSecond(Whole(deadline - now))
    BY <1>7 DEF RunsGate, OpenGate, GateTimeout, Remaining, Due, TypeInv, TypeOK, GateTypeOK,
                GateIsOpen
  <2>2. /\ total_timeout' \in Nat /\ total_timeout' >= 2
        /\ deadline - now - 1 <= total_timeout' /\ total_timeout' <= deadline - now + 1
    <3>1. deadline - now \in Int
      BY ONLY Numbers, TypeInv
    <3> QED
      BY ONLY <2>1, <3>1, GrantBounds, TimesAssumption
  <2>3. results' = <<>>
    BY <2>1 DEF TypeInv, GateIsOpen
  <2>4. GateClock'
    BY <2>1, <2>2, Numbers DEF GateClock, GateEnd, deadline
  <2>5. WaitInv' /\ CutOffResults' /\ CutOffIsLate'
    BY <2>1, <2>3 DEF WaitInv, CutOffResults, CutOffIsLate, deadline
  <2> QED
    BY <2>4, <2>5
<1>8. CASE InGate
  BY <1>8, GateStepClock
<1>9. ASSUME NEW t \in BOOLEAN, PhaseOneEnds(t)
      PROVE  WaitInv' /\ GateClock' /\ CutOffResults' /\ CutOffIsLate'
  <2>1. pc = "gate" /\ pc' \in {"idle", "over"} /\ now' = now
    BY <1>9 DEF PhaseOneEnds
  <2>2. reproduced_on' = reproduced_on \/ reproduced_on' = ResultOf("pytest")
    BY <1>9 DEF PhaseOneEnds
  <2>3. ResultOf("pytest") \in CutOffs => now >= GateEnd
    BY <2>1, ResultOfType DEF CutOffResults, CutOffs, TypeInv, TypeOK, GateTypeOK
  <2>4. now >= GateEnd => now > deadline - 2
    BY <2>1, Numbers DEF GateClock, GateEnd
  <2>5. CutOffIsLate'
    BY <2>1, <2>2, <2>3, <2>4 DEF CutOffIsLate, CutOffs, deadline
  <2> QED
    BY <2>1, <2>5 DEF WaitInv, GateClock, CutOffResults
<1>10. CASE GateEnds
  BY <1>10 DEF GateEnds, WaitInv, GateClock, CutOffResults, CutOffIsLate, deadline
<1>11. CASE RunEnds
  BY <1>11 DEF RunEnds, WaitInv, GateClock, CutOffResults, CutOffIsLate, deadline
<1>12. CASE Tick
  <2>1. /\ now' = now + 1 /\ pc' = pc /\ since' = since /\ granted' = granted
        /\ gate' = gate /\ start_all' = start_all /\ total_timeout' = total_timeout
        /\ start' = start /\ timeout' = timeout /\ results' = results
        /\ reproduced_on' = reproduced_on
    BY <1>12 DEF Tick, gateVars, runVars
  <2>2. /\ pc = "reporting" => now < since + ReportDelay
        /\ pc = "session" => now < since + granted
        /\ pc \in {"joining", "killed"} => now < since + 2 * JoinTimeout
    BY <1>12 DEF Tick, Horizon
  <2>3. pc = "gate" => gate = "step" /\ now < start + timeout
    BY <1>12, Numbers DEF Tick, Horizon
  <2>4. WaitInv'
    BY <2>1, <2>2, Numbers DEF WaitInv, deadline
  <2>5. GateClock'
    BY <2>1, <2>3, Numbers DEF GateClock, GateEnd, deadline
  <2>6. CutOffResults' /\ CutOffIsLate'
    BY <2>1, Numbers DEF CutOffResults, GateEnd, CutOffIsLate, deadline
  <2> QED
    BY <2>4, <2>5, <2>6
<1>13. CASE UNCHANGED vars
  BY <1>13 DEF vars, gateVars, runVars, WaitInv, GateClock, GateEnd, CutOffResults,
               CutOffIsLate, deadline
<1> QED
  BY <1>1, <1>2, <1>3, <1>4, <1>5, <1>6, <1>7, <1>8, <1>9, <1>10, <1>11, <1>12, <1>13 DEF Next

LEMMA ClockInvariant == Spec => []ClockInv
<1> QED
  BY ClockInit, ClockStep, PTL DEF Spec

\* The whole-run budget bounds every session and every gate, whatever the budget and the
\* delays (run_agent_task, loop.py:60).
THEOREM BudgetIsKept == Spec => []BudgetKept
<1>1. ClockInv => BudgetKept
  <2> SUFFICES ASSUME ClockInv PROVE BudgetKept
    OBVIOUS
  <2>1. pc = "gate" => now <= deadline + 1
    BY Numbers DEF ClockInv, GateClock, GateEnd
  <2>2. pc \in {"session", "joining", "killed"} =>
          now <= deadline + 1 + ReportDelay + 2 * JoinTimeout
    BY Numbers DEF ClockInv, WaitInv
  <2> QED
    BY <2>1, <2>2 DEF BudgetKept
<1> QED
  BY <1>1, ClockInvariant, PTL

\* A green gate stands for every one of its steps (GateResult.ok), and a cut-off pytest
\* step can pass for a reproduction only in the last second of the budget: for any steps,
\* any budget and any delays.
THEOREM VerdictsEarned == Spec => []VerdictsAreEarned
<1>1. ClockInv /\ GreenIsEarned => VerdictsAreEarned
  BY DEF ClockInv, VerdictsAreEarned
<1> QED
  BY <1>1, ClockInvariant, GreenEarned, PTL

=============================================================================
