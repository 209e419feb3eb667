------------------------ MODULE MissionControl_proofs ------------------------
(***************************************************************************)
(* Theorems about the triage passes and the Mission Control page, for any  *)
(* number of passes, events, steps and requests under way.                 *)
(***************************************************************************)
EXTENDS MissionControl, TLAPS

USE NoRunAssumption, FetchAssumption, StepsAssumption
USE DEF StepsAssumption

LEMMA StatusSet == Statuses = {"absent", "running", "finished"}
<1>1. RowStatuses = <<"absent", "running", "finished">> /\ DOMAIN RowStatuses = 1..3
  BY DEF RowStatuses
<1> QED
  BY <1>1 DEF Statuses

LEMMA ProgressOf ==
  Progress("absent") = 1 /\ Progress("running") = 2 /\ Progress("finished") = 3
<1>1. /\ DOMAIN RowStatuses = 1..3
      /\ RowStatuses[1] = "absent" /\ RowStatuses[2] = "running" /\ RowStatuses[3] = "finished"
  BY DEF RowStatuses
<1>2. \A status : Progress(status) = CHOOSE i \in 1..3 : RowStatuses[i] = status
  BY <1>1 DEF Progress
<1>3. (CHOOSE i \in 1..3 : RowStatuses[i] = "absent") = 1
  BY <1>1
<1>4. (CHOOSE i \in 1..3 : RowStatuses[i] = "running") = 2
  BY <1>1
<1>5. (CHOOSE i \in 1..3 : RowStatuses[i] = "finished") = 3
  BY <1>1
<1> QED
  BY <1>2, <1>3, <1>4, <1>5

-----------------------------------------------------------------------------
(* Types of the tables and of the passes.                                   *)

PassType == [pc : PassPcs, event : Reports \cup {NoReport}, tracked : BOOLEAN, pr : BOOLEAN,
             outcome : Outcomes]

WriterTypes ==
  /\ agent_runs \in [Runs -> Statuses] /\ run_steps \in [Runs -> 0..MaxSteps]
  /\ app_events \in [Reports -> {"absent", "new", "triaged"}] /\ arrived \in Seq(Reports)
  /\ pass \in [Runs -> PassType]

\* What a pass may pick is one of the events that arrived, and is new.
LEMMA PickedIsNew ==
  ASSUME WriterTypes, NEW event_id, NEW e \in Picked(event_id)
  PROVE  e \in Reports /\ app_events[e] = "new"
<1>1. PICK i \in New : e = arrived[i]
  BY DEF Picked, Newest, fetch_new_events
<1>2. DOMAIN arrived = 1..Len(arrived) /\ i \in DOMAIN arrived
  BY DEF New, WriterTypes
<1>3. arrived[i] \in Reports
  BY <1>2 DEF WriterTypes
<1> QED
  BY <1>1, <1>3 DEF New

\* A step sets one pass and leaves the others as they are.
LEMMA SetsOne ==
  ASSUME WriterTypes, NEW p \in Runs, NEW new \in PassType, Set(p, new)
  PROVE  /\ pass' \in [Runs -> PassType] /\ pass'[p] = new
         /\ \A q \in Runs \ {p} : pass'[q] = pass[q]
  BY DEF WriterTypes, Set

LEMMA ExitsOne ==
  ASSUME WriterTypes, NEW p \in Runs, NEW place \in PassPcs, Exits(p, place)
  PROVE  /\ pass' \in [Runs -> PassType]
         /\ pass'[p].pc = place /\ pass'[p].event = pass[p].event /\ ~pass'[p].tracked
         /\ pass'[p].pr = pass[p].pr /\ pass'[p].outcome = "none"
         /\ \A q \in Runs \ {p} : pass'[q] = pass[q]
<1> DEFINE new == [pass[p] EXCEPT !.pc = place, !.tracked = FALSE, !.outcome = "none"]
<1>1. pass[p] \in PassType
  BY DEF WriterTypes
<1>2. /\ new.pc = place /\ new.event = pass[p].event /\ new.tracked = FALSE
      /\ new.pr = pass[p].pr /\ new.outcome = "none"
  BY <1>1 DEF PassType
<1>3. new \in PassType
  BY <1>1 DEF PassType, Outcomes
<1> QED
  BY <1>2, <1>3, SetsOne DEF Exits

LEMMA WriterTypesStep == WriterTypes /\ [Next]_vars => WriterTypes'
<1> SUFFICES ASSUME WriterTypes, [Next]_vars PROVE WriterTypes'
  OBVIOUS
<1> USE DEF WriterTypes, tables
<1>1. ASSUME NEW e \in Reports, create_event(e) PROVE WriterTypes'
  BY <1>1 DEF create_event
<1>2. ASSUME NEW p \in Runs, NEW event_id \in Reports \cup {NoReport},
             PickEvent(p, event_id) \/ FindsNothing(p, event_id)
      PROVE  WriterTypes'
  <2>1. CASE PickEvent(p, event_id)
    <3>1. PICK e \in Reports : Set(p, [pass[p] EXCEPT !.pc = "picked", !.event = e])
      BY <2>1, PickedIsNew DEF PickEvent
    <3>2. [pass[p] EXCEPT !.pc = "picked", !.event = e] \in PassType
      BY DEF PassType, PassPcs
    <3> QED
      BY <2>1, <3>1, <3>2, SetsOne DEF PickEvent
  <2>2. CASE FindsNothing(p, event_id)
    BY <2>2, ExitsOne DEF FindsNothing, PassPcs
  <2> QED
    BY <1>2, <2>1, <2>2
<1>3. ASSUME NEW p \in Runs, StartsRun(p) PROVE WriterTypes'
  <2>1. agent_runs' \in [Runs -> Statuses] /\ run_steps' = run_steps
    BY <1>3, StatusSet DEF StartsRun, BestEffort, start_run, SetStatus
  <2>2. PICK replied \in BOOLEAN : Set(p, [pass[p] EXCEPT !.pc = "running", !.tracked = replied])
    BY <1>3 DEF StartsRun
  <2>3. [pass[p] EXCEPT !.pc = "running", !.tracked = replied] \in PassType
    BY DEF PassType, PassPcs
  <2> QED
    BY <1>3, <2>1, <2>2, <2>3, SetsOne DEF StartsRun
<1>4. ASSUME NEW p \in Runs, ReportsStep(p) PROVE WriterTypes'
  BY <1>4 DEF ReportsStep, add_step, triageVars
<1>5. ASSUME NEW p \in Runs, OpensPr(p) PROVE WriterTypes'
  <2>1. PICK outcome \in {"pr_opened", "failed"} :
          Set(p, [pass[p] EXCEPT !.pc = "opened", !.pr = TRUE, !.outcome = outcome])
    BY <1>5 DEF OpensPr
  <2>2. [pass[p] EXCEPT !.pc = "opened", !.pr = TRUE, !.outcome = outcome] \in PassType
    BY DEF PassType, PassPcs, Outcomes
  <2> QED
    BY <1>5, <2>1, <2>2, SetsOne DEF OpensPr
<1>6. ASSUME NEW p \in Runs, EndsRun(p) PROVE WriterTypes'
  <2>1. agent_runs' \in [Runs -> Statuses] /\ run_steps' = run_steps
    BY <1>6, StatusSet DEF EndsRun, finish_run, SetStatus
  <2>2. PICK outcome \in Outcomes :
          \/ Exits(p, "broken")
          \/ Set(p, [pass[p] EXCEPT !.pc = "returned", !.tracked = FALSE, !.outcome = outcome])
    <3>1. pass[p].outcome \in Outcomes
      BY DEF PassType
    <3> QED
      BY <1>6, <3>1 DEF EndsRun, Outcomes
  <2>3. [pass[p] EXCEPT !.pc = "returned", !.tracked = FALSE, !.outcome = outcome] \in PassType
    BY DEF PassType, PassPcs
  <2>4. pass' \in [Runs -> PassType]
    BY <2>2, <2>3, SetsOne, ExitsOne DEF PassPcs
  <2> QED
    BY <1>6, <2>1, <2>4 DEF EndsRun
<1>7. ASSUME NEW p \in Runs, MarksTriaged(p) \/ LeavesNew(p) \/ Breaks(p) PROVE WriterTypes'
  <2>1. pass' \in [Runs -> PassType]
    BY <1>7, ExitsOne DEF MarksTriaged, LeavesNew, Breaks, PassPcs
  <2>2. app_events' \in [Reports -> {"absent", "new", "triaged"}]
    BY <1>7 DEF MarksTriaged, mark_event, LeavesNew, Breaks
  <2> QED
    BY <1>7, <2>1, <2>2 DEF MarksTriaged, LeavesNew, Breaks
<1>8. CASE UNCHANGED <<tables, triageVars>>
  BY <1>8 DEF triageVars
<1> QED
  BY <1>1, <1>2, <1>3, <1>4, <1>5, <1>6, <1>7, <1>8 DEF Next, TriageNext, Triages, vars

LEMMA WriterTypesInit == Init => WriterTypes
  BY StatusSet DEF Init, TablesInit, TriageInit, WriterTypes, PassType, PassPcs, Outcomes

-----------------------------------------------------------------------------
(* What a step of a pass does, field by field.                               *)

SamePass(p) == pass'[p].event = pass[p].event /\ pass'[p].pr = pass[p].pr

Picking(p) ==
  /\ pass[p].pc = "start" /\ pass'[p].pc = "picked"
  /\ pass'[p].event \in Reports /\ app_events[pass'[p].event] = "new"
  /\ pass'[p].pr = pass[p].pr /\ pass'[p].outcome = pass[p].outcome
  /\ UNCHANGED <<app_events, tables>>

Starting(p) ==
  /\ pass[p].pc = "picked" /\ pass'[p].pc = "running"
  /\ SamePass(p) /\ pass'[p].outcome = pass[p].outcome
  /\ start_run(p) \/ UNCHANGED tables
  /\ UNCHANGED app_events

Stepping(p) ==
  /\ pass[p].pc \in {"running", "opened"} /\ UNCHANGED <<pass, app_events, agent_runs>>
  /\ \A q \in Runs \ {p} : run_steps'[q] = run_steps[q]

Opening(p) ==
  /\ pass[p].pc = "running" /\ pass'[p].pc = "opened"
  /\ pass'[p].event = pass[p].event /\ pass'[p].pr = TRUE
  /\ pass'[p].outcome \in {"pr_opened", "failed"}
  /\ UNCHANGED <<app_events, tables>>

Returning(p) ==
  /\ pass'[p].pc = "returned" /\ SamePass(p)
  /\ \/ pass[p].pc = "opened" /\ pass'[p].outcome = pass[p].outcome
     \/ pass[p].pc = "running" /\ pass'[p].outcome = "completed_no_pr"
  /\ pass'[p].outcome # "failed"
  /\ finish_run(p) \/ UNCHANGED tables
  /\ UNCHANGED app_events

\* Without a mark.
Leaving(p) ==
  /\ pass[p].pc \notin {"done", "broken"} /\ pass'[p].outcome = "none" /\ SamePass(p)
  /\ \/ pass'[p].pc = "broken"
     \/ pass'[p].pc = "done" /\ pass[p].pc = "start"
     \/ pass'[p].pc = "done" /\ pass[p].pc = "returned" /\ pass[p].outcome # "pr_opened"
  /\ UNCHANGED tables \/ (finish_run(p) /\ pass[p].pc \in {"running", "opened"})
  /\ UNCHANGED app_events

Marking(p) ==
  /\ pass[p].pc = "returned" /\ pass[p].outcome = "pr_opened"
  /\ pass'[p].pc \in {"done", "broken"} /\ pass'[p].outcome = "none" /\ SamePass(p)
  /\ mark_event(pass[p].event) /\ UNCHANGED tables

PassMoves(p) ==
  /\ \A q \in Runs \ {p} : pass'[q] = pass[q]
  /\ UNCHANGED arrived
  /\ \/ Picking(p) \/ Starting(p) \/ Stepping(p) \/ Opening(p) \/ Returning(p)
     \/ Leaving(p) \/ Marking(p)

LEMMA PassStep ==
  ASSUME WriterTypes, NEW p \in Runs, Triages(p)
  PROVE  PassMoves(p)
<1>0. pass[p] \in PassType
  BY DEF WriterTypes
<1> USE DEF At
<1>1. ASSUME NEW event_id, PickEvent(p, event_id) PROVE PassMoves(p)
  <2>1. PICK e \in Picked(event_id) : Set(p, [pass[p] EXCEPT !.pc = "picked", !.event = e])
    BY <1>1 DEF PickEvent
  <2> DEFINE new == [pass[p] EXCEPT !.pc = "picked", !.event = e]
  <2>2. e \in Reports /\ app_events[e] = "new"
    BY <2>1, PickedIsNew
  <2>3. /\ new \in PassType /\ new.pc = "picked" /\ new.event = e
        /\ new.pr = pass[p].pr /\ new.outcome = pass[p].outcome
    BY <1>0, <2>2 DEF PassType, PassPcs
  <2> HIDE DEF new
  <2>4. pass'[p] = new /\ \A q \in Runs \ {p} : pass'[q] = pass[q]
    BY <2>1, <2>3, SetsOne DEF new
  <2>5. Picking(p)
    BY <1>1, <2>2, <2>3, <2>4 DEF PickEvent, Picking
  <2> QED
    BY <1>1, <2>4, <2>5 DEF PickEvent, PassMoves
<1>2. ASSUME StartsRun(p) PROVE PassMoves(p)
  <2>1. PICK replied \in BOOLEAN : Set(p, [pass[p] EXCEPT !.pc = "running", !.tracked = replied])
    BY <1>2 DEF StartsRun
  <2> DEFINE new == [pass[p] EXCEPT !.pc = "running", !.tracked = replied]
  <2>2. /\ new \in PassType /\ new.pc = "running" /\ new.event = pass[p].event
        /\ new.pr = pass[p].pr /\ new.outcome = pass[p].outcome
    BY <1>0 DEF PassType, PassPcs
  <2> HIDE DEF new
  <2>3. pass'[p] = new /\ \A q \in Runs \ {p} : pass'[q] = pass[q]
    BY <2>1, <2>2, SetsOne DEF new
  <2>4. Starting(p)
    BY <1>2, <2>2, <2>3 DEF StartsRun, BestEffort, Starting, SamePass
  <2> QED
    BY <1>2, <2>3, <2>4 DEF StartsRun, PassMoves
<1>3. ASSUME ReportsStep(p) PROVE PassMoves(p)
  <2>1. Stepping(p)
    BY <1>3 DEF ReportsStep, add_step, triageVars, Stepping, WriterTypes
  <2> QED
    BY <1>3, <2>1 DEF ReportsStep, triageVars, PassMoves
<1>4. ASSUME OpensPr(p) PROVE PassMoves(p)
  <2>1. PICK outcome \in {"pr_opened", "failed"} :
          Set(p, [pass[p] EXCEPT !.pc = "opened", !.pr = TRUE, !.outcome = outcome])
    BY <1>4 DEF OpensPr
  <2> DEFINE new == [pass[p] EXCEPT !.pc = "opened", !.pr = TRUE, !.outcome = outcome]
  <2>2. /\ new \in PassType /\ new.pc = "opened" /\ new.event = pass[p].event
        /\ new.pr = TRUE /\ new.outcome = outcome
    BY <1>0 DEF PassType, PassPcs, Outcomes
  <2> HIDE DEF new
  <2>3. pass'[p] = new /\ \A q \in Runs \ {p} : pass'[q] = pass[q]
    BY <2>1, <2>2, SetsOne DEF new
  <2>4. Opening(p)
    BY <1>4, <2>2, <2>3 DEF OpensPr, Opening
  <2> QED
    BY <1>4, <2>3, <2>4 DEF OpensPr, PassMoves
<1>5. ASSUME EndsRun(p) PROVE PassMoves(p)
  <2>1. finish_run(p) \/ UNCHANGED tables
    BY <1>5 DEF EndsRun
  <2>2. pass[p].pc \in {"running", "opened"} /\ UNCHANGED <<app_events, arrived>>
    BY <1>5 DEF EndsRun
  <2>3. PICK outcome \in Outcomes :
          /\ outcome \in IF pass[p].pc = "opened" THEN {pass[p].outcome}
                                                 ELSE {"completed_no_pr", "failed"}
          /\ IF outcome = "failed" THEN Exits(p, "broken")
             ELSE Set(p, [pass[p] EXCEPT !.pc = "returned", !.tracked = FALSE,
                                         !.outcome = outcome])
    <3>1. pass[p].outcome \in Outcomes
      BY <1>0 DEF PassType
    <3> QED
      BY <1>5, <3>1 DEF EndsRun, Outcomes
  <2>4. CASE outcome = "failed"
    <3>1. Leaving(p) /\ \A q \in Runs \ {p} : pass'[q] = pass[q]
      BY <2>1, <2>2, <2>3, <2>4, ExitsOne DEF Leaving, SamePass, PassPcs
    <3> QED
      BY <2>2, <3>1 DEF PassMoves
  <2>5. CASE outcome # "failed"
    <3> DEFINE new == [pass[p] EXCEPT !.pc = "returned", !.tracked = FALSE, !.outcome = outcome]
    <3>1. /\ new \in PassType /\ new.pc = "returned" /\ new.event = pass[p].event
          /\ new.pr = pass[p].pr /\ new.outcome = outcome
      BY <1>0 DEF PassType, PassPcs
    <3> HIDE DEF new
    <3>2. pass'[p] = new /\ \A q \in Runs \ {p} : pass'[q] = pass[q]
      BY <2>3, <2>5, <3>1, SetsOne DEF new
    <3>3. Returning(p)
      BY <2>1, <2>2, <2>3, <2>5, <3>1, <3>2 DEF Returning, SamePass
    <3> QED
      BY <2>2, <3>2, <3>3 DEF PassMoves
  <2> QED
    BY <2>4, <2>5
<1>6. ASSUME NEW event_id,
             FindsNothing(p, event_id) \/ MarksTriaged(p) \/ LeavesNew(p) \/ Breaks(p)
      PROVE  PassMoves(p)
  <2>1. PICK place \in {"done", "broken"} : Exits(p, place)
    BY <1>6 DEF FindsNothing, MarksTriaged, LeavesNew, Breaks
  <2>2. /\ pass'[p].pc \in {"done", "broken"} /\ SamePass(p) /\ pass'[p].outcome = "none"
        /\ \A q \in Runs \ {p} : pass'[q] = pass[q]
    BY <2>1, ExitsOne DEF PassPcs, SamePass
  <2>3. ASSUME NEW to \in PassPcs, Exits(p, to) PROVE pass'[p].pc = to
    BY <2>3, ExitsOne
  <2>4. Leaving(p) \/ Marking(p)
    BY <1>6, <2>2, <2>3
    DEF FindsNothing, MarksTriaged, LeavesNew, Breaks, Marks, Leaving, Marking, PassPcs
  <2> QED
    BY <1>6, <2>2, <2>4 DEF PassMoves, FindsNothing, MarksTriaged, LeavesNew, Breaks
<1> QED
  BY <1>1, <1>2, <1>3, <1>4, <1>5, <1>6 DEF Triages

-----------------------------------------------------------------------------
(* Events.  A PR is remembered from where it was opened until its event is   *)
(* marked, and the mark follows the PR.                                      *)

PassInv(p) ==
  /\ pass[p].pc \in {"picked", "running", "opened", "returned"} =>
       pass[p].event \in Reports /\ app_events[pass[p].event] # "absent"
  /\ pass[p].pr =>
       pass[p].pc \in {"opened", "returned", "broken", "done"} /\ pass[p].event \in Reports
  /\ pass[p].pc = "opened" => pass[p].pr /\ pass[p].outcome \in {"pr_opened", "failed"}
  /\ pass[p].outcome = "pr_opened" => pass[p].pr
  /\ pass[p].pc = "returned" /\ pass[p].pr => pass[p].outcome = "pr_opened"
  /\ pass[p].pc = "done" /\ pass[p].pr => app_events[pass[p].event] = "triaged"

MarkedHasPr(e) == app_events[e] = "triaged" => \E p \in Runs : pass[p].pr /\ pass[p].event = e

ArrivedInv == \A e \in Reports : (e \in ToSet(arrived)) <=> (app_events[e] # "absent")

EventsInv ==
  /\ ArrivedInv
  /\ \A p \in Runs : PassInv(p)
  /\ \A e \in Reports : MarkedHasPr(e)

LEMMA EventsInit == Init => EventsInv
  BY DEF Init, TriageInit, EventsInv, ArrivedInv, PassInv, MarkedHasPr, ToSet

LEMMA CreatesEvent ==
  ASSUME WriterTypes, EventsInv, NEW e \in Reports, create_event(e)
  PROVE  EventsInv'
<1>1. /\ app_events[e] = "absent" /\ app_events' = [app_events EXCEPT ![e] = "new"]
      /\ arrived' = Append(arrived, e) /\ pass' = pass
  BY DEF create_event
<1>2. /\ app_events'[e] = "new"
      /\ \A d \in Reports \ {e} : app_events'[d] = app_events[d]
  BY <1>1 DEF WriterTypes
<1>3. ToSet(arrived') = ToSet(arrived) \cup {e}
  <2>1. arrived \in Seq(Reports) /\ Len(arrived) \in Nat /\ DOMAIN arrived = 1..Len(arrived)
        /\ DOMAIN arrived' = 1..(Len(arrived) + 1)
    BY <1>1 DEF WriterTypes
  <2>2. \A i \in 1..Len(arrived) : arrived'[i] = arrived[i]
    BY <1>1, <2>1
  <2>3. arrived'[Len(arrived) + 1] = e
    BY <1>1, <2>1
  <2> QED
    BY <2>1, <2>2, <2>3 DEF ToSet
<1>4. ArrivedInv'
  BY <1>2, <1>3 DEF EventsInv, ArrivedInv
<1>5. ASSUME NEW p \in Runs PROVE PassInv(p)'
  BY <1>1, <1>2 DEF EventsInv, PassInv
<1>6. ASSUME NEW d \in Reports PROVE MarkedHasPr(d)'
  BY <1>1, <1>2 DEF EventsInv, MarkedHasPr
<1> QED
  BY <1>4, <1>5, <1>6 DEF EventsInv

LEMMA PassKeepsEvents ==
  ASSUME WriterTypes, EventsInv, NEW p \in Runs, PassMoves(p)
  PROVE  EventsInv'
<1>1. /\ \A q \in Runs \ {p} : pass'[q] = pass[q]
      /\ arrived' = arrived /\ PassInv(p)
  BY DEF PassMoves, EventsInv
<1>2. ASSUME UNCHANGED app_events, PassInv(p)',
             pass[p].pr => pass'[p].pr /\ pass'[p].event = pass[p].event
      PROVE  EventsInv'
  <2>1. ArrivedInv'
    BY <1>1, <1>2 DEF EventsInv, ArrivedInv
  <2>2. ASSUME NEW q \in Runs PROVE PassInv(q)'
    BY <1>1, <1>2 DEF EventsInv, PassInv
  <2>3. ASSUME NEW e \in Reports PROVE MarkedHasPr(e)'
    BY <1>1, <1>2 DEF EventsInv, MarkedHasPr
  <2> QED
    BY <2>1, <2>2, <2>3 DEF EventsInv
<1>3. CASE Picking(p)
  BY <1>1, <1>2, <1>3 DEF Picking, PassInv
<1>4. CASE Starting(p)
  BY <1>1, <1>2, <1>4 DEF Starting, SamePass, PassInv
<1>5. CASE Stepping(p)
  BY <1>1, <1>2, <1>5 DEF Stepping, PassInv
<1>6. CASE Opening(p)
  BY <1>1, <1>2, <1>6 DEF Opening, PassInv
<1>7. CASE Returning(p)
  BY <1>1, <1>2, <1>7 DEF Returning, SamePass, PassInv
<1>8. CASE Leaving(p)
  BY <1>1, <1>2, <1>8 DEF Leaving, SamePass, PassInv
<1>9. CASE Marking(p)
  <2> DEFINE e == pass[p].event
  <2>1. e \in Reports /\ pass[p].pr /\ app_events[e] # "absent"
    BY <1>1, <1>9 DEF Marking, PassInv
  <2>2. app_events'[e] = "triaged" /\ \A d \in Reports \ {e} : app_events'[d] = app_events[d]
    BY <1>9, <2>1 DEF Marking, mark_event, WriterTypes
  <2>3. ArrivedInv'
    BY <1>1, <2>1, <2>2 DEF EventsInv, ArrivedInv
  <2>4. ASSUME NEW q \in Runs PROVE PassInv(q)'
    <3>1. CASE q = p
      BY <1>9, <2>1, <2>2, <3>1 DEF Marking, SamePass, PassInv
    <3>2. CASE q # p
      BY <1>1, <2>2, <3>2 DEF EventsInv, PassInv
    <3> QED
      BY <3>1, <3>2
  <2>5. ASSUME NEW d \in Reports PROVE MarkedHasPr(d)'
    <3>1. CASE d = e
      BY <1>9, <2>1, <3>1 DEF Marking, SamePass, MarkedHasPr
    <3>2. CASE d # e
      BY <1>1, <1>9, <2>2, <3>2 DEF Marking, EventsInv, MarkedHasPr, SamePass
    <3> QED
      BY <3>1, <3>2
  <2> QED
    BY <2>3, <2>4, <2>5 DEF EventsInv
<1> QED
  BY <1>3, <1>4, <1>5, <1>6, <1>7, <1>8, <1>9 DEF PassMoves

LEMMA EventsStep == WriterTypes /\ EventsInv /\ [Next]_vars => EventsInv'
<1> SUFFICES ASSUME WriterTypes, EventsInv, [Next]_vars PROVE EventsInv'
  OBVIOUS
<1>1. ASSUME NEW e \in Reports, create_event(e) PROVE EventsInv'
  BY <1>1, CreatesEvent
<1>2. ASSUME NEW p \in Runs, Triages(p) PROVE EventsInv'
  BY <1>2, PassStep, PassKeepsEvents
<1>3. CASE UNCHANGED triageVars
  BY <1>3 DEF triageVars, EventsInv, ArrivedInv, PassInv, MarkedHasPr
<1> QED
  BY <1>1, <1>2, <1>3 DEF Next, TriageNext, vars

\* For any number of passes at once: a triaged event has a PR, and an event with one is
\* offered again only while its pass has yet to mark it or has broken (triage, mark_event).
THEOREM EventsStayTrue == Spec => []EventsAreTrue
<1>1. EventsInv => EventsAreTrue
  BY DEF EventsInv, PassInv, MarkedHasPr, EventsAreTrue, At
<1> QED
  BY <1>1, WriterTypesInit, WriterTypesStep, EventsInit, EventsStep, PTL DEF Spec

-----------------------------------------------------------------------------
(* The tables.  A row is created by a pass that has picked, finished by one   *)
(* that leaves its run, and a finished run reports no further step.          *)

RowInv(p) ==
  /\ pass[p].pc \in {"start", "picked"} => agent_runs[p] = "absent"
  /\ agent_runs[p] = "finished" => pass[p].pc \in {"returned", "broken", "done"}

RowsInv == \A p \in Runs : RowInv(p)

\* What the page relies on, of any step of the writers.
Forward(r) ==
  /\ Progress(agent_runs[r]) <= Progress(agent_runs'[r])
  /\ agent_runs[r] = "finished" => agent_runs'[r] = "finished" /\ run_steps'[r] = run_steps[r]

LEMMA RowsInit == Init => RowsInv
  BY DEF Init, TablesInit, TriageInit, RowsInv, RowInv

LEMMA SameRow ==
  ASSUME WriterTypes, NEW r \in Runs, agent_runs'[r] = agent_runs[r],
         run_steps'[r] = run_steps[r] \/ agent_runs[r] # "finished"
  PROVE  Forward(r)
<1>1. agent_runs[r] \in {"absent", "running", "finished"}
  BY StatusSet DEF WriterTypes
<1> QED
  BY <1>1, ProgressOf DEF Forward

LEMMA WritersStep ==
  ASSUME WriterTypes, RowsInv, NEW p \in Runs, PassMoves(p)
  PROVE  RowsInv' /\ \A r \in Runs : Forward(r)
<1>1. /\ \A q \in Runs \ {p} : pass'[q] = pass[q]
      /\ RowInv(p) /\ agent_runs[p] \in {"absent", "running", "finished"}
  BY StatusSet DEF PassMoves, RowsInv, WriterTypes
<1>2. ASSUME RowInv(p)', Forward(p),
             \A q \in Runs \ {p} : agent_runs'[q] = agent_runs[q] /\ run_steps'[q] = run_steps[q]
      PROVE  RowsInv' /\ \A r \in Runs : Forward(r)
  <2>1. ASSUME NEW q \in Runs PROVE RowInv(q)'
    BY <1>1, <1>2 DEF RowsInv, RowInv
  <2>2. ASSUME NEW r \in Runs PROVE Forward(r)
    BY <1>2, SameRow
  <2> QED
    BY <2>1, <2>2 DEF RowsInv
<1>3. ASSUME UNCHANGED tables, RowInv(p)' PROVE RowsInv' /\ \A r \in Runs : Forward(r)
  BY <1>2, <1>3, SameRow DEF tables
<1>4. CASE start_run(p) /\ pass[p].pc = "picked" /\ pass'[p].pc = "running"
  <2>1. /\ agent_runs[p] = "absent" /\ agent_runs'[p] = "running"
        /\ \A q \in Runs \ {p} : agent_runs'[q] = agent_runs[q]
        /\ run_steps' = run_steps
    BY <1>1, <1>4 DEF start_run, SetStatus, WriterTypes, RowInv
  <2>2. RowInv(p)' /\ Forward(p)
    BY <1>4, <2>1, ProgressOf DEF RowInv, Forward
  <2> QED
    BY <1>2, <2>1, <2>2
<1>5. CASE finish_run(p) /\ pass'[p].pc \in {"returned", "broken"}
  <2>1. /\ agent_runs'[p] = "finished"
        /\ \A q \in Runs \ {p} : agent_runs'[q] = agent_runs[q]
        /\ run_steps' = run_steps
    BY <1>5 DEF finish_run, SetStatus, WriterTypes
  <2>2. RowInv(p)' /\ Forward(p)
    BY <1>1, <1>5, <2>1, ProgressOf DEF RowInv, Forward
  <2> QED
    BY <1>2, <2>1, <2>2
<1>6. CASE Stepping(p)
  <2>1. RowInv(p)' /\ agent_runs[p] # "finished"
    BY <1>1, <1>6 DEF Stepping, RowInv
  <2>2. Forward(p)
    BY <1>6, <2>1, SameRow DEF Stepping
  <2> QED
    BY <1>2, <1>6, <2>1, <2>2 DEF Stepping
<1>7. CASE UNCHANGED tables /\ ~Stepping(p)
  <2>1. RowInv(p)'
    BY <1>1, <1>7
    DEF PassMoves, Picking, Starting, Opening, Returning, Leaving, Marking, RowInv, tables
  <2> QED
    BY <1>3, <1>7, <2>1
<1> QED
  BY <1>4, <1>5, <1>6, <1>7
  DEF PassMoves, Picking, Starting, Opening, Returning, Leaving, Marking

LEMMA RowsStep ==
  ASSUME WriterTypes, RowsInv, [Next]_vars
  PROVE  RowsInv' /\ \A r \in Runs : Forward(r)
<1>1. ASSUME UNCHANGED tables, pass' = pass PROVE RowsInv' /\ \A r \in Runs : Forward(r)
  <2>1. \A r \in Runs : Forward(r)
    BY <1>1, SameRow DEF tables
  <2> QED
    BY <1>1, <2>1 DEF tables, RowsInv, RowInv
<1>2. ASSUME NEW e \in Reports, create_event(e) PROVE UNCHANGED tables /\ pass' = pass
  BY <1>2 DEF create_event
<1>3. ASSUME NEW p \in Runs, Triages(p) PROVE RowsInv' /\ \A r \in Runs : Forward(r)
  BY <1>3, PassStep, WritersStep
<1> QED
  BY <1>1, <1>2, <1>3 DEF Next, TriageNext, vars, triageVars

-----------------------------------------------------------------------------
(* The page.  Each request is the only one of its kind, is about what is on  *)
(* screen, and its answer lies between what is shown and what is stored.      *)

Listing == [Runs -> Statuses]

\* The runs shown in `older' have gone no further than in `newer'.
NotAhead(older, newer) == \A r \in Runs : Progress(older[r]) <= Progress(newer[r])

PollsInv ==
  /\ feed.mounted \/ polls = {}
  /\ \A q1, q2 \in polls : q1 = q2
  /\ NotAhead(feed.items, agent_runs)
  /\ \A q \in polls \ {Sent} :
       NotAhead(feed.items, q.items) /\ NotAhead(q.items, agent_runs)

Complete(detail) ==
  /\ detail.run = drawer.run
  /\ drawer.row = "finished" => detail.steps = run_steps[drawer.run]

DrawerInv ==
  /\ drawer.run = NoRun => gets = {}
  /\ drawer.run # NoRun /\ drawer.row = "finished" => agent_runs[drawer.run] = "finished"
  /\ \A q \in gets : IF q.at = "sent" THEN q.run = drawer.run ELSE Complete(q.detail)
  /\ drawer.run # NoRun /\ ~drawer.loading /\ ~drawer.error => Complete(drawer.detail)

FeedInv == FeedOK /\ PollsInv /\ DrawerInv

LEMMA FeedTypes ==
  ASSUME FeedOK
  PROVE  /\ feed.mounted \in BOOLEAN /\ feed.items \in Listing
         /\ feed.loading \in BOOLEAN /\ feed.error \in BOOLEAN
         /\ \A q \in polls : q = Sent \/ (q # Sent /\ q.at = "answered" /\ q.items \in Listing)
         /\ \A q \in gets : \/ \E r \in Runs : q = SentFor(r) /\ q.at = "sent" /\ q.run = r
                            \/ q.at = "answered" /\ q.detail \in Details
         /\ drawer.run \in Runs \cup {NoRun} /\ drawer.row \in Statuses
         /\ drawer.detail \in Details /\ drawer.loading \in BOOLEAN /\ drawer.error \in BOOLEAN
<1>1. \A q \in polls : q = Sent \/ (q # Sent /\ q.at = "answered" /\ q.items \in Listing)
  BY DEF FeedOK, Sent, Listing
<1>2. \A q \in gets : \/ \E r \in Runs : q = SentFor(r) /\ q.at = "sent" /\ q.run = r
                      \/ q.at = "answered" /\ q.detail \in Details
  BY DEF FeedOK, SentFor
<1> QED
  BY <1>1, <1>2 DEF FeedOK, Listing

FeedType == [mounted : BOOLEAN, items : Listing, loading : BOOLEAN, error : BOOLEAN]
PollType == {Sent} \cup [at : {"answered"}, items : Listing]
DrawerType == [run : Runs \cup {NoRun}, row : Statuses, detail : Details,
               loading : BOOLEAN, error : BOOLEAN]
GetType == {SentFor(r) : r \in Runs} \cup [at : {"answered"}, detail : Details]

LEMMA FeedOKIs ==
  FeedOK <=> /\ feed \in FeedType /\ polls \subseteq PollType
             /\ drawer \in DrawerType /\ gets \subseteq GetType
  BY DEF FeedOK, FeedType, PollType, DrawerType, GetType, Listing

\* What the page starts with.
LEMMA PageTypes ==
  /\ NothingListed \in Listing
  /\ Fresh \in FeedType /\ Fresh.items = NothingListed /\ Fresh.mounted
  /\ Away \in FeedType /\ Away.items = NothingListed /\ ~Away.mounted
  /\ ClosedDrawer \in DrawerType /\ ClosedDrawer.run = NoRun
<1>1. NothingListed \in Listing /\ "absent" \in Statuses
  BY StatusSet DEF NothingListed, Listing
<1>2. Fresh \in FeedType /\ Fresh.items = NothingListed /\ Fresh.mounted
  BY <1>1 DEF Fresh, FeedType
<1>3. Away \in FeedType /\ Away.items = NothingListed /\ ~Away.mounted
  BY <1>2 DEF Away, FeedType
<1>4. NoDetail \in Details
  BY DEF NoDetail, Details
<1>5. ClosedDrawer \in DrawerType /\ ClosedDrawer.run = NoRun
  BY <1>1, <1>4 DEF ClosedDrawer, DrawerType
<1> QED
  BY <1>1, <1>2, <1>3, <1>5

LEMMA FeedInit0 == Init => FeedInv
<1> SUFFICES ASSUME Init PROVE FeedInv
  OBVIOUS
<1>1. /\ feed = Away /\ polls = {} /\ drawer = ClosedDrawer /\ gets = {}
      /\ agent_runs = NothingListed
  BY DEF Init, FeedInit, TablesInit, NothingListed
<1>2. FeedOK
  BY <1>1, PageTypes, FeedOKIs
<1>3. feed.items = NothingListed /\ feed.mounted = FALSE
  BY <1>1, PageTypes
<1>5. PollsInv
  <2>1. NotAhead(NothingListed, NothingListed)
    BY ProgressOf DEF NotAhead, NothingListed
  <2> QED
    BY <1>1, <1>3, <2>1 DEF PollsInv
<1>6. DrawerInv
  BY <1>1, PageTypes DEF DrawerInv
<1> QED
  BY <1>2, <1>5, <1>6 DEF FeedInv

\* Writers go forward under the page.
LEMMA FeedUnderWriters ==
  ASSUME WriterTypes, WriterTypes', FeedInv, UNCHANGED feedVars, \A r \in Runs : Forward(r)
  PROVE  FeedInv'
<1> USE DEF FeedInv, feedVars
<1>1. FeedOK'
  BY DEF FeedOK
<1>2. PollsInv'
  <2>1. ASSUME NEW items \in Listing, NotAhead(items, agent_runs)
        PROVE  NotAhead(items, agent_runs')
    <3>1. ASSUME NEW r \in Runs PROVE Progress(items[r]) <= Progress(agent_runs'[r])
      <4>1. /\ items[r] \in {"absent", "running", "finished"}
            /\ agent_runs[r] \in {"absent", "running", "finished"}
            /\ agent_runs'[r] \in {"absent", "running", "finished"}
        BY StatusSet DEF Listing, WriterTypes
      <4> QED
        BY <2>1, <4>1, ProgressOf DEF NotAhead, Forward
    <3> QED
      BY <3>1 DEF NotAhead
  <2>2. feed.items \in Listing /\ \A q \in polls \ {Sent} : q.items \in Listing
    BY FeedTypes
  <2> QED
    BY <2>1, <2>2 DEF PollsInv
<1>3. DrawerInv'
  <2>1. drawer.run \in Runs \cup {NoRun}
    BY FeedTypes
  <2>2. ASSUME NEW detail, Complete(detail), drawer.run # NoRun PROVE Complete(detail)'
    BY <2>1, <2>2 DEF Complete, Forward, DrawerInv
  <2>3. gets # {} => drawer.run # NoRun
    BY DEF DrawerInv
  <2>4. drawer.run # NoRun /\ drawer.row = "finished" => agent_runs'[drawer.run] = "finished"
    BY <2>1 DEF DrawerInv, Forward
  <2> QED
    BY <2>2, <2>3, <2>4 DEF DrawerInv
<1> QED
  BY <1>1, <1>2, <1>3

LEMMA NotAheadOfSelf == \A items \in Listing : NotAhead(items, items)
<1> SUFFICES ASSUME NEW items \in Listing, NEW r \in Runs
             PROVE  Progress(items[r]) <= Progress(items[r])
  BY DEF NotAhead
<1>1. items[r] \in {"absent", "running", "finished"}
  BY StatusSet DEF Listing
<1> QED
  BY <1>1, ProgressOf

LEMMA NothingIsAhead == \A items \in Listing : NotAhead(NothingListed, items)
<1> SUFFICES ASSUME NEW items \in Listing, NEW r \in Runs
             PROVE  Progress(NothingListed[r]) <= Progress(items[r])
  BY DEF NotAhead
<1>1. items[r] \in {"absent", "running", "finished"} /\ NothingListed[r] = "absent"
  BY StatusSet DEF Listing, NothingListed
<1> QED
  BY <1>1, ProgressOf

\* The requests of the list.
LEMMA FeedUnderPolls ==
  ASSUME WriterTypes, FeedInv, UNCHANGED <<tables, drawer, gets>>,
         Visit \/ Poll \/ ApiLists \/ PollFails \/ \E q \in polls : PollReturns(q)
  PROVE  FeedInv'
<1> USE DEF FeedInv, tables
<1>1. DrawerInv'
  BY DEF DrawerInv, Complete
<1>2. ASSUME feed' \in FeedType, polls' \subseteq PollType PROVE FeedOK'
  BY <1>2 DEF FeedOK, FeedType, PollType, Listing
<1>3. feed \in FeedType /\ polls \subseteq PollType /\ agent_runs \in Listing
  BY FeedOKIs DEF Listing, WriterTypes
<1>4. CASE Visit
  <2>1. feed' = Fresh /\ polls' = {Sent}
    BY <1>4 DEF Visit
  <2>2. feed'.items = NothingListed /\ feed'.mounted /\ FeedOK'
    BY <1>2, <2>1, PageTypes DEF PollType
  <2>3. PollsInv'
    BY <1>3, <2>1, <2>2, NothingIsAhead DEF PollsInv
  <2> QED
    BY <1>1, <2>2, <2>3
<1>5. CASE Poll
  <2>1. feed' = feed /\ polls' = {Sent} /\ feed.mounted
    BY <1>5 DEF Poll, Aborted
  <2>2. FeedOK'
    BY <1>2, <1>3, <2>1 DEF PollType
  <2>3. PollsInv'
    BY <2>1 DEF PollsInv
  <2> QED
    BY <1>1, <2>2, <2>3
<1>6. CASE ApiLists
  <2> DEFINE answer == [at |-> "answered", items |-> list_runs]
  <2>1. feed' = feed /\ Sent \in polls /\ polls' = (polls \ {Sent}) \cup {answer}
    BY <1>6 DEF ApiLists
  <2>2. polls' = {answer} /\ feed.mounted
    BY <2>1 DEF PollsInv
  <2>3. answer.items = agent_runs /\ answer \in [at : {"answered"}, items : Listing]
    BY <1>3 DEF list_runs
  <2>4. FeedOK'
    BY <1>2, <1>3, <2>1, <2>2, <2>3 DEF PollType
  <2>5. PollsInv'
    BY <1>3, <2>1, <2>2, <2>3, NotAheadOfSelf DEF PollsInv
  <2> QED
    BY <1>1, <2>4, <2>5
<1>7. CASE PollFails
  <2>1. /\ polls' = polls \ {Sent} /\ feed'.items = feed.items /\ feed'.mounted = feed.mounted
        /\ feed' \in FeedType
    BY <1>3, <1>7 DEF PollFails, FeedType
  <2>2. FeedOK'
    BY <1>2, <1>3, <2>1
  <2>3. PollsInv'
    BY <2>1 DEF PollsInv
  <2> QED
    BY <1>1, <2>2, <2>3
<1>8. ASSUME NEW q \in polls, PollReturns(q) PROVE FeedInv'
  <2>1. q # Sent /\ q.items \in Listing
    BY <1>3, <1>8 DEF PollReturns, PollType
  <2>2. /\ polls' = polls \ {q} /\ feed'.items = q.items /\ feed'.mounted = feed.mounted
        /\ feed' \in FeedType
    BY <1>3, <1>8, <2>1 DEF PollReturns, FeedType
  <2>3. FeedOK'
    BY <1>2, <1>3, <2>2
  <2>4. polls' = {} /\ NotAhead(q.items, agent_runs)
    BY <1>8, <2>1, <2>2 DEF PollsInv
  <2>5. PollsInv'
    BY <2>2, <2>4 DEF PollsInv
  <2> QED
    BY <1>1, <2>3, <2>5
<1> QED
  BY <1>4, <1>5, <1>6, <1>7, <1>8

\* The drawer and its requests.
LEMMA FeedUnderDrawer ==
  ASSUME WriterTypes, FeedInv, UNCHANGED tables,
         \/ Leave \/ CloseDrawer
         \/ \E q \in gets : GetReturns(q)
         \/ \E r \in Runs : OpenDrawer(r) \/ ApiGets(r) \/ GetFails(r)
  PROVE  FeedInv'
<1>0. /\ agent_runs' = agent_runs /\ run_steps' = run_steps
      /\ drawer \in DrawerType /\ gets \subseteq GetType /\ DrawerInv
  BY FeedOKIs DEF tables, FeedInv
<1>1. CASE Leave
  <2>1. feed' = Away /\ polls' = {} /\ drawer' = ClosedDrawer /\ gets' = {}
    BY <1>1 DEF Leave
  <2>2. feed'.items = NothingListed /\ drawer'.run = NoRun
    BY <2>1, PageTypes
  <2>3. feed' \in FeedType /\ polls' \subseteq PollType /\ drawer' \in DrawerType /\ gets' \subseteq GetType
    BY <2>1, PageTypes
  <2>4. PollsInv'
    BY <1>0, <2>1, <2>2, NothingIsAhead DEF PollsInv, WriterTypes, Listing
  <2>5. DrawerInv'
    BY <2>1, <2>2 DEF DrawerInv
  <2>6. FeedOK'
    BY <2>3 DEF FeedOK, FeedType, PollType, DrawerType, GetType, Listing
  <2> QED
    BY <2>4, <2>5, <2>6 DEF FeedInv
<1>2. ASSUME UNCHANGED <<feed, polls>>, drawer' \in DrawerType, gets' \subseteq GetType, DrawerInv'
      PROVE  FeedInv'
  BY <1>0, <1>2 DEF FeedInv, FeedOK, PollsInv, DrawerType, GetType
<1>3. CASE CloseDrawer
  <2>1. drawer' \in DrawerType /\ drawer'.run = NoRun /\ gets' = {}
    <3>1. drawer' = [ClosedDrawer EXCEPT !.loading = drawer.loading] /\ gets' = {}
      BY <1>3 DEF CloseDrawer, Forgotten
    <3> QED
      BY <1>0, <3>1, PageTypes DEF DrawerType
  <2>2. DrawerInv'
    BY <2>1 DEF DrawerInv
  <2> QED
    BY <1>2, <1>3, <2>1, <2>2 DEF CloseDrawer
<1>4. ASSUME NEW q \in gets, GetReturns(q) PROVE FeedInv'
  <2>1. q.at = "answered" /\ q.detail \in Details
    BY <1>4, FeedTypes DEF GetReturns, FeedInv
  <2>2. /\ drawer' \in DrawerType /\ drawer'.run = drawer.run /\ drawer'.row = drawer.row
        /\ drawer'.detail = q.detail /\ gets' = gets \ {q}
    BY <1>0, <1>4, <2>1 DEF GetReturns, DrawerType
  <2>3. Complete(q.detail)
    BY <1>0, <1>4, <2>1 DEF DrawerInv
  <2>4. DrawerInv'
    BY <1>0, <2>2, <2>3 DEF DrawerInv, Complete
  <2> QED
    BY <1>0, <1>2, <1>4, <2>2, <2>4 DEF GetReturns
<1>5. ASSUME NEW r \in Runs, OpenDrawer(r) PROVE FeedInv'
  <2>1. feed.items[r] \in Statuses /\ drawer.run = NoRun /\ gets = {}
    BY <1>0, <1>5 DEF OpenDrawer, FeedInv, FeedOK, DrawerInv
  <2>2. /\ drawer' \in DrawerType /\ drawer'.run = r /\ drawer'.row = feed.items[r]
        /\ drawer'.loading = TRUE /\ gets' = {SentFor(r)}
    BY <1>0, <1>5, <2>1 DEF OpenDrawer, DrawerType, GetType
  <2>6. gets' \subseteq GetType /\ UNCHANGED <<feed, polls>>
    BY <1>5, <2>2 DEF OpenDrawer, GetType
  <2>3. feed.items[r] = "finished" => agent_runs[r] = "finished"
    <3>1. Progress(feed.items[r]) <= Progress(agent_runs[r])
      BY DEF FeedInv, PollsInv, NotAhead
    <3>2. agent_runs[r] \in {"absent", "running", "finished"}
      BY StatusSet DEF WriterTypes
    <3> QED
      BY <3>1, <3>2, ProgressOf
  <2>4. SentFor(r).at = "sent" /\ SentFor(r).run = r /\ r # NoRun
    BY DEF SentFor
  <2>5. DrawerInv'
    BY <1>0, <2>2, <2>3, <2>4 DEF DrawerInv
  <2> QED
    BY <1>2, <2>2, <2>5, <2>6
<1>6. ASSUME NEW r \in Runs, ApiGets(r) PROVE FeedInv'
  <2> DEFINE answer == [at |-> "answered", detail |-> get_run(r)]
  <2>1. drawer' = drawer /\ gets' = (gets \ {SentFor(r)}) \cup {answer} /\ SentFor(r) \in gets
    BY <1>6 DEF ApiGets
  <2>2. SentFor(r).at = "sent" /\ SentFor(r).run = r
    BY DEF SentFor
  <2>3. r = drawer.run
    BY <1>0, <2>1, <2>2 DEF DrawerInv
  <2>4. answer.at = "answered" /\ answer.detail = get_run(r) /\ get_run(r) \in Details
    BY DEF get_run, Details, WriterTypes
  <2>5. Complete(get_run(r))
    BY <2>3 DEF get_run, Complete
  <2>6. DrawerInv'
    BY <1>0, <2>1, <2>3, <2>4, <2>5 DEF DrawerInv, Complete
  <2> QED
    BY <1>0, <1>2, <1>6, <2>1, <2>4, <2>6 DEF ApiGets, GetType
<1>7. ASSUME NEW r \in Runs, GetFails(r) PROVE FeedInv'
  <2>1. /\ drawer' \in DrawerType /\ drawer'.run = drawer.run /\ drawer'.row = drawer.row
        /\ drawer'.error = TRUE /\ gets' = gets \ {SentFor(r)}
    BY <1>0, <1>7 DEF GetFails, DrawerType
  <2>2. DrawerInv'
    BY <1>0, <2>1 DEF DrawerInv, Complete
  <2> QED
    BY <1>0, <1>2, <1>7, <2>1, <2>2 DEF GetFails
<1> QED
  BY <1>1, <1>3, <1>4, <1>5, <1>6, <1>7

-----------------------------------------------------------------------------

Inv == WriterTypes /\ EventsInv /\ RowsInv /\ FeedInv

LEMMA FeedStep == WriterTypes /\ RowsInv /\ FeedInv /\ [Next]_vars => FeedInv'
<1> SUFFICES ASSUME WriterTypes, RowsInv, FeedInv, [Next]_vars PROVE FeedInv'
  OBVIOUS
<1>1. WriterTypes' /\ \A r \in Runs : Forward(r)
  BY WriterTypesStep, RowsStep
<1>2. CASE UNCHANGED feedVars
  BY <1>1, <1>2, FeedUnderWriters
<1>3. CASE FeedNext /\ UNCHANGED <<tables, triageVars>>
  <2>1. CASE Visit \/ Poll \/ ApiLists \/ PollFails \/ \E q \in polls : PollReturns(q)
    <3>1. UNCHANGED <<tables, drawer, gets>>
      BY <1>3, <2>1 DEF Visit, Poll, ApiLists, PollFails, PollReturns
    <3> QED
      BY <2>1, <3>1, FeedUnderPolls
  <2>2. CASE \/ Leave \/ CloseDrawer
             \/ \E q \in gets : GetReturns(q)
             \/ \E r \in Runs : OpenDrawer(r) \/ ApiGets(r) \/ GetFails(r)
    BY <1>3, <2>2, FeedUnderDrawer
  <2> QED
    BY <1>3, <2>1, <2>2 DEF FeedNext
<1> QED
  BY <1>2, <1>3 DEF Next, vars

LEMMA Invariance == Spec => []Inv
<1>1. Init => Inv
  BY WriterTypesInit, EventsInit, RowsInit, FeedInit0 DEF Inv
<1>2. Inv /\ [Next]_vars => Inv'
  BY WriterTypesStep, EventsStep, RowsStep, FeedStep DEF Inv
<1> QED
  BY <1>1, <1>2, PTL DEF Spec

\* The tables, the events, the passes and the page keep their types, and a pass that goes
\* on has an event that was reported (triage, create_event).
THEOREM TypeCorrect == Spec => []TypeOK
<1>1. Inv => TypeOK
  <2> SUFFICES ASSUME Inv PROVE TypeOK
    OBVIOUS
  <2>1. TablesOK
    BY DEF Inv, WriterTypes, TablesOK, Statuses
  <2>2. TriageOK
    <3>1. \A e \in Reports : (e \in ToSet(arrived)) <=> (app_events[e] # "absent")
      BY DEF Inv, EventsInv, ArrivedInv
    <3>2. \A p \in Runs : At(p, {"picked", "running", "opened", "returned"}) =>
            pass[p].event \in Reports /\ app_events[pass[p].event] # "absent"
      BY DEF Inv, EventsInv, PassInv, At
    <3> QED
      BY <3>1, <3>2 DEF Inv, WriterTypes, PassType, TriageOK
  <2> QED
    BY <2>1, <2>2 DEF Inv, FeedInv, TypeOK
<1> QED
  BY <1>1, Invariance, PTL

\* However the drawer's requests and the passes' reports interleave, a timeline that is on
\* screen is the selected run's, and whole if the run was over when it was clicked
\* (RunDetailDrawer, get_run).
THEOREM TimelineStaysComplete == Spec => []TimelineIsComplete
<1>1. Inv => TimelineIsComplete
  BY DEF Inv, FeedInv, DrawerInv, Complete, TimelineIsComplete
<1> QED
  BY <1>1, Invariance, PTL

\* With answers of any delay, an older list never replaces a newer one while the page stays
\* open: the poll under way is the only one, so what it was answered is no older than what
\* is shown (useRunList).
THEOREM FeedGoesForward == Spec => FeedNeverGoesBack
<1> DEFINE Back == feed.mounted /\ feed'.mounted => NotAhead(feed.items, feed'.items)
<1>1. Inv /\ [Next]_vars => [Back]_<<feed>>
  <2> SUFFICES ASSUME Inv, Next, feed' # feed PROVE Back
    BY DEF vars, feedVars
  <2>1. feed \in FeedType /\ feed.items \in Listing
    BY FeedOKIs, FeedTypes DEF Inv, FeedInv
  <2>2. CASE Visit \/ Leave
    <3>1. ~feed.mounted \/ feed' = Away
      BY <2>2 DEF Visit, Leave
    <3> QED
      BY <3>1, PageTypes
  <2>3. CASE PollFails
    <3>1. feed'.items = feed.items
      BY <2>1, <2>3 DEF PollFails, FeedType
    <3> QED
      BY <2>1, <3>1, NotAheadOfSelf
  <2>4. ASSUME NEW q \in polls, PollReturns(q) PROVE Back
    <3>1. feed'.items = q.items /\ q \in polls \ {Sent}
      BY <2>1, <2>4 DEF PollReturns, FeedType
    <3> QED
      BY <3>1 DEF Inv, FeedInv, PollsInv
  <2> QED
    BY <2>2, <2>3, <2>4
    DEF Next, FeedNext, feedVars, Poll, ApiLists, OpenDrawer, CloseDrawer, ApiGets, GetReturns, GetFails
<1>2. [Back]_<<feed>> =>
        [feed.mounted /\ feed'.mounted =>
           \A r \in Runs : Progress(feed.items[r]) <= Progress(feed'.items[r])]_<<feed>>
  BY DEF NotAhead
<1> QED
  BY <1>1, <1>2, Invariance, PTL DEF Spec, FeedNeverGoesBack

=============================================================================
