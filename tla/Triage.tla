-------------------------------- MODULE Triage --------------------------------
(***************************************************************************)
(* Reported events and the triage passes over them: api/_lib/events.py     *)
(* creates an event, rails/events.py fetches and marks, and                *)
(* rails/agents/triage.py drives one agent run for one event.  Any number  *)
(* of passes run at once: each is a `rails triage' command of its own.     *)
(*                                                                         *)
(* The run inside a pass is what AgentLoop shows of it to the outside: a   *)
(* row, steps, perhaps a PR, and then an outcome or an exception.          *)
(***************************************************************************)
EXTENDS AgentRuns, FiniteSets, SequencesExt

CONSTANTS
  Reports,      \* the events that may be reported
  NoReport,     \* no event asked for, or picked
  FetchLimit    \* the limit of fetch_new_events

ASSUME FetchAssumption == FetchLimit \in Nat \ {0} /\ NoReport \notin Reports

VARIABLES
  app_events,   \* the status of every event
  arrived,      \* the events in the order of created_at
  pass          \* where each pass is, and its run with it

triageVars == <<app_events, arrived, pass>>

Outcomes == {"none", "pr_opened", "completed_no_pr", "failed"}
PassPcs == {"start", "picked", "running", "opened", "returned", "done", "broken"}

TriageInit ==
  /\ app_events = [e \in Reports |-> "absent"]
  /\ arrived = <<>>
  /\ pass = [p \in Runs |-> [pc |-> "start", event |-> NoReport, tracked |-> FALSE,
                              pr |-> FALSE, outcome |-> "none"]]

At(p, places) == pass[p].pc \in places

Set(p, new) == pass' = [pass EXCEPT ![p] = new]

\* The command is over and its locals with it; that it had an event and a PR stays.
Exits(p, place) ==
  Set(p, [pass[p] EXCEPT !.pc = place, !.tracked = FALSE, !.outcome = "none"])

\* The insert of create_event.
create_event(e) ==
  /\ app_events[e] = "absent"
  /\ app_events' = [app_events EXCEPT ![e] = "new"]
  /\ arrived' = Append(arrived, e)
  /\ UNCHANGED <<pass, tables>>

\* Where the new events stand in `arrived'.
New == {i \in DOMAIN arrived : app_events[arrived[i]] = "new"}

\* status=eq.new, order=created_at.desc, limit.
fetch_new_events == {i \in New : Cardinality({j \in New : j > i}) < FetchLimit}

\* Without an event_id the newest is taken.
Newest(fetched) == {i \in fetched : \A j \in fetched : j <= i}

\* Mutant: an event_id that was not fetched is not noticed.
Picked_Unnoticed(event_id) ==
  LET fetched == fetch_new_events IN
  IF event_id = NoReport THEN {arrived[i] : i \in Newest(fetched)}
  ELSE IF event_id \in {arrived[i] : i \in fetched} THEN {event_id} ELSE {NoReport}

\* There is no fetch by id: an event_id is looked up among the fetched ones.
Picked(event_id) ==
  LET fetched == fetch_new_events IN
  IF event_id = NoReport THEN {arrived[i] : i \in Newest(fetched)}
                         ELSE {event_id} \cap {arrived[i] : i \in fetched}

PickEvent(p, event_id) ==
  /\ At(p, {"start"})
  /\ \E e \in Picked(event_id) : Set(p, [pass[p] EXCEPT !.pc = "picked", !.event = e])
  /\ UNCHANGED <<app_events, arrived, tables>>

FindsNothing(p, event_id) ==
  /\ At(p, {"start"}) /\ Picked(event_id) = {}
  /\ Exits(p, "done")
  /\ UNCHANGED <<app_events, arrived, tables>>

\* A call to Mission Control that fails may have been carried out before it did.
BestEffort(call, succeeded) == call \/ (~succeeded /\ UNCHANGED tables)

StartsRun(p) ==
  /\ At(p, {"picked"})
  /\ \E replied \in BOOLEAN :
       /\ BestEffort(start_run(p), replied)
       /\ Set(p, [pass[p] EXCEPT !.pc = "running", !.tracked = replied])
  /\ UNCHANGED <<app_events, arrived>>

ReportsStep(p) ==
  /\ At(p, {"running", "opened"}) /\ pass[p].tracked
  /\ add_step(p)
  /\ UNCHANGED triageVars

\* gh made the PR; its reply may be lost, and the run then ends in an error.
OpensPr(p) ==
  /\ At(p, {"running"})
  /\ \E outcome \in {"pr_opened", "failed"} :
       Set(p, [pass[p] EXCEPT !.pc = "opened", !.pr = TRUE, !.outcome = outcome])
  /\ UNCHANGED <<app_events, arrived, tables>>

\* _record, after the PR or without one: _mc_finish, the journal; then the run returns or raises.
EndsRun(p) ==
  /\ At(p, {"running", "opened"})
  /\ \E outcome \in IF At(p, {"opened"}) THEN {pass[p].outcome}
                                         ELSE {"completed_no_pr", "failed"} :
       IF outcome = "failed" THEN Exits(p, "broken")
       ELSE Set(p, [pass[p] EXCEPT !.pc = "returned", !.tracked = FALSE, !.outcome = outcome])
  /\ \/ UNCHANGED tables
     \/ pass[p].tracked /\ finish_run(p)
  /\ UNCHANGED <<app_events, arrived>>

\* Mutant: every run that returns marks its event.
Marks_Always(p) == pass[p].pr \/ pass[p].outcome = "completed_no_pr"

Marks(p) == pass[p].outcome = "pr_opened"

\* An unconditional PATCH by id: whatever the event's status is by now.
mark_event(e) == app_events' = [app_events EXCEPT ![e] = "triaged"]

MarksTriaged(p) ==
  /\ At(p, {"returned"}) /\ Marks(p)
  /\ mark_event(pass[p].event)
  /\ \E reply \in {"done", "broken"} : Exits(p, reply)
  /\ UNCHANGED <<arrived, tables>>

LeavesNew(p) ==
  /\ At(p, {"returned"}) /\ ~Marks(p)
  /\ Exits(p, "done")
  /\ UNCHANGED <<app_events, arrived, tables>>

\* Ctrl-C, a failing fetch or mark, a journal that cannot be written, a kill.
Breaks(p) ==
  /\ ~At(p, {"done", "broken"})
  /\ Exits(p, "broken")
  /\ UNCHANGED <<app_events, arrived, tables>>

Triages(p) ==
  \/ \E event_id \in Reports \cup {NoReport} : PickEvent(p, event_id) \/ FindsNothing(p, event_id)
  \/ StartsRun(p) \/ ReportsStep(p) \/ OpensPr(p) \/ EndsRun(p)
  \/ MarksTriaged(p) \/ LeavesNew(p) \/ Breaks(p)

TriageNext == (\E e \in Reports : create_event(e)) \/ (\E p \in Runs : Triages(p))

TriageOK ==
  /\ app_events \in [Reports -> {"absent", "new", "triaged"}] /\ arrived \in Seq(Reports)
  /\ \A e \in Reports : (e \in ToSet(arrived)) <=> (app_events[e] # "absent")
  /\ pass \in [Runs -> [pc : PassPcs, event : Reports \cup {NoReport}, tracked : BOOLEAN,
                         pr : BOOLEAN, outcome : Outcomes]]
  /\ \A p \in Runs : At(p, {"picked", "running", "opened", "returned"}) =>
       pass[p].event \in ToSet(arrived)

\* An event is triaged only if a PR is open for it; and one with a PR is still offered
\* to later passes only while its pass has yet to mark it, or broke before it could: a
\* second PR needs passes that overlap, or a failure (triage.py:73-77).
EventsAreTrue ==
  \A e \in Reports :
    LET prs == {p \in Runs : pass[p].pr /\ pass[p].event = e} IN
    /\ app_events[e] = "triaged" => prs # {}
    /\ app_events[e] = "new" => \A p \in prs : At(p, {"opened", "returned", "broken"})

=============================================================================
