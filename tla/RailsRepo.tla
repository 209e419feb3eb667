------------------------------- MODULE RailsRepo -------------------------------
(***************************************************************************)
(* Several agent task runs at once on one repository: each has a worktree  *)
(* of its own, and all share the database of the gate, the journal and     *)
(* the refs.  Preflight is what comes before the first of them.            *)
(*                                                                         *)
(* A run is what AgentLoop shows of it here: it is in its block, has its   *)
(* gate run any number of times, records an outcome and leaves.            *)
(***************************************************************************)
EXTENDS Worktrees, SharedDatabase, RunJournal, Preflight

VARIABLES
  task            \* where each run is, and its outcome

vars == <<worktreeVars, databaseVars, journalVars, preflightVars, task>>

Ends == {"returned", "raised", "killed"}
InBlock == {"inside", "gate", "recording", "recorded", "unwinding"}
Succeeded == {"pr_opened", "completed_no_pr"}
\* "gate_failed" stands for every outcome that ends in an exception.
Outcomes == Succeeded \cup {"none", "gate_failed"}

Init ==
  /\ WorktreesInit /\ DatabaseInit /\ JournalInit /\ PreflightInit
  /\ task = [t \in Tasks |-> [pc |-> "start", outcome |-> "none", wrote |-> FALSE]]

At(t, places) == task[t].pc \in places
Goto(t, place) == task' = [task EXCEPT ![t].pc = place]

\* Bound: runs start in the one environment in which nothing stops them, and doctor and
\* triage are looked at before the first run starts.
FitForTasks ==
  /\ report = "none" /\ stopped = "none" /\ env_file = NoFile
  /\ \A key \in REQUIRED_ENV_KEYS : shell[key] = "value"
  /\ machine = [postgres |-> "migrated", engines |-> ENGINES, gh |-> TRUE]

BeforeTheTasks ==
  /\ \A t \in Tasks : At(t, {"start"})
  /\ PreflightStep
  /\ UNCHANGED <<worktreeVars, databaseVars, journalVars, task>>

Enters(t) ==
  /\ At(t, {"start"}) /\ FitForTasks
  /\ \/ \E i \in ShortIds : create(t, i) /\ Goto(t, "inside")
     \/ \E i \in ShortIds : CreateRaises(t, i) /\ Goto(t, "raised")
  /\ UNCHANGED <<databaseVars, journalVars, preflightVars>>

StartsGate(t) ==
  /\ At(t, {"inside"}) /\ Goto(t, "gate")
  /\ \E ok \in BOOLEAN : StartsPytest(t, ok)
  /\ UNCHANGED <<worktreeVars, journalVars, preflightVars>>

\* A pytest process goes on, whether its gate still waits or not.
RunsPytest(t) ==
  /\ PytestStep(t)
  /\ UNCHANGED <<worktreeVars, journalVars, preflightVars, task>>

GateAnswers(t) ==
  /\ At(t, {"gate"}) /\ verdict[t] # "none" /\ Goto(t, "inside")
  /\ UNCHANGED <<worktreeVars, databaseVars, journalVars, preflightVars>>

Concludes(t, outcome) ==
  /\ At(t, {"inside"})
  /\ outcome \in Succeeded => verdict[t] = "green"
  /\ task' = [task EXCEPT ![t].pc = "recording", ![t].outcome = outcome]
  /\ UNCHANGED <<worktreeVars, databaseVars, journalVars, preflightVars>>

\* The gate's time is up, and with it the run's.
CutsOffGate(t) ==
  /\ At(t, {"gate"}) /\ pytest[t] # "none" /\ Abandoned(t)
  /\ task' = [task EXCEPT ![t].pc = "recording", ![t].outcome = "gate_failed"]
  /\ UNCHANGED <<worktreeVars, journalVars, preflightVars>>

Records(t) ==
  /\ At(t, {"recording"})
  /\ \/ record(t) /\ task' = [task EXCEPT ![t].pc = "recorded", ![t].wrote = TRUE]
     \/ RecordRaises /\ Goto(t, "unwinding")
  /\ UNCHANGED <<worktreeVars, databaseVars, preflightVars>>

\* After a PR the checkout goes, and a failure to remove it is only a warning; --no-pr
\* leaves everything in place; any other outcome is raised.
Leaves(t) ==
  /\ At(t, {"recorded"})
  /\ \/ /\ task[t].outcome = "pr_opened" /\ Goto(t, "returned")
        /\ Removes(t, FALSE) \/ CleanupRaises
     \/ task[t].outcome = "completed_no_pr" /\ Goto(t, "returned") /\ UNCHANGED worktreeVars
     \/ task[t].outcome = "gate_failed" /\ Goto(t, "unwinding") /\ UNCHANGED worktreeVars
  /\ UNCHANGED <<databaseVars, journalVars, preflightVars>>

\* The except of worktree_for.
Unwinds(t) ==
  /\ At(t, {"unwinding"}) /\ Goto(t, "raised")
  /\ Removes(t, TRUE) \/ CleanupRaises
  /\ UNCHANGED <<databaseVars, journalVars, preflightVars>>

\* Ctrl-C, or an error nobody catches; the tests may get the signal too.
Interrupted(t) ==
  /\ At(t, InBlock \ {"unwinding"}) /\ Goto(t, "unwinding")
  /\ Abandoned(t)
  /\ UNCHANGED <<worktreeVars, journalVars, preflightVars>>

Killed(t) ==
  /\ At(t, InBlock) /\ Goto(t, "killed")
  /\ Abandoned(t)
  /\ UNCHANGED <<worktreeVars, journalVars, preflightVars>>

Runs(t) ==
  \/ Enters(t) \/ StartsGate(t) \/ RunsPytest(t) \/ GateAnswers(t) \/ CutsOffGate(t)
  \/ (\E outcome \in Outcomes \ {"none"} : Concludes(t, outcome))
  \/ Records(t) \/ Leaves(t) \/ Unwinds(t) \/ Interrupted(t) \/ Killed(t)

AllOver ==
  /\ \/ \A t \in Tasks : At(t, Ends) /\ pytest[t] = "none"
     \/ report # "none" /\ stopped # "none"
  /\ UNCHANGED vars

Next == BeforeTheTasks \/ (\E t \in Tasks : Runs(t)) \/ AllOver

Spec == Init /\ [][Next]_vars

-----------------------------------------------------------------------------

\* Worktrees, tables, journal, preflight and runs hold values of their types, and no
\* checkout is there without the branch of its name.
TypeOK ==
  /\ WorktreesOK /\ DatabaseOK /\ JournalOK /\ PreflightOK
  /\ task \in [Tasks -> [pc : Ends \cup InBlock \cup {"start"}, outcome : Outcomes,
                         wrote : BOOLEAN]]

\* As long as a run is in its block its checkout and its branch are there and its own,
\* whatever other runs with the same name do, fail at or clean up; and a run that came
\* back keeps its branch, with --no-pr its checkout too (worktree_for).
WorkIsKept ==
  \A t \in Tasks :
    /\ At(t, InBlock) => checkouts[wt[t]] = t /\ branches[wt[t]] = t
    /\ At(t, {"returned"}) =>
         /\ branches[wt[t]] = t
         /\ task[t].outcome = "completed_no_pr" => checkouts[wt[t]] = t

\* The lines that hold the row of a run of ours.
Recorded == {i \in DOMAIN lines : Ending(i) # Torn /\ Ending(i).task \in Tasks}

\* However often the disk was full, every run that recorded itself has its row in the
\* journal once, whole, after the rows that were there before: it ends a line, and only
\* parts of rows come before it there.  `rails runs' fails exactly when there is such a part
\* or an outcome that this version does not know, and shows nothing then (journal.py:261,
\* 279); otherwise it shows the runs that recorded themselves (record, load).
JournalReadsBack ==
  /\ \A i \in DOMAIN lines : \A k \in 1..(Len(lines[i]) - 1) : lines[i][k] = Torn
  /\ {Ending(i).task : i \in Recorded} = {t \in Tasks : task[t].wrote}
  /\ \A i, j \in Recorded : Ending(i).task = Ending(j).task => i = j
  /\ \A i \in Recorded, j \in DOMAIN lines : j > i => j \in Recorded \/ Ending(j) = Torn
  /\ LoadRaises <=>
       \E i \in DOMAIN lines : Torn \in ToSet(lines[i]) \/ ~Ending(i).outcome_known
  /\ ~LoadRaises =>
       {load[i] : i \in DOMAIN lines} \ {"earlier"} = {t \in Tasks : task[t].wrote}

=============================================================================
