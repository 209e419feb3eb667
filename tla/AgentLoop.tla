------------------------------ MODULE AgentLoop ------------------------------
(***************************************************************************)
(* One agent task run: rails/agents/loop.py, run_agent_task, inside the    *)
(* worktree of rails/worktree.py, ending in the PR of rails/github.py, the *)
(* journal line of rails/journal.py and the agent_runs row that            *)
(* rails/mission_control.py keeps.                                         *)
(*                                                                         *)
(* The process is sequential, so `pc' says which call comes next.  What    *)
(* the properties tell apart is which CONTENT each call sees: the builder  *)
(* edits the working tree and may or may not commit, the gate runs on the  *)
(* working tree, and the reviewer and the push see only the branch head.   *)
(***************************************************************************)
EXTENDS Naturals, Sequences

CONSTANTS
  Code, BaseCode,     \* contents of everything but test files; main's content
  PyTests, E2ETests,  \* files under tests/ and under web/e2e/
  Modes,              \* the ways run_agent_task is called, with the faults met
  MaxRetries,         \* the max_retries argument
  SessionCap,         \* bound of this model: the session count stops here
  NoTree              \* no tree yet

ASSUME BaseAssumption == BaseCode \in Code
ASSUME RetriesAssumption == MaxRetries \in Nat
ASSUME CapAssumption == SessionCap \in Nat /\ SessionCap > MaxRetries + 7

Tests == PyTests \cup E2ETests

\* A tree is its code and the test files it adds or changes relative to main.
Tree == [code : Code, tests : SUBSET Tests]
Base == [code |-> BaseCode, tests |-> {}]

ASSUME NoTreeAssumption == NoTree \notin Tree

Faults == {"provision", "exception", "kill", "mc", "mc_hang", "journal", "cleanup",
           "lost_reply"}

ASSUME ModesAssumption ==
  Modes \subseteq [enforce_repro : BOOLEAN, open_pr : BOOLEAN, retro : BOOLEAN,
                   faults : SUBSET Faults]

VALID_OUTCOMES == {"pr_opened", "gate_failed", "error", "completed_no_pr",
                   "no_changes", "timeout", "cannot_reproduce"}
Verdicts == {"APPROVE", "REQUEST_CHANGES"}
MAX_PHASE1_REPRO_ATTEMPTS == 2

VARIABLES
  mode,                    \* the arguments of this call and the faults it may meet
  pc,                      \* the next call the run makes
  expired,                 \* time.monotonic() has passed the deadline
  work, head, commits,     \* working tree, branch head, is the branch ahead of main
  gateTree, gateOk,        \* tree and verdict of the last gate
  sessions, retries, attempt,           \* sessions launched; gate retries; phase-1 tries
  redTests, repro_test_files, repro_confirmed,
  reviewed, review_verdict, revised,    \* the tree whose diff was last reviewed
  remote, pr,              \* the branch on origin; is a PR open for it
  outcome, gate_ok,        \* the arguments of the terminal _record call
  tracked, row,            \* run_id is not None; the status of the agent_runs row
  journal,                 \* this run's lines in runs.jsonl
  dir, branch              \* the checkout under .worktrees/; the local branch ref

repoVars == <<work, head, commits>>
gateVars == <<gateTree, gateOk, expired>>
reproVars == <<attempt, redTests, repro_test_files, repro_confirmed>>
reviewVars == <<reviewed, review_verdict, revised>>
prVars == <<remote, pr>>
recordVars == <<outcome, gate_ok>>
logVars == <<tracked, row, journal>>
diskVars == <<dir, branch>>
vars == <<mode, pc, repoVars, gateVars, sessions, retries, reproVars, reviewVars,
          prVars, recordVars, logVars, diskVars>>

-----------------------------------------------------------------------------
(* Where the run can be.                                                    *)

BuilderPcs == {"repro", "build", "retry", "revise"}
ReviewerPcs == {"review", "final_review"}
SessionPcs == BuilderPcs \cup ReviewerPcs
GatePcs == {"repro_gate", "build_gate", "retry_gate", "revise_gate"}
\* The calls that report themselves with _mc_step.
StepPcs == SessionPcs \cup GatePcs \cup {"repro_commit", "settle", "retro", "push", "gh_create"}
\* Mutant: the retry loop, too, passes gate_ok=True.
GreenPcs_Retry == {"retry", "retry_gate", "review", "revise", "revise_gate", "final_review"}

\* Sites that pass gate_ok=True: everything after the first green gate.
GreenPcs == {"review", "revise", "revise_gate", "final_review"}
\* Inside the `with worktree_cm(...)' block.
BlockPcs == SessionPcs \cup GatePcs \cup
            {"start", "repro_commit", "settle", "retro", "push", "gh_create",
             "record", "journal", "cleanup", "hung"}
EndPcs == {"done", "killed"}
Pcs == BlockPcs \cup EndPcs \cup {"create", "unwind"}

Init ==
  /\ mode \in Modes
  /\ pc = "create"
  /\ expired = FALSE
  /\ work = Base /\ head = Base /\ commits = FALSE
  /\ gateTree = NoTree /\ gateOk = FALSE
  /\ sessions = 0 /\ retries = 0 /\ attempt = 1
  /\ redTests = {} /\ repro_test_files = {} /\ repro_confirmed = FALSE
  /\ reviewed = NoTree /\ review_verdict = "none" /\ revised = FALSE
  /\ remote = NoTree /\ pr = FALSE
  /\ outcome = "none" /\ gate_ok = FALSE
  /\ tracked = FALSE /\ row = "absent"
  /\ journal = <<>>
  /\ dir = FALSE /\ branch = FALSE

Goto(l) == pc' = l /\ UNCHANGED recordVars

\* Mutant: a spent budget exits without recording.
Stop_TimeoutUnrecorded(o, ok) ==
  /\ pc' = IF o = "timeout" THEN "unwind" ELSE "record"
  /\ outcome' = o /\ gate_ok' = ok

\* Every terminal path sets the record's arguments and goes to _record.
Stop(o, ok) == pc' = "record" /\ outcome' = o /\ gate_ok' = ok

\* Time passes inside sessions and gates, and between them in git and Mission Control
\* calls; the deadline, set before the worktree is made, may fall in any of them.
Elapse == expired' \in {expired, TRUE}

CountSession == sessions' = IF sessions < SessionCap THEN sessions + 1 ELSE sessions

-----------------------------------------------------------------------------
(* Entering the block: worktree.create, then _mc_start_run.                 *)

Create ==
  /\ pc = "create"
  /\ dir' = TRUE /\ branch' = TRUE
  /\ Goto("start")
  /\ UNCHANGED <<mode, repoVars, gateVars, sessions, retries, reproVars, reviewVars,
                 prVars, logVars>>

\* `git worktree add' fails, or _provision does after it succeeded: create()
\* raises before the try of worktree_for, so nothing cleans up.
CreateFails ==
  /\ pc = "create" /\ "provision" \in mode.faults
  /\ \E added \in BOOLEAN : dir' = added /\ branch' = added
  /\ Goto("done")
  /\ UNCHANGED <<mode, repoVars, gateVars, sessions, retries, reproVars, reviewVars,
                 prVars, logVars>>

\* A failed start_run leaves run_id None; the row may still have been written.
StartRow ==
  /\ pc = "start"
  /\ \/ tracked' = TRUE /\ row' = "running"
     \/ "mc" \in mode.faults /\ tracked' = FALSE /\ row' \in {"absent", "running"}
  /\ Goto(IF mode.enforce_repro THEN "repro" ELSE "build")
  /\ Elapse
  /\ UNCHANGED <<mode, repoVars, gateTree, gateOk, sessions, retries, reproVars, reviewVars,
                 prVars, journal, diskVars>>

-----------------------------------------------------------------------------
(* Sessions and gates.                                                      *)

\* A builder is a coding agent with a shell: it leaves any tree and any head.
Edits ==
  /\ work' \in Tree /\ head' \in Tree /\ commits' \in BOOLEAN
  /\ ~commits' => head' = Base

\* adapter.run returned; session.ok is not looked at.
BuilderSession(from, to) ==
  /\ pc = from /\ ~expired
  /\ Edits /\ Elapse
  /\ CountSession
  /\ Goto(to)
  /\ UNCHANGED <<mode, gateTree, gateOk, retries, reproVars, reviewVars, prVars, logVars,
                 diskVars>>

\* adapter.run raised SessionError; a killed builder has edited what it has.
SessionFails ==
  /\ pc \in SessionPcs /\ ~expired
  /\ IF pc \in BuilderPcs THEN Edits ELSE UNCHANGED repoVars
  /\ Elapse
  /\ CountSession
  /\ Stop("error", pc \in GreenPcs)
  /\ UNCHANGED <<mode, gateTree, gateOk, retries, reproVars, reviewVars, prVars, logVars,
                 diskVars>>

\* Mutant: only sessions check the budget; a gate given no time never returns.
OutOfBudget_SessionsOnly ==
  /\ pc \in SessionPcs /\ expired
  /\ Stop("timeout", pc \in GreenPcs)
  /\ UNCHANGED <<mode, repoVars, gateVars, sessions, retries, reproVars, reviewVars,
                 prVars, logVars, diskVars>>

\* _budget_or_exit, called before every session and gate but the retro.
OutOfBudget ==
  /\ pc \in SessionPcs \cup GatePcs /\ expired
  /\ Stop("timeout", pc \in GreenPcs)
  /\ UNCHANGED <<mode, repoVars, gateVars, sessions, retries, reproVars, reviewVars,
                 prVars, logVars, diskVars>>

\* run_gate sees the working tree, committed or not.
RunGate(ok) == gateOk' = ok /\ gateTree' = work /\ Elapse

Dirty == work # head

\* _auto_commit: git add -A && git commit.
AutoCommit == head' = work /\ commits' = TRUE /\ UNCHANGED work

-----------------------------------------------------------------------------
(* Phase 1 of the enforced reproduce-then-fix protocol.                     *)

TouchesTests == head.tests # {}
ChangedTestFiles == head.tests \cap PyTests

ReproSession == BuilderSession("repro", "repro_commit")

CommitRepro ==
  /\ pc = "repro_commit"
  /\ IF Dirty THEN AutoCommit ELSE UNCHANGED repoVars
  /\ Elapse
  /\ Goto("repro_gate")
  /\ UNCHANGED <<mode, gateTree, gateOk, sessions, retries, reproVars, reviewVars, prVars,
                 logVars, diskVars>>

\* Mutant: any red pytest counts as a reproduction.
Reproduced_RedSuffices(pytestOk) == ~pytestOk

Reproduced(pytestOk) == ~pytestOk /\ TouchesTests

\* The gate's pytest step is read apart from its other steps.
ReproGate(pytestOk, othersOk) ==
  /\ pc = "repro_gate" /\ ~expired
  /\ RunGate(pytestOk /\ othersOk)
  /\ redTests' = IF pytestOk THEN {} ELSE head.tests
  /\ \/ /\ Reproduced(pytestOk)
        /\ repro_test_files' = ChangedTestFiles
        /\ Goto("build")
        /\ UNCHANGED attempt
     \/ /\ ~Reproduced(pytestOk) /\ attempt < MAX_PHASE1_REPRO_ATTEMPTS
        /\ attempt' = attempt + 1
        /\ Goto("repro")
        /\ UNCHANGED repro_test_files
     \/ /\ ~Reproduced(pytestOk) /\ attempt >= MAX_PHASE1_REPRO_ATTEMPTS
        /\ Stop("cannot_reproduce", FALSE)
        /\ UNCHANGED <<attempt, repro_test_files>>
  /\ UNCHANGED <<mode, repoVars, sessions, retries, repro_confirmed, reviewVars, prVars,
                 logVars, diskVars>>

-----------------------------------------------------------------------------
(* Build, gate, bounded retries.                                            *)

BuildSession == BuilderSession("build", "build_gate")
RetrySession == BuilderSession("retry", "retry_gate")

\* Mutant: one retry too many.
MayRetry_OneMore(n) == n <= MaxRetries

MayRetry(n) == n < MaxRetries

\* retries is counted once the retry's gate has run.
BuildGate(ok) ==
  /\ pc \in {"build_gate", "retry_gate"} /\ ~expired
  /\ RunGate(ok)
  /\ retries' = IF pc = "retry_gate" THEN retries + 1 ELSE retries
  /\ \/ ok /\ Goto("settle")
     \/ ~ok /\ MayRetry(retries') /\ Goto("retry")
     \/ ~ok /\ ~MayRetry(retries') /\ Stop("gate_failed", FALSE)
  /\ UNCHANGED <<mode, repoVars, sessions, reproVars, reviewVars, prVars, logVars, diskVars>>

\* Every phase-1 test file is still in the branch's diff.
ReproSurvived == repro_test_files \subseteq ChangedTestFiles

\* Mutants: the rescue forgets enforce_repro; no rescue at all.
NeedsRescue_ZeroCommits == ~commits /\ Dirty
NeedsRescue_Never == FALSE

NeedsRescue == (~commits \/ mode.enforce_repro) /\ Dirty

\* After the green gate: promote the proof, rescue uncommitted work, guard the
\* empty diff, in this order.
Settle ==
  /\ pc = "settle"
  /\ repro_confirmed' = (mode.enforce_repro /\ ReproSurvived)
  /\ IF NeedsRescue THEN AutoCommit ELSE UNCHANGED repoVars
  /\ IF commits' THEN Goto("review") ELSE Stop("no_changes", TRUE)
  /\ Elapse
  /\ UNCHANGED <<mode, gateTree, gateOk, sessions, retries, attempt, redTests, repro_test_files,
                 reviewVars, prVars, logVars, diskVars>>

-----------------------------------------------------------------------------
(* Review, one revision, final review.                                      *)

AfterReview ==
  IF ~mode.open_pr THEN Stop("completed_no_pr", TRUE)
  ELSE Goto(IF mode.retro THEN "retro" ELSE "push")

\* Mutant: every rejection is sent back.
SendsBack_Always(v) == v # "APPROVE"

SendsBack(v) == pc = "review" /\ v # "APPROVE"

\* The reviewer is read-only and is shown _diff: the branch head, not the tree.
ReviewSession(v) ==
  /\ pc \in ReviewerPcs /\ ~expired
  /\ Elapse
  /\ CountSession
  /\ reviewed' = head /\ review_verdict' = v
  /\ IF SendsBack(v)
       THEN revised' = TRUE /\ Goto("revise")
       ELSE UNCHANGED revised /\ AfterReview
  /\ UNCHANGED <<mode, repoVars, gateTree, gateOk, retries, reproVars, prVars, logVars,
                 diskVars>>

ReviseSession == BuilderSession("revise", "revise_gate")

\* Mutants: a red revision goes on; the revised diff is not reviewed again.
AfterReviseGate_RedGoesOn(ok) == Goto("final_review")
AfterReviseGate_NoFinalReview(ok) == IF ok THEN AfterReview ELSE Stop("gate_failed", FALSE)

AfterReviseGate(ok) == IF ok THEN Goto("final_review") ELSE Stop("gate_failed", FALSE)

ReviseGate(ok) ==
  /\ pc = "revise_gate" /\ ~expired
  /\ RunGate(ok)
  /\ AfterReviseGate(ok)
  /\ UNCHANGED <<mode, repoVars, sessions, retries, reproVars, reviewVars, prVars, logVars,
                 diskVars>>

-----------------------------------------------------------------------------
(* Retro, pull request.                                                     *)

\* The retro never stops the run: a spent budget skips it, an error is swallowed.
RetroSession ==
  /\ pc = "retro"
  /\ \/ expired /\ UNCHANGED <<sessions, expired>>
     \/ ~expired /\ CountSession /\ Elapse
  /\ Goto("push")
  /\ UNCHANGED <<mode, repoVars, gateTree, gateOk, retries, reproVars, reviewVars, prVars,
                 logVars, diskVars>>

Push ==
  /\ pc = "push" /\ commits
  /\ remote' = head
  /\ Goto("gh_create")
  /\ UNCHANGED <<mode, repoVars, gateVars, sessions, retries, reproVars, reviewVars, pr,
                 logVars, diskVars>>

\* No commits ahead of main, or rev-list or push failed; the push may have landed.
PushFails ==
  /\ pc = "push"
  /\ \/ UNCHANGED remote
     \/ "lost_reply" \in mode.faults /\ commits /\ remote' = head
  /\ Stop("error", TRUE)
  /\ UNCHANGED <<mode, repoVars, gateVars, sessions, retries, reproVars, reviewVars, pr,
                 logVars, diskVars>>

GhCreate ==
  /\ pc = "gh_create"
  /\ pr' = TRUE
  /\ Stop("pr_opened", TRUE)
  /\ UNCHANGED <<mode, repoVars, gateVars, sessions, retries, reproVars, reviewVars, remote,
                 logVars, diskVars>>

GhCreateFails ==
  /\ pc = "gh_create"
  /\ pr' \in BOOLEAN /\ (pr' => "lost_reply" \in mode.faults)
  /\ Stop("error", TRUE)
  /\ UNCHANGED <<mode, repoVars, gateVars, sessions, retries, reproVars, reviewVars, remote,
                 logVars, diskVars>>

-----------------------------------------------------------------------------
(* _record, then leaving the block.                                         *)

\* _mc_finish comes first and swallows every failure.
FinishRow ==
  /\ pc = "record"
  /\ \/ row' = IF tracked THEN outcome ELSE row
     \/ "mc" \in mode.faults /\ UNCHANGED row
  /\ Goto("journal")
  /\ UNCHANGED <<mode, repoVars, gateVars, sessions, retries, reproVars, reviewVars, prVars,
                 tracked, journal, diskVars>>

\* Mutants: a timed-out run returns instead of raising; an error is recorded again.
AfterRecord_TimeoutReturns ==
  IF outcome \in {"completed_no_pr", "timeout"} THEN "done"
  ELSE IF outcome = "pr_opened" THEN "cleanup" ELSE "unwind"
AfterRecord_ErrorTwice ==
  CASE outcome = "pr_opened" -> "cleanup"
    [] outcome = "completed_no_pr" -> "done"
    [] outcome = "error" -> "journal"
    [] OTHER -> "unwind"

AfterRecord ==
  CASE outcome = "pr_opened" -> "cleanup"
    [] outcome = "completed_no_pr" -> "done"
    [] OTHER -> "unwind"

RunRecord ==
  [outcome |-> outcome, gate_ok |-> gate_ok, retries |-> retries, pr_url |-> outcome = "pr_opened",
   review_verdict |-> review_verdict, repro_confirmed |-> repro_confirmed]

JournalLine ==
  [outcome : VALID_OUTCOMES, gate_ok : BOOLEAN, retries : 0..MaxRetries, pr_url : BOOLEAN,
   review_verdict : Verdicts \cup {"none"}, repro_confirmed : BOOLEAN]

WriteJournal ==
  /\ pc = "journal"
  /\ journal' = Append(journal, RunRecord)
  /\ Goto(AfterRecord)
  /\ UNCHANGED <<mode, repoVars, gateVars, sessions, retries, reproVars, reviewVars, prVars,
                 tracked, row, diskVars>>

\* runs.jsonl cannot be written: the OSError leaves run_agent_task.
JournalFails ==
  /\ pc = "journal" /\ "journal" \in mode.faults
  /\ Goto("unwind")
  /\ UNCHANGED <<mode, repoVars, gateVars, sessions, retries, reproVars, reviewVars, prVars,
                 logVars, diskVars>>

\* After the PR: `git worktree remove' without --force refuses a dirty tree, and
\* the failure is only a warning.
CleanupAfterPr ==
  /\ pc = "cleanup"
  /\ dir' \in {Dirty, Dirty \/ "cleanup" \in mode.faults}
  /\ Goto("done")
  /\ UNCHANGED <<mode, repoVars, gateVars, sessions, retries, reproVars, reviewVars, prVars,
                 logVars, branch>>

\* worktree_for's except: forced removal, then branch -D, skipped if removal raised.
Unwind ==
  /\ pc = "unwind"
  /\ \/ dir' = FALSE /\ branch' = FALSE
     \/ "cleanup" \in mode.faults /\ UNCHANGED diskVars
  /\ Goto("done")
  /\ UNCHANGED <<mode, repoVars, gateVars, sessions, retries, reproVars, reviewVars, prVars,
                 logVars>>

\* Ctrl-C, or an exception nothing catches (a failing git command, a transcript that
\* cannot be opened), anywhere in the block: no record, straight to the except of
\* worktree_for.
Interrupt ==
  /\ pc \in BlockPcs /\ "exception" \in mode.faults
  /\ Goto("unwind")
  /\ UNCHANGED <<mode, repoVars, gateVars, sessions, retries, reproVars, reviewVars, prVars,
                 logVars, diskVars>>

\* Mission Control takes a request and never answers: urlopen is given no timeout.
MissionControlHangs ==
  /\ "mc_hang" \in mode.faults
  /\ \/ pc = "start" /\ row' \in {"absent", "running"}
     \/ pc = "record" /\ tracked /\ row' \in {row, outcome}
     \/ pc \in StepPcs /\ tracked /\ UNCHANGED row
  /\ Goto("hung")
  /\ UNCHANGED <<mode, repoVars, gateVars, sessions, retries, reproVars, reviewVars, prVars,
                 tracked, journal, diskVars>>

\* The process dies.
Kill ==
  /\ pc \notin EndPcs /\ "kill" \in mode.faults
  /\ Goto("killed")
  /\ UNCHANGED <<mode, repoVars, gateVars, sessions, retries, reproVars, reviewVars, prVars,
                 logVars, diskVars>>

-----------------------------------------------------------------------------

Step ==
  \/ Create \/ CreateFails \/ StartRow
  \/ ReproSession \/ CommitRepro
  \/ \E pytestOk, othersOk \in BOOLEAN : ReproGate(pytestOk, othersOk)
  \/ BuildSession \/ RetrySession
  \/ \E ok \in BOOLEAN : BuildGate(ok) \/ ReviseGate(ok)
  \/ Settle
  \/ \E v \in Verdicts : ReviewSession(v)
  \/ ReviseSession \/ RetroSession
  \/ SessionFails \/ OutOfBudget
  \/ Push \/ PushFails \/ GhCreate \/ GhCreateFails
  \/ FinishRow \/ WriteJournal \/ JournalFails
  \/ CleanupAfterPr \/ Unwind

Ended == pc \in EndPcs \cup {"hung"} /\ UNCHANGED vars

Next == Step \/ Interrupt \/ MissionControlHangs \/ Kill \/ Ended

\* A call the process makes returns, unless it is one to Mission Control in a run that
\* may meet mc_hang: sessions and gates run under a timeout; that git and gh answer is
\* assumed.
Spec == Init /\ [][Next]_vars /\ WF_vars(Step)

-----------------------------------------------------------------------------
(* Properties.                                                              *)

FlagsOK ==
  /\ expired \in BOOLEAN /\ commits \in BOOLEAN /\ gateOk \in BOOLEAN
  /\ repro_confirmed \in BOOLEAN /\ revised \in BOOLEAN /\ pr \in BOOLEAN
  /\ gate_ok \in BOOLEAN /\ tracked \in BOOLEAN /\ dir \in BOOLEAN /\ branch \in BOOLEAN

CountsOK ==
  /\ sessions \in 0..SessionCap
  /\ retries \in 0..MaxRetries
  /\ attempt \in 1..MAX_PHASE1_REPRO_ATTEMPTS

TreesOK ==
  /\ work \in Tree /\ head \in Tree
  /\ gateTree \in Tree \cup {NoTree}
  /\ reviewed \in Tree \cup {NoTree}
  /\ remote \in Tree \cup {NoTree}
  /\ redTests \in SUBSET Tests /\ repro_test_files \in SUBSET PyTests

RecordsOK ==
  /\ mode \in Modes /\ pc \in Pcs
  /\ review_verdict \in Verdicts \cup {"none"}
  /\ outcome \in VALID_OUTCOMES \cup {"none"}
  /\ row \in VALID_OUTCOMES \cup {"absent", "running"}
  /\ journal \in Seq(JournalLine)

\* Every variable holds a value of its type: the locals of run_agent_task, the
\* branch and its trees, what is recorded of the run.  Retries stay within
\* max_retries.
TypeOK == FlagsOK /\ CountsOK /\ TreesOK /\ RecordsOK

\* What is pushed is exactly what the last review saw, and a verdict other than
\* APPROVE is published only after the one revision.
PushedIsReviewed ==
  remote # NoTree => /\ reviewed = remote
                     /\ review_verdict = "APPROVE" \/ revised

\* A branch is pushed only when the last gate was green and nobody has touched the
\* working tree since ("PR opens ONLY on a green final gate"): no order of retries,
\* revision, budget and failures leaves a builder session after it.  And what is pushed
\* is the tree the gate was green on, unless a session left uncommitted work that the
\* loop did not commit: never on a clean tree, and never in an enforce_repro run that
\* was not revised.
PushedIsGated ==
  remote # NoTree =>
    /\ gateOk /\ gateTree = work
    /\ work = head \/ (mode.enforce_repro /\ ~revised) => remote = gateTree

\* Under enforce_repro nothing is fixed, reviewed or shipped before a phase-1 gate
\* had pytest red on a branch that carries test files, and the files whose survival
\* is checked later were on that branch.
ReproBeforeFix ==
  /\ mode.enforce_repro
  /\ remote # NoTree \/ outcome \in {"pr_opened", "completed_no_pr", "no_changes", "gate_failed"}
  => redTests # {} /\ repro_test_files \subseteq redTests

\* The journal line tells the truth about the run it ends: a PR it names is open
\* on the pushed branch, gate_ok follows the last gate, gate_failed means red,
\* no_changes means that really nothing was changed (the rescue leaves no green work
\* behind, the Task 9 dogfood failure), and an agent_runs row that was finished has the
\* same outcome.
JournalIsTrue ==
  \A i \in DOMAIN journal :
    LET r == journal[i] IN
    /\ r.outcome = "pr_opened" => pr /\ r.pr_url /\ r.review_verdict = review_verdict
    /\ r.gate_ok => gateOk
    /\ r.outcome = "gate_failed" => ~gateOk
    /\ r.outcome = "no_changes" => work = Base /\ gateOk
    /\ row \in VALID_OUTCOMES => row = r.outcome
    /\ pr /\ "lost_reply" \notin mode.faults => r.outcome = "pr_opened"

\* A run writes at most one journal line, and one that ends has written it, unless the
\* worktree could not be made, the journal not be written, or something nobody catches
\* ended the run.  Nor does its agent_runs row stay `running', if besides that the
\* process lived and Mission Control answered.
EveryRunJournaled ==
  /\ Len(journal) <= 1
  /\ pc = "done" /\ mode.faults \cap {"provision", "exception", "journal"} = {} =>
       Len(journal) = 1
  /\ pc = "done" /\ mode.faults \cap {"provision", "exception", "mc"} = {} =>
       row \in VALID_OUTCOMES

\* A failed run leaves neither checkout nor branch; a PR run keeps its branch, and
\* its checkout only while that holds uncommitted work; only --no-pr keeps both.
NoDebris ==
  /\ pc = "done" /\ mode.faults \cap {"provision", "cleanup"} = {}
  => /\ branch => outcome \in {"pr_opened", "completed_no_pr"}
     /\ dir => outcome = "completed_no_pr" \/ (outcome = "pr_opened" /\ work # head)
     /\ outcome = "pr_opened" /\ mode.faults \cap {"exception", "journal"} = {} => branch

\* At most 2 reproduction sessions, one build and MaxRetries retries, one review, one
\* revision with its final review, and one retro: no path launches more.
SessionsBounded ==
  sessions <= MaxRetries + (IF mode.enforce_repro THEN 2 ELSE 0)
              + (IF mode.open_pr /\ mode.retro THEN 5 ELSE 4)

\* The run always ends, if Mission Control answers or refuses: no cycle of retries,
\* reproductions and revisions goes on for ever, and a spent budget ends it.
Terminates == "mc_hang" \notin mode.faults => <>(pc \in EndPcs)

stage ==
  CASE pc \in {"settle", "review", "final_review"} -> "green"
    [] pc \in {"retro", "push"} -> "judged"
    [] pc = "gh_create" -> "published"
    [] pc \in {"record", "journal", "cleanup", "unwind", "hung"} \cup EndPcs -> "ended"
    [] OTHER -> "unproven"

Contract == INSTANCE RunContract WITH
  stage <- stage, verdict <- review_verdict, reworked <- revised,
  published <- remote # NoTree, report <- outcome

\* Every behaviour of the loop is a behaviour of RunContract.
ImplementsContract == Contract!Spec

-----------------------------------------------------------------------------
(* What the comments of the code claim and its runs do not keep.            *)

\* loop.py:1073-1081: the final review is "against the REVISED diff", so that the verdict
\* "reflects what the reviewer actually thinks of the FIXED code": the tree it judged
\* is the one that the revision's gate found green.
FinalReviewSeesTheRevision == pr /\ revised => reviewed = gateTree

\* loop.py:985: the proof is promoted only if every phase-1 test survives in the
\* phase-2 diff; so, with no revision after it, the pushed branch carries them.
ConfirmedTestsAreShipped ==
  repro_confirmed /\ ~revised /\ remote # NoTree => repro_test_files \subseteq remote.tests

=============================================================================
