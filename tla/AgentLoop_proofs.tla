--------------------------- MODULE AgentLoop_proofs ---------------------------
(***************************************************************************)
(* Theorems about AgentLoop, for every value of its constants.             *)
(***************************************************************************)
EXTENDS AgentLoop, TLAPS

USE BaseAssumption, RetriesAssumption, CapAssumption
USE DEF BaseAssumption, RetriesAssumption, CapAssumption, MAX_PHASE1_REPRO_ATTEMPTS

LEMMA BaseIsTree == Base \in Tree
  BY DEF Base, Tree

-----------------------------------------------------------------------------
(* Type correctness.  TypeOK is not inductive: a retry gate counts up, so a *)
(* retry must start below max_retries; and what _record stores must be one  *)
(* of the outcomes.                                                         *)

RetryRoom == pc \in {"retry", "retry_gate"} => retries < MaxRetries

RecordPcs == {"record", "journal", "cleanup"}
OutcomeKnown == pc \in RecordPcs => outcome \in VALID_OUTCOMES

TypeInv == TypeOK /\ RetryRoom /\ OutcomeKnown

LEMMA TypeInit == Init => TypeInv
  <1> SUFFICES ASSUME Init PROVE TypeInv
    OBVIOUS
  <1>1. FlagsOK
    BY DEF Init, FlagsOK
  <1>2. CountsOK
    BY DEF Init, CountsOK
  <1>3. TreesOK
    BY BaseIsTree DEF Init, TreesOK
  <1>4. RecordsOK
    BY DEF Init, RecordsOK, Pcs
  <1>5. RetryRoom /\ OutcomeKnown
    BY DEF Init, RetryRoom, OutcomeKnown, RecordPcs
  <1> QED
    BY <1>1, <1>2, <1>3, <1>4, <1>5 DEF TypeInv, TypeOK

LEMMA FlagsStep == FlagsOK /\ [Next]_vars => FlagsOK'
  <1> SUFFICES ASSUME FlagsOK, [Next]_vars PROVE FlagsOK'
    OBVIOUS
  <1> USE DEF Goto, Stop, recordVars, repoVars, gateVars, reproVars, reviewVars, prVars,
              logVars, diskVars, FlagsOK
  <1>1. CASE Create
    BY <1>1 DEF Create
  <1>2. CASE CreateFails
    BY <1>2 DEF CreateFails
  <1>3. CASE StartRow
    BY <1>3 DEF StartRow, Elapse
  <1>4. ASSUME NEW from, NEW to, BuilderSession(from, to)
        PROVE  FlagsOK'
    BY <1>4 DEF BuilderSession, Edits, Elapse
  <1>5. CASE CommitRepro
    BY <1>5 DEF CommitRepro, AutoCommit, Elapse
  <1>6. ASSUME NEW a \in BOOLEAN, NEW b \in BOOLEAN, ReproGate(a, b)
        PROVE  FlagsOK'
    <2>1. gateOk' \in BOOLEAN /\ expired' \in BOOLEAN
      BY <1>6 DEF ReproGate, RunGate, Elapse
    <2>2. UNCHANGED <<commits, repro_confirmed, revised, pr, tracked, dir, branch>>
      BY <1>6 DEF ReproGate
    <2>3. gate_ok' \in BOOLEAN
      BY <1>6 DEF ReproGate
    <2> QED
      BY <2>1, <2>2, <2>3
  <1>7. ASSUME NEW ok \in BOOLEAN, BuildGate(ok)
        PROVE  FlagsOK'
    BY <1>7 DEF BuildGate, RunGate, Elapse
  <1>8. ASSUME NEW ok \in BOOLEAN, ReviseGate(ok)
        PROVE  FlagsOK'
    BY <1>8 DEF ReviseGate, AfterReviseGate, RunGate, Elapse
  <1>9. CASE Settle
    <2>1. commits' \in BOOLEAN
      BY <1>9 DEF Settle, AutoCommit
    <2>2. repro_confirmed' \in BOOLEAN /\ gate_ok' \in BOOLEAN /\ expired' \in BOOLEAN
      BY <1>9 DEF Settle, Elapse
    <2> QED
      BY <1>9, <2>1, <2>2 DEF Settle
  <1>10. ASSUME NEW v, ReviewSession(v)
         PROVE  FlagsOK'
    BY <1>10 DEF ReviewSession, AfterReview, Elapse
  <1>11. CASE RetroSession
    BY <1>11 DEF RetroSession, Elapse
  <1>12. CASE SessionFails
    <2>1. commits' \in BOOLEAN /\ expired' \in BOOLEAN
      BY <1>12 DEF SessionFails, Edits, Elapse
    <2>2. gate_ok' \in BOOLEAN
      BY <1>12 DEF SessionFails
    <2>3. UNCHANGED <<gateOk, repro_confirmed, revised, pr, tracked, dir, branch>>
      BY <1>12 DEF SessionFails
    <2> QED
      BY <2>1, <2>2, <2>3
  <1>13. CASE OutOfBudget
    BY <1>13 DEF OutOfBudget
  <1>14. CASE Push
    BY <1>14 DEF Push
  <1>15. CASE PushFails
    BY <1>15 DEF PushFails
  <1>16. CASE GhCreate
    BY <1>16 DEF GhCreate
  <1>17. CASE GhCreateFails
    <2>1. pr' \in BOOLEAN
      BY <1>17 DEF GhCreateFails
    <2>2. UNCHANGED <<expired, commits, gateOk, repro_confirmed, revised, tracked, dir, branch>>
      BY <1>17 DEF GhCreateFails
    <2>3. gate_ok' \in BOOLEAN
      BY <1>17 DEF GhCreateFails
    <2> QED
      BY <2>1, <2>2, <2>3
  <1>18. CASE FinishRow \/ WriteJournal \/ JournalFails \/ Interrupt \/ MissionControlHangs \/ Kill
    BY <1>18 DEF FinishRow, WriteJournal, JournalFails, Interrupt, MissionControlHangs, Kill
  <1>19. CASE CleanupAfterPr
    BY <1>19 DEF CleanupAfterPr, Dirty
  <1>20. CASE Unwind
    BY <1>20 DEF Unwind
  <1>21. CASE Ended \/ UNCHANGED vars
    BY <1>21 DEF Ended, vars
  <1> QED
    BY <1>1, <1>2, <1>3, <1>4, <1>5, <1>6, <1>7, <1>8, <1>9, <1>10, <1>11, <1>12, <1>13, <1>14,
       <1>15, <1>16, <1>17, <1>18, <1>19, <1>20, <1>21
    DEF Next, Step, ReproSession, BuildSession, RetrySession, ReviseSession

LEMMA CountsStep == TypeInv /\ [Next]_vars => CountsOK' /\ RetryRoom'
  <1> SUFFICES ASSUME CountsOK, RetryRoom, [Next]_vars PROVE CountsOK' /\ RetryRoom'
    BY DEF TypeInv, TypeOK
  <1> USE DEF Goto, Stop, recordVars, reproVars, CountsOK, RetryRoom
  <1>1. ASSUME NEW from, NEW to, BuilderSession(from, to), to = "retry_gate" => from = "retry",
               to # "retry"
        PROVE  CountsOK' /\ RetryRoom'
    BY <1>1 DEF BuilderSession, CountSession
  <1>2. ASSUME NEW a, NEW b, ReproGate(a, b)
        PROVE  CountsOK' /\ RetryRoom'
    BY <1>2 DEF ReproGate
  <1>3. ASSUME NEW ok, BuildGate(ok)
        PROVE  CountsOK' /\ RetryRoom'
    BY <1>3 DEF BuildGate, MayRetry
  <1>4. ASSUME NEW ok, ReviseGate(ok)
        PROVE  CountsOK' /\ RetryRoom'
    BY <1>4 DEF ReviseGate, AfterReviseGate
  <1>5. ASSUME NEW v, ReviewSession(v)
        PROVE  CountsOK' /\ RetryRoom'
    BY <1>5 DEF ReviewSession, AfterReview, CountSession
  <1>6. CASE RetroSession \/ SessionFails
    BY <1>6 DEF RetroSession, SessionFails, CountSession
  <1>7. CASE Create \/ CreateFails \/ StartRow \/ CommitRepro \/ Settle \/ OutOfBudget
    BY <1>7 DEF Create, CreateFails, StartRow, CommitRepro, Settle, OutOfBudget
  <1>8. CASE Push \/ PushFails \/ GhCreate \/ GhCreateFails \/ FinishRow \/ WriteJournal
    BY <1>8 DEF Push, PushFails, GhCreate, GhCreateFails, FinishRow, WriteJournal, AfterRecord
  <1>9. CASE JournalFails \/ CleanupAfterPr \/ Unwind \/ Interrupt \/ MissionControlHangs \/ Kill
    BY <1>9 DEF JournalFails, CleanupAfterPr, Unwind, Interrupt, MissionControlHangs, Kill
  <1>10. CASE Ended \/ UNCHANGED vars
    BY <1>10 DEF Ended, vars
  <1> QED
    BY <1>1, <1>2, <1>3, <1>4, <1>5, <1>6, <1>7, <1>8, <1>9, <1>10
    DEF Next, Step, ReproSession, BuildSession, RetrySession, ReviseSession

LEMMA TreesStep == TreesOK /\ [Next]_vars => TreesOK'
  <1> SUFFICES ASSUME TreesOK, [Next]_vars PROVE TreesOK'
    OBVIOUS
  <1> USE DEF repoVars, gateVars, reproVars, reviewVars, prVars, TreesOK
  <1>1. ASSUME NEW from, NEW to, BuilderSession(from, to)
        PROVE  TreesOK'
    BY <1>1 DEF BuilderSession, Edits
  <1>2. CASE SessionFails
    BY <1>2 DEF SessionFails, Edits
  <1>3. CASE CommitRepro \/ Settle
    BY <1>3 DEF CommitRepro, Settle, AutoCommit
  <1>4. ASSUME NEW a, NEW b, ReproGate(a, b)
        PROVE  TreesOK'
    <2>1. head.tests \in SUBSET Tests
      BY DEF Tree
    <2> QED
      BY <1>4, <2>1 DEF ReproGate, RunGate, ChangedTestFiles
  <1>5. ASSUME NEW ok, BuildGate(ok) \/ ReviseGate(ok)
        PROVE  TreesOK'
    BY <1>5 DEF BuildGate, ReviseGate, RunGate
  <1>6. ASSUME NEW v, ReviewSession(v)
        PROVE  TreesOK'
    BY <1>6 DEF ReviewSession
  <1>7. CASE Push \/ PushFails
    BY <1>7 DEF Push, PushFails
  <1>8. CASE Create \/ CreateFails \/ StartRow \/ RetroSession \/ OutOfBudget
    BY <1>8 DEF Create, CreateFails, StartRow, RetroSession, OutOfBudget
  <1>9. CASE GhCreate \/ GhCreateFails \/ FinishRow \/ WriteJournal \/ JournalFails
    BY <1>9 DEF GhCreate, GhCreateFails, FinishRow, WriteJournal, JournalFails
  <1>10. CASE CleanupAfterPr \/ Unwind \/ Interrupt \/ MissionControlHangs \/ Kill \/ Ended \/ UNCHANGED vars
    BY <1>10 DEF CleanupAfterPr, Unwind, Interrupt, MissionControlHangs, Kill, Ended, vars
  <1> QED
    BY <1>1, <1>2, <1>3, <1>4, <1>5, <1>6, <1>7, <1>8, <1>9, <1>10
    DEF Next, Step, ReproSession, BuildSession, RetrySession, ReviseSession

LEMMA RecordsStep == TypeInv /\ [Next]_vars => RecordsOK' /\ OutcomeKnown'
  <1> SUFFICES ASSUME RecordsOK, OutcomeKnown, TypeInv, [Next]_vars
               PROVE  RecordsOK' /\ OutcomeKnown'
    BY DEF TypeInv, TypeOK
  <1> USE DEF Goto, Stop, recordVars, reviewVars, logVars, RecordsOK, OutcomeKnown, RecordPcs,
              Pcs, BlockPcs, EndPcs, SessionPcs, BuilderPcs, ReviewerPcs, GatePcs, VALID_OUTCOMES
  <1>1. ASSUME NEW from, NEW to \in Pcs \ RecordPcs, BuilderSession(from, to)
        PROVE  RecordsOK' /\ OutcomeKnown'
    BY <1>1 DEF BuilderSession
  <1>2. ASSUME NEW a, NEW b, ReproGate(a, b)
        PROVE  RecordsOK' /\ OutcomeKnown'
    BY <1>2 DEF ReproGate
  <1>3. ASSUME NEW ok, BuildGate(ok)
        PROVE  RecordsOK' /\ OutcomeKnown'
    BY <1>3 DEF BuildGate
  <1>4. ASSUME NEW ok, ReviseGate(ok)
        PROVE  RecordsOK' /\ OutcomeKnown'
    BY <1>4 DEF ReviseGate, AfterReviseGate
  <1>5. ASSUME NEW v \in Verdicts, ReviewSession(v)
        PROVE  RecordsOK' /\ OutcomeKnown'
    BY <1>5 DEF ReviewSession, AfterReview
  <1>6. CASE Create \/ CreateFails \/ StartRow \/ CommitRepro
    BY <1>6 DEF Create, CreateFails, StartRow, CommitRepro
  <1>7. CASE Settle \/ RetroSession \/ SessionFails \/ OutOfBudget
    BY <1>7 DEF Settle, RetroSession, SessionFails, OutOfBudget
  <1>8. CASE Push \/ PushFails \/ GhCreate \/ GhCreateFails
    BY <1>8 DEF Push, PushFails, GhCreate, GhCreateFails
  <1>9. CASE FinishRow
    BY <1>9 DEF FinishRow
  <1>10. CASE WriteJournal
    <2>1. retries \in 0..MaxRetries /\ gate_ok \in BOOLEAN /\ repro_confirmed \in BOOLEAN
      BY DEF TypeInv, TypeOK, CountsOK, FlagsOK
    <2>2. outcome \in VALID_OUTCOMES /\ (outcome = "pr_opened") \in BOOLEAN
      BY <1>10 DEF WriteJournal
    <2>3. RunRecord \in JournalLine
      BY <2>1, <2>2 DEF RunRecord, JournalLine
    <2>4. journal' \in Seq(JournalLine)
      BY <1>10, <2>3 DEF WriteJournal
    <2> QED
      BY <1>10, <2>4 DEF WriteJournal, AfterRecord
  <1>11. CASE JournalFails \/ CleanupAfterPr \/ Unwind \/ Interrupt \/ MissionControlHangs \/ Kill
    BY <1>11 DEF JournalFails, CleanupAfterPr, Unwind, Interrupt, MissionControlHangs, Kill
  <1>12. CASE Ended \/ UNCHANGED vars
    BY <1>12 DEF Ended, vars
  <1> QED
    BY <1>1, <1>2, <1>3, <1>4, <1>5, <1>6, <1>7, <1>8, <1>9, <1>10, <1>11, <1>12
    DEF Next, Step, ReproSession, BuildSession, RetrySession, ReviseSession

LEMMA TypeInvariant == Spec => []TypeInv
  <1>1. TypeInv /\ [Next]_vars => TypeInv'
    BY FlagsStep, CountsStep, TreesStep, RecordsStep DEF TypeInv, TypeOK
  <1> QED
    BY <1>1, TypeInit, PTL DEF Spec

\* The run's variables always hold values of their types; in particular no path
\* retries more than max_retries times.
THEOREM TypeCorrect == Spec => []TypeOK
  <1>1. TypeInv => TypeOK
    BY DEF TypeInv
  <1> QED
    BY <1>1, TypeInvariant, PTL

-----------------------------------------------------------------------------
(* What is pushed.  From the first green gate on, the working tree is the   *)
(* one that gate ran on, except between a revision session and its gate; a  *)
(* judged head is the one reviewed; and the push freezes all of it, since   *)
(* nothing after it touches the trees.                                      *)

GreenInv ==
  pc \in {"settle", "review", "revise", "final_review", "retro", "push", "gh_create"}
    => gateOk /\ gateTree = work

RevisedInv == pc \in {"revise", "revise_gate", "final_review"} => revised

VerdictStands == review_verdict = "APPROVE" \/ revised

JudgedInv == pc \in {"retro", "push", "gh_create"} => reviewed = head /\ VerdictStands

Rescued == mode.enforce_repro /\ ~revised => work = head
RescuedInv == pc \in {"review", "retro", "push", "gh_create"} => Rescued

AfterPush == {"gh_create", "record", "journal", "cleanup", "unwind", "done", "killed",
              "hung"}
PushedInv ==
  remote # NoTree =>
    /\ pc \in AfterPush
    /\ gateOk /\ gateTree = work
    /\ remote = head /\ reviewed = head
    /\ VerdictStands /\ Rescued

PushInv == GreenInv /\ RevisedInv /\ JudgedInv /\ RescuedInv /\ PushedInv

LEMMA PushStep == TreesOK /\ PushInv /\ [Next]_vars => PushInv'
  <1> SUFFICES ASSUME TreesOK, PushInv, [Next]_vars PROVE PushInv'
    OBVIOUS
  <1> USE DEF Goto, Stop, repoVars, gateVars, reviewVars, prVars, PushInv, GreenInv, RevisedInv,
              VerdictStands, JudgedInv, Rescued, RescuedInv, AfterPush, PushedInv
  <1>1. ASSUME NEW from \in {"repro", "build", "retry", "revise"},
               NEW to \in {"repro_commit", "build_gate", "retry_gate", "revise_gate"},
               to = "revise_gate" => from = "revise", BuilderSession(from, to)
        PROVE  PushInv'
    BY <1>1 DEF BuilderSession
  <1>2. ASSUME NEW a, NEW b, ReproGate(a, b)
        PROVE  PushInv'
    BY <1>2 DEF ReproGate
  <1>3. ASSUME NEW ok \in BOOLEAN, BuildGate(ok)
        PROVE  PushInv'
    BY <1>3 DEF BuildGate, RunGate
  <1>4. ASSUME NEW ok \in BOOLEAN, ReviseGate(ok)
        PROVE  PushInv'
    BY <1>4 DEF ReviseGate, AfterReviseGate, RunGate
  <1>5. CASE Settle
    <2>1. UNCHANGED <<work, mode, gateOk, gateTree, revised, reviewed, review_verdict, remote>>
      BY <1>5 DEF Settle, AutoCommit
    <2>2. mode.enforce_repro => work' = head'
      BY <1>5 DEF Settle, AutoCommit, NeedsRescue, Dirty
    <2>3. pc = "settle" /\ pc' \in {"review", "record"}
      BY <1>5 DEF Settle
    <2> QED
      BY <2>1, <2>2, <2>3
  <1>6. ASSUME NEW v, ReviewSession(v)
        PROVE  PushInv'
    BY <1>6 DEF ReviewSession, SendsBack, AfterReview, ReviewerPcs
  <1>7. CASE SessionFails
    BY <1>7 DEF SessionFails, SessionPcs, BuilderPcs, ReviewerPcs
  <1>8. CASE Create \/ CreateFails \/ StartRow \/ CommitRepro
    BY <1>8 DEF Create, CreateFails, StartRow, CommitRepro
  <1>9. CASE RetroSession \/ OutOfBudget
    BY <1>9 DEF RetroSession, OutOfBudget, SessionPcs, BuilderPcs, ReviewerPcs, GatePcs
  <1>10. CASE Push \/ PushFails
    BY <1>10 DEF Push, PushFails, TreesOK
  <1>11. CASE GhCreate \/ GhCreateFails
    BY <1>11 DEF GhCreate, GhCreateFails
  <1>12. CASE FinishRow \/ WriteJournal \/ JournalFails
    BY <1>12 DEF FinishRow, WriteJournal, JournalFails, AfterRecord
  <1>13. CASE CleanupAfterPr \/ Unwind \/ Interrupt \/ MissionControlHangs \/ Kill
    BY <1>13 DEF CleanupAfterPr, Unwind, Interrupt, MissionControlHangs, Kill
  <1>14. CASE Ended \/ UNCHANGED vars
    BY <1>14 DEF Ended, vars
  <1> QED
    BY <1>1, <1>2, <1>3, <1>4, <1>5, <1>6, <1>7, <1>8, <1>9, <1>10, <1>11, <1>12, <1>13, <1>14
    DEF Next, Step, ReproSession, BuildSession, RetrySession, ReviseSession

LEMMA PushInvariant == Spec => []PushInv
  <1>1. Init => PushInv
    BY DEF Init, PushInv, GreenInv, RevisedInv, JudgedInv, RescuedInv, PushedInv
  <1>2. TypeInv => TreesOK
    BY DEF TypeInv, TypeOK
  <1> QED
    BY <1>1, <1>2, PushStep, TypeInvariant, PTL DEF Spec

\* What is pushed is what the last review saw, and a rejection is published only
\* after the one revision.
THEOREM PushReviewed == Spec => []PushedIsReviewed
  <1>1. PushInv => PushedIsReviewed
    BY DEF PushInv, PushedInv, PushedIsReviewed, VerdictStands
  <1> QED
    BY <1>1, PushInvariant, PTL

\* A branch is pushed only on a green final gate, for any number of retries and any order
\* of revision, deadline and failures; and what is pushed is the gated tree, whenever the
\* checkout is clean or the run is an unrevised triage: only work left uncommitted can
\* come between the two.
THEOREM PushGated == Spec => []PushedIsGated
  <1>1. PushInv => PushedIsGated
    BY DEF PushInv, PushedInv, PushedIsGated, Rescued
  <1> QED
    BY <1>1, PushInvariant, PTL

-----------------------------------------------------------------------------
(* How the run ends.  The arguments of _record are set by the step that     *)
(* leads to it, are true of the run then, and are not touched again; after  *)
(* it only the row, the journal and the disk change.                        *)

StoppedPcs == {"record", "journal", "cleanup", "unwind", "done", "killed", "hung"}

StopInv ==
  /\ pc \notin StoppedPcs => outcome = "none" /\ ~gate_ok
  /\ outcome # "none" => outcome \in VALID_OUTCOMES

\* Mission Control's row and the journal's line are copies of those arguments.
RowInv == row \in VALID_OUTCOMES => row = outcome

LineInv ==
  \/ journal = <<>>
  \/ pc \in {"cleanup", "unwind", "done", "killed"} /\ journal = <<RunRecord>>

\* What the arguments say of the run.
OutcomeInv ==
  /\ outcome = "pr_opened" => pr
  /\ pr /\ "lost_reply" \notin mode.faults => outcome = "pr_opened"
  /\ pr => pc \in StoppedPcs
  /\ gate_ok => gateOk
  /\ outcome = "gate_failed" => ~gateOk
  /\ outcome = "no_changes" => work = Base /\ gateOk

\* A branch without commits is main; and the gate before a revision was green, also
\* while the revision has not been gated.
HeadInv == ~commits => head = Base
RevisionInv == pc = "revise_gate" => gateOk

EndInv == StopInv /\ RowInv /\ LineInv /\ OutcomeInv /\ HeadInv /\ RevisionInv

LEMMA StopStep == TypeInv /\ StopInv /\ [Next]_vars => StopInv'
  <1> SUFFICES ASSUME StopInv, RecordsOK, [Next]_vars PROVE StopInv'
    BY DEF TypeInv, TypeOK
  <1> USE DEF Goto, Stop, recordVars, StopInv, StoppedPcs, VALID_OUTCOMES
  <1>1. ASSUME NEW from \in BuilderPcs, NEW to, BuilderSession(from, to)
        PROVE  StopInv'
    BY <1>1 DEF BuilderSession, BuilderPcs
  <1>2. ASSUME NEW a, NEW b, ReproGate(a, b)
        PROVE  StopInv'
    BY <1>2 DEF ReproGate
  <1>3. ASSUME NEW ok, BuildGate(ok)
        PROVE  StopInv'
    BY <1>3 DEF BuildGate
  <1>4. ASSUME NEW ok, ReviseGate(ok)
        PROVE  StopInv'
    BY <1>4 DEF ReviseGate, AfterReviseGate
  <1>5. ASSUME NEW v, ReviewSession(v)
        PROVE  StopInv'
    BY <1>5 DEF ReviewSession, AfterReview, ReviewerPcs
  <1>6. CASE Create \/ CreateFails \/ StartRow \/ CommitRepro
    BY <1>6 DEF Create, CreateFails, StartRow, CommitRepro
  <1>7. CASE Settle \/ RetroSession \/ SessionFails \/ OutOfBudget
    BY <1>7 DEF Settle, RetroSession, SessionFails, OutOfBudget
  <1>8. CASE Push \/ PushFails \/ GhCreate \/ GhCreateFails
    BY <1>8 DEF Push, PushFails, GhCreate, GhCreateFails
  <1>9. CASE FinishRow \/ WriteJournal \/ JournalFails \/ CleanupAfterPr \/ Unwind
    BY <1>9 DEF FinishRow, WriteJournal, JournalFails, CleanupAfterPr, Unwind, AfterRecord
  <1>10. CASE Interrupt \/ MissionControlHangs \/ Kill \/ Ended \/ UNCHANGED vars
    BY <1>10 DEF Interrupt, MissionControlHangs, Kill, Ended, vars
  <1> QED
    BY <1>1, <1>2, <1>3, <1>4, <1>5, <1>6, <1>7, <1>8, <1>9, <1>10
    DEF Next, Step, ReproSession, BuildSession, RetrySession, ReviseSession, BuilderPcs

LEMMA CopiesStep == TypeInv /\ StopInv /\ RowInv /\ LineInv /\ [Next]_vars => RowInv' /\ LineInv'
  <1> SUFFICES ASSUME RecordsOK, StopInv, RowInv, LineInv, [Next]_vars PROVE RowInv' /\ LineInv'
    BY DEF TypeInv, TypeOK
  <1> USE DEF Goto, recordVars, logVars, reviewVars, reproVars, RunRecord, RowInv, LineInv
  <1>1. CASE pc \notin StoppedPcs
    <2>1. journal = <<>> /\ row \notin VALID_OUTCOMES
      BY <1>1 DEF StopInv, StoppedPcs, RecordsOK, VALID_OUTCOMES
    <2>2. journal' = journal /\ row' \in {row, "absent", "running", outcome}
      BY <1>1 DEF Next, Step, ReproSession, BuildSession, RetrySession, ReviseSession,
         BuilderSession, ReproGate, BuildGate, ReviseGate, ReviewSession, Create, CreateFails,
         StartRow, CommitRepro, Settle, RetroSession, SessionFails, OutOfBudget, Push, PushFails,
         GhCreate, GhCreateFails, FinishRow, WriteJournal, JournalFails, CleanupAfterPr, Unwind,
         Interrupt, MissionControlHangs, Kill, Ended, vars, StoppedPcs
    <2> QED
      BY <1>1, <2>1, <2>2 DEF StopInv, VALID_OUTCOMES
  <1>2. CASE pc \in StoppedPcs
    <2>1. \/ FinishRow \/ WriteJournal \/ JournalFails \/ CleanupAfterPr \/ Unwind
          \/ Interrupt \/ MissionControlHangs \/ Kill \/ Ended \/ UNCHANGED vars
      BY <1>2 DEF Next, Step, ReproSession, BuildSession, RetrySession, ReviseSession,
         BuilderSession, ReproGate, BuildGate, ReviseGate, ReviewSession, Create, CreateFails,
         StartRow, CommitRepro, Settle, RetroSession, SessionFails, OutOfBudget, Push, PushFails,
         GhCreate, GhCreateFails, StoppedPcs, SessionPcs, BuilderPcs, ReviewerPcs, GatePcs
    <2>2. CASE FinishRow \/ JournalFails \/ CleanupAfterPr \/ Unwind
      BY <2>2 DEF FinishRow, JournalFails, CleanupAfterPr, Unwind
    <2>3. CASE WriteJournal
      BY <2>3 DEF WriteJournal, AfterRecord
    <2>4. CASE Interrupt \/ MissionControlHangs \/ Kill
      BY <2>4, <1>2 DEF Interrupt, MissionControlHangs, Kill, EndPcs, StepPcs, SessionPcs,
         BuilderPcs, ReviewerPcs, GatePcs, StoppedPcs, BlockPcs
    <2>5. CASE Ended \/ UNCHANGED vars
      BY <2>5 DEF Ended, vars
    <2> QED
      BY <2>1, <2>2, <2>3, <2>4, <2>5
  <1> QED
    BY <1>1, <1>2

LEMMA OutcomeStep ==
  TypeInv /\ PushInv /\ EndInv /\ [Next]_vars => OutcomeInv' /\ HeadInv' /\ RevisionInv'
  <1> SUFFICES ASSUME TypeInv, GreenInv, EndInv, [Next]_vars
               PROVE  OutcomeInv' /\ HeadInv' /\ RevisionInv'
    BY DEF PushInv
  <1> USE DEF Goto, Stop, recordVars, repoVars, gateVars, prVars, GreenInv, EndInv, StopInv,
              StoppedPcs, OutcomeInv, HeadInv, RevisionInv
  <1>1. ASSUME NEW from \in BuilderPcs,
               NEW to \in {"repro_commit", "build_gate", "retry_gate", "revise_gate"},
               to = "revise_gate" => from = "revise", BuilderSession(from, to)
        PROVE  OutcomeInv' /\ HeadInv' /\ RevisionInv'
    BY <1>1 DEF BuilderSession, BuilderPcs, Edits
  <1>2. ASSUME NEW a, NEW b, ReproGate(a, b)
        PROVE  OutcomeInv' /\ HeadInv' /\ RevisionInv'
    BY <1>2 DEF ReproGate
  <1>3. ASSUME NEW ok, BuildGate(ok)
        PROVE  OutcomeInv' /\ HeadInv' /\ RevisionInv'
    BY <1>3 DEF BuildGate, RunGate
  <1>4. ASSUME NEW ok, ReviseGate(ok)
        PROVE  OutcomeInv' /\ HeadInv' /\ RevisionInv'
    BY <1>4 DEF ReviseGate, AfterReviseGate, RunGate
  <1>5. ASSUME NEW v, ReviewSession(v)
        PROVE  OutcomeInv' /\ HeadInv' /\ RevisionInv'
    BY <1>5 DEF ReviewSession, AfterReview, ReviewerPcs
  <1>6. CASE Create \/ CreateFails \/ StartRow \/ CommitRepro
    BY <1>6 DEF Create, CreateFails, StartRow, CommitRepro, AutoCommit
  <1>7. CASE Settle
    BY <1>7 DEF Settle, AutoCommit, NeedsRescue, Dirty, TypeInv, TypeOK, FlagsOK
  <1>8. CASE SessionFails
    BY <1>8 DEF SessionFails, Edits, SessionPcs, BuilderPcs, ReviewerPcs, GreenPcs
  <1>9. CASE RetroSession \/ OutOfBudget
    <2>1. CASE RetroSession
      BY <2>1 DEF RetroSession
    <2>2. CASE OutOfBudget
      <3>1. gate_ok' => pc \in GreenPcs
        BY <2>2 DEF OutOfBudget
      <3>2. pc \in GreenPcs => gateOk
        BY DEF GreenPcs
      <3> QED
        BY <2>2, <3>1, <3>2 DEF OutOfBudget, SessionPcs, BuilderPcs, ReviewerPcs, GatePcs
    <2> QED
      BY <1>9, <2>1, <2>2
  <1>10. CASE Push \/ PushFails \/ GhCreate
    BY <1>10 DEF Push, PushFails, GhCreate
  <1>11. CASE GhCreateFails
    <2>1. pc = "gh_create" /\ pc' = "record" /\ outcome' = "error" /\ gate_ok'
      BY <1>11 DEF GhCreateFails
    <2>2. pr' => "lost_reply" \in mode.faults
      BY <1>11 DEF GhCreateFails
    <2>3. UNCHANGED <<mode, repoVars, gateVars>>
      BY <1>11 DEF GhCreateFails
    <2> QED
      BY <2>1, <2>2, <2>3
  <1>12. CASE FinishRow \/ WriteJournal \/ JournalFails \/ CleanupAfterPr \/ Unwind
    BY <1>12 DEF FinishRow, WriteJournal, JournalFails, CleanupAfterPr, Unwind, AfterRecord
  <1>13. CASE Interrupt \/ MissionControlHangs \/ Kill \/ Ended \/ UNCHANGED vars
    BY <1>13 DEF Interrupt, MissionControlHangs, Kill, Ended, vars
  <1> QED
    BY <1>1, <1>2, <1>3, <1>4, <1>5, <1>6, <1>7, <1>8, <1>9, <1>10, <1>11, <1>12, <1>13
    DEF Next, Step, ReproSession, BuildSession, RetrySession, ReviseSession, BuilderPcs

LEMMA EndInvariant == Spec => []EndInv
  <1>1. Init => EndInv
    BY DEF Init, EndInv, StopInv, RowInv, LineInv, OutcomeInv, HeadInv, RevisionInv, StoppedPcs,
           VALID_OUTCOMES
  <1>2. TypeInv /\ PushInv /\ EndInv /\ [Next]_vars => EndInv'
    BY StopStep, CopiesStep, OutcomeStep DEF EndInv
  <1> QED
    BY <1>1, <1>2, TypeInvariant, PushInvariant, PTL DEF Spec

\* The journal line tells the truth about the run, and so does the agent_runs row: for any
\* order of retries, rescue commits, revision, budget and failures, a line says pr_opened,
\* gate_failed, no_changes or a green gate only when that is what happened.
THEOREM JournalTrue == Spec => []JournalIsTrue
  <1>1. EndInv => JournalIsTrue
    <2> SUFFICES ASSUME EndInv, NEW i \in DOMAIN journal
                 PROVE  LET r == journal[i] IN
                        /\ r.outcome = "pr_opened" => pr /\ r.pr_url /\ r.review_verdict = review_verdict
                        /\ r.gate_ok => gateOk
                        /\ r.outcome = "gate_failed" => ~gateOk
                        /\ r.outcome = "no_changes" => work = Base /\ gateOk
                        /\ row \in VALID_OUTCOMES => row = r.outcome
                        /\ pr /\ "lost_reply" \notin mode.faults => r.outcome = "pr_opened"
      BY DEF JournalIsTrue
    <2>1. journal[i] = RunRecord
      BY DEF EndInv, LineInv
    <2>2. journal[i].outcome = outcome /\ journal[i].review_verdict = review_verdict
      BY <2>1 DEF RunRecord
    <2>3. journal[i].gate_ok = gate_ok
      BY <2>1 DEF RunRecord
    <2>4. journal[i].pr_url = (outcome = "pr_opened")
      BY <2>1 DEF RunRecord
    <2> QED
      BY <2>2, <2>3, <2>4 DEF EndInv, OutcomeInv, RowInv
  <1> QED
    BY <1>1, EndInvariant, PTL

-----------------------------------------------------------------------------
(* Nothing is forgotten: the journal line, the row, the branch.  What a run *)
(* does not leave behind depends on which faults it met on its way.         *)

\* Nothing is left behind: which faults a run met on its way to where it is.
LineDue ==
  pc \in {"cleanup", "unwind", "done"} /\ mode.faults \cap {"provision", "exception", "journal"} = {}
    => journal # <<>>

Answered == mode.faults \cap {"provision", "exception", "mc"} = {}
RowDue ==
  Answered =>
    /\ pc \notin {"create", "start", "hung", "killed"} => tracked
    /\ pc \in {"journal", "cleanup", "unwind", "done"} => row \in VALID_OUTCOMES

DiskInv ==
  /\ pc \in BlockPcs => branch
  /\ pc = "cleanup" => outcome = "pr_opened"
  /\ pc = "unwind" /\ mode.faults \cap {"exception", "journal"} = {} => outcome # "pr_opened"

DueInv == LineDue /\ RowDue /\ DiskInv /\ NoDebris


\* The steps before the run stops leave journal, checkout and branch alone.
LEMMA RunningSteps ==
  ASSUME [Next]_vars, pc \in Pcs \ (StoppedPcs \cup {"create", "start"})
  PROVE  /\ UNCHANGED <<mode, tracked, journal, dir, branch>>
         /\ \/ pc' \in BlockPcs \ {"cleanup", "journal", "start"}
            \/ "exception" \in mode.faults /\ pc' = "unwind"
            \/ pc' = "killed"
  <1> USE DEF Goto, Stop, logVars, diskVars, StoppedPcs, BlockPcs, SessionPcs, BuilderPcs,
              ReviewerPcs, GatePcs, EndPcs
  <1>1. ASSUME NEW from, NEW to \in {"repro_commit", "build_gate", "retry_gate", "revise_gate"},
               BuilderSession(from, to)
        PROVE  UNCHANGED <<mode, tracked, journal, dir, branch>> /\ pc' = to
    BY <1>1 DEF BuilderSession
  <1>2. ASSUME NEW a, NEW b, ReproGate(a, b)
        PROVE  UNCHANGED <<mode, tracked, journal, dir, branch>> /\ pc' \in {"build", "repro", "record"}
    BY <1>2 DEF ReproGate
  <1>3. ASSUME NEW ok, BuildGate(ok)
        PROVE  UNCHANGED <<mode, tracked, journal, dir, branch>> /\ pc' \in {"settle", "retry", "record"}
    BY <1>3 DEF BuildGate
  <1>4. ASSUME NEW ok, ReviseGate(ok)
        PROVE  UNCHANGED <<mode, tracked, journal, dir, branch>> /\ pc' \in {"final_review", "record"}
    BY <1>4 DEF ReviseGate, AfterReviseGate
  <1>5. ASSUME NEW v, ReviewSession(v)
        PROVE  UNCHANGED <<mode, tracked, journal, dir, branch>>
               /\ pc' \in {"revise", "retro", "push", "record"}
    BY <1>5 DEF ReviewSession, AfterReview
  <1>6. CASE Create \/ CreateFails \/ StartRow \/ FinishRow \/ WriteJournal \/ JournalFails
             \/ CleanupAfterPr \/ Unwind \/ Ended
    BY <1>6 DEF Create, CreateFails, StartRow, FinishRow, WriteJournal, JournalFails,
       CleanupAfterPr, Unwind, Ended
  <1>7. CASE CommitRepro \/ Settle \/ RetroSession \/ SessionFails \/ OutOfBudget
    BY <1>7 DEF CommitRepro, Settle, RetroSession, SessionFails, OutOfBudget
  <1>8. CASE Push \/ PushFails \/ GhCreate \/ GhCreateFails
    BY <1>8 DEF Push, PushFails, GhCreate, GhCreateFails
  <1>9. CASE Interrupt \/ MissionControlHangs \/ Kill
    BY <1>9 DEF Interrupt, MissionControlHangs, Kill
  <1>10. CASE UNCHANGED vars
    BY <1>10 DEF vars, Pcs
  <1> QED
    BY <1>1, <1>2, <1>3, <1>4, <1>5, <1>6, <1>7, <1>8, <1>9, <1>10
    DEF Next, Step, ReproSession, BuildSession, RetrySession, ReviseSession

LEMMA EndingSteps ==
  ASSUME [Next]_vars, pc \in StoppedPcs \cup {"create", "start"}
  PROVE  \/ Create \/ CreateFails \/ StartRow \/ FinishRow \/ WriteJournal \/ JournalFails
         \/ CleanupAfterPr \/ Unwind \/ Interrupt \/ MissionControlHangs \/ Kill \/ UNCHANGED vars
  BY DEF Next, Step, ReproSession, BuildSession, RetrySession, ReviseSession, BuilderSession,
     ReproGate, BuildGate, ReviseGate, ReviewSession, CommitRepro, Settle, RetroSession,
     SessionFails, OutOfBudget, Push, PushFails, GhCreate, GhCreateFails, Ended, StoppedPcs,
     SessionPcs, BuilderPcs, ReviewerPcs, GatePcs

LEMMA DueStep == TypeInv /\ EndInv /\ DueInv /\ [Next]_vars => DueInv'
  <1> SUFFICES ASSUME TypeInv, StopInv, LineInv, DueInv, [Next]_vars PROVE DueInv'
    BY DEF EndInv
  <1> DEFINE Early == pc \notin StoppedPcs \cup {"create", "start"}
  <1>early. Early => /\ UNCHANGED <<mode, tracked, journal, dir, branch>>
                     /\ pc \in BlockPcs \ {"hung", "start"}
                     /\ \/ pc' \in BlockPcs \ {"cleanup", "journal", "start"}
                        \/ "exception" \in mode.faults /\ pc' = "unwind"
                        \/ pc' = "killed"
    BY RunningSteps DEF TypeInv, TypeOK, RecordsOK, Pcs, BlockPcs, EndPcs, StoppedPcs
  <1>late. ~Early => \/ Create \/ CreateFails \/ StartRow \/ FinishRow \/ WriteJournal
                     \/ JournalFails \/ CleanupAfterPr \/ Unwind \/ Interrupt
                     \/ MissionControlHangs \/ Kill \/ UNCHANGED vars
    BY EndingSteps
  <1>1. LineDue'
    <2>1. CASE Early
      BY <1>early, <2>1 DEF LineDue, BlockPcs, SessionPcs, BuilderPcs, ReviewerPcs, GatePcs
    <2>2. CASE WriteJournal
      BY <2>2 DEF WriteJournal, LineDue, TypeInv, TypeOK, RecordsOK
    <2>3. ASSUME ~Early, ~WriteJournal
          PROVE  LineDue'
      BY <1>late, <2>3 DEF DueInv, LineDue, Create, CreateFails, StartRow, FinishRow,
         JournalFails, CleanupAfterPr, Unwind, Interrupt, MissionControlHangs, Kill, vars, logVars,
         Goto
    <2> QED
      BY <2>1, <2>2, <2>3
  <1>2. RowDue'
    <2>1. CASE Early
      BY <1>early, <2>1 DEF DueInv, RowDue, Answered, BlockPcs, SessionPcs, BuilderPcs,
         ReviewerPcs, GatePcs, StoppedPcs
    <2>2. CASE FinishRow
      BY <2>2 DEF FinishRow, DueInv, RowDue, Answered, TypeInv, OutcomeKnown, RecordPcs, Goto
    <2>3. CASE StartRow
      BY <2>3 DEF StartRow, RowDue, Answered, Goto
    <2>4. CASE WriteJournal
      BY <2>4 DEF WriteJournal, AfterRecord, DueInv, RowDue, Answered, Goto
    <2>5. CASE Interrupt \/ Kill \/ MissionControlHangs \/ Create \/ CreateFails
      BY <2>5 DEF Interrupt, Kill, MissionControlHangs, Create, CreateFails, RowDue, Answered, Goto
    <2>6. CASE JournalFails \/ CleanupAfterPr \/ Unwind \/ UNCHANGED vars
      BY <2>6 DEF JournalFails, CleanupAfterPr, Unwind, DueInv, RowDue, Answered, Goto, vars,
         logVars
    <2> QED
      BY <1>late, <2>1, <2>2, <2>3, <2>4, <2>5, <2>6
  <1>3. DiskInv'
    <2>1. CASE Early
      <3>1. branch' = branch /\ branch
        BY <1>early, <2>1 DEF DueInv, DiskInv, diskVars
      <3>2. pc' # "cleanup" /\ (pc' = "unwind" => "exception" \in mode'.faults)
        BY <1>early, <2>1 DEF BlockPcs, SessionPcs, BuilderPcs, ReviewerPcs, GatePcs
      <3> QED
        BY <3>1, <3>2 DEF DiskInv
    <2>2. CASE WriteJournal
      BY <2>2 DEF WriteJournal, AfterRecord, DueInv, DiskInv, Goto, recordVars, diskVars, BlockPcs
    <2>3. CASE StartRow \/ FinishRow \/ MissionControlHangs
      BY <2>3 DEF StartRow, FinishRow, MissionControlHangs, DueInv, DiskInv, Goto, recordVars,
         diskVars, BlockPcs, StepPcs, SessionPcs, GatePcs
    <2>4. CASE Create \/ CreateFails \/ Kill \/ CleanupAfterPr \/ Unwind
      BY <2>4 DEF Create, CreateFails, Kill, CleanupAfterPr, Unwind, DiskInv, Goto, BlockPcs,
         SessionPcs, BuilderPcs, ReviewerPcs, GatePcs
    <2>5. CASE Interrupt \/ JournalFails
      BY <2>5 DEF Interrupt, JournalFails, DiskInv, Goto, BlockPcs, SessionPcs, BuilderPcs,
         ReviewerPcs, GatePcs
    <2>6. CASE UNCHANGED vars
      BY <2>6 DEF DueInv, DiskInv, vars, recordVars, diskVars
    <2> QED
      BY <1>late, <2>1, <2>2, <2>3, <2>4, <2>5, <2>6
  <1>4. NoDebris'
    <2>1. CASE Early
      BY <1>early, <2>1 DEF NoDebris, BlockPcs, SessionPcs, BuilderPcs, ReviewerPcs, GatePcs
    <2>2. CASE WriteJournal
      BY <2>2 DEF WriteJournal, AfterRecord, NoDebris, Goto, recordVars
    <2>3. CASE CleanupAfterPr
      <3>1. outcome' = "pr_opened" /\ branch'
        BY <2>3 DEF CleanupAfterPr, DueInv, DiskInv, Goto, recordVars, BlockPcs
      <3>2. "cleanup" \notin mode'.faults => (dir' => work' # head')
        BY <2>3 DEF CleanupAfterPr, Dirty, repoVars
      <3> QED
        BY <3>1, <3>2 DEF NoDebris
    <2>4. CASE Unwind
      BY <2>4 DEF Unwind, DueInv, DiskInv, NoDebris, Goto, recordVars
    <2>5. CASE Create \/ CreateFails \/ StartRow \/ FinishRow \/ JournalFails \/ Interrupt
               \/ MissionControlHangs \/ Kill
      BY <2>5 DEF Create, CreateFails, StartRow, FinishRow, JournalFails, Interrupt,
         MissionControlHangs, Kill, NoDebris, Goto
    <2>6. CASE UNCHANGED vars
      BY <2>6 DEF DueInv, NoDebris, vars, recordVars, diskVars, repoVars
    <2> QED
      BY <1>late, <2>1, <2>2, <2>3, <2>4, <2>5, <2>6
  <1> QED
    BY <1>1, <1>2, <1>3, <1>4 DEF DueInv

LEMMA DueInvariant == Spec => []DueInv
  <1>1. Init => DueInv
    BY DEF Init, DueInv, LineDue, Answered, RowDue, DiskInv, NoDebris, BlockPcs, SessionPcs,
           BuilderPcs, ReviewerPcs, GatePcs
  <1> QED
    BY <1>1, DueStep, TypeInvariant, EndInvariant, PTL DEF Spec

\* A run writes one journal line and never two, and its agent_runs row does not stay
\* `running', unless it met one of the faults named: no other way out misses the record.
THEOREM RunsJournaled == Spec => []EveryRunJournaled
  <1>1. EndInv /\ DueInv => EveryRunJournaled
    <2> SUFFICES ASSUME EndInv, DueInv PROVE EveryRunJournaled
      OBVIOUS
    <2>1. journal = <<>> \/ journal = <<RunRecord>>
      BY DEF EndInv, LineInv
    <2>2. \A line : Len(<<line>>) = 1
      OBVIOUS
    <2>3. Len(journal) <= 1 /\ (journal # <<>> => Len(journal) = 1)
      <3>1. CASE journal = <<>>
        BY <3>1
      <3>2. CASE journal = <<RunRecord>>
        <4>1. Len(journal) = 1
          BY <2>2, <3>2
        <4> QED
          BY <4>1
      <3> QED
        BY <2>1, <3>1, <3>2
    <2>4. pc = "done" /\ mode.faults \cap {"provision", "exception", "journal"} = {}
            => Len(journal) = 1
      BY <2>3 DEF DueInv, LineDue
    <2>5. pc = "done" /\ Answered => row \in VALID_OUTCOMES
      BY DEF DueInv, RowDue
    <2> QED
      BY <2>3, <2>4, <2>5 DEF EveryRunJournaled, Answered
  <1> QED
    BY <1>1, EndInvariant, DueInvariant, PTL

\* A failed run leaves neither checkout nor branch, a published one its branch, and only
\* --no-pr the checkout with it, unless provisioning or cleaning up failed.
THEOREM NothingLeft == Spec => []NoDebris
  <1>1. DueInv => NoDebris
    BY DEF DueInv
  <1> QED
    BY <1>1, DueInvariant, PTL

-----------------------------------------------------------------------------
(* What the fix of a reported bug rests on.                                 *)

\* What the reproduction rests on, from the gate that showed it to the end.
Evidence == redTests # {} /\ repro_test_files \subseteq redTests

FixPcs == {"build", "build_gate", "retry", "retry_gate", "settle", "review", "revise",
           "revise_gate", "final_review", "retro", "push", "gh_create"}

ReproInv ==
  mode.enforce_repro =>
    \/ Evidence
    \/ pc \notin FixPcs /\ remote = NoTree
       /\ outcome \in {"none", "error", "timeout", "cannot_reproduce"}


LEMMA ReproStep == TypeInv /\ PushInv /\ StopInv /\ ReproInv /\ [Next]_vars => ReproInv'
  <1> SUFFICES ASSUME PushedInv, StopInv, ReproInv, [Next]_vars, mode'.enforce_repro
               PROVE  ReproInv'
    BY DEF ReproInv, PushInv
  <1>mode. mode' = mode
    BY DEF Next, Step, ReproSession, BuildSession, RetrySession, ReviseSession, BuilderSession,
       ReproGate, BuildGate, ReviseGate, ReviewSession, Create, CreateFails, StartRow, CommitRepro,
       Settle, RetroSession, SessionFails, OutOfBudget, Push, PushFails, GhCreate, GhCreateFails,
       FinishRow, WriteJournal, JournalFails, CleanupAfterPr, Unwind, Interrupt,
       MissionControlHangs, Kill, Ended, vars
  <1>1. ASSUME NEW a, NEW b, ReproGate(a, b)
        PROVE  ReproInv'
    <2>1. pc = "repro_gate" /\ outcome = "none" /\ remote = NoTree /\ remote' = NoTree
      BY <1>1 DEF ReproGate, StopInv, StoppedPcs, prVars, PushedInv, AfterPush
    <2>2. CASE Reproduced(a)
      <3>1. redTests' = head.tests /\ repro_test_files' = ChangedTestFiles
        BY <1>1, <2>2 DEF ReproGate, Reproduced
      <3> QED
        BY <2>2, <3>1 DEF Reproduced, TouchesTests, ChangedTestFiles, ReproInv, Evidence
    <2>3. CASE ~Reproduced(a)
      <3>1. \/ pc' = "repro" /\ outcome' = "none"
            \/ pc' = "record" /\ outcome' = "cannot_reproduce"
        BY <1>1, <2>1, <2>3 DEF ReproGate, Goto, Stop, recordVars
      <3> QED
        BY <2>1, <3>1 DEF ReproInv, FixPcs
    <2> QED
      BY <2>2, <2>3
  <1>2. CASE ~ \E a, b \in BOOLEAN : ReproGate(a, b)
    <2>1. UNCHANGED <<redTests, repro_test_files>>
      BY <1>2 DEF Next, Step, ReproSession, BuildSession, RetrySession, ReviseSession,
         BuilderSession, BuildGate, ReviseGate, ReviewSession, Create, CreateFails, StartRow,
         CommitRepro, Settle, RetroSession, SessionFails, OutOfBudget, Push, PushFails, GhCreate,
         GhCreateFails, FinishRow, WriteJournal, JournalFails, CleanupAfterPr, Unwind, Interrupt,
         MissionControlHangs, Kill, Ended, vars, reproVars
    <2>2. CASE Evidence
      BY <2>1, <2>2 DEF ReproInv, Evidence
    <2>3. CASE ~Evidence
      <3>1. /\ mode.enforce_repro /\ pc \notin FixPcs /\ remote = NoTree
            /\ outcome \in {"none", "error", "timeout", "cannot_reproduce"}
        BY <1>mode, <2>3 DEF ReproInv
      <3>2. pc' \notin FixPcs /\ remote' = NoTree /\ outcome' \in {outcome, "error", "timeout"}
        BY <1>2, <3>1 DEF Next, Step, ReproSession, BuildSession, RetrySession, ReviseSession,
           BuilderSession, BuildGate, ReviseGate, ReviewSession, Create, CreateFails, StartRow,
           CommitRepro, Settle, RetroSession, SessionFails, OutOfBudget, Push, PushFails,
           GhCreate, GhCreateFails, FinishRow, WriteJournal, AfterRecord, JournalFails,
           CleanupAfterPr, Unwind, Interrupt, MissionControlHangs, Kill, Ended, vars, prVars,
           recordVars, Goto, Stop, FixPcs, ReviewerPcs, StepPcs, EndPcs
      <3> QED
        BY <3>1, <3>2 DEF ReproInv
    <2> QED
      BY <2>2, <2>3
  <1> QED
    BY <1>1, <1>2

LEMMA ReproInvariant == Spec => []ReproInv
  <1>1. Init => ReproInv
    BY DEF Init, ReproInv, FixPcs
  <1>2. EndInv => StopInv
    BY DEF EndInv
  <1> QED
    BY <1>1, <1>2, ReproStep, TypeInvariant, PushInvariant, EndInvariant, PTL DEF Spec

\* Under enforce_repro nothing is fixed, judged or shipped without a gate that saw pytest
\* red on a branch with test files, however often phase 1 was repeated.
THEOREM ReproducedFirst == Spec => []ReproBeforeFix
  <1>1. ReproInv => ReproBeforeFix
    BY DEF ReproInv, Evidence, ReproBeforeFix
  <1> QED
    BY <1>1, ReproInvariant, PTL

-----------------------------------------------------------------------------
(* The number of sessions, each of which is paid for.                       *)

\* How many sessions there can have been where the run is.
ReproSessions == IF mode.enforce_repro THEN MAX_PHASE1_REPRO_ATTEMPTS ELSE 0
RetroSessions == IF mode.open_pr /\ mode.retro THEN 1 ELSE 0

SessionsInv ==
  /\ pc \in {"create", "start"} => sessions = 0
  /\ pc \in {"repro", "repro_commit", "repro_gate"} => mode.enforce_repro
  /\ pc = "repro" => sessions <= attempt - 1
  /\ pc \in {"repro_commit", "repro_gate"} => sessions <= attempt
  /\ pc = "build" => sessions <= ReproSessions
  /\ pc \in {"build_gate", "retry", "settle", "review"} => sessions <= ReproSessions + retries + 1
  /\ pc \in {"retry_gate", "revise"} => sessions <= ReproSessions + retries + 2
  /\ pc \in {"revise_gate", "final_review"} => sessions <= ReproSessions + retries + 3
  /\ pc = "retro" => mode.open_pr /\ mode.retro /\ sessions <= ReproSessions + retries + 4
  /\ sessions <= ReproSessions + MaxRetries + 4 + RetroSessions

LEMMA SessionsStep == TypeInv /\ SessionsInv /\ [Next]_vars => SessionsInv'
  <1> SUFFICES ASSUME TypeInv, SessionsInv, [Next]_vars PROVE SessionsInv'
    OBVIOUS
  <1>types. /\ sessions \in Nat /\ retries \in 0..MaxRetries /\ attempt \in {1, 2}
            /\ ReproSessions \in {0, 2} /\ RetroSessions \in {0, 1}
            /\ pc \in {"retry", "retry_gate"} => retries < MaxRetries
            /\ mode.enforce_repro => ReproSessions = 2
    BY DEF TypeInv, TypeOK, CountsOK, RetryRoom, ReproSessions, RetroSessions
  <1>mode. mode' = mode /\ ReproSessions' = ReproSessions /\ RetroSessions' = RetroSessions
    <2>1. mode' = mode
      BY DEF Next, Step, ReproSession, BuildSession, RetrySession, ReviseSession, BuilderSession,
         ReproGate, BuildGate, ReviseGate, ReviewSession, Create, CreateFails, StartRow,
         CommitRepro, Settle, RetroSession, SessionFails, OutOfBudget, Push, PushFails, GhCreate,
         GhCreateFails, FinishRow, WriteJournal, JournalFails, CleanupAfterPr, Unwind, Interrupt,
         MissionControlHangs, Kill, Ended, vars
    <2> QED
      BY <2>1 DEF ReproSessions, RetroSessions
  <1>count. CountSession => sessions' \in Nat /\ sessions' <= sessions + 1
    BY <1>types DEF CountSession
  <1> USE <1>types, <1>mode DEF Goto, Stop, recordVars, reproVars, SessionsInv
  <1>1. CASE ReproSession
    BY <1>1, <1>count DEF ReproSession, BuilderSession
  <1>2. CASE BuildSession
    BY <1>2, <1>count DEF BuildSession, BuilderSession
  <1>3. CASE RetrySession
    BY <1>3, <1>count DEF RetrySession, BuilderSession
  <1>4. CASE ReviseSession
    BY <1>4, <1>count DEF ReviseSession, BuilderSession
  <1>5. ASSUME NEW a, NEW b, ReproGate(a, b)
        PROVE  SessionsInv'
    BY <1>5 DEF ReproGate
  <1>6. ASSUME NEW ok, BuildGate(ok)
        PROVE  SessionsInv'
    BY <1>6 DEF BuildGate, MayRetry
  <1>7. ASSUME NEW ok, ReviseGate(ok)
        PROVE  SessionsInv'
    BY <1>7 DEF ReviseGate, AfterReviseGate
  <1>8. ASSUME NEW v, ReviewSession(v)
        PROVE  SessionsInv'
    BY <1>8, <1>count DEF ReviewSession, SendsBack, AfterReview, ReviewerPcs
  <1>9. CASE SessionFails
    BY <1>9, <1>count DEF SessionFails, SessionPcs, BuilderPcs, ReviewerPcs
  <1>10. CASE RetroSession
    BY <1>10, <1>count DEF RetroSession, RetroSessions
  <1>11. CASE Create \/ CreateFails \/ StartRow \/ CommitRepro \/ Settle \/ OutOfBudget
    BY <1>11 DEF Create, CreateFails, StartRow, CommitRepro, Settle, OutOfBudget
  <1>12. CASE Push \/ PushFails \/ GhCreate \/ GhCreateFails \/ FinishRow \/ WriteJournal
    BY <1>12 DEF Push, PushFails, GhCreate, GhCreateFails, FinishRow, WriteJournal, AfterRecord
  <1>13. CASE JournalFails \/ CleanupAfterPr \/ Unwind \/ Interrupt \/ MissionControlHangs \/ Kill
    BY <1>13 DEF JournalFails, CleanupAfterPr, Unwind, Interrupt, MissionControlHangs, Kill
  <1>14. CASE Ended \/ UNCHANGED vars
    BY <1>14 DEF Ended, vars
  <1> QED
    BY <1>1, <1>2, <1>3, <1>4, <1>5, <1>6, <1>7, <1>8, <1>9, <1>10, <1>11, <1>12, <1>13, <1>14
    DEF Next, Step

LEMMA SessionsInvariant == Spec => []SessionsInv
  <1>1. Init => SessionsInv
    BY DEF Init, SessionsInv, ReproSessions, RetroSessions
  <1> QED
    BY <1>1, SessionsStep, TypeInvariant, PTL DEF Spec

\* No run launches more sessions than two reproductions, a build, max_retries retries, a
\* review, one revision with its final review, and a retro, for every max_retries.
THEOREM SessionsAreBounded == Spec => []SessionsBounded
  <1>1. SessionsInv => SessionsBounded
    BY DEF SessionsInv, ReproSessions, RetroSessions, SessionsBounded
  <1> QED
    BY <1>1, SessionsInvariant, PTL

-----------------------------------------------------------------------------
(* The refinement.  Every step of the loop is a step of RunContract or leaves *)
(* the contract's state alone.  A first rejection is the first because no     *)
(* state before it is a revised one.                                         *)

RevisedPcs == {"revise", "revise_gate", "final_review", "retro", "push", "gh_create"}

FirstReviewInv == revised => pc \in RevisedPcs \cup StoppedPcs

LEMMA FirstReviewStep == FirstReviewInv /\ [Next]_vars => FirstReviewInv'
  BY DEF Next, Step, ReproSession, BuildSession, RetrySession, ReviseSession, BuilderSession,
     ReproGate, BuildGate, ReviseGate, AfterReviseGate, ReviewSession, SendsBack, AfterReview,
     Create, CreateFails, StartRow, CommitRepro, Settle, RetroSession, SessionFails, OutOfBudget,
     Push, PushFails, GhCreate, GhCreateFails, FinishRow, WriteJournal, AfterRecord, JournalFails,
     CleanupAfterPr, Unwind, Interrupt, MissionControlHangs, Kill, Ended, vars, reviewVars, Goto,
     Stop, recordVars, FirstReviewInv, RevisedPcs, StoppedPcs, SessionPcs, BuilderPcs,
     ReviewerPcs, GatePcs

RemoteInv == pc = "gh_create" => remote # NoTree

LEMMA RemoteStep == head \in Tree /\ RemoteInv /\ [Next]_vars => RemoteInv'
  <1> SUFFICES ASSUME head \in Tree, RemoteInv, [Next]_vars, pc' = "gh_create"
               PROVE  remote' # NoTree
    BY DEF RemoteInv
  <1>1. Push \/ UNCHANGED <<pc, remote>>
    BY DEF Next, Step, ReproSession, BuildSession, RetrySession, ReviseSession, BuilderSession,
       ReproGate, BuildGate, ReviseGate, AfterReviseGate, ReviewSession, AfterReview, Create,
       CreateFails, StartRow, CommitRepro, Settle, RetroSession, SessionFails, OutOfBudget,
       PushFails, GhCreate, GhCreateFails, FinishRow, WriteJournal, AfterRecord, JournalFails,
       CleanupAfterPr, Unwind, Interrupt, MissionControlHangs, Kill, Ended, vars, prVars, Goto,
       Stop
  <1> QED
    BY <1>1, NoTreeAssumption DEF Push, RemoteInv

RefineInv ==
  /\ FirstReviewInv /\ RevisedInv /\ StopInv
  /\ head \in Tree
  /\ pc = "push" => remote = NoTree
  /\ RemoteInv

LEMMA RefineInvariant == Spec => []RefineInv
  <1>1. Init => FirstReviewInv /\ RemoteInv
    BY DEF Init, FirstReviewInv, RemoteInv
  <1>2. TypeInv /\ RemoteInv /\ [Next]_vars => RemoteInv'
    BY RemoteStep DEF TypeInv, TypeOK, TreesOK
  <1>3. TypeInv /\ PushInv /\ EndInv /\ FirstReviewInv /\ RemoteInv => RefineInv
    BY DEF TypeInv, TypeOK, TreesOK, PushInv, EndInv, RemoteInv, RefineInv, PushedInv, AfterPush
  <1> QED
    BY <1>1, <1>2, <1>3, FirstReviewStep, TypeInvariant, PushInvariant, EndInvariant, PTL DEF Spec

GreenStage == {"settle", "review", "final_review"}

\* The stages, one fact each.
LEMMA Stages ==
  /\ stage = "green" <=> pc \in GreenStage
  /\ stage = "judged" <=> pc \in {"retro", "push"}
  /\ stage = "published" <=> pc = "gh_create"
  /\ stage = "ended" <=> pc \in StoppedPcs
  /\ stage = "unproven" <=> pc \notin GreenStage \cup {"retro", "push", "gh_create"} \cup StoppedPcs
  BY DEF stage, GreenStage, StoppedPcs, EndPcs

LEMMA ContractStep == RefineInv /\ RefineInv' /\ [Next]_vars => [Contract!Next]_(Contract!vars)
  <1> SUFFICES ASSUME RefineInv, RefineInv', [Next]_vars
               PROVE  [Contract!Next]_(Contract!vars)
    OBVIOUS
  <1>1. /\ stage = "green" <=> pc \in GreenStage
        /\ stage = "judged" <=> pc \in {"retro", "push"}
        /\ stage = "published" <=> pc = "gh_create"
        /\ stage = "ended" <=> pc \in StoppedPcs
        /\ stage = "unproven"
             <=> pc \notin GreenStage \cup {"retro", "push", "gh_create"} \cup StoppedPcs
    BY Stages
  <1>2. /\ stage' = "green" <=> pc' \in GreenStage
        /\ stage' = "judged" <=> pc' \in {"retro", "push"}
        /\ stage' = "published" <=> pc' = "gh_create"
        /\ stage' = "ended" <=> pc' \in StoppedPcs
        /\ stage' = "unproven"
             <=> pc' \notin GreenStage \cup {"retro", "push", "gh_create"} \cup StoppedPcs
    BY DEF stage, GreenStage, StoppedPcs, EndPcs
  <1>still. ASSUME stage' = stage, UNCHANGED <<review_verdict, revised, remote, outcome>>
            PROVE  UNCHANGED Contract!vars
    BY <1>still DEF Contract!vars
  <1>fail. ASSUME pc \notin StoppedPcs, pc' \in StoppedPcs,
                  UNCHANGED <<review_verdict, revised, remote>>,
                  outcome' \in Contract!FailureReports
           PROVE  Contract!Next
    BY <1>1, <1>2, <1>fail DEF Contract!Next, Contract!Fail
  <1>reports. /\ pc \notin StoppedPcs => {"none", "error"} \subseteq Contract!FailureReports
              /\ stage = "green" => {"timeout", "no_changes"} \subseteq Contract!FailureReports
              /\ stage = "unproven" => {"timeout", "gate_failed", "cannot_reproduce"}
                                        \subseteq Contract!FailureReports
    BY DEF Contract!FailureReports
  <1>none. pc \notin StoppedPcs => outcome = "none"
    BY DEF RefineInv, StopInv
  <1> USE DEF Goto, Stop, recordVars, reviewVars, prVars, GreenStage, StoppedPcs
  <1>3. ASSUME NEW from \in {"repro", "build", "retry", "revise"},
               NEW to \in {"repro_commit", "build_gate", "retry_gate", "revise_gate"},
               BuilderSession(from, to)
        PROVE  UNCHANGED Contract!vars
    <2>1. stage = "unproven" /\ stage' = "unproven"
      BY <1>1, <1>2, <1>3 DEF BuilderSession
    <2> QED
      BY <2>1, <1>3, <1>still DEF BuilderSession
  <1>4. ASSUME NEW a, NEW b, ReproGate(a, b)
        PROVE  [Contract!Next]_(Contract!vars)
    <2>1. UNCHANGED <<review_verdict, revised, remote>> /\ stage = "unproven"
      BY <1>1, <1>4 DEF ReproGate
    <2>2. CASE pc' \in {"build", "repro"} /\ UNCHANGED outcome
      BY <1>1, <1>2, <1>still, <2>1, <2>2
    <2>3. CASE pc' = "record" /\ outcome' = "cannot_reproduce"
      BY <1>1, <1>fail, <1>reports, <2>1, <2>3
    <2> QED
      BY <1>4, <2>2, <2>3 DEF ReproGate
  <1>5. ASSUME NEW ok \in BOOLEAN, BuildGate(ok) \/ ReviseGate(ok)
        PROVE  [Contract!Next]_(Contract!vars)
    <2>1. UNCHANGED <<review_verdict, revised, remote>> /\ stage = "unproven"
      BY <1>1, <1>5 DEF BuildGate, ReviseGate
    <2>2. CASE pc' \in {"settle", "final_review"} /\ UNCHANGED outcome
      BY <1>2, <2>1, <2>2 DEF Contract!Next, Contract!GreenGate
    <2>3. CASE pc' = "retry" /\ UNCHANGED outcome
      BY <1>1, <1>2, <1>still, <2>1, <2>3
    <2>4. CASE pc' = "record" /\ outcome' = "gate_failed"
      BY <1>1, <1>fail, <1>reports, <2>1, <2>4
    <2> QED
      BY <1>5, <2>2, <2>3, <2>4 DEF BuildGate, ReviseGate, AfterReviseGate
  <1>6. CASE Settle
    <2>1. UNCHANGED <<review_verdict, revised, remote>> /\ stage = "green"
      BY <1>1, <1>6 DEF Settle
    <2>2. CASE pc' = "review" /\ UNCHANGED outcome
      BY <1>1, <1>2, <1>still, <2>1, <2>2
    <2>3. CASE pc' = "record" /\ outcome' = "no_changes"
      BY <1>1, <1>fail, <1>reports, <2>1, <2>3
    <2> QED
      BY <1>6, <2>2, <2>3 DEF Settle
  <1>7. ASSUME NEW v \in Verdicts, ReviewSession(v)
        PROVE  Contract!Next
    <2>1. /\ stage = "green" /\ review_verdict' = v /\ UNCHANGED remote
          /\ pc \in {"review", "final_review"}
      BY <1>1, <1>7 DEF ReviewSession, ReviewerPcs
    <2>2. CASE SendsBack(v)
      <3>1. ~revised
        BY <2>2 DEF SendsBack, RefineInv, FirstReviewInv, RevisedPcs
      <3>2. revised' = TRUE /\ pc' = "revise" /\ UNCHANGED outcome /\ v = "REQUEST_CHANGES"
        BY <1>7, <2>2 DEF ReviewSession, SendsBack, Verdicts
      <3>3. stage' = "unproven"
        BY <1>2, <3>2
      <3> QED
        BY <2>1, <3>1, <3>2, <3>3 DEF Contract!Next, Contract!SendBack
    <2>3. CASE ~SendsBack(v)
      <3>1. v = "APPROVE" \/ revised
        BY <2>1, <2>3 DEF SendsBack, RefineInv, RevisedInv
      <3>2. UNCHANGED revised /\ \/ pc' \in {"retro", "push"} /\ UNCHANGED outcome
                                 \/ pc' = "record" /\ outcome' = "completed_no_pr"
        BY <1>7, <2>3 DEF ReviewSession, AfterReview
      <3>3. Contract!Accept(v)
        BY <1>2, <2>1, <3>1, <3>2 DEF Contract!Accept
      <3> QED
        BY <3>3 DEF Contract!Next, Verdicts
    <2> QED
      BY <2>2, <2>3
  <1>8. CASE SessionFails \/ OutOfBudget
    <2>1. /\ pc \in SessionPcs \cup GatePcs /\ pc' = "record"
          /\ outcome' \in {"error", "timeout"}
          /\ UNCHANGED <<review_verdict, revised, remote>>
      BY <1>8 DEF SessionFails, OutOfBudget
    <2>2. stage \in {"unproven", "green"} /\ pc \notin StoppedPcs
      BY <1>1, <2>1 DEF SessionPcs, BuilderPcs, ReviewerPcs, GatePcs
    <2> QED
      BY <1>fail, <1>reports, <2>1, <2>2
  <1>9. CASE Push
    <2>1. stage = "judged" /\ stage' = "published"
      BY <1>1, <1>2, <1>9 DEF Push
    <2>2. remote' # NoTree /\ UNCHANGED <<review_verdict, revised, outcome>>
      BY <1>9, NoTreeAssumption DEF Push, RefineInv
    <2> QED
      BY <2>1, <2>2 DEF Contract!Next, Contract!Publish
  <1>10. CASE PushFails
    <2>1. stage = "judged" /\ stage' = "ended"
      BY <1>1, <1>2, <1>10 DEF PushFails
    <2>2. outcome' = "error" /\ UNCHANGED <<review_verdict, revised>>
      BY <1>10 DEF PushFails
    <2>3. Contract!PublishFails
      BY <2>1, <2>2 DEF Contract!PublishFails
    <2> QED
      BY <2>3 DEF Contract!Next
  <1>11. CASE GhCreate
    <2>1. stage = "published" /\ stage' = "ended"
      BY <1>1, <1>2, <1>11 DEF GhCreate
    <2> QED
      BY <1>11, <2>1 DEF GhCreate, Contract!Next, Contract!ReportPr
  <1>12. CASE GhCreateFails
    BY <1>12, <1>fail, <1>reports DEF GhCreateFails
  <1>13. CASE RetroSession
    <2>1. stage = "judged" /\ stage' = "judged"
      BY <1>1, <1>2, <1>13 DEF RetroSession
    <2> QED
      BY <1>13, <1>still, <2>1 DEF RetroSession
  <1>14. CASE Create \/ StartRow \/ CommitRepro
    <2>1. stage = "unproven" /\ stage' = "unproven"
      BY <1>1, <1>2, <1>14 DEF Create, StartRow, CommitRepro
    <2> QED
      BY <1>14, <1>still, <2>1 DEF Create, StartRow, CommitRepro
  <1>15. CASE CreateFails
    BY <1>15, <1>fail, <1>reports, <1>none DEF CreateFails
  <1>16. CASE FinishRow \/ WriteJournal \/ JournalFails \/ CleanupAfterPr \/ Unwind
    <2>1. pc \in StoppedPcs /\ pc' \in StoppedPcs
      BY <1>16 DEF FinishRow, WriteJournal, AfterRecord, JournalFails, CleanupAfterPr, Unwind
    <2>2. UNCHANGED <<review_verdict, revised, remote, outcome>>
      BY <1>16 DEF FinishRow, WriteJournal, JournalFails, CleanupAfterPr, Unwind
    <2> QED
      BY <1>1, <1>2, <1>still, <2>1, <2>2
  <1>17. CASE Interrupt \/ MissionControlHangs \/ Kill
    <2>1. pc' \in StoppedPcs /\ UNCHANGED <<review_verdict, revised, remote, outcome>>
      BY <1>17 DEF Interrupt, MissionControlHangs, Kill
    <2>2. CASE pc \in StoppedPcs
      BY <1>1, <1>2, <1>still, <2>1, <2>2
    <2>3. CASE pc \notin StoppedPcs
      BY <1>fail, <1>reports, <1>none, <2>1, <2>3
    <2> QED
      BY <2>2, <2>3
  <1>18. CASE Ended \/ UNCHANGED vars
    <2>1. UNCHANGED <<pc, review_verdict, revised, remote, outcome>>
      BY <1>18 DEF Ended, vars
    <2>2. stage' = stage
      BY <2>1 DEF stage
    <2> QED
      BY <1>still, <2>1, <2>2
  <1> QED
    BY <1>3, <1>4, <1>5, <1>6, <1>7, <1>8, <1>9, <1>10, <1>11, <1>12, <1>13, <1>14, <1>15, <1>16,
       <1>17, <1>18
    DEF Next, Step, ReproSession, BuildSession, RetrySession, ReviseSession

\* The contract without its fairness, which is liveness.
KeepsContract == Contract!Init /\ [][Contract!Next]_(Contract!vars)

\* Every behaviour of the loop is one of the contract: nothing is judged before a green
\* gate, sent back twice, published unjudged, or reported otherwise than its stage allows.
THEOREM RunKeepsContract == Spec => KeepsContract
  <1>1. Init => Contract!Init
    <2>1. pc = "create" => stage = "unproven"
      BY Stages DEF GreenStage, StoppedPcs
    <2>2. remote = NoTree => (remote # NoTree) = FALSE
      OBVIOUS
    <2> QED
      BY <2>1, <2>2 DEF Init, Contract!Init
  <1> QED
    BY <1>1, ContractStep, RefineInvariant, PTL DEF Spec, KeepsContract

=============================================================================
