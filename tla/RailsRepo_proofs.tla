--------------------------- MODULE RailsRepo_proofs ---------------------------
(***************************************************************************)
(* What runs on one repository cannot do to each other, for any number of  *)
(* runs and of names.                                                      *)
(***************************************************************************)
EXTENDS RailsRepo, TLAPS

USE NoTaskAssumption, IdsAssumption

-----------------------------------------------------------------------------
(* Worktrees.                                                               *)

TaskType == [pc : Ends \cup InBlock \cup {"start"}, outcome : Outcomes, wrote : BOOLEAN]

NamesOK ==
  /\ checkouts \in [ShortIds -> Tasks \cup {NoTask}]
  /\ branches \in [ShortIds -> Tasks \cup {NoTask}]
  /\ wt \in [Tasks -> ShortIds \cup {NoId}]
  /\ task \in [Tasks -> TaskType]

\* A run that has a worktree to keep was given one.
HasName(t) == At(t, InBlock \cup {"returned"}) => wt[t] \in ShortIds

Kept(t) ==
  /\ At(t, InBlock) => checkouts[wt[t]] = t /\ branches[wt[t]] = t
  /\ At(t, {"returned"}) =>
       /\ branches[wt[t]] = t
       /\ task[t].outcome = "completed_no_pr" => checkouts[wt[t]] = t

WorkInv == NamesOK /\ \A t \in Tasks : HasName(t) /\ Kept(t)

LEMMA WorkInit == Init => WorkInv
  BY DEF Init, WorktreesInit, WorkInv, NamesOK, HasName, Kept, At, TaskType, InBlock, Ends,
         Outcomes

\* A step that moves one run, inside its block or out of it, and leaves all worktrees alone.
LEMMA Moves ==
  ASSUME WorkInv, NEW t \in Tasks, At(t, InBlock), UNCHANGED worktreeVars,
         task' \in [Tasks -> TaskType], task'[t].pc \in Ends \cup InBlock,
         \A s \in Tasks \ {t} : task'[s] = task[s]
  PROVE  WorkInv'
<1>1. NamesOK'
  BY DEF WorkInv, NamesOK, worktreeVars
<1>2. ASSUME NEW s \in Tasks PROVE HasName(s)' /\ Kept(s)'
  <2>1. CASE s = t
    BY <2>1 DEF WorkInv, HasName, Kept, At, worktreeVars
  <2>2. CASE s # t
    BY <2>2 DEF WorkInv, HasName, Kept, At, worktreeVars
  <2> QED
    BY <2>1, <2>2
<1> QED
  BY <1>1, <1>2 DEF WorkInv

\* A run takes its worktree away and is in its block no longer.
LEMMA RemovesOwn ==
  ASSUME WorkInv, NEW t \in Tasks, NEW delete_branch \in BOOLEAN, At(t, InBlock),
         Removes(t, delete_branch), NEW place \in {"raised", "returned"}, Goto(t, place),
         place = "returned" => ~delete_branch /\ task[t].outcome # "completed_no_pr"
  PROVE  WorkInv'
<1>1. task' \in [Tasks -> TaskType] /\ task'[t].pc = place /\ task'[t].outcome = task[t].outcome
      /\ \A s \in Tasks \ {t} : task'[s] = task[s]
  BY DEF Goto, WorkInv, NamesOK, TaskType, Ends
<1>2. wt[t] \in ShortIds /\ checkouts[wt[t]] = t /\ branches[wt[t]] = t
  BY DEF WorkInv, HasName, Kept, At
<1>3. /\ wt' = wt
      /\ checkouts' \in [ShortIds -> Tasks \cup {NoTask}]
      /\ branches' \in [ShortIds -> Tasks \cup {NoTask}]
      /\ \A i \in ShortIds \ {wt[t]} : checkouts'[i] = checkouts[i] /\ branches'[i] = branches[i]
      /\ ~delete_branch => branches' = branches
  BY <1>2 DEF Removes, WorkInv, NamesOK
<1>4. NamesOK'
  BY <1>1, <1>3 DEF WorkInv, NamesOK
<1>5. ASSUME NEW s \in Tasks PROVE HasName(s)' /\ Kept(s)'
  <2>1. CASE s = t
    BY <1>1, <1>2, <1>3, <2>1 DEF WorkInv, HasName, Kept, At, InBlock
  <2>2. CASE s # t
    <3>1. task'[s] = task[s] /\ wt'[s] = wt[s]
      BY <1>1, <1>3, <2>2
    <3>2. HasName(s)'
      BY <3>1 DEF WorkInv, HasName, At
    <3>3. ASSUME wt[s] \in ShortIds, wt[s] # wt[t] PROVE Kept(s)'
      BY <1>3, <3>1, <3>3 DEF WorkInv, Kept, At
    <3>4. ASSUME At(s, InBlock \cup {"returned"}) PROVE wt[s] # wt[t] /\ wt[s] \in ShortIds
      BY <1>2, <2>2, <3>4 DEF WorkInv, HasName, Kept, At
    <3>5. ~At(s, InBlock \cup {"returned"}) => Kept(s)'
      BY <3>1 DEF Kept, At
    <3> QED
      BY <3>2, <3>3, <3>4, <3>5
  <2> QED
    BY <2>1, <2>2
<1> QED
  BY <1>4, <1>5 DEF WorkInv

\* A name that is not free stays whose it is, and a run gets only a free one.
LEMMA EntersSafely ==
  ASSUME WorkInv, NEW t \in Tasks, Enters(t)
  PROVE  WorkInv'
<1> DEFINE Keeps(s) == At(s, InBlock \cup {"returned"}) => branches[wt[s]] = s
<1>0. At(t, {"start"})
  BY DEF Enters
<1>1. \A s \in Tasks : Keeps(s)
  BY DEF WorkInv, Kept, At
<1>2. \A s \in Tasks, i \in ShortIds : Free(i) /\ At(s, InBlock \cup {"returned"}) => wt[s] # i
  BY <1>1 DEF Free
<1>3. ASSUME NEW i \in ShortIds, create(t, i), Goto(t, "inside") PROVE WorkInv'
  <2>1. task' \in [Tasks -> TaskType] /\ task'[t].pc = "inside"
        /\ \A s \in Tasks \ {t} : task'[s] = task[s]
    BY <1>3 DEF Goto, WorkInv, NamesOK, TaskType, InBlock
  <2>2. /\ checkouts' = [checkouts EXCEPT ![i] = t] /\ branches' = [branches EXCEPT ![i] = t]
        /\ wt' = [wt EXCEPT ![t] = i] /\ Free(i)
    BY <1>3 DEF create, Added
  <2>3. NamesOK'
    BY <2>1, <2>2 DEF WorkInv, NamesOK
  <2>4. ASSUME NEW s \in Tasks PROVE HasName(s)' /\ Kept(s)'
    <3>1. CASE s = t
      BY <2>1, <2>2, <3>1 DEF WorkInv, NamesOK, HasName, Kept, At
    <3>2. CASE s # t
      BY <1>2, <2>1, <2>2, <3>2 DEF WorkInv, NamesOK, HasName, Kept, At
    <3> QED
      BY <3>1, <3>2
  <2> QED
    BY <2>3, <2>4 DEF WorkInv
<1>4. ASSUME NEW i \in ShortIds, CreateRaises(t, i), Goto(t, "raised") PROVE WorkInv'
  <2>1. task' \in [Tasks -> TaskType] /\ task'[t].pc = "raised"
        /\ \A s \in Tasks \ {t} : task'[s] = task[s]
    BY <1>4 DEF Goto, WorkInv, NamesOK, TaskType, Ends
  <2>2. /\ checkouts' = checkouts \/ checkouts' = [checkouts EXCEPT ![i] = t]
        /\ branches' = branches \/ branches' = [branches EXCEPT ![i] = t]
        /\ wt' = wt
        /\ Free(i) \/ UNCHANGED <<checkouts, branches>>
    BY <1>4 DEF CreateRaises, Added, AfterFailedAdd
  <2>3. NamesOK'
    BY <2>1, <2>2 DEF WorkInv, NamesOK
  <2>4. ASSUME NEW s \in Tasks PROVE HasName(s)' /\ Kept(s)'
    <3>1. CASE s = t
      BY <2>1, <3>1 DEF HasName, Kept, At, InBlock
    <3>2. CASE s # t
      BY <1>2, <2>1, <2>2, <3>2 DEF WorkInv, NamesOK, HasName, Kept, At
    <3> QED
      BY <3>1, <3>2
  <2> QED
    BY <2>3, <2>4 DEF WorkInv
<1> QED
  BY <1>3, <1>4 DEF Enters

LEMMA WorkStep == WorkInv /\ [Next]_vars => WorkInv'
<1> SUFFICES ASSUME WorkInv, [Next]_vars PROVE WorkInv'
  OBVIOUS
<1>1. ASSUME NEW t \in Tasks, Enters(t) PROVE WorkInv'
  BY <1>1, EntersSafely
<1>3. ASSUME NEW t \in Tasks, At(t, InBlock), UNCHANGED worktreeVars,
             NEW place \in Ends \cup InBlock, Goto(t, place)
      PROVE  WorkInv'
  <2>1. task' \in [Tasks -> TaskType] /\ task'[t].pc = place
        /\ \A s \in Tasks \ {t} : task'[s] = task[s]
    BY <1>3 DEF Goto, WorkInv, NamesOK, TaskType
  <2> QED
    BY <1>3, <2>1, Moves
<1>4. ASSUME NEW t \in Tasks, StartsGate(t) PROVE WorkInv'
  BY <1>3, <1>4 DEF StartsGate, At, InBlock
<1>5. ASSUME NEW t \in Tasks, RunsPytest(t) PROVE WorkInv'
  BY <1>5 DEF RunsPytest, worktreeVars, WorkInv, NamesOK, HasName, Kept, At
<1>6. ASSUME NEW t \in Tasks, GateAnswers(t) PROVE WorkInv'
  BY <1>3, <1>6 DEF GateAnswers, At, InBlock
<1>7. ASSUME NEW t \in Tasks,
             CutsOffGate(t) \/ \E outcome \in Outcomes \ {"none"} : Concludes(t, outcome)
      PROVE  WorkInv'
  <2>1. At(t, InBlock) /\ UNCHANGED worktreeVars
    BY <1>7 DEF Concludes, CutsOffGate, At, InBlock
  <2>2. task' \in [Tasks -> TaskType] /\ task'[t].pc = "recording"
        /\ \A s \in Tasks \ {t} : task'[s] = task[s]
    <3>1. PICK outcome \in Outcomes :
            task' = [task EXCEPT ![t].pc = "recording", ![t].outcome = outcome]
      BY <1>7 DEF Concludes, CutsOffGate, Outcomes
    <3> QED
      BY <3>1 DEF WorkInv, NamesOK, TaskType, InBlock
  <2> QED
    BY <2>1, <2>2, Moves DEF InBlock
<1>8. ASSUME NEW t \in Tasks, Records(t) PROVE WorkInv'
  <2>1. At(t, InBlock) /\ UNCHANGED worktreeVars
    BY <1>8 DEF Records, At, InBlock
  <2>2. CASE Goto(t, "unwinding")
    BY <1>3, <2>1, <2>2 DEF InBlock
  <2>3. CASE task' = [task EXCEPT ![t].pc = "recorded", ![t].wrote = TRUE]
    <3>1. task' \in [Tasks -> TaskType] /\ task'[t].pc = "recorded"
          /\ \A s \in Tasks \ {t} : task'[s] = task[s]
      BY <2>3 DEF WorkInv, NamesOK, TaskType, InBlock
    <3> QED
      BY <2>1, <3>1, Moves DEF InBlock
  <2> QED
    BY <1>8, <2>2, <2>3 DEF Records
<1>9. ASSUME NEW t \in Tasks, Leaves(t) PROVE WorkInv'
  <2>1. At(t, InBlock)
    BY <1>9 DEF Leaves, At, InBlock
  <2>2. CASE UNCHANGED worktreeVars
    BY <1>3, <1>9, <2>1, <2>2 DEF Leaves, InBlock, Ends
  <2>3. CASE task[t].outcome = "pr_opened" /\ Goto(t, "returned") /\ Removes(t, FALSE)
    BY <2>1, <2>3, RemovesOwn
  <2> QED
    BY <1>9, <2>2, <2>3 DEF Leaves, CleanupRaises
<1>10. ASSUME NEW t \in Tasks, Unwinds(t) PROVE WorkInv'
  <2>1. At(t, InBlock) /\ Goto(t, "raised")
    BY <1>10 DEF Unwinds, At, InBlock
  <2>2. CASE Removes(t, TRUE)
    BY <2>1, <2>2, RemovesOwn
  <2>3. CASE UNCHANGED worktreeVars
    BY <1>3, <2>1, <2>3 DEF Ends
  <2> QED
    BY <1>10, <2>2, <2>3 DEF Unwinds, CleanupRaises
<1>11. ASSUME NEW t \in Tasks, Interrupted(t) \/ Killed(t) PROVE WorkInv'
  <2>1. At(t, InBlock) /\ UNCHANGED worktreeVars
    BY <1>11 DEF Interrupted, Killed, At
  <2>2. CASE Goto(t, "unwinding")
    BY <1>3, <2>1, <2>2 DEF InBlock
  <2>3. CASE Goto(t, "killed")
    BY <1>3, <2>1, <2>3 DEF Ends
  <2> QED
    BY <1>11, <2>2, <2>3 DEF Interrupted, Killed
<1>12. CASE BeforeTheTasks \/ AllOver \/ UNCHANGED vars
  BY <1>12 DEF BeforeTheTasks, AllOver, vars, worktreeVars, WorkInv, NamesOK, HasName, Kept, At
<1> QED
  BY <1>1, <1>4, <1>5, <1>6, <1>7, <1>8, <1>9, <1>10, <1>11, <1>12 DEF Next, Runs

\* Runs with colliding names, failing, interrupted or killed at any point, never cost
\* another run its checkout or its branch (create, cleanup, worktree_for).
THEOREM WorkStaysKept == Spec => []WorkIsKept
<1>1. WorkInv => WorkIsKept
  BY DEF WorkInv, Kept, WorkIsKept
<1> QED
  BY <1>1, WorkInit, WorkStep, PTL DEF Spec

-----------------------------------------------------------------------------
(* The shared database.                                                     *)

\* An undisturbed process is alone, and knows what is in the tables.
Alone(t) ==
  pytest[t] # "none" =>
    /\ \A s \in Tasks : pytest[s] # "none" => s = t
    /\ pytest[t] = "cleaned" => rows = {}
    /\ pytest[t] = "written" => rows = {t}

OwnVerdict(t) == verdict[t] # "none" => (verdict[t] = "green" <=> tree_ok[t] = TRUE)

DatabaseInv == DatabaseOK /\ \A t \in Tasks \ disturbed : Alone(t) /\ OwnVerdict(t)

LEMMA DatabaseInvInit == Init => DatabaseInv
  BY DEF Init, DatabaseInit, DatabaseInv, DatabaseOK, Alone, OwnVerdict

LEMMA StartsSafely ==
  ASSUME DatabaseInv, NEW t \in Tasks, NEW ok \in BOOLEAN, StartsPytest(t, ok)
  PROVE  DatabaseInv'
<1> USE DEF DatabaseInv, StartsPytest
<1>1. DatabaseOK'
  BY DEF DatabaseOK, Running
<1>2. ASSUME NEW s \in Tasks \ disturbed', s # t PROVE pytest'[s] = "none" /\ OwnVerdict(s)'
  <2>1. s \notin disturbed /\ s \notin Running
    BY <1>2
  <2> QED
    BY <1>2, <2>1 DEF OwnVerdict, Running, DatabaseOK
<1>3. ASSUME t \notin disturbed' PROVE Running = {} /\ verdict'[t] = "none" /\ pytest'[t] = "started"
  BY <1>3 DEF DatabaseOK
<1>4. ASSUME NEW s \in Tasks \ disturbed' PROVE Alone(s)'
  BY <1>2, <1>3, <1>4 DEF Alone, Running, DatabaseOK
<1>5. ASSUME NEW s \in Tasks \ disturbed' PROVE OwnVerdict(s)'
  BY <1>2, <1>3, <1>5 DEF OwnVerdict
<1> QED
  BY <1>1, <1>4, <1>5

LEMMA TestsSafely ==
  ASSUME DatabaseInv, NEW t \in Tasks, PytestStep(t)
  PROVE  DatabaseInv'
<1> USE DEF DatabaseInv, PytestStep
<1>0. disturbed' = disturbed /\ tree_ok' = tree_ok /\ pytest[t] # "none"
  BY DEF clean_tables, WritesRows, Asserts
<1>1. DatabaseOK'
  <2>1. CASE clean_tables(t)
    BY <2>1 DEF clean_tables, DatabaseOK, Truncated
  <2>2. CASE WritesRows(t)
    BY <2>2 DEF WritesRows, DatabaseOK
  <2>3. CASE Asserts(t)
    BY <2>3 DEF Asserts, DatabaseOK
  <2> QED
    BY <2>1, <2>2, <2>3
<1>2. ASSUME NEW s \in Tasks \ disturbed, s # t PROVE Alone(s)' /\ OwnVerdict(s)'
  <2>1. pytest[s] = "none"
    BY <1>0, <1>2 DEF Alone
  <2>2. pytest'[s] = pytest[s] /\ verdict'[s] = verdict[s]
    BY <1>2 DEF clean_tables, WritesRows, Asserts, DatabaseOK
  <2> QED
    BY <1>0, <1>2, <2>1, <2>2 DEF Alone, OwnVerdict
<1>3. ASSUME t \notin disturbed PROVE Alone(t)' /\ OwnVerdict(t)'
  <2>1. \A s \in Tasks : pytest'[s] # "none" => s = t
    BY <1>0, <1>3 DEF Alone, clean_tables, WritesRows, Asserts, DatabaseOK
  <2>2. CASE clean_tables(t)
    BY <1>0, <1>3, <2>1, <2>2 DEF clean_tables, Truncated, DatabaseOK, Alone, OwnVerdict
  <2>3. CASE WritesRows(t)
    BY <1>0, <1>3, <2>1, <2>3 DEF WritesRows, DatabaseOK, Alone, OwnVerdict
  <2>4. CASE Asserts(t)
    <3>1. rows = {t}
      BY <1>3, <2>4 DEF Asserts, Alone
    <3>2. verdict'[t] = IF tree_ok[t] THEN "green" ELSE "red"
      BY <2>4, <3>1 DEF Asserts, DatabaseOK
    <3>3. pytest'[t] = "none" /\ tree_ok[t] \in BOOLEAN
      BY <2>4 DEF Asserts, DatabaseOK
    <3> QED
      BY <1>0, <3>2, <3>3 DEF Alone, OwnVerdict
  <2> QED
    BY <2>2, <2>3, <2>4
<1> QED
  BY <1>0, <1>1, <1>2, <1>3

LEMMA AbandonsSafely ==
  ASSUME DatabaseInv, NEW t \in Tasks, Abandoned(t)
  PROVE  DatabaseInv'
  BY DEF DatabaseInv, DatabaseOK, Abandoned, Alone, OwnVerdict

LEMMA DatabaseStep == DatabaseInv /\ [Next]_vars => DatabaseInv'
<1> SUFFICES ASSUME DatabaseInv, [Next]_vars PROVE DatabaseInv'
  OBVIOUS
<1>1. ASSUME UNCHANGED databaseVars PROVE DatabaseInv'
  BY <1>1 DEF databaseVars, DatabaseInv, DatabaseOK, Alone, OwnVerdict
<1>2. ASSUME NEW t \in Tasks, StartsGate(t) PROVE DatabaseInv'
  BY <1>2, StartsSafely DEF StartsGate
<1>3. ASSUME NEW t \in Tasks, RunsPytest(t) PROVE DatabaseInv'
  BY <1>3, TestsSafely DEF RunsPytest
<1>4. ASSUME NEW t \in Tasks, CutsOffGate(t) \/ Interrupted(t) \/ Killed(t) PROVE DatabaseInv'
  BY <1>4, AbandonsSafely DEF CutsOffGate, Interrupted, Killed
<1>5. ASSUME NEW t \in Tasks,
             Enters(t) \/ GateAnswers(t) \/ Records(t) \/ Leaves(t) \/ Unwinds(t)
             \/ \E outcome \in Outcomes : Concludes(t, outcome)
      PROVE  DatabaseInv'
  BY <1>1, <1>5 DEF Enters, GateAnswers, Records, Leaves, Unwinds, Concludes
<1>6. CASE BeforeTheTasks \/ AllOver \/ UNCHANGED vars
  BY <1>1, <1>6 DEF BeforeTheTasks, AllOver, vars
<1> QED
  BY <1>2, <1>3, <1>4, <1>5, <1>6 DEF Next, Runs

\* However many runs share the database, a pytest answer that no other process overlapped
\* is the tree's own: nothing an earlier run left behind reaches it (clean_tables).
THEOREM VerdictsAreOwn == Spec => []VerdictIsTheTrees
<1>1. DatabaseInv => VerdictIsTheTrees
  BY DEF DatabaseInv, DatabaseOK, OwnVerdict, VerdictIsTheTrees
<1> QED
  BY <1>1, DatabaseInvInit, DatabaseStep, PTL DEF Spec

-----------------------------------------------------------------------------
(* The journal.  Each line is the parts that were cut short and then one    *)
(* text; an open line ends with a part; a run that has not yet recorded has *)
(* no row, and one that records gets one.                                   *)

Line == Seq(Rows \cup {Torn})

LineOK(line) ==
  line \in Line /\ Len(line) > 0 /\ \A k \in 1..(Len(line) - 1) : line[k] = Torn

\* The rows of the runs follow the earlier ones, one for each that wrote.
InOrder ==
  /\ \A i \in Recorded : task[Ending(i).task].wrote
  /\ \A t \in Tasks : task[t].wrote => \E i \in Recorded : Ending(i).task = t
  /\ \A i, j \in Recorded : Ending(i).task = Ending(j).task => i = j
  /\ \A i \in Recorded, j \in DOMAIN lines : j > i => j \in Recorded \/ Ending(j) = Torn

OpenIsTorn == open_line => lines # <<>> /\ Ending(Len(lines)) = Torn

NotYetWritten == \A t \in Tasks : At(t, {"start", "inside", "gate", "recording"}) => ~task[t].wrote

JournalInv ==
  /\ lines \in Seq(Line) /\ open_line \in BOOLEAN
  /\ OpenIsTorn /\ NotYetWritten
  /\ \A i \in DOMAIN lines : LineOK(lines[i])
  /\ InOrder

LEMMA LenOfSeq ==
  ASSUME NEW S, NEW s \in Seq(S)
  PROVE  Len(s) \in Nat /\ DOMAIN s = 1..Len(s)
  OBVIOUS

LEMMA TornIsNoRow == Torn \notin Rows
<1>1. DOMAIN Torn = {"task"}
  BY DEF Torn
<1>2. \A row \in Rows : "outcome_known" \in DOMAIN row
  BY DEF Rows
<1> QED
  BY <1>1, <1>2

LEMMA EndsWith == \A line : Len(line) = 1 => Last(line) = line[1]
  BY DEF Last

LEMMA JournalInvInit == Init => JournalInv
<1> SUFFICES ASSUME Init PROVE JournalInv
  OBVIOUS
<1> DEFINE Old == [task : {"earlier"}, outcome_known : BOOLEAN]
<1>1. PICK heritage \in Heritages : lines = [i \in DOMAIN heritage |-> <<heritage[i]>>]
  BY DEF Init, JournalInit
<1>2. heritage \in Seq(Old)
  BY HeritageAssumption
<1>3. \A i \in DOMAIN heritage : heritage[i] \in Old
  <2> HIDE DEF Old
  <2>1. DOMAIN heritage = 1..Len(heritage)
    BY <1>2
  <2>2. \A i \in 1..Len(heritage) : heritage[i] \in Old
    BY <1>2
  <2> QED
    BY <2>1, <2>2
<1>4. \A i \in DOMAIN heritage : heritage[i] \in Rows
  <2>1. ASSUME NEW row \in Old PROVE row \in Rows
    BY DEF Rows
  <2> QED
    BY <1>3, <2>1
<1>5. lines \in Seq(Line) /\ DOMAIN lines = DOMAIN heritage
  <2>1. Len(heritage) \in Nat /\ DOMAIN heritage = 1..Len(heritage)
    BY <1>2
  <2>2. \A i \in 1..Len(heritage) : <<heritage[i]>> \in Line
    BY <1>4, <2>1 DEF Line
  <2> QED
    BY <1>1, <2>1, <2>2
<1>6. ASSUME NEW i \in DOMAIN lines PROVE LineOK(lines[i]) /\ Ending(i).task = "earlier"
  <2>1. lines[i] = <<heritage[i]>> /\ heritage[i] \in Old /\ heritage[i] \in Rows
    BY <1>1, <1>3, <1>4, <1>6
  <2>2. <<heritage[i]>> \in Line /\ Len(<<heritage[i]>>) = 1
    BY <2>1 DEF Line
  <2>3. Ending(i) = heritage[i]
    BY <2>1, <2>2, EndsWith DEF Ending
  <2> QED
    BY <2>1, <2>2, <2>3 DEF LineOK
<1>7. Recorded = {}
  BY <1>6, EarlierAssumption DEF Recorded
<1>8. task = [t \in Tasks |-> [pc |-> "start", outcome |-> "none", wrote |-> FALSE]]
      /\ open_line = FALSE
  BY DEF Init, JournalInit
<1> QED
  BY <1>5, <1>6, <1>7, <1>8 DEF JournalInv, OpenIsTorn, NotYetWritten, InOrder

\* A step that writes nothing.
LEMMA JournalStays ==
  ASSUME JournalInv, UNCHANGED journalVars,
         \A t \in Tasks : task'[t].wrote = task[t].wrote,
         \A t \in Tasks : task'[t].pc \in {"start", "inside", "gate", "recording"}
                            => task[t].pc \in {"start", "inside", "gate", "recording"}
  PROVE  JournalInv'
<1>1. lines' = lines /\ Recorded' = Recorded /\ \A i : Ending(i)' = Ending(i)
  BY DEF journalVars, Recorded, Ending
<1>2. OpenIsTorn'
  BY <1>1 DEF JournalInv, OpenIsTorn, journalVars
<1>3. NotYetWritten'
  BY DEF JournalInv, NotYetWritten, At
<1>4. InOrder'
  <2>1. \A i \in Recorded : Ending(i).task \in Tasks
    BY DEF Recorded
  <2> QED
    BY <1>1, <2>1 DEF JournalInv, InOrder
<1> QED
  BY <1>1, <1>2, <1>3, <1>4 DEF JournalInv, journalVars

LEMMA AppendShows ==
  ASSUME NEW line \in Line, NEW text \in Rows \cup {Torn},
         \A k \in 1..Len(line) : line[k] = Torn
  PROVE  LineOK(Append(line, text)) /\ Last(Append(line, text)) = text
<1>1. Append(line, text) \in Line /\ Len(Append(line, text)) = Len(line) + 1 /\ Len(line) \in Nat
  BY DEF Line
<1>2. \A i \in 1..Len(line) : Append(line, text)[i] = line[i]
  BY DEF Line
<1>3. Append(line, text)[Len(line) + 1] = text
  BY DEF Line
<1> QED
  BY <1>1, <1>2, <1>3 DEF LineOK, Last

\* The text ends the last line, and what is glued to it there is torn.
LEMMA WrittenLine ==
  ASSUME JournalInv, NEW text \in Rows \cup {Torn}, NEW complete \in BOOLEAN,
         Written(text, complete)
  PROVE  /\ lines' \in Seq(Line) /\ Len(lines') \in DOMAIN lines' /\ lines' # <<>>
         /\ DOMAIN lines' = DOMAIN lines \cup {Len(lines')}
         /\ \A i \in DOMAIN lines : i <= Len(lines')
         /\ Len(lines') \in DOMAIN lines => Ending(Len(lines')) = Torn
         /\ \A i \in DOMAIN lines \ {Len(lines')} : lines'[i] = lines[i]
         /\ LineOK(lines'[Len(lines')]) /\ Last(lines'[Len(lines')]) = text
<1>1. lines \in Seq(Line) /\ Len(lines) \in Nat /\ DOMAIN lines = 1..Len(lines)
  BY DEF JournalInv
<1>2. CASE open_line
  <2> DEFINE last == lines[Len(lines)]
  <2>1. Len(lines) \in 1..Len(lines) /\ Ending(Len(lines)) = Torn /\ LineOK(last)
    BY <1>1, <1>2 DEF JournalInv, OpenIsTorn
  <2>2. last \in Line /\ \A k \in 1..Len(last) : last[k] = Torn
    <3>1. last \in Line /\ Len(last) \in Nat /\ last[Len(last)] = Torn
      BY <2>1 DEF LineOK, Line, Ending, Last
    <3>2. \A k \in 1..(Len(last) - 1) : last[k] = Torn
      BY <2>1 DEF LineOK
    <3> HIDE DEF last
    <3> QED
      BY <3>1, <3>2
  <2> DEFINE new == Append(last, text)
  <2>3. LineOK(new) /\ Last(new) = text /\ new \in Line
    BY <2>2, AppendShows DEF LineOK
  <2>4. lines' = [lines EXCEPT ![Len(lines)] = new]
    BY <1>2 DEF Written
  <2> HIDE DEF last, new
  <2>5. /\ lines' \in Seq(Line) /\ Len(lines') = Len(lines) /\ DOMAIN lines' = DOMAIN lines
        /\ lines'[Len(lines)] = new
        /\ \A i \in DOMAIN lines \ {Len(lines)} : lines'[i] = lines[i]
    BY <1>1, <2>1, <2>3, <2>4
  <2> QED
    BY <1>1, <2>1, <2>3, <2>5
<1>3. CASE ~open_line
  <2> DEFINE new == <<text>>
  <2>1. lines' = Append(lines, new)
    BY <1>3 DEF Written
  <2>2. new \in Line /\ LineOK(new) /\ Last(new) = text
    BY DEF Line, LineOK, Last
  <2> HIDE DEF new
  <2>3. /\ lines' \in Seq(Line) /\ Len(lines') = Len(lines) + 1
        /\ DOMAIN lines' = 1..(Len(lines) + 1) /\ lines'[Len(lines) + 1] = new
        /\ \A i \in DOMAIN lines : lines'[i] = lines[i]
    BY <1>1, <2>1, <2>2
  <2>4. lines' # <<>>
    BY <1>1, <2>3
  <2> QED
    BY <1>1, <2>2, <2>3, <2>4
<1> QED
  BY <1>2, <1>3

\* A run that records adds its one row.
LEMMA RecordsRow ==
  ASSUME JournalInv, NEW t \in Tasks, At(t, {"recording"}), record(t),
         task'[t].wrote, task'[t].pc = "recorded",
         \A s \in Tasks \ {t} : task'[s] = task[s]
  PROVE  JournalInv'
<1> DEFINE text == [task |-> t, outcome_known |-> TRUE]
           m == Len(lines')
<1>1. text \in Rows /\ text # Torn /\ text.task = t /\ Written(text, TRUE)
  <2>1. text \in Rows /\ text.task = t
    BY DEF Rows
  <2> QED
    BY <2>1, TornIsNoRow DEF record, EndsLine
<1> HIDE DEF text
<1>2. /\ lines' \in Seq(Line) /\ m \in DOMAIN lines' /\ DOMAIN lines' = DOMAIN lines \cup {m}
      /\ \A i \in DOMAIN lines : i <= m
      /\ m \in DOMAIN lines => Ending(m) = Torn
      /\ \A i \in DOMAIN lines \ {m} : lines'[i] = lines[i]
      /\ LineOK(lines'[m]) /\ Last(lines'[m]) = text
  BY <1>1, WrittenLine
<1>3. DOMAIN lines' = 1..m /\ m \in Nat
  <2>1. lines' \in Seq(Line)
    BY <1>2
  <2> QED
    BY <2>1, LenOfSeq
<1>4. open_line' = FALSE /\ ~task[t].wrote
  BY <1>1 DEF Written, JournalInv, NotYetWritten, At
<1>5. NotYetWritten'
  BY <1>4 DEF JournalInv, NotYetWritten, At
<1>6. m \notin Recorded /\ \A i \in Recorded : i \in DOMAIN lines \ {m} /\ i < m
  <2>1. m \in Nat
    BY <1>3
  <2>2. DOMAIN lines = 1..Len(lines) /\ Len(lines) \in Nat
    BY LenOfSeq DEF JournalInv
  <2>3. ASSUME NEW i \in Recorded PROVE i \in DOMAIN lines \ {m}
    BY <1>2 DEF Recorded
  <2>4. m \notin Recorded
    BY <2>3
  <2>5. ASSUME NEW i \in Recorded PROVE i < m
    <3>1. i \in DOMAIN lines /\ i # m /\ i <= m
      BY <1>2, <2>3
    <3> HIDE DEF m
    <3> QED
      BY <2>1, <2>2, <3>1
  <2> QED
    BY <2>3, <2>4, <2>5
<1> DEFINE E(i) == Last(lines'[i])
<1>7. E(m) = text /\ \A i \in DOMAIN lines \ {m} : E(i) = Ending(i)
  BY <1>2 DEF Ending
<1>8. Recorded' = {i \in DOMAIN lines' : E(i) # Torn /\ E(i).task \in Tasks}
  BY DEF Recorded, Ending
<1> HIDE DEF m, E
<1>9. Recorded' = Recorded \cup {m}
  BY <1>1, <1>2, <1>6, <1>7, <1>8 DEF Recorded
<1>10. \A i \in Recorded : Ending(i).task \in Tasks \ {t} /\ E(i) = Ending(i)
  BY <1>4, <1>6, <1>7 DEF JournalInv, InOrder, Recorded
<1>11. InOrder'
  <2>1. \A i \in Recorded' : task'[E(i).task].wrote
    BY <1>1, <1>4, <1>7, <1>9, <1>10 DEF JournalInv, InOrder
  <2>2. ASSUME NEW s \in Tasks, task'[s].wrote PROVE \E i \in Recorded' : E(i).task = s
    BY <1>1, <1>4, <1>7, <1>9, <1>10, <2>2 DEF JournalInv, InOrder
  <2>3. \A i, j \in Recorded' : E(i).task = E(j).task => i = j
    BY <1>1, <1>7, <1>9, <1>10 DEF JournalInv, InOrder
  <2>4. ASSUME NEW i \in Recorded', NEW j \in DOMAIN lines', j > i
        PROVE  j \in Recorded' \/ E(j) = Torn
    <3>1. CASE i = m
      BY <1>3, <2>4, <3>1
    <3>2. CASE i \in Recorded /\ j # m
      BY <1>2, <1>7, <1>9, <2>4, <3>2 DEF JournalInv, InOrder
    <3> QED
      BY <1>9, <3>1, <3>2
  <2> QED
    BY <2>1, <2>2, <2>3, <2>4 DEF InOrder, Ending, E
<1>12. \A i \in DOMAIN lines' : LineOK(lines'[i])
  BY <1>2 DEF JournalInv
<1> QED
  BY <1>2, <1>4, <1>5, <1>11, <1>12 DEF JournalInv, OpenIsTorn

\* A write that the disk cuts short leaves a part at the end, and every row where it is.
LEMMA RaisesTorn ==
  ASSUME JournalInv, NEW t \in Tasks, RecordRaises, Goto(t, "unwinding"),
         task \in [Tasks -> TaskType]
  PROVE  JournalInv'
<1>1. /\ task'[t].wrote = task[t].wrote /\ task'[t].pc = "unwinding"
      /\ \A s \in Tasks \ {t} : task'[s] = task[s]
  BY DEF Goto, TaskType
<1>2. CASE UNCHANGED journalVars
  BY <1>1, <1>2, JournalStays
<1>3. CASE Written(Torn, FALSE)
  <2> DEFINE m == Len(lines')
             E(i) == Last(lines'[i])
  <2>1. /\ lines' \in Seq(Line) /\ m \in DOMAIN lines' /\ DOMAIN lines' = DOMAIN lines \cup {m}
        /\ m \in DOMAIN lines => Ending(m) = Torn
        /\ \A i \in DOMAIN lines \ {m} : lines'[i] = lines[i]
        /\ LineOK(lines'[m]) /\ E(m) = Torn /\ lines' # <<>>
    BY <1>3, WrittenLine
  <2>2. open_line' = TRUE
    BY <1>3 DEF Written
  <2>3. NotYetWritten'
    BY <1>1 DEF JournalInv, NotYetWritten, At
  <2>4. /\ \A i \in DOMAIN lines \ {m} : E(i) = Ending(i)
        /\ m \notin Recorded
    BY <2>1 DEF Ending, Recorded
  <2>5. Recorded' = {i \in DOMAIN lines' : E(i) # Torn /\ E(i).task \in Tasks}
    BY DEF Recorded, Ending
  <2>6. OpenIsTorn' /\ \A i \in DOMAIN lines' : LineOK(lines'[i])
    BY <2>1 DEF OpenIsTorn, Ending, JournalInv
  <2> HIDE DEF m, E
  <2>7. Recorded' = Recorded /\ \A i \in Recorded : E(i) = Ending(i)
    BY <2>1, <2>4, <2>5 DEF Recorded
  <2>8. \A s \in Tasks : task'[s].wrote = task[s].wrote
    BY <1>1
  <2>9. InOrder'
    <3>1. \A i \in Recorded' : task'[E(i).task].wrote
      <4>1. \A i \in Recorded : Ending(i).task \in Tasks
        BY DEF Recorded
      <4> QED
        BY <2>7, <2>8, <4>1 DEF JournalInv, InOrder
    <3>2. \A s \in Tasks : task'[s].wrote => \E i \in Recorded' : E(i).task = s
      BY <2>7, <2>8 DEF JournalInv, InOrder
    <3>3. \A i, j \in Recorded' : E(i).task = E(j).task => i = j
      BY <2>7 DEF JournalInv, InOrder
    <3>4. \A i \in Recorded', j \in DOMAIN lines' : j > i => j \in Recorded' \/ E(j) = Torn
      BY <2>1, <2>4, <2>7 DEF JournalInv, InOrder, E
    <3> QED
      BY <3>1, <3>2, <3>3, <3>4 DEF InOrder, Ending, E
  <2> QED
    BY <2>1, <2>2, <2>3, <2>6, <2>9 DEF JournalInv
<1> QED
  BY <1>2, <1>3 DEF RecordRaises

LEMMA JournalStep == WorkInv /\ JournalInv /\ [Next]_vars => JournalInv'
<1> SUFFICES ASSUME task \in [Tasks -> TaskType], JournalInv, [Next]_vars PROVE JournalInv'
  BY DEF WorkInv, NamesOK
<1>1. ASSUME NEW t \in Tasks, UNCHANGED journalVars, NEW place, Goto(t, place),
             place \in {"start", "inside", "gate", "recording"}
               => task[t].pc \in {"start", "inside", "gate", "recording"}
      PROVE  JournalInv'
  <2>1. /\ task'[t].wrote = task[t].wrote /\ task'[t].pc = place
        /\ \A s \in Tasks \ {t} : task'[s] = task[s]
    BY <1>1 DEF Goto, TaskType
  <2> QED
    BY <1>1, <2>1, JournalStays
<1>2. ASSUME NEW t \in Tasks, Enters(t) \/ StartsGate(t) \/ GateAnswers(t) PROVE JournalInv'
  BY <1>1, <1>2 DEF Enters, StartsGate, GateAnswers, At
<1>3. ASSUME NEW t \in Tasks,
             CutsOffGate(t) \/ \E outcome \in Outcomes \ {"none"} : Concludes(t, outcome)
      PROVE  JournalInv'
  <2>1. PICK outcome \in Outcomes :
          task' = [task EXCEPT ![t].pc = "recording", ![t].outcome = outcome]
    BY <1>3 DEF Concludes, CutsOffGate, Outcomes
  <2>2. task[t].pc \in {"inside", "gate"} /\ UNCHANGED journalVars
    BY <1>3 DEF Concludes, CutsOffGate, At
  <2>3. /\ task'[t].wrote = task[t].wrote
        /\ \A s \in Tasks \ {t} : task'[s] = task[s]
    BY <2>1 DEF TaskType
  <2> QED
    BY <2>2, <2>3, JournalStays
<1>4. ASSUME NEW t \in Tasks, Records(t) PROVE JournalInv'
  <2>1. CASE record(t) /\ task' = [task EXCEPT ![t].pc = "recorded", ![t].wrote = TRUE]
    <3>1. task'[t].wrote /\ task'[t].pc = "recorded"
          /\ \A s \in Tasks \ {t} : task'[s] = task[s]
      BY <2>1 DEF TaskType
    <3> QED
      BY <1>4, <2>1, <3>1, RecordsRow DEF Records
  <2>2. CASE RecordRaises /\ Goto(t, "unwinding")
    BY <2>2, RaisesTorn
  <2> QED
    BY <1>4, <2>1, <2>2 DEF Records
<1>5. ASSUME NEW t \in Tasks, Leaves(t) \/ Unwinds(t) \/ Interrupted(t) \/ Killed(t)
      PROVE  JournalInv'
  BY <1>1, <1>5 DEF Leaves, Unwinds, Interrupted, Killed
<1>6. CASE UNCHANGED <<journalVars, task>>
  BY <1>6, JournalStays
<1>7. ASSUME NEW t \in Tasks, RunsPytest(t) PROVE JournalInv'
  BY <1>6, <1>7 DEF RunsPytest
<1>8. CASE BeforeTheTasks \/ AllOver \/ UNCHANGED vars
  BY <1>6, <1>8 DEF BeforeTheTasks, AllOver, vars
<1> QED
  BY <1>2, <1>3, <1>4, <1>5, <1>7, <1>8 DEF Next, Runs

\* However many runs append to the journal, killed or failing wherever they are and however
\* often the disk is full, each that recorded itself has its one whole row at the end of a
\* line, and `rails runs' fails exactly on a part of a row or an outcome of another version
\* (record, load).
THEOREM JournalIsReadBack == Spec => []JournalReadsBack
<1>1. JournalInv => JournalReadsBack
  <2> SUFFICES ASSUME JournalInv PROVE JournalReadsBack
    OBVIOUS
  <2>1. \A i \in DOMAIN lines : \A k \in 1..(Len(lines[i]) - 1) : lines[i][k] = Torn
    BY DEF JournalInv, LineOK
  <2>2. {Ending(i).task : i \in Recorded} = {t \in Tasks : task[t].wrote}
    BY DEF JournalInv, InOrder, Recorded
  <2>3. ASSUME NEW i \in DOMAIN lines
        PROVE  /\ Torn \in ToSet(lines[i]) <=> Unreadable(lines[i])
               /\ ~Unreadable(lines[i]) => Ending(i) = lines[i][1] /\ Ending(i) \in Rows
    <3>1. LineOK(lines[i])
      BY DEF JournalInv
    <3>2. /\ Len(lines[i]) \in Nat \ {0} /\ DOMAIN lines[i] = 1..Len(lines[i])
          /\ \A k \in DOMAIN lines[i] : lines[i][k] \in Rows \cup {Torn}
      BY <3>1 DEF LineOK, Line
    <3>3. Len(lines[i]) # 1 => 1 \in 1..(Len(lines[i]) - 1) /\ 1 \in DOMAIN lines[i]
      BY <3>2
    <3>4. Len(lines[i]) # 1 => Torn \in ToSet(lines[i])
      BY <3>1, <3>3 DEF LineOK, ToSet
    <3>5. ASSUME ~Unreadable(lines[i]) PROVE Ending(i) = lines[i][1] /\ Ending(i) \in Rows
      <4>1. Len(lines[i]) = 1 /\ lines[i][1] \in ToSet(lines[i]) /\ lines[i][1] # Torn
        BY <3>2, <3>5 DEF Unreadable, ToSet
      <4> QED
        BY <3>2, <4>1 DEF Ending, Last
    <3> QED
      BY <3>4, <3>5 DEF Unreadable
  <2>4. LoadRaises <=>
          \E i \in DOMAIN lines : Torn \in ToSet(lines[i]) \/ ~Ending(i).outcome_known
    BY <2>3 DEF LoadRaises
  <2>5. ASSUME ~LoadRaises
        PROVE  {load[i] : i \in DOMAIN lines} \ {"earlier"} = {t \in Tasks : task[t].wrote}
    <3>1. \A i \in DOMAIN lines : load[i] = Ending(i).task /\ Ending(i) \in Rows
      BY <2>3, <2>5 DEF LoadRaises, load
    <3>2. \A i \in DOMAIN lines : Ending(i).task # "earlier" <=> i \in Recorded
      BY <3>1, EarlierAssumption, TornIsNoRow DEF Recorded, Rows
    <3>3. Recorded \subseteq DOMAIN lines
      BY DEF Recorded
    <3> QED
      BY <2>2, <3>1, <3>2, <3>3
  <2> QED
    BY <2>1, <2>2, <2>4, <2>5 DEF JournalReadsBack, JournalInv, InOrder
<1> QED
  BY <1>1, WorkInit, WorkStep, JournalInvInit, JournalStep, PTL DEF Spec

-----------------------------------------------------------------------------
(* Doctor and triage.                                                       *)

\* What was reported and what happened is what shell, .env and machine call for.
PreflightInv ==
  /\ PreflightOK
  /\ report = "PASS" => ReportOk
  /\ stopped # "none" => stopped = StopsAt

LEMMA PreflightInvInit == Init => PreflightInv
  BY DEF Init, PreflightInit, PreflightInv, PreflightOK

LEMMA PreflightStays == PreflightInv /\ [Next]_vars => PreflightInv'
<1> SUFFICES ASSUME PreflightInv, [Next]_vars PROVE PreflightInv'
  OBVIOUS
<1>env. UNCHANGED <<shell, env_file, machine>>
  BY DEF Next, BeforeTheTasks, PreflightStep, RunDoctor, RunTriage, Runs, Enters, StartsGate,
     RunsPytest, GateAnswers, CutsOffGate, Concludes, Records, Leaves, Unwinds, Interrupted,
     Killed, AllOver, vars, preflightVars
<1>same. (ReportOk' <=> ReportOk) /\ StopsAt' = StopsAt
  BY <1>env DEF ReportOk, StopsAt, CheckEnvKeys, CheckPostgres, CheckMigrations, environ,
     from_file, Definitions, First, Final
<1>1. CASE RunDoctor
  BY <1>1, <1>env, <1>same DEF RunDoctor, PreflightInv, PreflightOK
<1>2. CASE RunTriage
  <2>1. StopsAt \in {"nothing", "fetch", "session", "gate", "pr"}
    BY DEF StopsAt
  <2> QED
    BY <1>2, <1>env, <1>same, <2>1 DEF RunTriage, PreflightInv, PreflightOK
<1>3. CASE UNCHANGED preflightVars
  BY <1>3, <1>same DEF preflightVars, PreflightInv, PreflightOK
<1> QED
  BY <1>1, <1>2, <1>3
  DEF Next, BeforeTheTasks, PreflightStep, Runs, Enters, StartsGate, RunsPytest, GateAnswers,
      CutsOffGate, Concludes, Records, Leaves, Unwinds, Interrupted, Killed, AllOver, vars

\* Where the doctor found a value, in the environment or in .env, the loader has it too
\* unless it passes over it.
LEMMA LoaderHasIt ==
  ASSUME PreflightOK, NEW key \in REQUIRED_ENV_KEYS, "value" \in {environ[key], from_file[key]}
  PROVE  environ[key] # "value" <=> PassedOver(key)
<1>1. shell[key] \in {"absent", "empty", "value"}
  BY DEF PreflightOK, Values
<1>2. environ[key] = IF shell[key] # "absent" \/ Definitions(key) = {} THEN shell[key]
                                                                     ELSE env_file[First(key)].value
  BY DEF environ
<1>3. from_file[key] = IF Definitions(key) = {} THEN "absent" ELSE env_file[Final(key)].value
  BY DEF from_file
<1>4. CASE shell[key] # "absent"
  BY <1>1, <1>2, <1>4 DEF PassedOver
<1>5. CASE shell[key] = "absent" /\ Definitions(key) = {}
  BY <1>2, <1>3, <1>5
<1>6. CASE shell[key] = "absent" /\ Definitions(key) # {}
  BY <1>2, <1>6 DEF PassedOver
<1> QED
  BY <1>4, <1>5, <1>6

\* Whatever the shell, the .env file and the machine, after a PASS triage is stopped exactly
\* by a key whose value the loader passes over, and by nothing else that the doctor looked
\* at (run_doctor, RailsConfig.load).
THEOREM DoctorTells == Spec => []DoctorIsHonest
<1>1. ASSUME PreflightOK, ReportOk
      PROVE  StopsAt = IF \E key \in TriageKeys : PassedOver(key) THEN "fetch" ELSE "nothing"
  <2>1. \A key \in TriageKeys : environ[key] # "value" <=> PassedOver(key)
    BY <1>1, KeysAssumption, LoaderHasIt DEF ReportOk, CheckEnvKeys
  <2>2. environ["DATABASE_URL"] # "empty" /\ machine.postgres = "migrated" /\ machine.gh
        /\ CRITICAL_ENGINES \subseteq machine.engines
    BY <1>1 DEF ReportOk, CheckPostgres, CheckMigrations
  <2> QED
    BY <2>1, <2>2 DEF StopsAt
<1>2. PreflightInv => DoctorIsHonest
  BY <1>1 DEF PreflightInv, DoctorIsHonest
<1> QED
  BY <1>2, PreflightInvInit, PreflightStays, PTL DEF Spec

-----------------------------------------------------------------------------
(* Types.                                                                   *)

\* No checkout without the branch of its name.
BranchedInv == \A i \in ShortIds : checkouts[i] # NoTask => branches[i] = checkouts[i]

LEMMA BranchedStep == NamesOK /\ BranchedInv /\ [Next]_vars => BranchedInv'
<1> SUFFICES ASSUME NamesOK, BranchedInv, [Next]_vars PROVE BranchedInv'
  OBVIOUS
<1>1. ASSUME UNCHANGED worktreeVars PROVE BranchedInv'
  BY <1>1 DEF BranchedInv, worktreeVars
<1>2. ASSUME NEW t \in Tasks, Enters(t) PROVE BranchedInv'
  <2>1. PICK i \in ShortIds : create(t, i) \/ CreateRaises(t, i)
    BY <1>2 DEF Enters
  <2> QED
    BY <2>1 DEF create, CreateRaises, AfterFailedAdd, Added, Free, NamesOK, BranchedInv
<1>3. ASSUME NEW t \in Tasks, Leaves(t) \/ Unwinds(t) PROVE BranchedInv'
  <2>1. ASSUME NEW delete_branch \in BOOLEAN, Removes(t, delete_branch) PROVE BranchedInv'
    BY <2>1 DEF Removes, NamesOK, BranchedInv
  <2> QED
    BY <1>1, <1>3, <2>1 DEF Leaves, Unwinds, CleanupRaises
<1> QED
  BY <1>1, <1>2, <1>3
  DEF Next, BeforeTheTasks, Runs, StartsGate, RunsPytest, GateAnswers, CutsOffGate, Concludes,
      Records, Interrupted, Killed, AllOver, vars

\* Types, and no checkout without its branch, for any number of runs and names.
THEOREM TypeCorrect == Spec => []TypeOK
<1>1. Init => BranchedInv
  BY DEF Init, WorktreesInit, BranchedInv
<1>2. WorkInv /\ DatabaseInv /\ JournalInv /\ PreflightInv /\ BranchedInv => TypeOK
  BY DEF WorkInv, NamesOK, TaskType, DatabaseInv, JournalInv, OpenIsTorn, Line, PreflightInv,
     BranchedInv, TypeOK, WorktreesOK, JournalOK
<1>3. WorkInv => NamesOK
  BY DEF WorkInv
<1> QED
  BY <1>1, <1>2, <1>3, WorkInit, WorkStep, DatabaseInvInit, DatabaseStep, JournalInvInit,
     JournalStep, PreflightInvInit, PreflightStays, BranchedStep, PTL DEF Spec

=============================================================================
