------------------------------ MODULE RunJournal ------------------------------
(***************************************************************************)
(* rails/journal/runs.jsonl (rails/journal.py): one JSON line per finished *)
(* run, appended by any number of commands, read by `rails runs'.          *)
(*                                                                         *)
(* A line goes out in one write, so two commands do not mix theirs; but a  *)
(* full disk may take a part of it, which is no JSON and has no newline,   *)
(* and the next line is then glued to that part.                           *)
(***************************************************************************)
EXTENDS TaskSet, SequencesExt

CONSTANT
  Heritages       \* the journals a checkout may start with

\* What is told apart of a RunRecord: whose it is, and whether this version knows the
\* outcome.  Fields that an older version did not write, or a newer one added, make no
\* difference to reading it (from_row).
Rows == [task : Tasks \cup {"earlier"}, outcome_known : BOOLEAN]
Torn == [task |-> "torn"]

\* "earlier" stands for the runs that are over, and theirs are the rows to start with.
ASSUME EarlierAssumption == "earlier" \notin Tasks
ASSUME HeritageAssumption ==
  Heritages \subseteq Seq([task : {"earlier"}, outcome_known : BOOLEAN])

VARIABLES
  lines,          \* what stands between two newlines
  open_line       \* the last of them has no newline yet

journalVars == <<lines, open_line>>

JournalInit ==
  /\ open_line = FALSE
  /\ \E heritage \in Heritages : lines = [i \in DOMAIN heritage |-> <<heritage[i]>>]

\* Mutant: the row is written without its newline.
EndsLine_Not == FALSE

EndsLine == TRUE

Written(text, complete) ==
  /\ lines' = IF open_line THEN [lines EXCEPT ![Len(lines)] = Append(@, text)]
                           ELSE Append(lines, <<text>>)
  /\ open_line' = ~complete

record(t) == Written([task |-> t, outcome_known |-> TRUE], EndsLine)

\* The disk is full: nothing was written, or a part.
RecordRaises == UNCHANGED journalVars \/ Written(Torn, FALSE)

Unreadable(line) == Len(line) # 1 \/ Torn \in ToSet(line)

\* json.loads, or __post_init__.
LoadRaises ==
  \E i \in DOMAIN lines : Unreadable(lines[i]) \/ ~lines[i][1].outcome_known

load == [i \in DOMAIN lines |-> lines[i][1].task]

\* What was written last in a line: a row, or a part of one.
Ending(i) == Last(lines[i])

JournalOK ==
  /\ lines \in Seq(Seq(Rows \cup {Torn})) /\ open_line \in BOOLEAN
  /\ open_line => lines # <<>>

=============================================================================
