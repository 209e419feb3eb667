---------------------------- MODULE SharedDatabase ----------------------------
(***************************************************************************)
(* The pytest steps of several gates on the one Postgres that DATABASE_URL *)
(* names (rails/agents/loop.py, _resolve_database_url), and the fixture of *)
(* tests/conftest.py that empties every table before an integration test.  *)
(*                                                                         *)
(* A step is one such test: it empties the tables, writes the rows it      *)
(* needs and asserts what it reads.                                        *)
(***************************************************************************)
EXTENDS TaskSet

VARIABLES
  rows,           \* the tasks whose tests have rows in the public tables
  pytest,         \* the process of each task's step, which may outlive its gate
  tree_ok,        \* would this task's tree pass on a database of its own?
  verdict,        \* of the last step: "none" until it answers
  disturbed       \* the tasks whose last step ran while another's process did

databaseVars == <<rows, pytest, tree_ok, verdict, disturbed>>

DatabaseInit ==
  /\ rows = {} /\ disturbed = {}
  /\ pytest = [t \in Tasks |-> "none"]
  /\ tree_ok = [t \in Tasks |-> FALSE]
  /\ verdict = [t \in Tasks |-> "none"]

Running == {t \in Tasks : pytest[t] # "none"}

StartsPytest(t, ok) ==
  /\ pytest[t] = "none"
  /\ pytest' = [pytest EXCEPT ![t] = "started"]
  /\ tree_ok' = [tree_ok EXCEPT ![t] = ok]
  /\ verdict' = [verdict EXCEPT ![t] = "none"]
  /\ disturbed' = IF Running = {} THEN disturbed \ {t} ELSE disturbed \cup {t} \cup Running
  /\ UNCHANGED rows

\* Mutant: an integration module does not ask for the fixture.
Truncated_Not == rows

\* Every table of the public schema, whoever filled it.
Truncated == {}

clean_tables(t) ==
  /\ pytest[t] = "started"
  /\ rows' = Truncated
  /\ pytest' = [pytest EXCEPT ![t] = "cleaned"]
  /\ UNCHANGED <<tree_ok, verdict, disturbed>>

WritesRows(t) ==
  /\ pytest[t] = "cleaned"
  /\ rows' = rows \cup {t}
  /\ pytest' = [pytest EXCEPT ![t] = "written"]
  /\ UNCHANGED <<tree_ok, verdict, disturbed>>

\* On its own rows the test tells the truth about the tree; on others it says anything.
Asserts(t) ==
  /\ pytest[t] = "written"
  /\ pytest' = [pytest EXCEPT ![t] = "none"]
  /\ \E ok \in IF rows = {t} THEN {tree_ok[t]} ELSE BOOLEAN :
       verdict' = [verdict EXCEPT ![t] = IF ok THEN "green" ELSE "red"]
  /\ UNCHANGED <<rows, tree_ok, disturbed>>

PytestStep(t) == clean_tables(t) \/ WritesRows(t) \/ Asserts(t)

\* The gate is gone, by its time limit or with its run.  What it kills is `uv run', not
\* the pytest below it.
Abandoned(t) ==
  /\ pytest' \in {pytest, [pytest EXCEPT ![t] = "none"]}
  /\ UNCHANGED <<rows, tree_ok, verdict, disturbed>>

DatabaseOK ==
  /\ rows \subseteq Tasks /\ disturbed \subseteq Tasks
  /\ pytest \in [Tasks -> {"none", "started", "cleaned", "written"}]
  /\ tree_ok \in [Tasks -> BOOLEAN]
  /\ verdict \in [Tasks -> {"none", "green", "red"}]

\* A gate's pytest answer is about its own tree (gate.py:16-19, "a running gate never
\* interferes with -- or is interfered with by -- other work") as long as no other pytest
\* runs at the time, be it one whose gate or whole run is long over; what such runs left in
\* the tables never matters.
VerdictIsTheTrees ==
  \A t \in Tasks \ disturbed :
    verdict[t] # "none" => (verdict[t] = "green" <=> tree_ok[t])

=============================================================================
