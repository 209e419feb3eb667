# nextlane in TLA+

Models, model-checking runs and proofs for the program in `src/`: a vehicle inventory
(FastAPI on PostgreSQL, a React front end) and the *rails*, a command-line runner that lets
coding agents (Claude, Codex, Gemini) build features and fix reported bugs, gates and
cross-reviews their work and opens pull requests.

Every definition is translated from the source; `PROJECT.json` names the lines it stands
for. Definitions whose names end in `_Something` after a mapped name (`NeedsRescue_Never`)
are mutants: plausible bugs, kept beside the definition they change, used only to see that
a property can fail.

Contents: 1 the system, 2 the modules, 3 the runs, 4 bounds, 5 fairness and deadlock,
6 the proofs, 7 disagreements found, 8 what is not covered, 9 plan.

## 1. The system

| part | state | operations | interacts with | what is hard |
|---|---|---|---|---|
| agent loop `rails/agents/loop.py` | locals of `run_agent_task`: retries, attempt, verdict, deadline | sessions, gates, commits, review, revision, retro, PR, record | all parts of the rails | which content each step sees (working tree or head), counters, a budget that may run out anywhere, every exit recorded |
| worktree `rails/worktree.py` | checkout and branch | create, provision, clean up | loop, other runs | clean-up on every way out, not of a published branch, and not of another run's of the same name |
| GitHub `rails/github.py` | branch on origin, PR | push, `gh pr create` | loop | success reported as failure |
| journal `rails/journal.py` | `runs.jsonl` | append, read | loop, `rails runs` | one line per run, true; a write cut short; rows of other versions |
| Mission Control writer `rails/mission_control.py` | `agent_runs`, `run_steps` | start, step, finish | loop, runs API | best effort; must not stop the run |
| quality gate `rails/gate.py`, `tests/conftest.py` | locals of `run_gate`; the tables of the test database | run six steps under one budget | loop, the database of every other gate | a step that times out counts as red; a killed step whose pytest lives on; two gates on one database |
| session adapters `rails/adapters/*.py` | one process group, two threads, three files | spawn, pump, wait, kill, join, parse | loop, engine CLIs | threads and processes that outlive each other, Ctrl-C anywhere, a truncated transcript |
| review command `rails/agents/review.py`, `rails/cli.py` | none | fetch a diff, one read-only session, verdict, comment, exit code | adapters, gh | exit 0 is used as a gate |
| config and doctor `rails/config.py`, `rails/doctor.py` | `os.environ`, `.env` | load, check | every command | two readers of one file |
| triage and events `rails/agents/triage.py`, `rails/events.py`, `api/_lib/events.py` | `app_events` | create, fetch, mark | loop | two passes on one event, a mark that fails |
| inventory API `api/_lib/vehicles.py`, `transitions.py` | table `vehicles` | list, get, create, patch, delete, set status | pool, PostgreSQL | check-then-write between concurrent requests, row locks, lost connections |
| connection pool `api/_lib/db.py` | the global `_pool` | lazy creation, take, give back | API | unsynchronised creation, exhaustion |
| rate limiter `api/_lib/ratelimit.py` | deques of times | allow | API writes | clock read outside the lock, boundaries of the window |
| inventory page `web/src/pages/InventoryPage.tsx` and its hook, row actions, drawer | filters, timer, list, forms | search, filter, page, act, edit | inventory API | answers out of order, debounce, rows read long ago |
| Mission Control page `web/src/pages/MissionControlPage.tsx`, its hook and drawer | list, selected run, timeline | poll, open, close | runs API | overlapping polls, a drawer that changes runs |
| shell: rest of the CLI, prompts, auth, errors, `App.tsx`, `api.ts` | little or none | | | parsing and wiring |

What makes each correct is stated by the properties of section 3. `PROJECT.json` lists, as
hazards, what in this code tests hardly reach, each with the properties that would notice;
a hazard without one has a note that says why.

## 2. The modules

| module | models | kind |
|---|---|---|
| `RunContract` | what a run promises (head of `loop.py`): unproven → green → judged → published → ended | abstract specification |
| `AgentLoop` | `run_agent_task` with worktree, PR, journal and its row; implements `RunContract` | component |
| `Gate` | one call of `run_gate`: its steps, its clock, its result | component |
| `RunBudget` | what `run_agent_task` grants to each session and gate, and when it is cut off; on `Gate` | composition |
| `TaskSet` | the runs made on one repository | parameters |
| `Worktrees` | checkouts and branches of several runs, whose names may collide | component |
| `SharedDatabase` | the pytest steps of several gates on one database | component |
| `RunJournal` | `runs.jsonl` with several writers, torn writes and rows of other versions, and `load` | component |
| `Preflight` | `.env`, the shell, `rails doctor` and the triage run after it | component |
| `RailsRepo` | several runs on one repository: `Worktrees`, `SharedDatabase`, `RunJournal`, after `Preflight` | composition |
| `Transitions` | the status matrix `ALLOWED` and `can_transition` | operators |
| `VehicleLifecycle` | the life of each vehicle, without requests | abstract specification |
| `Vehicles` | concurrent requests on pool, rows and locks; implements `VehicleLifecycle` | component |
| `RateLimit` | `allow` for one bucket, with threads that read the clock before the lock | component |
| `Transcripts` | the three engines' parsers and `parse_verdict`: what they take from a stream | pure functions |
| `SessionAdapter` | `_SubprocessAdapter.run`: caller, engine, helper process, two pump threads; uses `Transcripts` | component |
| `ReviewCommand` | `rails review` from the diff to the exit code, around one session | composition |
| `InventoryPage` | one browser tab on the inventory while others change the vehicle; uses `Transitions` | component |
| `AgentRuns` | the two tables between rails and page, with the calls that write and read them | shared state |
| `Triage` | reported events and overlapping triage passes, writing `AgentRuns` | component |
| `RunFeed` | the Mission Control page, reading `AgentRuns` | component |
| `MissionControl` | `Triage` and `RunFeed` on the same tables | composition |
| `AgentLoop_proofs`, `RunBudget_proofs`, `RailsRepo_proofs`, `Vehicles_proofs`, `RateLimit_proofs`, `ReviewCommand_proofs`, `InventoryPage_proofs`, `MissionControl_proofs` | theorems and proofs about the module they extend | proofs |
| `MC*` | instances for TLC | |

**AgentLoop.** `pc` is the next call of the sequential run. Contents are three trees: `work`
(the checkout), `head` (the branch), `gateTree` (what the last gate ran on); a tree is its
code and the set of test files it adds. The builder CLI is a coding agent with a shell, so a
session may leave any tree, committed or not, in full, in part or over something else. The
gate sees `work`; the reviewer's diff and the push see `head`. `mode` carries the call's
arguments and the faults this run may meet (`provision`, `exception`, `kill`, `mc`,
`mc_hang`, `journal`, `cleanup`, `lost_reply`); the harmless ones happen always (a session
that raises, a red gate, a spent budget, a failing push). `Settle` is what follows the green
gate: promotion of the reproduction proof, then rescue commit, then the empty-diff guard, in
the code's order. The deadline may pass in every step that takes time, from provisioning on
(`Elapse`). `_record` is two steps, `FinishRow` and `WriteJournal`, because either can
fail. `.rails-transcripts/` and `web/node_modules` in the checkout are git-ignored and so
never make it dirty.

**Gate, RunBudget.** Time is counted in half seconds and passes one by one, in the places
where the program waits: in a session, a joining thread, a gate's step, and between the calls,
where git and the requests to Mission Control have no timeout at all. The granted time is
computed *before* the start of a session is reported and used after it, as in the code, so a
slow report shifts the session's end. `AgentLoop` says which call follows which; here, once
the bug is reproduced, any call may be next. What a step of the gate answers is an input; that
it ran, was cut off, was skipped or could not start is not.

**RailsRepo.** A run is what it looks like to others: it is in the block of `worktree_for`, has
its gate run, records and leaves; Ctrl-C and kills come anywhere in the block. All runs have
the same slug, so a name is its short id. The pytest step is one integration test: it truncates
every public table, writes rows and asserts. Abandoning a gate may leave its pytest
running, because what is killed is `uv run`. A journal line is the sequence of the texts
between two newlines, so a torn write and the row glued to it are one line, whose last text
(`Ending`) may well be a whole row. `Preflight` is
looked at before the first run: `environ` is what the loader makes of the shell and `.env`
(first definition wins, an exported key is never replaced), `from_file` the doctor's own
reading (last definition wins, an empty value counts as missing).

**Vehicles.** A request steps once per call that another thread can precede: the test, the
construction and the return of `pool()`, taking a connection, each SQL statement. Handlers
with one statement run in autocommit and are one step; `set_vehicle_status` is SELECT FOR
UPDATE, then check and UPDATE, then COMMIT, and its row lock makes writers of the same row
wait. Any reply can be lost after the commit, any connection before it. A PATCH may carry an
explicit null, which the request model admits and the column refuses. An empty PATCH is a
GET.

**RateLimit.** Reading the clock and the locked part are separate steps, so threads append
readings out of order.

**Transcripts, SessionAdapter.** Events are abstracted to a type (success, failure, message,
other, and the lines of gemini that are no JSON) and what verdict they carry: a text is its last
verdict, and fragments of gemini are appended, so no verdict is split over two of them. Without
any, the text of gemini is its last line as it stands (`LastNonemptyRaw`). The parsers keep the
order of preference of their channels and are defined by the latest line of a kind, where the
code loops and overwrites; `MCSessionAdapter` compares them with the loops.

The adapter has a process group of the engine and one helper that may hold the pipe open after
the engine went, pipes of bounded capacity, two threads that read, look whether the file is
closed, write and collect in separate steps and may fail at the write, and the caller: spawn,
open, wait, kill, reap, two joins with timeouts, close, check, parse. A timeout or Ctrl-C may
come in each wait. `ReviewCommand` adds what `rails review` does before and after its session;
its variable `command` is the next call or the exit code.

**InventoryPage.** The database is the sequence of one vehicle's rows, one per commit, so an
answer is known by the commit it was read after. A callback is an action; a React effect is
an action of its own, enabled when its dependencies changed, because other callbacks may run
first. `active` is a field of the request. A row's action is an attempt: a dialog, then a request.
`busy` is state of the row's `RowActions`, so it counts only the attempts of the one that is
mounted (`Busy`): when a list without the row arrives, its `RowActions` goes, and when the row
comes back, a second attempt can start beside the first. Dialog and drawer mask the page.

**Triage, RunFeed.** A pass is one `rails triage` command; the run inside shows only what
`AgentLoop` shows to the outside: a row, steps, a PR, an outcome or an exception. The page
keeps its unanswered requests; an aborted request leaves the set, because its rejection is
ignored. The drawer keeps the row as it was when clicked, as the code does.

## 3. The runs

Expected to pass:

| run | properties and what they show |
|---|---|
| `agent_loop` | *Safety:* `PushedIsReviewed`, `PushedIsGated`: what is pushed was reviewed, after a green gate with no builder session behind it, and is the tree of that gate as far as the code ensures it. `ReproBeforeFix`: triage fixes nothing before pytest was red on a committed test. `JournalIsTrue`: the journal line and the `agent_runs` row say what happened, and no green work is called "no changes". `EveryRunJournaled`: one line per run, none twice, and no row left `running`. `NoDebris`: clean-up. `SessionsBounded`: number of paid sessions. *Liveness:* `Terminates`. *Refinement:* `ImplementsContract`. |
| `run_budget` | `BudgetKept`: a gate ends less than a second after the deadline, all its steps together, and a session too but for its start report and its joins. `VerdictsAreEarned`: a green gate ran every step and each exited 0; a pytest that was cut off or skipped passes for a reproduction in the last second of the budget only. |
| `rails_repo` | `WorkIsKept`: no run loses its checkout or branch to another, whatever collides, fails or is cleaned up. `VerdictIsTheTrees`: a gate's pytest answer is about its own tree if no other pytest ran at the time. `JournalReadsBack`: every recorded run has its one whole row at the end of a line, also after torn writes; `rails runs` fails exactly on a part of a row or an outcome of another version, and otherwise shows the recorded runs. `DoctorIsHonest`: after a PASS, triage is stopped exactly when the loader passes over a value that `.env` ends with, and by nothing else the doctor looked at. |
| `vehicles` | `CheckIsFresh`: a checked status stays true until its UPDATE commits. `AnswersAreTrue`: a 404, 409 or 422 changed nothing and a 2xx is committed; no success leaves one vin on two vehicles, and a 409 is said only while another vehicle has the vin. `ImplementsLifecycle`: refinement. |
| `vehicle_queue` | `EveryRequestAnswered`: no deadlock of connections and row locks. A run of its own because fairness excludes symmetry. |
| `rate_limit` | `TypeOK` with the bound of the deque. `WindowBound`: with readings out of order the window admits at most `limit` and one more for every other thread that had read the clock and not yet taken the lock. `RetryAfterIsEnough`: who waits Retry-After is admitted if nobody else came. |
| `session_adapter` | `NoneLeftBehind`: a killed group is gone. `GoodRunIsGood`: an explicit good result comes from the whole stream, and a thread that died does not pass for one that finished. `ApprovalIsTheLastWord`: `rails review` exits 0 only if the last verdict of the stream, in an event or in a plain line, is an approval. `ReviewAnswers`: it comes back. |
| `inventory_page` | `TableMatchesFilters`: the table ends up showing the filters as they stand, with no old timer and no spinner without a request. `OwnChangesAreShown`: and the tab's own changes. `RefusalMeansStale`: the server refuses an offered entry only if the vehicle changed since the row was read, by another user or by this page's attempt under way. `SaveKeepsOthers`: a save leaves the fields its user did not touch. |
| `mission_control` | `EventsAreTrue`: an event is triaged only with a PR, and a second PR needs overlapping passes or a failure. `FeedNeverGoesBack`: no older poll replaces a newer one. `TimelineIsComplete`: the drawer shows the selected run, and all of it when that run was over. |

Each also checks its module's `TypeOK` (`vehicle_queue` is the second instance of `Vehicles`).
Each property has at least one mutant that violates it in the same instance.

Expected to be violated (section 7): `final_review_misses_revision`, `confirmed_tests_lost`,
`truncated_drain`.

## 4. Bounds

| run | bound | why it is enough |
|---|---|---|
| `agent_loop` | two codes, one test file, `MaxRetries` 1, seven call modes, `SessionCap` 9 | A tree that differs from main, from the head and from the gate's tree needs two codes and one test; one retry has a first, a last and an exhausted try; the modes are the calls of the CLI. `SessionCap` only stops the count, above the bound of `SessionsBounded`. |
| `run_budget` | 4.5 s of budget, three steps with pytest in the middle, 0.5 s of report and of each join, clock to 7.5 s between calls (`MaxTime`) | the budget is no whole number of seconds, so truncation shows; a step is cut off, the next one skipped, another not reached; every wait can pass the deadline, and the clock goes on past it by more than any bound of `BudgetKept` |
| `rails_repo` | two runs, two short ids, two keys of the environment, `.env` files of up to two lines, journals of no row or one earlier row (`Heritages`) | one run meets another's name, tables, lines and orphans; a third would meet the same; two lines define a key twice. Runs start in the one environment that stops nothing (`FitForTasks`): the rest of the environments belongs to `DoctorIsHonest`, and their product with the runs adds nothing to either. |
| `vehicles` | three requests, two vehicles, two vins, pool of 2 | one holder of a row, one that waits for it, one that waits for a connection; a vin to collide with. Two pools are reached. |
| `rate_limit` | two threads, limit 3, window 4, clock to 8 | the window passes twice; two threads suffice to append out of order |
| `session_adapter` | two lines, pipe of one line, one helper, three engines, sessions that say a verdict or nothing | an event lost after an event read; a writer blocked on a full pipe; two contradictory verdicts |
| `inventory_page` | two request slots, two attempts in the row, two commits, three gestures of the user (`MaxGestures`: clicks, typing, opening a dialog or the drawer, editing a field), two fields, two texts, two filters, two pages | an answer overtaken by another, a change of this tab and one of another. An attempt beside one whose row has left the table is free, so that three gestures reach it: a first attempt, a filter that drops the row and one that brings it back. When both slots are taken the next effect waits until one is free. |
| `mission_control` | two passes, two reports, fetch limit 1, one step per run | two passes on one report; a report behind the limit; a step written between two reads |

Symmetry is used in the runs without liveness: requests (`vehicles`), threads (`rate_limit`),
slots, attempts and fields (`inventory_page`), passes and reports (`mission_control`), runs and
short ids (`rails_repo`). `WF`/`SF` formulas are in the specification `Vehicles` too, but the
run with symmetry checks none that depends on them.

## 5. Fairness and deadlock

- `AgentLoop`: `WF(Step)`. Sessions and gates run under timeouts; that git and gh return is
  assumed. The requests to Mission Control have no timeout, so `Terminates` is about runs
  that do not meet `mc_hang`.
- `Vehicles`: `WF` of a thread's own steps, `SF` of taking a connection and of a statement
  that waits for a row. Waiters of `psycopg_pool` and of PostgreSQL's row locks are queued, so
  nobody is passed over for ever.
- `ReviewCommand`: `WF` of the command's own steps and of the caller inside the session. Its
  waits have timeouts; the engine, the helper and the threads may stop for ever.
- `RateLimit`, `InventoryPage`, `MissionControl`, `RunBudget`, `RailsRepo`: none, and no
  liveness is claimed. What `RunBudget` says of time is safety: a clock that stands past a
  bound is a state.

Deadlock is checked except in `rate_limit`, whose clock stops at its bound, and
`inventory_page`, where the user and the bounds may stop. Ended runs of `AgentLoop`,
`RunBudget`, `RailsRepo` and `ReviewCommand` stutter explicitly.

## 6. The proofs

TLAPS, for every value of the constants under the named assumptions of the modules: any number
of runs, requests, threads, passes, reports, slots and lines, any call modes and any
budget. Every safety invariant and every action property that a run of section 3 expects to
hold is stated by a theorem. The bounds that remain in a theorem (`MaxCommits`, `MaxTime`,
`MaxLines`, `SessionCap`) are arbitrary constants.

An invariant that is not inductive is a conjunct of one that is; the conjuncts are named and
each has its lemma about a step.

**AgentLoop** (`AgentLoop_proofs`; `BaseAssumption`, `RetriesAssumption`, `CapAssumption`,
`NoTreeAssumption`, `ModesAssumption`).

- *Types.* `TypeCorrect` is inductive only with `RetryRoom` (a retry under way is one that
  `MaxRetries` allows, so counting it afterwards stays in range) and `OutcomeKnown` (from
  `_record` on, the outcome is one of `VALID_OUTCOMES`, so the journal line has its type).
- *The push.* `PushReviewed` and `PushGated` follow from `PushInv`, five parts that each carry
  one fact from where it becomes true to the push: `GreenInv` (from the green gate until the PR,
  except between a revision session and its gate, the gate's tree is the working tree and it was
  green), `RevisedInv` (the final review comes only after a revision), `JudgedInv` (from retro to
  PR the reviewed tree is the head and the verdict stands), `RescuedInv` (an unrevised triage run
  has nothing uncommitted when it is reviewed) and `PushedInv` (after the push nothing of this
  changes).
- *The record.* `JournalTrue` needs `EndInv`: `StopInv` (before a run stops it has said nothing),
  `RowInv` and `LineInv` (row and line are copies of what `_record` was called with),
  `OutcomeInv` (what that says of the run), `HeadInv` (a branch without commits is main) and
  `RevisionInv`. `RunsJournaled` and `NothingLeft` need `DueInv`: at each step of the ending,
  which of line, row, checkout and branch are due under the faults this run has.
- *The reproduction.* `ReproducedFirst` needs that the evidence is there from the gate that showed
  it, or that no fix has begun (`ReproInv`).
- *The sessions.* `SessionsAreBounded`: how many there can have been at each `pc`
  (`SessionsInv`). The bound is below `SessionCap`, so the cap hides no session.
- *Refinement.* `RunKeepsContract`: every step is a step of `RunContract` or a stutter
  (`ContractStep`), from `RefineInv`, parts of the above and that a run is reviewed once before
  its revision. This is `ImplementsContract` without its fairness.

**RunBudget** (`RunBudget_proofs`; `StepsAssumption`, `TimesAssumption`). `TypeInv` adds to the
types that the results follow the position and that a gate is open exactly while the run waits
for it; the green half of `VerdictsEarned` follows. `ClockInv` says where each wait stands against
the deadline. `WaitInv`: what was granted ran out at most a rounded-up second after the deadline
when it was granted, and the report may then have shifted it. `GateClock`: over all its steps a
gate has one fixed end, `start_all + total_timeout`, within half a second of the deadline.
`CutOffResults`: a step that was cut off or skipped puts the clock at that end. `BudgetIsKept`
follows from the first two, the other half of `VerdictsEarned` from the last two. The
arithmetic of `max(1, int(remaining))` is the lemma `GrantBounds`.

**RailsRepo** (`RailsRepo_proofs`; `NoTaskAssumption`, `IdsAssumption`, `EarlierAssumption`,
`HeritageAssumption`, `KeysAssumption`, `EnvFilesAssumption`).

- `WorkStaysKept` is inductive with the types and `HasName` (a run in its block was given a
  name); the point is that `create` is called before the `try` of `worktree_for`, so only the
  owner of a name ever removes it (`EntersSafely`, `RemovesOwn`).
- `VerdictsAreOwn` needs `Alone`: an undisturbed process is the only one, so once it has
  truncated the tables they are empty, and then hold its own rows.
- `JournalIsReadBack`, from `JournalInv`: each line is parts that were cut short and then one text
  (`LineOK`), and a line left open ends with a part (`OpenIsTorn`), so the next text is glued to
  parts only (`WrittenLine`); the lines that end with the row of a run are one for each run that
  wrote, behind the earlier ones (`InOrder`); and who has not recorded yet has not written
  (`NotYetWritten`). This holds however many writes are torn.
- `DoctorTells`: the report and what stopped the triage are what shell, `.env` and machine call
  for (`PreflightInv`); where the doctor found a value for a key, the loader has it too unless it
  passes over it (`LoaderHasIt`).
- `TypeCorrect`, with `BranchedInv`: no checkout without its branch.

**Vehicles** (`Vehicles_proofs`; `OpsAssumption`, `NobodyAssumption`, `NothingAssumption`).
The inductive invariant is `TypeOK` and `Sound(r)` for every request: in the middle of a
status change the request holds the lock of its row, the row is there and has the status that
was read, and before its COMMIT the move is one the matrix allows. Locks exclude each other
(`OneHolder`), so a step of another request changes another row (`Frame`, `RowChanged`).
`CheckStaysFresh` is a part of it; `KeepsLifecycle` is the refinement: every statement is a step of
`VehicleLifecycle` or changes no status, and the commit of a status change is a legal move because
the status checked is still the row's. `AnswersStayTrue`: each step of a request starts it, lets
it go on, ends it without a change or ends it with one (`StepIs`), and until it ends it has done
nothing (`NothingDoneYet`); no step gives a vehicle a vin that another one has (`VinsStep`).

**RateLimit** (`RateLimit_proofs`; `ThreadsAssumption`, `LimitAssumption`, `WindowAssumption`,
`TimeAssumption`). `PromiseKept`: while a Retry-After is outstanding the deque is full and its
head leaves the window before the promised time; `TypeCorrect`, with the bound of the deque, and
`RetryAfterSuffices` follow. Time is counted in half seconds, so that the rounding of `ceil`
matters; its arithmetic is the lemma `RetryAfterCovers`.
`WindowIsBounded` looks at each window that ends at a time s: either the deque still holds all
that was admitted in it (`AllHeld`), and the deque is bounded; or one of them was popped, by a
thread whose reading was past the window, so that only those can be added who had read the clock
before its end and wait for the lock, and there is one thread fewer of these than there are
threads (`OnlyLateOnes`). `admitted` is a history variable that only this property reads: a set of
pairs of a reading and a number that tells equal readings apart.

**ReviewCommand** (`ReviewCommand_proofs`, with `SessionAdapter` and `Transcripts`;
`EnginesAssumption`, `SaidAssumption`, `LinesAssumption`, `PipeAssumption`).

- `FlowInv`: each line that was written is in the pipe, in the hand of the stdout thread or
  collected, in this order; a thread that died has one line lost. `TranscriptInv`: while the files
  are open what is collected was written to the transcript.
- `AliveInv`: who is alive at each wait of the caller; a pump comes to its end of file only when
  nobody holds the pipe, and after the kill nobody does. `GroupIsGone` is a part of it.
- `ResultInv`: how many lines a result was made of, and that an explicit good one had a terminal
  event among them; with `StreamInv` (nothing but noise follows the terminal event, and only
  gemini has plain lines) `GoodIsWhole` follows.
- `VerdictInv`, `OutFileInv`, `CommandInv`: from the parsers' order of preference to the exit
  code (`ApprovalIsMeant`). `ParsedIs` and `ResultIs` say what a result of any transcript is.
  The parsers choose the latest line of a kind; that there is one in a non-empty set of places
  is `LatestIs`, from the well-foundedness of the natural numbers (`Minimal`).

**InventoryPage** (`InventoryPage_proofs`; `QueriesAssumption`, `FiltersAssumption`,
`PagesAssumption`, `BoundsAssumption`). `TableStaysTrue` rests on `SearchInv` (the timer holds
the text in the box, and without one that text is applied), `RequestsInv` (at most one request
is active, and it is for the dependencies the effect last ran for) and `ListInv` (the spinner
belongs to that request or to the first render; without it the table is the answer to those
dependencies). `OwnChangesStay`: what was asked since the last refresh is read after the page's
own last commit (`FreshInv`, `CommitsInv`). `RefusedIsStale`: each attempt is about a row as it
was listed, where its entry was legal (`Legal`, for all of them `ActionInv`), and the menu's
matrix is the server's. `SavesKeepOthers`: a form differs from its row in touched fields only
(`SaveInv`).

**MissionControl** (`MissionControl_proofs`; `NoRunAssumption`, `FetchAssumption`,
`StepsAssumption`).
`EventsStayTrue`: where a pass is determines what it knows of its event (`PassInv`), and a mark has
its PR (`MarkedHasPr`). The page relies on two facts about every step of the writers
(`Forward`): no row goes back, and a finished run reports no further step. `FeedGoesForward`: at
most one poll is under way, and its answer lies between what is shown and what is stored
(`PollsInv`). `TimelineStaysComplete`: each answer under way is about the run in the drawer, and
has all of its steps if the row that was clicked was finished (`DrawerInv`).

Only model-checked:

- liveness, for which the prover has no rules here: `Terminates`, `EveryRequestAnswered`,
  `ReviewAnswers` and the fairness of `RunContract` in `ImplementsContract`;
- that the parsers, defined by what they return, return what the code's loops compute:
  `ParsersAreTheLoops` in `MCSessionAdapter` compares them with the loops, written as folds, over
  every stream of up to three lines. For streams of any length it would take an induction over
  sequences, which the installed provers cannot instantiate;
- the three violations of section 7.

## 7. Where the code and its text disagree

1. `FinalReviewSeesTheRevision`: a revision that is left uncommitted is gated in the working
   tree, while the final review and the PR see the head before it; there is no rescue commit
   after the revision session.
2. `ConfirmedTestsAreShipped`: the survival of the reproduction tests is read before the
   rescue commit, which may then commit their deletion.
3. `TruncatedDrainIsNoGoodRun`: the caller gives up on a stdout thread after 5 s and does not
   ask whether it ended; for gemini the partial stream is a good result.

Further remarks, which no run is made for:

- `loop.py:60` has a wall-clock budget bound the entire run. The requests to Mission Control
  (`mission_control.py:90`) have no timeout, so a server that accepts and never answers holds
  the run for ever, and before its journal line.
- `db.py:16` creates the pool without a lock; two first requests make two pools, both are used,
  and the connections of one of them are beyond the ceiling. `CheckPool` and `MakePool` of
  `Vehicles` have this, and the other properties hold all the same.
- `ratelimit.py` says a client gets at most `limit` per window and instance;
  with readings out of order it can be passed by the number of threads between clock and lock,
  which `WindowBound` bounds.
- `gate.py:16-19` says that a running gate neither interferes nor is interfered with. The
  worktrees are apart, but every gate tests on the same `DATABASE_URL`, and each integration test
  truncates all public tables. `VerdictIsTheTrees` therefore excludes overlapping pytests, and
  counts among them one that outlived its gate or its run.
- A pytest cut off by time is as red as a failing test, so in the last second of the budget a
  fix may begin on no evidence; `VerdictsAreEarned` shows that it happens at no other time.
- `doctor.py:131-134` says that it looks keys up as the loader does. A key that is exported
  empty, or defined twice in `.env`, is present for the doctor and empty for the loader.
- `load` raises on the first line it cannot read: one torn line, or one row with an outcome
  this version does not know, and `rails runs` shows nothing of the file.
- `worktree.py:184` speaks of `cleanup(delete_branch=True)` after success; `loop.py:1187` passes
  `False`, which is what keeps the branch of the PR.
- Ctrl-C between the journal line and the end of the block unwinds through `worktree_for`: the
  line says `pr_opened`, and the local branch is gone.
- When `git push` or `gh pr create` succeeds and reports failure, the PR is open and the run is
  journaled as an error: the code says so itself (loop.py:1171-1173), and `JournalIsTrue` makes
  that exception.

## 8. Not modelled

- *build-feature and migrate*: each composes a title and a task and calls `run_agent_task`;
  `AgentLoop` has the modes they call it in. *prompts*: text, on which no decision of the
  program depends.
- *The rest of the CLI*: option parsing and tables.
- *Texts*: `wrap_untrusted`, titles, PR bodies, summaries, formatting, layout; how one line
  of `.env` is parsed.
- *API shell and authentication*: wiring, and a library that verifies tokens.
- *Web session and API client*: the session is one object, written by one listener and by an
  initial read that gives way to it; the API authorises each request on its own.
- *Queries*: `list`, `stats` and `export` of the inventory; order and limits of lists.
- *Inventory page*: creating a vehicle, sorting, stat cards, the number of rows and page
  clamping.
- *A helper process that outlives a session that ended well*: it may edit the checkout while the
  gate runs in it; `AgentLoop` ends a session's edits with the session, and no bound on them
  could be stated.
- *How long answers take in the page*: polls that starve because answers take more than 3 s are
  a hazard without a property.
- *Tests, scripts, CI and docs*: not part of the running program; read as statements of what it
  promises. `clean_tables` of `tests/conftest.py` is modelled, because a gate runs it.

## 9. Plan

Built in this order: the run, because a wrong PR is the worst the program can do; the API's
concurrency; the rate limiter; the session under the run; the pages and the tables between
them; then the clock of a run, the runs beside each other, the review command and the doctor.
What would add most next:

1. Session and gate together: a helper of a session that ended well, and the tree a gate saw.
2. `Triage` on `AgentLoop`: the run inside a pass as an instance of `RunContract`.
3. Proofs: the modules of 1 and 2 as they come; until then the open obligations are the ones
   section 6 lists as model-checked only.
