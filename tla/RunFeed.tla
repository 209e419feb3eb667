------------------------------- MODULE RunFeed -------------------------------
(***************************************************************************)
(* The Mission Control page of one operator: the list that                 *)
(* hooks/useRunList.ts polls, and the drawer of                            *)
(* components/RunDetailDrawer.tsx with one run's timeline.  Both read what *)
(* AgentRuns keeps.                                                        *)
(***************************************************************************)
EXTENDS AgentRuns

CONSTANT NoRun

ASSUME NoRunAssumption == NoRun \notin Runs

VARIABLES
  feed,     \* MissionControlPage is mounted, and useRunList's state
  polls,    \* its requests that have not been aborted and not been taken
  drawer,   \* selectedRun as it was when clicked, and the drawer's state
  gets      \* the drawer's requests, likewise

feedVars == <<feed, polls, drawer, gets>>

NothingListed == [r \in Runs |-> "absent"]
NoDetail == [run |-> NoRun, steps |-> 0]

Fresh == [mounted |-> TRUE, items |-> NothingListed, loading |-> TRUE, error |-> FALSE]
Away == [Fresh EXCEPT !.mounted = FALSE]
ClosedDrawer == [run |-> NoRun, row |-> "absent", detail |-> NoDetail,
                 loading |-> FALSE, error |-> FALSE]

FeedInit == feed = Away /\ polls = {} /\ drawer = ClosedDrawer /\ gets = {}

\* A request travels, and is answered by the API with what it read there.
Sent == [at |-> "sent"]
SentFor(r) == [at |-> "sent", run |-> r]

\* The mount effect of useRunList polls at once.
Visit ==
  /\ ~feed.mounted
  /\ feed' = Fresh /\ polls' = {Sent}
  /\ UNCHANGED <<drawer, gets>>

\* Unmounting aborts what is under way, and `active' is false for good.
Leave ==
  /\ feed.mounted
  /\ feed' = Away /\ polls' = {} /\ drawer' = ClosedDrawer /\ gets' = {}

\* Mutant: a poll does not abort the one before it.
Aborted_Never(requests) == requests

\* A request that is aborted rejects with AbortError, which is ignored.
Aborted(requests) == {}

\* setInterval(poll): every POLL_INTERVAL_MS, whether or not the last was answered.
Poll ==
  /\ feed.mounted
  /\ polls' = Aborted(polls) \cup {Sent}
  /\ UNCHANGED <<feed, drawer, gets>>

ApiLists ==
  /\ Sent \in polls
  /\ polls' = (polls \ {Sent}) \cup {[at |-> "answered", items |-> list_runs]}
  /\ UNCHANGED <<feed, drawer, gets>>

PollReturns(q) ==
  /\ q \in polls \ {Sent}
  /\ polls' = polls \ {q}
  /\ feed' = [feed EXCEPT !.loading = FALSE, !.error = FALSE, !.items = q.items]
  /\ UNCHANGED <<drawer, gets>>

\* A failed poll keeps the runs on screen.
PollFails ==
  /\ Sent \in polls
  /\ polls' = polls \ {Sent}
  /\ feed' = [feed EXCEPT !.loading = FALSE, !.error = TRUE]
  /\ UNCHANGED <<drawer, gets>>

\* A click on a row, and the drawer's effect.
OpenDrawer(r) ==
  /\ feed.mounted /\ drawer.run = NoRun
  /\ feed.items[r] # "absent"
  /\ drawer' = [drawer EXCEPT !.run = r, !.row = feed.items[r], !.loading = TRUE,
                              !.error = FALSE]
  /\ gets' = gets \cup {SentFor(r)}
  /\ UNCHANGED <<feed, polls>>

\* Mutant: the effect has no cleanup.
Forgotten_Never(requests) == requests

\* The effect's cleanup: active = false, and the request is aborted.
Forgotten(requests) == {}

\* onClose: the cleanup, then the effect for run === null, which leaves `loading'.
CloseDrawer ==
  /\ drawer.run # NoRun
  /\ gets' = Forgotten(gets)
  /\ drawer' = [ClosedDrawer EXCEPT !.loading = drawer.loading]
  /\ UNCHANGED <<feed, polls>>

ApiGets(r) ==
  /\ SentFor(r) \in gets
  /\ gets' = (gets \ {SentFor(r)}) \cup {[at |-> "answered", detail |-> get_run(r)]}
  /\ UNCHANGED <<feed, polls, drawer>>

GetReturns(q) ==
  /\ q \in gets /\ q.at = "answered"
  /\ gets' = gets \ {q}
  /\ drawer' = [drawer EXCEPT !.loading = FALSE, !.detail = q.detail]
  /\ UNCHANGED <<feed, polls>>

GetFails(r) ==
  /\ SentFor(r) \in gets
  /\ gets' = gets \ {SentFor(r)}
  /\ drawer' = [drawer EXCEPT !.loading = FALSE, !.error = TRUE]
  /\ UNCHANGED <<feed, polls>>

FeedNext ==
  \/ Visit \/ Leave \/ Poll \/ ApiLists \/ PollFails
  \/ \E q \in polls : PollReturns(q)
  \/ \E q \in gets : GetReturns(q)
  \/ \E r \in Runs : OpenDrawer(r) \/ ApiGets(r) \/ GetFails(r)
  \/ CloseDrawer

-----------------------------------------------------------------------------

Details == [run : Runs \cup {NoRun}, steps : 0..MaxSteps]
Statuses == {RowStatuses[i] : i \in DOMAIN RowStatuses}

FeedOK ==
  /\ feed \in [mounted : BOOLEAN, items : [Runs -> Statuses], loading : BOOLEAN, error : BOOLEAN]
  /\ drawer \in [run : Runs \cup {NoRun}, row : Statuses, detail : Details,
                  loading : BOOLEAN, error : BOOLEAN]
  /\ polls \subseteq {Sent} \cup [at : {"answered"}, items : [Runs -> Statuses]]
  /\ gets \subseteq {SentFor(r) : r \in Runs} \cup
                      [at : {"answered"}, detail : Details]

\* While the page stays open a run never moves back on it, from finished to running or
\* out of the list: with polls every 3 s and answers of any delay, an older list never
\* replaces a newer one.
FeedNeverGoesBack ==
  [][feed.mounted /\ feed'.mounted =>
       \A r \in Runs : Progress(feed.items[r]) <= Progress(feed'.items[r])]_<<feed>>

\* A timeline that is neither loading nor in error is the selected run's; and if the
\* run's row said it was over when it was clicked, every step that was reported of it
\* is there.
TimelineIsComplete ==
  drawer.run # NoRun /\ ~drawer.loading /\ ~drawer.error =>
    /\ drawer.detail.run = drawer.run
    /\ drawer.row = "finished" => drawer.detail.steps = run_steps[drawer.run]

=============================================================================
