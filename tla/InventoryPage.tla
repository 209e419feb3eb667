----------------------------- MODULE InventoryPage -----------------------------
(***************************************************************************)
(* The inventory page of web/src/ in one browser tab: the filters and the  *)
(* debounced search (InventoryPage.tsx), the list and its overlapping      *)
(* requests (useVehicleList.ts), a row's actions (RowActions.tsx) and the  *)
(* drawer that edits a row (VehicleFormDrawer.tsx), while other users      *)
(* change the same vehicle.                                                *)
(*                                                                         *)
(* One vehicle is followed.  The database is the sequence of its rows, one *)
(* per commit, so that an answer is known by the commit it was read after. *)
(***************************************************************************)
EXTENDS Naturals, SequencesExt, Transitions

CONSTANTS
  Queries, Filters, Pages,   \* search texts with "", filters with "all", page numbers
  Fields,                    \* the editable fields of a vehicle
  Slots, Attempts,           \* bounds: GETs not forgotten yet; actions under way in the row
  MaxCommits, MaxGestures,   \* bounds: commits to the database; the user's gestures
  NoTimer

NoText == ""

ASSUME QueriesAssumption == NoText \in Queries /\ NoTimer \notin Queries
ASSUME FiltersAssumption == Filters \subseteq Status \cup {"all"} /\ "all" \in Filters
ASSUME PagesAssumption == Pages \subseteq Nat /\ 1 \in Pages
ASSUME BoundsAssumption == MaxCommits \in Nat /\ MaxGestures \in Nat

VARIABLES
  db,                        \* the vehicle's row after each commit, oldest first
  gestures,                  \* of this model: the user's gestures that count, so far
  rawQuery, debouncedQuery, timer,
  statusFilter, page, refreshKey,
  effectDeps,                \* the dependencies the list's effect last ran for
  requests,                  \* per slot: a GET of the list
  list,                      \* what the table shows: the answer to params, read at a commit
  mounted,                   \* the attempts of the RowActions that is in the table now
  action,                    \* per attempt: a transition or deletion under way in the row
  drawer,                    \* the drawer: open, the row it edits, the values in its form
  save,                      \* the PATCH under way
  ownCommit                  \* of this model: the last commit the page was told of

searchVars == <<rawQuery, debouncedQuery, timer>>
filterVars == <<statusFilter, page>>
fetchVars == <<effectDeps, requests, list>>
listVars == <<fetchVars, mounted>>
editVars == <<action, drawer, save>>
vars == <<db, gestures, searchVars, filterVars, refreshKey, listVars, editVars, ownCommit>>

Gone == [status |-> "gone", fields |-> {}]
NewRow == [status |-> "available", fields |-> [f \in Fields |-> 0]]
Now == Len(db)
Row == db[Now]

\* What a request asks for, and the dependencies of the effect that sends it.
Params == [q |-> debouncedQuery, status |-> statusFilter, page |-> page]
Deps == [params |-> Params, refreshKey |-> refreshKey]

Idle == [state |-> "idle", next |-> "none", seen |-> 0, commit |-> 0]
\* A closed drawer's form is filled anew when it is opened.
Closed == [open |-> FALSE, row |-> NewRow, values |-> NewRow.fields, touched |-> {}]
NoSave == [state |-> "idle", patch |-> {}, values |-> {}, touched |-> {}, commit |-> 0]

Init ==
  /\ db = <<NewRow>> /\ gestures = 0
  /\ rawQuery = NoText /\ debouncedQuery = NoText /\ timer = NoTimer
  /\ statusFilter = "all" /\ page = 1 /\ refreshKey = 0
  /\ effectDeps = <<>>
  /\ requests = [s \in Slots |-> [state |-> "free"]]
  /\ list = [params |-> Params, commit |-> 0, loading |-> TRUE, error |-> FALSE]
  /\ mounted = {} /\ action = [a \in Attempts |-> Idle]
  /\ drawer = Closed
  /\ save = NoSave
  /\ ownCommit = 0

\* The drawer and a row's dialog mask the page; a dialog can be dismissed once confirmed.
PageOpen == ~drawer.open /\ \A a \in Attempts : action[a].state # "dialog"

Gesture == gestures < MaxGestures /\ gestures' = gestures + 1
PageGesture == PageOpen /\ Gesture

-----------------------------------------------------------------------------
\* Search and filters.

\* Input.Search onChange, handleSearchInput: (re)starts the timer.
Type(value) ==
  /\ PageGesture /\ rawQuery' = value /\ timer' = value
  /\ UNCHANGED <<db, debouncedQuery, filterVars, refreshKey, listVars, editVars, ownCommit>>

\* Mutant: a search by Enter leaves the timer of the typing alone.
StopsTimer_Left == timer

StopsTimer == NoTimer

\* Mutant: pages counted from 0.
FirstPage_Zero == 0

\* setPage(1): every change of search or filter starts at the first page again.
FirstPage == 1

commitSearch(value) ==
  /\ timer' = StopsTimer /\ debouncedQuery' = value /\ page' = FirstPage

TimerFires ==
  /\ timer # NoTimer
  /\ timer' = NoTimer /\ debouncedQuery' = timer /\ page' = FirstPage
  /\ UNCHANGED <<db, gestures, rawQuery, statusFilter, refreshKey, listVars, editVars, ownCommit>>

PressEnter ==
  /\ PageGesture /\ commitSearch(rawQuery)
  /\ UNCHANGED <<db, rawQuery, statusFilter, refreshKey, listVars, editVars, ownCommit>>

handleStatusChange(value) ==
  /\ PageGesture /\ statusFilter' = value /\ page' = FirstPage
  /\ UNCHANGED <<db, searchVars, refreshKey, listVars, editVars, ownCommit>>

\* The button is disabled while nothing is filtered; sorting is not modelled.
hasActiveFilters == rawQuery # NoText \/ debouncedQuery # NoText \/ statusFilter # "all"

clearFilters ==
  /\ PageGesture /\ hasActiveFilters
  /\ timer' = StopsTimer /\ rawQuery' = NoText /\ debouncedQuery' = NoText
  /\ statusFilter' = "all" /\ page' = FirstPage
  /\ UNCHANGED <<db, refreshKey, listVars, editVars, ownCommit>>

ChangePage(n) ==
  /\ PageGesture /\ page' = n
  /\ UNCHANGED <<db, searchVars, statusFilter, refreshKey, listVars, editVars, ownCommit>>

RefreshButton ==
  /\ PageGesture /\ refreshKey' = refreshKey + 1
  /\ UNCHANGED <<db, searchVars, filterVars, listVars, editVars, ownCommit>>

-----------------------------------------------------------------------------
\* The list: useVehicleList.

\* The effect runs after a render in which its dependencies differ; other callbacks may
\* come before it.  Its cleanup makes the previous request inactive and aborts it.
EffectDue == effectDeps # Deps

RunEffect ==
  /\ EffectDue /\ effectDeps' = Deps
  /\ \E s \in Slots :
       /\ requests[s].state = "free"
       /\ requests' = [r \in Slots |->
            IF r = s THEN [state |-> "sent", params |-> Params, active |-> TRUE, commit |-> 0]
            ELSE IF requests[r].state = "free" THEN requests[r]
            ELSE [requests[r] EXCEPT !.active = FALSE]]
  /\ list' = [list EXCEPT !.loading = TRUE, !.error = FALSE]
  /\ UNCHANGED <<db, gestures, searchVars, filterVars, refreshKey, mounted, editVars, ownCommit>>

\* GET /api/vehicles, on one snapshot.
ServerLists(s) ==
  /\ requests[s].state = "sent"
  /\ \E reply \in {[requests[s] EXCEPT !.state = "answered", !.commit = Now],
                   [requests[s] EXCEPT !.state = "failed"]} :
       requests' = [requests EXCEPT ![s] = reply]
  /\ UNCHANGED <<db, gestures, searchVars, filterVars, refreshKey, effectDeps, list, mounted,
                 editVars, ownCommit>>

\* Mutants: an answer is taken whoever asked; an error of any request is an abort.
Taken_Always(r) == r.state # "free"
Taken_NoErrors(r) == r.active /\ r.state = "answered"

\* if (!active) return; if (!active || isAbortError(err)) return
Taken(r) == r.active

\* Is the vehicle in the table that shows this answer?
Lists(answer) ==
  /\ answer.commit > 0 /\ db[answer.commit] # Gone
  /\ answer.params.status \in {"all", db[answer.commit].status}

\* A failed request keeps the items on screen.  A row that leaves the table takes its
\* RowActions and the `busy' of it along.
Arrives(s) ==
  LET r == requests[s] IN
  /\ r.state \in {"answered", "failed"} \/ (r.state = "sent" /\ ~r.active)
  /\ requests' = [requests EXCEPT ![s] = [state |-> "free"]]
  /\ list' = IF ~Taken(r) \/ r.state = "sent" THEN list
             ELSE IF r.state = "failed" THEN [list EXCEPT !.loading = FALSE, !.error = TRUE]
             ELSE [params |-> r.params, commit |-> r.commit, loading |-> FALSE, error |-> FALSE]
  /\ mounted' = IF Lists(list') THEN mounted ELSE {}
  /\ UNCHANGED <<db, gestures, searchVars, filterVars, refreshKey, effectDeps, editVars,
                 ownCommit>>

\* The vehicle as the table shows it.
Listed == Lists(list)
ListedRow == db[list.commit]

-----------------------------------------------------------------------------
\* A row's actions: a menu entry opens a dialog, its Confirm sends the request.

\* Mutant: a sale can be undone.
TRANSITIONS_SoldReturns ==
  [available |-> {"reserved", "sold"}, reserved |-> {"available", "sold"}, sold |-> {"available"}]

TRANSITIONS ==
  [available |-> {"reserved", "sold"}, reserved |-> {"available", "sold"}, sold |-> {}]

\* `loading={busy}': while a request of its own is under way the menu does not open.
Busy == \E a \in mounted : action[a].state # "idle"

\* A second attempt, beside one whose row has left the table, is not counted.
ChooseAction(a, next) ==
  /\ PageOpen /\ Listed /\ ~Busy /\ action[a].state = "idle"
  /\ IF \E b \in Attempts : action[b].state # "idle" THEN UNCHANGED gestures ELSE Gesture
  /\ next \in TRANSITIONS[ListedRow.status] \cup {"delete"}
  /\ action' = [action EXCEPT ![a] =
       [state |-> "dialog", next |-> next, seen |-> list.commit, commit |-> 0]]
  /\ mounted' = mounted \cup {a}
  /\ UNCHANGED <<db, searchVars, filterVars, refreshKey, fetchVars, drawer, save, ownCommit>>

CancelAction(a) ==
  /\ action[a].state = "dialog"
  /\ action' = [action EXCEPT ![a] = Idle] /\ mounted' = mounted \ {a}
  /\ UNCHANGED <<db, gestures, searchVars, filterVars, refreshKey, fetchVars, drawer, save,
                 ownCommit>>

ConfirmAction(a) ==
  /\ action[a].state = "dialog" /\ action' = [action EXCEPT ![a].state = "sent"]
  /\ UNCHANGED <<db, gestures, searchVars, filterVars, refreshKey, listVars, drawer, save,
                 ownCommit>>

Commit(row) == Now <= MaxCommits /\ db' = Append(db, row)

\* The server's side (api/_lib/vehicles.py), in one step.
ServerActs(a) ==
  LET next == action[a].next
      legal == Row # Gone /\ (next = "delete" \/ can_transition(Row.status, next))
  IN
  /\ action[a].state = "sent"
  /\ \/ /\ legal
        /\ Commit(IF next = "delete" THEN Gone ELSE [Row EXCEPT !.status = next])
        /\ \E reply \in {"done", "lost"} :
             action' = [action EXCEPT ![a].state = reply, ![a].commit = Now + 1]
     \/ ~legal /\ action' = [action EXCEPT ![a].state = "refused"] /\ UNCHANGED db
     \/ action' = [action EXCEPT ![a].state = "lost"] /\ UNCHANGED db
  /\ UNCHANGED <<gestures, searchVars, filterVars, refreshKey, listVars, drawer, save, ownCommit>>

\* Mutant: the list is not asked again.
Refreshed_Never == refreshKey

\* refresh(), once the server has answered.
Refreshed == refreshKey + 1

LaterOf(m, n) == IF m > n THEN m ELSE n

\* An error is a message, and the list is not asked again.
ActionReturns(a) ==
  /\ action[a].state \in {"done", "refused", "lost"}
  /\ action' = [action EXCEPT ![a] = Idle] /\ mounted' = mounted \ {a}
  /\ IF action[a].state = "done"
       THEN refreshKey' = Refreshed /\ ownCommit' = LaterOf(ownCommit, action[a].commit)
       ELSE UNCHANGED <<refreshKey, ownCommit>>
  /\ UNCHANGED <<db, gestures, searchVars, filterVars, fetchVars, drawer, save>>

-----------------------------------------------------------------------------
\* The drawer, in edit mode.

\* The same menu; the effect on [open, vehicle] fills the form.
OpenEditDrawer ==
  /\ PageGesture /\ Listed /\ ~Busy
  /\ drawer' = [open |-> TRUE, row |-> ListedRow, values |-> ListedRow.fields, touched |-> {}]
  /\ UNCHANGED <<db, searchVars, filterVars, refreshKey, listVars, action, save, ownCommit>>

\* The form is disabled while a save is under way.
EditField(f, x) ==
  /\ Gesture /\ drawer.open /\ save.state = "idle"
  /\ drawer' = [drawer EXCEPT !.values = [drawer.values EXCEPT ![f] = x], !.touched = @ \cup {f}]
  /\ UNCHANGED <<db, searchVars, filterVars, refreshKey, listVars, action, save, ownCommit>>

\* The X in the corner works also while a save is under way.
CloseDrawer ==
  /\ drawer.open /\ drawer' = Closed
  /\ UNCHANGED <<db, gestures, searchVars, filterVars, refreshKey, listVars, action,
                 save, ownCommit>>

\* Mutant: the whole form is sent.
diffPatch_Everything(values, original) == Fields

diffPatch(values, original) == {f \in Fields : values[f] # original[f]}

\* An empty patch is not sent and counts as saved.
Save ==
  /\ drawer.open /\ save.state = "idle"
  /\ LET patch == diffPatch(drawer.values, drawer.row.fields) IN
       save' = [state |-> IF patch = {} THEN "done" ELSE "sent", patch |-> patch,
                values |-> drawer.values, touched |-> drawer.touched, commit |-> 0]
  /\ UNCHANGED <<db, gestures, searchVars, filterVars, refreshKey, listVars, action,
                 drawer, ownCommit>>

\* PATCH /api/vehicles/{id}: 404 when it is gone.
ServerPatches ==
  /\ save.state = "sent"
  /\ \/ /\ Row # Gone
        /\ Commit([Row EXCEPT !.fields =
                     [f \in Fields |-> IF f \in save.patch THEN save.values[f]
                                                           ELSE Row.fields[f]]])
        /\ \E reply \in {"done", "lost"} :
             save' = [save EXCEPT !.state = reply, !.commit = Now + 1]
     \/ save' = [save EXCEPT !.state = "lost"] /\ UNCHANGED db
  /\ UNCHANGED <<gestures, searchVars, filterVars, refreshKey, listVars, action, drawer, ownCommit>>

\* onClose() closes the drawer that is open now, whichever that is.
SaveReturns ==
  /\ save.state \in {"done", "lost"} /\ save' = NoSave
  /\ IF save.state = "done"
       THEN /\ refreshKey' = Refreshed /\ ownCommit' = LaterOf(ownCommit, save.commit)
            /\ drawer' = Closed
       ELSE UNCHANGED <<refreshKey, ownCommit, drawer>>
  /\ UNCHANGED <<db, gestures, searchVars, filterVars, listVars, action>>

-----------------------------------------------------------------------------

\* Another user, in another tab.
SomeoneElse ==
  /\ Row # Gone
  /\ \/ \E s \in ALLOWED[Row.status] : Commit([Row EXCEPT !.status = s])
     \/ \E f \in Fields : Commit([Row EXCEPT !.fields = [Row.fields EXCEPT ![f] = 1 - @]])
     \/ Commit(Gone)
  /\ UNCHANGED <<gestures, searchVars, filterVars, refreshKey, listVars, editVars, ownCommit>>

Next ==
  \/ \E v \in Queries : Type(v)
  \/ TimerFires \/ PressEnter
  \/ \E v \in Filters : handleStatusChange(v)
  \/ clearFilters
  \/ \E n \in Pages : ChangePage(n)
  \/ RefreshButton \/ RunEffect
  \/ \E s \in Slots : ServerLists(s) \/ Arrives(s)
  \/ \E a \in Attempts :
       \/ \E n \in Status \cup {"delete"} : ChooseAction(a, n)
       \/ CancelAction(a) \/ ConfirmAction(a) \/ ServerActs(a) \/ ActionReturns(a)
  \/ OpenEditDrawer \/ CloseDrawer \/ Save \/ ServerPatches \/ SaveReturns
  \/ \E f \in Fields, x \in {0, 1} : EditField(f, x)
  \/ SomeoneElse

Spec == Init /\ [][Next]_vars

-----------------------------------------------------------------------------

RowType == [status : Status, fields : [Fields -> {0, 1}]] \cup {Gone}

\* The types; a commit that is named exists.
TypeOK ==
  /\ db \in Seq(RowType) /\ Now \in 1..(MaxCommits + 1)
  /\ gestures \in 0..MaxGestures
  /\ rawQuery \in Queries /\ debouncedQuery \in Queries /\ timer \in Queries \cup {NoTimer}
  /\ statusFilter \in Filters /\ page \in Pages /\ refreshKey \in Nat
  /\ list.commit \in 0..Now /\ list.loading \in BOOLEAN /\ list.error \in BOOLEAN
  /\ mounted \subseteq Attempts
  /\ \A a \in Attempts :
       action[a].state \in {"idle", "dialog", "sent", "done", "refused", "lost"}
  /\ drawer.open \in BOOLEAN /\ drawer.values \in [Fields -> {0, 1}]
  /\ save.state \in {"idle", "sent", "done", "lost"} /\ save.patch \subseteq Fields
  /\ ownCommit \in 0..Now

Settled == ~EffectDue /\ ~list.loading /\ ~list.error

\* What the table shows, once nothing is loading, is the answer to the filters as they
\* stand: no answer of an earlier search, page or filter comes in late (the `active'
\* flag of useVehicleList).  With no timer pending, the search that is applied is the
\* text in the box: Enter, the clearing of the filters and the typing leave no old timer
\* behind.  And while the table shows its spinner there is a request that will end it.
TableMatchesFilters ==
  /\ Settled => list.params = Params
  /\ timer = NoTimer => debouncedQuery = rawQuery
  /\ list.loading => EffectDue \/ \E s \in Slots : requests[s].state # "free" /\ requests[s].active

\* A change this page made, and was told of, is in what the table shows once nothing is
\* loading: refresh() is called after the answer, so no list read before the change stays.
OwnChangesAreShown == Settled => list.commit >= ownCommit

\* The server refuses a menu entry only when the vehicle was changed after the row was
\* read, by someone else or by an earlier attempt of this page that is still under way: the
\* menu's matrix and the server's agree (RowActions.tsx:8).
RefusalMeansStale ==
  \A a \in Attempts : action[a].state = "refused" => action[a].seen < Now

\* A save leaves what others did to the fields the user did not touch, however old the
\* row in the drawer is (diffPatch).
SaveKeepsOthers ==
  [][save.state = "sent" /\ save'.state # "sent" /\ db' # db =>
       \A f \in Fields \ save.touched : db'[Len(db')].fields[f] = Row.fields[f]]_vars

=============================================================================
