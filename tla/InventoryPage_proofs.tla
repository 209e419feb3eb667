--------------------------- MODULE InventoryPage_proofs ---------------------------
(***************************************************************************)
(* Theorems about the inventory page, for any search texts, filters and    *)
(* fields, any number of requests under way and of commits.                *)
(***************************************************************************)
EXTENDS InventoryPage, TLAPS

USE QueriesAssumption, FiltersAssumption, PagesAssumption, BoundsAssumption

-----------------------------------------------------------------------------
(* Types of the records TypeOK only looks into.                             *)

Live == [status : Status, fields : [Fields -> {0, 1}]]
ParamsType == [q : Queries, status : Filters, page : Pages]
DepsType == [params : ParamsType, refreshKey : Nat]
Asked == [state : {"sent", "answered", "failed"}, params : ParamsType, active : BOOLEAN,
          commit : Nat]
RequestType == {[state |-> "free"]} \cup Asked
ListType == [params : ParamsType, commit : Nat, loading : BOOLEAN, error : BOOLEAN]
ActionType == [state : {"idle", "dialog", "sent", "done", "refused", "lost"},
               next : Status \cup {"none", "delete"}, seen : Nat, commit : Nat]
DrawerType == [open : BOOLEAN, row : Live, values : [Fields -> {0, 1}], touched : SUBSET Fields]
Sent == [state : {"sent", "done", "lost"}, patch : SUBSET Fields, values : [Fields -> {0, 1}],
         touched : SUBSET Fields, commit : Nat]
SaveType == {NoSave} \cup Sent

DbTypes == db \in Seq(RowType) /\ Now \in 1..(MaxCommits + 1)
FilterTypes ==
  /\ gestures \in 0..MaxGestures
  /\ rawQuery \in Queries /\ debouncedQuery \in Queries /\ timer \in Queries \cup {NoTimer}
  /\ statusFilter \in Filters /\ page \in Pages /\ refreshKey \in Nat
ListTypes ==
  /\ effectDeps \in {<<>>} \cup DepsType
  /\ requests \in [Slots -> RequestType] /\ list \in ListType
EditTypes ==
  /\ action \in [Attempts -> ActionType] /\ drawer \in DrawerType /\ save \in SaveType
  /\ ownCommit \in Nat
MountedTypes == mounted \subseteq Attempts

Types == DbTypes /\ FilterTypes /\ ListTypes /\ EditTypes /\ MountedTypes

-----------------------------------------------------------------------------
(* The invariants.                                                          *)

\* The timer holds the text in the box, and without one that text is applied.
SearchInv == timer \in {NoTimer, rawQuery} /\ (timer = NoTimer => debouncedQuery = rawQuery)

\* A commit that is named exists.
CommitsInv ==
  /\ list.commit <= Now /\ ownCommit <= Now
  /\ save.commit <= Now /\ \A a \in Attempts : action[a].commit <= Now
  /\ \A s \in Slots : requests[s].state # "free" => requests[s].commit <= Now

Active(s) == requests[s].state # "free" /\ requests[s].active

\* The active request is the only one and is for the dependencies the effect last ran for.
RequestsInv ==
  /\ \A s, t \in Slots : Active(s) /\ Active(t) => s = t
  /\ \A s \in Slots : Active(s) =>
       /\ list.loading
       /\ effectDeps \in DepsType /\ requests[s].params = effectDeps.params

\* The spinner is there from the first render, or for the active request; without it the
\* table shows the answer to those dependencies.
ListInv ==
  /\ list.loading => effectDeps = <<>> \/ \E s \in Slots : Active(s)
  /\ ~list.loading => effectDeps \in DepsType
  /\ ~list.loading /\ ~list.error => list.params = effectDeps.params

\* What was asked since the last refresh is read after the page's own last commit.
FreshInv ==
  effectDeps \in DepsType =>
    /\ effectDeps.refreshKey <= refreshKey
    /\ effectDeps.refreshKey = refreshKey =>
         /\ ~list.loading /\ ~list.error => list.commit >= ownCommit
         /\ \A s \in Slots : Active(s) /\ requests[s].state = "answered" =>
              requests[s].commit >= ownCommit

\* A dialog is about a row as it was listed, where its entry was legal.
Legal(act) ==
  /\ act.state # "idle" =>
       /\ act.seen \in 1..Now /\ db[act.seen] \in Live
       /\ act.next = "delete" \/ can_transition(db[act.seen].status, act.next)
  /\ act.state = "refused" => act.seen < Now

ActionInv == \A a \in Attempts : Legal(action[a])

\* What the form and the patch have besides the row is what the user touched.
SaveInv ==
  /\ \A f \in Fields \ drawer.touched : drawer.values[f] = drawer.row.fields[f]
  /\ save.patch \subseteq save.touched

Inv ==
  /\ Types /\ SearchInv /\ CommitsInv /\ RequestsInv /\ ListInv /\ FreshInv
  /\ ActionInv /\ SaveInv

-----------------------------------------------------------------------------
(* The database: each step keeps the rows there are and commits one or none.*)

LEMMA RowIsLive == \A row \in RowType : row # Gone => row \in Live
  BY DEF RowType, Live, Gone

LEMMA LiveIsRow == \A row \in Live : row \in RowType /\ row # Gone
  BY DEF RowType, Live, Gone, Status

LEMMA LegalTargets == \A frm, to : can_transition(frm, to) => frm \in Status /\ to \in Status
  BY DEF can_transition, ALLOWED, Status

LEMMA CurrentRow == DbTypes => Row \in RowType /\ \A i \in 1..Now : db[i] \in RowType
  BY DEF DbTypes, Row, Now

\* What one step may commit.
Commits == \E row \in RowType : Commit(row)

LEMMA ActionCommits ==
  ASSUME Types, NEW a \in Attempts, ServerActs(a)
  PROVE  db' = db \/ Commits
<1> SUFFICES ASSUME db' # db PROVE Commits
  OBVIOUS
<1> DEFINE next == action[a].next
<1>1. /\ Row # Gone /\ (next = "delete" \/ can_transition(Row.status, next))
      /\ Commit(IF next = "delete" THEN Gone ELSE [Row EXCEPT !.status = next])
  BY DEF ServerActs
<1> HIDE DEF next
<1>2. Row \in Live
  BY <1>1, CurrentRow, RowIsLive DEF Types
<1>3. CASE next = "delete"
  BY <1>1, <1>3 DEF Commits, RowType
<1>4. CASE next # "delete"
  <2>1. next \in Status
    BY <1>1, <1>4, LegalTargets
  <2>2. [Row EXCEPT !.status = next] \in Live
    BY <1>2, <2>1 DEF Live
  <2> QED
    BY <1>1, <1>4, <2>2, LiveIsRow DEF Commits
<1> QED
  BY <1>3, <1>4

\* What a save commits.
Patched(f) == IF f \in save.patch THEN save.values[f] ELSE Row.fields[f]

LEMMA SaveCommits ==
  ASSUME Types, ServerPatches, db' # db
  PROVE  /\ Row \in Live /\ save.state = "sent"
         /\ [Row EXCEPT !.fields = [f \in Fields |-> Patched(f)]] \in Live
         /\ Commit([Row EXCEPT !.fields = [f \in Fields |-> Patched(f)]])
<1>1. /\ Row # Gone /\ save.state = "sent"
      /\ Commit([Row EXCEPT !.fields = [f \in Fields |-> Patched(f)]])
  BY DEF ServerPatches, Patched
<1>2. Row \in Live
  BY <1>1, CurrentRow, RowIsLive DEF Types
<1>3. save.values \in [Fields -> {0, 1}]
  BY <1>1 DEF Types, EditTypes, SaveType, Sent, NoSave
<1>4. Row.fields \in [Fields -> {0, 1}]
  BY <1>2 DEF Live
<1>5. [f \in Fields |-> Patched(f)] \in [Fields -> {0, 1}]
  BY <1>3, <1>4 DEF Patched
<1>6. [Row EXCEPT !.fields = [f \in Fields |-> Patched(f)]] \in Live
  BY <1>2, <1>5 DEF Live
<1> QED
  BY <1>1, <1>2, <1>6

LEMMA OthersCommit == Types /\ SomeoneElse => db' = db \/ Commits
<1> SUFFICES ASSUME Types, SomeoneElse PROVE Commits
  OBVIOUS
<1>1. Row \in Live
  BY CurrentRow, RowIsLive DEF Types, SomeoneElse
<1>2. ASSUME NEW s \in ALLOWED[Row.status], Commit([Row EXCEPT !.status = s]) PROVE Commits
  <2>1. Row.status \in Status
    BY <1>1 DEF Live
  <2>2. s \in Status
    BY <2>1 DEF ALLOWED, Status
  <2>3. [Row EXCEPT !.status = s] \in Live
    BY <1>1, <2>2 DEF Live
  <2> QED
    BY <1>2, <2>3, LiveIsRow DEF Commits
<1>3. ASSUME NEW f \in Fields, Commit([Row EXCEPT !.fields = [Row.fields EXCEPT ![f] = 1 - @]]) PROVE Commits
  <2> DEFINE flipped == [Row.fields EXCEPT ![f] = 1 - Row.fields[f]]
  <2>1. Row.fields \in [Fields -> {0, 1}] /\ Row.fields[f] \in {0, 1}
    BY <1>1 DEF Live
  <2>2. 1 - Row.fields[f] \in {0, 1}
    BY <2>1
  <2>3. flipped \in [Fields -> {0, 1}]
    BY <2>1, <2>2
  <2>4. [Row EXCEPT !.fields = flipped] \in Live
    BY <1>1, <2>3 DEF Live
  <2> QED
    BY <1>3, <2>4, LiveIsRow DEF Commits
<1>4. Commit(Gone) => Commits
  BY DEF Commits, RowType
<1> QED
  BY <1>2, <1>3, <1>4 DEF SomeoneElse

LEMMA DbStep == Types /\ [Next]_vars => db' = db \/ Commits
<1> SUFFICES ASSUME Types, [Next]_vars, db' # db PROVE Commits
  OBVIOUS
<1>1. (\E a \in Attempts : ServerActs(a)) \/ ServerPatches \/ SomeoneElse
  BY DEF Next, vars, Type, TimerFires, PressEnter, handleStatusChange, clearFilters, ChangePage,
     RefreshButton, RunEffect, ServerLists, Arrives, ChooseAction, CancelAction, ConfirmAction,
     ActionReturns, OpenEditDrawer, CloseDrawer, Save, SaveReturns, EditField
<1>2. CASE ServerPatches
  BY <1>2, SaveCommits, LiveIsRow DEF Commits
<1> QED
  BY <1>1, <1>2, ActionCommits, OthersCommit

LEMMA DbGrows ==
  ASSUME Types, [Next]_vars
  PROVE  DbTypes' /\ Now' \in Nat /\ Now <= Now' /\ \A i \in 1..Now : db'[i] = db[i]
<1>1. db \in Seq(RowType) /\ Now \in 1..(MaxCommits + 1)
  BY DEF Types, DbTypes
<1>2. CASE db' = db
  BY <1>1, <1>2 DEF DbTypes, Now
<1>3. ASSUME NEW row \in RowType, Commit(row)
      PROVE  DbTypes' /\ Now' = Now + 1 /\ \A i \in 1..Now : db'[i] = db[i]
  BY <1>1, <1>3 DEF Commit, DbTypes, Now
<1> QED
  BY <1>1, <1>2, <1>3, DbStep DEF Commits

-----------------------------------------------------------------------------
(* Types.  Each action concerns one part of the page.                       *)

Filtering ==
  \/ \E v \in Queries : Type(v)
  \/ TimerFires \/ PressEnter
  \/ \E v \in Filters : handleStatusChange(v)
  \/ clearFilters
  \/ \E n \in Pages : ChangePage(n)
  \/ RefreshButton

Fetching == RunEffect \/ \E s \in Slots : ServerLists(s) \/ Arrives(s)

Acting ==
  \E a \in Attempts :
    \/ \E n \in Status \cup {"delete"} : ChooseAction(a, n)
    \/ CancelAction(a) \/ ConfirmAction(a) \/ ServerActs(a) \/ ActionReturns(a)

Editing ==
  \/ OpenEditDrawer \/ CloseDrawer \/ Save \/ ServerPatches \/ SaveReturns
  \/ \E f \in Fields, x \in {0, 1} : EditField(f, x)

LEMMA Parts == Next <=> Filtering \/ Fetching \/ Acting \/ Editing \/ SomeoneElse
  BY DEF Next, Filtering, Fetching, Acting, Editing

LEMMA FilteringTypes ==
  ASSUME FilterTypes, Filtering
  PROVE  FilterTypes'
  BY DEF Filtering, FilterTypes, PageGesture, Gesture, Type, TimerFires, PressEnter, handleStatusChange,
     clearFilters, ChangePage, RefreshButton, commitSearch, StopsTimer, FirstPage,
     searchVars, filterVars

LEMMA OtherFilterTypes ==
  ASSUME FilterTypes, Fetching \/ Acting \/ Editing \/ SomeoneElse
  PROVE  FilterTypes'
<1>1. /\ UNCHANGED <<searchVars, filterVars>>
      /\ gestures' = gestures \/ Gesture
      /\ refreshKey' = refreshKey \/ refreshKey' = refreshKey + 1
  BY DEF Fetching, Acting, Editing, SomeoneElse, RunEffect, ServerLists, Arrives, ChooseAction,
     CancelAction, ConfirmAction, ServerActs, ActionReturns, OpenEditDrawer, CloseDrawer, Save,
     ServerPatches, SaveReturns, EditField, Refreshed, PageGesture
<1> QED
  BY <1>1 DEF FilterTypes, Gesture, searchVars, filterVars

LEMMA ParamsTyped == FilterTypes => Params \in ParamsType /\ Deps \in DepsType
  BY DEF FilterTypes, Params, ParamsType, Deps, DepsType

LEMMA AskedKept ==
  ASSUME NEW r \in Asked
  PROVE  /\ [r EXCEPT !.active = FALSE] \in Asked
         /\ [r EXCEPT !.state = "failed"] \in Asked
         /\ \A n \in Nat : [r EXCEPT !.state = "answered", !.commit = n] \in Asked
<1>1. [r EXCEPT !.active = FALSE] \in Asked
  BY DEF Asked
<1>2. [r EXCEPT !.state = "failed"] \in Asked
  BY DEF Asked
<1>3. ASSUME NEW n \in Nat PROVE [r EXCEPT !.state = "answered", !.commit = n] \in Asked
  BY DEF Asked
<1> QED
  BY <1>1, <1>2, <1>3

LEMMA ListTypesKept == ListTypes /\ UNCHANGED fetchVars => ListTypes'
  BY DEF ListTypes, fetchVars

LEMMA FetchingTypes ==
  ASSUME DbTypes, FilterTypes, ListTypes, Fetching
  PROVE  ListTypes'
<1>1. CASE RunEffect
  <2>1. effectDeps' \in DepsType
    BY <1>1, ParamsTyped DEF RunEffect
  <2>2. list' \in ListType
    BY <1>1 DEF RunEffect, ListTypes, ListType
  <2>3. PICK s \in Slots : requests' = [r \in Slots |->
            IF r = s THEN [state |-> "sent", params |-> Params, active |-> TRUE, commit |-> 0]
            ELSE IF requests[r].state = "free" THEN requests[r]
            ELSE [requests[r] EXCEPT !.active = FALSE]]
    BY <1>1 DEF RunEffect
  <2>4. [state |-> "sent", params |-> Params, active |-> TRUE, commit |-> 0] \in Asked
    BY ParamsTyped DEF Asked
  <2>5. ASSUME NEW r \in Slots
        PROVE  requests'[r] \in RequestType
    <3>1. requests[r] \in RequestType
      BY DEF ListTypes
    <3>2. ASSUME requests[r].state # "free" PROVE [requests[r] EXCEPT !.active = FALSE] \in Asked
      <4>1. requests[r] \in Asked
        BY <3>1, <3>2 DEF RequestType
      <4> QED
        BY <4>1, AskedKept, Zenon
    <3> QED
      BY <2>3, <2>4, <3>1, <3>2 DEF RequestType
  <2>6. requests' \in [Slots -> RequestType]
    BY <2>3, <2>5
  <2> QED
    BY <2>1, <2>2, <2>6 DEF ListTypes
<1>2. ASSUME NEW s \in Slots, ServerLists(s) PROVE ListTypes'
  <2>1. requests[s] \in Asked
    BY <1>2 DEF ServerLists, ListTypes, RequestType
  <2>2. /\ [requests[s] EXCEPT !.state = "answered", !.commit = Now] \in Asked
        /\ [requests[s] EXCEPT !.state = "failed"] \in Asked
    <3>1. Now \in Nat
      BY DEF DbTypes
    <3> QED
      BY <2>1, <3>1, AskedKept, Zenon
  <2> QED
    BY <1>2, <2>2 DEF ServerLists, ListTypes, RequestType
<1>3. ASSUME NEW s \in Slots, Arrives(s) PROVE ListTypes'
  <2>1. requests[s] \in Asked
    BY <1>3 DEF Arrives, ListTypes, RequestType
  <2>2. requests' \in [Slots -> RequestType]
    BY <1>3 DEF Arrives, ListTypes, RequestType
  <2>3. /\ [list EXCEPT !.loading = FALSE, !.error = TRUE] \in ListType
        /\ [params |-> requests[s].params, commit |-> requests[s].commit, loading |-> FALSE,
            error |-> FALSE] \in ListType
    BY <2>1 DEF ListTypes, ListType, Asked
  <2>4. list' \in ListType
    BY <1>3, <2>3 DEF Arrives, ListTypes
  <2> QED
    BY <1>3, <2>2, <2>4 DEF Arrives, ListTypes
<1> QED
  BY <1>1, <1>2, <1>3 DEF Fetching

LEMMA EditTypesKept == EditTypes /\ UNCHANGED <<editVars, ownCommit>> => EditTypes'
  BY DEF EditTypes, editVars

LEMMA ListedIsLive ==
  ASSUME DbTypes, ListTypes, CommitsInv, Listed
  PROVE  list.commit \in 1..Now /\ ListedRow \in Live
<1>1. list.commit \in 1..Now
  BY DEF DbTypes, ListTypes, ListType, CommitsInv, Listed, Lists
<1> QED
  BY <1>1, CurrentRow, RowIsLive DEF Listed, Lists, ListedRow

LEMMA LaterTyped == \A m, n \in Nat : LaterOf(m, n) \in Nat
  BY DEF LaterOf

LEMMA ActionTold ==
  ASSUME NEW a \in ActionType, NEW reply \in {"done", "lost"}, NEW n \in Nat
  PROVE  [a EXCEPT !.state = reply, !.commit = n] \in ActionType
<1> DEFINE b == [a EXCEPT !.state = reply]
<1>1. b \in ActionType
  BY DEF ActionType
<1> HIDE DEF b
<1>2. [b EXCEPT !.commit = n] \in ActionType
  BY <1>1 DEF ActionType
<1> QED
  BY <1>2 DEF b

\* What an action's step does to its attempt.
LEMMA AttemptStep ==
  ASSUME Types, NEW a \in Attempts
  PROVE  /\ \A n : ChooseAction(a, n) =>
               action' = [action EXCEPT ![a] = [state |-> "dialog", next |-> n,
                                                seen |-> list.commit, commit |-> 0]]
         /\ CancelAction(a) \/ ActionReturns(a) => action' = [action EXCEPT ![a] = Idle]
         /\ ConfirmAction(a) =>
               action' = [action EXCEPT ![a] = [action[a] EXCEPT !.state = "sent"]]
         /\ ServerActs(a) =>
               \/ \E reply \in {"refused", "lost"} :
                    action' = [action EXCEPT ![a] = [action[a] EXCEPT !.state = reply]]
               \/ \E reply \in {"done", "lost"} :
                    /\ \E row : Commit(row)
                    /\ action' = [action EXCEPT
                         ![a] = [action[a] EXCEPT !.state = reply, !.commit = Now + 1]]
<1>0. action \in [Attempts -> ActionType]
  BY DEF Types, EditTypes
<1>1. \A n : ChooseAction(a, n) =>
        action' = [action EXCEPT ![a] = [state |-> "dialog", next |-> n,
                                         seen |-> list.commit, commit |-> 0]]
  BY DEF ChooseAction
<1>2. CancelAction(a) \/ ActionReturns(a) => action' = [action EXCEPT ![a] = Idle]
  BY DEF CancelAction, ActionReturns
<1>3. ConfirmAction(a) => action' = [action EXCEPT ![a] = [action[a] EXCEPT !.state = "sent"]]
  BY <1>0 DEF ConfirmAction
<1>4. ASSUME ServerActs(a)
      PROVE  \/ \E reply \in {"refused", "lost"} :
                  action' = [action EXCEPT ![a] = [action[a] EXCEPT !.state = reply]]
             \/ \E reply \in {"done", "lost"} :
                  /\ \E row : Commit(row)
                  /\ action' = [action EXCEPT
                       ![a] = [action[a] EXCEPT !.state = reply, !.commit = Now + 1]]
  BY <1>0, <1>4 DEF ServerActs
<1> QED
  BY <1>1, <1>2, <1>3, <1>4

\* The step of one attempt leaves the others alone.
LEMMA OthersKept ==
  ASSUME Types, NEW a \in Attempts, NEW b \in Attempts \ {a},
         \/ \E n \in Status \cup {"delete"} : ChooseAction(a, n)
         \/ CancelAction(a) \/ ConfirmAction(a) \/ ServerActs(a) \/ ActionReturns(a)
  PROVE  action'[b] = action[b]
<1>1. action \in [Attempts -> ActionType]
  BY DEF Types, EditTypes
<1>2. \A n \in Status \cup {"delete"} : ChooseAction(a, n) => action'[b] = action[b]
  BY <1>1 DEF ChooseAction
<1>3. CancelAction(a) \/ ActionReturns(a) \/ ConfirmAction(a) => action'[b] = action[b]
  BY <1>1 DEF CancelAction, ActionReturns, ConfirmAction
<1>4. ServerActs(a) => action'[b] = action[b]
  BY <1>1 DEF ServerActs
<1> QED
  BY <1>2, <1>3, <1>4

LEMMA ActingTypes ==
  ASSUME Types, CommitsInv, Acting
  PROVE  EditTypes'
<1>1. /\ action \in [Attempts -> ActionType] /\ ownCommit \in Nat /\ UNCHANGED <<drawer, save>>
      /\ Now \in Nat /\ list.commit \in Nat
  BY DEF Types, DbTypes, ListTypes, ListType, EditTypes, Acting, ChooseAction, CancelAction,
     ConfirmAction, ServerActs, ActionReturns
<1>2. Idle \in ActionType
  BY DEF Idle, ActionType
<1>3. PICK a \in Attempts :
        \/ \E n \in Status \cup {"delete"} : ChooseAction(a, n)
        \/ CancelAction(a) \/ ConfirmAction(a) \/ ServerActs(a) \/ ActionReturns(a)
  BY DEF Acting
<1>4. \A act \in ActionType :
        action' = [action EXCEPT ![a] = act] => action' \in [Attempts -> ActionType]
  BY <1>1
<1>5. action' \in [Attempts -> ActionType]
  <2>1. ASSUME NEW n \in Status \cup {"delete"}, ChooseAction(a, n)
        PROVE  action' \in [Attempts -> ActionType]
    <3>1. [state |-> "dialog", next |-> n, seen |-> list.commit, commit |-> 0] \in ActionType
      BY <1>1 DEF ActionType
    <3> QED
      BY <1>4, <2>1, <3>1, AttemptStep
  <2>2. CASE CancelAction(a) \/ ActionReturns(a)
    BY <1>2, <1>4, <2>2, AttemptStep
  <2>3. CASE ConfirmAction(a)
    <3>1. [action[a] EXCEPT !.state = "sent"] \in ActionType
      BY <1>1 DEF ActionType
    <3> QED
      BY <1>4, <2>3, <3>1, AttemptStep
  <2>4. CASE ServerActs(a)
    <3>1. \A reply \in {"refused", "lost"} : [action[a] EXCEPT !.state = reply] \in ActionType
      BY <1>1 DEF ActionType
    <3>2. \A reply \in {"done", "lost"} :
            [action[a] EXCEPT !.state = reply, !.commit = Now + 1] \in ActionType
      <4>1. Now + 1 \in Nat /\ action[a] \in ActionType
        BY <1>1
      <4> QED
        BY <4>1, ActionTold, Zenon
    <3> QED
      BY <1>4, <2>4, <3>1, <3>2, AttemptStep
  <2> QED
    BY <1>3, <2>1, <2>2, <2>3, <2>4
<1>6. ownCommit' \in Nat
  <2>1. action[a].commit \in Nat
    BY <1>1 DEF ActionType
  <2>2. ownCommit' = ownCommit \/ ownCommit' = LaterOf(ownCommit, action[a].commit)
    BY <1>3 DEF ChooseAction, CancelAction, ConfirmAction, ServerActs, ActionReturns
  <2> QED
    BY <1>1, <2>1, <2>2, LaterTyped
<1> QED
  BY <1>1, <1>5, <1>6 DEF Types, EditTypes

LEMMA SaveTold ==
  ASSUME NEW a \in Sent, NEW reply \in {"done", "lost"}, NEW n \in Nat
  PROVE  /\ [a EXCEPT !.state = reply, !.commit = n] \in Sent
         /\ [a EXCEPT !.state = "lost"] \in Sent
<1> DEFINE b == [a EXCEPT !.state = reply]
<1>1. b \in Sent /\ [a EXCEPT !.state = "lost"] \in Sent
  BY DEF Sent
<1> HIDE DEF b
<1>2. [b EXCEPT !.commit = n] \in Sent
  BY <1>1 DEF Sent
<1> QED
  BY <1>1, <1>2 DEF b

LEMMA ClosedTyped == NewRow \in Live /\ Closed \in DrawerType
<1>1. NewRow \in Live
  BY DEF NewRow, Live, Status
<1> QED
  BY <1>1 DEF Closed, DrawerType, Live

LEMMA EditingTypes ==
  ASSUME Types, CommitsInv, Editing
  PROVE  EditTypes'
<1>1. /\ drawer \in DrawerType /\ save \in SaveType /\ ownCommit \in Nat /\ action' = action
      /\ Now \in Nat
  <2>1. action' = action
    BY DEF Editing, OpenEditDrawer, CloseDrawer, Save, ServerPatches, SaveReturns, EditField
  <2> QED
    BY <2>1 DEF Types, DbTypes, EditTypes
<1>2. drawer' \in DrawerType
  <2>1. CASE OpenEditDrawer
    <3>1. ListedRow \in Live
      BY <2>1, ListedIsLive DEF OpenEditDrawer, Types
    <3> QED
      BY <2>1, <3>1 DEF OpenEditDrawer, DrawerType, Live
  <2>2. CASE CloseDrawer \/ SaveReturns
    BY <1>1, <2>2, ClosedTyped DEF CloseDrawer, SaveReturns
  <2>3. ASSUME NEW f \in Fields, NEW x \in {0, 1}, EditField(f, x) PROVE drawer' \in DrawerType
    BY <1>1, <2>3 DEF EditField, DrawerType
  <2> QED
    BY <1>1, <2>1, <2>2, <2>3 DEF Editing, Save, ServerPatches
<1>3. save' \in SaveType
  <2>1. CASE Save
    <3>1. diffPatch(drawer.values, drawer.row.fields) \subseteq Fields
      BY DEF diffPatch
    <3> QED
      BY <1>1, <2>1, <3>1 DEF Save, SaveType, Sent, DrawerType
  <2>2. CASE ServerPatches
    <3>1. save \in Sent
      BY <1>1, <2>2 DEF ServerPatches, SaveType, NoSave
    <3>2. ASSUME NEW reply \in {"done", "lost"},
                 save' = [save EXCEPT !.state = reply, !.commit = Now + 1]
          PROVE  save' \in Sent
      <4>1. Now + 1 \in Nat
        BY <1>1
      <4> QED
        BY <3>1, <3>2, <4>1, SaveTold, Zenon
    <3>3. ASSUME save' = [save EXCEPT !.state = "lost"] PROVE save' \in Sent
      BY <3>1, <3>3 DEF Sent
    <3>4. save' \in Sent
      BY <2>2, <3>2, <3>3 DEF ServerPatches
    <3> QED
      BY <3>4 DEF SaveType
  <2>3. CASE SaveReturns
    BY <2>3 DEF SaveReturns, SaveType
  <2> QED
    BY <1>1, <2>1, <2>2, <2>3 DEF Editing, OpenEditDrawer, CloseDrawer, EditField
<1>4. ownCommit' \in Nat
  <2>1. save.commit \in Nat
    BY <1>1 DEF SaveType, Sent, NoSave
  <2>2. ownCommit' = ownCommit \/ ownCommit' = LaterOf(ownCommit, save.commit)
    BY DEF Editing, OpenEditDrawer, CloseDrawer, Save, ServerPatches, SaveReturns, EditField
  <2> QED
    BY <1>1, <2>1, <2>2, LaterTyped
<1> QED
  BY <1>1, <1>2, <1>3, <1>4 DEF Types, EditTypes

LEMMA TypesInit == Init => Types
<1> SUFFICES ASSUME Init PROVE Types
  OBVIOUS
<1>2. DbTypes
  BY ClosedTyped, LiveIsRow DEF Init, DbTypes, Now
<1>3. FilterTypes
  BY DEF Init, FilterTypes
<1>4. ListTypes
  <2>1. list \in ListType
    BY <1>3, ParamsTyped DEF Init, ListType
  <2> QED
    BY <2>1 DEF Init, ListTypes, RequestType
<1>5. EditTypes
  <2>1. action \in [Attempts -> ActionType]
    BY DEF Init, Idle, ActionType
  <2>2. drawer \in DrawerType
    BY ClosedTyped DEF Init
  <2> QED
    BY <2>1, <2>2 DEF Init, EditTypes, SaveType
<1>6. MountedTypes
  BY DEF Init, MountedTypes
<1> QED
  BY <1>2, <1>3, <1>4, <1>5, <1>6 DEF Types

LEMMA TypesStep ==
  ASSUME Types, CommitsInv, [Next]_vars
  PROVE  Types'
<1>1. DbTypes'
  BY DbGrows
<1>2. FilterTypes'
  BY FilteringTypes, OtherFilterTypes, Parts
  DEF Types, FilterTypes, vars, searchVars, filterVars
<1>3. ListTypes'
  <2>1. Fetching \/ UNCHANGED fetchVars
    BY Parts DEF vars, listVars, Filtering, Acting, Editing, SomeoneElse, Type, TimerFires, PressEnter,
       handleStatusChange, clearFilters, ChangePage, RefreshButton, ChooseAction, CancelAction,
       ConfirmAction, ServerActs, ActionReturns, OpenEditDrawer, CloseDrawer, Save,
       ServerPatches, SaveReturns, EditField
  <2> QED
    BY <2>1, FetchingTypes, ListTypesKept DEF Types
<1>4. EditTypes'
  <2>1. Acting \/ Editing \/ UNCHANGED <<editVars, ownCommit>>
    BY Parts DEF vars, Filtering, Fetching, SomeoneElse, Type, TimerFires, PressEnter,
       handleStatusChange, clearFilters, ChangePage, RefreshButton, RunEffect, ServerLists,
       Arrives
  <2> QED
    BY <2>1, ActingTypes, EditingTypes, EditTypesKept DEF Types
<1>5. MountedTypes'
  <2>1. CASE Acting
    BY <2>1 DEF Types, MountedTypes, Acting, ChooseAction, CancelAction, ConfirmAction, ServerActs,
       ActionReturns, listVars
  <2>2. CASE Fetching
    BY <2>2 DEF Types, MountedTypes, Fetching, RunEffect, ServerLists, Arrives
  <2>3. Acting \/ Fetching \/ mounted' = mounted
    BY Parts DEF vars, listVars, Filtering, Editing, SomeoneElse, Type, TimerFires, PressEnter,
       handleStatusChange, clearFilters, ChangePage, RefreshButton, OpenEditDrawer, CloseDrawer,
       Save, ServerPatches, SaveReturns, EditField
  <2> QED
    BY <2>1, <2>2, <2>3 DEF Types, MountedTypes
<1> QED
  BY <1>1, <1>2, <1>3, <1>4, <1>5 DEF Types

-----------------------------------------------------------------------------
(* The search, the form and the dialog.                                     *)

LEMMA SearchStep == FilterTypes /\ SearchInv /\ [Next]_vars => SearchInv'
<1> SUFFICES ASSUME FilterTypes, SearchInv, [Next]_vars PROVE SearchInv'
  OBVIOUS
<1>1. CASE UNCHANGED searchVars
  BY <1>1 DEF SearchInv, searchVars
<1>2. ASSUME NEW v \in Queries, Type(v) PROVE SearchInv'
  BY <1>2 DEF Type, SearchInv
<1>3. CASE TimerFires
  BY <1>3 DEF TimerFires, SearchInv
<1>4. CASE PressEnter \/ clearFilters
  BY <1>4 DEF PressEnter, clearFilters, commitSearch, StopsTimer, SearchInv
<1>5. Filtering \/ UNCHANGED searchVars
  BY Parts DEF vars, Fetching, Acting, Editing, SomeoneElse, RunEffect, ServerLists, Arrives,
     ChooseAction, CancelAction, ConfirmAction, ServerActs, ActionReturns, OpenEditDrawer,
     CloseDrawer, Save, ServerPatches, SaveReturns, EditField
<1> QED
  BY <1>1, <1>2, <1>3, <1>4, <1>5 DEF Filtering, handleStatusChange, ChangePage, RefreshButton

LEMMA SaveStep == Types /\ CommitsInv /\ SaveInv /\ [Next]_vars => SaveInv'
<1> SUFFICES ASSUME Types, CommitsInv, SaveInv, [Next]_vars PROVE SaveInv'
  OBVIOUS
<1>0. drawer \in DrawerType /\ save \in SaveType
  BY DEF Types, EditTypes
<1>1. CASE UNCHANGED <<drawer, save>>
  BY <1>1 DEF SaveInv
<1>2. CASE OpenEditDrawer
  <2>1. drawer'.values = drawer'.row.fields /\ save' = save
    BY <1>2 DEF OpenEditDrawer, editVars
  <2> QED
    BY <2>1 DEF SaveInv
<1>3. CASE CloseDrawer \/ SaveReturns
  <2>1. \/ drawer' = drawer
        \/ drawer'.values = drawer'.row.fields
    BY <1>3 DEF CloseDrawer, SaveReturns, Closed
  <2>2. save' = save \/ save' = NoSave
    BY <1>3 DEF CloseDrawer, SaveReturns
  <2>3. save'.patch \subseteq save'.touched
    BY <2>2 DEF SaveInv, NoSave
  <2> QED
    BY <2>1, <2>3 DEF SaveInv
<1>4. CASE Save
  <2>1. /\ save'.patch = diffPatch(drawer.values, drawer.row.fields)
        /\ save'.touched = drawer.touched /\ drawer' = drawer
    BY <1>4 DEF Save
  <2>2. diffPatch(drawer.values, drawer.row.fields) \subseteq drawer.touched
    BY DEF diffPatch, SaveInv
  <2> QED
    BY <2>1, <2>2 DEF SaveInv
<1>5. CASE ServerPatches
  <2>1. save \in Sent /\ drawer' = drawer
    BY <1>0, <1>5 DEF ServerPatches, SaveType, NoSave
  <2>2. save'.patch = save.patch /\ save'.touched = save.touched
    BY <1>5, <2>1 DEF ServerPatches, Sent
  <2> QED
    BY <2>1, <2>2 DEF SaveInv
<1>6. ASSUME NEW f \in Fields, NEW x \in {0, 1}, EditField(f, x) PROVE SaveInv'
  <2>1. /\ drawer'.row = drawer.row /\ drawer'.values = [drawer.values EXCEPT ![f] = x]
        /\ drawer'.touched = drawer.touched \cup {f} /\ save' = save
    BY <1>0, <1>6 DEF EditField, DrawerType
  <2>2. \A g \in Fields \ {f} : drawer'.values[g] = drawer.values[g]
    BY <1>0, <2>1 DEF DrawerType
  <2> QED
    BY <2>1, <2>2 DEF SaveInv
<1>7. Editing \/ UNCHANGED <<drawer, save>>
  BY Parts DEF vars, editVars, Filtering, Fetching, Acting, SomeoneElse, Type, TimerFires,
     PressEnter, handleStatusChange, clearFilters, ChangePage, RefreshButton, RunEffect,
     ServerLists, Arrives, ChooseAction, CancelAction, ConfirmAction, ServerActs, ActionReturns
<1> QED
  BY <1>1, <1>2, <1>3, <1>4, <1>5, <1>6, <1>7 DEF Editing

\* The menu's matrix is the server's.
LEMMA MenuIsLegal ==
  \A status \in Status : \A next \in TRANSITIONS[status] : can_transition(status, next)
  BY DEF Status, TRANSITIONS, can_transition, ALLOWED

\* An attempt that goes on stays legal: the rows it was chosen for are kept.
LEMMA LegalKept ==
  ASSUME Types, [Next]_vars, NEW old \in ActionType, NEW new \in ActionType, Legal(old),
         new.state # "idle" => old.state # "idle" /\ new.seen = old.seen /\ new.next = old.next,
         new.state = "refused" => old.seen < Now
  PROVE  Legal(new)'
<1>1. Now \in Nat /\ Now' \in Nat /\ Now <= Now' /\ \A i \in 1..Now : db'[i] = db[i]
  BY DbGrows DEF Types, DbTypes
<1> SUFFICES ASSUME new.state # "idle" PROVE Legal(new)'
  BY DEF Legal
<1>2. old.seen \in 1..Now /\ old.seen \in 1..Now' /\ db'[old.seen] = db[old.seen]
  BY <1>1 DEF Legal
<1> QED
  BY <1>1, <1>2 DEF Legal

LEMMA ActionStep == Types /\ CommitsInv /\ ActionInv /\ [Next]_vars => ActionInv'
<1> SUFFICES ASSUME Types, CommitsInv, ActionInv, [Next]_vars, NEW b \in Attempts
             PROVE  Legal(action[b])'
  BY DEF ActionInv
<1>0. /\ action \in [Attempts -> ActionType] /\ Now \in Nat /\ action[b] \in ActionType
      /\ Legal(action[b])
  BY DEF Types, DbTypes, EditTypes, ActionInv
<1>1. CASE action'[b] = action[b]
  <2>1. action[b].state = "refused" => action[b].seen < Now
    BY <1>0 DEF Legal
  <2>2. \A new \in ActionType : new = action[b] => Legal(new)'
    BY <1>0, <2>1, LegalKept
  <2> QED
    BY <1>0, <1>1, <2>2 DEF Legal
<1>2. CASE action'[b] = Idle
  BY <1>2 DEF Legal, Idle
<1>3. ASSUME NEW n \in Status \cup {"delete"}, ChooseAction(b, n) PROVE Legal(action[b])'
  <2>1. list.commit \in 1..Now /\ ListedRow \in Live
    BY <1>3, ListedIsLive DEF ChooseAction, Types
  <2>2. action'[b] = [state |-> "dialog", next |-> n, seen |-> list.commit, commit |-> 0]
    BY <1>0, <1>3 DEF ChooseAction
  <2>3. db' = db
    BY <1>3 DEF ChooseAction
  <2>4. n = "delete" \/ can_transition(ListedRow.status, n)
    <3>1. ListedRow.status \in Status
      BY <2>1 DEF Live
    <3> QED
      BY <1>3, <3>1, MenuIsLegal DEF ChooseAction
  <2> QED
    BY <2>1, <2>2, <2>3, <2>4 DEF Legal, ListedRow, Now
<1>4. CASE ConfirmAction(b)
  <2>1. /\ action'[b] = [action[b] EXCEPT !.state = "sent"] /\ action[b].state = "dialog"
    BY <1>0, <1>4, AttemptStep DEF ConfirmAction
  <2>2. PICK new \in ActionType : /\ action'[b] = new /\ new.state = "sent"
                                  /\ new.seen = action[b].seen /\ new.next = action[b].next
    BY <1>0, <2>1 DEF ActionType
  <2>3. Legal(new)'
    BY <1>0, <2>1, <2>2, LegalKept
  <2> QED
    BY <2>2, <2>3 DEF Legal
<1>5. CASE ServerActs(b)
  <2>1. action[b].state = "sent"
    BY <1>5 DEF ServerActs
  <2>2. PICK new \in ActionType : /\ action'[b] = new /\ new.state # "idle"
                                  /\ new.seen = action[b].seen /\ new.next = action[b].next
    <3>1. \A reply \in {"refused", "lost"} :
            LET new == [action[b] EXCEPT !.state = reply]
            IN  /\ new \in ActionType /\ new.state # "idle"
                /\ new.seen = action[b].seen /\ new.next = action[b].next
      BY <1>0 DEF ActionType
    <3>2. ASSUME NEW reply \in {"done", "lost"}
          PROVE  LET new == [action[b] EXCEPT !.state = reply, !.commit = Now + 1]
                 IN  /\ new \in ActionType /\ new.state # "idle"
                     /\ new.seen = action[b].seen /\ new.next = action[b].next
      <4> DEFINE told == [action[b] EXCEPT !.state = reply]
      <4>1. /\ told \in ActionType /\ told.state # "idle"
            /\ told.seen = action[b].seen /\ told.next = action[b].next
        BY <1>0 DEF ActionType
      <4> HIDE DEF told
      <4>2. LET new == [told EXCEPT !.commit = Now + 1]
            IN  /\ new \in ActionType /\ new.state # "idle"
                /\ new.seen = action[b].seen /\ new.next = action[b].next
        BY <1>0, <4>1 DEF ActionType
      <4> QED
        BY <4>2 DEF told
    <3>3. \/ \E reply \in {"refused", "lost"} : action'[b] = [action[b] EXCEPT !.state = reply]
          \/ \E reply \in {"done", "lost"} :
               action'[b] = [action[b] EXCEPT !.state = reply, !.commit = Now + 1]
      BY <1>0, <1>5 DEF ServerActs
    <3> QED
      BY <3>1, <3>2, <3>3
  <2>3. ASSUME new.state = "refused" PROVE action[b].seen < Now
    <3> DEFINE next == action[b].next
    <3>1. ~(Row # Gone /\ (next = "delete" \/ can_transition(Row.status, next)))
      <4>1. ASSUME NEW reply \in {"done", "lost"}
            PROVE  action' # [action EXCEPT ![b].state = reply, ![b].commit = Now + 1]
        BY <1>0, <2>2, <2>3 DEF ActionType
      <4>2. action' # [action EXCEPT ![b].state = "lost"]
        BY <1>0, <2>2, <2>3 DEF ActionType
      <4> QED
        BY <1>5, <4>1, <4>2 DEF ServerActs
    <3>2. /\ action[b].seen \in 1..Now /\ db[action[b].seen] # Gone
          /\ next = "delete" \/ can_transition(db[action[b].seen].status, next)
      BY <1>0, <2>1, LiveIsRow DEF Legal
    <3> HIDE DEF next
    <3>3. action[b].seen # Now
      BY <3>1, <3>2 DEF Row
    <3> QED
      BY <1>0, <3>2, <3>3
  <2>4. Legal(new)'
    BY <1>0, <2>1, <2>2, <2>3, LegalKept
  <2> QED
    BY <2>2, <2>4 DEF Legal
<1>6. CASE CancelAction(b) \/ ActionReturns(b)
  BY <1>0, <1>2, <1>6, AttemptStep
<1>7. ASSUME NEW a \in Attempts \ {b},
             \/ \E n \in Status \cup {"delete"} : ChooseAction(a, n)
             \/ CancelAction(a) \/ ConfirmAction(a) \/ ServerActs(a) \/ ActionReturns(a)
      PROVE  action'[b] = action[b]
  BY <1>7, OthersKept
<1>8. Acting \/ action' = action
  BY Parts DEF vars, editVars, Filtering, Fetching, Editing, SomeoneElse, Type, TimerFires,
     PressEnter, handleStatusChange, clearFilters, ChangePage, RefreshButton, RunEffect,
     ServerLists, Arrives, OpenEditDrawer, CloseDrawer, Save, ServerPatches, SaveReturns, EditField
<1> QED
  BY <1>1, <1>3, <1>4, <1>5, <1>6, <1>7, <1>8 DEF Acting

-----------------------------------------------------------------------------
(* The list and its requests.                                               *)

\* What the steps that are not the effect, a server's answer or its arrival do to them.
Aside ==
  /\ UNCHANGED fetchVars
  /\ \/ UNCHANGED <<refreshKey, ownCommit>>
     \/ /\ refreshKey' = refreshKey + 1
        /\ ownCommit' \in {ownCommit, save.commit} \cup {action[a].commit : a \in Attempts}

LEMMA AsideOrFetching == [Next]_vars => Aside \/ Fetching
<1> SUFFICES ASSUME [Next]_vars, ~Fetching PROVE Aside
  OBVIOUS
<1>1. Filtering => Aside
  BY DEF Aside, listVars, Filtering, Type, TimerFires, PressEnter, handleStatusChange, clearFilters,
     ChangePage, RefreshButton
<1>2. Acting => Aside
  BY DEF Aside, listVars, Acting, ChooseAction, CancelAction, ConfirmAction, ServerActs, ActionReturns,
     Refreshed, LaterOf
<1>3. Editing => Aside
  BY DEF Aside, listVars, Editing, OpenEditDrawer, CloseDrawer, Save, ServerPatches, SaveReturns,
     EditField, Refreshed, LaterOf
<1>4. SomeoneElse => Aside
  BY DEF Aside, listVars, SomeoneElse
<1> QED
  BY <1>1, <1>2, <1>3, <1>4, Parts DEF vars, listVars, Aside

\* What a fetching step does to the requests.
Sends(s) ==
  /\ effectDeps' = Deps /\ list'.loading = TRUE /\ list'.commit = list.commit
  /\ requests'[s].state = "sent" /\ requests'[s].params = Params /\ requests'[s].active
  /\ requests'[s].commit = 0
  /\ \A r \in Slots \ {s} :
       \/ requests'[r] = requests[r] /\ requests[r].state = "free"
       \/ requests'[r].state = requests[r].state /\ ~requests'[r].active
          /\ requests'[r].commit = requests[r].commit

OthersSame(s) == \A r \in Slots \ {s} : requests'[r] = requests[r]

Answers(s) ==
  /\ UNCHANGED <<effectDeps, list>> /\ OthersSame(s)
  /\ requests[s].state = "sent"
  /\ requests'[s].params = requests[s].params /\ requests'[s].active = requests[s].active
  /\ \/ requests'[s].state = "answered" /\ requests'[s].commit = Now
     \/ requests'[s].state = "failed" /\ requests'[s].commit = requests[s].commit

Takes(s) ==
  /\ effectDeps' = effectDeps /\ OthersSame(s)
  /\ requests[s].state # "free" /\ requests'[s].state = "free"
  /\ \/ ~Active(s) /\ list' = list
     \/ /\ Active(s) /\ requests[s].state = "failed"
        /\ list'.loading = FALSE /\ list'.error = TRUE /\ list'.commit = list.commit
     \/ /\ Active(s) /\ requests[s].state = "answered"
        /\ list'.loading = FALSE /\ list'.error = FALSE
        /\ list'.params = requests[s].params /\ list'.commit = requests[s].commit

Fetches ==
  /\ UNCHANGED <<refreshKey, ownCommit, db, action, save>>
  /\ \E s \in Slots : Sends(s) \/ Answers(s) \/ Takes(s)

LEMMA FetchingIs == Types /\ Fetching => Fetches
<1> SUFFICES ASSUME Types, Fetching PROVE Fetches
  OBVIOUS
<1>0. /\ requests \in [Slots -> RequestType] /\ list \in ListType
      /\ UNCHANGED <<refreshKey, ownCommit, db, action, save>>
  BY DEF Types, ListTypes, Fetching, RunEffect, ServerLists, Arrives, editVars
<1>1. CASE RunEffect
  <2>1. PICK s \in Slots : requests' = [r \in Slots |->
            IF r = s THEN [state |-> "sent", params |-> Params, active |-> TRUE, commit |-> 0]
            ELSE IF requests[r].state = "free" THEN requests[r]
            ELSE [requests[r] EXCEPT !.active = FALSE]]
    BY <1>1 DEF RunEffect
  <2>2. effectDeps' = Deps /\ list'.loading = TRUE /\ list'.commit = list.commit
    BY <1>0, <1>1 DEF RunEffect, ListType
  <2>3. requests'[s] = [state |-> "sent", params |-> Params, active |-> TRUE, commit |-> 0]
    BY <2>1
  <2>4. ASSUME NEW r \in Slots \ {s}, requests[r].state # "free"
        PROVE  /\ requests'[r].state = requests[r].state /\ ~requests'[r].active
               /\ requests'[r].commit = requests[r].commit
    <3>1. requests'[r] = [requests[r] EXCEPT !.active = FALSE]
      BY <2>1, <2>4
    <3>2. requests[r] \in Asked
      BY <1>0, <2>4 DEF RequestType
    <3> QED
      BY <3>1, <3>2 DEF Asked
  <2>5. ASSUME NEW r \in Slots \ {s}, requests[r].state = "free"
        PROVE  requests'[r] = requests[r]
    BY <2>1, <2>5
  <2>6. Sends(s)
    BY <2>2, <2>3, <2>4, <2>5 DEF Sends
  <2> QED
    BY <1>0, <2>6 DEF Fetches
<1>2. ASSUME NEW s \in Slots, ServerLists(s) PROVE Fetches
  <2>1. requests[s] \in Asked /\ requests[s].state = "sent"
    BY <1>0, <1>2 DEF ServerLists, RequestType
  <2>2. /\ UNCHANGED <<effectDeps, list>> /\ OthersSame(s)
    BY <1>0, <1>2 DEF ServerLists, OthersSame
  <2>3. ASSUME requests'[s] = [requests[s] EXCEPT !.state = "answered", !.commit = Now]
        PROVE  /\ requests'[s].params = requests[s].params
               /\ requests'[s].active = requests[s].active
               /\ requests'[s].state = "answered" /\ requests'[s].commit = Now
    BY <2>1, <2>3 DEF Asked
  <2>4. ASSUME requests'[s] = [requests[s] EXCEPT !.state = "failed"]
        PROVE  /\ requests'[s].params = requests[s].params
               /\ requests'[s].active = requests[s].active
               /\ requests'[s].state = "failed" /\ requests'[s].commit = requests[s].commit
    BY <2>1, <2>4 DEF Asked
  <2>5. \/ requests'[s] = [requests[s] EXCEPT !.state = "answered", !.commit = Now]
        \/ requests'[s] = [requests[s] EXCEPT !.state = "failed"]
    BY <1>0, <1>2 DEF ServerLists
  <2>6. Answers(s)
    BY <2>1, <2>2, <2>3, <2>4, <2>5 DEF Answers
  <2> QED
    BY <1>0, <2>6 DEF Fetches
<1>3. ASSUME NEW s \in Slots, Arrives(s) PROVE Fetches
  <2>1. requests[s] \in Asked /\ requests[s].state # "free"
    BY <1>0, <1>3 DEF Arrives, RequestType
  <2>2. requests'[s].state = "free" /\ OthersSame(s) /\ effectDeps' = effectDeps
    BY <1>0, <1>3 DEF Arrives, OthersSame
  <2>3. ASSUME ~requests[s].active PROVE Takes(s)
    BY <1>3, <2>1, <2>2, <2>3 DEF Arrives, Taken, Active, Takes
  <2>4. ASSUME requests[s].active, requests[s].state = "failed" PROVE Takes(s)
    <3>1. list' = [list EXCEPT !.loading = FALSE, !.error = TRUE]
      BY <1>3, <2>4 DEF Arrives, Taken
    <3>2. list'.loading = FALSE /\ list'.error = TRUE /\ list'.commit = list.commit
      BY <1>0, <3>1 DEF ListType
    <3> QED
      BY <2>1, <2>2, <2>4, <3>2 DEF Active, Takes
  <2>5. ASSUME requests[s].active, requests[s].state = "answered" PROVE Takes(s)
    <3>1. list' = [params |-> requests[s].params, commit |-> requests[s].commit,
                   loading |-> FALSE, error |-> FALSE]
      BY <1>3, <2>5 DEF Arrives, Taken
    <3> QED
      BY <2>1, <2>2, <2>5, <3>1 DEF Active, Takes
  <2>6. Takes(s)
    BY <1>3, <2>3, <2>4, <2>5 DEF Arrives
  <2> QED
    BY <1>0, <2>6 DEF Fetches
<1> QED
  BY <1>1, <1>2, <1>3 DEF Fetching

LEMMA Requested ==
  ASSUME Types
  PROVE  /\ \A s \in Slots : requests[s].state # "free" =>
              requests[s].active \in BOOLEAN /\ requests[s].commit \in Nat
         /\ list.loading \in BOOLEAN /\ list.error \in BOOLEAN /\ list.commit \in Nat
         /\ ownCommit \in Nat /\ refreshKey \in Nat /\ Now \in Nat
         /\ effectDeps \in DepsType => effectDeps.refreshKey \in Nat
         /\ effectDeps = <<>> \/ effectDeps \in DepsType
  BY DEF Types, DbTypes, FilterTypes, ListTypes, EditTypes, RequestType, Asked, ListType, DepsType

LEMMA RequestsStep == Types /\ RequestsInv /\ ListInv /\ [Next]_vars => RequestsInv' /\ ListInv'
<1> SUFFICES ASSUME Types, RequestsInv, ListInv, [Next]_vars PROVE RequestsInv' /\ ListInv'
  OBVIOUS
<1>1. CASE Aside
  BY <1>1 DEF Aside, fetchVars, RequestsInv, ListInv, Active
<1>2. ASSUME NEW s \in Slots, Sends(s) PROVE RequestsInv' /\ ListInv'
  <2>1. Deps \in DepsType /\ Deps.params = Params
    BY ParamsTyped DEF Types, Deps
  <2>2. /\ Active(s)' /\ \A r \in Slots \ {s} : ~Active(r)'
        /\ list'.loading = TRUE /\ effectDeps' = Deps /\ requests'[s].params = Params
    BY <1>2 DEF Sends, Active
  <2>3. RequestsInv'
    BY <2>1, <2>2 DEF RequestsInv
  <2> QED
    BY <2>1, <2>2, <2>3 DEF ListInv
<1>3. ASSUME NEW s \in Slots, Answers(s) PROVE RequestsInv' /\ ListInv'
  <2>1. /\ UNCHANGED <<effectDeps, list>>
        /\ \A r \in Slots : Active(r)' <=> Active(r)
        /\ \A r \in Slots : requests'[r].params = requests[r].params
    BY <1>3 DEF Answers, OthersSame, Active
  <2> QED
    BY <2>1 DEF RequestsInv, ListInv
<1>4. ASSUME NEW s \in Slots, Takes(s) PROVE RequestsInv' /\ ListInv'
  <2>1. /\ effectDeps' = effectDeps /\ ~Active(s)'
        /\ \A r \in Slots \ {s} : /\ Active(r)' <=> Active(r)
                                  /\ requests'[r].params = requests[r].params
    BY <1>4 DEF Takes, OthersSame, Active
  <2>2. CASE ~Active(s) /\ list' = list
    BY <2>1, <2>2 DEF RequestsInv, ListInv
  <2>3. CASE Active(s)
    <3>1. /\ list'.loading = FALSE /\ \A r \in Slots : ~Active(r)'
          /\ effectDeps \in DepsType /\ requests[s].params = effectDeps.params
      BY <1>4, <2>1, <2>3 DEF Takes, RequestsInv
    <3>2. list'.error = FALSE => list'.params = requests[s].params
      BY <1>4, <2>3 DEF Takes
    <3>3. list'.error \in BOOLEAN
      BY <1>4, <2>3 DEF Takes
    <3> QED
      BY <2>1, <3>1, <3>2, <3>3 DEF RequestsInv, ListInv
  <2> QED
    BY <1>4, <2>2, <2>3 DEF Takes
<1> QED
  BY <1>1, <1>2, <1>3, <1>4, AsideOrFetching, FetchingIs DEF Fetches

LEMMA FreshStep ==
  ASSUME Types, CommitsInv, RequestsInv, FreshInv, [Next]_vars
  PROVE  FreshInv'
<1>0. ownCommit \in Nat /\ refreshKey \in Nat /\ (effectDeps \in DepsType => effectDeps.refreshKey \in Nat)
  BY Requested
<1>1. CASE UNCHANGED fetchVars /\ UNCHANGED <<refreshKey, ownCommit>>
  BY <1>1 DEF fetchVars, FreshInv, Active
<1>2. CASE UNCHANGED fetchVars /\ refreshKey' = refreshKey + 1
  <2>1. effectDeps \in DepsType => effectDeps.refreshKey <= refreshKey /\ effectDeps.refreshKey < refreshKey'
    BY <1>0, <1>2 DEF FreshInv
  <2> QED
    BY <1>0, <1>2, <2>1 DEF fetchVars, FreshInv
<1>3. ASSUME NEW s \in Slots, Sends(s), UNCHANGED <<refreshKey, ownCommit>> PROVE FreshInv'
  <2>1. Deps.refreshKey = refreshKey
    BY DEF Deps
  <2>2. /\ effectDeps' = Deps /\ list'.loading = TRUE
        /\ requests'[s].state = "sent" /\ \A r \in Slots \ {s} : ~Active(r)'
    BY <1>3 DEF Sends, Active
  <2> QED
    BY <1>0, <1>3, <2>1, <2>2 DEF FreshInv
<1>4. ASSUME NEW s \in Slots, Answers(s), UNCHANGED <<refreshKey, ownCommit>> PROVE FreshInv'
  <2>1. /\ UNCHANGED <<effectDeps, list>> /\ \A r \in Slots \ {s} : requests'[r] = requests[r]
        /\ requests'[s].state = "answered" => requests'[s].commit = Now
    BY <1>4 DEF Answers, OthersSame
  <2>2. Now >= ownCommit
    BY Requested DEF CommitsInv
  <2> QED
    BY <1>4, <2>1, <2>2 DEF FreshInv, Active
<1>5. ASSUME NEW s \in Slots, Takes(s), UNCHANGED <<refreshKey, ownCommit>> PROVE FreshInv'
  <2>1. /\ effectDeps' = effectDeps /\ ~Active(s)'
        /\ \A r \in Slots \ {s} : requests'[r] = requests[r]
    BY <1>5 DEF Takes, OthersSame, Active
  <2>2. CASE list' = list
    BY <1>5, <2>1, <2>2 DEF FreshInv, Active
  <2>3. CASE Active(s) /\ list'.error = TRUE
    BY <1>5, <2>1, <2>3 DEF FreshInv, Active
  <2>4. CASE Active(s) /\ requests[s].state = "answered" /\ list'.commit = requests[s].commit
    BY <1>5, <2>1, <2>4 DEF FreshInv, Active
  <2> QED
    BY <1>5, <2>2, <2>3, <2>4 DEF Takes
<1> QED
  BY <1>1, <1>2, <1>3, <1>4, <1>5, AsideOrFetching, FetchingIs DEF Fetches, Aside

LEMMA CommitsStep ==
  ASSUME Types, CommitsInv, RequestsInv, [Next]_vars
  PROVE  CommitsInv'
<1>0. /\ action \in [Attempts -> ActionType] /\ save \in SaveType /\ Now \in Nat
      /\ list.commit \in Nat /\ ownCommit \in Nat /\ save.commit \in Nat
      /\ \A a \in Attempts : action[a].commit \in Nat
      /\ \A s \in Slots : requests[s].state # "free" => requests[s].commit \in Nat
  BY Requested DEF Types, EditTypes, ActionType, SaveType, Sent, NoSave
<1>1. Now' \in Nat /\ Now <= Now'
  BY DbGrows
<1>2. ASSUME Fetches PROVE CommitsInv'
  <2>1. Now' = Now /\ UNCHANGED <<action, save, ownCommit>>
    BY <1>2 DEF Fetches, Now
  <2>2. PICK s \in Slots : Sends(s) \/ Answers(s) \/ Takes(s)
    BY <1>2 DEF Fetches
  <2>3. list'.commit <= Now
    BY <1>0, <2>2 DEF Sends, Answers, Takes, CommitsInv
  <2>4. ASSUME NEW r \in Slots, requests'[r].state # "free" PROVE requests'[r].commit <= Now
    <3>1. CASE Sends(s)
      BY <1>0, <2>4, <3>1 DEF Sends, CommitsInv
    <3>2. CASE Answers(s)
      BY <1>0, <2>4, <3>2 DEF Answers, OthersSame, CommitsInv
    <3>3. CASE Takes(s)
      BY <1>0, <2>4, <3>3 DEF Takes, OthersSame, CommitsInv
    <3> QED
      BY <2>2, <3>1, <3>2, <3>3
  <2> QED
    BY <2>1, <2>3, <2>4 DEF CommitsInv
<1>3. ASSUME Aside PROVE CommitsInv'
  <2>1. /\ ownCommit' \in {ownCommit, save.commit} \cup {action[a].commit : a \in Attempts}
        /\ UNCHANGED <<list, requests>>
    BY <1>3 DEF Aside, fetchVars
  <2>2. ownCommit' <= Now' /\ list'.commit <= Now'
    BY <1>0, <1>1, <2>1 DEF CommitsInv
  <2>3. \A s \in Slots : requests'[s].state # "free" => requests'[s].commit <= Now'
    BY <1>0, <1>1, <2>1 DEF CommitsInv
  <2>4. ASSUME NEW b \in Attempts PROVE action'[b].commit <= Now'
    <3>0. action[b] \in ActionType /\ action[b].commit <= Now'
      BY <1>0, <1>1 DEF CommitsInv
    <3>1. CASE action'[b] = action[b]
      BY <3>0, <3>1
    <3>2. ASSUME NEW n \in Status \cup {"delete"}, ChooseAction(b, n) PROVE action'[b].commit = 0
      BY <1>0, <3>2 DEF ChooseAction
    <3>3. CancelAction(b) \/ ActionReturns(b) => action'[b].commit = 0
      BY <1>0 DEF CancelAction, ActionReturns, Idle
    <3>4. ConfirmAction(b) => action'[b].commit = action[b].commit
      BY <1>0 DEF ConfirmAction, ActionType
    <3>5. ASSUME ServerActs(b) PROVE action'[b].commit \in {action[b].commit, Now'}
      <4>1. ASSUME NEW reply, NEW row, Commit(row),
                   action' = [action EXCEPT ![b].state = reply, ![b].commit = Now + 1]
            PROVE  action'[b].commit = Now'
        <5>1. action'[b].commit = Now + 1
          BY <1>0, <4>1 DEF ActionType
        <5>2. Now' = Now + 1
          BY <4>1 DEF Commit, Now, Types, DbTypes
        <5> QED
          BY <5>1, <5>2
      <4>2. ASSUME NEW reply, action' = [action EXCEPT ![b].state = reply]
            PROVE  action'[b].commit = action[b].commit
        BY <1>0, <4>2 DEF ActionType
      <4> QED
        BY <3>5, <4>1, <4>2 DEF ServerActs
    <3>6. ASSUME NEW a \in Attempts \ {b},
                 \/ \E n \in Status \cup {"delete"} : ChooseAction(a, n)
                 \/ CancelAction(a) \/ ConfirmAction(a) \/ ServerActs(a) \/ ActionReturns(a)
          PROVE  action'[b] = action[b]
      BY <1>0, <3>6, OthersKept
    <3>7. Acting \/ action' = action
      BY Parts DEF vars, editVars, Filtering, Fetching, Editing, SomeoneElse, Type, TimerFires,
         PressEnter, handleStatusChange, clearFilters, ChangePage, RefreshButton, RunEffect,
         ServerLists, Arrives, OpenEditDrawer, CloseDrawer, Save, ServerPatches, SaveReturns,
         EditField
    <3> QED
      BY <1>0, <1>1, <3>0, <3>1, <3>2, <3>3, <3>4, <3>5, <3>6, <3>7 DEF Acting
  <2>5. save'.commit <= Now'
    <3>1. CASE save' = save
      BY <1>0, <1>1, <3>1 DEF CommitsInv
    <3>2. Save \/ SaveReturns => save'.commit = 0
      BY DEF Save, SaveReturns, NoSave
    <3>3. ASSUME ServerPatches PROVE save'.commit = save.commit \/ save'.commit = Now'
      <4>0. save \in Sent
        BY <1>0, <3>3 DEF ServerPatches, SaveType, NoSave
      <4>1. ASSUME NEW reply, NEW row, Commit(row),
                   save' = [save EXCEPT !.state = reply, !.commit = Now + 1]
            PROVE  save'.commit = Now'
        <5>1. save'.commit = Now + 1
          BY <4>0, <4>1 DEF Sent
        <5>2. Now' = Now + 1
          BY <4>1 DEF Commit, Now, Types, DbTypes
        <5> QED
          BY <5>1, <5>2
      <4>2. ASSUME save' = [save EXCEPT !.state = "lost"]
            PROVE  save'.commit = save.commit
        BY <4>0, <4>2 DEF Sent
      <4> QED
        BY <3>3, <4>1, <4>2 DEF ServerPatches
    <3>4. Save \/ SaveReturns \/ ServerPatches \/ save' = save
      BY Parts DEF vars, editVars, Filtering, Fetching, Acting, SomeoneElse, Type, TimerFires,
         PressEnter, handleStatusChange, clearFilters, ChangePage, RefreshButton, RunEffect,
         ServerLists, Arrives, ChooseAction, CancelAction, ConfirmAction, ServerActs,
         ActionReturns, Editing, OpenEditDrawer, CloseDrawer, EditField
    <3>5. save'.commit \in {0, save.commit, Now'}
      BY <3>2, <3>3, <3>4
    <3> QED
      BY <1>0, <1>1, <3>5 DEF CommitsInv
  <2> QED
    BY <2>2, <2>3, <2>4, <2>5 DEF CommitsInv
<1> QED
  BY <1>2, <1>3, AsideOrFetching, FetchingIs

-----------------------------------------------------------------------------

LEMMA NeverRun == <<>> \notin DepsType
<1>1. DOMAIN <<>> = {}
  OBVIOUS
<1>2. \A deps \in DepsType : "params" \in DOMAIN deps
  BY DEF DepsType
<1> QED
  BY <1>1, <1>2

LEMMA InitInv == Init => Inv
<1> SUFFICES ASSUME Init PROVE Inv
  OBVIOUS
<1>1. SearchInv /\ CommitsInv
  BY DEF Init, SearchInv, CommitsInv, Idle, NoSave, Now
<1>2. RequestsInv /\ ListInv
  BY DEF Init, RequestsInv, ListInv, Active
<1>3. FreshInv
  BY NeverRun DEF Init, FreshInv
<1>4. ActionInv /\ SaveInv
  BY DEF Init, ActionInv, Legal, Idle, SaveInv, Closed, NoSave
<1> QED
  BY <1>1, <1>2, <1>3, <1>4, TypesInit DEF Inv

LEMMA Invariance == Spec => []Inv
<1>1. Inv /\ [Next]_vars => Inv'
  BY TypesStep, SearchStep, CommitsStep, RequestsStep, FreshStep, ActionStep, SaveStep
  DEF Inv, Types
<1> QED
  BY <1>1, InitInv, PTL DEF Spec

\* The page's state and the database keep their types, and a commit that the list, an
\* action or a save names exists.
THEOREM TypeCorrect == Spec => []TypeOK
<1>1. Inv => TypeOK
  <2> SUFFICES ASSUME Inv PROVE TypeOK
    OBVIOUS
  <2>1. list.commit \in 0..Now /\ list.loading \in BOOLEAN /\ list.error \in BOOLEAN /\ ownCommit \in 0..Now
    BY Requested DEF Inv, CommitsInv
  <2>2. /\ \A a \in Attempts :
             action[a].state \in {"idle", "dialog", "sent", "done", "refused", "lost"}
        /\ mounted \subseteq Attempts /\ drawer.open \in BOOLEAN /\ drawer.values \in [Fields -> {0, 1}]
    BY DEF Inv, Types, EditTypes, MountedTypes, ActionType, DrawerType
  <2>3. save.state \in {"idle", "sent", "done", "lost"} /\ save.patch \subseteq Fields
    BY DEF Inv, Types, EditTypes, SaveType, Sent, NoSave
  <2> QED
    BY <2>1, <2>2, <2>3 DEF Inv, Types, DbTypes, FilterTypes, TypeOK
<1> QED
  BY <1>1, Invariance, PTL

\* With any number of requests whose answers come in any order, the settled table is the
\* answer to the search, filter and page that are set, no timer is left behind, and the
\* spinner ends (useVehicleList, InventoryPage).
THEOREM TableStaysTrue == Spec => []TableMatchesFilters
<1>1. Inv => TableMatchesFilters
  <2> SUFFICES ASSUME Inv PROVE TableMatchesFilters
    OBVIOUS
  <2>1. Settled => list.params = Params
    BY DEF Inv, ListInv, Settled, EffectDue, Deps
  <2>2. timer = NoTimer => debouncedQuery = rawQuery
    BY DEF Inv, SearchInv
  <2>3. list.loading => EffectDue \/ \E s \in Slots : requests[s].state # "free" /\ requests[s].active
    BY NeverRun, ParamsTyped DEF Inv, Types, ListInv, Active, EffectDue
  <2> QED
    BY <2>1, <2>2, <2>3 DEF TableMatchesFilters
<1> QED
  BY <1>1, Invariance, PTL

\* What this page changed, and was told of, is in the settled table: refresh() comes after
\* the answer, and makes every earlier request inactive before it can be shown
\* (RowActions, VehicleFormDrawer, useVehicleList).
THEOREM OwnChangesStay == Spec => []OwnChangesAreShown
<1>1. Inv => OwnChangesAreShown
  <2> SUFFICES ASSUME Inv, Settled PROVE list.commit >= ownCommit
    BY DEF OwnChangesAreShown
  <2>1. effectDeps = Deps /\ list.loading = FALSE /\ list.error = FALSE
    BY Requested DEF Inv, Settled, EffectDue
  <2>2. effectDeps \in DepsType /\ effectDeps.refreshKey = refreshKey
    BY <2>1, ParamsTyped DEF Inv, Types, Deps
  <2> QED
    BY <2>1, <2>2 DEF Inv, FreshInv
<1> QED
  BY <1>1, Invariance, PTL

\* However many commits come between, a menu entry is refused only for a vehicle that was
\* changed after the row was read (RowActions, transition_vehicle).
THEOREM RefusedIsStale == Spec => []RefusalMeansStale
<1>1. Inv => RefusalMeansStale
  BY DEF Inv, ActionInv, Legal, RefusalMeansStale
<1> QED
  BY <1>1, Invariance, PTL

\* A save commits nothing over a field its user did not touch, however old the row in the
\* drawer is (diffPatch, update_vehicle).
THEOREM SavesKeepOthers == Spec => SaveKeepsOthers
<1> DEFINE Kept == save.state = "sent" /\ save'.state # "sent" /\ db' # db =>
                     \A f \in Fields \ save.touched : db'[Len(db')].fields[f] = Row.fields[f]
<1>1. Inv /\ [Next]_vars => [Kept]_vars
  <2> SUFFICES ASSUME Inv, Next, save.state = "sent", save'.state # "sent", db' # db,
                      NEW f \in Fields \ save.touched
               PROVE  db'[Len(db')].fields[f] = Row.fields[f]
    OBVIOUS
  <2>1. ServerPatches
    BY Parts DEF Filtering, Fetching, Acting, SomeoneElse, Editing, Type, TimerFires,
       PressEnter, handleStatusChange, clearFilters, ChangePage, RefreshButton, RunEffect,
       ServerLists, Arrives, ChooseAction, CancelAction, ConfirmAction, ServerActs,
       ActionReturns, OpenEditDrawer, CloseDrawer, Save, SaveReturns, EditField, editVars
  <2> DEFINE row == [Row EXCEPT !.fields = [g \in Fields |-> Patched(g)]]
  <2>2. Row \in Live /\ db' = Append(db, row)
    BY <2>1, SaveCommits DEF Inv, Commit
  <2>3. row.fields[f] = Patched(f)
    BY <2>2 DEF Live
  <2>4. Patched(f) = Row.fields[f]
    BY DEF Patched, Inv, SaveInv
  <2> HIDE DEF row
  <2>5. db'[Len(db')] = row
    BY <2>2 DEF Inv, Types, DbTypes
  <2> QED
    BY <2>3, <2>4, <2>5
<1> QED
  BY <1>1, Invariance, PTL DEF Spec, SaveKeepsOthers

=============================================================================
