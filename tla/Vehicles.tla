------------------------------- MODULE Vehicles -------------------------------
(***************************************************************************)
(* The inventory API under concurrent requests: api/_lib/vehicles.py on    *)
(* the connection pool of api/_lib/db.py.  FastAPI runs each handler on a  *)
(* thread of its own; what they share is the module global `_pool', the    *)
(* pool's connections and the rows of the vehicles table with their locks. *)
(*                                                                         *)
(* A request makes one step per call that another thread can come before:  *)
(* the three steps of pool(), taking a connection, and each SQL statement. *)
(* The single-statement handlers run in autocommit, so their statement and *)
(* its commit are one step.                                                *)
(***************************************************************************)
EXTENDS Naturals, FiniteSets, Transitions

CONSTANTS
  Requests,           \* the threads that serve requests, one at a time each
  Ids, Vins,          \* the ids gen_random_uuid will hand out; the vins used
  Ops,                \* the requests that may arrive
  DB_POOL_MAX_SIZE,
  Nobody, Nothing     \* no transaction; no request

\* PATCH may set the vin, leave it, or carry an explicit null, which passes the
\* model's validation and is refused by the column.
AllOps ==
  [kind : {"create"}, vin : Vins, status : Status]
  \cup [kind : {"patch"}, id : Ids, vin : Vins \cup {"unset", "null"}]
  \cup [kind : {"get", "delete"}, id : Ids]
  \cup [kind : {"status"}, id : Ids, status : Status]

ASSUME OpsAssumption == Ops \subseteq AllOps
ASSUME PoolAssumption == DB_POOL_MAX_SIZE \in Nat \ {0}
ASSUME NobodyAssumption == Nobody \notin Requests
ASSUME NothingAssumption == Nothing \notin Ops

VARIABLES
  rows,          \* per id: its row; there is none before INSERT and after DELETE
  lock,          \* per id: the transaction that holds the row FOR UPDATE
  _pool, made,   \* the module global (0 is None); how many pools were made
  pc, op,        \* per request: the next step; what it asks for, once that matters
  mine, seen,    \* per request: the pool that pool() returned; current_status
  answer,        \* per request: the code of its last answer, 0 while it runs
  did            \* per request: has it committed a change

dbVars == <<rows, lock>>
poolVars == <<_pool, made>>
vars == <<dbVars, poolVars, pc, op, mine, seen, answer, did>>

Row == [vin : Vins, status : Status]
Codes == {0, 200, 201, 204, 404, 409, 422, 500}
ConnPcs == {"statement", "update", "commit"}
Pcs == {"idle", "check", "make", "return", "connect"} \cup ConnPcs

NoRow(s) == [vin |-> "null", status |-> s]
Present(i) == rows[i].status \in Status

\* Mutant: the index leaves out the vehicles that are sold.
Taken_NotSold(v, others) ==
  \E i \in others : Present(i) /\ rows[i].status # "sold" /\ rows[i].vin = v

\* The unique index of the column, asked by every INSERT and UPDATE.
Taken(v, others) == \E i \in others : Present(i) /\ rows[i].vin = v

VinsDistinct ==
  \A i, j \in Ids : Present(i) /\ Present(j) /\ rows[i].vin = rows[j].vin => i = j

Users(p) == {r \in Requests : pc[r] \in ConnPcs /\ mine[r] = p}

Init ==
  /\ rows \in [Ids -> Row \cup {NoRow("unborn")}]
  /\ VinsDistinct
  /\ lock = [i \in Ids |-> Nobody]
  /\ _pool = 0 /\ made = 0
  /\ pc = [r \in Requests |-> "idle"]
  /\ op = [r \in Requests |-> Nothing]
  /\ mine = [r \in Requests |-> 0]
  /\ seen = [r \in Requests |-> "none"]
  /\ answer = [r \in Requests |-> 0]
  /\ did = [r \in Requests |-> FALSE]

Goto(r, l) == pc' = [pc EXCEPT ![r] = l]

\* The handler returns or raises: its connection goes back to the pool, its locals
\* are gone.
Answer(r, code) ==
  /\ Goto(r, "idle")
  /\ answer' = [answer EXCEPT ![r] = code]
  /\ op' = [op EXCEPT ![r] = Nothing]
  /\ mine' = [mine EXCEPT ![r] = 0] /\ seen' = [seen EXCEPT ![r] = "none"]

-----------------------------------------------------------------------------
(* Getting a connection.                                                    *)

Arrive(r) ==
  /\ pc[r] = "idle"
  /\ Goto(r, "check")
  /\ answer' = [answer EXCEPT ![r] = 0]
  /\ did' = [did EXCEPT ![r] = FALSE]
  /\ UNCHANGED <<dbVars, poolVars, op, mine, seen>>

\* pool(): the test for None, the construction and the return are not atomic.  Once
\* there is a pool the global is never None again, so test and return are one step.
CheckPool(r) ==
  /\ pc[r] = "check"
  /\ \/ _pool = 0 /\ Goto(r, "make") /\ UNCHANGED mine
     \/ _pool # 0 /\ Goto(r, "connect") /\ mine' = [mine EXCEPT ![r] = _pool]
  /\ UNCHANGED <<dbVars, poolVars, op, seen, answer, did>>

MakePool(r) ==
  /\ pc[r] = "make"
  /\ made' = made + 1 /\ _pool' = made'
  /\ Goto(r, "return")
  /\ UNCHANGED <<dbVars, op, mine, seen, answer, did>>

ReturnPool(r) ==
  /\ pc[r] = "return"
  /\ mine' = [mine EXCEPT ![r] = _pool]
  /\ Goto(r, "connect")
  /\ UNCHANGED <<dbVars, poolVars, op, seen, answer, did>>

Connect(r) ==
  /\ pc[r] = "connect"
  /\ Cardinality(Users(mine[r])) < DB_POOL_MAX_SIZE
  /\ \E o \in Ops : op' = [op EXCEPT ![r] = o]
  /\ Goto(r, "statement")
  /\ UNCHANGED <<dbVars, poolVars, mine, seen, answer, did>>

\* No connection within the pool's timeout: PoolTimeout, a 500.
ConnectTimesOut(r) ==
  /\ pc[r] = "connect"
  /\ Answer(r, 500)
  /\ UNCHANGED <<dbVars, poolVars, did>>
-----------------------------------------------------------------------------
(* The single-statement handlers.                                           *)

AtStatement(r, kind) == pc[r] = "statement" /\ op[r].kind = kind

\* The statement changed the row: the caller hears so, or the reply is lost.
Commits(r, i, row, code) ==
  /\ rows' = [rows EXCEPT ![i] = row]
  /\ did' = [did EXCEPT ![r] = TRUE]
  /\ Answer(r, code) \/ Answer(r, 500)

ChangesNothing(r, code) == Answer(r, code) /\ UNCHANGED <<rows, did>>

\* Mutant: statements do not wait for a row that another transaction locked.
LockFree_Never(i) == TRUE

LockFree(i) == lock[i] = Nobody

\* Bound of this model: it has as many ids as Ids.
IdsUsedUp == \A i \in Ids : rows[i].status # "unborn"

CreateVehicle(r) ==
  /\ AtStatement(r, "create")
  /\ \/ Taken(op[r].vin, Ids) /\ ChangesNothing(r, 409)
     \/ /\ ~Taken(op[r].vin, Ids)
        /\ \E i \in Ids :
             /\ rows[i].status = "unborn"
             /\ Commits(r, i, [vin |-> op[r].vin, status |-> op[r].status], 201)
     \/ IdsUsedUp /\ ChangesNothing(r, 500)
  /\ UNCHANGED <<lock, poolVars>>

GetVehicle(r) ==
  /\ AtStatement(r, "get")
  /\ ChangesNothing(r, IF Present(op[r].id) THEN 200 ELSE 404)
  /\ UNCHANGED <<lock, poolVars>>

\* Mutant: the column takes a null.
NotNullViolation_Never(v) == FALSE
NotNullViolation(v) == v = "null"

\* Any subset of the columns but status.
PatchVehicle(r) ==
  /\ AtStatement(r, "patch")
  /\ LET i == op[r].id  v == op[r].vin IN
     /\ LockFree(i)
     /\ \/ ~Present(i) /\ ChangesNothing(r, 404)
        \/ Present(i) /\ NotNullViolation(v) /\ ChangesNothing(r, 500)
        \/ Present(i) /\ Taken(v, Ids \ {i}) /\ ChangesNothing(r, 409)
        \/ /\ Present(i) /\ ~NotNullViolation(v) /\ ~Taken(v, Ids \ {i})
           /\ Commits(r, i, [rows[i] EXCEPT !.vin = IF v = "unset" THEN @ ELSE v], 200)
  /\ UNCHANGED <<lock, poolVars>>

DeleteVehicle(r) ==
  /\ AtStatement(r, "delete")
  /\ LET i == op[r].id IN
     /\ LockFree(i)
     /\ IF Present(i) THEN Commits(r, i, NoRow("deleted"), 204) ELSE ChangesNothing(r, 404)
  /\ UNCHANGED <<lock, poolVars>>

-----------------------------------------------------------------------------
(* set_vehicle_status: SELECT ... FOR UPDATE, can_transition, UPDATE, COMMIT. *)

SelectForUpdate(r) ==
  /\ AtStatement(r, "status")
  /\ LET i == op[r].id IN
     /\ LockFree(i)
     /\ \/ /\ Present(i)
           /\ lock' = [lock EXCEPT ![i] = r]
           /\ seen' = [seen EXCEPT ![r] = rows[i].status]
           /\ Goto(r, "update")
           /\ UNCHANGED <<rows, op, mine, answer, did>>
        \/ ~Present(i) /\ ChangesNothing(r, 404) /\ UNCHANGED lock
  /\ UNCHANGED poolVars

\* Mutants: no check; a rejection leaves the transaction open.
MayMove_Always(r) == TRUE
MayMove(r) == can_transition(seen[r], op[r].status)

EndTransaction_RejectionStaysOpen(r) ==
  lock' = IF MayMove(r) THEN [lock EXCEPT ![op[r].id] = Nobody] ELSE lock
EndTransaction(r) == lock' = [lock EXCEPT ![op[r].id] = Nobody]

\* Mutant: the UPDATE runs before the transition is checked, outside the transaction.
IllegalTransition_AfterUpdate(r) ==
  Commits(r, op[r].id, [rows[op[r].id] EXCEPT !.status = op[r].status], 422)
IllegalTransition(r) == ChangesNothing(r, 422)

UpdateStatus(r) ==
  /\ pc[r] = "update"
  /\ \/ MayMove(r) /\ Goto(r, "commit") /\ UNCHANGED <<dbVars, op, mine, seen, answer, did>>
     \/ ~MayMove(r) /\ IllegalTransition(r) /\ EndTransaction(r)
  /\ UNCHANGED poolVars

CommitStatus(r) ==
  /\ pc[r] = "commit"
  /\ Commits(r, op[r].id, [rows[op[r].id] EXCEPT !.status = op[r].status], 200)
  /\ EndTransaction(r)
  /\ UNCHANGED poolVars

\* The connection breaks before the commit: PostgreSQL rolls back, a 500.
ConnectionLost(r) ==
  /\ pc[r] \in ConnPcs
  /\ ChangesNothing(r, 500)
  /\ IF pc[r] = "statement" THEN UNCHANGED lock ELSE EndTransaction(r)
  /\ UNCHANGED poolVars

-----------------------------------------------------------------------------

Statement(r) ==
  CreateVehicle(r) \/ GetVehicle(r) \/ PatchVehicle(r) \/ DeleteVehicle(r) \/ SelectForUpdate(r)

Advance(r) ==
  CheckPool(r) \/ MakePool(r) \/ ReturnPool(r) \/ UpdateStatus(r) \/ CommitStatus(r)

Next ==
  \E r \in Requests : \/ Arrive(r) \/ Connect(r) \/ ConnectTimesOut(r)
                      \/ Statement(r) \/ Advance(r) \/ ConnectionLost(r)

\* A thread that can run does.  The pool hands connections, and PostgreSQL row
\* locks, to those who wait in the order they came, so nobody is passed over for
\* ever.
Fairness ==
  \A r \in Requests :
    /\ WF_vars(Advance(r))
    /\ SF_vars(Connect(r)) /\ SF_vars(Statement(r))

Spec == Init /\ [][Next]_vars /\ Fairness

-----------------------------------------------------------------------------
(* Properties.                                                              *)

\* The table, the locks and the local state of every handler have their types.
TypeOK ==
  /\ rows \in [Ids -> Row \cup {NoRow("unborn"), NoRow("deleted")}]
  /\ lock \in [Ids -> Requests \cup {Nobody}]
  /\ made \in Nat /\ _pool \in 0..made
  /\ pc \in [Requests -> Pcs] /\ op \in [Requests -> Ops \cup {Nothing}]
  /\ mine \in [Requests -> Nat]
  /\ seen \in [Requests -> Status \cup {"none"}]
  /\ answer \in [Requests -> Codes]
  /\ did \in [Requests -> BOOLEAN]

\* The status that set_vehicle_status checked is still the row's when it updates
\* and commits, whatever the other requests do in between.
CheckIsFresh ==
  \A r \in Requests : pc[r] \in {"update", "commit"} =>
    Present(op[r].id) /\ rows[op[r].id].status = seen[r]

\* Does a vehicle other than the one a request is about have the vin it asks for?
VinInUse(o) ==
  \E i \in Ids : Present(i) /\ rows[i].vin = o.vin /\ (o.kind = "patch" => i # o.id)

\* What a caller is told is so.  A 404, 409 or 422 changed nothing, and a success of a
\* write is committed; only a 500 leaves its caller in doubt.  Of the requests that ask
\* for one vin at once, one at most has a success while the vehicle keeps it: a success
\* leaves no vin twice.  And a 409 is said only while another vehicle has the vin.
AnswersAreTrue ==
  [][\A r \in Requests : pc[r] # "idle" /\ pc'[r] = "idle" =>
       /\ answer'[r] \in {404, 409, 422} => ~did'[r]
       /\ answer'[r] \in {200, 201, 204} => did'[r] \/ op[r].kind = "get"
       /\ answer'[r] \in {200, 201} => VinsDistinct'
       /\ answer'[r] = 409 => VinInUse(op[r])]_vars

\* Every request is answered: connections and row locks are always given back.
EveryRequestAnswered == \A r \in Requests : pc[r] # "idle" ~> pc[r] = "idle"

stage == [i \in Ids |-> rows[i].status]

Lifecycle == INSTANCE VehicleLifecycle

\* Whatever requests run together, every vehicle keeps to its lifecycle: no two
\* requests take it along a transition that transitions.py does not allow.
ImplementsLifecycle == Lifecycle!Spec

=============================================================================
