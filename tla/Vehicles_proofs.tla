---------------------------- MODULE Vehicles_proofs ----------------------------
(***************************************************************************)
(* Proofs about Vehicles, for any number of requests, vehicles and         *)
(* connections: types, that a checked status is still true when it is used,*)
(* that every vehicle keeps to its lifecycle and that no answer is untrue. *)
(***************************************************************************)
EXTENDS Vehicles, TLAPS

USE OpsAssumption, NobodyAssumption, NothingAssumption

-----------------------------------------------------------------------------
(* What a request carries, and what answering it leaves.                    *)

LEMMA OpFields ==
  ASSUME NEW o \in Ops
  PROVE  /\ o.kind = "create" => o.vin \in Vins /\ o.status \in Status
         /\ o.kind = "patch" => o.id \in Ids /\ o.vin \in Vins \cup {"unset", "null"}
         /\ o.kind \in {"get", "delete"} => o.id \in Ids
         /\ o.kind = "status" => o.id \in Ids /\ o.status \in Status
  BY DEF AllOps

Locals ==
  /\ pc \in [Requests -> Pcs] /\ op \in [Requests -> Ops \cup {Nothing}]
  /\ mine \in [Requests -> Nat]
  /\ seen \in [Requests -> Status \cup {"none"}]
  /\ answer \in [Requests -> Codes]

LEMMA AnswerType ==
  ASSUME Locals, NEW r \in Requests, NEW code \in Codes, Answer(r, code)
  PROVE  Locals'
<1>1. pc' \in [Requests -> Pcs]
  BY DEF Locals, Answer, Goto, Pcs
<1>2. op' \in [Requests -> Ops \cup {Nothing}]
  BY DEF Locals, Answer
<1>3. mine' \in [Requests -> Nat] /\ answer' \in [Requests -> Codes]
  BY DEF Locals, Answer
<1>4. seen' \in [Requests -> Status \cup {"none"}]
  BY DEF Locals, Answer
<1> QED
  BY <1>1, <1>2, <1>3, <1>4 DEF Locals

RowsOK == rows \in [Ids -> Row \cup {NoRow("unborn"), NoRow("deleted")}]

LEMMA CommitsType ==
  ASSUME TypeOK, NEW r \in Requests, NEW i \in Ids, NEW code \in Codes,
         NEW row \in Row \cup {NoRow("deleted")}, Commits(r, i, row, code)
  PROVE  Locals' /\ RowsOK' /\ did' \in [Requests -> BOOLEAN]
<1>1. Locals
  BY DEF TypeOK, Locals
<1>2. 500 \in Codes
  BY DEF Codes
<1>3. Locals'
  BY <1>1, <1>2, AnswerType DEF Commits
<1>4. RowsOK'
  BY DEF Commits, RowsOK, TypeOK
<1>5. did' \in [Requests -> BOOLEAN]
  BY DEF Commits, TypeOK
<1> QED
  BY <1>3, <1>4, <1>5

LEMMA ChangesNothingType ==
  ASSUME TypeOK, NEW r \in Requests, NEW code \in Codes, ChangesNothing(r, code)
  PROVE  Locals' /\ RowsOK' /\ did' \in [Requests -> BOOLEAN]
<1>1. Locals
  BY DEF TypeOK, Locals
<1>2. Locals'
  BY <1>1, AnswerType DEF ChangesNothing
<1> QED
  BY <1>2 DEF ChangesNothing, RowsOK, TypeOK

\* TypeOK from its parts.
LEMMA TypeParts ==
  TypeOK <=> /\ Locals /\ RowsOK /\ did \in [Requests -> BOOLEAN]
             /\ lock \in [Ids -> Requests \cup {Nobody}]
             /\ made \in Nat /\ _pool \in 0..made
  BY DEF TypeOK, Locals, RowsOK

-----------------------------------------------------------------------------
(* The invariant.                                                           *)

\* What a transaction knows between its SELECT ... FOR UPDATE and its end.
Holds(r) ==
  /\ op[r].kind = "status"
  /\ lock[op[r].id] = r
  /\ Present(op[r].id) /\ rows[op[r].id].status = seen[r]

Sound(r) ==
  /\ pc[r] \in ConnPcs => op[r] \in Ops
  /\ pc[r] \in {"update", "commit"} => Holds(r)
  /\ pc[r] = "commit" => MayMove(r)

Inv == TypeOK /\ \A r \in Requests : Sound(r)

LEMMA RowType ==
  ASSUME TypeOK, NEW i \in Ids
  PROVE  /\ Present(i) => rows[i] \in Row
         /\ ~Present(i) <=> rows[i] \in {NoRow("unborn"), NoRow("deleted")}
         /\ rows[i].status = "unborn" => ~Present(i)
<1>1. rows[i] \in Row \cup {NoRow("unborn"), NoRow("deleted")}
  BY DEF TypeOK
<1>2. NoRow("unborn").status \notin Status /\ NoRow("deleted").status \notin Status
  BY DEF NoRow, Status
<1>3. rows[i] \in Row => rows[i].status \in Status
  BY DEF Row
<1> QED
  BY <1>1, <1>2, <1>3 DEF Present, Status

LEMMA HolderType ==
  ASSUME Inv, NEW r \in Requests, pc[r] \in {"update", "commit"}
  PROVE  op[r] \in Ops /\ op[r].id \in Ids /\ op[r].status \in Status /\ Holds(r)
<1>1. op[r] \in Ops /\ Holds(r)
  BY DEF Inv, Sound, ConnPcs
<1> QED
  BY <1>1, OpFields DEF Holds

\* A step of r that leaves alone the rows other transactions have locked, and
\* their locals, leaves them sound.
LEMMA Frame ==
  ASSUME Inv, NEW r \in Requests,
         \A s \in Requests \ {r} : pc'[s] = pc[s] /\ op'[s] = op[s] /\ seen'[s] = seen[s],
         \A s \in Requests \ {r} : pc[s] \in {"update", "commit"} =>
            rows'[op[s].id] = rows[op[s].id] /\ lock'[op[s].id] = lock[op[s].id]
  PROVE  \A s \in Requests \ {r} : Sound(s)'
  BY DEF Inv, Sound, Holds, Present, MayMove

\* After an answer the request has nothing left to be unsound about.
LEMMA AnswerFrame ==
  ASSUME Inv, NEW r \in Requests, NEW code, Answer(r, code)
  PROVE  /\ \A s \in Requests \ {r} : pc'[s] = pc[s] /\ op'[s] = op[s] /\ seen'[s] = seen[s]
         /\ Sound(r)'
<1>1. pc'[r] = "idle"
  BY DEF Inv, TypeOK, Answer, Goto
<1>2. Sound(r)'
  BY <1>1 DEF Sound, ConnPcs
<1> QED
  BY <1>2 DEF Inv, TypeOK, Answer, Goto

\* An answer that changes no row and no lock.
LEMMA NothingChanged ==
  ASSUME Inv, NEW r \in Requests, NEW code \in Codes, ChangesNothing(r, code),
         UNCHANGED <<lock, poolVars>>
  PROVE  Inv'
<1>1. TypeOK'
  <2>1. TypeOK
    BY DEF Inv
  <2>2. Locals' /\ RowsOK' /\ did' \in [Requests -> BOOLEAN]
    BY <2>1, ChangesNothingType
  <2>3. (lock \in [Ids -> Requests \cup {Nobody}] /\ made \in Nat /\ _pool \in 0..made)'
    BY <2>1 DEF TypeOK, poolVars
  <2> QED
    BY <2>2, <2>3 DEF TypeOK, Locals, RowsOK
<1>2. /\ \A s \in Requests \ {r} : pc'[s] = pc[s] /\ op'[s] = op[s] /\ seen'[s] = seen[s]
      /\ Sound(r)'
  BY AnswerFrame DEF ChangesNothing
<1>3. \A s \in Requests \ {r} : Sound(s)'
  BY <1>2, Frame DEF ChangesNothing
<1> QED
  BY <1>1, <1>2, <1>3 DEF Inv

\* A committed change to a row that no other transaction has locked.
LEMMA RowChanged ==
  ASSUME Inv, NEW r \in Requests, NEW i \in Ids, NEW code \in Codes,
         NEW row \in Row \cup {NoRow("deleted")}, Commits(r, i, row, code),
         lock' = lock \/ lock' = [lock EXCEPT ![i] = Nobody], UNCHANGED poolVars,
         \A s \in Requests \ {r} : pc[s] \in {"update", "commit"} => op[s].id # i
  PROVE  Inv'
<1>1. TypeOK'
  <2>1. TypeOK
    BY DEF Inv
  <2>2. Locals' /\ RowsOK' /\ did' \in [Requests -> BOOLEAN]
    BY <2>1, CommitsType
  <2>3. (lock \in [Ids -> Requests \cup {Nobody}])'
    BY <2>1 DEF TypeOK
  <2>4. (made \in Nat /\ _pool \in 0..made)'
    BY <2>1 DEF TypeOK, poolVars
  <2> QED
    BY <2>2, <2>3, <2>4 DEF TypeOK, Locals, RowsOK
<1>2. /\ \A s \in Requests \ {r} : pc'[s] = pc[s] /\ op'[s] = op[s] /\ seen'[s] = seen[s]
      /\ Sound(r)'
  BY AnswerFrame DEF Commits
<1>3. \A j \in Ids : j # i => rows'[j] = rows[j] /\ lock'[j] = lock[j]
  BY DEF Commits, Inv, TypeOK
<1>4. \A s \in Requests : pc[s] \in {"update", "commit"} => op[s].id \in Ids
  BY HolderType
<1>5. \A s \in Requests \ {r} : Sound(s)'
  BY <1>2, <1>3, <1>4, Frame
<1> QED
  BY <1>1, <1>2, <1>5 DEF Inv

-----------------------------------------------------------------------------
(* Every step keeps the invariant.                                          *)

\* Before it has a connection a request touches neither rows nor locks.
LEMMA ConnectingInv ==
  ASSUME Inv, NEW r \in Requests,
         Arrive(r) \/ CheckPool(r) \/ MakePool(r) \/ ReturnPool(r) \/ Connect(r)
  PROVE  Inv'
<1> USE DEF Inv, TypeOK, Goto, Pcs, ConnPcs, poolVars, dbVars
<1>1. TypeOK'
  <2>1. CASE Arrive(r)
    BY <2>1 DEF Arrive, Codes
  <2>2. CASE CheckPool(r)
    BY <2>2 DEF CheckPool
  <2>3. CASE MakePool(r)
    BY <2>3 DEF MakePool
  <2>4. CASE ReturnPool(r)
    BY <2>4 DEF ReturnPool
  <2>5. CASE Connect(r)
    BY <2>5 DEF Connect
  <2> QED
    BY <2>1, <2>2, <2>3, <2>4, <2>5
<1>2. /\ \A s \in Requests \ {r} : pc'[s] = pc[s] /\ op'[s] = op[s] /\ seen'[s] = seen[s]
      /\ UNCHANGED <<rows, lock>>
  BY DEF Arrive, CheckPool, MakePool, ReturnPool, Connect
<1>3. \A s \in Requests \ {r} : Sound(s)'
  BY <1>2, Frame
<1>4. Sound(r)'
  BY DEF Arrive, CheckPool, MakePool, ReturnPool, Connect, Sound
<1> QED
  BY <1>1, <1>3, <1>4

LEMMA StatementOp ==
  ASSUME Inv, NEW r \in Requests, NEW kind, AtStatement(r, kind)
  PROVE  op[r] \in Ops /\ op[r].kind = kind
  BY DEF Inv, Sound, AtStatement, ConnPcs

LEMMA CreateInv == ASSUME Inv, NEW r \in Requests, CreateVehicle(r) PROVE Inv'
<1>1. op[r].vin \in Vins /\ op[r].status \in Status
  BY StatementOp, OpFields DEF CreateVehicle
<1>2. CASE \E code \in {409, 500} : ChangesNothing(r, code)
  BY <1>2, NothingChanged DEF CreateVehicle, Codes
<1>3. ASSUME NEW i \in Ids, rows[i].status = "unborn",
             Commits(r, i, [vin |-> op[r].vin, status |-> op[r].status], 201)
      PROVE  Inv'
  <2>1. ~Present(i)
    BY <1>3 DEF Present, Status
  <2>2. \A s \in Requests : pc[s] \in {"update", "commit"} => op[s].id # i
    BY <2>1, HolderType DEF Holds
  <2>3. [vin |-> op[r].vin, status |-> op[r].status] \in Row
    BY <1>1 DEF Row
  <2>4. lock' = lock /\ UNCHANGED poolVars /\ 201 \in Codes
    BY DEF CreateVehicle, Codes
  <2> QED
    BY <1>3, <2>2, <2>3, <2>4, RowChanged
<1> QED
  BY <1>2, <1>3 DEF CreateVehicle

\* A row with a free lock belongs to no open transaction.
LEMMA FreeRow ==
  ASSUME Inv, NEW i \in Ids, LockFree(i)
  PROVE  \A s \in Requests : pc[s] \in {"update", "commit"} => op[s].id # i
  BY HolderType DEF Holds, LockFree

LEMMA PatchInv == ASSUME Inv, NEW r \in Requests, PatchVehicle(r) PROVE Inv'
<1> DEFINE i == op[r].id
           v == op[r].vin
           row == [rows[i] EXCEPT !.vin = IF v = "unset" THEN @ ELSE v]
<1>1. i \in Ids /\ v \in Vins \cup {"unset", "null"}
  BY StatementOp, OpFields DEF PatchVehicle
<1>2. CASE \E code \in {404, 409, 500} : ChangesNothing(r, code)
  BY <1>2, NothingChanged DEF PatchVehicle, Codes
<1>3. CASE Present(i) /\ ~NotNullViolation(v) /\ Commits(r, i, row, 200)
  <2>1. \A s \in Requests : pc[s] \in {"update", "commit"} => op[s].id # i
    BY <1>1, FreeRow DEF PatchVehicle
  <2>2. rows[i] \in Row
    BY <1>1, <1>3, RowType DEF Inv
  <2>3. row \in Row
    BY <1>1, <1>3, <2>2 DEF Row, NotNullViolation
  <2>4. lock' = lock /\ UNCHANGED poolVars /\ 200 \in Codes
    BY DEF PatchVehicle, Codes
  <2> QED
    BY <1>1, <1>3, <2>1, <2>3, <2>4, RowChanged
<1> QED
  BY <1>2, <1>3 DEF PatchVehicle

LEMMA DeleteInv == ASSUME Inv, NEW r \in Requests, DeleteVehicle(r) PROVE Inv'
<1>1. op[r].id \in Ids
  BY StatementOp, OpFields DEF DeleteVehicle
<1>2. CASE ChangesNothing(r, 404)
  BY <1>2, NothingChanged DEF DeleteVehicle, Codes
<1>3. CASE Commits(r, op[r].id, NoRow("deleted"), 204)
  <2>1. \A s \in Requests : pc[s] \in {"update", "commit"} => op[s].id # op[r].id
    BY <1>1, FreeRow DEF DeleteVehicle
  <2>2. lock' = lock /\ UNCHANGED poolVars /\ 204 \in Codes
    BY DEF DeleteVehicle, Codes
  <2> QED
    BY <1>1, <1>3, <2>1, <2>2, RowChanged
<1> QED
  BY <1>2, <1>3 DEF DeleteVehicle

LEMMA GetInv == ASSUME Inv, NEW r \in Requests, GetVehicle(r) PROVE Inv'
  BY NothingChanged DEF GetVehicle, Codes

LEMMA SelectInv == ASSUME Inv, NEW r \in Requests, SelectForUpdate(r) PROVE Inv'
<1> DEFINE i == op[r].id
<1>1. i \in Ids /\ op[r] \in Ops /\ op[r].kind = "status"
  BY StatementOp, OpFields DEF SelectForUpdate
<1>2. CASE ChangesNothing(r, 404) /\ UNCHANGED lock
  BY <1>2, NothingChanged DEF SelectForUpdate, Codes
<1>3. CASE /\ Present(i) /\ LockFree(i)
           /\ lock' = [lock EXCEPT ![i] = r]
           /\ seen' = [seen EXCEPT ![r] = rows[i].status]
           /\ Goto(r, "update")
           /\ UNCHANGED <<rows, op, mine, answer, did, poolVars>>
  <2>1. rows[i].status \in Status
    BY <1>3 DEF Present
  <2>2. TypeOK'
    BY <1>1, <1>3, <2>1 DEF Inv, TypeOK, Goto, Pcs, ConnPcs, poolVars
  <2>3. \A s \in Requests : pc[s] \in {"update", "commit"} => op[s].id \in Ids \ {i}
    BY <1>1, <1>3, FreeRow, HolderType
  <2>4. \A s \in Requests \ {r} : Sound(s)'
    BY <1>3, <2>3, Frame DEF Inv, TypeOK, Goto
  <2>5. Sound(r)'
    BY <1>1, <1>3 DEF Sound, Holds, Present, ConnPcs, Inv, TypeOK, Goto
  <2> QED
    BY <2>2, <2>4, <2>5 DEF Inv
<1> QED
  BY <1>2, <1>3 DEF SelectForUpdate

\* Each row is locked by one transaction.
LEMMA OneHolder ==
  ASSUME Inv, NEW r \in Requests, pc[r] \in {"update", "commit"}
  PROVE  \A s \in Requests \ {r} : pc[s] \in {"update", "commit"} => op[s].id # op[r].id
  BY HolderType DEF Holds

\* A transaction that ends without a change gives its lock back and no other.
LEMMA RollbackInv ==
  ASSUME Inv, NEW r \in Requests, NEW code \in Codes, pc[r] \in {"update", "commit"},
         ChangesNothing(r, code), EndTransaction(r), UNCHANGED poolVars
  PROVE  Inv'
<1>1. op[r].id \in Ids
  BY HolderType
<1>2. TypeOK'
  <2>1. TypeOK
    BY DEF Inv
  <2>2. Locals' /\ RowsOK' /\ did' \in [Requests -> BOOLEAN]
    BY <2>1, ChangesNothingType
  <2>3. (lock \in [Ids -> Requests \cup {Nobody}])'
    BY <2>1 DEF TypeOK, EndTransaction
  <2>4. (made \in Nat /\ _pool \in 0..made)'
    BY <2>1 DEF TypeOK, poolVars
  <2> QED
    BY <2>2, <2>3, <2>4 DEF TypeOK, Locals, RowsOK
<1>3. /\ \A s \in Requests \ {r} : pc'[s] = pc[s] /\ op'[s] = op[s] /\ seen'[s] = seen[s]
      /\ Sound(r)'
  BY AnswerFrame DEF ChangesNothing
<1>4. \A s \in Requests \ {r} : pc[s] \in {"update", "commit"} =>
         op[s].id \in Ids \ {op[r].id}
  BY OneHolder, HolderType
<1>5. \A s \in Requests \ {r} : Sound(s)'
  BY <1>3, <1>4, Frame DEF ChangesNothing, EndTransaction, Inv, TypeOK
<1> QED
  BY <1>2, <1>3, <1>5 DEF Inv

LEMMA UpdateInv == ASSUME Inv, NEW r \in Requests, UpdateStatus(r) PROVE Inv'
<1>1. CASE IllegalTransition(r) /\ EndTransaction(r)
  BY <1>1, RollbackInv DEF UpdateStatus, IllegalTransition, Codes
<1>2. CASE MayMove(r) /\ Goto(r, "commit") /\ UNCHANGED <<dbVars, op, mine, seen, answer, did>>
  <2>1. TypeOK'
    BY <1>2 DEF UpdateStatus, Inv, TypeOK, Goto, Pcs, ConnPcs, dbVars, poolVars
  <2>2. \A s \in Requests \ {r} : Sound(s)'
    BY <1>2, Frame DEF Inv, TypeOK, Goto, dbVars
  <2>3. pc[r] = "update" /\ Sound(r)
    BY DEF UpdateStatus, Inv
  <2>4. Sound(r)'
    BY <1>2, <2>3 DEF Sound, Holds, Present, MayMove, ConnPcs, Inv, TypeOK, Goto, dbVars
  <2> QED
    BY <2>1, <2>2, <2>4 DEF Inv
<1> QED
  BY <1>1, <1>2 DEF UpdateStatus

\* What a commit writes, and what it was allowed to write.
LEMMA CommitFacts ==
  ASSUME Inv, NEW r \in Requests, CommitStatus(r)
  PROVE  /\ op[r].id \in Ids /\ op[r].status \in Status
         /\ rows[op[r].id] \in Row
         /\ [rows[op[r].id] EXCEPT !.status = op[r].status] \in Row
         /\ can_transition(rows[op[r].id].status, op[r].status)
<1>1. pc[r] = "commit"
  BY DEF CommitStatus
<1>2. op[r].id \in Ids /\ op[r].status \in Status /\ Holds(r)
  BY <1>1, HolderType
<1>3. rows[op[r].id] \in Row
  BY <1>2, RowType DEF Holds, Inv
<1>4. can_transition(seen[r], op[r].status)
  BY <1>1 DEF Inv, Sound, MayMove
<1> QED
  BY <1>2, <1>3, <1>4 DEF Holds, Row

LEMMA CommitInv == ASSUME Inv, NEW r \in Requests, CommitStatus(r) PROVE Inv'
<1> DEFINE i == op[r].id
           row == [rows[i] EXCEPT !.status = op[r].status]
<1>1. i \in Ids /\ row \in Row
  BY CommitFacts
<1>2. \A s \in Requests \ {r} : pc[s] \in {"update", "commit"} => op[s].id # i
  BY OneHolder DEF CommitStatus
<1>3. Commits(r, i, row, 200) /\ lock' = [lock EXCEPT ![i] = Nobody] /\ UNCHANGED poolVars
  BY DEF CommitStatus, EndTransaction
<1>4. 200 \in Codes
  BY DEF Codes
<1> QED
  BY <1>1, <1>2, <1>3, <1>4, RowChanged

LEMMA FailureInv ==
  ASSUME Inv, NEW r \in Requests, ConnectTimesOut(r) \/ ConnectionLost(r)
  PROVE  Inv'
<1>1. CASE ConnectTimesOut(r)
  BY <1>1, NothingChanged DEF ConnectTimesOut, ChangesNothing, dbVars, Codes
<1>2. CASE ConnectionLost(r)
  <2>1. CASE pc[r] = "statement"
    BY <1>2, <2>1, NothingChanged DEF ConnectionLost, Codes
  <2>2. CASE pc[r] \in {"update", "commit"}
    BY <1>2, <2>2, RollbackInv DEF ConnectionLost, Codes
  <2> QED
    BY <1>2, <2>1, <2>2 DEF ConnectionLost, ConnPcs
<1> QED
  BY <1>1, <1>2

LEMMA InvInit == Init => Inv
<1> SUFFICES ASSUME Init PROVE Inv
  OBVIOUS
<1>1. TypeOK
  BY DEF Init, TypeOK, Pcs, Codes
<1>2. \A r \in Requests : Sound(r)
  BY DEF Init, Sound, ConnPcs
<1> QED
  BY <1>1, <1>2 DEF Inv

LEMMA InvStep == Inv /\ [Next]_vars => Inv'
<1> SUFFICES ASSUME Inv, [Next]_vars PROVE Inv'
  OBVIOUS
<1>1. CASE UNCHANGED vars
  BY <1>1 DEF vars, dbVars, poolVars, Inv, TypeOK, Sound, Holds, Present, MayMove
<1>2. ASSUME NEW r \in Requests, Statement(r) PROVE Inv'
  BY <1>2, CreateInv, GetInv, PatchInv, DeleteInv, SelectInv DEF Statement
<1>3. ASSUME NEW r \in Requests, Advance(r) PROVE Inv'
  BY <1>3, ConnectingInv, UpdateInv, CommitInv DEF Advance
<1>4. ASSUME NEW r \in Requests,
             Arrive(r) \/ Connect(r) \/ ConnectTimesOut(r) \/ ConnectionLost(r)
      PROVE  Inv'
  BY <1>4, ConnectingInv, FailureInv
<1> QED
  BY <1>1, <1>2, <1>3, <1>4 DEF Next

\* Inv holds in every reachable state.
THEOREM Invariant == Spec => []Inv
<1>1. Init => Inv
  BY InvInit
<1>2. Inv /\ [Next]_vars => Inv'
  BY InvStep
<1> QED
  BY <1>1, <1>2, PTL DEF Spec

\* The rows, the locks and every handler's locals keep their types.
THEOREM TypeCorrect == Spec => []TypeOK
<1>1. Inv => TypeOK
  BY DEF Inv
<1> QED
  BY <1>1, Invariant, PTL

\* The status a request checked is still the row's until it commits.
THEOREM CheckStaysFresh == Spec => []CheckIsFresh
<1>1. Inv => CheckIsFresh
  BY DEF Inv, Sound, Holds, CheckIsFresh
<1> QED
  BY <1>1, Invariant, PTL

-----------------------------------------------------------------------------
(* Every vehicle keeps to its lifecycle.                                    *)

LEMMA StageInit == Init => Lifecycle!Init
  BY DEF Init, Lifecycle!Init, Lifecycle!Status, Status, stage, Row, NoRow

\* Writing one row moves one vehicle.
LEMMA StageOfCommit ==
  ASSUME Inv, NEW r \in Requests, NEW i \in Ids, NEW row, NEW code, Commits(r, i, row, code)
  PROVE  stage' = [stage EXCEPT ![i] = row.status]
  BY DEF Commits, stage, Inv, TypeOK

LEMMA StatementRefines ==
  ASSUME Inv, NEW r \in Requests, Statement(r)
  PROVE  [Lifecycle!Next]_stage
<1> USE DEF Lifecycle!Next
<1>1. CASE UNCHANGED rows
  BY <1>1 DEF stage
<1>2. CASE CreateVehicle(r)
  <2>1. SUFFICES ASSUME NEW i \in Ids, rows[i].status = "unborn",
                        Commits(r, i, [vin |-> op[r].vin, status |-> op[r].status], 201)
                 PROVE  Lifecycle!Create(i)
    BY <1>1, <1>2 DEF CreateVehicle, ChangesNothing
  <2>2. op[r].status \in Status
    BY <1>2, StatementOp, OpFields DEF CreateVehicle
  <2>3. stage' = [stage EXCEPT ![i] = op[r].status]
    BY <2>1, StageOfCommit
  <2>4. stage[i] = "unborn"
    BY <2>1 DEF stage
  <2> QED
    BY <2>2, <2>3, <2>4 DEF Lifecycle!Create, Lifecycle!Status, Status
<1>3. CASE PatchVehicle(r)
  <2> DEFINE i == op[r].id
             v == op[r].vin
             row == [rows[i] EXCEPT !.vin = IF v = "unset" THEN @ ELSE v]
  <2>1. i \in Ids
    BY <1>3, StatementOp, OpFields DEF PatchVehicle
  <2>2. CASE Present(i) /\ Commits(r, i, row, 200)
    <3>1. rows[i] \in Row
      BY <2>1, <2>2, RowType DEF Inv
    <3>2. row.status = rows[i].status
      BY <3>1 DEF Row
    <3>3. stage' = [stage EXCEPT ![i] = row.status]
      BY <2>1, <2>2, StageOfCommit
    <3> QED
      BY <2>1, <3>2, <3>3 DEF stage
  <2> QED
    BY <1>1, <1>3, <2>2 DEF PatchVehicle, ChangesNothing
<1>4. CASE DeleteVehicle(r)
  <2>1. op[r].id \in Ids
    BY <1>4, StatementOp, OpFields DEF DeleteVehicle
  <2>2. CASE Present(op[r].id) /\ Commits(r, op[r].id, NoRow("deleted"), 204)
    <3>1. stage' = [stage EXCEPT ![op[r].id] = "deleted"]
      BY <2>1, <2>2, StageOfCommit DEF NoRow
    <3>2. stage[op[r].id] \in Status
      BY <2>1, <2>2 DEF stage, Present
    <3> QED
      BY <2>1, <3>1, <3>2 DEF Lifecycle!Delete, Lifecycle!Status, Status
  <2> QED
    BY <1>1, <1>4, <2>2 DEF DeleteVehicle, ChangesNothing
<1>5. CASE GetVehicle(r) \/ SelectForUpdate(r)
  BY <1>1, <1>5 DEF GetVehicle, SelectForUpdate, ChangesNothing
<1> QED
  BY <1>2, <1>3, <1>4, <1>5 DEF Statement

LEMMA CommitRefines ==
  ASSUME Inv, NEW r \in Requests, CommitStatus(r)
  PROVE  \E i \in Ids : Lifecycle!Move(i)
<1> DEFINE i == op[r].id
           row == [rows[i] EXCEPT !.status = op[r].status]
<1>1. /\ i \in Ids /\ op[r].status \in Status
      /\ rows[i] \in Row
      /\ can_transition(rows[i].status, op[r].status)
  BY CommitFacts
<1>2. row.status = op[r].status
  BY <1>1 DEF Row
<1>3. Commits(r, i, row, 200)
  BY DEF CommitStatus
<1>4. stage' = [stage EXCEPT ![i] = row.status]
  BY <1>1, <1>3, StageOfCommit
<1>5. stage[i] = rows[i].status
  BY <1>1 DEF stage
<1>6. Lifecycle!Move(i)
  BY <1>1, <1>2, <1>4, <1>5 DEF Lifecycle!Move, Lifecycle!can_transition, Lifecycle!Status,
     Lifecycle!ALLOWED, can_transition, Status, ALLOWED
<1> QED
  BY <1>1, <1>6

LEMMA StepRefines == Inv /\ [Next]_vars => [Lifecycle!Next]_stage
<1> SUFFICES ASSUME Inv, [Next]_vars PROVE [Lifecycle!Next]_stage
  OBVIOUS
<1>1. CASE UNCHANGED rows
  BY <1>1 DEF stage
<1>2. ASSUME NEW r \in Requests, Statement(r) PROVE [Lifecycle!Next]_stage
  BY <1>2, StatementRefines
<1>3. ASSUME NEW r \in Requests, CommitStatus(r) PROVE [Lifecycle!Next]_stage
  BY <1>3, CommitRefines DEF Lifecycle!Next
<1>4. ASSUME NEW r \in Requests,
             \/ Arrive(r) \/ CheckPool(r) \/ MakePool(r) \/ ReturnPool(r) \/ Connect(r)
             \/ ConnectTimesOut(r) \/ UpdateStatus(r) \/ ConnectionLost(r)
      PROVE  UNCHANGED rows
  BY <1>4 DEF Arrive, CheckPool, MakePool, ReturnPool, Connect, ConnectTimesOut, UpdateStatus,
     IllegalTransition, ConnectionLost, ChangesNothing, dbVars
<1>5. CASE UNCHANGED vars
  BY <1>5 DEF vars, dbVars, stage
<1> QED
  BY <1>1, <1>2, <1>3, <1>4, <1>5 DEF Next, Advance

\* However the requests interleave and fail, no vehicle takes a transition that
\* transitions.py does not allow, and none comes back after its deletion.
THEOREM KeepsLifecycle == Spec => ImplementsLifecycle
<1>1. Init => Lifecycle!Init
  BY StageInit
<1>2. Inv /\ [Next]_vars => [Lifecycle!Next]_stage
  BY StepRefines
<1> QED
  BY <1>1, <1>2, Invariant, PTL DEF Spec, ImplementsLifecycle, Lifecycle!Spec

-----------------------------------------------------------------------------
(* No vin is given twice.                                                   *)

LEMMA VinsStep == Inv /\ VinsDistinct /\ [Next]_vars => VinsDistinct'
<1> SUFFICES ASSUME Inv, VinsDistinct, [Next]_vars PROVE VinsDistinct'
  OBVIOUS
<1>0. \A i \in Ids : i \in DOMAIN rows
  BY DEF Inv, TypeOK
<1>1. CASE UNCHANGED rows
  BY <1>1 DEF VinsDistinct, Present
<1>2. ASSUME NEW i \in Ids, NEW row, rows' = [rows EXCEPT ![i] = row],
             row.status \in Status => ~Taken(row.vin, Ids \ {i})
      PROVE  VinsDistinct'
  BY <1>0, <1>2 DEF VinsDistinct, Present, Taken
<1>3. ASSUME NEW i \in Ids, NEW row, rows' = [rows EXCEPT ![i] = row], Present(i),
             row.vin = rows[i].vin
      PROVE  VinsDistinct'
  BY <1>0, <1>3 DEF VinsDistinct, Present
<1>4. ASSUME NEW r \in Requests, CreateVehicle(r) PROVE VinsDistinct'
  <2>1. \/ UNCHANGED rows
        \/ /\ ~Taken(op[r].vin, Ids)
           /\ \E i \in Ids :
                rows' = [rows EXCEPT ![i] = [vin |-> op[r].vin, status |-> op[r].status]]
    BY <1>4 DEF CreateVehicle, Commits, ChangesNothing
  <2>2. \A i \in Ids : ~Taken(op[r].vin, Ids) => ~Taken(op[r].vin, Ids \ {i})
    BY DEF Taken
  <2> QED
    BY <1>1, <1>2, <2>1, <2>2
<1>5. ASSUME NEW r \in Requests, PatchVehicle(r) PROVE VinsDistinct'
  <2> DEFINE i == op[r].id
             v == op[r].vin
             row == [rows[i] EXCEPT !.vin = IF v = "unset" THEN @ ELSE v]
  <2>1. i \in Ids
    BY <1>5, StatementOp, OpFields DEF PatchVehicle
  <2>2. CASE Present(i) /\ ~Taken(v, Ids \ {i}) /\ rows' = [rows EXCEPT ![i] = row]
    <3>1. rows[i] \in Row
      BY <2>1, <2>2, RowType DEF Inv
    <3>2. row.vin = IF v = "unset" THEN rows[i].vin ELSE v
      BY <3>1 DEF Row
    <3> HIDE DEF row
    <3> QED
      BY <1>2, <1>3, <2>1, <2>2, <3>2
  <2> QED
    BY <1>1, <1>5, <2>2 DEF PatchVehicle, Commits, ChangesNothing
<1>6. ASSUME NEW r \in Requests, DeleteVehicle(r) PROVE VinsDistinct'
  <2>1. op[r].id \in Ids
    BY <1>6, StatementOp, OpFields DEF DeleteVehicle
  <2>2. NoRow("deleted").status \notin Status
    BY DEF NoRow, Status
  <2> QED
    BY <1>1, <1>2, <1>6, <2>1, <2>2 DEF DeleteVehicle, Commits, ChangesNothing
<1>7. ASSUME NEW r \in Requests, CommitStatus(r) PROVE VinsDistinct'
  <2>1. op[r].id \in Ids /\ rows[op[r].id] \in Row
    BY <1>7, CommitFacts
  <2>2. /\ rows' = [rows EXCEPT ![op[r].id] = [rows[op[r].id] EXCEPT !.status = op[r].status]]
        /\ [rows[op[r].id] EXCEPT !.status = op[r].status].vin = rows[op[r].id].vin
    BY <1>7, <2>1 DEF CommitStatus, Commits, Row
  <2>3. Present(op[r].id)
    BY <2>1 DEF Present, Row
  <2> QED
    BY <1>3, <2>1, <2>2, <2>3
<1>8. UNCHANGED rows \/ \E r \in Requests :
        CreateVehicle(r) \/ PatchVehicle(r) \/ DeleteVehicle(r) \/ CommitStatus(r)
  BY DEF Next, Statement, Advance, vars, dbVars, Arrive, CheckPool, MakePool, ReturnPool, Connect,
     ConnectTimesOut, UpdateStatus, IllegalTransition, ConnectionLost, ChangesNothing,
     GetVehicle, SelectForUpdate
<1> QED
  BY <1>1, <1>4, <1>5, <1>6, <1>7, <1>8

-----------------------------------------------------------------------------
(* What a caller is told.                                                   *)

\* A request that runs has not committed anything yet.
NothingDoneYet == \A r \in Requests : pc[r] # "idle" => did[r] = FALSE

\* The steps of a request by what they mean for it: it starts, goes on, ends without a
\* change, or ends with one.
Starts(r) == pc'[r] # "idle" /\ did' = [did EXCEPT ![r] = FALSE]
GoesOn(r) == pc[r] # "idle" /\ pc'[r] # "idle" /\ did' = did
EndsUnchanged(r) ==
  /\ pc[r] # "idle" /\ did' = did /\ (answer'[r] \in {200, 201, 204} => op[r].kind = "get")
  /\ answer'[r] = 409 => VinInUse(op[r])
EndsChanged(r) ==
  pc[r] # "idle" /\ did' = [did EXCEPT ![r] = TRUE] /\ pc'[r] = "idle"
    /\ answer'[r] \in {200, 201, 204, 500}

LEMMA AnswerIs ==
  ASSUME TypeOK, NEW r \in Requests, NEW code, Answer(r, code)
  PROVE  pc'[r] = "idle" /\ answer'[r] = code
  BY DEF TypeOK, Answer, Goto

LEMMA UnchangedIs ==
  ASSUME TypeOK, NEW r \in Requests, NEW code \in Codes, pc[r] # "idle", ChangesNothing(r, code),
         code \in {200, 201, 204} => op[r].kind = "get", code = 409 => VinInUse(op[r])
  PROVE  EndsUnchanged(r)
  BY AnswerIs DEF ChangesNothing, EndsUnchanged

LEMMA ChangedIs ==
  ASSUME TypeOK, NEW r \in Requests, NEW i, NEW row, NEW code \in {200, 201, 204},
         pc[r] # "idle", Commits(r, i, row, code)
  PROVE  EndsChanged(r)
  BY AnswerIs DEF Commits, EndsChanged

LEMMA StepIs ==
  ASSUME TypeOK, NEW r \in Requests,
         \/ Arrive(r) \/ Connect(r) \/ ConnectTimesOut(r) \/ Statement(r) \/ Advance(r)
         \/ ConnectionLost(r)
  PROVE  Starts(r) \/ GoesOn(r) \/ EndsUnchanged(r) \/ EndsChanged(r)
<1> USE DEF Codes
<1>1. CASE Arrive(r)
  BY <1>1 DEF Arrive, Goto, Starts, TypeOK
<1>2. CASE Connect(r) \/ CheckPool(r) \/ MakePool(r) \/ ReturnPool(r)
  BY <1>2 DEF Connect, CheckPool, MakePool, ReturnPool, Goto, GoesOn, TypeOK
<1>3. CASE ConnectTimesOut(r)
  <2>1. ChangesNothing(r, 500) /\ pc[r] # "idle"
    BY <1>3 DEF ConnectTimesOut, ChangesNothing, dbVars
  <2> QED
    BY <2>1, UnchangedIs
<1>4. CASE CreateVehicle(r)
  <2>1. pc[r] # "idle"
    BY <1>4 DEF CreateVehicle, AtStatement
  <2>2. \/ ChangesNothing(r, 409) /\ VinInUse(op[r])
        \/ ChangesNothing(r, 500)
        \/ \E i \in Ids : Commits(r, i, [vin |-> op[r].vin, status |-> op[r].status], 201)
    BY <1>4 DEF CreateVehicle, AtStatement, Taken, VinInUse
  <2> QED
    BY <2>1, <2>2, UnchangedIs, ChangedIs
<1>5. CASE GetVehicle(r)
  <2>1. pc[r] # "idle" /\ op[r].kind = "get"
    BY <1>5 DEF GetVehicle, AtStatement
  <2>2. ChangesNothing(r, 200) \/ ChangesNothing(r, 404)
    BY <1>5 DEF GetVehicle
  <2> QED
    BY <2>1, <2>2, UnchangedIs
<1>6. CASE PatchVehicle(r)
  <2>1. pc[r] # "idle"
    BY <1>6 DEF PatchVehicle, AtStatement
  <2>2. \/ ChangesNothing(r, 404) \/ ChangesNothing(r, 500)
        \/ ChangesNothing(r, 409) /\ VinInUse(op[r])
        \/ \E row : Commits(r, op[r].id, row, 200)
    BY <1>6 DEF PatchVehicle, Taken, VinInUse
  <2> QED
    BY <2>1, <2>2, UnchangedIs, ChangedIs
<1>7. CASE DeleteVehicle(r)
  <2>1. pc[r] # "idle"
    BY <1>7 DEF DeleteVehicle, AtStatement
  <2>2. ChangesNothing(r, 404) \/ Commits(r, op[r].id, NoRow("deleted"), 204)
    BY <1>7 DEF DeleteVehicle
  <2> QED
    BY <2>1, <2>2, UnchangedIs, ChangedIs
<1>8. CASE SelectForUpdate(r)
  <2>1. pc[r] # "idle"
    BY <1>8 DEF SelectForUpdate, AtStatement
  <2>2. ChangesNothing(r, 404) \/ (Goto(r, "update") /\ UNCHANGED did)
    BY <1>8 DEF SelectForUpdate
  <2>3. Goto(r, "update") => pc'[r] # "idle"
    BY DEF Goto, TypeOK
  <2> QED
    BY <2>1, <2>2, <2>3, UnchangedIs DEF GoesOn
<1>9. CASE UpdateStatus(r)
  <2>1. pc[r] # "idle"
    BY <1>9 DEF UpdateStatus
  <2>2. ChangesNothing(r, 422) \/ (Goto(r, "commit") /\ UNCHANGED did)
    BY <1>9 DEF UpdateStatus, IllegalTransition
  <2>3. Goto(r, "commit") => pc'[r] # "idle"
    BY DEF Goto, TypeOK
  <2> QED
    BY <2>1, <2>2, <2>3, UnchangedIs DEF GoesOn
<1>10. CASE CommitStatus(r)
  <2>1. /\ pc[r] # "idle"
        /\ Commits(r, op[r].id, [rows[op[r].id] EXCEPT !.status = op[r].status], 200)
    BY <1>10 DEF CommitStatus
  <2> QED
    BY <2>1, ChangedIs
<1>11. CASE ConnectionLost(r)
  <2>1. pc[r] # "idle" /\ ChangesNothing(r, 500)
    BY <1>11 DEF ConnectionLost, ConnPcs
  <2> QED
    BY <2>1, UnchangedIs
<1> QED
  BY <1>1, <1>2, <1>3, <1>4, <1>5, <1>6, <1>7, <1>8, <1>9, <1>10, <1>11 DEF Statement, Advance

\* A step of one request is not seen by another.
LEMMA OthersStay ==
  ASSUME TypeOK, NEW r \in Requests, NEW s \in Requests, s # r,
         \/ Arrive(r) \/ Connect(r) \/ ConnectTimesOut(r) \/ Statement(r) \/ Advance(r)
         \/ ConnectionLost(r)
  PROVE  pc'[s] = pc[s]
  BY DEF TypeOK, Arrive, Connect, ConnectTimesOut, Statement, CreateVehicle, GetVehicle,
         PatchVehicle, DeleteVehicle, SelectForUpdate, Advance, CheckPool, MakePool, ReturnPool,
         UpdateStatus, IllegalTransition, CommitStatus, ConnectionLost, ChangesNothing, Commits,
         Answer, Goto

\* What the answer that a step gives says is so.
Truthful(r) ==
  pc[r] # "idle" /\ pc'[r] = "idle" =>
    /\ answer'[r] \in {404, 409, 422} => ~did'[r]
    /\ answer'[r] \in {200, 201, 204} => did'[r] \/ op[r].kind = "get"
    /\ answer'[r] \in {200, 201} => VinsDistinct'
    /\ answer'[r] = 409 => VinInUse(op[r])

LEMMA DoneStep ==
  ASSUME Inv, VinsDistinct, NothingDoneYet, [Next]_vars
  PROVE  NothingDoneYet' /\ VinsDistinct' /\ \A r \in Requests : Truthful(r)
<1>0. TypeOK /\ VinsDistinct'
  BY VinsStep DEF Inv
<1>1. CASE UNCHANGED vars
  BY <1>0, <1>1 DEF vars, NothingDoneYet, Truthful
<1>2. ASSUME NEW s \in Requests,
             \/ Arrive(s) \/ Connect(s) \/ ConnectTimesOut(s) \/ Statement(s) \/ Advance(s)
             \/ ConnectionLost(s)
      PROVE  NothingDoneYet' /\ \A r \in Requests : Truthful(r)
  <2>1. Starts(s) \/ GoesOn(s) \/ EndsUnchanged(s) \/ EndsChanged(s)
    BY <1>0, <1>2, StepIs
  <2>2. \A r \in Requests : r # s => pc'[r] = pc[r]
    BY <1>0, <1>2, OthersStay
  <2>3. did \in [Requests -> BOOLEAN]
    BY <1>0 DEF TypeOK
  <2>4. \A r \in Requests : r # s => did'[r] = did[r]
    BY <2>1, <2>3 DEF Starts, GoesOn, EndsUnchanged, EndsChanged
  <2>5. pc'[s] # "idle" => did'[s] = FALSE
    BY <2>1, <2>3 DEF Starts, GoesOn, EndsUnchanged, EndsChanged, NothingDoneYet
  <2>6. NothingDoneYet'
    BY <2>2, <2>4, <2>5 DEF NothingDoneYet
  <2>7. Truthful(s)
    BY <1>0, <2>1, <2>3
    DEF Starts, GoesOn, EndsUnchanged, EndsChanged, NothingDoneYet, Truthful
  <2>8. \A r \in Requests : r # s => Truthful(r)
    BY <2>2 DEF Truthful
  <2> QED
    BY <2>6, <2>7, <2>8
<1> QED
  BY <1>0, <1>1, <1>2 DEF Next

\* An error other than a 500 changed nothing, a success of a write is committed, no success
\* leaves a vin twice and a 409 is true, on every path through the handlers and whatever the
\* others do (vehicles.py).
THEOREM AnswersStayTrue == Spec => AnswersAreTrue
<1> DEFINE Told == \A r \in Requests : pc[r] # "idle" /\ pc'[r] = "idle" =>
             /\ answer'[r] \in {404, 409, 422} => ~did'[r]
             /\ answer'[r] \in {200, 201, 204} => did'[r] \/ op[r].kind = "get"
             /\ answer'[r] \in {200, 201} => VinsDistinct'
             /\ answer'[r] = 409 => VinInUse(op[r])
<1>1. Init => NothingDoneYet /\ VinsDistinct
  BY DEF Init, NothingDoneYet
<1>2. Inv /\ VinsDistinct /\ NothingDoneYet /\ [Next]_vars
        => (NothingDoneYet /\ VinsDistinct)' /\ [Told]_vars
  BY DoneStep DEF Truthful
<1> QED
  BY <1>1, <1>2, Invariant, PTL DEF Spec, AnswersAreTrue

=============================================================================
