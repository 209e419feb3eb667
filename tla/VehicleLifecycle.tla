--------------------------- MODULE VehicleLifecycle ---------------------------
(***************************************************************************)
(* What the inventory promises of every vehicle: it is created with some   *)
(* status, moves only along api/_lib/transitions.py, and is deleted at     *)
(* most once.  Nothing here says who moves it or when.                     *)
(***************************************************************************)
EXTENDS Transitions

CONSTANT Ids
VARIABLE stage       \* per vehicle: its status, or that it has none

Init == stage \in [Ids -> Status \cup {"unborn"}]

Create(i) == stage[i] = "unborn" /\ \E s \in Status : stage' = [stage EXCEPT ![i] = s]

Move(i) ==
  \E s \in Status : can_transition(stage[i], s) /\ stage' = [stage EXCEPT ![i] = s]

Delete(i) == stage[i] \in Status /\ stage' = [stage EXCEPT ![i] = "deleted"]

Next == \E i \in Ids : Create(i) \/ Move(i) \/ Delete(i)

Spec == Init /\ [][Next]_stage

=============================================================================
