------------------------------ MODULE MCVehicles ------------------------------
(***************************************************************************)
(* Instances of Vehicles for TLC.                                          *)
(***************************************************************************)
EXTENDS Vehicles, TLC

CONSTANTS car, van, vin1, vin2

\* The threads are interchangeable; used by the run without liveness only.
Symmetry == Permutations(Requests)

StatusOps == {[kind |-> "status", id |-> car, status |-> s] : s \in Status}

\* Every kind of request, aimed at one vehicle; the second is there to take a vin.
MCOps ==
  StatusOps \cup
  {[kind |-> "create", vin |-> vin1, status |-> "available"],
   [kind |-> "get", id |-> car], [kind |-> "delete", id |-> car],
   [kind |-> "patch", id |-> car, vin |-> vin2], [kind |-> "patch", id |-> car, vin |-> "null"],
   [kind |-> "patch", id |-> car, vin |-> "unset"]}

\* Enough to fill the pool and to queue for one row.
QueueOps ==
  {[kind |-> "status", id |-> car, status |-> "sold"], [kind |-> "delete", id |-> car]}

=============================================================================
