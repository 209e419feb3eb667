-------------------------------- MODULE TaskSet --------------------------------
(* The agent task runs that are made on one repository.                       *)

CONSTANTS Tasks, NoTask

ASSUME NoTaskAssumption == NoTask \notin Tasks

=============================================================================
