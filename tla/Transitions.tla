------------------------------ MODULE Transitions ------------------------------
(***************************************************************************)
(* The status machine of a vehicle: api/_lib/transitions.py.               *)
(***************************************************************************)

Status == {"available", "reserved", "sold"}

ALLOWED == [available |-> {"reserved", "sold"}, reserved |-> {"available", "sold"}, sold |-> {}]

can_transition(frm, to) == frm \in DOMAIN ALLOWED /\ to \in ALLOWED[frm]

=============================================================================
