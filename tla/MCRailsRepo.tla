------------------------------ MODULE MCRailsRepo ------------------------------
(* Two runs that may draw the same name, one key of triage and the gate's.    *)
EXTENDS RailsRepo

Keys == {"DATABASE_URL", "SUPABASE_URL"}
MCTriageKeys == {"SUPABASE_URL"}

Entries == [key : Keys, value : {"empty", "value"}]
UpToTwoLines == {<<>>} \cup {<<e>> : e \in Entries} \cup {<<e, f>> : e, f \in Entries}

Row(known) == [task |-> "earlier", outcome_known |-> known]
MCHeritages == {<<>>, <<Row(TRUE)>>, <<Row(FALSE)>>}

Symmetry == Permutations(Tasks) \cup Permutations(ShortIds)

=============================================================================
