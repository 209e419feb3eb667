------------------------------ MODULE MCRateLimit ------------------------------
(***************************************************************************)
(* The instance of RateLimit for TLC: a window of two seconds, time for    *)
(* two of them, and readings half a second apart so that retry_after is    *)
(* rounded.                                                                *)
(***************************************************************************)
EXTENDS RateLimit, TLC

Symmetry == Permutations(Threads)

=============================================================================
