----------------------------- MODULE MCHistories -----------------------------
(***************************************************************************)
(* The instance of Histories for TLC.  Calls bounds the messages ever      *)
(* added.                                                                  *)
(***************************************************************************)
EXTENDS Histories, TLC

Symmetry == Permutations(Sessions) \cup Permutations(Calls)
=============================================================================
