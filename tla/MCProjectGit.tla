---------------------------- MODULE MCProjectGit ----------------------------
(***************************************************************************)
(* The instance of ProjectGit for TLC.  Requests bounds what is asked of   *)
(* the repository, MaxEdits how often a file changes.                      *)
(***************************************************************************)
EXTENDS ProjectGit, TLC

Symmetry == Permutations(Requests) \cup Permutations(Files)
=============================================================================
