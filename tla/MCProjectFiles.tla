--------------------------- MODULE MCProjectFiles ---------------------------
(***************************************************************************)
(* The instance of ProjectFiles for TLC.  Requests and Edits bound what is *)
(* ever done to the files; requests for different files share nothing.     *)
(***************************************************************************)
EXTENDS ProjectFiles, TLC

Symmetry == Permutations(Requests)
=============================================================================
