---------------------------- MODULE MCWsClient ----------------------------
(***************************************************************************)
(* Small instances of WsClient for TLC.  MaxConns bounds the connections   *)
(* ever made, and so how many of them break: one less.                     *)
(***************************************************************************)
EXTENDS WsClient, TLC

(* Sessions and stop commands are interchangeable; for safety runs. *)
Symmetry == Permutations(Sessions) \cup Permutations(Stoppers)
=============================================================================
