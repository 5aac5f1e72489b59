--------------------------- MODULE MCBridgeServer ---------------------------
(***************************************************************************)
(* Small instances of BridgeServer for TLC.  Sessions bounds the sessions  *)
(* ever created, Clients the connections open at a time.                   *)
(***************************************************************************)
EXTENDS BridgeServer, TLC

(* Sessions and clients are interchangeable; for safety runs. *)
Symmetry == Permutations(Sessions) \cup Permutations(Clients)
=============================================================================
