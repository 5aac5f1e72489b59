---------------------------- MODULE MCBridgeMode ----------------------------
(***************************************************************************)
(* Small instances of BridgeMode for TLC.  Sessions bounds the sessions    *)
(* ever created, all for one channel; Cmds the commands under way;         *)
(* MaxMoves the commands, failures and stops of a behaviour together.      *)
(***************************************************************************)
EXTENDS BridgeMode, TLC

CONSTANT c1

OneChannel == [s \in Sessions |-> c1]

(* Goroutines are interchangeable; for safety runs. *)
Symmetry == Permutations(Cmds) \cup Permutations(Sessions)
=============================================================================
