-------------------------- MODULE MCEmbeddedSession --------------------------
(***************************************************************************)
(* Small instances of EmbeddedSession for TLC.  Sessions bounds the number *)
(* of sessions ever created, Cmds the number of commands in flight.        *)
(***************************************************************************)
EXTENDS EmbeddedSession, TLC

(* Sessions, goroutines and channels are interchangeable; for safety runs. *)
Symmetry == Permutations(Sessions) \cup Permutations(Cmds) \cup Permutations(Channels)
=============================================================================
