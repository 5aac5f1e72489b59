--------------------------- MODULE MCSessionOutput ---------------------------
(***************************************************************************)
(* The instance of SessionOutput for TLC: enough lines on stdout to fill   *)
(* the pipe behind a reader that has stopped, and one line on stderr to    *)
(* come between any two of them.                                           *)
(***************************************************************************)
EXTENDS SessionOutput, TLC

LinesOf == "stdout" :> 3 @@ "stderr" :> 1
=============================================================================
