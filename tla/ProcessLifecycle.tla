--------------------------- MODULE ProcessLifecycle ---------------------------
(***************************************************************************)
(* What a manager of CLI processes promises about each of them, be it the  *)
(* process manager of the plugin or the spawner of the bridge server: it   *)
(* is started once, under an id that is never used again; its end is       *)
(* reported once, and only after the process has ended; and only the end   *)
(* of the manager itself makes it lose sight of a process.                 *)
(***************************************************************************)
CONSTANT Sessions

VARIABLE phase

Phases == {"unused", "running", "ended", "reported", "abandoned"}

TypeOK == phase \in [Sessions -> Phases]

Init == phase = [s \in Sessions |-> "unused"]

Move(s, from, to) == phase[s] = from /\ phase' = [phase EXCEPT ![s] = to]

Start(s) == Move(s, "unused", "running")

End(s) == Move(s, "running", "ended")

Report(s) == Move(s, "ended", "reported")

(* The manager stops and takes with it whatever watched the processes. *)
Abandon ==
  phase' = [s \in Sessions |->
              IF phase[s] \in {"running", "ended"} THEN "abandoned" ELSE phase[s]]

Next == (\E s \in Sessions : Start(s) \/ End(s) \/ Report(s)) \/ Abandon

Spec == Init /\ [][Next]_phase

(* An end that is not abandoned is reported. *)
FairSpec == Spec /\ \A s \in Sessions : WF_phase(Report(s))
=============================================================================
