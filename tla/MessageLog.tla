------------------------------ MODULE MessageLog ------------------------------
(***************************************************************************)
(* What a message store promises: a log for each session, to which a call  *)
(* adds its message in one step and once, numbered by what the log holds   *)
(* by then, and which is cleared when its session ends.                    *)
(***************************************************************************)
EXTENDS Naturals, Sequences

CONSTANTS Sessions, Calls

VARIABLES
  log,    \* the messages of each session
  added   \* the calls that have added theirs

vars == <<log, added>>

Init == log = [s \in Sessions |-> <<>>] /\ added = {}

Add(c, s) ==
  /\ c \notin added
  /\ added' = added \cup {c}
  /\ log' = [log EXCEPT ![s] = Append(@, [call |-> c, id |-> Len(@)])]

Clear(s) == log' = [log EXCEPT ![s] = <<>>] /\ UNCHANGED added

Next == \E s \in Sessions : Clear(s) \/ \E c \in Calls : Add(c, s)

Spec == Init /\ [][Next]_vars
=============================================================================
