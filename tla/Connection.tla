------------------------------ MODULE Connection ------------------------------
(***************************************************************************)
(* What a client that reconnects by itself promises to the server: it has  *)
(* one connection at a time and opens each of them once, it dials only     *)
(* when it has none, it says nothing on a connection that is gone, and     *)
(* after it is closed it opens at most the connection it was dialling then. *)
(* Nothing says that it ever has a connection again.                       *)
(***************************************************************************)
CONSTANTS Conns, Sessions

VARIABLES
  live,      \* the connections that are open
  used,      \* the connections there ever were
  told,      \* the sessions each of them was last told to subscribe to
  dialling,  \* the client has decided to dial
  closed     \* the client is closed

vars == <<live, used, told, dialling, closed>>

Init ==
  /\ live = {} /\ used = {}
  /\ told = [k \in Conns |-> {}]
  /\ dialling = TRUE
  /\ closed = FALSE

Decide ==
  /\ live = {} /\ ~dialling /\ ~closed
  /\ dialling' = TRUE
  /\ UNCHANGED <<live, used, told, closed>>

Open(k) ==
  /\ live = {} /\ k \notin used /\ dialling
  /\ live' = {k}
  /\ used' = used \cup {k}
  /\ dialling' = FALSE
  /\ UNCHANGED <<told, closed>>

Refused ==
  /\ dialling
  /\ dialling' = FALSE
  /\ UNCHANGED <<live, used, told, closed>>

(* By either side, or by the network. *)
End(k) ==
  /\ k \in live
  /\ live' = live \ {k}
  /\ UNCHANGED <<used, told, dialling, closed>>

Tell(k, S) ==
  /\ k \in live
  /\ told' = [told EXCEPT ![k] = S]
  /\ UNCHANGED <<live, used, dialling, closed>>

Close ==
  /\ closed' = TRUE
  /\ UNCHANGED <<live, used, told, dialling>>

Next ==
  \/ Decide \/ Refused \/ Close
  \/ \E k \in Conns : Open(k) \/ End(k)
  \/ \E k \in Conns, s \in Sessions : Tell(k, told[k] \cup {s}) \/ Tell(k, told[k] \ {s})

Spec == Init /\ [][Next]_vars
=============================================================================
