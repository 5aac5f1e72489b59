------------------------------ MODULE Transcript ------------------------------
(***************************************************************************)
(* What a channel may show of a CLI: units of output that the CLI wrote,   *)
(* those of one stream in the order they were written, each of them once,  *)
(* and notices in between: that a subscription was made, and, once and not *)
(* before the fact, that the CLI has ended.  What was written before its   *)
(* end may still be shown after it, and nothing says that every unit is.   *)
(***************************************************************************)
EXTENDS Naturals, Sequences

CONSTANT Streams

VARIABLES
  written,  \* how many units the CLI wrote on each stream
  ended,    \* whether it has ended
  posts     \* the posts in the channel, <<stream, number>> or a notice

vars == <<written, ended, posts>>

Init == written = [st \in Streams |-> 0] /\ ended = FALSE /\ posts = <<>>

Write(st) ==
  /\ ~ended
  /\ written' = [written EXCEPT ![st] = @ + 1]
  /\ UNCHANGED <<ended, posts>>

End ==
  /\ ~ended
  /\ ended' = TRUE
  /\ UNCHANGED <<written, posts>>

IsNext(st, n) == \A i \in DOMAIN posts : posts[i][1] = st => posts[i][2] < n

Show(st, n) ==
  /\ n \in 1..written[st] /\ IsNext(st, n)
  /\ posts' = Append(posts, <<st, n>>)
  /\ UNCHANGED <<written, ended>>

Notice(e) ==
  /\ posts' = Append(posts, e)
  /\ UNCHANGED <<written, ended>>

TellSubscribed == Notice(<<"subscribed", 0>>)

TellExit ==
  /\ ended /\ \A i \in DOMAIN posts : posts[i] # <<"exit", 0>>
  /\ Notice(<<"exit", 0>>)

Next ==
  \/ \E st \in Streams : Write(st) \/ \E n \in 1..written[st] : Show(st, n)
  \/ End \/ TellSubscribed \/ TellExit

Spec == Init /\ [][Next]_vars
=============================================================================
