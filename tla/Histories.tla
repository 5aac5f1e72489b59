------------------------------ MODULE Histories ------------------------------
(***************************************************************************)
(* The message store of the plugin (server/message_store.go).  The history *)
(* of a session is one value of the KV store: AddMessage reads all of it,  *)
(* appends a message and writes all of it back, with no lock, so that      *)
(* concurrent calls write from stale copies; a stop deletes it at any      *)
(* time; and a read that fails counts as an empty history.                 *)
(*                                                                         *)
(* A message is named after the call that adds it.  The module records     *)
(* which calls were over when a call began, to say what happened at the    *)
(* same time and what did not.                                             *)
(***************************************************************************)
EXTENDS Integers, Sequences

CONSTANTS
  Sessions,   \* session ids
  Calls,      \* calls of AddMessage, each of them made once
  NoSession   \* of a call not made yet

ASSUME HistoriesAssumption == NoSession \notin Sessions

VARIABLES
  kv,       \* the histories in the KV store, <<>> where there is no value
  pc,       \* what the call does next: "begin", "write", or it "added" or "failed"
  sess,     \* the session it adds to
  copy,     \* the history it has read
  prior,    \* observed: the calls that were over when it began
  blind,    \* observed: calls whose read failed
  deleted,  \* observed: added messages whose history was deleted
  spans     \* observed: calls under way while their history was deleted

callVars == <<pc, sess, copy, prior, blind>>
vars == <<kv, callVars, deleted, spans>>

Messages == [call : Calls, id : Nat]

TypeOK ==
  /\ kv \in [Sessions -> Seq(Messages)]
  /\ pc \in [Calls -> {"begin", "write", "added", "failed"}]
  /\ sess \in [Calls -> Sessions \cup {NoSession}]
  /\ copy \in [Calls -> Seq(Messages)]
  /\ prior \in [Calls -> SUBSET Calls]
  /\ blind \subseteq Calls /\ deleted \subseteq Calls /\ spans \subseteq Calls

Init ==
  /\ kv = [s \in Sessions |-> <<>>]
  /\ pc = [c \in Calls |-> "begin"]
  /\ sess = [c \in Calls |-> NoSession]
  /\ copy = [c \in Calls |-> <<>>]
  /\ prior = [c \in Calls |-> {}]
  /\ blind = {} /\ deleted = {} /\ spans = {}

-----------------------------------------------------------------------------
Over == {c \in Calls : pc[c] \in {"added", "failed"}}

(* GetMessages in AddMessage: an error is dropped, and the call goes on    *)
(* with an empty history.                                                  *)
Read(c, s) ==
  /\ pc[c] = "begin"
  /\ pc' = [pc EXCEPT ![c] = "write"]
  /\ sess' = [sess EXCEPT ![c] = s]
  /\ prior' = [prior EXCEPT ![c] = Over]
  /\ \/ copy' = [copy EXCEPT ![c] = kv[s]] /\ UNCHANGED blind
     \/ copy' = [copy EXCEPT ![c] = <<>>] /\ blind' = blind \cup {c}
  /\ UNCHANGED <<kv, deleted, spans>>

(* Mutants: the newest message first; a window of two messages. *)
Write_NewestFirst(c) ==
  /\ pc[c] = "write"
  /\ kv' = [kv EXCEPT ![sess[c]] = <<[call |-> c, id |-> Len(copy[c])]>> \o copy[c]]
  /\ pc' = [pc EXCEPT ![c] = "added"]
  /\ UNCHANGED <<sess, copy, prior, blind, deleted, spans>>

Write_Trims(c) ==
  /\ pc[c] = "write"
  /\ LET h == Append(copy[c], [call |-> c, id |-> Len(copy[c])]) IN
       kv' = [kv EXCEPT ![sess[c]] = IF Len(h) > 2 THEN Tail(h) ELSE h]
  /\ pc' = [pc EXCEPT ![c] = "added"]
  /\ UNCHANGED <<sess, copy, prior, blind, deleted, spans>>

(* The id is the length of the copy; what was written meanwhile is gone.   *)
Write(c) ==
  /\ pc[c] = "write"
  /\ kv' = [kv EXCEPT ![sess[c]] = Append(copy[c], [call |-> c, id |-> Len(copy[c])])]
  /\ pc' = [pc EXCEPT ![c] = "added"]
  /\ UNCHANGED <<sess, copy, prior, blind, deleted, spans>>

WriteFails(c) ==
  /\ pc[c] = "write"
  /\ pc' = [pc EXCEPT ![c] = "failed"]
  /\ UNCHANGED <<kv, sess, copy, prior, blind, deleted, spans>>

(* Mutant: only the last message is deleted. *)
Delete_LastOnly(s) ==
  /\ kv' = [kv EXCEPT ![s] = IF @ = <<>> THEN @ ELSE SubSeq(@, 1, Len(@) - 1)]
  /\ deleted' = deleted \cup {c \in Calls : sess[c] = s /\ pc[c] = "added"}
  /\ spans' = spans \cup {c \in Calls : sess[c] = s /\ pc[c] = "write"}
  /\ UNCHANGED callVars

(* DeleteSessionMessages, at the end of StopSession: a call that is under  *)
(* way does not see it.                                                    *)
Delete(s) ==
  /\ kv' = [kv EXCEPT ![s] = <<>>]
  /\ deleted' = deleted \cup {c \in Calls : sess[c] = s /\ pc[c] = "added"}
  /\ spans' = spans \cup {c \in Calls : sess[c] = s /\ pc[c] = "write"}
  /\ UNCHANGED callVars

Next ==
  \/ \E c \in Calls : (\E s \in Sessions : Read(c, s)) \/ Write(c) \/ WriteFails(c)
  \/ \E s \in Sessions : Delete(s)

Spec == Init /\ [][Next]_vars

-----------------------------------------------------------------------------
CallsIn(h) == {h[i].call : i \in DOMAIN h}

(* Two calls for one session were under way at the same time. *)
Overlap(c, d) == c # d /\ sess[c] = sess[d] /\ c \notin prior[d] /\ d \notin prior[c]

(* What may take message c away when call d writes. *)
Takes(d, c) ==
  \/ Overlap(c, d)
  \/ d \in blind /\ sess[c] = sess[d] /\ c \in prior[d]

Excused(c) == c \in deleted \/ \E d \in Calls : pc[d] = "added" /\ Takes(d, c)

(* A message that was added is in the history of its session, unless the    *)
(* history was deleted, a call made at the same time wrote over it, or a    *)
(* later call could not read it.  No chain of stale copies takes away the   *)
(* message of a call that was alone.                                        *)
NothingLostAlone ==
  \A c \in Calls : pc[c] = "added" => c \in CallsIn(kv[sess[c]]) \/ Excused(c)

(* No message stands after one that was added when its call began: the     *)
(* order of a history never contradicts the order of the calls.            *)
RealTimeOrder ==
  \A s \in Sessions : \A i, j \in DOMAIN kv[s] :
    i < j => kv[s][j].call \notin prior[kv[s][i].call]

(* A call that was under way during a deletion has written message c back. *)
BroughtBack(c) ==
  \E d \in spans : pc[d] = "added" /\ sess[d] = sess[c] /\ c \in CallsIn(copy[d])

(* A deleted history comes back only from the copy of a call that was      *)
(* under way while it was deleted.                                         *)
ComesBackFromCopy == \A c \in deleted : c \in CallsIn(kv[sess[c]]) => BroughtBack(c)

(* The ids of a history count its messages from 0, so that they are        *)
(* distinct, and no message is there twice, whatever was lost.             *)
WellNumbered(h) ==
  /\ \A i \in DOMAIN h : h[i].id = i - 1
  /\ \A i, j \in DOMAIN h : h[i].call = h[j].call => i = j

IdsAreIndices == \A s \in Sessions : WellNumbered(kv[s])

(* A session's calls one after another, no deletion while one is under     *)
(* way, and no read that failed.                                           *)
Undisturbed ==
  /\ \A c, d \in Calls : pc[c] = "write" /\ pc[d] = "write" /\ sess[c] = sess[d] => c = d
  /\ spans = {} /\ blind = {}

Added == {c \in Calls : pc[c] = "added"}

Log == INSTANCE MessageLog WITH log <- kv, added <- Added

(* Every message is added in one step: nothing but the lock that           *)
(* AddMessage does without, and the error it drops, keeps the store from   *)
(* its promise.                                                            *)
ImplementsLog == Log!Spec

(* The inductive invariant: what holds of the histories holds of the       *)
(* copies that calls will write.                                           *)
Ordered(h) == \A i, j \in DOMAIN h : i < j => h[j].call \notin prior[h[i].call]

IsHistory(h, s) ==
  /\ \A i \in DOMAIN h : pc[h[i].call] = "added" /\ sess[h[i].call] = s
  /\ WellNumbered(h) /\ Ordered(h)

CallInv ==
  /\ \A c \in Calls : prior[c] \subseteq Over
  /\ \A c \in Calls : pc[c] = "begin" => c \notin blind \cup spans /\ copy[c] = <<>>
  /\ \A c \in Calls : pc[c] # "begin" => sess[c] \in Sessions
  /\ \A c \in Calls : c \in deleted => pc[c] = "added"

CopyInv ==
  \A e \in Calls : pc[e] = "write" =>
    /\ IsHistory(copy[e], sess[e])
    /\ \A c \in Calls : pc[c] = "added" /\ sess[c] = sess[e] =>
         c \in CallsIn(copy[e]) \/ Excused(c) \/ Takes(e, c)
    /\ \A c \in CallsIn(copy[e]) \cap deleted : e \in spans \/ BroughtBack(c)

IndInv ==
  /\ TypeOK /\ CallInv /\ CopyInv
  /\ \A s \in Sessions : IsHistory(kv[s], s)
  /\ NothingLostAlone /\ ComesBackFromCopy
=============================================================================
