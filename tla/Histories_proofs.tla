-------------------------- MODULE Histories_proofs --------------------------
(***************************************************************************)
(* Proofs about the message store, for any number of sessions and calls.   *)
(* The argument: what holds of a stored history also holds of every copy   *)
(* that a call has read, minus what happened since the read, and no step   *)
(* takes an excuse back (Frame).                                           *)
(***************************************************************************)
EXTENDS Histories, TLAPS

LEMMA AppendCalls ==
  ASSUME NEW h \in Seq(Messages), NEW m \in Messages
  PROVE  /\ Append(h, m) \in Seq(Messages)
         /\ Len(Append(h, m)) = Len(h) + 1 /\ Len(h) \in Nat
         /\ DOMAIN Append(h, m) = 1 .. Len(h) + 1 /\ DOMAIN h = 1 .. Len(h)
         /\ \A i \in DOMAIN h : Append(h, m)[i] = h[i]
         /\ Append(h, m)[Len(h) + 1] = m
         /\ CallsIn(Append(h, m)) = CallsIn(h) \cup {m.call}
<1>1. /\ Append(h, m) \in Seq(Messages)
      /\ Len(Append(h, m)) = Len(h) + 1 /\ Len(h) \in Nat
      /\ DOMAIN Append(h, m) = 1 .. Len(h) + 1 /\ DOMAIN h = 1 .. Len(h)
      /\ \A i \in DOMAIN h : Append(h, m)[i] = h[i]
      /\ Append(h, m)[Len(h) + 1] = m
  OBVIOUS
<1>2. \A x : x \in CallsIn(Append(h, m)) <=> x \in CallsIn(h) \cup {m.call}
  <2>1. \A i \in DOMAIN Append(h, m) : i \in DOMAIN h \/ i = Len(h) + 1
    BY <1>1
  <2>2. Len(h) + 1 \in DOMAIN Append(h, m)
    BY <1>1
  <2>3. \A i \in DOMAIN h : i \in DOMAIN Append(h, m)
    BY <1>1
  <2> QED  BY <1>1, <2>1, <2>2, <2>3, Zenon DEF CallsIn
<1> QED  BY <1>1, <1>2

(* The histories and the copies hold messages of calls. *)
LEMMA HistoryCalls ==
  ASSUME NEW h \in Seq(Messages)
  PROVE  /\ DOMAIN h = 1 .. Len(h) /\ Len(h) \in Nat
         /\ \A i \in DOMAIN h : h[i].call \in Calls
         /\ CallsIn(h) \subseteq Calls
<1>1. DOMAIN h = 1 .. Len(h) /\ Len(h) \in Nat /\ \A i \in DOMAIN h : h[i] \in Messages
  OBVIOUS
<1> QED  BY <1>1 DEF Messages, CallsIn

LEMMA NewMessage ==
  ASSUME TypeOK, NEW c \in Calls
  PROVE  /\ copy[c] \in Seq(Messages)
         /\ [call |-> c, id |-> Len(copy[c])] \in Messages
<1>1. copy[c] \in Seq(Messages)
  BY DEF TypeOK
<1>2. Len(copy[c]) \in Nat
  BY <1>1
<1> QED  BY <1>1, <1>2 DEF Messages

-----------------------------------------------------------------------------
(* Types. *)
LEMMA InitTypes == Init => TypeOK
<1> SUFFICES ASSUME Init PROVE TypeOK
  OBVIOUS
<1>1. <<>> \in Seq(Messages)
  OBVIOUS
<1> QED  BY <1>1 DEF Init, TypeOK

LEMMA StepTypes == ASSUME TypeOK, Next PROVE TypeOK'
<1>1. ASSUME NEW c \in Calls, NEW s \in Sessions, Read(c, s) PROVE TypeOK'
  <2>1. Over \subseteq Calls
    BY DEF Over
  <2>2. <<>> \in Seq(Messages) /\ kv[s] \in Seq(Messages)
    BY DEF TypeOK
  <2>3. copy' \in [Calls -> Seq(Messages)] /\ blind' \subseteq Calls
    BY <1>1, <2>2 DEF Read, TypeOK
  <2> QED  BY <1>1, <2>1, <2>3 DEF Read, TypeOK
<1>2. ASSUME NEW c \in Calls, Write(c) PROVE TypeOK'
  <2>1. Append(copy[c], [call |-> c, id |-> Len(copy[c])]) \in Seq(Messages)
    BY NewMessage, AppendCalls
  <2> QED  BY <1>2, <2>1 DEF Write, TypeOK
<1>3. ASSUME NEW c \in Calls, WriteFails(c) PROVE TypeOK'
  BY <1>3 DEF WriteFails, TypeOK
<1>4. ASSUME NEW s \in Sessions, Delete(s) PROVE TypeOK'
  <2>1. <<>> \in Seq(Messages)
    OBVIOUS
  <2> QED  BY <1>4, <2>1 DEF Delete, TypeOK, callVars
<1> QED  BY <1>1, <1>2, <1>3, <1>4 DEF Next

-----------------------------------------------------------------------------
(* What no step changes of a call that has begun, and what only grows. *)
Frame ==
  /\ \A c \in Calls : pc[c] # "begin" =>
       sess'[c] = sess[c] /\ prior'[c] = prior[c] /\ copy'[c] = copy[c] /\ pc'[c] # "begin"
  /\ \A c \in Calls : pc[c] = "added" => pc'[c] = "added"
  /\ \A c \in Calls : c \in Over => c \in Over'
  /\ blind \subseteq blind' /\ deleted \subseteq deleted' /\ spans \subseteq spans'

LEMMA StepFrame == ASSUME TypeOK, Next PROVE Frame
<1>1. ASSUME NEW c \in Calls, NEW s \in Sessions, Read(c, s) PROVE Frame
  <2>1. blind \subseteq blind'
    BY <1>1 DEF Read
  <2> QED  BY <1>1, <2>1 DEF Read, Frame, TypeOK, Over
<1>2. ASSUME NEW c \in Calls, Write(c) \/ WriteFails(c) PROVE Frame
  BY <1>2 DEF Write, WriteFails, Frame, TypeOK, Over
<1>3. ASSUME NEW s \in Sessions, Delete(s) PROVE Frame
  BY <1>3 DEF Delete, Frame, TypeOK, callVars, Over
<1> QED  BY <1>1, <1>2, <1>3 DEF Next

LEMMA FrameTakes ==
  ASSUME Frame, NEW c \in Calls, NEW d \in Calls,
         pc[c] # "begin", pc[d] # "begin", Takes(d, c)
  PROVE  Takes(d, c)'
BY DEF Frame, Takes, Overlap

LEMMA FrameExcused ==
  ASSUME Frame, NEW c \in Calls, pc[c] = "added", Excused(c)
  PROVE  Excused(c)'
<1>1. CASE c \in deleted
  BY <1>1 DEF Excused, Frame
<1>2. CASE c \notin deleted
  <2>1. PICK d \in Calls : pc[d] = "added" /\ Takes(d, c)
    BY <1>2 DEF Excused
  <2>2. pc'[d] = "added"
    BY <2>1 DEF Frame
  <2>3. Takes(d, c)'
    BY <2>1, FrameTakes
  <2> QED  BY <2>2, <2>3 DEF Excused
<1> QED  BY <1>1, <1>2

LEMMA FrameBroughtBack ==
  ASSUME TypeOK, Frame, NEW c \in Calls, pc[c] # "begin", BroughtBack(c)
  PROVE  BroughtBack(c)'
<1>1. PICK d \in spans : pc[d] = "added" /\ sess[d] = sess[c] /\ c \in CallsIn(copy[d])
  BY DEF BroughtBack
<1>2. d \in Calls
  BY DEF TypeOK
<1>3. d \in spans' /\ pc'[d] = "added" /\ sess'[d] = sess'[c] /\ copy'[d] = copy[d]
  BY <1>1, <1>2 DEF Frame
<1> QED  BY <1>1, <1>3 DEF BroughtBack

(* What IsHistory says of h in the next state. *)
HistoryNext(h, s) ==
  /\ \A i \in DOMAIN h : pc'[h[i].call] = "added" /\ sess'[h[i].call] = s
  /\ WellNumbered(h)
  /\ \A i, j \in DOMAIN h : i < j => h[j].call \notin prior'[h[i].call]

LEMMA FrameHistory ==
  ASSUME Frame, NEW h \in Seq(Messages), NEW s, IsHistory(h, s)
  PROVE  HistoryNext(h, s)
<1>1. \A i \in DOMAIN h : h[i].call \in Calls
  BY HistoryCalls
<1>2. \A i \in DOMAIN h : pc[h[i].call] = "added" /\ sess[h[i].call] = s
  BY DEF IsHistory
<1>3. \A i \in DOMAIN h : /\ pc'[h[i].call] = "added" /\ sess'[h[i].call] = s
                          /\ prior'[h[i].call] = prior[h[i].call]
  BY <1>1, <1>2 DEF Frame
<1>4. \A i, j \in DOMAIN h : i < j => h[j].call \notin prior'[h[i].call]
  BY <1>3 DEF IsHistory, Ordered
<1> QED  BY <1>3, <1>4 DEF IsHistory, HistoryNext

-----------------------------------------------------------------------------
(* The parts of the invariant, one lemma for each. *)
KvInv == \A s \in Sessions : IsHistory(kv[s], s)

LEMMA StepCalls == ASSUME TypeOK, CallInv, Next PROVE CallInv'
<1> USE DEF CallInv
<1>1. ASSUME NEW c \in Calls, NEW s \in Sessions, Read(c, s) PROVE CallInv'
  <2>1. Over' = Over
    BY <1>1 DEF Read, Over, TypeOK
  <2>2. \A d \in Calls : prior'[d] \subseteq Over'
    BY <1>1, <2>1 DEF Read, TypeOK
  <2>3. \A d \in Calls : pc'[d] = "begin" => d # c /\ pc[d] = "begin"
    BY <1>1 DEF Read, TypeOK
  <2>4. \A d \in Calls : d # c => copy'[d] = copy[d] /\ (d \in blind' => d \in blind)
    BY <1>1 DEF Read, TypeOK
  <2>5. \A d \in Calls : pc'[d] = "begin" => d \notin blind' \cup spans' /\ copy'[d] = <<>>
    BY <1>1, <2>3, <2>4 DEF Read
  <2>6. \A d \in Calls : pc'[d] # "begin" => sess'[d] \in Sessions
    BY <1>1 DEF Read, TypeOK
  <2>7. \A d \in Calls : d \in deleted' => pc'[d] = "added"
    BY <1>1 DEF Read, TypeOK
  <2> QED  BY <2>2, <2>5, <2>6, <2>7
<1>2. ASSUME NEW c \in Calls, Write(c) \/ WriteFails(c) PROVE CallInv'
  <2>1. /\ \A d \in Calls : d # c => pc'[d] = pc[d]
        /\ pc[c] = "write" /\ pc'[c] \in {"added", "failed"}
        /\ UNCHANGED <<sess, copy, prior, blind, deleted, spans>>
    BY <1>2 DEF Write, WriteFails, TypeOK
  <2>2. Over \subseteq Over'
    BY <2>1 DEF Over
  <2> QED  BY <2>1, <2>2
<1>3. ASSUME NEW s \in Sessions, Delete(s) PROVE CallInv'
  <2>1. UNCHANGED <<pc, sess, copy, prior, blind>> /\ Over' = Over
    BY <1>3 DEF Delete, callVars, Over
  <2>2. \A d \in Calls : d \in spans' => d \in spans \/ pc[d] = "write"
    BY <1>3 DEF Delete
  <2>3. \A d \in Calls : d \in deleted' => d \in deleted \/ pc[d] = "added"
    BY <1>3 DEF Delete
  <2> QED  BY <2>1, <2>2, <2>3
<1> QED  BY <1>1, <1>2, <1>3 DEF Next

LEMMA StepHistories == ASSUME IndInv, Next PROVE KvInv'
<1>0. TypeOK /\ TypeOK' /\ Frame /\ KvInv /\ CopyInv /\ CallInv
  BY StepTypes, StepFrame DEF IndInv, KvInv
<1> SUFFICES ASSUME NEW s \in Sessions PROVE HistoryNext(kv'[s], s)
  BY DEF KvInv, IsHistory, HistoryNext, Ordered
<1>1. kv[s] \in Seq(Messages) /\ HistoryNext(kv[s], s)
  BY <1>0, FrameHistory DEF TypeOK, KvInv
<1>2. CASE kv'[s] = kv[s]
  BY <1>1, <1>2
<1>3. CASE kv'[s] = <<>>
  BY <1>3 DEF HistoryNext, WellNumbered
<1>4. ASSUME NEW c \in Calls, Write(c), sess[c] = s PROVE HistoryNext(kv'[s], s)
  <2> DEFINE m == [call |-> c, id |-> Len(copy[c])]
             h == copy[c]
  <2>1. h \in Seq(Messages) /\ m \in Messages /\ m.call = c /\ m.id = Len(h)
    BY <1>0, NewMessage
  <2>2. kv'[s] = Append(h, m) /\ pc[c] = "write" /\ pc'[c] = "added" /\ sess'[c] = s
    BY <1>0, <1>4 DEF Write, TypeOK
  <2>3. IsHistory(h, s) /\ HistoryNext(h, s)
    BY <1>0, <1>4, <2>1, <2>2, FrameHistory DEF CopyInv
  <2> DEFINE g == Append(h, m)
  <2>4. /\ DOMAIN g = 1 .. Len(h) + 1 /\ DOMAIN h = 1 .. Len(h) /\ Len(h) \in Nat
        /\ \A i \in DOMAIN h : g[i] = h[i]
        /\ g[Len(h) + 1] = m
    BY <2>1, AppendCalls
  <2>5. \A i \in DOMAIN g : i \in DOMAIN h \/ i = Len(h) + 1
    BY <2>4
  <2>6. \A i \in DOMAIN h : h[i].call # c /\ pc[h[i].call] = "added" /\ h[i].call \in Calls
    BY <2>1, <2>2, <2>3, HistoryCalls DEF IsHistory
  <2>7. \A i \in DOMAIN g : pc'[g[i].call] = "added" /\ sess'[g[i].call] = s
    BY <2>1, <2>2, <2>3, <2>4, <2>5 DEF HistoryNext
  <2>8. WellNumbered(g)
    <3>1. \A i \in DOMAIN h : h[i].id = i - 1
      BY <2>3 DEF HistoryNext, WellNumbered
    <3>2. m.id = (Len(h) + 1) - 1
      BY <2>1, <2>4
    <3>3. \A i \in DOMAIN g : g[i].id = i - 1
      BY <2>4, <2>5, <3>1, <3>2
    <3>4. \A i, j \in DOMAIN h : h[i].call = h[j].call => i = j
      BY <2>3 DEF HistoryNext, WellNumbered
    <3>5. \A i, j \in DOMAIN g : g[i].call = g[j].call => i = j
      BY <2>1, <2>4, <2>5, <2>6, <3>4
    <3> QED  BY <3>3, <3>5 DEF WellNumbered
  <2>9. \A i, j \in DOMAIN g : i < j => g[j].call \notin prior'[g[i].call]
    <3> SUFFICES ASSUME NEW i \in DOMAIN g, NEW j \in DOMAIN g, i < j
                 PROVE  g[j].call \notin prior'[g[i].call]
      OBVIOUS
    <3>1. i \in DOMAIN h
      BY <2>4
    <3>2. CASE j \in DOMAIN h
      BY <2>3, <2>4, <3>1, <3>2 DEF HistoryNext
    <3>3. CASE j = Len(h) + 1
      <4>1. prior' = prior /\ c \notin Over
        BY <1>4 DEF Write, Over
      <4>2. c \notin prior'[h[i].call]
        BY <1>0, <2>6, <3>1, <4>1 DEF CallInv
      <4> QED  BY <2>1, <2>4, <3>1, <3>3, <4>2
    <3> QED  BY <2>5, <3>2, <3>3
  <2> HIDE DEF g, m, h
  <2>10. HistoryNext(g, s)
    BY <2>7, <2>8, <2>9 DEF HistoryNext
  <2> QED  BY <2>2, <2>10 DEF g
<1>5. ASSUME NEW c \in Calls, Write(c), sess[c] # s PROVE kv'[s] = kv[s]
  BY <1>0, <1>5 DEF Write, TypeOK
<1>6. ASSUME NEW c \in Calls, NEW t \in Sessions, Read(c, t) \/ WriteFails(c) PROVE kv'[s] = kv[s]
  BY <1>6 DEF Read, WriteFails
<1>7. ASSUME NEW c \in Calls, WriteFails(c) PROVE kv'[s] = kv[s]
  BY <1>7 DEF WriteFails
<1>8. ASSUME NEW t \in Sessions, Delete(t) PROVE kv'[s] = kv[s] \/ kv'[s] = <<>>
  BY <1>0, <1>8 DEF Delete, TypeOK
<1> QED  BY <1>2, <1>3, <1>4, <1>5, <1>6, <1>7, <1>8 DEF Next

LEMMA StepKept == ASSUME IndInv, Next PROVE NothingLostAlone'
<1>0. TypeOK /\ TypeOK' /\ Frame /\ CopyInv /\ CallInv /\ NothingLostAlone
  BY StepTypes, StepFrame DEF IndInv
<1> SUFFICES ASSUME NEW c \in Calls, pc'[c] = "added"
             PROVE  c \in CallsIn(kv'[sess'[c]]) \/ Excused(c)'
  BY DEF NothingLostAlone
<1>1. ASSUME pc[c] = "added", kv'[sess[c]] = kv[sess[c]]
      PROVE  c \in CallsIn(kv'[sess'[c]]) \/ Excused(c)'
  <2>1. sess'[c] = sess[c]
    BY <1>0, <1>1 DEF Frame
  <2>2. c \in CallsIn(kv[sess[c]]) \/ Excused(c)
    BY <1>0, <1>1 DEF NothingLostAlone
  <2> QED  BY <1>0, <1>1, <2>1, <2>2, FrameExcused
<1>2. ASSUME NEW d \in Calls, NEW s \in Sessions, Read(d, s) PROVE pc[c] = "added" /\ kv' = kv
  BY <1>0, <1>2 DEF Read, TypeOK
<1>3. ASSUME NEW d \in Calls, WriteFails(d) PROVE pc[c] = "added" /\ kv' = kv
  BY <1>0, <1>3 DEF WriteFails, TypeOK
<1>4. ASSUME NEW d \in Calls, Write(d) PROVE c \in CallsIn(kv'[sess'[c]]) \/ Excused(c)'
  <2> DEFINE m == [call |-> d, id |-> Len(copy[d])]
  <2>1. /\ pc[d] = "write" /\ pc'[d] = "added" /\ sess' = sess /\ sess[d] \in Sessions
        /\ kv' = [kv EXCEPT ![sess[d]] = Append(copy[d], m)]
        /\ \A e \in Calls : e # d => pc'[e] = pc[e]
    BY <1>0, <1>4 DEF Write, TypeOK, CallInv
  <2>2. CallsIn(Append(copy[d], m)) = CallsIn(copy[d]) \cup {d}
    BY <1>0, NewMessage, AppendCalls
  <2>3. kv'[sess[d]] = Append(copy[d], m)
    BY <1>0, <2>1 DEF TypeOK
  <2>4. CASE c = d
    BY <2>1, <2>2, <2>3, <2>4
  <2>5. CASE c # d /\ sess[c] = sess[d]
    <3>1. pc[c] = "added"
      BY <2>1, <2>5
    <3>2. c \in CallsIn(copy[d]) \/ Excused(c) \/ Takes(d, c)
      BY <1>0, <2>1, <2>5, <3>1 DEF CopyInv
    <3>3. CASE Takes(d, c)
      <4>1. Takes(d, c)'
        BY <1>0, <2>1, <3>1, <3>3, FrameTakes
      <4> QED  BY <2>1, <4>1 DEF Excused
    <3>4. CASE Excused(c)
      BY <1>0, <3>1, <3>4, FrameExcused
    <3>5. CASE c \in CallsIn(copy[d])
      BY <2>1, <2>2, <2>3, <2>5, <3>5
    <3> QED  BY <3>2, <3>3, <3>4, <3>5
  <2>6. CASE c # d /\ sess[c] # sess[d]
    <3>1. pc[c] = "added"
      BY <2>1, <2>6
    <3>2. sess[c] \in Sessions
      BY <1>0, <3>1 DEF CallInv
    <3>3. kv'[sess[c]] = kv[sess[c]]
      BY <1>0, <2>1, <2>6, <3>2 DEF TypeOK
    <3> QED  BY <1>1, <3>1, <3>3
  <2> QED  BY <2>4, <2>5, <2>6
<1>5. ASSUME NEW s \in Sessions, Delete(s) PROVE c \in CallsIn(kv'[sess'[c]]) \/ Excused(c)'
  <2>1. pc' = pc /\ sess' = sess /\ kv' = [kv EXCEPT ![s] = <<>>]
    BY <1>5 DEF Delete, callVars
  <2>2. sess[c] \in Sessions
    BY <1>0, <2>1 DEF CallInv
  <2>3. CASE sess[c] = s
    <3>1. c \in deleted'
      BY <1>5, <2>1, <2>3 DEF Delete
    <3> QED  BY <3>1 DEF Excused
  <2>4. CASE sess[c] # s
    <3>1. kv'[sess[c]] = kv[sess[c]]
      BY <1>0, <2>1, <2>2, <2>4 DEF TypeOK
    <3> QED  BY <1>1, <2>1, <3>1
  <2> QED  BY <2>3, <2>4
<1> QED  BY <1>1, <1>2, <1>3, <1>4, <1>5 DEF Next

LEMMA StepBack == ASSUME IndInv, Next PROVE ComesBackFromCopy'
<1>0. TypeOK /\ TypeOK' /\ Frame /\ CopyInv /\ CallInv /\ ComesBackFromCopy
  BY StepTypes, StepFrame DEF IndInv
<1> SUFFICES ASSUME NEW c \in deleted', c \in CallsIn(kv'[sess'[c]])
             PROVE  BroughtBack(c)'
  BY DEF ComesBackFromCopy
<1>1. ASSUME c \in deleted, c \in CallsIn(kv[sess[c]]) PROVE BroughtBack(c)'
  <2>1. c \in Calls /\ pc[c] = "added" /\ BroughtBack(c)
    BY <1>0, <1>1 DEF CallInv, TypeOK, ComesBackFromCopy
  <2> QED  BY <1>0, <2>1, FrameBroughtBack
<1>2. ASSUME NEW d \in Calls, NEW s \in Sessions, Read(d, s) PROVE BroughtBack(c)'
  <2>1. c \in deleted /\ c \in Calls /\ kv' = kv
    BY <1>0, <1>2 DEF Read, TypeOK
  <2>2. sess'[c] = sess[c]
    BY <1>0, <2>1 DEF CallInv, Frame
  <2> QED  BY <1>1, <2>1, <2>2
<1>3. ASSUME NEW d \in Calls, WriteFails(d) PROVE BroughtBack(c)'
  BY <1>1, <1>3 DEF WriteFails
<1>4. ASSUME NEW d \in Calls, Write(d) PROVE BroughtBack(c)'
  <2> DEFINE m == [call |-> d, id |-> Len(copy[d])]
  <2>1. /\ pc[d] = "write" /\ pc'[d] = "added" /\ sess[d] \in Sessions
        /\ UNCHANGED <<sess, copy, deleted, spans>>
        /\ kv' = [kv EXCEPT ![sess[d]] = Append(copy[d], m)]
    BY <1>0, <1>4 DEF Write, TypeOK, CallInv
  <2>2. c \in Calls /\ pc[c] = "added" /\ sess[c] \in Sessions
    BY <1>0, <2>1 DEF CallInv, TypeOK
  <2>3. CASE sess[c] = sess[d]
    <3>1. CallsIn(kv'[sess[d]]) = CallsIn(copy[d]) \cup {d}
      BY <1>0, <2>1, NewMessage, AppendCalls DEF TypeOK
    <3>2. c # d /\ c \in CallsIn(copy[d]) \cap deleted
      BY <2>1, <2>2, <2>3, <3>1
    <3>3. d \in spans \/ BroughtBack(c)
      BY <1>0, <2>1, <3>2 DEF CopyInv
    <3>4. CASE d \in spans
      BY <2>1, <2>3, <3>2, <3>4 DEF BroughtBack
    <3>5. CASE BroughtBack(c)
      BY <1>0, <2>2, <3>5, FrameBroughtBack
    <3> QED  BY <3>3, <3>4, <3>5
  <2>4. CASE sess[c] # sess[d]
    <3>1. kv'[sess[c]] = kv[sess[c]]
      BY <1>0, <2>1, <2>2, <2>4 DEF TypeOK
    <3> QED  BY <1>1, <2>1, <3>1
  <2> QED  BY <2>3, <2>4
<1>5. ASSUME NEW s \in Sessions, Delete(s) PROVE BroughtBack(c)'
  <2>1. sess' = sess /\ pc' = pc /\ kv' = [kv EXCEPT ![s] = <<>>]
    BY <1>5 DEF Delete, callVars
  <2>2. c \in Calls /\ pc[c] = "added" /\ sess[c] \in Sessions
    BY <1>0, <1>5 DEF Delete, CallInv, TypeOK
  <2>3. sess[c] # s
    <3>1. CallsIn(<<>>) = {}
      BY DEF CallsIn
    <3>2. sess[c] = s => kv'[sess'[c]] = <<>>
      BY <1>0, <2>1, <2>2 DEF TypeOK
    <3> QED  BY <3>1, <3>2
  <2>4. kv'[sess[c]] = kv[sess[c]] /\ c \in deleted
    BY <1>0, <1>5, <2>1, <2>2, <2>3 DEF TypeOK, Delete
  <2> QED  BY <1>1, <2>1, <2>4
<1> QED  BY <1>2, <1>3, <1>4, <1>5 DEF Next

(* What CopyInv says of one call. *)
CopyOf(e) ==
  /\ IsHistory(copy[e], sess[e])
  /\ \A c \in Calls : pc[c] = "added" /\ sess[c] = sess[e] =>
       c \in CallsIn(copy[e]) \/ Excused(c) \/ Takes(e, c)
  /\ \A c \in CallsIn(copy[e]) \cap deleted : e \in spans \/ BroughtBack(c)

(* A step of another call, or a deletion, leaves a copy as good as it was. *)
LEMMA CopyStays ==
  ASSUME IndInv, TypeOK', Frame, NEW e \in Calls,
         pc[e] = "write", pc'[e] = "write",
         \A c \in Calls : pc[c] # "added" /\ pc'[c] = "added" => pc[c] = "write",
         \A c \in deleted' : c \in deleted \/ (pc[c] = "added" /\ (sess[c] = sess[e] => e \in spans'))
  PROVE  CopyOf(e)'
<1>0. TypeOK /\ CallInv /\ CopyOf(e) /\ copy[e] \in Seq(Messages)
  BY DEF IndInv, CopyInv, CopyOf, TypeOK
<1>1. sess'[e] = sess[e] /\ copy'[e] = copy[e] /\ prior'[e] = prior[e]
  BY DEF Frame
<1>2. IsHistory(copy[e], sess[e])'
  <2>1. HistoryNext(copy[e], sess[e])
    BY <1>0, FrameHistory DEF CopyOf
  <2> QED  BY <1>1, <2>1 DEF HistoryNext, IsHistory, Ordered
<1>3. ASSUME NEW c \in Calls, pc'[c] = "added", sess'[c] = sess'[e]
      PROVE  c \in CallsIn(copy'[e]) \/ Excused(c)' \/ Takes(e, c)'
  <2>1. CASE pc[c] = "added"
    <3>1. sess[c] = sess[e]
      BY <1>1, <1>3, <2>1 DEF Frame
    <3>2. c \in CallsIn(copy[e]) \/ Excused(c) \/ Takes(e, c)
      BY <1>0, <2>1, <3>1 DEF CopyOf
    <3>3. CASE Takes(e, c)
      <4>1. Takes(e, c)'
        BY <2>1, <3>3, FrameTakes
      <4> QED  BY <4>1
    <3>4. CASE Excused(c)
      <4>1. Excused(c)'
        BY <2>1, <3>4, FrameExcused
      <4> QED  BY <4>1
    <3> QED  BY <1>1, <3>2, <3>3, <3>4
  <2>2. CASE pc[c] # "added" /\ c # e
    <3>1. pc[c] = "write"
      BY <1>3, <2>2
    <3>2. c \notin Over /\ e \notin Over
      BY <3>1 DEF Over
    <3>3. c \notin prior[e] /\ e \notin prior[c]
      BY <1>0, <3>2 DEF CallInv
    <3>4. prior'[c] = prior[c]
      BY <3>1 DEF Frame
    <3>5. Takes(e, c)'
      BY <1>1, <1>3, <2>2, <3>3, <3>4 DEF Takes, Overlap
    <3> QED  BY <3>5
  <2>3. CASE c = e
    BY <1>3, <2>3
  <2> QED  BY <2>1, <2>2, <2>3
<1>4. ASSUME NEW c \in CallsIn(copy'[e]) \cap deleted' PROVE e \in spans' \/ BroughtBack(c)'
  <2>1. c \in Calls /\ c \in CallsIn(copy[e])
    BY <1>0, <1>1, HistoryCalls
  <2>2. sess[c] = sess[e] /\ pc[c] = "added"
    BY <1>0, <2>1 DEF CopyOf, IsHistory, CallsIn
  <2>3. CASE c \in deleted
    <3>1. e \in spans \/ BroughtBack(c)
      BY <1>0, <2>1, <2>3 DEF CopyOf
    <3>2. CASE e \in spans
      BY <3>2 DEF Frame
    <3>3. CASE BroughtBack(c)
      <4>1. BroughtBack(c)'
        BY <1>0, <2>1, <2>2, <3>3, FrameBroughtBack
      <4> QED  BY <4>1
    <3> QED  BY <3>1, <3>2, <3>3
  <2> QED  BY <2>2, <2>3
<1> QED  BY <1>2, <1>3, <1>4 DEF CopyOf

LEMMA StepCopies == ASSUME IndInv, Next PROVE CopyInv'
<1>0. TypeOK /\ TypeOK' /\ Frame /\ CallInv /\ KvInv /\ NothingLostAlone /\ ComesBackFromCopy
  BY StepTypes, StepFrame DEF IndInv, KvInv
<1> SUFFICES ASSUME NEW e \in Calls, pc'[e] = "write" PROVE CopyOf(e)'
  BY DEF CopyInv, CopyOf
<1>1. ASSUME NEW d \in Calls, NEW s \in Sessions, Read(d, s), d # e PROVE CopyOf(e)'
  <2>1. pc[e] = "write" /\ deleted' = deleted
    BY <1>0, <1>1 DEF Read, TypeOK
  <2>2. \A c \in Calls : pc[c] # "added" /\ pc'[c] = "added" => pc[c] = "write"
    BY <1>0, <1>1 DEF Read, TypeOK
  <2>3. \A c \in deleted' : c \in deleted \/ (pc[c] = "added" /\ (sess[c] = sess[e] => e \in spans'))
    BY <2>1
  <2> QED  BY <1>0, <2>1, <2>2, <2>3, CopyStays
<1>2. ASSUME NEW s \in Sessions, Read(e, s) PROVE CopyOf(e)'
  <2>a. copy'[e] = kv[s] \/ (copy'[e] = <<>> /\ e \in blind')
    BY <1>0, <1>2 DEF Read, TypeOK
  <2>b. pc[e] = "begin" /\ sess'[e] = s /\ prior'[e] = Over
    BY <1>0, <1>2 DEF Read, TypeOK
  <2>1. /\ pc[e] = "begin" /\ sess'[e] = s /\ prior'[e] = Over
        /\ UNCHANGED <<kv, deleted, spans>>
        /\ copy'[e] = kv[s] \/ (copy'[e] = <<>> /\ e \in blind')
    BY <1>2, <2>a, <2>b DEF Read
  <2>2. \A c \in Calls : c # e => pc'[c] = pc[c] /\ sess'[c] = sess[c] /\ pc'[e] # "added"
    BY <1>0, <1>2 DEF Read, TypeOK
  <2>3. IsHistory(copy[e], sess[e])'
    <3>1. kv[s] \in Seq(Messages) /\ HistoryNext(kv[s], s)
      BY <1>0, FrameHistory DEF KvInv, TypeOK
    <3>2. HistoryNext(<<>>, s)
      BY DEF HistoryNext, WellNumbered
    <3>3. HistoryNext(copy'[e], sess'[e])
      BY <2>1, <3>1, <3>2
    <3> QED  BY <3>3 DEF HistoryNext, IsHistory, Ordered
  <2>4. ASSUME NEW c \in Calls, pc'[c] = "added", sess'[c] = sess'[e]
        PROVE  c \in CallsIn(copy'[e]) \/ Excused(c)' \/ Takes(e, c)'
    <3>1. pc[c] = "added" /\ sess[c] = s
      BY <2>1, <2>2, <2>4
    <3>2. CASE copy'[e] = kv[s]
      <4>1. c \in CallsIn(kv[s]) \/ Excused(c)
        BY <1>0, <3>1 DEF NothingLostAlone
      <4>2. CASE Excused(c)
        <5>1. Excused(c)'
          BY <1>0, <3>1, <4>2, FrameExcused
        <5> QED  BY <5>1
      <4> QED  BY <3>2, <4>1, <4>2
    <3>3. CASE copy'[e] = <<>> /\ e \in blind'
      <4>1. c \in prior'[e]
        BY <2>1, <3>1 DEF Over
      <4>2. Takes(e, c)'
        BY <2>4, <3>3, <4>1 DEF Takes
      <4> QED  BY <4>2
    <3> QED  BY <2>1, <3>2, <3>3
  <2>5. ASSUME NEW c \in CallsIn(copy'[e]) \cap deleted' PROVE e \in spans' \/ BroughtBack(c)'
    <3>1. CallsIn(<<>>) = {}
      BY DEF CallsIn
    <3>2. c \in CallsIn(kv[s]) /\ c \in deleted /\ c \in Calls
      BY <1>0, <2>1, <3>1 DEF TypeOK
    <3>3. sess[c] = s /\ pc[c] = "added"
      BY <1>0, <3>2 DEF KvInv, IsHistory, CallsIn
    <3>4. BroughtBack(c)
      BY <1>0, <3>2, <3>3 DEF ComesBackFromCopy
    <3>5. BroughtBack(c)'
      BY <1>0, <3>2, <3>3, <3>4, FrameBroughtBack
    <3> QED  BY <3>5
  <2> QED  BY <2>3, <2>4, <2>5 DEF CopyOf
<1>3. ASSUME NEW d \in Calls, Write(d) \/ WriteFails(d) PROVE CopyOf(e)'
  <2>1. pc[d] = "write" /\ deleted' = deleted /\ pc'[d] # "write"
    BY <1>0, <1>3 DEF Write, WriteFails, TypeOK
  <2>2. \A c \in Calls : c # d => pc'[c] = pc[c]
    BY <1>0, <1>3 DEF Write, WriteFails, TypeOK
  <2>3. pc[e] = "write"
    BY <2>1, <2>2
  <2>4. \A c \in Calls : pc[c] # "added" /\ pc'[c] = "added" => pc[c] = "write"
    BY <2>1, <2>2
  <2>5. \A c \in deleted' : c \in deleted \/ (pc[c] = "added" /\ (sess[c] = sess[e] => e \in spans'))
    BY <2>1
  <2> QED  BY <1>0, <2>1, <2>3, <2>4, <2>5, CopyStays
<1>4. ASSUME NEW s \in Sessions, Delete(s) PROVE CopyOf(e)'
  <2>1. pc' = pc /\ sess' = sess
    BY <1>4 DEF Delete, callVars
  <2>2. \A c \in deleted' : c \in deleted \/ (pc[c] = "added" /\ sess[c] = s)
    <3>1. deleted' = deleted \cup {c \in Calls : sess[c] = s /\ pc[c] = "added"}
      BY <1>4 DEF Delete
    <3> QED  BY <3>1
  <2>3. sess[e] = s => e \in spans'
    <3>1. spans' = spans \cup {c \in Calls : sess[c] = s /\ pc[c] = "write"}
      BY <1>4 DEF Delete
    <3> QED  BY <2>1, <3>1
  <2> QED  BY <1>0, <2>1, <2>2, <2>3, CopyStays
<1> QED  BY <1>1, <1>2, <1>3, <1>4 DEF Next

LEMMA InitInvariant == Init => IndInv
<1> SUFFICES ASSUME Init PROVE IndInv
  OBVIOUS
<1>1. TypeOK
  BY InitTypes
<1>2. CallInv /\ CopyInv
  BY DEF Init, CallInv, CopyInv
<1>3. \A s \in Sessions : IsHistory(kv[s], s)
  <2>1. \A s \in Sessions : kv[s] = <<>>
    BY DEF Init
  <2>2. DOMAIN <<>> = {}
    OBVIOUS
  <2> QED  BY <2>1, <2>2 DEF IsHistory, WellNumbered, Ordered
<1>4. NothingLostAlone /\ ComesBackFromCopy
  BY DEF Init, NothingLostAlone, ComesBackFromCopy
<1> QED  BY <1>1, <1>2, <1>3, <1>4 DEF IndInv

LEMMA StepInvariant == IndInv /\ [Next]_vars => IndInv'
<1> SUFFICES ASSUME IndInv, [Next]_vars PROVE IndInv'
  OBVIOUS
<1>1. CASE Next
  <2>1. TypeOK' /\ CallInv'
    BY <1>1, StepTypes, StepCalls DEF IndInv
  <2>2. KvInv' /\ NothingLostAlone' /\ ComesBackFromCopy' /\ CopyInv'
    BY <1>1, StepHistories, StepKept, StepBack, StepCopies
  <2> QED  BY <2>1, <2>2 DEF IndInv, KvInv
<1>2. CASE UNCHANGED vars
  <2> USE <1>2 DEF vars, callVars
  <2>1. TypeOK'
    BY DEF IndInv, TypeOK
  <2>2. CallInv'
    BY DEF IndInv, CallInv, Over
  <2>3. CopyInv'
    BY DEF IndInv, CopyInv, IsHistory, Ordered, Excused, Takes, Overlap, BroughtBack
  <2>4. KvInv'
    BY DEF IndInv, KvInv, IsHistory, Ordered
  <2>5. NothingLostAlone'
    BY DEF IndInv, NothingLostAlone, Excused, Takes, Overlap
  <2>6. ComesBackFromCopy'
    BY DEF IndInv, ComesBackFromCopy, BroughtBack
  <2> QED  BY <2>1, <2>2, <2>3, <2>4, <2>5, <2>6 DEF IndInv, KvInv
<1> QED  BY <1>1, <1>2

-----------------------------------------------------------------------------
(* The inductive invariant, and with it the types, hold in every state: a   *)
(* stored history and every copy that AddMessage has read agree but for     *)
(* what happened since the read.                                            *)
THEOREM HistoriesInductive == Spec => []IndInv
<1> QED  BY InitInvariant, StepInvariant, PTL DEF Spec

(* Every variable keeps its type. *)
THEOREM HistoriesTypes == Spec => []TypeOK
<1>1. IndInv => TypeOK
  BY DEF IndInv
<1> QED  BY <1>1, HistoriesInductive, PTL

(* AddMessage without a lock loses messages of overlapping calls only, and  *)
(* those that a deletion or a failed read takes away.                       *)
THEOREM KeptUnlessOverlapped == Spec => []NothingLostAlone
<1>1. IndInv => NothingLostAlone
  BY DEF IndInv
<1> QED  BY <1>1, HistoriesInductive, PTL

(* The order of a history never contradicts the order of the calls. *)
THEOREM OrderIsKept == Spec => []RealTimeOrder
<1>1. IndInv => RealTimeOrder
  BY DEF IndInv, RealTimeOrder, IsHistory, Ordered
<1> QED  BY <1>1, HistoriesInductive, PTL

(* A history that StopSession deleted comes back only from the copy of a    *)
(* call of AddMessage that was under way.                                   *)
THEOREM DeletedComesFromCopy == Spec => []ComesBackFromCopy
<1>1. IndInv => ComesBackFromCopy
  BY DEF IndInv
<1> QED  BY <1>1, HistoriesInductive, PTL

(* The ids that AddMessage takes from the length of its copy are distinct   *)
(* in every history.                                                        *)
THEOREM IdsAreDistinct == Spec => []IdsAreIndices
<1>1. IndInv => IdsAreIndices
  BY DEF IndInv, IdsAreIndices, IsHistory
<1> QED  BY <1>1, HistoriesInductive, PTL

-----------------------------------------------------------------------------
(* The promise of the store, when calls do not disturb one another.        *)

(* A call writes back what is still there. *)
CopyIsCurrent == \A c \in Calls : pc[c] = "write" => copy[c] = kv[sess[c]]

LEMMA InitCurrent == Init => CopyIsCurrent
BY DEF Init, CopyIsCurrent

LEMMA StepCurrent ==
  ASSUME IndInv, CopyIsCurrent, Undisturbed, Undisturbed', Next PROVE CopyIsCurrent'
<1> SUFFICES ASSUME NEW d \in Calls, pc'[d] = "write" PROVE copy'[d] = kv'[sess'[d]]
  BY DEF CopyIsCurrent
<1> USE DEF IndInv, TypeOK, CallInv
<1>1. ASSUME NEW c \in Calls, NEW s \in Sessions, Read(c, s) PROVE copy'[d] = kv'[sess'[d]]
  <2>1. copy' = [copy EXCEPT ![c] = kv[s]]
    BY <1>1 DEF Read, Undisturbed
  <2> QED  BY <1>1, <2>1 DEF Read, CopyIsCurrent
<1>2. ASSUME NEW c \in Calls, Write(c) PROVE copy'[d] = kv'[sess'[d]]
  <2>1. d # c /\ pc[d] = "write" /\ copy'[d] = kv[sess[d]] /\ sess' = sess
    BY <1>2 DEF Write, CopyIsCurrent
  <2>2. sess[d] # sess[c]
    BY <1>2, <2>1 DEF Write, Undisturbed
  <2> QED  BY <1>2, <2>1, <2>2 DEF Write
<1>3. ASSUME NEW c \in Calls, WriteFails(c) PROVE copy'[d] = kv'[sess'[d]]
  BY <1>3 DEF WriteFails, CopyIsCurrent
<1>4. ASSUME NEW s \in Sessions, Delete(s) PROVE copy'[d] = kv'[sess'[d]]
  <2>1. sess[d] # s /\ pc[d] = "write" /\ UNCHANGED <<pc, sess, copy>>
    BY <1>4 DEF Delete, callVars, Undisturbed
  <2> QED  BY <1>4, <2>1 DEF Delete, CopyIsCurrent
<1> QED  BY <1>1, <1>2, <1>3, <1>4 DEF Next

LEMMA StepLogs ==
  ASSUME IndInv, CopyIsCurrent, [Next]_vars PROVE [Log!Next]_(Log!vars)
<1> USE DEF IndInv, TypeOK, CallInv
<1>1. CASE UNCHANGED <<kv, pc>>
  BY <1>1 DEF Log!vars, Added
<1>2. ASSUME NEW c \in Calls, (\E s \in Sessions : Read(c, s)) \/ WriteFails(c)
      PROVE  UNCHANGED Log!vars
  <2>1. kv' = kv /\ \E step \in {"write", "failed"} : pc' = [pc EXCEPT ![c] = step]
    BY <1>2 DEF Read, WriteFails
  <2>2. pc[c] # "added"
    BY <1>2 DEF Read, WriteFails
  <2>3. Added' = Added
    BY <2>1, <2>2 DEF Added
  <2> QED  BY <2>1, <2>3 DEF Log!vars
<1>3. ASSUME NEW c \in Calls, Write(c) PROVE Log!Add(c, sess[c]) /\ sess[c] \in Sessions
  <2>1. c \notin Added /\ Added' = Added \cup {c}
    BY <1>3 DEF Write, Added
  <2>2. copy[c] = kv[sess[c]] /\ sess[c] \in Sessions
    BY <1>3 DEF Write, CopyIsCurrent
  <2> QED  BY <1>3, <2>1, <2>2 DEF Write, Log!Add
<1>4. ASSUME NEW s \in Sessions, Delete(s) PROVE Log!Clear(s)
  BY <1>4 DEF Delete, callVars, Log!Clear, Added
<1> QED  BY <1>1, <1>2, <1>3, <1>4 DEF Next, vars, callVars, Log!Next

(* Where the calls of a session do not overlap with one another or with    *)
(* its deletion, and no read fails, AddMessage adds each message in one    *)
(* step, in place of reading, appending and writing back.                  *)
THEOREM SerialCallsImplementLog == Spec /\ []Undisturbed => ImplementsLog
<1>1. Init => Log!Init
  BY DEF Init, Log!Init, Added
<1>2. UNCHANGED vars /\ CopyIsCurrent => CopyIsCurrent'
  BY DEF vars, callVars, CopyIsCurrent
<1>3. IndInv /\ CopyIsCurrent /\ Undisturbed /\ Undisturbed' /\ [Next]_vars
        => CopyIsCurrent'
  BY <1>2, StepCurrent
<1>4. IndInv /\ CopyIsCurrent /\ [Next]_vars => [Log!Next]_(Log!vars)
  BY StepLogs
<1> QED
  BY <1>1, <1>3, <1>4, InitCurrent, HistoriesInductive, PTL
  DEF Spec, ImplementsLog, Log!Spec
=============================================================================
