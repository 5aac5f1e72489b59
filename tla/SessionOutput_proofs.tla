------------------------ MODULE SessionOutput_proofs ------------------------
(***************************************************************************)
(* Proofs about the output of a session: IndInv is inductive, and the      *)
(* channel is a transcript of what the CLI wrote.                          *)
(***************************************************************************)
EXTENDS SessionOutput, TLAPS

USE OutputAssumption DEF cliVars, embeddedVars, subVars, bridgeVars

-----------------------------------------------------------------------------
(* Sequences and their elements. *)

LEMMA AppendElements ==
  ASSUME NEW S, NEW s \in Seq(S), NEW e \in S
  PROVE  Elements(Append(s, e)) = Elements(s) \cup {e}
<1>1. DOMAIN Append(s, e) = 1..Len(s) + 1 /\ DOMAIN s = 1..Len(s) /\ Len(s) \in Nat
  OBVIOUS
<1>2. \A i \in 1..Len(s) : Append(s, e)[i] = s[i]
  OBVIOUS
<1>3. Append(s, e)[Len(s) + 1] = e
  OBVIOUS
<1> QED BY <1>1, <1>2, <1>3 DEF Elements

LEMMA TailElements ==
  ASSUME NEW S, NEW s \in Seq(S), s # <<>>
  PROVE  Elements(s) = {Head(s)} \cup Elements(Tail(s)) /\ Head(s) \in S
<1>1. DOMAIN s = 1..Len(s) /\ Len(s) \in Nat \ {0} /\ Head(s) = s[1]
  OBVIOUS
<1>2. DOMAIN Tail(s) = 1..Len(s) - 1 /\ \A i \in 1..Len(s) - 1 : Tail(s)[i] = s[i+1]
  OBVIOUS
<1>3. \A i \in 2..Len(s) : i - 1 \in 1..Len(s) - 1 /\ s[i] = Tail(s)[i-1]
  BY <1>1, <1>2
<1>4. Elements(Tail(s)) \subseteq Elements(s) /\ Head(s) \in Elements(s)
  BY <1>1, <1>2 DEF Elements
<1>5. Elements(s) \subseteq {Head(s)} \cup Elements(Tail(s))
  <2> SUFFICES ASSUME NEW i \in 1..Len(s)
               PROVE  s[i] \in {Head(s)} \cup Elements(Tail(s))
    BY <1>1 DEF Elements
  <2>1. CASE i = 1
    BY <2>1, <1>1
  <2>2. CASE i # 1
    <3>1. i - 1 \in DOMAIN Tail(s) /\ s[i] = Tail(s)[i-1]
      BY <2>2, <1>1, <1>2, <1>3
    <3> QED BY <3>1 DEF Elements
  <2> QED BY <2>1, <2>2
<1> QED BY <1>1, <1>4, <1>5

-----------------------------------------------------------------------------
LEMMA InitInv == Init => IndInv
<1> SUFFICES ASSUME Init PROVE IndInv
  OBVIOUS
<1>1. TypeOK
  <2>1. <<>> \in Seq(Kinds) /\ <<>> \in Seq(Entries)
    OBVIOUS
  <2> QED BY <2>1 DEF Init, TypeOK
<1>2. CountInv /\ PostsInv /\ WireInv /\ ModeInv
  BY DEF Init, CountInv, PostsInv, WireInv, ModeInv
<1>3. Accounted /\ NoGaps
  BY DEF Init, Accounted, NoGaps
<1>4. ExitInv
  BY DEF Init, ExitInv, StoppedIsLast, Elements
<1> QED BY <1>1, <1>2, <1>3, <1>4 DEF IndInv

(* What a post changes. *)
LEMMA PostType ==
  ASSUME TypeOK, NEW e \in Entries, Post(e)
  PROVE  /\ posts' \in Seq(Entries) /\ refused' \subseteq Entries
         /\ Elements(posts) \cup refused \cup {e} = Elements(posts') \cup refused'
         /\ Elements(posts') \subseteq Elements(posts) \cup {e}
         /\ \/ posts' = posts
            \/ /\ posts' = Append(posts, e)
               /\ DOMAIN posts' = 1..Len(posts) + 1 /\ DOMAIN posts = 1..Len(posts)
               /\ Len(posts) \in Nat /\ Len(posts') = Len(posts) + 1
               /\ posts'[Len(posts) + 1] = e
               /\ \A i \in DOMAIN posts : posts'[i] = posts[i]
<1>0. posts \in Seq(Entries) /\ refused \subseteq Entries
  BY DEF TypeOK
<1>1. CASE posts' = Append(posts, e) /\ UNCHANGED refused
  <2>1. Elements(posts') = Elements(posts) \cup {e}
    BY <1>0, <1>1, AppendElements
  <2> QED BY <2>1, <1>0, <1>1
<1>2. CASE refused' = refused \cup {e} /\ UNCHANGED posts
  BY <1>0, <1>2
<1> QED BY <1>1, <1>2 DEF Post

-----------------------------------------------------------------------------
(* The process. *)

LEMMA WriteKeeps ==
  ASSUME NEW st \in Streams, NEW k \in Kinds, IndInv, Write(st, k)
  PROVE  IndInv'
<1>0. /\ lines \in [Streams -> Seq(Kinds)] /\ lines' = [lines EXCEPT ![st] = Append(@, k)]
      /\ taken \in [Streams -> Nat] /\ handled \in [Streams -> Nat]
      /\ UNCHANGED <<bridged, taken, posts, refused, embeddedVars, bridgeVars>>
  BY DEF IndInv, TypeOK, Write
<1>1. lines' \in [Streams -> Seq(Kinds)]
  BY <1>0
<1>2. \A r \in Streams :
        /\ Len(lines[r]) \in Nat /\ Len(lines'[r]) \in Nat
        /\ Len(lines[r]) <= Len(lines'[r])
        /\ \A n \in 1..Len(lines[r]) : lines'[r][n] = lines[r][n]
  <2> TAKE r \in Streams
  <2>1. CASE r = st
    BY <2>1, <1>0
  <2>2. CASE r # st
    BY <2>2, <1>0
  <2> QED BY <2>1, <2>2
<1>3. \A r \in Streams : \A n \in 1..Len(lines[r]) :
        n \in 1..Len(lines'[r]) /\ (IsShown(r, n) <=> IsShown(r, n)')
  BY <1>2 DEF IsShown
<1>4. Elements(posts)' = Elements(posts) /\ Elements(wire)' = Elements(wire) /\ Settled' = Settled
  BY <1>0 DEF Elements, Settled
<1>5. TypeOK'
  BY <1>0, <1>1 DEF IndInv, TypeOK, Write
<1>6. CountInv /\ CountInv'
  <2>1. CountInv
    BY DEF IndInv
  <2> QED BY <2>1, <1>0, <1>2 DEF CountInv
<1>7. PostsInv' /\ WireInv' /\ ModeInv'
  BY <1>0 DEF IndInv, PostsInv, WireInv, ModeInv, Done
<1>8. Accounted'
  <2> SUFFICES ASSUME NEW r \in Streams, NEW n \in 1..Len(lines'[r])
               PROVE  IF bridged
                      THEN n <= taken[r] => <<r, n>> \in Settled \cup Elements(wire)
                      ELSE n <= handled[r] => ~IsShown(r, n)' \/ <<r, n>> \in Settled
    BY <1>0, <1>4 DEF Accounted
  <2>1. n <= taken[r] \/ n <= handled[r] => n \in 1..Len(lines[r])
    BY <1>0, <1>2, <1>6 DEF CountInv
  <2>2. Accounted
    BY DEF IndInv
  <2> QED BY <2>1, <2>2, <1>3 DEF Accounted
<1>9. NoGaps'
  <2> SUFFICES ASSUME NEW r \in Streams, NEW n \in 1..Len(lines'[r]),
                      <<r, n>> \in Elements(posts), NEW m \in 1..n-1, IsShown(r, m)'
               PROVE  <<r, m>> \in Settled
    BY <1>4 DEF NoGaps
  <2>1. PICK i \in DOMAIN posts : posts[i] = <<r, n>>
    BY DEF Elements
  <2>2. n <= Done(r)
    BY <2>1 DEF IndInv, PostsInv
  <2>3. n \in 1..Len(lines[r]) /\ m \in 1..Len(lines[r])
    BY <2>2, <1>0, <1>2, <1>6 DEF CountInv, Done
  <2> QED BY <2>3, <1>3 DEF IndInv, NoGaps
<1>10. ExitInv'
  BY <1>0, <1>4 DEF IndInv, ExitInv, StoppedIsLast
<1> QED BY <1>5, <1>6, <1>7, <1>8, <1>9, <1>10 DEF IndInv

LEMMA CliExitKeeps == IndInv /\ CliExit => IndInv'
<1> SUFFICES ASSUME IndInv, CliExit PROVE IndInv'
  OBVIOUS
<1> USE DEF IndInv, CliExit
<1>1. TypeOK'
  BY DEF TypeOK
<1>2. CountInv' /\ PostsInv' /\ WireInv' /\ ModeInv' /\ Accounted' /\ NoGaps'
  BY DEF CountInv, PostsInv, WireInv, ModeInv, Done, Accounted, NoGaps, Elements, Settled, IsShown
<1>3. ExitInv'
  BY DEF ExitInv, StoppedIsLast, Elements
<1> QED BY <1>1, <1>2, <1>3

-----------------------------------------------------------------------------
(* Steps that change neither what was posted nor what was sent. *)

LEMMA QuietKeeps ==
  ASSUME IndInv, TypeOK', UNCHANGED <<bridged, lines, taken, posts, refused, handled, wire,
                                      exitSeen, unheard>>,
         ModeInv', revived => revived',
         bridged /\ Exit \in Elements(posts) => sub' = "ended" \/ revived'
  PROVE  IndInv'
<1> USE DEF IndInv
<1>1. CountInv' /\ PostsInv' /\ WireInv' /\ Accounted' /\ NoGaps'
  BY DEF CountInv, PostsInv, WireInv, Done, Accounted, NoGaps, Elements, Settled, IsShown
<1>2. ExitInv'
  BY DEF ExitInv, StoppedIsLast, Elements
<1> QED BY <1>1, <1>2

LEMMA WaitReturnsKeeps == IndInv /\ WaitReturns => IndInv'
<1> SUFFICES ASSUME IndInv, WaitReturns PROVE IndInv'
  OBVIOUS
<1>1. TypeOK'
  BY DEF IndInv, TypeOK, WaitReturns
<1>2. ModeInv' /\ (revived => revived')
  BY DEF IndInv, ModeInv, WaitReturns
<1>3. bridged /\ Exit \in Elements(posts) => sub' = "ended" \/ revived'
  BY DEF IndInv, ExitInv, WaitReturns
<1> QED BY <1>1, <1>2, <1>3, QuietKeeps DEF WaitReturns

LEMMA TurnsAwayKeeps == IndInv /\ BridgeTurnsAway => IndInv'
<1> SUFFICES ASSUME IndInv, BridgeTurnsAway PROVE IndInv'
  OBVIOUS
<1>1. TypeOK'
  BY DEF IndInv, TypeOK, BridgeTurnsAway
<1>2. ModeInv' /\ (revived => revived')
  BY DEF IndInv, ModeInv, BridgeTurnsAway
<1>3. bridged /\ Exit \in Elements(posts) => sub' = "ended" \/ revived'
  BY DEF IndInv, ExitInv, BridgeTurnsAway
<1> QED BY <1>1, <1>2, <1>3, QuietKeeps DEF BridgeTurnsAway

LEMMA AddType ==
  ASSUME TypeOK, AddSubscription, revived' \in BOOLEAN, renewal' \in {"none", "copy", "renew"}
  PROVE  TypeOK'
<1>1. asked \in Nat
  BY DEF TypeOK
<1>2. asked' \in Nat /\ sub' = "yes"
  BY <1>1 DEF AddSubscription
<1>3. /\ UNCHANGED <<cliVars, taken, posts, refused, embeddedVars, link, breaks, served, wire, exitSeen,
                    unheard>>
  BY DEF AddSubscription
<1> QED BY <1>2, <1>3 DEF TypeOK

LEMMA SubscribeKeeps == IndInv /\ Subscribe => IndInv'
<1> SUFFICES ASSUME IndInv, Subscribe PROVE IndInv'
  OBVIOUS
<1>1. TypeOK'
  <2>1. TypeOK /\ AddSubscription /\ revived' = revived /\ renewal' = renewal
    BY DEF IndInv, Subscribe
  <2>2. revived' \in BOOLEAN /\ renewal' \in {"none", "copy", "renew"}
    BY <2>1 DEF TypeOK
  <2> QED BY <2>1, <2>2, AddType
<1>2. ModeInv' /\ (revived => revived')
  BY DEF IndInv, ModeInv, Subscribe, AddSubscription
<1>3. bridged /\ Exit \in Elements(posts) => sub' = "ended" \/ revived'
  BY DEF IndInv, ExitInv, Subscribe, AddSubscription
<1> QED BY <1>1, <1>2, <1>3, QuietKeeps DEF Subscribe, AddSubscription

LEMMA StopUnsubscribesKeeps == IndInv /\ StopUnsubscribes => IndInv'
<1> SUFFICES ASSUME IndInv, StopUnsubscribes PROVE IndInv'
  OBVIOUS
<1>1. TypeOK'
  BY DEF IndInv, TypeOK, StopUnsubscribes
<1>2. ModeInv' /\ (revived => revived')
  BY DEF IndInv, ModeInv, StopUnsubscribes
<1>3. bridged /\ Exit \in Elements(posts) => sub' = "ended" \/ revived'
  BY DEF IndInv, ExitInv, StopUnsubscribes
<1> QED BY <1>1, <1>2, <1>3, QuietKeeps DEF StopUnsubscribes

LEMMA ReconnectKeeps == IndInv /\ Reconnect => IndInv'
<1> SUFFICES ASSUME IndInv, Reconnect PROVE IndInv'
  OBVIOUS
<1>1. TypeOK'
  BY DEF IndInv, TypeOK, Reconnect
<1>2. ModeInv' /\ (revived => revived')
  BY DEF IndInv, ModeInv, Reconnect
<1>3. bridged /\ Exit \in Elements(posts) => sub' = "ended" \/ revived'
  BY DEF IndInv, ExitInv, Reconnect
<1> QED BY <1>1, <1>2, <1>3, QuietKeeps DEF Reconnect

LEMMA CopyKeeps == IndInv /\ Copy => IndInv'
<1> SUFFICES ASSUME IndInv, Copy PROVE IndInv'
  OBVIOUS
<1>1. TypeOK'
  BY DEF IndInv, TypeOK, Copy
<1>2. ModeInv' /\ (revived => revived')
  BY DEF IndInv, ModeInv, Copy
<1>3. bridged /\ Exit \in Elements(posts) => sub' = "ended" \/ revived'
  BY DEF IndInv, ExitInv, Copy
<1> QED BY <1>1, <1>2, <1>3, QuietKeeps DEF Copy

LEMMA RenewKeeps == IndInv /\ Renew => IndInv'
<1> SUFFICES ASSUME IndInv, Renew PROVE IndInv'
  OBVIOUS
<1>1. TypeOK'
  <2>1. TypeOK /\ AddSubscription /\ renewal' = "none" /\ revived' \in BOOLEAN
    BY DEF IndInv, TypeOK, Renew
  <2> QED BY <2>1, AddType
<1>2. ModeInv' /\ (revived => revived')
  BY DEF IndInv, ModeInv, Renew, AddSubscription
<1>3. bridged /\ Exit \in Elements(posts) => sub' = "ended" \/ revived'
  BY DEF IndInv, ExitInv, Renew, AddSubscription, Elements
<1> QED BY <1>1, <1>2, <1>3, QuietKeeps DEF Renew, AddSubscription

-----------------------------------------------------------------------------
(* Embedded mode. *)

LEMMA ReadPipeKeeps ==
  ASSUME NEW st \in Streams, IndInv, ReadPipe(st)
  PROVE  IndInv'
<1> USE DEF IndInv, ReadPipe, Scanning
<1>1. PICK n \in taken[st] + 1 .. Len(lines[st]) : taken' = [taken EXCEPT ![st] = n]
  OBVIOUS
<1>2. /\ taken \in [Streams -> Nat] /\ handled \in [Streams -> Nat]
      /\ \A r \in Streams : Len(lines[r]) \in Nat
      /\ taken' \in [Streams -> Nat]
  <2>1. lines \in [Streams -> Seq(Kinds)] /\ taken \in [Streams -> Nat]
        /\ handled \in [Streams -> Nat]
    BY DEF TypeOK
  <2>2. \A r \in Streams : Len(lines[r]) \in Nat
    BY <2>1
  <2>3. n \in Nat
    BY <2>1, <2>2
  <2> QED BY <2>1, <2>2, <2>3, <1>1
<1>3. TypeOK'
  BY <1>2 DEF TypeOK
<1>4. CountInv'
  BY <1>1, <1>2 DEF CountInv
<1>5. PostsInv' /\ WireInv' /\ ModeInv'
  BY DEF PostsInv, WireInv, Done, ModeInv
<1>6. Accounted' /\ NoGaps'
  <2>1. ~bridged /\ Settled' = Settled /\ UNCHANGED <<bridged, lines, handled>>
        /\ Elements(posts)' = Elements(posts)
    BY DEF Settled, Elements
  <2>2. Accounted /\ NoGaps
    OBVIOUS
  <2>3. Accounted'
    <3> HIDE DEF IndInv, ReadPipe, Scanning
    <3> SUFFICES ASSUME NEW r \in Streams, NEW m \in 1..Len(lines[r]), m <= handled[r]
                 PROVE  ~IsShown(r, m) \/ <<r, m>> \in Settled
      BY <2>1 DEF Accounted, IsShown
    <3> QED BY <2>1, <2>2 DEF Accounted
  <2>4. NoGaps'
    BY <2>1, <2>2 DEF NoGaps, IsShown
  <2> QED BY <2>3, <2>4
<1>7. ExitInv'
  BY DEF ExitInv
<1> QED BY <1>3, <1>4, <1>5, <1>6, <1>7

(* What is settled stays so. *)
LEMMA SettledGrows ==
  ASSUME TypeOK, NEW e \in Entries, Post(e), unheard \subseteq unheard'
  PROVE  Settled \cup {e} \subseteq Settled'
BY PostType DEF Settled

LEMMA HandleLineKeeps ==
  ASSUME NEW st \in Streams, IndInv, HandleLine(st)
  PROVE  IndInv'
<1> DEFINE n == handled[st] + 1
<1>1. /\ TypeOK /\ ~bridged /\ bridged' = bridged /\ n <= taken[st]
      /\ taken \in [Streams -> Nat] /\ handled \in [Streams -> Nat] /\ n \in Nat \ {0}
      /\ \A r \in Streams : Len(lines[r]) \in Nat
      /\ handled' = [handled EXCEPT ![st] = n]
      /\ wire = <<>> /\ sub = "never" /\ asked = 0 /\ ~served /\ renewal = "none"
      /\ UNCHANGED <<lines, taken, waiter, unheard, wire, subVars, exitSeen>>
  <2>1. /\ TypeOK /\ ModeInv /\ taken \in [Streams -> Nat] /\ handled \in [Streams -> Nat]
        /\ lines \in [Streams -> Seq(Kinds)]
    BY DEF IndInv, TypeOK
  <2>2. \A r \in Streams : Len(lines[r]) \in Nat
    BY <2>1
  <2>3. /\ ~bridged /\ bridged' = bridged /\ handled[st] < taken[st]
        /\ handled' = [handled EXCEPT ![st] = n]
        /\ UNCHANGED <<lines, taken, waiter, unheard, wire, subVars, exitSeen>>
    BY DEF HandleLine, Scanning
  <2>4. n <= taken[st] /\ n \in Nat \ {0}
    BY <2>1, <2>3
  <2> QED BY <2>1, <2>2, <2>3, <2>4 DEF ModeInv
<1>2. <<st, n>> \in Entries
  BY <1>1 DEF Entries, Units
<1>3. /\ \/ lines[st][n] = "shown" /\ Post(<<st, n>>)
         \/ lines[st][n] # "shown" /\ UNCHANGED <<posts, refused>>
      /\ reader' \in [Streams -> {"reading", "gave up"}]
  BY DEF HandleLine, IndInv, TypeOK
<1>4. /\ posts' \in Seq(Entries) /\ refused' \subseteq Entries
      /\ Settled \subseteq Settled'
      /\ Elements(posts') \subseteq Elements(posts) \cup {<<st, n>>}
      /\ lines[st][n] = "shown" => <<st, n>> \in Settled'
  <2>1. CASE Post(<<st, n>>)
    BY <2>1, <1>1, <1>2, PostType, SettledGrows
  <2>2. CASE lines[st][n] # "shown" /\ UNCHANGED <<posts, refused>>
    BY <2>2, <1>1 DEF TypeOK, Settled, Elements
  <2> QED BY <2>1, <2>2, <1>3
<1>5. TypeOK'
  BY <1>1, <1>3, <1>4 DEF TypeOK, HandleLine
<1>6. CountInv'
  BY <1>1 DEF IndInv, CountInv
<1>7. Accounted'
  <2> SUFFICES ASSUME NEW r \in Streams, NEW m \in 1..Len(lines[r]), m <= handled'[r]
               PROVE  ~IsShown(r, m) \/ <<r, m>> \in Settled'
    BY <1>1 DEF Accounted, IsShown
  <2>1. CASE m <= handled[r]
    BY <2>1, <1>1, <1>4 DEF IndInv, Accounted
  <2>2. CASE r = st /\ m = n
    BY <2>2, <1>4 DEF IsShown
  <2> QED BY <2>1, <2>2, <1>1
<1>8. NoGaps'
  <2> SUFFICES ASSUME NEW r \in Streams, NEW k \in 1..Len(lines[r]),
                      <<r, k>> \in Elements(posts'), NEW m \in 1..k-1, IsShown(r, m)
               PROVE  <<r, m>> \in Settled'
    BY <1>1 DEF NoGaps, IsShown
  <2>1. CASE <<r, k>> \in Elements(posts)
    BY <2>1, <1>4 DEF IndInv, NoGaps
  <2>2. CASE r = st /\ k = n
    <3>1. m <= handled[r] /\ m \in 1..Len(lines[r])
      BY <2>2, <1>1
    <3> QED BY <3>1, <1>1, <1>4 DEF IndInv, Accounted
  <2> QED BY <2>1, <2>2, <1>4
<1>9. PostsInv'
  <2> SUFFICES ASSUME NEW r \in Streams, NEW i \in DOMAIN posts', posts'[i][1] = r
               PROVE  posts'[i][2] <= handled'[r]
    BY <1>1 DEF PostsInv, Done
  <2>1. posts'[i] \in Elements(posts) \cup {<<st, n>>}
    BY <1>4 DEF Elements
  <2>2. CASE posts'[i] = <<st, n>>
    BY <2>2, <1>1
  <2>3. CASE posts'[i] \in Elements(posts)
    <3>1. PICK j \in DOMAIN posts : posts[j] = posts'[i]
      BY <2>3 DEF Elements
    <3>2. posts[j][2] <= handled[r]
      BY <3>1, <1>1 DEF IndInv, PostsInv, Done
    <3>3. posts[j][2] \in Nat
      <4>1. posts \in Seq(Entries)
        BY <1>1 DEF TypeOK
      <4>2. posts[j] \in Entries
        BY <4>1
      <4> QED BY <4>2 DEF Entries, Units, Exit, Subscribed
    <3> QED BY <3>1, <3>2, <3>3, <1>1
  <2> QED BY <2>1, <2>2, <2>3
<1>10. WireInv' /\ ModeInv' /\ ExitInv'
  BY <1>1 DEF IndInv, WireInv, ModeInv, ExitInv
<1> QED BY <1>5, <1>6, <1>7, <1>8, <1>9, <1>10 DEF IndInv

(* The numbers in the posts and on the connection. *)
LEMMA EntryNumbers ==
  ASSUME TypeOK
  PROVE  /\ \A i \in DOMAIN posts : posts[i] \in Entries
         /\ \A i \in DOMAIN wire : wire[i] \in Entries
         /\ \A e \in Entries : e[2] \in Nat /\ (e[1] \in Streams => e = <<e[1], e[2]>>)
         /\ Exit[1] \notin Streams /\ Subscribed[1] \notin Streams /\ Exit # Subscribed
<1>1. posts \in Seq(Entries) /\ wire \in Seq(Entries)
  BY DEF TypeOK
<1>2. \A i \in DOMAIN posts : posts[i] \in Entries
  BY <1>1
<1>3. \A i \in DOMAIN wire : wire[i] \in Entries
  BY <1>1
<1> QED BY <1>2, <1>3 DEF Entries, Units, Exit, Subscribed, Streams

(* A notice is a post, but none of the output. *)
LEMMA NoticeKeeps ==
  ASSUME IndInv, TypeOK', NEW e \in Entries, e[1] \notin Streams, Post(e),
         UNCHANGED <<bridged, lines, taken, handled, wire, unheard>>,
         ModeInv', ExitInv'
  PROVE  IndInv'
<1> USE DEF IndInv
<1>1. /\ \A st \in Streams : \A i \in DOMAIN posts' : posts'[i][1] = st =>
            i \in DOMAIN posts /\ posts'[i] = posts[i]
      /\ Settled \subseteq Settled'
      /\ Elements(posts') \subseteq Elements(posts) \cup {e}
  BY PostType, SettledGrows
<1>2. CountInv' /\ PostsInv' /\ WireInv'
  BY <1>1 DEF CountInv, PostsInv, WireInv, Done
<1>3. Accounted'
  <2>1. Elements(wire') = Elements(wire)
    BY DEF Elements
  <2> QED BY <2>1, <1>1 DEF Accounted, IsShown
<1>4. NoGaps'
  <2>1. \A st \in Streams, n \in Nat : <<st, n>> \in Elements(posts') => <<st, n>> \in Elements(posts)
    BY <1>1
  <2>2. \A st \in Streams : 1..Len(lines[st]) \subseteq Nat
    OBVIOUS
  <2> QED BY <2>1, <2>2, <1>1 DEF NoGaps, IsShown
<1> QED BY <1>2, <1>3, <1>4

LEMMA HandleExitKeeps == IndInv /\ HandleExit => IndInv'
<1> SUFFICES ASSUME IndInv, HandleExit PROVE IndInv'
  OBVIOUS
<1>1. TypeOK /\ Exit \in Entries
  BY DEF IndInv, Entries
<1>2. posts' \in Seq(Entries) /\ refused' \subseteq Entries
  BY <1>1, PostType DEF HandleExit
<1>3. TypeOK'
  BY <1>1, <1>2 DEF TypeOK, HandleExit
<1>4. ~bridged /\ ModeInv' /\ ExitInv'
  BY DEF IndInv, ModeInv, HandleExit, ExitInv
<1> QED BY <1>1, <1>3, <1>4, NoticeKeeps, EntryNumbers DEF HandleExit

-----------------------------------------------------------------------------
(* Bridge mode: what the bridge sends. *)

LEMMA BroadcastType ==
  ASSUME TypeOK, NEW e \in Entries, Send(e) \/ Broadcast(e)
  PROVE  /\ wire' \in Seq(Entries) /\ unheard' \subseteq Entries /\ unheard \subseteq unheard'
         /\ unheard \cup Elements(wire) \cup {e} = unheard' \cup Elements(wire')
         /\ Elements(wire') \subseteq Elements(wire) \cup {e}
         /\ \/ wire' = wire
            \/ /\ wire' = Append(wire, e)
               /\ DOMAIN wire' = 1..Len(wire) + 1 /\ DOMAIN wire = 1..Len(wire)
               /\ Len(wire) \in Nat
               /\ wire'[Len(wire) + 1] = e
               /\ \A i \in DOMAIN wire : wire'[i] = wire[i]
<1>0. wire \in Seq(Entries) /\ unheard \subseteq Entries
  BY DEF TypeOK
<1>1. CASE wire' = Append(wire, e) /\ UNCHANGED unheard
  <2>1. Elements(wire') = Elements(wire) \cup {e}
    BY <1>0, <1>1, AppendElements
  <2> QED BY <2>1, <1>0, <1>1
<1>2. CASE unheard' = unheard \cup {e} /\ UNCHANGED wire
  BY <1>0, <1>2
<1> QED BY <1>1, <1>2 DEF Broadcast, Send

(* A message that is no output. *)
LEMMA ExitSentOnce ==
  ASSUME TypeOK, NEW e \in Entries, Send(e) \/ Broadcast(e),
         e = Exit => Exit \notin Elements(wire),
         \A i, j \in DOMAIN wire : wire[i] = Exit /\ wire[j] = Exit => i = j
  PROVE  \A i, j \in DOMAIN wire' : wire'[i] = Exit /\ wire'[j] = Exit => i = j
<1>1. CASE wire' = wire
  BY <1>1
<1>2. CASE /\ DOMAIN wire' = 1..Len(wire) + 1 /\ DOMAIN wire = 1..Len(wire) /\ Len(wire) \in Nat
           /\ wire'[Len(wire) + 1] = e
           /\ \A i \in DOMAIN wire : wire'[i] = wire[i]
  <2>1. \A i \in DOMAIN wire' : i \in DOMAIN wire \/ i = Len(wire) + 1
    BY <1>2
  <2>2. e = Exit => \A i \in DOMAIN wire : wire'[i] # Exit
    BY <1>2 DEF Elements
  <2> QED BY <2>1, <2>2, <1>2
<1> QED BY <1>1, <1>2, BroadcastType

LEMMA SentNoticeKeeps ==
  ASSUME IndInv, TypeOK', bridged, NEW e \in Entries, e[1] \notin Streams,
         Send(e) \/ Broadcast(e),
         UNCHANGED <<bridged, lines, taken, handled, posts, refused, waiter, sub, revived>>,
         exitSeen \/ e = Exit => exitSeen', e = Exit => ~exitSeen
  PROVE  IndInv'
<1> USE DEF IndInv
<1>1. /\ Settled \subseteq Settled'
      /\ Settled \cup Elements(wire) \subseteq Settled' \cup Elements(wire')
      /\ Elements(posts') = Elements(posts)
  BY BroadcastType DEF Settled, Elements
<1>2. \A st \in Streams : \A i \in DOMAIN wire' : wire'[i][1] = st =>
        i \in DOMAIN wire /\ wire'[i] = wire[i]
        /\ \A j \in 1..i-1 : wire'[j][1] = st => j \in DOMAIN wire /\ wire'[j] = wire[j]
  <2>1. wire \in Seq(Entries)
    BY DEF TypeOK
  <2>2. DOMAIN wire = 1..Len(wire) /\ Len(wire) \in Nat
    BY <2>1
  <2>3. CASE wire' = wire
    BY <2>2, <2>3
  <2>4. CASE /\ DOMAIN wire' = 1..Len(wire) + 1
             /\ wire'[Len(wire) + 1] = e
             /\ \A i \in DOMAIN wire : wire'[i] = wire[i]
    BY <2>2, <2>4
  <2> QED BY <2>3, <2>4, BroadcastType
<1>3. CountInv' /\ PostsInv' /\ ModeInv'
  BY DEF CountInv, PostsInv, ModeInv, Done
<1>4. WireInv'
  BY <1>2 DEF WireInv
<1>5. Accounted' /\ NoGaps'
  BY <1>1 DEF Accounted, NoGaps, IsShown
<1>6. ExitInv'
  <2>1. Elements(wire') \subseteq Elements(wire) \cup {e}
    BY BroadcastType
  <2>2. e = Exit => Exit \notin Elements(posts) \cup Elements(wire)
    BY DEF ExitInv
  <2>3. \A i, j \in DOMAIN wire' : wire'[i] = Exit /\ wire'[j] = Exit => i = j
    BY <2>2, ExitSentOnce DEF ExitInv
  <2> QED BY <1>1, <2>1, <2>2, <2>3 DEF ExitInv, StoppedIsLast
<1> QED BY <1>3, <1>4, <1>5, <1>6

LEMMA ExitEventKeeps == IndInv /\ ExitEvent => IndInv'
<1> SUFFICES ASSUME IndInv, ExitEvent PROVE IndInv'
  OBVIOUS
<1>1. TypeOK /\ Exit \in Entries
  BY DEF IndInv, Entries
<1>2. wire' \in Seq(Entries) /\ unheard' \subseteq Entries
  BY <1>1, BroadcastType DEF ExitEvent
<1>3. TypeOK'
  BY <1>1, <1>2 DEF TypeOK, ExitEvent
<1> QED BY <1>1, <1>3, SentNoticeKeeps, EntryNumbers DEF ExitEvent

LEMMA DataEventKeeps ==
  ASSUME NEW st \in Streams, IndInv, DataEvent(st)
  PROVE  IndInv'
<1> DEFINE n == taken[st] + 1
<1>1. /\ TypeOK /\ CountInv /\ bridged /\ bridged' = bridged /\ Broadcast(<<st, n>>)
      /\ taken \in [Streams -> Nat] /\ taken[st] < Len(lines[st])
      /\ taken' = [taken EXCEPT ![st] = n]
      /\ UNCHANGED <<lines, posts, refused, handled, waiter, subVars, exitSeen>>
  BY DEF IndInv, TypeOK, DataEvent
<1>2. n \in Nat \ {0} /\ taken' \in [Streams -> Nat] /\ <<st, n>> \in Entries
  BY <1>1 DEF Entries, Units
<1>3. /\ wire' \in Seq(Entries) /\ unheard' \subseteq Entries
      /\ Settled \subseteq Settled' /\ Elements(posts') = Elements(posts)
      /\ Settled \cup Elements(wire) \cup {<<st, n>>} \subseteq Settled' \cup Elements(wire')
      /\ Elements(wire') \subseteq Elements(wire) \cup {<<st, n>>}
  <2>1. Elements(posts') = Elements(posts)
    BY <1>1
  <2>2. /\ wire' \in Seq(Entries) /\ unheard' \subseteq Entries /\ unheard \subseteq unheard'
        /\ unheard \cup Elements(wire) \cup {<<st, n>>} = unheard' \cup Elements(wire')
        /\ Elements(wire') \subseteq Elements(wire) \cup {<<st, n>>}
    BY <1>1, <1>2, BroadcastType
  <2> QED BY <2>1, <2>2, <1>1 DEF Settled
<1>4. TypeOK'
  BY <1>1, <1>2, <1>3 DEF TypeOK, DataEvent
<1>5. \A r \in Streams : Len(lines[r]) \in Nat
  <2>1. lines \in [Streams -> Seq(Kinds)]
    BY <1>1 DEF TypeOK
  <2> QED BY <2>1
<1>6. CountInv'
  <2>1. handled \in [Streams -> Nat]
    BY <1>1 DEF TypeOK
  <2> QED BY <2>1, <1>1, <1>5 DEF CountInv
<1>7. \A r \in Streams : taken[r] \in Nat /\ taken'[r] \in Nat /\ taken[r] <= taken'[r] /\ taken'[st] = taken[st] + 1
  BY <1>1, <1>2
<1>8. PostsInv'
  <2> SUFFICES ASSUME NEW r \in Streams, NEW i \in DOMAIN posts, posts[i][1] = r
               PROVE  posts[i][2] <= taken'[r]
    BY <1>1 DEF PostsInv, Done
  <2>1. posts[i][2] <= taken[r]
    BY <1>1 DEF IndInv, PostsInv, Done
  <2>2. posts[i][2] \in Nat
    BY <1>1, EntryNumbers
  <2> QED BY <2>1, <2>2, <1>7
<1>9. WireInv'
  <2> SUFFICES ASSUME NEW r \in Streams, NEW i \in DOMAIN wire', wire'[i][1] = r
               PROVE  /\ wire'[i][2] <= taken'[r]
                      /\ \A j \in DOMAIN posts : posts[j][1] = r => posts[j][2] < wire'[i][2]
                      /\ \A j \in 1..i-1 : wire'[j][1] = r => wire'[j][2] < wire'[i][2]
    BY <1>1 DEF WireInv
  <2>0. WireInv /\ PostsInv
    BY DEF IndInv
  <2>1. CASE i \in DOMAIN wire /\ wire'[i] = wire[i]
                /\ \A j \in 1..i-1 : j \in DOMAIN wire /\ wire'[j] = wire[j]
    <3>1. wire[i][2] <= taken[r] /\ wire[i][2] \in Nat
      BY <2>0, <2>1, <1>1, EntryNumbers DEF WireInv
    <3>2. wire'[i][2] <= taken'[r]
      BY <3>1, <2>1, <1>7
    <3>3. \A j \in DOMAIN posts : posts[j][1] = r => posts[j][2] < wire'[i][2]
      BY <2>0, <2>1 DEF WireInv
    <3>4. \A j \in 1..i-1 : wire'[j][1] = r => wire'[j][2] < wire'[i][2]
      BY <2>0, <2>1 DEF WireInv
    <3> QED BY <3>2, <3>3, <3>4
  <2>2. CASE /\ wire'[i] = <<st, n>> /\ r = st
             /\ \A j \in 1..i-1 : j \in DOMAIN wire /\ wire'[j] = wire[j]
    <3>1. \A j \in DOMAIN posts : posts[j][1] = r => posts[j][2] \in Nat /\ posts[j][2] <= taken[r]
      BY <2>0, <1>1, EntryNumbers DEF PostsInv, Done
    <3>2. \A j \in DOMAIN wire : wire[j][1] = r => wire[j][2] \in Nat /\ wire[j][2] <= taken[r]
      BY <2>0, <1>1, EntryNumbers DEF WireInv
    <3> QED BY <3>1, <3>2, <2>2, <1>7
  <2>3. CASE wire' = wire
    <3>0. wire \in Seq(Entries)
      BY <1>1 DEF TypeOK
    <3>1. DOMAIN wire = 1..Len(wire) /\ Len(wire) \in Nat
      BY <3>0
    <3>2. i \in DOMAIN wire /\ \A j \in 1..i-1 : j \in DOMAIN wire
      BY <3>1, <2>3
    <3> QED BY <3>2, <2>1, <2>3
  <2>4. CASE /\ wire' = Append(wire, <<st, n>>)
             /\ DOMAIN wire' = 1..Len(wire) + 1 /\ DOMAIN wire = 1..Len(wire) /\ Len(wire) \in Nat
             /\ wire'[Len(wire) + 1] = <<st, n>>
             /\ \A j \in DOMAIN wire : wire'[j] = wire[j]
    <3>1. \A j \in 1..i-1 : j \in DOMAIN wire
      BY <2>4
    <3>2. CASE i = Len(wire) + 1
      <4>1. wire'[i] = <<st, n>> /\ r = st
        BY <2>4, <3>2
      <4> QED BY <4>1, <3>1, <2>2, <2>4
    <3>3. CASE i # Len(wire) + 1
      <4>1. i \in DOMAIN wire
        BY <2>4, <3>3
      <4> QED BY <4>1, <3>1, <2>1, <2>4
    <3> QED BY <3>2, <3>3
  <2> QED BY <2>3, <2>4, <1>1, <1>2, BroadcastType
<1>10. Accounted'
  <2> SUFFICES ASSUME NEW r \in Streams, NEW m \in 1..Len(lines[r]), m <= taken'[r]
               PROVE  <<r, m>> \in Settled' \cup Elements(wire')
    BY <1>1 DEF Accounted
  <2>1. CASE m <= taken[r]
    BY <2>1, <1>1, <1>3 DEF IndInv, Accounted
  <2>2. CASE r = st /\ m = n
    BY <2>2, <1>3
  <2> QED BY <2>1, <2>2, <1>1
<1>11. NoGaps'
  BY <1>1, <1>3 DEF IndInv, NoGaps, IsShown
<1>12. ModeInv' /\ ExitInv'
  <2>1. Exit # <<st, n>>
    BY <1>1, <1>2, EntryNumbers
  <2>2. \A i, j \in DOMAIN wire' : wire'[i] = Exit /\ wire'[j] = Exit => i = j
    BY <2>1, <1>1, <1>2, ExitSentOnce DEF IndInv, ExitInv
  <2> QED BY <2>1, <2>2, <1>1, <1>3 DEF IndInv, ModeInv, ExitInv, StoppedIsLast
<1> QED BY <1>4, <1>6, <1>8, <1>9, <1>10, <1>11, <1>12 DEF IndInv

LEMMA SubscribesKeeps == IndInv /\ BridgeSubscribes => IndInv'
<1> SUFFICES ASSUME IndInv, BridgeSubscribes PROVE IndInv'
  OBVIOUS
<1>1. TypeOK /\ Subscribed \in Entries
  BY DEF IndInv, Entries
<1>2. wire' \in Seq(Entries) /\ unheard' \subseteq Entries
  BY <1>1, BroadcastType DEF BridgeSubscribes
<1>3. TypeOK'
  <2>1. asked \in Nat /\ asked > 0 /\ asked' = asked - 1
    BY <1>1 DEF TypeOK, BridgeSubscribes
  <2>2. asked' \in Nat
    BY <2>1
  <2>3. /\ served' = TRUE
        /\ UNCHANGED <<cliVars, taken, posts, refused, embeddedVars, sub, link, breaks, renewal,
                       revived, exitSeen>>
    BY DEF BridgeSubscribes
  <2> QED BY <1>1, <1>2, <2>2, <2>3 DEF TypeOK
<1>4. bridged
  BY DEF IndInv, ModeInv, BridgeSubscribes
<1> QED BY <1>1, <1>3, <1>4, SentNoticeKeeps, EntryNumbers DEF BridgeSubscribes

LEMMA LinkBreaksKeeps == IndInv /\ LinkBreaks => IndInv'
<1> SUFFICES ASSUME IndInv, LinkBreaks PROVE IndInv'
  OBVIOUS
<1>1. /\ TypeOK /\ bridged /\ wire' = <<>> /\ unheard' = unheard \cup Elements(wire)
      /\ UNCHANGED <<bridged, lines, taken, handled, posts, refused, waiter, sub, renewal, revived,
                     exitSeen>>
  BY DEF IndInv, LinkBreaks, Elements
<1>2. Elements(wire) \subseteq Entries /\ <<>> \in Seq(Entries)
  BY <1>1, EntryNumbers DEF Elements
<1>3. TypeOK'
  <2>1. wire' \in Seq(Entries) /\ unheard' \subseteq Entries
    BY <1>1, <1>2 DEF TypeOK
  <2>2. /\ link' = FALSE /\ breaks' = breaks + 1 /\ asked' = 0 /\ served' = FALSE
        /\ UNCHANGED <<cli, reader>>
    BY DEF LinkBreaks
  <2>3. breaks \in Nat
    BY <1>1 DEF TypeOK
  <2>4. breaks' \in Nat
    BY <2>2, <2>3
  <2>5. bridged' \in BOOLEAN /\ exitSeen' \in BOOLEAN
    BY <1>1 DEF TypeOK
  <2> QED BY <2>1, <2>2, <2>4, <2>5, <1>1 DEF TypeOK
<1>4. Elements(posts') = Elements(posts) /\ Settled' = Settled \cup Elements(wire)
      /\ Elements(wire') = {}
  <2>1. Elements(posts') = Elements(posts)
    BY <1>1
  <2>2. Elements(wire') = {}
    BY <1>1 DEF Elements
  <2> QED BY <2>1, <2>2, <1>1 DEF Settled
<1>5. CountInv' /\ PostsInv' /\ WireInv' /\ ModeInv'
  BY <1>1 DEF IndInv, CountInv, PostsInv, WireInv, ModeInv, Done
<1>6. Accounted' /\ NoGaps'
  BY <1>1, <1>4 DEF IndInv, Accounted, NoGaps, IsShown
<1>7. ExitInv'
  BY <1>1, <1>4 DEF IndInv, ExitInv, StoppedIsLast
<1> QED BY <1>3, <1>5, <1>6, <1>7 DEF IndInv

-----------------------------------------------------------------------------
(* Bridge mode: what the plugin reads. *)

LEMMA ReadMessageKeeps == IndInv /\ ReadMessage => IndInv'
<1> SUFFICES ASSUME IndInv, ReadMessage PROVE IndInv'
  OBVIOUS
<1> DEFINE e == Head(wire)
<1>1. /\ TypeOK /\ WireInv /\ PostsInv /\ ExitInv /\ bridged /\ wire # <<>> /\ wire' = Tail(wire)
      /\ wire \in Seq(Entries)
      /\ UNCHANGED <<bridged, lines, taken, handled, waiter, revived, exitSeen>>
  BY DEF IndInv, TypeOK, ModeInv, ReadMessage
<1>2. /\ e \in Entries /\ e = wire[1] /\ 1 \in DOMAIN wire
      /\ Elements(wire) = {e} \cup Elements(wire') /\ wire' \in Seq(Entries)
      /\ DOMAIN wire = 1..Len(wire) /\ DOMAIN wire' = 1..Len(wire) - 1 /\ Len(wire) \in Nat \ {0}
      /\ \A i \in DOMAIN wire' : wire'[i] = wire[i+1]
  BY <1>1, TailElements
<1>3. \/ sub = "yes" /\ Post(e) /\ sub' = (IF e = Exit THEN "ended" ELSE sub) /\ UNCHANGED unheard
      \/ sub # "yes" /\ unheard' = unheard \cup {e} /\ UNCHANGED <<posts, refused, sub>>
  BY DEF ReadMessage
<1>4. /\ posts' \in Seq(Entries) /\ refused' \subseteq Entries /\ unheard' \subseteq Entries
      /\ Settled \cup {e} \subseteq Settled'
      /\ Elements(posts') \subseteq Elements(posts) \cup {e}
  <2>1. CASE Post(e) /\ UNCHANGED unheard
    BY <2>1, <1>1, <1>2, PostType, SettledGrows DEF TypeOK
  <2>2. CASE unheard' = unheard \cup {e} /\ UNCHANGED <<posts, refused>>
    <3>1. Elements(posts') = Elements(posts)
      BY <2>2
    <3> QED BY <3>1, <2>2, <1>1, <1>2 DEF TypeOK, Settled
  <2> QED BY <2>1, <2>2, <1>3
<1>5. TypeOK'
  BY <1>1, <1>2, <1>3, <1>4 DEF TypeOK, ReadMessage
<1>6. CountInv' /\ ModeInv'
  BY <1>1 DEF IndInv, CountInv, ModeInv
(* The first message comes after all posts and before all other messages. *)
<1>7. \A st \in Streams : e[1] = st =>
        /\ e[2] \in Nat /\ e[2] <= taken[st] /\ e = <<st, e[2]>>
        /\ \A j \in DOMAIN posts : posts[j][1] = st => posts[j][2] < e[2]
        /\ \A i \in DOMAIN wire' : wire'[i][1] = st => e[2] < wire'[i][2]
  <2> TAKE st \in Streams
  <2> HAVE e[1] = st
  <2>1. e[2] \in Nat /\ e[2] <= taken[st] /\ e = <<st, e[2]>>
    BY <1>1, <1>2, EntryNumbers DEF WireInv
  <2>2. \A j \in DOMAIN posts : posts[j][1] = st => posts[j][2] < e[2]
    BY <1>1, <1>2 DEF WireInv
  <2>3. ASSUME NEW i \in DOMAIN wire', wire'[i][1] = st PROVE e[2] < wire'[i][2]
    <3>1. i + 1 \in DOMAIN wire /\ 1 \in 1..(i+1)-1 /\ wire[i+1] = wire'[i]
      BY <1>2
    <3> QED BY <3>1, <2>3, <1>1, <1>2 DEF WireInv
  <2> QED BY <2>1, <2>2, <2>3
<1>8. \A st \in Streams : \A i \in DOMAIN posts' : posts'[i][1] = st =>
        \/ i \in DOMAIN posts /\ posts'[i] = posts[i]
        \/ posts'[i] = e
  BY <1>1, <1>2, <1>3, PostType
<1>9. PostsInv'
  BY <1>1, <1>7, <1>8 DEF PostsInv, Done
<1>10. WireInv'
  <2> SUFFICES ASSUME NEW st \in Streams, NEW i \in DOMAIN wire', wire'[i][1] = st
               PROVE  /\ wire'[i][2] <= taken[st]
                      /\ \A j \in DOMAIN posts' : posts'[j][1] = st => posts'[j][2] < wire'[i][2]
                      /\ \A j \in 1..i-1 : wire'[j][1] = st => wire'[j][2] < wire'[i][2]
    BY <1>1 DEF WireInv
  <2>1. i + 1 \in DOMAIN wire /\ wire[i+1] = wire'[i]
    BY <1>2
  <2>2. wire'[i][2] <= taken[st]
    BY <2>1, <1>1 DEF WireInv
  <2>3. \A j \in DOMAIN posts' : posts'[j][1] = st => posts'[j][2] < wire'[i][2]
    BY <2>1, <1>1, <1>7, <1>8 DEF WireInv
  <2>4. ASSUME NEW j \in 1..i-1, wire'[j][1] = st PROVE wire'[j][2] < wire'[i][2]
    <3>1. j + 1 \in 1..(i+1)-1 /\ wire[j+1] = wire'[j]
      BY <1>2
    <3> QED BY <3>1, <2>1, <2>4, <1>1 DEF WireInv
  <2> QED BY <2>2, <2>3, <2>4
<1>11. Accounted'
  BY <1>1, <1>2, <1>4 DEF IndInv, Accounted
<1>12. NoGaps'
  <2> SUFFICES ASSUME NEW st \in Streams, NEW n \in 1..Len(lines[st]),
                      <<st, n>> \in Elements(posts'), NEW m \in 1..n-1, IsShown(st, m)
               PROVE  <<st, m>> \in Settled'
    BY <1>1 DEF NoGaps, IsShown
  <2>1. CASE <<st, n>> \in Elements(posts)
    BY <2>1, <1>4 DEF IndInv, NoGaps
  <2>2. CASE <<st, n>> = e
    <3>1. Len(lines[st]) \in Nat /\ taken[st] \in Nat /\ taken[st] <= Len(lines[st])
      <4>1. lines \in [Streams -> Seq(Kinds)] /\ taken \in [Streams -> Nat]
        BY <1>1 DEF TypeOK
      <4> QED BY <4>1 DEF IndInv, CountInv
    <3>2. n \in Nat /\ n <= taken[st] /\ m \in 1..Len(lines[st]) /\ m <= taken[st] /\ m < n
      BY <3>1, <2>2, <1>7
    <3>3. <<st, m>> \in Settled \cup {e} \cup Elements(wire')
      BY <3>2, <1>1, <1>2 DEF IndInv, Accounted
    <3>4. <<st, m>> \notin Elements(wire')
      <4> SUFFICES ASSUME NEW i \in DOMAIN wire', wire'[i] = <<st, m>> PROVE FALSE
        BY DEF Elements
      <4> QED BY <3>2, <2>2, <1>7
    <3> QED BY <3>3, <3>4, <1>4
  <2> QED BY <2>1, <2>2, <1>4
<1>13. ExitInv'
  <2>1. sub = "yes" /\ ~revived => Exit \notin Elements(posts)
    BY <1>1 DEF ExitInv
  <2>2. Exit \in Elements(posts') => sub' = "ended" \/ revived
    BY <2>1, <1>1, <1>3, <1>4 DEF ExitInv, Elements
  <2>3. Exit \in Elements(posts') \cup Elements(wire') => exitSeen'
    BY <1>1, <1>2, <1>4 DEF ExitInv
  <2>4. ASSUME ~revived, NEW i \in DOMAIN posts', posts'[i] = Exit PROVE i = Len(posts')
    <3>1. CASE posts' = posts
      BY <3>1, <2>4, <1>1 DEF ExitInv, StoppedIsLast
    <3>2. CASE sub = "yes" /\ Post(e) /\ posts' # posts
      <4>1. i \in DOMAIN posts => posts[i] # Exit
        BY <3>2, <2>1, <2>4 DEF Elements
      <4> QED BY <4>1, <3>2, <2>4, <1>1, <1>2, PostType
    <3> QED BY <3>1, <3>2, <1>3
  <2>5. \A i, j \in DOMAIN wire' : wire'[i] = Exit /\ wire'[j] = Exit => i = j
    <3> SUFFICES ASSUME NEW i \in DOMAIN wire', NEW j \in DOMAIN wire',
                        wire'[i] = Exit, wire'[j] = Exit
                 PROVE  i = j
      OBVIOUS
    <3>1. i + 1 \in DOMAIN wire /\ j + 1 \in DOMAIN wire
      BY <1>2
    <3>2. i + 1 = j + 1
      BY <3>1, <1>1, <1>2 DEF ExitInv
    <3> QED BY <3>2, <1>2
  <2>6. Exit \in Elements(wire') => Exit \notin Elements(posts')
    <3> SUFFICES ASSUME NEW i \in DOMAIN wire', wire'[i] = Exit PROVE Exit \notin Elements(posts')
      BY DEF Elements
    <3>1. i + 1 \in DOMAIN wire /\ i + 1 # 1 /\ wire[i+1] = Exit
      BY <1>2
    <3>2. e # Exit
      BY <3>1, <1>1, <1>2 DEF ExitInv
    <3>3. Exit \in Elements(wire)
      BY <3>1 DEF Elements
    <3> QED BY <3>2, <3>3, <1>1, <1>4 DEF ExitInv
  <2> QED BY <2>2, <2>3, <2>4, <2>5, <2>6, <1>1 DEF ExitInv, StoppedIsLast
<1> QED BY <1>5, <1>6, <1>9, <1>10, <1>11, <1>12, <1>13 DEF IndInv

-----------------------------------------------------------------------------
LEMMA StutterKeeps == IndInv /\ UNCHANGED vars => IndInv'
<1> SUFFICES ASSUME IndInv, UNCHANGED vars PROVE IndInv'
  OBVIOUS
<1>1. TypeOK' /\ ModeInv'
  BY DEF IndInv, TypeOK, ModeInv, vars
<1>2. bridged /\ Exit \in Elements(posts) => sub' = "ended" \/ revived'
  BY DEF IndInv, ExitInv, vars
<1> QED BY <1>1, <1>2, QuietKeeps DEF vars

LEMMA NextKeeps == IndInv /\ [Next]_vars => IndInv'
BY WriteKeeps, CliExitKeeps, ReadPipeKeeps, HandleLineKeeps, WaitReturnsKeeps, HandleExitKeeps,
   DataEventKeeps, ExitEventKeeps, SubscribesKeeps, TurnsAwayKeeps, SubscribeKeeps,
   StopUnsubscribesKeeps, ReadMessageKeeps, LinkBreaksKeeps, ReconnectKeeps, CopyKeeps, RenewKeeps,
   StutterKeeps
   DEF Next, ReaderStep

(* The invariant of the output, in both modes: output is read, sent and    *)
(* posted in its order, and none of it vanishes unaccounted for.           *)
THEOREM OutputInductive == Spec => []IndInv
BY InitInv, NextKeeps, PTL DEF Spec

(* The variables keep their types. *)
THEOREM OutputTypes == Spec => []TypeOK
BY OutputInductive, PTL DEF IndInv

(* A channel has a gap in the output of a CLI only where a post was        *)
(* refused or a message reached no listener.                               *)
THEOREM Gapless == Spec => []NoGaps
BY OutputInductive, PTL DEF IndInv

(* In bridge mode nothing is posted after the notice that the session has  *)
(* stopped, unless a reconnect has subscribed to it again since.           *)
THEOREM StoppedLast == Spec => []StoppedIsLast
<1>1. IndInv => StoppedIsLast
  BY DEF IndInv, ExitInv, StoppedIsLast
<1> QED BY <1>1, OutputInductive, PTL

-----------------------------------------------------------------------------
(* Refinement. *)

LEMMA InitRefines == Init => Channel!Init
<1> SUFFICES ASSUME Init PROVE Channel!Init
  OBVIOUS
<1>1. \A st \in Streams : Len(lines[st]) = 0
  BY DEF Init
<1> QED BY <1>1 DEF Init, Channel!Init, WrittenSoFar, HasEnded

(* A post of a unit that was written and comes after those posted. *)
LEMMA PostShows ==
  ASSUME IndInv, NEW st \in Streams, NEW n \in 1..Len(lines[st]), Post(<<st, n>>),
         UNCHANGED <<cli, lines>>,
         \A j \in DOMAIN posts : posts[j][1] = st => posts[j][2] < n
  PROVE  Channel!Next \/ UNCHANGED Channel!vars
<1>1. WrittenSoFar' = WrittenSoFar /\ HasEnded' = HasEnded /\ n \in 1..WrittenSoFar[st]
  BY DEF WrittenSoFar, HasEnded
<1>2. CASE posts' = Append(posts, <<st, n>>)
  BY <1>1, <1>2 DEF Channel!Next, Channel!Show, Channel!IsNext
<1>3. CASE UNCHANGED posts
  BY <1>1, <1>3 DEF Channel!vars
<1> QED BY <1>2, <1>3 DEF Post

LEMMA PostNotifies ==
  ASSUME NEW e \in {Exit, Subscribed}, Post(e), UNCHANGED <<cli, lines>>,
         e = Exit => cli = "exited" /\ Exit \notin Elements(posts)
  PROVE  Channel!Next \/ UNCHANGED Channel!vars
<1>1. WrittenSoFar' = WrittenSoFar /\ HasEnded' = HasEnded
  BY DEF WrittenSoFar, HasEnded
<1>2. CASE posts' = Append(posts, e) /\ e = Exit
  BY <1>1, <1>2 DEF Channel!Next, Channel!TellExit, Channel!Notice, HasEnded, Exit, Elements
<1>3. CASE posts' = Append(posts, e) /\ e = Subscribed
  BY <1>1, <1>3 DEF Channel!Next, Channel!TellSubscribed, Channel!Notice, Subscribed
<1>4. CASE UNCHANGED posts
  BY <1>1, <1>4 DEF Channel!vars
<1> QED BY <1>2, <1>3, <1>4 DEF Post

(* Who reports the end has seen it, and reports it once. *)
LEMMA InitTells == Init => TellInv
BY DEF Init, TellInv, Elements

LEMMA TellKeeps == IndInv /\ TellInv /\ [Next]_vars => TellInv'
<1> SUFFICES ASSUME IndInv, TellInv, [Next]_vars PROVE TellInv'
  OBVIOUS
<1> USE DEF TellInv
<1>1. CASE UNCHANGED <<bridged, cli, waiter, exitSeen, posts>>
  BY <1>1 DEF Elements
<1>2. ASSUME NEW st \in Streams, HandleLine(st) PROVE TellInv'
  <2>1. UNCHANGED <<bridged, cli, waiter, exitSeen>>
    BY <1>2 DEF HandleLine, cliVars, bridgeVars
  <2>2. posts' = posts \/ posts' = Append(posts, <<st, handled[st] + 1>>)
    BY <1>2 DEF HandleLine, Post
  <2> DEFINE e == <<st, handled[st] + 1>>
  <2>3. posts \in Seq(Entries) /\ e \in Entries /\ e # Exit
    <3>1. handled[st] \in Nat
      BY DEF IndInv, TypeOK
    <3>2. e \in Units
      BY <3>1 DEF Units
    <3>3. e # Exit
      BY DEF Exit, Streams
    <3> QED BY <3>2, <3>3 DEF IndInv, TypeOK, Entries
  <2>4. posts' = posts => Elements(posts)' = Elements(posts)
    BY DEF Elements
  <2>5. posts' = Append(posts, e) => Elements(posts)' = Elements(posts) \cup {e}
    <3> HIDE DEF e
    <3>1. Elements(Append(posts, e)) = Elements(posts) \cup {e}
      BY <2>3, AppendElements
    <3> QED BY <3>1 DEF Elements
  <2> QED BY <2>1, <2>2, <2>3, <2>4, <2>5
<1>3. CASE CliExit
  BY <1>3 DEF CliExit, embeddedVars, bridgeVars, Elements
<1>4. CASE WaitReturns
  BY <1>4 DEF WaitReturns, cliVars, bridgeVars, Elements
<1>5. CASE HandleExit
  BY <1>5 DEF HandleExit, cliVars, bridgeVars
<1>6. CASE ExitEvent
  BY <1>6 DEF ExitEvent, cliVars, embeddedVars, Elements
<1>7. CASE ReadMessage
  BY <1>7 DEF ReadMessage, cliVars, embeddedVars, IndInv, ModeInv
<1>8. ASSUME NEW st \in Streams, (\E k \in Kinds : Write(st, k)) \/ ReadPipe(st) \/ DataEvent(st)
      PROVE  UNCHANGED <<bridged, cli, waiter, exitSeen, posts>>
  BY <1>8 DEF Write, ReadPipe, DataEvent, cliVars, embeddedVars, bridgeVars
<1>9. CASE \/ BridgeSubscribes \/ BridgeTurnsAway \/ Subscribe \/ StopUnsubscribes
           \/ LinkBreaks \/ Reconnect \/ Copy \/ Renew
  BY <1>1, <1>9 DEF BridgeSubscribes, BridgeTurnsAway, Subscribe, StopUnsubscribes, LinkBreaks,
     Reconnect, Copy, Renew, AddSubscription, cliVars, embeddedVars
<1>10. CASE UNCHANGED vars
  BY <1>1, <1>10 DEF vars, cliVars, embeddedVars, bridgeVars
<1> QED
  BY <1>1, <1>2, <1>3, <1>4, <1>5, <1>6, <1>7, <1>8, <1>9, <1>10 DEF Next, ReaderStep

LEMMA StepRefines == IndInv /\ TellInv /\ [Next]_vars => Channel!Next \/ UNCHANGED Channel!vars
<1> SUFFICES ASSUME IndInv, TellInv, [Next]_vars PROVE Channel!Next \/ UNCHANGED Channel!vars
  OBVIOUS
<1>1. ASSUME NEW st \in Streams, NEW k \in Kinds, Write(st, k)
      PROVE  Channel!Next
  <2>1. lines \in [Streams -> Seq(Kinds)] /\ lines' = [lines EXCEPT ![st] = Append(@, k)]
        /\ posts' = posts /\ cli = "running" /\ cli' = cli
    BY <1>1 DEF IndInv, TypeOK, Write
  <2>2. Len(lines'[st]) = Len(lines[st]) + 1 /\ \A r \in Streams : r # st => lines'[r] = lines[r]
    BY <2>1
  <2>3. WrittenSoFar' = [WrittenSoFar EXCEPT ![st] = @ + 1]
    BY <2>2 DEF WrittenSoFar
  <2> QED BY <2>1, <2>3 DEF Channel!Next, Channel!Write, HasEnded
<1>2. CASE UNCHANGED <<cli, lines, posts>>
  BY <1>2 DEF Channel!vars, WrittenSoFar, HasEnded
<1>3. ASSUME NEW st \in Streams, HandleLine(st)
      PROVE  Channel!Next \/ UNCHANGED Channel!vars
  <2> DEFINE n == handled[st] + 1
  <2>1. /\ TypeOK /\ ~bridged /\ n <= taken[st] /\ n \in Nat \ {0} /\ taken[st] \in Nat
        /\ lines \in [Streams -> Seq(Kinds)] /\ UNCHANGED <<cli, lines>>
    <3>1. /\ TypeOK /\ taken[st] \in Nat /\ handled[st] \in Nat /\ lines \in [Streams -> Seq(Kinds)]
      BY DEF IndInv, TypeOK
    <3>2. ~bridged /\ handled[st] < taken[st] /\ UNCHANGED <<cli, lines>>
      BY <1>3 DEF HandleLine, Scanning, cliVars
    <3> QED BY <3>1, <3>2
  <2>2. n \in 1..Len(lines[st])
    BY <2>1 DEF IndInv, CountInv
  <2>3. \A j \in DOMAIN posts : posts[j][1] = st => posts[j][2] < n
    <3>1. handled[st] \in Nat /\ PostsInv
      BY DEF IndInv, TypeOK
    <3>2. \A j \in DOMAIN posts : posts[j][2] \in Nat
      BY <2>1, EntryNumbers
    <3> QED BY <3>1, <3>2, <2>1 DEF PostsInv, Done
  <2>4. CASE Post(<<st, n>>)
    BY <2>1, <2>2, <2>3, <2>4, PostShows
  <2>5. CASE UNCHANGED posts
    BY <2>1, <2>5, <1>2
  <2> QED BY <2>4, <2>5, <1>3 DEF HandleLine
<1>4. CASE HandleExit
  <2>1. cli = "exited" /\ Exit \notin Elements(posts)
    BY <1>4 DEF HandleExit, TellInv, IndInv, ModeInv
  <2> QED BY <1>4, <2>1, PostNotifies DEF HandleExit, cliVars
<1>5. CASE ReadMessage
  <2> DEFINE e == Head(wire)
  <2>1. /\ TypeOK /\ WireInv /\ bridged /\ wire # <<>> /\ wire \in Seq(Entries) /\ UNCHANGED <<cli, lines>>
        /\ lines \in [Streams -> Seq(Kinds)] /\ taken \in [Streams -> Nat]
    BY <1>5 DEF IndInv, TypeOK, ModeInv, ReadMessage, cliVars
  <2>2. e \in Entries /\ e = wire[1] /\ 1 \in DOMAIN wire
    BY <2>1, TailElements
  <2>3. CASE Post(e) /\ e \in {Exit, Subscribed} /\ sub = "yes"
    <3>1. e = Exit => cli = "exited" /\ Exit \notin Elements(posts)
      BY <2>1, <2>2, <2>3 DEF IndInv, ExitInv, TellInv, Elements
    <3> QED BY <2>1, <2>3, <3>1, PostNotifies
  <2>4. CASE Post(e) /\ e \in Units
    <3>1. PICK st \in Streams, n \in Nat \ {0} : e = <<st, n>>
      BY <2>4 DEF Units
    <3>2. n <= taken[st] /\ \A j \in DOMAIN posts : posts[j][1] = st => posts[j][2] < n
      BY <3>1, <2>1, <2>2 DEF WireInv
    <3>3. n \in 1..Len(lines[st])
      BY <3>2, <2>1 DEF IndInv, CountInv
    <3>4. Post(<<st, n>>)
      BY <3>1, <2>4
    <3> QED BY <3>2, <3>3, <3>4, <2>1, PostShows
  <2>5. CASE UNCHANGED posts
    BY <2>1, <2>5, <1>2
  <2> QED BY <2>2, <2>3, <2>4, <2>5, <1>5 DEF ReadMessage, Entries
<1>6. CASE UNCHANGED vars
  BY <1>6, <1>2 DEF vars
<1>7. ASSUME NEW st \in Streams, ReadPipe(st) \/ DataEvent(st)
      PROVE  UNCHANGED <<cli, lines, posts>>
  BY <1>7 DEF ReadPipe, DataEvent, cliVars
<1>8. CASE WaitReturns \/ ExitEvent \/ BridgeSubscribes \/ BridgeTurnsAway
  BY <1>8, <1>2 DEF WaitReturns, ExitEvent, BridgeSubscribes, BridgeTurnsAway
<1>9. CASE Subscribe \/ StopUnsubscribes \/ LinkBreaks \/ Reconnect \/ Copy \/ Renew
  BY <1>9, <1>2 DEF Subscribe, StopUnsubscribes, LinkBreaks, Reconnect, Copy, Renew, AddSubscription
<1>10. CASE CliExit
  BY <1>10 DEF CliExit, Channel!Next, Channel!End, HasEnded, WrittenSoFar
<1> QED BY <1>1, <1>2, <1>3, <1>4, <1>5, <1>6, <1>7, <1>8, <1>9, <1>10 DEF Next, ReaderStep

(* In both modes the channel is a transcript: what the CLI wrote on each   *)
(* stream, in its order and without repetition, and its end, once.         *)
THEOREM OutputRefines == Spec => ImplementsTranscript
BY InitRefines, StepRefines, InitTells, TellKeeps, OutputInductive, PTL
DEF Spec, ImplementsTranscript, Channel!Spec
=============================================================================
