-------------------------- MODULE WsClient_proofs --------------------------
(***************************************************************************)
(* Proofs about the WebSocket client.  IndInv is inductive: Init implies   *)
(* it, and there is one lemma for each action of Next, which shows that    *)
(* the action keeps it.  The safety properties the runs check follow.      *)
(***************************************************************************)
EXTENDS WsClient, TLAPS

(* The kinds of goroutines do not overlap. *)
LEMMA Names ==
  /\ Sessions \cap Threads = {}
  /\ Stoppers \cap Threads = {}
  /\ Sessions \cap Stoppers = {}
  /\ NoSession \notin Sessions
  /\ Conns \subseteq Threads
  /\ 0 \in Threads /\ 0 \notin Conns
  /\ Threads \subseteq Nat
  /\ \A t \in Threads : t # 0 => t \in Conns
BY ClientAssumption DEF Threads, Conns

(* Every leaf below needs the program points and the moves between them.   *)
USE DEF Agents, At, Goto, Step, connVars, ReaderLabels, DialLabels, TailLabels, SubscribeLabels,
        UnsubscribeLabels

LEMMA InitInv == Init => IndInv
<1> SUFFICES ASSUME Init PROVE IndInv
  OBVIOUS
<1>1. TypeOK
  BY Names DEF Init, TypeOK, Labels
<1>2. ControlInv
  BY Names DEF Init, ControlInv, Activated
<1>3. DutyInv /\ ConnInv
  <2>1. \A t \in Threads : pc[t] = IF t = 0 THEN "dial" ELSE "none"
    BY Names DEF Init
  <2>2. \A t \in Threads : OnDuty(t) => t = 0
    BY <2>1 DEF OnDuty
  <2>3. conn <= nconn
    BY DEF Init
  <2>4. \A t \in Conns : t > nconn
    BY ClientAssumption DEF Init, Conns
  <2> QED BY Names, <2>1, <2>2, <2>3, <2>4 DEF Init, DutyInv, ConnInv
<1>4. FlagInv
  BY Names DEF Init, FlagInv, Reconnecting
<1>5. OneReconnect /\ NoConnectionLeak /\ SubscriptionKept
  BY Names DEF Init, OneReconnect, Reconnecting, NoConnectionLeak, SubscriptionKept, Wanted
<1> QED BY <1>1, <1>2, <1>3, <1>4, <1>5 DEF IndInv

LEMMA DialKeeps ==
  ASSUME NEW t \in Threads, IndInv, Dial(t) PROVE IndInv'
<1>1. TypeOK'
  BY Names DEF IndInv, TypeOK, ControlInv, Dial, Labels
<1>2. ControlInv'
  BY Names, <1>1 DEF IndInv, TypeOK, ControlInv, Activated, Dial
<1>3. DutyInv' /\ ConnInv'
  BY Names, <1>1 DEF IndInv, TypeOK, ControlInv, DutyInv, OnDuty, ConnInv, Dial
<1>4. FlagInv' /\ OneReconnect'
  BY Names, <1>1 DEF IndInv, TypeOK, ControlInv, DutyInv, OnDuty, FlagInv, OneReconnect,
     Reconnecting, Dial
<1>5. NoConnectionLeak'
  BY Names, <1>1 DEF IndInv, TypeOK, ConnInv, NoConnectionLeak, Dial
<1>6. SubscriptionKept'
  BY Names, <1>1 DEF IndInv, TypeOK, ControlInv, ConnInv, NoConnectionLeak, SubscriptionKept,
     Wanted, WillTell, Activated, Dial
<1> QED BY <1>1, <1>2, <1>3, <1>4, <1>5, <1>6 DEF IndInv

LEMMA DialSucceedsKeeps ==
  ASSUME NEW t \in Threads, IndInv, DialSucceeds(t) PROVE IndInv'
<1>1. TypeOK'
  <2>1. nconn' \in Conns /\ conn' \in Conns
    BY ClientAssumption DEF IndInv, TypeOK, DialSucceeds, Conns, Threads
  <2>2. pc' \in [Agents -> Labels] /\ link' \in [Conns -> {"unused", "open", "broken",
     "closed"}]
    BY Names, <2>1 DEF IndInv, TypeOK, DialSucceeds, Labels
  <2> QED BY Names, <2>1, <2>2 DEF IndInv, TypeOK, DialSucceeds
<1>2. ControlInv'
  BY Names, <1>1 DEF IndInv, TypeOK, ControlInv, Activated, DialSucceeds
<1>3. DutyInv' /\ ConnInv'
  BY Names, <1>1 DEF IndInv, TypeOK, ControlInv, DutyInv, OnDuty, ConnInv, DialSucceeds
<1>4. FlagInv' /\ OneReconnect'
  BY Names, <1>1 DEF IndInv, TypeOK, ControlInv, DutyInv, OnDuty, FlagInv, OneReconnect,
     Reconnecting, DialSucceeds
<1>5. NoConnectionLeak'
  BY Names, <1>1 DEF IndInv, TypeOK, ConnInv, NoConnectionLeak, DialSucceeds
<1>6. SubscriptionKept'
  BY Names, <1>1 DEF IndInv, TypeOK, ControlInv, ConnInv, NoConnectionLeak, SubscriptionKept,
     Wanted, WillTell, Activated, DialSucceeds
<1> QED BY <1>1, <1>2, <1>3, <1>4, <1>5, <1>6 DEF IndInv

LEMMA DialFailsKeeps ==
  ASSUME NEW t \in Threads, IndInv, DialFails(t) PROVE IndInv'
<1>1. TypeOK'
  BY Names DEF IndInv, TypeOK, ControlInv, DialFails, Labels
<1>2. ControlInv'
  BY Names, <1>1 DEF IndInv, TypeOK, ControlInv, Activated, DialFails
<1>3. DutyInv' /\ ConnInv'
  BY Names, <1>1 DEF IndInv, TypeOK, ControlInv, DutyInv, OnDuty, ConnInv, DialFails
<1>4. FlagInv' /\ OneReconnect'
  BY Names, <1>1 DEF IndInv, TypeOK, ControlInv, DutyInv, OnDuty, FlagInv, OneReconnect,
     Reconnecting, DialFails
<1>5. NoConnectionLeak'
  BY Names, <1>1 DEF IndInv, TypeOK, ConnInv, NoConnectionLeak, DialFails
<1>6. SubscriptionKept'
  BY Names, <1>1 DEF IndInv, TypeOK, ControlInv, ConnInv, NoConnectionLeak, SubscriptionKept,
     Wanted, WillTell, Activated, DialFails
<1> QED BY <1>1, <1>2, <1>3, <1>4, <1>5, <1>6 DEF IndInv

LEMMA ReaderTopKeeps ==
  ASSUME NEW t \in Conns, IndInv, ReaderTop(t) PROVE IndInv'
<1>1. TypeOK'
  BY Names DEF IndInv, TypeOK, ControlInv, ReaderTop, Labels
<1>2. ControlInv'
  BY Names, <1>1 DEF IndInv, TypeOK, ControlInv, Activated, ReaderTop
<1>3. DutyInv' /\ ConnInv'
  BY Names, <1>1 DEF IndInv, TypeOK, ControlInv, DutyInv, OnDuty, ConnInv, ReaderTop
<1>4. FlagInv' /\ OneReconnect'
  BY Names, <1>1 DEF IndInv, TypeOK, ControlInv, DutyInv, OnDuty, FlagInv, OneReconnect,
     Reconnecting, ReaderTop
<1>5. NoConnectionLeak'
  BY Names, <1>1 DEF IndInv, TypeOK, ConnInv, NoConnectionLeak, ReaderTop
<1>6. SubscriptionKept'
  BY Names, <1>1 DEF IndInv, TypeOK, ControlInv, ConnInv, NoConnectionLeak, SubscriptionKept,
     Wanted, WillTell, Activated, ReaderTop
<1> QED BY <1>1, <1>2, <1>3, <1>4, <1>5, <1>6 DEF IndInv

LEMMA ReaderFailsKeeps ==
  ASSUME NEW t \in Conns, IndInv, ReaderFails(t) PROVE IndInv'
<1>1. TypeOK'
  BY Names DEF IndInv, TypeOK, ControlInv, ReaderFails, Labels
<1>2. ControlInv'
  BY Names, <1>1 DEF IndInv, TypeOK, ControlInv, Activated, ReaderFails
<1>3. DutyInv' /\ ConnInv'
  BY Names, <1>1 DEF IndInv, TypeOK, ControlInv, DutyInv, OnDuty, ConnInv, ReaderFails
<1>4. FlagInv' /\ OneReconnect'
  BY Names, <1>1 DEF IndInv, TypeOK, ControlInv, DutyInv, OnDuty, FlagInv, OneReconnect,
     Reconnecting, ReaderFails
<1>5. NoConnectionLeak'
  BY Names, <1>1 DEF IndInv, TypeOK, ConnInv, NoConnectionLeak, ReaderFails
<1>6. SubscriptionKept'
  BY Names, <1>1 DEF IndInv, TypeOK, ControlInv, ConnInv, NoConnectionLeak, SubscriptionKept,
     Wanted, WillTell, Activated, ReaderFails
<1> QED BY <1>1, <1>2, <1>3, <1>4, <1>5, <1>6 DEF IndInv

LEMMA ReaderStoppedKeeps ==
  ASSUME NEW t \in Conns, NEW s \in Sessions, IndInv, ReaderStopped(t, s) PROVE IndInv'
<1>1. TypeOK'
  BY Names DEF IndInv, TypeOK, ControlInv, ReaderStopped, Labels
<1>2. ControlInv'
  BY Names, <1>1 DEF IndInv, TypeOK, ControlInv, Activated, ReaderStopped
<1>3. DutyInv' /\ ConnInv'
  BY Names, <1>1 DEF IndInv, TypeOK, ControlInv, DutyInv, OnDuty, ConnInv, ReaderStopped
<1>4. FlagInv' /\ OneReconnect'
  BY Names, <1>1 DEF IndInv, TypeOK, ControlInv, DutyInv, OnDuty, FlagInv, OneReconnect,
     Reconnecting, ReaderStopped
<1>5. NoConnectionLeak'
  BY Names, <1>1 DEF IndInv, TypeOK, ConnInv, NoConnectionLeak, ReaderStopped
<1>6. SubscriptionKept'
  BY Names, <1>1 DEF IndInv, TypeOK, ControlInv, ConnInv, NoConnectionLeak, SubscriptionKept,
     Wanted, WillTell, Activated, ReaderStopped
<1> QED BY <1>1, <1>2, <1>3, <1>4, <1>5, <1>6 DEF IndInv

LEMMA ReaderCheckKeeps ==
  ASSUME NEW t \in Conns, IndInv, ReaderCheck(t) PROVE IndInv'
<1>1. TypeOK'
  BY Names DEF IndInv, TypeOK, ControlInv, ReaderCheck, Labels
<1>2. ControlInv'
  BY Names, <1>1 DEF IndInv, TypeOK, ControlInv, Activated, ReaderCheck
<1>3. DutyInv' /\ ConnInv'
  BY Names, <1>1 DEF IndInv, TypeOK, ControlInv, DutyInv, OnDuty, ConnInv, ReaderCheck
<1>4. FlagInv' /\ OneReconnect'
  BY Names, <1>1 DEF IndInv, TypeOK, ControlInv, DutyInv, OnDuty, FlagInv, OneReconnect,
     Reconnecting, ReaderCheck
<1>5. NoConnectionLeak'
  BY Names, <1>1 DEF IndInv, TypeOK, ConnInv, NoConnectionLeak, ReaderCheck
<1>6. SubscriptionKept'
  BY Names, <1>1 DEF IndInv, TypeOK, ControlInv, ConnInv, NoConnectionLeak, SubscriptionKept,
     Wanted, WillTell, Activated, ReaderCheck
<1> QED BY <1>1, <1>2, <1>3, <1>4, <1>5, <1>6 DEF IndInv

LEMMA FlagKeeps ==
  ASSUME NEW t \in Conns, IndInv, Flag(t) PROVE IndInv'
<1>1. TypeOK'
  BY Names DEF IndInv, TypeOK, ControlInv, Flag, Labels
<1>2. ControlInv'
  BY Names, <1>1 DEF IndInv, TypeOK, ControlInv, Activated, Flag
<1>3. DutyInv' /\ ConnInv'
  BY Names, <1>1 DEF IndInv, TypeOK, ControlInv, DutyInv, OnDuty, ConnInv, Flag
<1>4. FlagInv' /\ OneReconnect'
  BY Names, <1>1 DEF IndInv, TypeOK, ControlInv, DutyInv, OnDuty, FlagInv, OneReconnect,
     Reconnecting, Flag
<1>5. NoConnectionLeak'
  BY Names, <1>1 DEF IndInv, TypeOK, ConnInv, NoConnectionLeak, Flag
<1>6. SubscriptionKept'
  BY Names, <1>1 DEF IndInv, TypeOK, ControlInv, ConnInv, NoConnectionLeak, SubscriptionKept,
     Wanted, WillTell, Activated, Flag
<1> QED BY <1>1, <1>2, <1>3, <1>4, <1>5, <1>6 DEF IndInv

LEMMA DropKeeps ==
  ASSUME NEW t \in Conns, IndInv, Drop(t) PROVE IndInv'
<1>1. TypeOK'
  BY Names DEF IndInv, TypeOK, ControlInv, Drop, CloseConn, Labels
<1>2. ControlInv'
  BY Names, <1>1 DEF IndInv, TypeOK, ControlInv, Activated, Drop, CloseConn
<1>3. DutyInv' /\ ConnInv'
  BY Names, <1>1 DEF IndInv, TypeOK, ControlInv, DutyInv, OnDuty, ConnInv, Drop, CloseConn
<1>4. FlagInv' /\ OneReconnect'
  BY Names, <1>1 DEF IndInv, TypeOK, ControlInv, DutyInv, OnDuty, FlagInv, OneReconnect,
     Reconnecting, Drop, CloseConn
<1>5. NoConnectionLeak'
  BY Names, <1>1 DEF IndInv, TypeOK, ConnInv, NoConnectionLeak, Drop, CloseConn
<1>6. SubscriptionKept'
  BY Names, <1>1 DEF IndInv, TypeOK, ControlInv, ConnInv, NoConnectionLeak, SubscriptionKept,
     Wanted, WillTell, Activated, Drop, CloseConn
<1> QED BY <1>1, <1>2, <1>3, <1>4, <1>5, <1>6 DEF IndInv

LEMMA LoopKeeps ==
  ASSUME NEW t \in Conns, IndInv, Loop(t) PROVE IndInv'
<1>1. TypeOK'
  BY Names DEF IndInv, TypeOK, ControlInv, Loop, Labels
<1>2. ControlInv'
  BY Names, <1>1 DEF IndInv, TypeOK, ControlInv, Activated, Loop
<1>3. DutyInv' /\ ConnInv'
  BY Names, <1>1 DEF IndInv, TypeOK, ControlInv, DutyInv, OnDuty, ConnInv, Loop
<1>4. FlagInv' /\ OneReconnect'
  BY Names, <1>1 DEF IndInv, TypeOK, ControlInv, DutyInv, OnDuty, FlagInv, OneReconnect,
     Reconnecting, Loop
<1>5. NoConnectionLeak'
  BY Names, <1>1 DEF IndInv, TypeOK, ConnInv, NoConnectionLeak, Loop
<1>6. SubscriptionKept'
  BY Names, <1>1 DEF IndInv, TypeOK, ControlInv, ConnInv, NoConnectionLeak, SubscriptionKept,
     Wanted, WillTell, Activated, Loop
<1> QED BY <1>1, <1>2, <1>3, <1>4, <1>5, <1>6 DEF IndInv

LEMMA CopyKeeps ==
  ASSUME NEW t \in Conns, IndInv, Copy(t) PROVE IndInv'
<1>1. TypeOK'
  BY Names DEF IndInv, TypeOK, ControlInv, Copy, Labels
<1>2. ControlInv'
  BY Names, <1>1 DEF IndInv, TypeOK, ControlInv, Activated, Copy
<1>3. DutyInv' /\ ConnInv'
  BY Names, <1>1 DEF IndInv, TypeOK, ControlInv, DutyInv, OnDuty, ConnInv, Copy
<1>4. FlagInv' /\ OneReconnect'
  BY Names, <1>1 DEF IndInv, TypeOK, ControlInv, DutyInv, OnDuty, FlagInv, OneReconnect,
     Reconnecting, Copy
<1>5. NoConnectionLeak'
  BY Names, <1>1 DEF IndInv, TypeOK, ConnInv, NoConnectionLeak, Copy
<1>6. SubscriptionKept'
  BY Names, <1>1 DEF IndInv, TypeOK, ControlInv, ConnInv, NoConnectionLeak, SubscriptionKept,
     Wanted, WillTell, Activated, Copy
<1> QED BY <1>1, <1>2, <1>3, <1>4, <1>5, <1>6 DEF IndInv

LEMMA ResubKeeps ==
  ASSUME NEW t \in Conns, IndInv, Resub(t) PROVE IndInv'
<1>1. TypeOK'
  BY Names DEF IndInv, TypeOK, ControlInv, Resub, Work, Labels
<1>2. ControlInv'
  BY Names, <1>1 DEF IndInv, TypeOK, ControlInv, Activated, Resub, Work
<1>3. DutyInv' /\ ConnInv'
  BY Names, <1>1 DEF IndInv, TypeOK, ControlInv, DutyInv, OnDuty, ConnInv, Resub, Work
<1>4. FlagInv' /\ OneReconnect'
  BY Names, <1>1 DEF IndInv, TypeOK, ControlInv, DutyInv, OnDuty, FlagInv, OneReconnect,
     Reconnecting, Resub, Work
<1>5. NoConnectionLeak'
  BY Names, <1>1 DEF IndInv, TypeOK, ConnInv, NoConnectionLeak, Resub, Work
<1>6. SubscriptionKept'
  BY Names, <1>1 DEF IndInv, TypeOK, ControlInv, ConnInv, NoConnectionLeak, SubscriptionKept,
     Wanted, WillTell, Activated, Resub, Work
<1> QED BY <1>1, <1>2, <1>3, <1>4, <1>5, <1>6 DEF IndInv

LEMMA ClearKeeps ==
  ASSUME NEW t \in Conns, IndInv, Clear(t) PROVE IndInv'
<1>1. TypeOK'
  BY Names DEF IndInv, TypeOK, ControlInv, Clear, Labels
<1>2. ControlInv'
  BY Names, <1>1 DEF IndInv, TypeOK, ControlInv, Activated, Clear
<1>3. DutyInv' /\ ConnInv'
  BY Names, <1>1 DEF IndInv, TypeOK, ControlInv, DutyInv, OnDuty, ConnInv, Clear
<1>4. FlagInv' /\ OneReconnect'
  BY Names, <1>1 DEF IndInv, TypeOK, ControlInv, DutyInv, OnDuty, FlagInv, OneReconnect,
     Reconnecting, Clear
<1>5. NoConnectionLeak'
  BY Names, <1>1 DEF IndInv, TypeOK, ConnInv, NoConnectionLeak, Clear
<1>6. SubscriptionKept'
  BY Names, <1>1 DEF IndInv, TypeOK, ControlInv, ConnInv, NoConnectionLeak, SubscriptionKept,
     Wanted, WillTell, Activated, Clear
<1> QED BY <1>1, <1>2, <1>3, <1>4, <1>5, <1>6 DEF IndInv

LEMMA SubAddKeeps ==
  ASSUME NEW a \in Agents, IndInv, SubAdd(a) PROVE IndInv'
<1>1. TypeOK'
  BY Names DEF IndInv, TypeOK, ControlInv, SubAdd, Labels
<1>2. ControlInv'
  BY Names, <1>1 DEF IndInv, TypeOK, ControlInv, Activated, SubAdd
<1>3. DutyInv' /\ ConnInv'
  BY Names, <1>1 DEF IndInv, TypeOK, ControlInv, DutyInv, OnDuty, ConnInv, SubAdd
<1>4. FlagInv' /\ OneReconnect'
  BY Names, <1>1 DEF IndInv, TypeOK, ControlInv, DutyInv, OnDuty, FlagInv, OneReconnect,
     Reconnecting, SubAdd
<1>5. NoConnectionLeak'
  BY Names, <1>1 DEF IndInv, TypeOK, ConnInv, NoConnectionLeak, SubAdd
<1>6. SubscriptionKept'
  BY Names, <1>1 DEF IndInv, TypeOK, ControlInv, ConnInv, NoConnectionLeak, SubscriptionKept,
     Wanted, WillTell, Activated, SubAdd
<1> QED BY <1>1, <1>2, <1>3, <1>4, <1>5, <1>6 DEF IndInv

LEMMA SubLookKeeps ==
  ASSUME NEW a \in Agents, IndInv, SubLook(a) PROVE IndInv'
<1>1. TypeOK'
  BY Names DEF IndInv, TypeOK, ControlInv, SubLook, AfterSubscribe, Labels
<1>2. ControlInv'
  BY Names, <1>1 DEF IndInv, TypeOK, ControlInv, Activated, SubLook, AfterSubscribe
<1>3. DutyInv' /\ ConnInv'
  BY Names, <1>1 DEF IndInv, TypeOK, ControlInv, DutyInv, OnDuty, ConnInv, SubLook,
     AfterSubscribe
<1>4. FlagInv' /\ OneReconnect'
  BY Names, <1>1 DEF IndInv, TypeOK, ControlInv, DutyInv, OnDuty, FlagInv, OneReconnect,
     Reconnecting, SubLook, AfterSubscribe
<1>5. NoConnectionLeak'
  BY Names, <1>1 DEF IndInv, TypeOK, ConnInv, NoConnectionLeak, SubLook, AfterSubscribe
<1>6. SubscriptionKept'
  BY Names, <1>1 DEF IndInv, TypeOK, ControlInv, ConnInv, NoConnectionLeak, SubscriptionKept,
     Wanted, WillTell, Activated, SubLook, AfterSubscribe
<1> QED BY <1>1, <1>2, <1>3, <1>4, <1>5, <1>6 DEF IndInv

LEMMA SubWriteKeeps ==
  ASSUME NEW a \in Agents, IndInv, SubWrite(a) PROVE IndInv'
<1>1. TypeOK'
  <2>1. pc' \in [Agents -> Labels]
    BY Names DEF IndInv, TypeOK, ControlInv, SubWrite, AfterSubscribe, Write, Labels
  <2>2. at[a] \in Sessions /\ (conn # 0 => conn \in Conns)
    BY Names DEF IndInv, TypeOK, ControlInv, SubWrite, At
  <2>3. told' \in [Conns -> SUBSET Sessions]
    <3>1. CASE UNCHANGED told
      BY <3>1 DEF IndInv, TypeOK
    <3>2. CASE conn \in Conns /\ told' = [told EXCEPT ![conn] = @ \cup {at[a]}]
      <4>1. told \in [Conns -> SUBSET Sessions]
        BY DEF IndInv, TypeOK
      <4> QED BY <2>2, <3>2, <4>1
    <3> QED BY <2>2, <3>1, <3>2 DEF SubWrite, Write
  <2> QED BY <2>1, <2>3 DEF IndInv, TypeOK, SubWrite, Write, connVars
<1>2. ControlInv'
  BY Names, <1>1 DEF IndInv, TypeOK, ControlInv, Activated, SubWrite, AfterSubscribe, Write
<1>3. DutyInv' /\ ConnInv'
  BY Names, <1>1 DEF IndInv, TypeOK, ControlInv, DutyInv, OnDuty, ConnInv, SubWrite,
     AfterSubscribe, Write
<1>4. FlagInv' /\ OneReconnect'
  BY Names, <1>1 DEF IndInv, TypeOK, ControlInv, DutyInv, OnDuty, FlagInv, OneReconnect,
     Reconnecting, SubWrite, AfterSubscribe, Write
<1>5. NoConnectionLeak'
  BY Names, <1>1 DEF IndInv, TypeOK, ConnInv, NoConnectionLeak, SubWrite, AfterSubscribe, Write
<1>6. SubscriptionKept'
  BY Names, <1>1 DEF IndInv, TypeOK, ControlInv, ConnInv, NoConnectionLeak, SubscriptionKept,
     Wanted, WillTell, Activated, SubWrite, AfterSubscribe, Write
<1> QED BY <1>1, <1>2, <1>3, <1>4, <1>5, <1>6 DEF IndInv

LEMMA UnsubDeleteKeeps ==
  ASSUME NEW a \in Agents, IndInv, UnsubDelete(a) PROVE IndInv'
<1>1. TypeOK'
  BY Names DEF IndInv, TypeOK, ControlInv, UnsubDelete, Labels
<1>2. ControlInv'
  BY Names, <1>1 DEF IndInv, TypeOK, ControlInv, Activated, UnsubDelete
<1>3. DutyInv' /\ ConnInv'
  BY Names, <1>1 DEF IndInv, TypeOK, ControlInv, DutyInv, OnDuty, ConnInv, UnsubDelete
<1>4. FlagInv' /\ OneReconnect'
  BY Names, <1>1 DEF IndInv, TypeOK, ControlInv, DutyInv, OnDuty, FlagInv, OneReconnect,
     Reconnecting, UnsubDelete
<1>5. NoConnectionLeak'
  BY Names, <1>1 DEF IndInv, TypeOK, ConnInv, NoConnectionLeak, UnsubDelete
<1>6. SubscriptionKept'
  BY Names, <1>1 DEF IndInv, TypeOK, ControlInv, ConnInv, NoConnectionLeak, SubscriptionKept,
     Wanted, WillTell, Activated, UnsubDelete
<1> QED BY <1>1, <1>2, <1>3, <1>4, <1>5, <1>6 DEF IndInv

LEMMA UnsubLookKeeps ==
  ASSUME NEW a \in Agents, IndInv, UnsubLook(a) PROVE IndInv'
<1>1. TypeOK'
  BY Names DEF IndInv, TypeOK, ControlInv, UnsubLook, AfterUnsubscribe, Labels
<1>2. ControlInv'
  BY Names, <1>1 DEF IndInv, TypeOK, ControlInv, Activated, UnsubLook, AfterUnsubscribe
<1>3. DutyInv' /\ ConnInv'
  BY Names, <1>1 DEF IndInv, TypeOK, ControlInv, DutyInv, OnDuty, ConnInv, UnsubLook,
     AfterUnsubscribe
<1>4. FlagInv' /\ OneReconnect'
  BY Names, <1>1 DEF IndInv, TypeOK, ControlInv, DutyInv, OnDuty, FlagInv, OneReconnect,
     Reconnecting, UnsubLook, AfterUnsubscribe
<1>5. NoConnectionLeak'
  BY Names, <1>1 DEF IndInv, TypeOK, ConnInv, NoConnectionLeak, UnsubLook, AfterUnsubscribe
<1>6. SubscriptionKept'
  BY Names, <1>1 DEF IndInv, TypeOK, ControlInv, ConnInv, NoConnectionLeak, SubscriptionKept,
     Wanted, WillTell, Activated, UnsubLook, AfterUnsubscribe
<1> QED BY <1>1, <1>2, <1>3, <1>4, <1>5, <1>6 DEF IndInv

LEMMA UnsubWriteKeeps ==
  ASSUME NEW a \in Agents, IndInv, UnsubWrite(a) PROVE IndInv'
<1>1. TypeOK'
  <2>1. pc' \in [Agents -> Labels]
    BY Names DEF IndInv, TypeOK, ControlInv, UnsubWrite, AfterUnsubscribe, Write, Labels
  <2>2. at[a] \in Sessions /\ (conn # 0 => conn \in Conns)
    BY Names DEF IndInv, TypeOK, ControlInv, UnsubWrite, At
  <2>3. told' \in [Conns -> SUBSET Sessions]
    <3>1. CASE UNCHANGED told
      BY <3>1 DEF IndInv, TypeOK
    <3>2. CASE conn \in Conns /\ told' = [told EXCEPT ![conn] = @ \ {at[a]}]
      <4>1. told \in [Conns -> SUBSET Sessions]
        BY DEF IndInv, TypeOK
      <4> QED BY <2>2, <3>2, <4>1
    <3> QED BY <2>2, <3>1, <3>2 DEF UnsubWrite, Write
  <2> QED BY <2>1, <2>3 DEF IndInv, TypeOK, UnsubWrite, Write, connVars
<1>2. ControlInv'
  BY Names, <1>1 DEF IndInv, TypeOK, ControlInv, Activated, UnsubWrite, AfterUnsubscribe, Write
<1>3. DutyInv' /\ ConnInv'
  BY Names, <1>1 DEF IndInv, TypeOK, ControlInv, DutyInv, OnDuty, ConnInv, UnsubWrite,
     AfterUnsubscribe, Write
<1>4. FlagInv' /\ OneReconnect'
  BY Names, <1>1 DEF IndInv, TypeOK, ControlInv, DutyInv, OnDuty, FlagInv, OneReconnect,
     Reconnecting, UnsubWrite, AfterUnsubscribe, Write
<1>5. NoConnectionLeak'
  BY Names, <1>1 DEF IndInv, TypeOK, ConnInv, NoConnectionLeak, UnsubWrite, AfterUnsubscribe,
     Write
<1>6. SubscriptionKept'
  BY Names, <1>1 DEF IndInv, TypeOK, ControlInv, ConnInv, NoConnectionLeak, SubscriptionKept,
     Wanted, WillTell, Activated, UnsubWrite, AfterUnsubscribe, Write
<1> QED BY <1>1, <1>2, <1>3, <1>4, <1>5, <1>6 DEF IndInv

LEMMA StartSessionKeeps ==
  ASSUME NEW s \in Sessions, IndInv, StartSession(s) PROVE IndInv'
<1>1. TypeOK'
  BY Names DEF IndInv, TypeOK, ControlInv, StartSession, Work, Labels
<1>2. ControlInv'
  BY Names, <1>1 DEF IndInv, TypeOK, ControlInv, Activated, StartSession, Work
<1>3. DutyInv' /\ ConnInv'
  BY Names, <1>1 DEF IndInv, TypeOK, ControlInv, DutyInv, OnDuty, ConnInv, StartSession, Work
<1>4. FlagInv' /\ OneReconnect'
  BY Names, <1>1 DEF IndInv, TypeOK, ControlInv, DutyInv, OnDuty, FlagInv, OneReconnect,
     Reconnecting, StartSession, Work
<1>5. NoConnectionLeak'
  BY Names, <1>1 DEF IndInv, TypeOK, ConnInv, NoConnectionLeak, StartSession, Work
<1>6. SubscriptionKept'
  BY Names, <1>1 DEF IndInv, TypeOK, ControlInv, ConnInv, NoConnectionLeak, SubscriptionKept,
     Wanted, WillTell, Activated, StartSession, Work
<1> QED BY <1>1, <1>2, <1>3, <1>4, <1>5, <1>6 DEF IndInv

LEMMA StopSessionKeeps ==
  ASSUME NEW w \in Stoppers, NEW s \in Sessions, IndInv, StopSession(w, s) PROVE IndInv'
<1>1. TypeOK'
  BY Names DEF IndInv, TypeOK, ControlInv, StopSession, Work, Labels
<1>2. ControlInv'
  BY Names, <1>1 DEF IndInv, TypeOK, ControlInv, Activated, StopSession, Work
<1>3. DutyInv' /\ ConnInv'
  BY Names, <1>1 DEF IndInv, TypeOK, ControlInv, DutyInv, OnDuty, ConnInv, StopSession, Work
<1>4. FlagInv' /\ OneReconnect'
  BY Names, <1>1 DEF IndInv, TypeOK, ControlInv, DutyInv, OnDuty, FlagInv, OneReconnect,
     Reconnecting, StopSession, Work
<1>5. NoConnectionLeak'
  BY Names, <1>1 DEF IndInv, TypeOK, ConnInv, NoConnectionLeak, StopSession, Work
<1>6. SubscriptionKept'
  BY Names, <1>1 DEF IndInv, TypeOK, ControlInv, ConnInv, NoConnectionLeak, SubscriptionKept,
     Wanted, WillTell, Activated, StopSession, Work
<1> QED BY <1>1, <1>2, <1>3, <1>4, <1>5, <1>6 DEF IndInv

LEMMA StopDeleteKeeps ==
  ASSUME NEW w \in Stoppers, IndInv, StopDelete(w) PROVE IndInv'
<1>1. TypeOK'
  BY Names DEF IndInv, TypeOK, ControlInv, StopDelete, Labels
<1>2. ControlInv'
  BY Names, <1>1 DEF IndInv, TypeOK, ControlInv, Activated, StopDelete
<1>3. DutyInv' /\ ConnInv'
  BY Names, <1>1 DEF IndInv, TypeOK, ControlInv, DutyInv, OnDuty, ConnInv, StopDelete
<1>4. FlagInv' /\ OneReconnect'
  BY Names, <1>1 DEF IndInv, TypeOK, ControlInv, DutyInv, OnDuty, FlagInv, OneReconnect,
     Reconnecting, StopDelete
<1>5. NoConnectionLeak'
  BY Names, <1>1 DEF IndInv, TypeOK, ConnInv, NoConnectionLeak, StopDelete
<1>6. SubscriptionKept'
  BY Names, <1>1 DEF IndInv, TypeOK, ControlInv, ConnInv, NoConnectionLeak, SubscriptionKept,
     Wanted, WillTell, Activated, StopDelete
<1> QED BY <1>1, <1>2, <1>3, <1>4, <1>5, <1>6 DEF IndInv

LEMMA LinkBreaksKeeps ==
  ASSUME NEW k \in Conns, IndInv, LinkBreaks(k) PROVE IndInv'
<1>1. TypeOK'
  BY Names DEF IndInv, TypeOK, ControlInv, LinkBreaks, Labels
<1>2. ControlInv'
  BY Names, <1>1 DEF IndInv, TypeOK, ControlInv, Activated, LinkBreaks
<1>3. DutyInv' /\ ConnInv'
  BY Names, <1>1 DEF IndInv, TypeOK, ControlInv, DutyInv, OnDuty, ConnInv, LinkBreaks
<1>4. FlagInv' /\ OneReconnect'
  BY Names, <1>1 DEF IndInv, TypeOK, ControlInv, DutyInv, OnDuty, FlagInv, OneReconnect,
     Reconnecting, LinkBreaks
<1>5. NoConnectionLeak'
  BY Names, <1>1 DEF IndInv, TypeOK, ConnInv, NoConnectionLeak, LinkBreaks
<1>6. SubscriptionKept'
  BY Names, <1>1 DEF IndInv, TypeOK, ControlInv, ConnInv, NoConnectionLeak, SubscriptionKept,
     Wanted, WillTell, Activated, LinkBreaks
<1> QED BY <1>1, <1>2, <1>3, <1>4, <1>5, <1>6 DEF IndInv

LEMMA CloseStopKeeps ==
  ASSUME IndInv, CloseStop PROVE IndInv'
<1>1. TypeOK'
  BY Names DEF IndInv, TypeOK, ControlInv, CloseStop, Labels
<1>2. ControlInv'
  BY Names, <1>1 DEF IndInv, TypeOK, ControlInv, Activated, CloseStop
<1>3. DutyInv' /\ ConnInv'
  BY Names, <1>1 DEF IndInv, TypeOK, ControlInv, DutyInv, OnDuty, ConnInv, CloseStop
<1>4. FlagInv' /\ OneReconnect'
  BY Names, <1>1 DEF IndInv, TypeOK, ControlInv, DutyInv, OnDuty, FlagInv, OneReconnect,
     Reconnecting, CloseStop
<1>5. NoConnectionLeak'
  BY Names, <1>1 DEF IndInv, TypeOK, ConnInv, NoConnectionLeak, CloseStop
<1>6. SubscriptionKept'
  BY Names, <1>1 DEF IndInv, TypeOK, ControlInv, ConnInv, NoConnectionLeak, SubscriptionKept,
     Wanted, WillTell, Activated, CloseStop
<1> QED BY <1>1, <1>2, <1>3, <1>4, <1>5, <1>6 DEF IndInv

LEMMA CloseLockedKeeps ==
  ASSUME IndInv, CloseLocked PROVE IndInv'
<1>1. TypeOK'
  BY Names DEF IndInv, TypeOK, ControlInv, CloseLocked, CloseConn, Labels
<1>2. ControlInv'
  BY Names, <1>1 DEF IndInv, TypeOK, ControlInv, Activated, CloseLocked, CloseConn
<1>3. DutyInv' /\ ConnInv'
  BY Names, <1>1 DEF IndInv, TypeOK, ControlInv, DutyInv, OnDuty, ConnInv, CloseLocked,
     CloseConn
<1>4. FlagInv' /\ OneReconnect'
  BY Names, <1>1 DEF IndInv, TypeOK, ControlInv, DutyInv, OnDuty, FlagInv, OneReconnect,
     Reconnecting, CloseLocked, CloseConn
<1>5. NoConnectionLeak'
  BY Names, <1>1 DEF IndInv, TypeOK, ConnInv, NoConnectionLeak, CloseLocked, CloseConn
<1>6. SubscriptionKept'
  BY Names, <1>1 DEF IndInv, TypeOK, ControlInv, ConnInv, NoConnectionLeak, SubscriptionKept,
     Wanted, WillTell, Activated, CloseLocked, CloseConn
<1> QED BY <1>1, <1>2, <1>3, <1>4, <1>5, <1>6 DEF IndInv

(* Steps that change nothing keep everything. *)
LEMMA StutterKeeps == IndInv /\ UNCHANGED vars => IndInv'
BY DEF IndInv, TypeOK, ControlInv, Activated, DutyInv, OnDuty, FlagInv, ConnInv, OneReconnect,
       Reconnecting, NoConnectionLeak, SubscriptionKept, Wanted, WillTell, vars

LEMMA NextKeeps == IndInv /\ [Next]_vars => IndInv'
<1> SUFFICES ASSUME IndInv, [Next]_vars PROVE IndInv'
  OBVIOUS
<1>1. ASSUME NEW t \in Conns, ReaderStep(t) PROVE IndInv'
  BY <1>1, ReaderTopKeeps, ReaderFailsKeeps, ReaderStoppedKeeps, ReaderCheckKeeps DEF ReaderStep
<1>2. ASSUME NEW t \in Conns, ReconnectStep(t) PROVE IndInv'
  BY <1>2, FlagKeeps, DropKeeps, LoopKeeps, CopyKeeps, ResubKeeps, ClearKeeps DEF ReconnectStep
<1>3. ASSUME NEW t \in Threads, DialStep(t) PROVE IndInv'
  BY <1>3, DialKeeps, DialSucceedsKeeps, DialFailsKeeps DEF DialStep
<1>4. ASSUME NEW a \in Agents, SubscribeStep(a) \/ UnsubscribeStep(a) PROVE IndInv'
  BY <1>4, SubAddKeeps, SubLookKeeps, SubWriteKeeps, UnsubDeleteKeeps, UnsubLookKeeps,
     UnsubWriteKeeps DEF SubscribeStep, UnsubscribeStep
<1>5. ASSUME NEW s \in Sessions, StartSession(s) PROVE IndInv'
  BY <1>5, StartSessionKeeps
<1>6. ASSUME NEW s \in Sessions, NEW w \in Stoppers, StopSession(w, s) PROVE IndInv'
  BY <1>6, StopSessionKeeps
<1>7. ASSUME NEW w \in Stoppers, StopDelete(w) PROVE IndInv'
  BY <1>7, StopDeleteKeeps
<1>8. ASSUME NEW k \in Conns, LinkBreaks(k) PROVE IndInv'
  BY <1>8, LinkBreaksKeeps
<1>9. CASE CloseStop \/ CloseLocked
  BY <1>9, CloseStopKeeps, CloseLockedKeeps
<1>10. CASE UNCHANGED vars
  BY <1>10, StutterKeeps
<1> QED BY <1>1, <1>2, <1>3, <1>4, <1>5, <1>6, <1>7, <1>8, <1>9, <1>10 DEF Next

-----------------------------------------------------------------------------
(* The inductive invariant, of every behaviour of the client. *)
THEOREM ClientInductive == Spec => []IndInv
BY InitInv, NextKeeps, PTL DEF Spec

(* Every variable of the client keeps to its type. *)
THEOREM ClientTypes == Spec => []TypeOK
<1>1. IndInv => TypeOK
  BY DEF IndInv
<1> QED BY ClientInductive, <1>1, PTL

(* At most one goroutine reconnects, although handleMessages reads the     *)
(* flag without the mutex.                                                 *)
THEOREM OneReconnectAtATime == Spec => []OneReconnect
<1>1. IndInv => OneReconnect
  BY DEF IndInv
<1> QED BY ClientInductive, <1>1, PTL

(* An open connection is always ws.conn, where Close and reconnect find    *)
(* it: Connect never overwrites a connection that is still open.           *)
THEOREM NoLeak == Spec => []NoConnectionLeak
<1>1. IndInv => NoConnectionLeak
  BY DEF IndInv
<1> QED BY ClientInductive, <1>1, PTL

(* No subscription is lost between Subscribe and reconnect, however many   *)
(* sessions and connections there are.                                     *)
THEOREM NoLostSubscription == Spec => []SubscriptionKept
<1>1. IndInv => SubscriptionKept
  BY DEF IndInv
<1> QED BY ClientInductive, <1>1, PTL
-----------------------------------------------------------------------------
(* The refinement of Connection.  The bridge sees a step of the client     *)
(* when a connection opens, ends or carries a message, and when the client *)
(* decides to dial, fails to, or is closed.                                *)

(* Whatever else goroutines do is nothing to the bridge. *)
LEMMA Unseen ==
  ASSUME UNCHANGED <<link, told, stop>>,
         \A t \in Threads : pc'[t] \in {"dial", "dialing"} <=> pc[t] \in {"dial", "dialing"}
  PROVE  [Client!Next]_(Client!vars)
<1>1. Dialling' = Dialling
  BY DEF Dialling
<1>2. UNCHANGED <<Live, Used>>
  BY DEF Live, Used
<1> QED BY <1>1, <1>2 DEF Client!vars

(* Nobody has an open connection while a goroutine dials or is about to. *)
LEMMA NoneLive ==
  ASSUME IndInv, conn = 0 PROVE Live = {}
BY Names DEF IndInv, NoConnectionLeak, Live, Threads, Conns

LEMMA ReaderRefines ==
  ASSUME IndInv, NEW t \in Conns, ReaderStep(t) PROVE [Client!Next]_(Client!vars)
<1>1. UNCHANGED <<link, told, stop>>
  BY DEF ReaderStep, ReaderTop, ReaderFails, ReaderStopped, ReaderCheck
<1>2. \A u \in Threads : pc'[u] \in {"dial", "dialing"} <=> pc[u] \in {"dial", "dialing"}
  BY Names DEF IndInv, TypeOK, ControlInv, ReaderStep, ReaderTop, ReaderFails, ReaderStopped,
     ReaderCheck
<1> QED BY <1>1, <1>2, Unseen

LEMMA LoopRefines ==
  ASSUME IndInv, NEW t \in Conns, Loop(t) PROVE [Client!Next]_(Client!vars)
<1>1. CASE stop
  <2>1. UNCHANGED <<link, told, stop>>
    BY DEF Loop
  <2>2. \A u \in Threads : pc'[u] \in {"dial", "dialing"} <=> pc[u] \in {"dial", "dialing"}
    BY <1>1, Names DEF IndInv, TypeOK, Loop
  <2> QED BY <2>1, <2>2, Unseen
<1>2. CASE ~stop
  <2>1. conn = 0 /\ ~Dialling
    BY Names DEF IndInv, ConnInv, DutyInv, OnDuty, Loop, Dialling
  <2>2. Dialling'
    BY <1>2, Names DEF IndInv, TypeOK, Loop, Dialling
  <2>3. UNCHANGED <<Live, Used, told, stop>>
    BY DEF Loop, Live, Used
  <2> QED BY <1>2, <2>1, <2>2, <2>3, NoneLive DEF Client!Next, Client!Decide
<1> QED BY <1>1, <1>2

LEMMA DropRefines ==
  ASSUME IndInv, CloseConn, UNCHANGED stop, 
         \A t \in Threads : pc'[t] \in {"dial", "dialing"} <=> pc[t] \in {"dial", "dialing"}
  PROVE  [Client!Next]_(Client!vars)
<1>1. CASE conn = 0 \/ link[conn] \in {"broken", "closed"}
  <2>1. UNCHANGED <<Live, Used>>
    BY <1>1, Names DEF IndInv, TypeOK, CloseConn, Live, Used
  <2>2. UNCHANGED <<told, stop, Dialling>>
    BY DEF CloseConn, Dialling
  <2> QED BY <2>1, <2>2 DEF Client!vars
<1>2. CASE conn # 0 /\ link[conn] = "open"
  <2>1. conn \in Conns /\ conn \in Live
    BY <1>2, Names DEF IndInv, TypeOK, Live
  <2>2. Live' = Live \ {conn} /\ Used' = Used
    BY <1>2, Names DEF IndInv, TypeOK, CloseConn, Live, Used
  <2>3. UNCHANGED <<told, stop, Dialling>>
    BY DEF CloseConn, Dialling
  <2> QED BY <2>1, <2>2, <2>3 DEF Client!Next, Client!End
<1>3. conn # 0 => link[conn] # "unused"
  BY Names DEF IndInv, TypeOK, DutyInv, Threads, Conns
<1> QED BY <1>1, <1>2, <1>3, Names DEF IndInv, TypeOK

(* reconnect, but for its dialling. *)
LEMMA ReconnectRefines ==
  ASSUME IndInv, NEW t \in Conns, ReconnectStep(t) PROVE [Client!Next]_(Client!vars)
<1>1. CASE Flag(t) \/ Copy(t) \/ Resub(t) \/ Clear(t)
  <2>1. UNCHANGED <<link, told, stop>>
    BY <1>1 DEF Flag, Copy, Resub, Clear
  <2>2. \A u \in Threads : pc'[u] \in {"dial", "dialing"} <=> pc[u] \in {"dial", "dialing"}
    BY <1>1, Names DEF IndInv, TypeOK, Flag, Copy, Resub, Clear, Work
  <2> QED BY <2>1, <2>2, Unseen
<1>2. CASE Drop(t)
  <2>1. \A u \in Threads : pc'[u] \in {"dial", "dialing"} <=> pc[u] \in {"dial", "dialing"}
    BY <1>2, Names DEF IndInv, TypeOK, Drop
  <2> QED BY <1>2, <2>1, DropRefines DEF Drop
<1> QED BY <1>1, <1>2, LoopRefines DEF ReconnectStep

LEMMA DialRefines ==
  ASSUME IndInv, NEW t \in Threads, DialStep(t) PROVE [Client!Next]_(Client!vars)
<1>1. CASE Dial(t)
  <2>1. \A u \in Threads : pc'[u] \in {"dial", "dialing"} <=> pc[u] \in {"dial", "dialing"}
    BY <1>1, Names DEF IndInv, TypeOK, Dial
  <2> QED BY <1>1, <2>1, Unseen DEF Dial
<1>2. CASE DialSucceeds(t) \/ DialFails(t)
  <2>1. pc[t] = "dialing" /\ conn = 0
    BY <1>2 DEF IndInv, ConnInv, DialSucceeds, DialFails
  <2>2. Dialling /\ Live = {}
    BY <2>1, NoneLive DEF Dialling
  <2>3. \A u \in Threads : pc[u] \in {"dial", "dialing"} => u = t
    BY <2>1 DEF IndInv, DutyInv, OnDuty
  <2>4. ~Dialling'
    BY <1>2, <2>1, <2>3, Names DEF IndInv, TypeOK, DialSucceeds, DialFails, Dialling
  <2>5. CASE DialSucceeds(t)
    <3> DEFINE k == nconn + 1
    <3>1. k \in Conns /\ k \notin Used
      BY <2>5, ClientAssumption DEF IndInv, TypeOK, DutyInv, DialSucceeds, Used, Threads, Conns
    <3>2. link' = [link EXCEPT ![k] = "open"] /\ UNCHANGED <<told, stop>>
      BY <2>5 DEF DialSucceeds
    <3>3. Live' = {k} /\ Used' = Used \cup {k}
      BY <2>2, <3>1, <3>2 DEF IndInv, TypeOK, Live, Used
    <3> HIDE DEF k
    <3> QED BY <2>2, <2>4, <3>1, <3>2, <3>3 DEF Client!Next, Client!Open
  <2>6. CASE DialFails(t)
    <3>1. UNCHANGED <<Live, Used, told, stop>>
      BY <2>6 DEF DialFails, Live, Used
    <3> QED BY <2>2, <2>4, <3>1 DEF Client!Next, Client!Refused
  <2> QED BY <1>2, <2>5, <2>6
<1> QED BY <1>1, <1>2 DEF DialStep

(* Subscribe and Unsubscribe speak on ws.conn, if it is open. *)
LEMMA WriteRefines ==
  ASSUME IndInv, NEW s \in Sessions, NEW a \in Agents, NEW labels \in SUBSET Labels, 
         At(a, "sub_write") \/ At(a, "unsub_write"),
         labels \cap {"dial", "dialing"} = {},
         NEW S \in {told[conn] \cup {s}, told[conn] \ {s}}, Write(a, labels, S)
  PROVE  [Client!Next]_(Client!vars)
<1>1. \A u \in Threads : pc'[u] \in {"dial", "dialing"} <=> pc[u] \in {"dial", "dialing"}
  BY Names DEF IndInv, TypeOK, Write
<1>2. UNCHANGED <<link, stop>>
  BY DEF Write
<1>3. CASE told' = told
  BY <1>1, <1>2, <1>3, Unseen
<1>4. CASE told' # told
  <2>1. conn \in Conns /\ conn \in Live /\ told' = [told EXCEPT ![conn] = S]
    BY <1>4, Names DEF IndInv, TypeOK, Write, Live
  <2>2. UNCHANGED <<Live, Used, Dialling, stop>>
    BY <1>1, <1>2 DEF Live, Used, Dialling
  <2>3. Client!Tell(conn, S)
    BY <2>1, <2>2 DEF Client!Tell
  <2> QED BY <2>1, <2>3 DEF Client!Next
<1> QED BY <1>3, <1>4

LEMMA SubscribeRefines ==
  ASSUME IndInv, NEW a \in Agents, SubscribeStep(a) \/ UnsubscribeStep(a)
  PROVE  [Client!Next]_(Client!vars)
<1>1. CASE SubAdd(a) \/ SubLook(a) \/ UnsubDelete(a) \/ UnsubLook(a)
  <2>1. UNCHANGED <<link, told, stop>>
    BY <1>1 DEF SubAdd, SubLook, UnsubDelete, UnsubLook
  <2>2. \A u \in Threads : pc'[u] \in {"dial", "dialing"} <=> pc[u] \in {"dial", "dialing"}
    BY <1>1, Names DEF IndInv, TypeOK, SubAdd, SubLook, UnsubDelete, UnsubLook, AfterSubscribe,
       AfterUnsubscribe
  <2> QED BY <2>1, <2>2, Unseen
<1>2. CASE SubWrite(a)
  <2>1. at[a] \in Sessions
    BY <1>2 DEF IndInv, ControlInv, SubWrite
  <2> QED BY <1>2, <2>1, WriteRefines DEF SubWrite, AfterSubscribe, Labels
<1>3. CASE UnsubWrite(a)
  <2>1. at[a] \in Sessions
    BY <1>3 DEF IndInv, ControlInv, UnsubWrite
  <2> QED BY <1>3, <2>1, WriteRefines DEF UnsubWrite, AfterUnsubscribe, Labels
<1> QED BY <1>1, <1>2, <1>3 DEF SubscribeStep, UnsubscribeStep

LEMMA CommandRefines ==
  ASSUME IndInv,
         \/ \E s \in Sessions : StartSession(s) \/ \E w \in Stoppers : StopSession(w, s)
         \/ \E w \in Stoppers : StopDelete(w)
  PROVE  [Client!Next]_(Client!vars)
<1>1. UNCHANGED <<link, told, stop>>
  BY DEF StartSession, StopSession, StopDelete
<1>2. \A u \in Threads : pc'[u] \in {"dial", "dialing"} <=> pc[u] \in {"dial", "dialing"}
  BY Names DEF IndInv, TypeOK, ControlInv, StartSession, StopSession, StopDelete, Work
<1> QED BY <1>1, <1>2, Unseen

LEMMA CloseRefines ==
  ASSUME IndInv, CloseStop \/ CloseLocked PROVE [Client!Next]_(Client!vars)
<1>1. CASE CloseStop
  <2>1. UNCHANGED <<Live, Used, Dialling, told>> /\ stop'
    BY <1>1 DEF CloseStop, Live, Used, Dialling
  <2> QED BY <2>1 DEF Client!Next, Client!Close
<1>2. CASE CloseLocked
  BY <1>2, DropRefines DEF CloseLocked
<1> QED BY <1>1, <1>2

LEMMA BreakRefines ==
  ASSUME IndInv, NEW k \in Conns, LinkBreaks(k) PROVE [Client!Next]_(Client!vars)
<1>1. k \in Live /\ Live' = Live \ {k} /\ Used' = Used
  BY DEF IndInv, TypeOK, LinkBreaks, Live, Used
<1>2. UNCHANGED <<Dialling, told, stop>>
  BY DEF LinkBreaks, Dialling
<1> QED BY <1>1, <1>2 DEF Client!Next, Client!End

LEMMA StepRefines == IndInv /\ [Next]_vars => [Client!Next]_(Client!vars)
<1> SUFFICES ASSUME IndInv, [Next]_vars PROVE [Client!Next]_(Client!vars)
  OBVIOUS
<1>1. CASE UNCHANGED vars
  BY <1>1, Unseen DEF vars
<1> QED
  BY <1>1, ReaderRefines, ReconnectRefines, DialRefines, SubscribeRefines,
     CommandRefines, BreakRefines, CloseRefines DEF Next

(* The client keeps the promise of Connection to the bridge, whatever its  *)
(* goroutines do: one connection at a time, nothing said on one that is    *)
(* gone, and after Close at most the connection that was being dialled.    *)
THEOREM ClientRefines == Spec => ImplementsConnection
<1>1. Init => Client!Init
  <2> SUFFICES ASSUME Init PROVE Client!Init
    OBVIOUS
  <2>1. Live = {} /\ Used = {}
    BY DEF Init, Live, Used
  <2>2. Dialling
    BY Names DEF Init, Dialling
  <2> QED BY <2>1, <2>2 DEF Init, Client!Init
<1> QED BY <1>1, StepRefines, ClientInductive, PTL DEF Spec, ImplementsConnection, Client!Spec
=============================================================================
