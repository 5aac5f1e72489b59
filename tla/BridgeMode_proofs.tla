------------------------- MODULE BridgeMode_proofs -------------------------
(***************************************************************************)
(* Proofs about bridge mode.  Every step of BridgeMode is a step of        *)
(* BridgeServer or leaves its variables alone, so the invariant of the     *)
(* bridge is kept by what BridgeServer_proofs proves of it.  The rest of   *)
(* IndInv needs only what a step of the bridge never undoes (Grows); there *)
(* is one lemma for each group of actions of the plugin.                   *)
(***************************************************************************)
EXTENDS BridgeMode, TLAPS

(* The bridge again, with its proofs. *)
BridgeProofs == INSTANCE BridgeServer_proofs WITH Clients <- {Plugin}

-----------------------------------------------------------------------------
(* The bridge.                                                             *)

(* What Bridge and BridgeProofs define is the same. *)
LEMMA BridgeSame ==
  /\ BridgeProofs!IndInv <=> Bridge!IndInv
  /\ BridgeProofs!IndInv' <=> Bridge!IndInv'
BY DEF BridgeProofs!IndInv, Bridge!IndInv, BridgeProofs!TypeOK, Bridge!TypeOK,
   BridgeProofs!SessionInv, Bridge!SessionInv, BridgeProofs!TableIsActive,
   Bridge!TableIsActive, BridgeProofs!NoStrayProcess, Bridge!NoStrayProcess

LEMMA VarsSame == BridgeProofs!vars = Bridge!vars /\ BridgeProofs!vars' = Bridge!vars'
BY DEF BridgeProofs!vars, Bridge!vars, BridgeProofs!procVars, Bridge!procVars,
   BridgeProofs!wsVars, Bridge!wsVars

LEMMA NextSame == BridgeProofs!Next <=> Bridge!Next
<1>1. \A s \in Sessions : BridgeProofs!Request(s) <=> Bridge!Request(s)
  BY DEF BridgeProofs!Request, Bridge!Request, BridgeProofs!CreateSession,
     Bridge!CreateSession, BridgeProofs!Spawned, Bridge!Spawned,
     BridgeProofs!NotSpawned, Bridge!NotSpawned, BridgeProofs!GetSession,
     Bridge!GetSession, BridgeProofs!DeleteSession, Bridge!DeleteSession,
     BridgeProofs!Kill, Bridge!Kill, BridgeProofs!SendMessage, Bridge!SendMessage,
     BridgeProofs!SendInput, Bridge!SendInput, BridgeProofs!ShutsDown,
     Bridge!ShutsDown, BridgeProofs!Ends, Bridge!Ends, BridgeProofs!DecideChange,
     Bridge!DecideChange, BridgeProofs!procVars, Bridge!procVars,
     BridgeProofs!wsVars, Bridge!wsVars
<1>2. \A s \in Sessions :
         /\ BridgeProofs!CliExit(s) <=> Bridge!CliExit(s)
         /\ BridgeProofs!ExitEvent(s) <=> Bridge!ExitEvent(s)
  BY DEF BridgeProofs!CliExit, Bridge!CliExit, BridgeProofs!ExitEvent,
     Bridge!ExitEvent, BridgeProofs!Subscribers, Bridge!Subscribers,
     BridgeProofs!procVars, Bridge!procVars, BridgeProofs!wsVars, Bridge!wsVars
<1>3. \A c \in {Plugin} :
         /\ BridgeProofs!Connect(c) <=> Bridge!Connect(c)
         /\ BridgeProofs!Unsubscribe(c) <=> Bridge!Unsubscribe(c)
         /\ BridgeProofs!Disconnect(c) <=> Bridge!Disconnect(c)
         /\ \A s \in Sessions : BridgeProofs!Subscribe(c, s) <=> Bridge!Subscribe(c, s)
  BY DEF BridgeProofs!Connect, Bridge!Connect, BridgeProofs!Unsubscribe,
     Bridge!Unsubscribe, BridgeProofs!Disconnect, Bridge!Disconnect,
     BridgeProofs!Subscribe, Bridge!Subscribe, BridgeProofs!procVars,
     Bridge!procVars, BridgeProofs!wsVars, Bridge!wsVars
<1>4. /\ BridgeProofs!Shutdown <=> Bridge!Shutdown
      /\ BridgeProofs!Crash <=> Bridge!Crash
      /\ BridgeProofs!Restart <=> Bridge!Restart
  BY DEF BridgeProofs!Shutdown, Bridge!Shutdown, BridgeProofs!Crash, Bridge!Crash,
     BridgeProofs!Restart, Bridge!Restart, BridgeProofs!ShutsDown,
     Bridge!ShutsDown, BridgeProofs!Ends, Bridge!Ends, BridgeProofs!procVars,
     Bridge!procVars, BridgeProofs!wsVars, Bridge!wsVars
<1> QED BY <1>1, <1>2, <1>3, <1>4 DEF BridgeProofs!Next, Bridge!Next

(* The invariant of the bridge, from its own module. *)
LEMMA BridgeKeeps == Bridge!IndInv /\ [Bridge!Next]_(Bridge!vars) => Bridge!IndInv'
<1>1. BridgeProofs!BridgeAssumption
  BY ModeAssumption DEF BridgeProofs!BridgeAssumption
<1>2. BridgeProofs!IndInv /\ [BridgeProofs!Next]_(BridgeProofs!vars)
        => BridgeProofs!IndInv'
  BY <1>1, BridgeProofs!NextKeeps
<1> QED BY <1>2, BridgeSame, NextSame, VarsSame

(* What no step of the bridge undoes, for the sessions that were created. *)
Grows ==
  /\ reported \subseteq reported'
  /\ \A s \in Sessions : proc[s] # "none" =>
       /\ proc'[s] # "none"
       /\ s \in table' => s \in table
       /\ s \in stored \/ db[s] = "none" => s \in stored' \/ db'[s] = "none"

USE DEF Bridge!procVars, Bridge!wsVars

(* What a step of the bridge does to the connection of the plugin, unless  *)
(* it is a message of the plugin: nothing, or it ends it.                  *)
LinkKept == open' = {} \/ UNCHANGED <<open, sub>>

LEMMA RequestGrows ==
  ASSUME Bridge!IndInv, NEW s \in Sessions, Bridge!Request(s) PROVE Grows
BY DEF Grows, Bridge!IndInv, Bridge!TypeOK, Bridge!SessionInv, Bridge!Request,
   Bridge!CreateSession, Bridge!Spawned, Bridge!NotSpawned, Bridge!GetSession,
   Bridge!DeleteSession, Bridge!Kill, Bridge!SendMessage, Bridge!SendInput,
   Bridge!ShutsDown, Bridge!Ends, Bridge!DecideChange

LEMMA BridgeGrows == Bridge!IndInv /\ [Bridge!Next]_(Bridge!vars) => Grows
<1> SUFFICES ASSUME Bridge!IndInv, [Bridge!Next]_(Bridge!vars) PROVE Grows
  OBVIOUS
<1>1. CASE \E s \in Sessions : Bridge!Request(s)
  BY <1>1, RequestGrows
<1>2. CASE \E s \in Sessions : Bridge!CliExit(s) \/ Bridge!ExitEvent(s)
  BY <1>2 DEF Grows, Bridge!IndInv, Bridge!TypeOK, Bridge!SessionInv,
     Bridge!CliExit, Bridge!ExitEvent
<1>3. CASE Bridge!Shutdown \/ Bridge!Crash \/ Bridge!Restart
  BY <1>3 DEF Grows, Bridge!Shutdown, Bridge!Crash, Bridge!Restart,
     Bridge!ShutsDown, Bridge!Ends
<1>4. CASE UNCHANGED <<proc, table, reported, stored, db>>
  BY <1>4 DEF Grows
<1> QED
  BY <1>1, <1>2, <1>3, <1>4 DEF Bridge!Next, Bridge!vars, Bridge!Connect,
     Bridge!Unsubscribe, Bridge!Disconnect, Bridge!Subscribe

(* What the plugin may count on when a request was handled, refused or     *)
(* sent.                                                                   *)
LEMMA HandleFacts ==
  ASSUME NEW s \in Sessions, NEW request \in Requests, Bridge!IndInv, Handle(request, s)
  PROVE  /\ [Bridge!Next]_(Bridge!vars)
         /\ request = "delete" => s \notin table'
         /\ request = "message" => s \in stored'
         /\ request = "create" => proc'[s] # "none"
         /\ LinkKept
<1>1. [Bridge!Next]_(Bridge!vars)
  BY DEF Handle, Bridge!Next, Bridge!Request, Bridge!vars, bridgeVars
<1>2. request = "delete" => s \notin table'
  BY DEF Handle, Bridge!DeleteSession, Bridge!Kill
<1>3. request = "message" => s \in stored'
  BY DEF Handle, Bridge!SendMessage
<1>4. request = "create" => proc'[s] # "none"
  BY DEF Handle, Bridge!CreateSession, Bridge!Spawned, Bridge!NotSpawned,
     Bridge!IndInv, Bridge!TypeOK
<1>5. LinkKept
  BY DEF Handle, LinkKept, bridgeVars, Bridge!CreateSession, Bridge!DeleteSession,
     Bridge!SendMessage, Bridge!DecideChange, Bridge!GetSession, Bridge!SendInput,
     Bridge!ShutsDown, Bridge!Ends
<1> QED BY <1>1, <1>2, <1>3, <1>4, <1>5

LEMMA RejectFacts ==
  ASSUME NEW s \in Sessions, Bridge!IndInv, Rejects("delete", s) PROVE s \notin table
BY DEF Rejects, Bridge!IndInv, Bridge!TypeOK, Bridge!SessionInv,
   Bridge!TableIsActive

(* No DELETE the plugin has given up is forgotten. *)
LateKept ==
  /\ late' \subseteq Requests \X Sessions /\ moves' \in Nat
  /\ \A r \in Sessions : <<"delete", r>> \in late => <<"delete", r>> \in late'

LEMMA RequestFacts ==
  ASSUME IndInv, NEW s \in Sessions, NEW request \in Requests,
         Answered(request, s) \/ Failed(request, s)
  PROVE  /\ LateKept /\ LinkKept
         /\ (request = "delete" => s \notin table' \/ <<"delete", s>> \in late')
<1>1. CASE Answered(request, s)
  BY <1>1, HandleFacts DEF Answered, netVars, IndInv, TypeOK, LateKept
<1>2. CASE Rejects(request, s) /\ UNCHANGED <<bridgeVars, netVars>>
  BY <1>2, RejectFacts DEF bridgeVars, netVars, IndInv, TypeOK, LateKept, LinkKept
<1>3. CASE Lost(request, s)
  BY <1>3 DEF Lost, Counted, bridgeVars, IndInv, TypeOK, LateKept, LinkKept
<1> QED BY <1>1, <1>2, <1>3 DEF Failed

(* Vocabulary that is expanded everywhere below. *)
USE DEF Agents, Labels, StartLabels, StopLabels, SendLabels, ReadLabels,
        ReaderLabels, bridgeVars, kvVars, lifeVars, wsVars, netVars, cmdVars, At, Goto,
        GotoWith, Return, Counted, StoreWorks, StoreFails

-----------------------------------------------------------------------------
(* Who is listened to.                                                     *)

(* Where the plugin sends nothing, it goes on listening to all but a        *)
(* session it unsubscribes.                                                *)
LEMMA ListenersStay ==
  ASSUME LinkKept, todo' = todo, masked' = masked,
         pc'[Redial] = pc[Redial], sess'[Redial] = sess[Redial]
  PROVE  \A s \in Sessions : Listening(s) /\ s \in subs' => Listening(s)'
BY DEF LinkKept, Listening, Renewing

(* An unsubscription may silence the bridge about other sessions: it takes  *)
(* their place.                                                            *)
LEMMA UnsubscribeMasks ==
  ASSUME TypeOK, NEW a \in Agents, NEW from, NEW next, UnsubWrite(a, from, next),
         pc'[Redial] = pc[Redial], sess'[Redial] = sess[Redial]
  PROVE  \A s \in Sessions : Listening(s) /\ s # sess[a] => Listening(s)'
BY ModeAssumption DEF UnsubWrite, Send, TakenBy, Bridge!Unsubscribe, Bridge!TypeOK,
   TypeOK, Listening, Renewing

(* So may a subscription, and its own session is listened to from now on.   *)
LEMMA MaskedType ==
  ASSUME TypeOK, NEW a \in Agents, NEW from, NEW next, UnsubWrite(a, from, next)
  PROVE  masked' \subseteq Sessions
BY DEF UnsubWrite, TakenBy, Bridge!TypeOK, TypeOK

LEMMA SubscribeMasks ==
  ASSUME TypeOK, NEW a \in Cmds \cup {Redial}, SubWrite(a), sess[a] \in Sessions
  PROVE  /\ \A s \in Sessions : Listening(s) => Listening(s)'
         /\ \A s \in Sessions : s = sess[a] /\ s \in subs => Listening(s)'
BY ModeAssumption DEF SubWrite, Send, TakenBy, Bridge!Subscribe, Bridge!TypeOK,
   TypeOK, Listening, Renewing

(* A new connection has no subscriptions; reconnect is to renew them all,   *)
(* and does.                                                               *)
LEMMA RenewalListens ==
  ASSUME TypeOK, Reconnect \/ Renew
  PROVE  \A s \in Sessions : Listening(s) => Listening(s)'
BY ModeAssumption DEF Reconnect, Renew, Bridge!Connect, Bridge!TypeOK, TypeOK,
   Listening, Renewing

-----------------------------------------------------------------------------
(* The invariant, action by action: the rest of the world, the WebSocket   *)
(* client, the commands.                                                   *)

(* Only the bridge moves, and of the requests on their way it forgets no   *)
(* DELETE but one it has handled.                                          *)
LEMMA FrameKeeps ==
  ASSUME IndInv, Grows, Bridge!IndInv',
         UNCHANGED <<kvVars, lifeVars, wsVars, cmdVars>>, late' \subseteq late,
         moves' \in Nat, LinkKept,
         \A s \in Sessions :
           <<"delete", s>> \in late => <<"delete", s>> \in late' \/ s \notin table'
  PROVE  IndInv'
<1>1. TypeOK'
  BY ModeAssumption DEF IndInv, Bridge!IndInv, TypeOK, ControlInv
<1>2. ControlInv' /\ KnownInv'
  BY DEF IndInv, TypeOK, ControlInv, KnownInv, Grows
<1>3. StarterInv'
  BY ModeAssumption DEF IndInv, ControlInv, KnownInv, StarterInv, Saved, Grows
<1>4. SavedInv'
  <2>1. \A s \in Sessions : Listening(s) => Listening(s)'
    BY ListenersStay DEF Listening
  <2> QED
    BY <2>1, ModeAssumption DEF IndInv, KnownInv, SavedInv, Saved, Saving, StopUnderWay,
       Grows
<1>5. StoreInv' /\ HistoryIsBacked'
  BY ModeAssumption DEF IndInv, TypeOK, ControlInv, KnownInv, StoreInv,
     HistoryIsBacked, Grows
<1> QED BY <1>1, <1>2, <1>3, <1>4, <1>5 DEF IndInv

(* A status is sent only of a session whose exit was reported. *)
LEMMA ExitEventKeeps ==
  ASSUME IndInv, Grows, Bridge!IndInv', NEW s \in Sessions, ExitEvent(s)
  PROVE  IndInv'
<1>1. TypeOK'
  BY DEF IndInv, Bridge!IndInv, TypeOK, ExitEvent
<1>2. ControlInv' /\ KnownInv'
  BY DEF IndInv, ControlInv, KnownInv, ExitEvent, Bridge!ExitEvent
<1>3. StarterInv'
  BY DEF IndInv, StarterInv, Saved, ExitEvent, Bridge!ExitEvent
<1>4. SavedInv'
  <2>1. \A r \in Sessions : Listening(r) => Listening(r)'
    BY ListenersStay DEF Listening, LinkKept, ExitEvent, Bridge!ExitEvent
  <2> QED
    BY <2>1 DEF IndInv, SavedInv, Saved, Saving, StopUnderWay, ExitEvent,
       Bridge!ExitEvent
<1>5. StoreInv' /\ HistoryIsBacked'
  BY DEF IndInv, StoreInv, HistoryIsBacked, ExitEvent, Bridge!ExitEvent
<1> QED BY <1>1, <1>2, <1>3, <1>4, <1>5 DEF IndInv

LEMMA LateRequestKeeps ==
  ASSUME IndInv, Grows, Bridge!IndInv', NEW s \in Sessions, NEW request \in Requests,
         LateRequest(request, s)
  PROVE  IndInv'
<1>1. LinkKept /\ (request = "delete" => s \notin table')
  BY HandleFacts DEF LateRequest, IndInv
<1>2. /\ late' \subseteq late
      /\ \A r \in Sessions : <<"delete", r>> \in late =>
           <<"delete", r>> \in late' \/ r \notin table'
  BY <1>1 DEF LateRequest
<1>3. UNCHANGED <<kvVars, lifeVars, wsVars, cmdVars>> /\ moves' \in Nat
  BY DEF LateRequest, IndInv, TypeOK
<1> QED BY <1>1, <1>2, <1>3, FrameKeeps

(* The plugin forgets everything but its store, and all the sessions there *)
(* are belong to an earlier life from now on.                              *)
LEMMA PluginEndsKeeps ==
  ASSUME IndInv, Grows, Bridge!IndInv', PluginEnds
  PROVE  IndInv'
<1>1. TypeOK'
  <2>1. moves' \in Nat
    BY DEF IndInv, TypeOK, PluginEnds
  <2> QED BY <2>1 DEF IndInv, Bridge!IndInv, TypeOK, PluginEnds, Everybody
<1>2. ControlInv' /\ KnownInv'
  BY DEF IndInv, TypeOK, ControlInv, KnownInv, Grows, PluginEnds, Everybody
<1>3. StarterInv'
  BY DEF StarterInv, PluginEnds, Everybody
<1>4. SavedInv'
  BY ModeAssumption DEF IndInv, KnownInv, SavedInv, Saved, Saving, PluginEnds, Everybody
<1>5. StoreInv' /\ HistoryIsBacked'
  BY DEF IndInv, TypeOK, KnownInv, StoreInv, HistoryIsBacked, Grows, PluginEnds,
     Everybody
<1> QED BY <1>1, <1>2, <1>3, <1>4, <1>5 DEF IndInv

(* The plugin starts, connects again, takes up the subscriptions one by    *)
(* one.                                                                    *)
LEMMA ConnectionKeeps ==
  ASSUME IndInv, Grows, Bridge!IndInv', PluginStarts \/ Reconnect \/ Renew
  PROVE  IndInv'
<1>1. TypeOK'
  <2>1. CASE PluginStarts
    BY <2>1 DEF IndInv, Bridge!IndInv, TypeOK, PluginStarts
  <2>2. CASE Reconnect
    BY <2>2 DEF IndInv, Bridge!IndInv, TypeOK, Reconnect
  <2>3. CASE Renew
    BY <2>3 DEF IndInv, Bridge!IndInv, TypeOK, Renew
  <2> QED BY <2>1, <2>2, <2>3
<1>2. ControlInv' /\ KnownInv'
  BY ModeAssumption DEF IndInv, TypeOK, ControlInv, KnownInv, Grows, PluginStarts,
     Reconnect, Renew
<1>3. StarterInv'
  BY ModeAssumption DEF IndInv, TypeOK, ControlInv, KnownInv, StarterInv, Saved,
     Grows, PluginStarts, Reconnect, Renew
<1>4. SavedInv'
  <2>1. \A s \in Sessions : Listening(s) => Listening(s)'
    <3>1. CASE PluginStarts
      BY <3>1, ListenersStay DEF PluginStarts, Listening, LinkKept
    <3> QED BY <3>1, RenewalListens DEF IndInv
  <2> QED
    BY <2>1, ModeAssumption DEF IndInv, TypeOK, KnownInv, SavedInv, Saved, Saving,
       StopUnderWay, Grows, PluginStarts, Reconnect, Renew
<1>5. StoreInv' /\ HistoryIsBacked'
  BY ModeAssumption DEF IndInv, TypeOK, ControlInv, KnownInv, StoreInv,
     HistoryIsBacked, Grows, PluginStarts, Reconnect, Renew
<1> QED BY <1>1, <1>2, <1>3, <1>4, <1>5 DEF IndInv

(* A starter that has subscribed its session is heard. *)
LEMMA SubscribeKeeps ==
  ASSUME IndInv, Grows, Bridge!IndInv', NEW a \in Cmds \cup {Redial},
         SubAdd(a) \/ SubWrite(a)
  PROVE  IndInv'
<1>1. TypeOK'
  <2>1. masked' \subseteq Sessions
    BY DEF IndInv, TypeOK, Bridge!TypeOK, SubAdd, SubWrite, TakenBy
  <2> QED BY <2>1 DEF IndInv, Bridge!IndInv, TypeOK, ControlInv, SubAdd, SubWrite
<1>2. ControlInv' /\ KnownInv'
  BY ModeAssumption DEF IndInv, TypeOK, ControlInv, KnownInv, Grows, SubAdd,
     SubWrite
<1>3. StarterInv'
  BY ModeAssumption DEF IndInv, TypeOK, ControlInv, KnownInv, StarterInv, Saved,
     Grows, SubAdd, SubWrite
<1>4. SavedInv'
  <2>1. CASE SubAdd(a)
    <3>1. \A s \in Sessions : Listening(s) => Listening(s)'
      BY <2>1, ModeAssumption DEF SubAdd, IndInv, TypeOK, Listening, Renewing
    <3> QED
      BY <2>1, <3>1, ModeAssumption DEF IndInv, TypeOK, ControlInv, KnownInv, SavedInv,
         Saved, Saving, StopUnderWay, Grows, SubAdd
  <2>2. CASE SubWrite(a)
    <3>1. sess[a] \in Sessions
      BY <2>2 DEF SubWrite, IndInv, ControlInv
    <3>2. /\ \A s \in Sessions : Listening(s) => Listening(s)'
          /\ \A s \in Sessions : s = sess[a] /\ s \in subs => Listening(s)'
      BY <2>2, <3>1, SubscribeMasks DEF IndInv
    <3>3. \A s \in Sessions : StopUnderWay(s) => StopUnderWay(s)'
      BY <2>2, ModeAssumption DEF IndInv, TypeOK, StopUnderWay, SubWrite
    <3>4. \A s \in Sessions : Saved(s)' => Saved(s)
      BY <2>2, ModeAssumption DEF IndInv, TypeOK, Saved, SubWrite
    <3>5. \A s \in Sessions :
             Saving(s)' => Saving(s) \/ (s = sess[a] /\ a \in Cmds /\ pc[a] = "sub_write")
      <4>1. CASE a = Redial
        <5>1. \A b \in Cmds : pc'[b] = pc[b] /\ sess'[b] = sess[b]
          BY <2>2, <4>1, ModeAssumption DEF IndInv, TypeOK, SubWrite
        <5>2. \A s \in Sessions : Saving(s)' => Saving(s)
          BY <5>1 DEF Saving
        <5> QED BY <5>2
      <4>2. CASE a # Redial
        BY <2>2, <4>2, ModeAssumption DEF IndInv, TypeOK, Saving, SubWrite
      <4> QED BY <4>1, <4>2
    <3>6. \A s \in Sessions :
             Saving(s)' => proc[s] # "none" /\ (s \in table' => s \in table)
      BY <2>2, <3>5, ModeAssumption DEF IndInv, TypeOK, KnownInv, Saving, Grows
    <3>7. \A s \in Sessions : Saved(s) => proc[s] # "none"
      BY ModeAssumption DEF IndInv, TypeOK, KnownInv, Saved
    <3>8. ASSUME NEW s \in Sessions, Saved(s)' \/ Saving(s)', s \in table' \ earlier'
          PROVE  Listening(s)' \/ StopUnderWay(s)'
      <4>1. s \in table \ earlier
        BY <2>2, <3>4, <3>6, <3>7, <3>8 DEF Grows, SubWrite
      <4>2. CASE Saved(s) \/ Saving(s)
        <5>1. Listening(s) \/ StopUnderWay(s)
          BY <4>1, <4>2 DEF IndInv, SavedInv
        <5> QED BY <3>2, <3>3, <5>1
      <4>3. CASE s = sess[a] /\ a \in Cmds /\ pc[a] = "sub_write"
        BY <3>2, <4>1, <4>3 DEF IndInv, StarterInv
      <4> QED BY <3>4, <3>5, <3>8, <4>2, <4>3
    <3> QED BY <3>8 DEF SavedInv
  <2> QED BY <2>1, <2>2
<1>5. StoreInv' /\ HistoryIsBacked'
  BY ModeAssumption DEF IndInv, TypeOK, ControlInv, KnownInv, StoreInv,
     HistoryIsBacked, Grows, SubAdd, SubWrite
<1> QED BY <1>1, <1>2, <1>3, <1>4, <1>5 DEF IndInv

(* The reader unsubscribes only a session that was reported, so it is in   *)
(* no table and nobody need hear of it.                                    *)
LEMMA ReaderKeeps ==
  ASSUME IndInv, Grows, Bridge!IndInv', ReaderStep
  PROVE  IndInv'
<1>1. TypeOK'
  <2>1. CASE UnsubWrite(Reader, "st_write", Return(Reader))
    <3>1. masked' \subseteq Sessions
      BY <2>1, MaskedType DEF IndInv
    <3> QED BY <2>1, <3>1 DEF IndInv, Bridge!IndInv, TypeOK, UnsubWrite
  <2>2. CASE \E from \in {"st_unsub", "st_kept"} : UnsubDelete(Reader, from, "st_write")
    BY <2>2, ModeAssumption DEF IndInv, Bridge!IndInv, TypeOK, UnsubDelete
  <2>3. CASE (\E s \in Sessions : StatusRead(s)) \/ StatusDelete
    BY <2>3, ModeAssumption DEF IndInv, Bridge!IndInv, TypeOK, StatusRead, StatusDelete
  <2> QED BY <2>1, <2>2, <2>3 DEF ReaderStep, StatusUnsubscribe
<1>2. ControlInv' /\ KnownInv'
  BY ModeAssumption DEF IndInv, TypeOK, ControlInv, KnownInv, Grows, ReaderStep,
     StatusRead, StatusDelete, StatusUnsubscribe, UnsubDelete, UnsubWrite
<1>3. StarterInv'
  BY ModeAssumption DEF IndInv, Bridge!IndInv, Bridge!SessionInv, TypeOK,
     ControlInv, KnownInv, StarterInv, Saved, Grows, ReaderStep, StatusRead,
     StatusDelete, StatusUnsubscribe, UnsubDelete, UnsubWrite
<1>4. SavedInv'
  <2>1. \A s \in Sessions : Listening(s) /\ s \in table => Listening(s)'
    <3>1. CASE \E s \in Sessions : StatusRead(s)
      BY <3>1, ListenersStay, ModeAssumption DEF StatusRead, IndInv, TypeOK, LinkKept,
         Listening
    <3>2. CASE StatusDelete
      BY <3>2, ListenersStay, ModeAssumption DEF StatusDelete, IndInv, TypeOK, LinkKept,
         Listening
    <3>3. ASSUME NEW from \in {"st_unsub", "st_kept"}, UnsubDelete(Reader, from, "st_write")
          PROVE  \A s \in Sessions : Listening(s) /\ s \in table => Listening(s)'
      BY <3>3, ListenersStay, ModeAssumption DEF UnsubDelete, IndInv, Bridge!IndInv,
         Bridge!SessionInv, TypeOK, ControlInv, LinkKept, Listening
    <3>4. CASE UnsubWrite(Reader, "st_write", Return(Reader))
      <4>1. \A s \in Sessions : Listening(s) /\ s # sess[Reader] => Listening(s)'
        BY <3>4, UnsubscribeMasks, ModeAssumption DEF UnsubWrite, IndInv, TypeOK
      <4> QED
        BY <3>4, <4>1, ModeAssumption DEF UnsubWrite, IndInv, Bridge!IndInv,
           Bridge!SessionInv, TypeOK, ControlInv
    <3> QED BY <3>1, <3>2, <3>3, <3>4 DEF ReaderStep, StatusUnsubscribe
  <2>2. \A s \in Sessions : StopUnderWay(s) => StopUnderWay(s)'
    BY ModeAssumption DEF IndInv, TypeOK, StopUnderWay, ReaderStep, StatusRead,
       StatusDelete, StatusUnsubscribe, UnsubDelete, UnsubWrite
  <2> QED
    BY <2>1, <2>2, ModeAssumption DEF IndInv, TypeOK, KnownInv, SavedInv, Saved, Saving,
       Grows, ReaderStep, StatusRead, StatusDelete, StatusUnsubscribe, UnsubDelete,
       UnsubWrite
<1>5. StoreInv' /\ HistoryIsBacked'
  BY ModeAssumption DEF IndInv, TypeOK, ControlInv, KnownInv, StoreInv,
     HistoryIsBacked, Grows, ReaderStep, StatusRead, StatusDelete,
     StatusUnsubscribe, UnsubDelete, UnsubWrite
<1> QED BY <1>1, <1>2, <1>3, <1>4, <1>5 DEF IndInv

LEMMA BeginKeeps ==
  ASSUME IndInv, Grows, Bridge!IndInv', NEW a \in Cmds, Begin(a)
  PROVE  IndInv'
<1>1. TypeOK'
  BY DEF IndInv, Bridge!IndInv, TypeOK, Begin
<1>2. ControlInv' /\ KnownInv'
  BY ModeAssumption DEF IndInv, TypeOK, ControlInv, KnownInv, Begin
<1>3. StarterInv'
  BY DEF IndInv, StarterInv, Saved, Begin
<1>4. SavedInv'
  <2>1. \A s \in Sessions : Listening(s) => Listening(s)'
    BY ListenersStay, ModeAssumption DEF Begin, IndInv, TypeOK, LinkKept, Listening
  <2> QED
    BY <2>1, ModeAssumption DEF IndInv, TypeOK, SavedInv, Saved, Saving, StopUnderWay,
       Begin
<1>5. StoreInv' /\ HistoryIsBacked'
  BY DEF IndInv, ControlInv, StoreInv, HistoryIsBacked, Begin
<1> QED BY <1>1, <1>2, <1>3, <1>4, <1>5 DEF IndInv

(* GetActiveSession: the goroutine takes up a session that is recorded, so *)
(* that no starter has it.                                                 *)
LEMMA ReadKeeps ==
  ASSUME IndInv, Grows, Bridge!IndInv', NEW a \in Cmds,
         NEW from \in ReadLabels \cup {"touch"}, NEW present \in BOOLEAN, NEW label,
         IF present THEN label \in {"stop_read", "stop_unsub", "message", "context",
                                    "status", "decide", "touch_save"}
                    ELSE label \in {"create_check", "create"},
         ReadRecord(a, from, present, label)
  PROVE  IndInv'
<1>1. TypeOK'
  BY DEF IndInv, Bridge!IndInv, TypeOK, ControlInv, ReadRecord
<1>2. ControlInv' /\ KnownInv'
  BY DEF IndInv, TypeOK, ControlInv, KnownInv, ReadRecord
<1>3. StarterInv'
  BY ModeAssumption DEF IndInv, TypeOK, ControlInv, StarterInv, Saved, ReadRecord
<1>4. SavedInv'
  <2>1. \A s \in Sessions : Listening(s) => Listening(s)'
    BY ListenersStay, ModeAssumption DEF ReadRecord, IndInv, TypeOK, LinkKept, Listening
  <2> QED
    BY <2>1, ModeAssumption DEF IndInv, TypeOK, ControlInv, SavedInv, Saved, Saving,
       StopUnderWay, ReadRecord
<1>5. StoreInv' /\ HistoryIsBacked'
  BY DEF IndInv, TypeOK, StoreInv, HistoryIsBacked, ReadRecord
<1> QED BY <1>1, <1>2, <1>3, <1>4, <1>5 DEF IndInv

(* A request and what follows it, but for a session that is created. *)
LEMMA RequestKeeps ==
  ASSUME IndInv, Grows, Bridge!IndInv', NEW a \in Cmds,
         UNCHANGED <<kvVars, lifeVars, wsVars>>, LateKept, LinkKept,
         pc[a] \in SendLabels \cup {"create", "button_read", "stop_delete", "undo_delete"},
         \/ pc[a] # "stop_delete" /\ Return(a)
         \/ pc[a] = "undo_delete" /\ Goto(a, "undo_unsub")
         \/ pc[a] = "message" /\ sess[a] \in stored' /\ Goto(a, "msg_store")
         \/ pc[a] = "context" /\ Goto(a, "touch")
         \/ /\ pc[a] = "stop_delete" /\ Goto(a, "forget")
            /\ sess[a] \notin table' \/ <<"delete", sess[a]>> \in late'
  PROVE  IndInv'
<1>1. TypeOK'
  BY DEF IndInv, Bridge!IndInv, TypeOK, LateKept
<1>2. ControlInv' /\ KnownInv'
  BY DEF IndInv, TypeOK, ControlInv, KnownInv, Grows
<1>3. StarterInv'
  BY ModeAssumption DEF IndInv, TypeOK, ControlInv, KnownInv, StarterInv, Saved,
     Grows
<1>4. SavedInv'
  <2>1. \A s \in Sessions : Listening(s) => Listening(s)'
    BY ListenersStay, ModeAssumption DEF IndInv, TypeOK, Listening
  <2> QED
    BY <2>1, ModeAssumption DEF IndInv, TypeOK, KnownInv, SavedInv, Saved, Saving,
       StopUnderWay, Grows, LateKept
<1>5. StoreInv' /\ HistoryIsBacked'
  BY ModeAssumption DEF IndInv, TypeOK, ControlInv, KnownInv, StoreInv,
     HistoryIsBacked, Grows
<1> QED BY <1>1, <1>2, <1>3, <1>4, <1>5 DEF IndInv

(* A session comes into being in the hands of its starter. *)
LEMMA CreatedKeeps ==
  ASSUME IndInv, Grows, Bridge!IndInv', NEW a \in Cmds, NEW s \in Sessions,
         LateKept, LinkKept, proc[s] = "none", proc'[s] # "none",
         At(a, "create"), GotoWith(a, "sub_add", s), UNCHANGED <<kvVars, lifeVars, wsVars>>
  PROVE  IndInv'
<1>1. TypeOK'
  BY DEF IndInv, Bridge!IndInv, TypeOK, LateKept
<1>2. ControlInv' /\ KnownInv'
  BY DEF IndInv, TypeOK, ControlInv, KnownInv, Grows
<1>3. StarterInv'
  BY ModeAssumption DEF IndInv, TypeOK, ControlInv, KnownInv, StarterInv, Saved,
     Grows, LateKept
<1>4. SavedInv'
  <2>1. \A r \in Sessions : Listening(r) => Listening(r)'
    BY ListenersStay, ModeAssumption DEF IndInv, TypeOK, Listening
  <2> QED
    BY <2>1, ModeAssumption DEF IndInv, TypeOK, ControlInv, KnownInv, StarterInv,
       SavedInv, Saved, Saving, StopUnderWay, Grows, LateKept
<1>5. StoreInv' /\ HistoryIsBacked'
  BY ModeAssumption DEF IndInv, TypeOK, ControlInv, KnownInv, StoreInv,
     HistoryIsBacked, Grows
<1> QED BY <1>1, <1>2, <1>3, <1>4, <1>5 DEF IndInv

(* A starter saves its session, which is subscribed, or undoes it, and     *)
(* then nobody else knows of it.                                           *)
LEMMA SaveKeeps ==
  ASSUME IndInv, Grows, Bridge!IndInv', NEW a \in Cmds,
         \/ SaveSession(a)
         \/ UnsubDelete(a, "undo_unsub", "undo_write")
         \/ UnsubWrite(a, "undo_write", Return(a))
  PROVE  IndInv'
<1>1. TypeOK'
  <2>1. CASE UnsubWrite(a, "undo_write", Return(a))
    <3>1. masked' \subseteq Sessions
      BY <2>1, MaskedType DEF IndInv
    <3> QED BY <2>1, <3>1 DEF IndInv, Bridge!IndInv, TypeOK, UnsubWrite
  <2>2. CASE SaveSession(a) \/ UnsubDelete(a, "undo_unsub", "undo_write")
    BY <2>2 DEF IndInv, Bridge!IndInv, TypeOK, ControlInv, SaveSession, UnsubDelete
  <2> QED BY <2>1, <2>2
<1>2. ControlInv' /\ KnownInv'
  BY DEF IndInv, TypeOK, ControlInv, KnownInv, Grows, SaveSession, UnsubDelete,
     UnsubWrite
<1>3. StarterInv'
  BY ModeAssumption DEF IndInv, TypeOK, ControlInv, KnownInv, StarterInv, Saved,
     Grows, SaveSession, UnsubDelete, UnsubWrite
<1>4. SavedInv'
  <2>1. CASE SaveSession(a)
    <3>1. \A s \in Sessions : Listening(s) => Listening(s)'
      BY <2>1, ListenersStay, ModeAssumption DEF SaveSession, IndInv, TypeOK, LinkKept,
         Listening
    <3> QED
      BY <2>1, <3>1, ModeAssumption DEF IndInv, TypeOK, KnownInv, StarterInv, SavedInv,
         Saved, Saving, StopUnderWay, Grows, SaveSession
  <2>2. CASE UnsubDelete(a, "undo_unsub", "undo_write")
    <3>1. \A s \in Sessions : Listening(s) /\ s # sess[a] => Listening(s)'
      BY <2>2, ListenersStay, ModeAssumption DEF UnsubDelete, IndInv, TypeOK, LinkKept,
         Listening
    <3> QED
      BY <2>2, <3>1, ModeAssumption DEF IndInv, TypeOK, KnownInv, StarterInv, SavedInv,
         Saved, Saving, StopUnderWay, Grows, UnsubDelete
  <2>3. CASE UnsubWrite(a, "undo_write", Return(a))
    <3>1. \A s \in Sessions : Listening(s) /\ s # sess[a] => Listening(s)'
      BY <2>3, UnsubscribeMasks, ModeAssumption DEF UnsubWrite, IndInv, TypeOK
    <3> QED
      BY <2>3, <3>1, ModeAssumption DEF IndInv, TypeOK, KnownInv, StarterInv, SavedInv,
         Saved, Saving, StopUnderWay, Grows, UnsubWrite
  <2> QED BY <2>1, <2>2, <2>3
<1>5. StoreInv' /\ HistoryIsBacked'
  BY ModeAssumption DEF IndInv, TypeOK, ControlInv, KnownInv, StoreInv,
     HistoryIsBacked, Grows, SaveSession, UnsubDelete, UnsubWrite
<1> QED BY <1>1, <1>2, <1>3, <1>4, <1>5 DEF IndInv

(* The session is no longer heard, and a stop is under way. *)
LEMMA StopUnsubscribeKeeps ==
  ASSUME IndInv, Grows, Bridge!IndInv', NEW a \in Cmds, StopUnsubscribe(a)
  PROVE  IndInv'
<1>1. TypeOK'
  <2>1. CASE UnsubDelete(a, "stop_unsub", "stop_write")
    BY <2>1 DEF IndInv, Bridge!IndInv, TypeOK, UnsubDelete
  <2>2. CASE UnsubWrite(a, "stop_write", Goto(a, "stop_delete"))
    <3>1. masked' \subseteq Sessions
      BY <2>2, MaskedType DEF IndInv
    <3> QED BY <2>2, <3>1 DEF IndInv, Bridge!IndInv, TypeOK, UnsubWrite
  <2> QED BY <2>1, <2>2 DEF StopUnsubscribe
<1>2. ControlInv' /\ KnownInv'
  BY DEF IndInv, TypeOK, ControlInv, KnownInv, Grows, StopUnsubscribe,
     UnsubDelete, UnsubWrite
<1>3. StarterInv'
  BY ModeAssumption DEF IndInv, TypeOK, ControlInv, KnownInv, StarterInv, Saved,
     Grows, StopUnsubscribe, UnsubDelete, UnsubWrite
<1>4. SavedInv'
  <2>1. CASE UnsubDelete(a, "stop_unsub", "stop_write")
    <3>1. \A s \in Sessions : Listening(s) /\ s # sess[a] => Listening(s)'
      BY <2>1, ListenersStay, ModeAssumption DEF UnsubDelete, IndInv, TypeOK, LinkKept,
         Listening
    <3> QED
      BY <2>1, <3>1, ModeAssumption DEF IndInv, TypeOK, KnownInv, SavedInv, Saved, Saving,
         StopUnderWay, Grows, UnsubDelete
  <2>2. CASE UnsubWrite(a, "stop_write", Goto(a, "stop_delete"))
    <3>1. \A s \in Sessions : Listening(s) /\ s # sess[a] => Listening(s)'
      BY <2>2, UnsubscribeMasks, ModeAssumption DEF UnsubWrite, IndInv, TypeOK
    <3> QED
      BY <2>2, <3>1, ModeAssumption DEF IndInv, TypeOK, KnownInv, SavedInv, Saved, Saving,
         StopUnderWay, Grows, UnsubWrite
  <2> QED BY <2>1, <2>2 DEF StopUnsubscribe
<1>5. StoreInv' /\ HistoryIsBacked'
  BY ModeAssumption DEF IndInv, TypeOK, ControlInv, KnownInv, StoreInv,
     HistoryIsBacked, Grows, StopUnsubscribe, UnsubDelete, UnsubWrite
<1> QED BY <1>1, <1>2, <1>3, <1>4, <1>5 DEF IndInv

(* Writes to the store about a session that is or was recorded. *)
LEMMA StoreKeeps ==
  ASSUME IndInv, Grows, Bridge!IndInv', NEW a \in Cmds,
         StopForget(a) \/ StopErase(a) \/ MsgStore(a) \/ TouchSave(a)
  PROVE  IndInv'
<1>1. TypeOK'
  BY DEF IndInv, Bridge!IndInv, TypeOK, ControlInv, StopForget, StopErase,
     MsgStore, TouchSave
<1>2. ControlInv' /\ KnownInv'
  BY ModeAssumption DEF IndInv, TypeOK, ControlInv, KnownInv, StopForget,
     StopErase, MsgStore, TouchSave
<1>3. StarterInv'
  BY ModeAssumption DEF IndInv, TypeOK, ControlInv, StarterInv, Saved, StopForget,
     StopErase, MsgStore, TouchSave
<1>4. SavedInv'
  <2>1. \A s \in Sessions : Listening(s) => Listening(s)'
    BY ListenersStay, ModeAssumption DEF StopForget, StopErase, MsgStore, TouchSave,
       IndInv, TypeOK, LinkKept, Listening
  <2> QED
    BY <2>1, ModeAssumption DEF IndInv, TypeOK, SavedInv, Saved, Saving, StopUnderWay,
       StopForget, StopErase, MsgStore, TouchSave
<1>5. StoreInv' /\ HistoryIsBacked'
  BY DEF IndInv, TypeOK, StoreInv, HistoryIsBacked, StopForget, StopErase,
     MsgStore, TouchSave
<1> QED BY <1>1, <1>2, <1>3, <1>4, <1>5 DEF IndInv

(* The steps as steps of the bridge. *)
LEMMA BridgeStep == IndInv /\ [Next]_vars => [Bridge!Next]_(Bridge!vars)
<1> SUFFICES ASSUME IndInv, Next PROVE [Bridge!Next]_(Bridge!vars)
  BY DEF vars, Bridge!vars
<1>1. ASSUME NEW s \in Sessions, NEW request \in Requests,
             Answered(request, s) \/ Failed(request, s) \/ LateRequest(request, s)
      PROVE  [Bridge!Next]_(Bridge!vars)
  BY <1>1, HandleFacts DEF Answered, Failed, Lost, LateRequest, IndInv, Bridge!vars
<1>2. CASE UNCHANGED bridgeVars
  BY <1>2 DEF Bridge!vars
<1>3. ASSUME NEW a \in Cmds, Start(a) \/ Stop(a) \/ Use(a)
      PROVE  [Bridge!Next]_(Bridge!vars)
  <2>1. pc[a] \in StartLabels \cup StopLabels \cup SendLabels => sess[a] \in Sessions
    BY DEF IndInv, ControlInv
  <2>2. CASE UNCHANGED bridgeVars
    BY <2>2, <1>2
  <2>3. CASE \E s \in Sessions, request \in Requests :
               Answered(request, s) \/ Failed(request, s)
    BY <2>3, <1>1
  <2>4. CASE Bridge!Unsubscribe(Plugin)
    BY <2>4 DEF Bridge!Next
  <2> QED
    BY <2>1, <2>2, <2>3, <2>4, <1>3 DEF Start, StartCheck, CreateCheck,
       CreateRequest, SaveSession, UndoStart, Stop, StopCheck, StopRead,
       StopUnsubscribe, StopRequest, StopForget, StopErase, Use, MsgRead,
       ThreadRead, StatusCmdRead, DecisionRead, QuickAction, MessageRequest,
       ContextRequest, DecisionRequest, StatusRequest, MsgStore, Touch, TouchSave,
       ReadRecord, UnsubDelete, UnsubWrite, Send, Fresh, Requests
<1>4. ASSUME NEW a \in Cmds \cup {Redial}, SubAdd(a) \/ SubWrite(a)
      PROVE  [Bridge!Next]_(Bridge!vars)
  BY <1>2, <1>4 DEF SubAdd, SubWrite, Send, Bridge!Next, IndInv, ControlInv
<1>5. CASE Reconnect \/ Renew \/ ReaderStep
  BY <1>2, <1>5 DEF Reconnect, Renew, ReaderStep, StatusRead, StatusDelete,
     StatusUnsubscribe, UnsubDelete, UnsubWrite, Send, Bridge!Next
<1>6. CASE \E s \in Sessions : CliExit(s) \/ ExitEvent(s)
  BY <1>6 DEF CliExit, ExitEvent, Bridge!Next
<1>7. CASE BridgeStops \/ BridgeStarts \/ ConnectionLost \/ PluginEnds \/ PluginStarts
  BY <1>2, <1>7 DEF BridgeStops, BridgeStarts, ConnectionLost, PluginEnds,
     PluginStarts, Bridge!Next
<1>8. CASE \E a \in Cmds : Begin(a)
  BY <1>2, <1>8 DEF Begin
<1> QED BY <1>1, <1>3, <1>4, <1>5, <1>6, <1>7, <1>8 DEF Next

(* The commands, put together. *)
LEMMA CreateKeeps ==
  ASSUME IndInv, Grows, Bridge!IndInv', NEW a \in Cmds, CreateRequest(a) PROVE IndInv'
<1>1. UNCHANGED <<kvVars, lifeVars, wsVars>> /\ At(a, "create")
  BY DEF CreateRequest
<1>2. CASE Return(a) /\ UNCHANGED <<bridgeVars, netVars>>
  <2>1. LateKept /\ LinkKept
    BY <1>2 DEF LateKept, LinkKept, IndInv, TypeOK
  <2> QED BY <1>1, <1>2, <2>1, RequestKeeps
<1>3. ASSUME NEW s \in Fresh(ch[a]), Failed("create", s), Return(a) PROVE IndInv'
  <2>1. LateKept /\ LinkKept
    BY <1>3, RequestFacts DEF Fresh, Requests
  <2> QED BY <1>1, <1>3, <2>1, RequestKeeps
<1>4. ASSUME NEW s \in Fresh(ch[a]), Answered("create", s), GotoWith(a, "sub_add", s)
      PROVE  IndInv'
  <2>1. s \in Sessions /\ proc[s] = "none"
    BY DEF Fresh
  <2>2. LateKept /\ LinkKept /\ proc'[s] # "none"
    BY <1>4, <2>1, RequestFacts, HandleFacts DEF Requests, Answered, IndInv
  <2> QED BY <1>1, <1>4, <2>1, <2>2, CreatedKeeps
<1> QED BY <1>2, <1>3, <1>4 DEF CreateRequest

LEMMA StartKeeps ==
  ASSUME IndInv, Grows, Bridge!IndInv', NEW a \in Cmds, Start(a) PROVE IndInv'
<1>1. CASE StartCheck(a) \/ CreateCheck(a)
  BY <1>1, ReadKeeps DEF StartCheck, CreateCheck
<1>2. CASE /\ At(a, "undo_delete")
           /\ Answered("delete", sess[a]) \/ Failed("delete", sess[a])
           /\ Goto(a, "undo_unsub")
           /\ UNCHANGED <<kvVars, lifeVars, wsVars>>
  <2>1. LateKept /\ LinkKept
    BY <1>2, RequestFacts DEF IndInv, ControlInv, Requests
  <2> QED BY <1>2, <2>1, RequestKeeps
<1> QED BY <1>1, <1>2, CreateKeeps, SaveKeeps DEF Start, UndoStart

LEMMA StopKeeps ==
  ASSUME IndInv, Grows, Bridge!IndInv', NEW a \in Cmds, Stop(a) PROVE IndInv'
<1>1. CASE StopCheck(a) \/ StopRead(a)
  BY <1>1, ReadKeeps DEF StopCheck, StopRead
<1>2. CASE StopRequest(a)
  <2>1. LateKept /\ LinkKept /\ (sess[a] \notin table' \/ <<"delete", sess[a]>> \in late')
    BY <1>2, RequestFacts DEF StopRequest, IndInv, ControlInv, Requests
  <2> QED BY <1>2, <2>1, RequestKeeps DEF StopRequest
<1> QED
  BY <1>1, <1>2, StopUnsubscribeKeeps, StoreKeeps DEF Stop

LEMMA UseKeeps ==
  ASSUME IndInv, Grows, Bridge!IndInv', NEW a \in Cmds, Use(a) PROVE IndInv'
<1>1. CASE MsgRead(a) \/ ThreadRead(a) \/ StatusCmdRead(a) \/ DecisionRead(a) \/ Touch(a)
  BY <1>1, ReadKeeps DEF MsgRead, ThreadRead, StatusCmdRead, DecisionRead, Touch
<1>2. CASE QuickAction(a)
  <2>1. LateKept /\ LinkKept
    BY <1>2, RequestFacts DEF QuickAction, Requests
  <2> QED BY <1>2, <2>1, RequestKeeps DEF QuickAction
<1>3. CASE MessageRequest(a) \/ ContextRequest(a) \/ DecisionRequest(a) \/ StatusRequest(a)
  <2>1. sess[a] \in Sessions
    BY <1>3 DEF MessageRequest, ContextRequest, DecisionRequest, StatusRequest,
       IndInv, ControlInv
  <2>2. LateKept /\ LinkKept
    BY <1>3, <2>1, RequestFacts DEF MessageRequest, ContextRequest,
       DecisionRequest, StatusRequest, Requests
  <2>3. Answered("message", sess[a]) => sess[a] \in stored'
    BY <2>1, HandleFacts DEF Answered, Requests, IndInv
  <2> QED
    BY <1>3, <2>2, <2>3, RequestKeeps DEF MessageRequest, ContextRequest,
       DecisionRequest, StatusRequest
<1> QED BY <1>1, <1>2, <1>3, StoreKeeps DEF Use

(* The invariant. *)
LEMMA InitInv == Init => IndInv
<1>1. Init => Bridge!IndInv
  BY ModeAssumption DEF Init, Bridge!Init, Bridge!IndInv, Bridge!TypeOK,
     Bridge!SessionInv, Bridge!TableIsActive, Bridge!NoStrayProcess
<1>2. Init => TypeOK /\ ControlInv /\ KnownInv
  BY <1>1, ModeAssumption DEF Init, Bridge!IndInv, Everybody, TypeOK, ControlInv,
     KnownInv
<1>3. Init => StarterInv /\ SavedInv /\ StoreInv /\ HistoryIsBacked
  BY ModeAssumption DEF Init, Bridge!Init, Everybody, StarterInv, SavedInv, Saved, Saving,
     StoreInv, HistoryIsBacked
<1> QED BY <1>1, <1>2, <1>3 DEF IndInv

LEMMA NextKeeps == IndInv /\ [Next]_vars => IndInv'
<1> SUFFICES ASSUME IndInv, [Next]_vars PROVE IndInv'
  OBVIOUS
<1>1. Grows /\ Bridge!IndInv'
  BY BridgeStep, BridgeKeeps, BridgeGrows DEF IndInv
<1>2. CASE \E a \in Cmds : Begin(a) \/ Start(a) \/ Stop(a) \/ Use(a)
  BY <1>1, <1>2, BeginKeeps, StartKeeps, StopKeeps, UseKeeps
<1>3. CASE \E a \in Cmds \cup {Redial} : SubAdd(a) \/ SubWrite(a)
  BY <1>1, <1>3, SubscribeKeeps
<1>4. CASE Reconnect \/ Renew \/ ReaderStep \/ PluginStarts
  BY <1>1, <1>4, ConnectionKeeps, ReaderKeeps
<1>5. CASE \E s \in Sessions :
             ExitEvent(s) \/ \E request \in Requests : LateRequest(request, s)
  BY <1>1, <1>5, ExitEventKeeps, LateRequestKeeps
<1>6. CASE PluginEnds
  BY <1>1, <1>6, PluginEndsKeeps
<1>7. CASE \/ BridgeStops \/ BridgeStarts \/ ConnectionLost
           \/ \E s \in Sessions : CliExit(s)
  <2>1. LinkKept
    BY <1>7 DEF IndInv, TypeOK, Bridge!TypeOK, LinkKept, BridgeStops, BridgeStarts,
       ConnectionLost, CliExit, Bridge!Shutdown, Bridge!Crash, Bridge!ShutsDown,
       Bridge!Ends, Bridge!Restart, Bridge!Disconnect, Bridge!CliExit
  <2>2. UNCHANGED <<kvVars, lifeVars, wsVars, late, cmdVars>> /\ moves' \in Nat
    BY <1>7 DEF IndInv, TypeOK, BridgeStops, BridgeStarts, ConnectionLost, CliExit
  <2> QED BY <1>1, <2>1, <2>2, FrameKeeps
<1>8. CASE UNCHANGED vars
  <2>1. LinkKept /\ moves' \in Nat
    BY <1>8 DEF vars, LinkKept, IndInv, TypeOK
  <2> QED BY <1>1, <1>8, <2>1, FrameKeeps DEF vars
<1> QED BY <1>2, <1>3, <1>4, <1>5, <1>6, <1>7, <1>8 DEF Next

-----------------------------------------------------------------------------
(* Theorems.                                                               *)

(* The invariant behind the others, in every reachable state, for any      *)
(* number of channels, sessions and concurrent commands.                   *)
THEOREM ModeInductive == Spec => []IndInv
BY InitInv, NextKeeps, PTL DEF Spec

(* The variables of plugin and bridge keep their types. *)
THEOREM ModeTypes == Spec => []TypeOK
<1>1. IndInv => TypeOK
  BY DEF IndInv
<1> QED BY <1>1, ModeInductive, PTL

(* The session a channel has is listened to while the bridge can reach its *)
(* process, unless a stop is under way or the plugin was restarted.        *)
THEOREM Heard == Spec => []RecordedIsHeard
<1>1. IndInv => RecordedIsHeard
  BY DEF IndInv, TypeOK, SavedInv, Saved, RecordedIsHeard, Bridge!IndInv,
     Bridge!TypeOK
<1> QED BY <1>1, ModeInductive, PTL

(* The plugin stores a history for no session whose input the bridge has   *)
(* not stored.                                                             *)
THEOREM Backed == Spec => []HistoryIsBacked
<1>1. IndInv => HistoryIsBacked
  BY DEF IndInv
<1> QED BY <1>1, ModeInductive, PTL

(* Whatever the plugin does, the bridge does nothing it would not do as    *)
(* the module BridgeServer says, so that what is proved there holds here.  *)
THEOREM BridgeEmbedded == Spec => Bridge!Spec
<1>1. Init => Bridge!Init
  BY DEF Init
<1> QED BY <1>1, BridgeStep, ModeInductive, PTL DEF Spec, Bridge!Spec
-----------------------------------------------------------------------------
(* A stop reaches the bridge.                                              *)

(* Of what a step does to the late requests. *)
LEMMA DeleteIsKept ==
  ASSUME IndInv, Next, NEW s \in Sessions, <<"delete", s>> \in late
  PROVE  s \notin table' \/ <<"delete", s>> \in late'
<1>1. CASE UNCHANGED late
  BY <1>1
<1>2. ASSUME NEW r \in Sessions, NEW request \in Requests,
             Answered(request, r) \/ Failed(request, r)
      PROVE  <<"delete", s>> \in late'
  BY <1>2, RequestFacts DEF LateKept
<1>3. ASSUME NEW r \in Sessions, NEW request \in Requests, LateRequest(request, r)
      PROVE  s \notin table' \/ <<"delete", s>> \in late'
  <2>1. CASE request = "delete" /\ r = s
    BY <1>3, <2>1, HandleFacts DEF LateRequest, IndInv
  <2>2. CASE request # "delete" \/ r # s
    BY <1>3, <2>2 DEF LateRequest
  <2> QED BY <2>1, <2>2
<1>4. ASSUME NEW a \in Cmds, Start(a) \/ Stop(a) \/ Use(a)
      PROVE  \/ UNCHANGED late
             \/ \E r \in Sessions, request \in Requests :
                  Answered(request, r) \/ Failed(request, r)
  <2>1. pc[a] \in StartLabels \cup StopLabels \cup SendLabels => sess[a] \in Sessions
    BY DEF IndInv, ControlInv
  <2> QED
    BY <2>1, <1>4 DEF Start, StartCheck, CreateCheck, CreateRequest, SaveSession,
       UndoStart, Stop, StopCheck, StopRead, StopUnsubscribe, StopRequest, StopForget,
       StopErase, Use, MsgRead, ThreadRead, StatusCmdRead, DecisionRead, QuickAction,
       MessageRequest, ContextRequest, DecisionRequest, StatusRequest, MsgStore, Touch,
       TouchSave, ReadRecord, UnsubDelete, UnsubWrite, Fresh, Requests
<1>5. \/ UNCHANGED late
      \/ \E a \in Cmds : Start(a) \/ Stop(a) \/ Use(a)
      \/ \E r \in Sessions, request \in Requests : LateRequest(request, r)
  BY DEF Next, Begin, SubAdd, SubWrite, Reconnect, Renew, ReaderStep, StatusRead,
     StatusDelete, StatusUnsubscribe, UnsubDelete, UnsubWrite, CliExit, ExitEvent,
     BridgeStops, BridgeStarts, ConnectionLost, PluginEnds, PluginStarts
<1> QED BY <1>1, <1>2, <1>3, <1>4, <1>5

(* The DELETE of session s has been answered, refused or given up. *)
Deleted(s) == s \notin table \/ <<"delete", s>> \in late

DeletedInv ==
  \A a \in Cmds :
    pc[a] \in {"forget", "erase", "undo_unsub", "undo_write"} => Deleted(sess[a])

(* A goroutine moves itself alone; the end of the plugin stops them all.   *)
LEMMA OthersStay ==
  ASSUME IndInv, Next, NEW a \in Cmds, ~(Start(a) \/ Stop(a) \/ Use(a))
  PROVE  \/ pc'[a] = pc[a] /\ sess'[a] = sess[a] /\ ch'[a] = ch[a]
         \/ SubAdd(a) \/ SubWrite(a) \/ Begin(a) \/ PluginEnds
<1>1. ASSUME NEW b \in Cmds, b # a, Begin(b) \/ Start(b) \/ Stop(b) \/ Use(b)
      PROVE  pc'[a] = pc[a] /\ sess'[a] = sess[a] /\ ch'[a] = ch[a]
  BY <1>1 DEF Begin, Start, StartCheck, CreateCheck, CreateRequest, SaveSession,
     UndoStart, Stop, StopCheck, StopRead, StopUnsubscribe, StopRequest, StopForget,
     StopErase, Use, MsgRead, ThreadRead, StatusCmdRead, DecisionRead, QuickAction,
     MessageRequest, ContextRequest, DecisionRequest, StatusRequest, MsgStore, Touch,
     TouchSave, ReadRecord, UnsubDelete, UnsubWrite, IndInv, TypeOK
<1>2. ASSUME NEW b \in Cmds \cup {Redial}, b # a, SubAdd(b) \/ SubWrite(b)
      PROVE  pc'[a] = pc[a] /\ sess'[a] = sess[a] /\ ch'[a] = ch[a]
  BY <1>2 DEF SubAdd, SubWrite, IndInv, TypeOK
<1>3. CASE \/ Reconnect \/ Renew \/ ReaderStep \/ BridgeStops \/ BridgeStarts
           \/ ConnectionLost \/ PluginStarts
           \/ \E s \in Sessions :
                CliExit(s) \/ ExitEvent(s) \/ \E request \in Requests : LateRequest(request, s)
  BY <1>3, ModeAssumption DEF Reconnect, Renew, ReaderStep, StatusRead, StatusDelete,
     StatusUnsubscribe, UnsubDelete, UnsubWrite, CliExit, ExitEvent, LateRequest,
     BridgeStops, BridgeStarts, ConnectionLost, PluginStarts, IndInv, TypeOK
<1> QED BY <1>1, <1>2, <1>3 DEF Next

(* Of the steps of a command, only the request to delete its session leads *)
(* to a point where it counts as deleted.                                  *)
LEMMA DeletedFirst ==
  ASSUME IndInv, NEW a \in Cmds, Start(a) \/ Stop(a) \/ Use(a),
         pc'[a] \in {"forget", "erase", "undo_unsub", "undo_write"}
  PROVE  /\ sess'[a] = sess[a]
         /\ \/ pc[a] \in {"forget", "erase", "undo_unsub", "undo_write"}
            \/ Answered("delete", sess[a]) \/ Failed("delete", sess[a])
<1>1. CASE Start(a)
  BY <1>1 DEF Start, StartCheck, CreateCheck, CreateRequest, SaveSession, UndoStart,
     ReadRecord, UnsubDelete, UnsubWrite, IndInv, TypeOK
<1>2. CASE Stop(a)
  BY <1>2 DEF Stop, StopCheck, StopRead, StopUnsubscribe, StopRequest, StopForget,
     StopErase, ReadRecord, UnsubDelete, UnsubWrite, IndInv, TypeOK
<1>3. CASE Use(a)
  BY <1>3 DEF Use, MsgRead, ThreadRead, StatusCmdRead, DecisionRead, QuickAction,
     MessageRequest, ContextRequest, DecisionRequest, StatusRequest, MsgStore, Touch,
     TouchSave, ReadRecord, IndInv, TypeOK
<1> QED BY <1>1, <1>2, <1>3

LEMMA DeletedKeeps == IndInv /\ DeletedInv /\ [Next]_vars => DeletedInv'
<1> SUFFICES ASSUME IndInv, DeletedInv, Next, NEW a \in Cmds,
                    pc'[a] \in {"forget", "erase", "undo_unsub", "undo_write"}
             PROVE  Deleted(sess[a])'
  BY DEF DeletedInv, Deleted, vars
<1>1. Grows
  BY BridgeStep, BridgeGrows DEF IndInv
<1>2. ASSUME pc[a] \in {"forget", "erase", "undo_unsub", "undo_write"}, sess'[a] = sess[a]
      PROVE  Deleted(sess[a])'
  <2>1. sess[a] \in Sessions /\ proc[sess[a]] # "none" /\ Deleted(sess[a])
    BY <1>2, ModeAssumption DEF IndInv, ControlInv, KnownInv, DeletedInv
  <2> QED BY <1>1, <1>2, <2>1, DeleteIsKept DEF Grows, Deleted
<1>3. CASE Start(a) \/ Stop(a) \/ Use(a)
  <2>1. ASSUME Answered("delete", sess[a]) \/ Failed("delete", sess[a]), sess'[a] = sess[a],
               sess[a] \in Sessions
        PROVE  Deleted(sess[a])'
    BY <2>1, RequestFacts DEF Requests, Deleted
  <2>2. sess'[a] = sess[a] => sess[a] \in Sessions
    <3>1. sess'[a] \in Sessions
      BY NextKeeps DEF IndInv, ControlInv
    <3> QED BY <3>1
  <2> QED BY <1>2, <1>3, <2>1, <2>2, DeletedFirst
<1>4. CASE ~(Start(a) \/ Stop(a) \/ Use(a))
  <2>1. pc'[a] = pc[a] /\ sess'[a] = sess[a]
    BY <1>4, OthersStay DEF SubAdd, SubWrite, Begin, PluginEnds, Everybody, IndInv, TypeOK
  <2> QED BY <1>2, <2>1
<1> QED BY <1>3, <1>4

(* When a stop command goes on to the record of the channel, or a start    *)
(* command has given up, the process at the bridge has ended, was sent     *)
(* SIGTERM or is the bridge's own loss; else the request to delete it is   *)
(* still on its way.                                                       *)
THEOREM StopReaches == Spec => []StopReachesBridge
<1>1. Init => DeletedInv
  BY DEF Init, Everybody, DeletedInv
<1>2. IndInv /\ DeletedInv => StopReachesBridge
  BY DEF IndInv, ControlInv, Bridge!IndInv, Bridge!NoStrayProcess, DeletedInv, Deleted,
     StopReachesBridge
<1> QED BY <1>1, <1>2, DeletedKeeps, ModeInductive, PTL DEF Spec

-----------------------------------------------------------------------------
(* Commands one at a time.                                                 *)

(* The steps that change the record of a channel.                          *)
LEMMA RecordSteps ==
  ASSUME IndInv, Next, NEW c \in Channels, kv'[c] # kv[c]
  PROVE  \/ kv'[c] = NoSession
         \/ \E a \in Cmds : /\ ch[a] = c /\ kv'[c] = sess[a]
                            /\ pc[a] \in {"save", "touch_save"} /\ pc'[a] = "idle"
<1>1. ASSUME NEW a \in Cmds, Start(a) \/ Stop(a) \/ Use(a)
      PROVE  \/ kv' = kv
             \/ kv' = [kv EXCEPT ![ch[a]] = NoSession]
             \/ /\ kv' = [kv EXCEPT ![ch[a]] = sess[a]]
                /\ pc[a] \in {"save", "touch_save"} /\ pc'[a] = "idle"
  BY <1>1 DEF Start, StartCheck, CreateCheck, CreateRequest, SaveSession,
     UndoStart, Stop, StopCheck, StopRead, StopUnsubscribe, StopRequest, StopForget,
     StopErase, Use, MsgRead, ThreadRead, StatusCmdRead, DecisionRead, QuickAction,
     MessageRequest, ContextRequest, DecisionRequest, StatusRequest, MsgStore, Touch,
     TouchSave, ReadRecord, UnsubDelete, UnsubWrite, IndInv, TypeOK
<1>2. \/ kv' = kv
      \/ kv' = [kv EXCEPT ![ch[Reader]] = NoSession]
      \/ \E a \in Cmds : Start(a) \/ Stop(a) \/ Use(a)
  BY DEF Next, Begin, SubAdd, SubWrite, Reconnect, Renew, ReaderStep, StatusRead,
     StatusDelete, StatusUnsubscribe, UnsubDelete, UnsubWrite, CliExit, ExitEvent,
     LateRequest, BridgeStops, BridgeStarts, ConnectionLost, PluginEnds, PluginStarts
<1> QED BY <1>1, <1>2 DEF IndInv, TypeOK

(* How a start command, and a command that writes a record back, get where *)
(* RecordIsAsRead speaks of them.                                          *)
LEMMA FoundSo ==
  ASSUME IndInv, Next, NEW a \in Cmds
  PROVE  /\ pc'[a] \in {"create_check", "create"} \cup StartLabels =>
              /\ ch'[a] = ch[a] /\ ch[a] \in Channels
              /\ \/ pc[a] \in {"create_check", "create"} \cup StartLabels
                 \/ kv[ch[a]] = NoSession
         /\ pc'[a] = "touch_save" =>
              /\ ch'[a] = ch[a] /\ ch[a] \in Channels
              /\ \/ pc[a] = "touch_save" /\ sess'[a] = sess[a]
                 \/ sess'[a] = kv[ch[a]]
<1>1. CASE Start(a)
  BY <1>1 DEF Start, StartCheck, CreateCheck, CreateRequest, SaveSession, UndoStart,
     ReadRecord, UnsubDelete, UnsubWrite, IndInv, TypeOK, ControlInv
<1>2. CASE Stop(a)
  BY <1>2 DEF Stop, StopCheck, StopRead, StopUnsubscribe, StopRequest, StopForget,
     StopErase, ReadRecord, UnsubDelete, UnsubWrite, IndInv, TypeOK, ControlInv
<1>3. CASE Use(a)
  BY <1>3 DEF Use, MsgRead, ThreadRead, StatusCmdRead, DecisionRead, QuickAction,
     MessageRequest, ContextRequest, DecisionRequest, StatusRequest, MsgStore, Touch,
     TouchSave, ReadRecord, IndInv, TypeOK, ControlInv
<1>4. CASE ~(Start(a) \/ Stop(a) \/ Use(a))
  <2>1. pc[a] # "idle" => ch[a] \in Channels
    BY DEF IndInv, ControlInv
  <2>2. CASE pc'[a] = pc[a] /\ sess'[a] = sess[a] /\ ch'[a] = ch[a]
    BY <2>1, <2>2
  <2>3. CASE SubAdd(a) \/ SubWrite(a)
    BY <2>1, <2>3, ModeAssumption DEF SubAdd, SubWrite, IndInv, TypeOK
  <2>4. CASE Begin(a) \/ PluginEnds
    BY <2>4 DEF Begin, PluginEnds, Everybody, IndInv, TypeOK
  <2> QED BY <1>4, <2>2, <2>3, <2>4, OthersStay
<1> QED BY <1>1, <1>2, <1>3, <1>4

LEMMA AsReadKeeps == IndInv /\ OneAtATime /\ RecordIsAsRead /\ [Next]_vars => RecordIsAsRead'
<1> SUFFICES ASSUME IndInv, OneAtATime, RecordIsAsRead, Next, NEW a \in Cmds
             PROVE  /\ pc'[a] \in {"create_check", "create"} \cup StartLabels
                         => kv'[ch'[a]] = NoSession
                    /\ pc'[a] = "touch_save" => kv'[ch'[a]] \in {NoSession, sess'[a]}
  BY DEF RecordIsAsRead, vars
<1>1. ASSUME pc'[a] # "idle", ch'[a] = ch[a], ch[a] \in Channels
      PROVE  kv'[ch[a]] \in {NoSession, kv[ch[a]]}
  <2>1. ASSUME NEW b \in Cmds, ch[b] = ch[a], pc'[b] = "idle" PROVE FALSE
    BY <1>1, <2>1, ModeAssumption DEF OneAtATime
  <2> QED BY <1>1, <2>1, RecordSteps
<1>2. pc'[a] \in {"create_check", "create"} \cup StartLabels => kv'[ch'[a]] = NoSession
  BY <1>1, FoundSo DEF RecordIsAsRead
<1>3. pc'[a] = "touch_save" => kv'[ch'[a]] \in {NoSession, sess'[a]}
  BY <1>1, FoundSo DEF RecordIsAsRead
<1> QED BY <1>2, <1>3

(* The checks of a start command suffice where the commands of a channel   *)
(* do not overlap: only a record that is missing is written, or one that   *)
(* is already there, and no session loses its record to another.           *)
THEOREM SerialStarts == Spec /\ []OneAtATime => []RecordIsAsRead /\ NoTakeover
<1>1. Init => RecordIsAsRead
  BY DEF Init, Everybody, RecordIsAsRead
<1>2. IndInv /\ RecordIsAsRead /\ [Next]_vars
        => [\A c \in Channels : kv[c] # NoSession => kv'[c] \in {NoSession, kv[c]}]_vars
  <2> SUFFICES ASSUME IndInv, RecordIsAsRead, Next, NEW c \in Channels, kv[c] # NoSession
               PROVE  kv'[c] \in {NoSession, kv[c]}
    OBVIOUS
  <2>1. ASSUME NEW a \in Cmds, ch[a] = c, pc[a] \in {"save", "touch_save"}
        PROVE  pc[a] = "touch_save" /\ kv[c] = sess[a]
    BY <2>1 DEF RecordIsAsRead
  <2> QED BY <2>1, RecordSteps
<1> QED BY <1>1, <1>2, AsReadKeeps, ModeInductive, PTL DEF Spec, NoTakeover

-----------------------------------------------------------------------------
(* What was proved of the bridge holds of the bridge inside.               *)

LEMMA LifecycleSame ==
  /\ BridgeProofs!phaseOf = Bridge!phaseOf
  /\ BridgeProofs!phaseOf' = Bridge!phaseOf'
  /\ BridgeProofs!Lifecycle!Next <=> Bridge!Lifecycle!Next
<1>1. BridgeProofs!phaseOf = Bridge!phaseOf /\ BridgeProofs!phaseOf' = Bridge!phaseOf'
  BY DEF BridgeProofs!phaseOf, Bridge!phaseOf
<1> QED
  BY <1>1 DEF BridgeProofs!Lifecycle!Next, Bridge!Lifecycle!Next,
     BridgeProofs!Lifecycle!Start, Bridge!Lifecycle!Start,
     BridgeProofs!Lifecycle!End, Bridge!Lifecycle!End,
     BridgeProofs!Lifecycle!Report, Bridge!Lifecycle!Report,
     BridgeProofs!Lifecycle!Move, Bridge!Lifecycle!Move,
     BridgeProofs!Lifecycle!Abandon, Bridge!Lifecycle!Abandon

(* Whatever the plugin does, with commands that overlap, requests that are *)
(* lost or late and connections that come and go, each process of the      *)
(* bridge is started once and its exit reported once, after the fact.      *)
THEOREM ModeRefinesLifecycle == Spec => Bridge!ImplementsLifecycle
<1>1. Bridge!Init => Bridge!Lifecycle!Init
  BY DEF Bridge!Init, Bridge!phaseOf, Bridge!Lifecycle!Init
<1>2. Bridge!IndInv /\ [Bridge!Next]_(Bridge!vars)
        => [Bridge!Lifecycle!Next]_(Bridge!phaseOf)
  <2>1. BridgeProofs!BridgeAssumption
    BY ModeAssumption DEF BridgeProofs!BridgeAssumption
  <2>2. BridgeProofs!IndInv /\ [BridgeProofs!Next]_(BridgeProofs!vars)
          => [BridgeProofs!Lifecycle!Next]_(BridgeProofs!phaseOf)
    BY <2>1, BridgeProofs!StepRefines
  <2> QED BY <2>2, BridgeSame, NextSame, VarsSame, LifecycleSame
<1>3. IndInv => Bridge!IndInv
  BY DEF IndInv
<1> QED
  BY <1>1, <1>2, <1>3, BridgeEmbedded, ModeInductive, PTL
  DEF Bridge!Spec, Bridge!ImplementsLifecycle, Bridge!Lifecycle!Spec
=============================================================================
