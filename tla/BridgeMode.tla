------------------------------ MODULE BridgeMode ------------------------------
(***************************************************************************)
(* The plugin in bridge mode with the bridge server it talks to: slash     *)
(* commands, buttons and dialogs, the session record of each channel, the  *)
(* HTTP requests of the bridge client, and the one WebSocket connection    *)
(* over which the plugin hears of its sessions (server/commands.go,        *)
(* session_manager.go, bridge_client.go, actions.go, dialogs.go, the       *)
(* messages websocket_client.go sends and receives).                       *)
(*                                                                         *)
(* The bridge is the module BridgeServer, action by action.  How the       *)
(* WebSocket client keeps its connection is the subject of WsClient; here  *)
(* a lost connection is replaced at some time or never.                    *)
(***************************************************************************)
EXTENDS Naturals

CONSTANTS
  Channels,          \* Mattermost channels
  Sessions,          \* the ids the bridge may give, each of them once
  ChannelOf,         \* the channel for which it gives each of them
  Cmds,              \* goroutines that run commands and hooks, one at a time each
  Reader,            \* handleMessages
  Redial,            \* reconnect
  Plugin,            \* the plugin, as a WebSocket client of the bridge
  NoSession,         \* no record; no session in hand
  NoChannel,         \* an idle goroutine
  KVMayFail,         \* calls to the KV store may return an error
  MayBeLost,         \* requests that may time out or lose their connection
  BridgeMayStop,     \* the bridge may be stopped or killed
  PluginMayStop,     \* the plugin may be stopped or killed
  MaxMoves           \* bound: commands, failures of the store, lost requests and stops together

Agents == Cmds \cup {Reader, Redial}

(* A context is a message to the bridge, but for its text. *)
Requests == {"create", "delete", "message", "decide", "status"}

ASSUME ModeAssumption ==
  /\ ChannelOf \in [Sessions -> Channels]
  /\ NoSession \notin Sessions /\ NoChannel \notin Channels
  /\ Reader # Redial /\ Reader \notin Cmds /\ Redial \notin Cmds
  /\ MayBeLost \subseteq Requests
  /\ {KVMayFail, BridgeMayStop, PluginMayStop} \subseteq BOOLEAN
  /\ MaxMoves \in Nat

VARIABLES
  up, db, stored, proc, term, table, reported, told, lost, open, sub,  \* BridgeServer
  kv,     \* KV key session_<channel>: the session of the channel, or NoSession
  hist,   \* sessions with a KV key messages_<session>
  alive,  \* the plugin runs
  earlier, \* sessions of its earlier lives
  subs,   \* WebSocketClient.subscriptions
  inbox,  \* sessions whose status "stopped" is sent and not read yet
  todo,   \* subscriptions reconnect has copied and not yet renewed
  masked, \* observed: sessions another one took the subscription of this connection from
  late,   \* requests the plugin has given up and the bridge may still get
  moves,  \* how many of the events that MaxMoves bounds have come
  pc,     \* where a goroutine is
  ch,     \* the channel it serves
  sess    \* the session it works on

bridgeVars == <<up, db, stored, proc, term, table, reported, told, lost, open, sub>>
kvVars     == <<kv, hist>>
lifeVars   == <<alive, earlier>>
wsVars     == <<subs, inbox, todo, masked>>
netVars    == <<late, moves>>
cmdVars    == <<pc, ch, sess>>
vars       == <<bridgeVars, kvVars, lifeVars, wsVars, netVars, cmdVars>>

Bridge == INSTANCE BridgeServer WITH Clients <- {Plugin}

StartLabels == {"sub_add", "sub_write", "save", "undo_delete", "undo_unsub", "undo_write"}
StopLabels  == {"stop_unsub", "stop_write", "stop_delete", "forget", "erase"}
SendLabels  == {"message", "context", "decide", "status", "msg_store", "touch", "touch_save"}
ReadLabels  == {"start_check", "create_check", "create", "stop_check", "stop_read",
                "msg_read", "thread_read", "button_read", "status_read"}
ReaderLabels == {"st_delete", "st_kept", "st_unsub", "st_write"}

Labels == {"idle", "renew"} \cup StartLabels \cup StopLabels \cup SendLabels
                            \cup ReadLabels \cup ReaderLabels

TypeOK ==
  /\ Bridge!TypeOK
  /\ kv \in [Channels -> Sessions \cup {NoSession}]
  /\ hist \subseteq Sessions
  /\ alive \in BOOLEAN /\ earlier \subseteq Sessions
  /\ subs \subseteq Sessions /\ inbox \subseteq Sessions /\ todo \subseteq Sessions
  /\ masked \subseteq Sessions
  /\ late \subseteq Requests \X Sessions /\ moves \in Nat
  /\ pc \in [Agents -> Labels]
  /\ ch \in [Agents -> Channels \cup {NoChannel}]
  /\ sess \in [Agents -> Sessions \cup {NoSession}]

Everybody(value) == [a \in Agents |-> value]

Init ==
  /\ Bridge!Init
  /\ kv = [c \in Channels |-> NoSession]
  /\ hist = {} /\ late = {} /\ earlier = {}
  /\ moves = 0
  /\ alive = TRUE
  /\ subs = {} /\ inbox = {} /\ todo = {} /\ masked = {}
  /\ pc = Everybody("idle") /\ ch = Everybody(NoChannel) /\ sess = Everybody(NoSession)

-----------------------------------------------------------------------------
(* Moves of one goroutine. *)

At(a, label) == alive /\ pc[a] = label

Goto(a, label) == pc' = [pc EXCEPT ![a] = label] /\ UNCHANGED <<ch, sess>>

GotoWith(a, label, s) ==
  /\ pc' = [pc EXCEPT ![a] = label]
  /\ sess' = [sess EXCEPT ![a] = s]
  /\ UNCHANGED ch

Return(a) ==
  /\ pc' = [pc EXCEPT ![a] = "idle"]
  /\ ch' = [ch EXCEPT ![a] = NoChannel]
  /\ sess' = [sess EXCEPT ![a] = NoSession]

(* One of the events a run has only so many of. *)
Counted == moves < MaxMoves /\ moves' = moves + 1

(* A call to the KV store. *)
StoreWorks == UNCHANGED moves
StoreFails == KVMayFail /\ Counted

(* GetActiveSession: go on at label with the session read when present     *)
(* says so; answer the user otherwise, or when the store fails.            *)
ReadRecord(a, from, present, label) ==
  /\ At(a, from)
  /\ \/ StoreWorks /\ (kv[ch[a]] # NoSession <=> present) /\ GotoWith(a, label, kv[ch[a]])
     \/ StoreWorks /\ (kv[ch[a]] # NoSession <=> ~present) /\ Return(a)
     \/ StoreFails /\ Return(a)
  /\ UNCHANGED <<bridgeVars, kvVars, lifeVars, wsVars, late>>

-----------------------------------------------------------------------------
(* The bridge client: one HTTP request, and its answer.                    *)

(* The handler of the bridge; GET changes nothing but a stale row. *)
Handle(request, s) ==
  \/ request = "create"  /\ Bridge!CreateSession(s)
  \/ request = "delete"  /\ Bridge!DeleteSession(s)
  \/ request = "message" /\ Bridge!SendMessage(s)
  \/ request = "decide"  /\ Bridge!DecideChange(s)
  \/ request = "status"  /\ Bridge!GetSession(s)
  \/ request = "status"  /\ up /\ UNCHANGED bridgeVars

(* Nobody listens, or the handler answers with an error and does nothing. *)
Rejects(request, s) ==
  \/ ~up \/ request = "create"
  \/ request \in {"delete", "status"} /\ db[s] = "none"
  \/ request \in {"message", "decide"} /\ (db[s] = "none" \/ s \notin table)

Answered(request, s) == Handle(request, s) /\ UNCHANGED netVars

(* The client gives up, and the request may still be on its way. *)
Lost(request, s) ==
  /\ request \in MayBeLost /\ Counted
  /\ late' = late \cup {<<request, s>>}
  /\ UNCHANGED bridgeVars

(* What the client returns as an error. *)
Failed(request, s) ==
  \/ Rejects(request, s) /\ UNCHANGED <<bridgeVars, netVars>>
  \/ Lost(request, s)

(* The bridge gets to a request the client has given up. *)
LateRequest(request, s) ==
  /\ <<request, s>> \in late
  /\ Handle(request, s)
  /\ late' = late \ {<<request, s>>}
  /\ UNCHANGED <<kvVars, lifeVars, wsVars, moves, cmdVars>>

-----------------------------------------------------------------------------
(* The WebSocket client. *)

(* Subscribe: the map, and then a message to the bridge if there is a      *)
(* connection.                                                             *)
SubAdd(a) ==
  /\ At(a, "sub_add")
  /\ subs' = subs \cup {sess[a]}
  /\ Goto(a, "sub_write")
  /\ UNCHANGED <<bridgeVars, kvVars, lifeVars, inbox, todo, masked, netVars>>

Send(message) == IF open = {} THEN UNCHANGED bridgeVars ELSE message

(* The bridge serves one session for each connection: what is sent about s *)
(* takes the place of what was sent about another session.                 *)
TakenBy(s) == {sub[Plugin]} \ {s, NoSession}

SubWrite(a) ==
  /\ At(a, "sub_write")
  /\ Send(Bridge!Subscribe(Plugin, sess[a]))
  /\ masked' = IF open = {} THEN masked ELSE (masked \cup TakenBy(sess[a])) \ {sess[a]}
  /\ IF a = Redial THEN GotoWith(a, "renew", NoSession) ELSE Goto(a, "save")
  /\ UNCHANGED <<kvVars, lifeVars, subs, inbox, todo, netVars>>

(* Unsubscribe, from the label from to the label to. *)
UnsubDelete(a, from, to) ==
  /\ At(a, from)
  /\ subs' = subs \ {sess[a]}
  /\ Goto(a, to)
  /\ UNCHANGED <<bridgeVars, kvVars, lifeVars, inbox, todo, masked, netVars>>

UnsubWrite(a, from, next) ==
  /\ At(a, from)
  /\ Send(Bridge!Unsubscribe(Plugin))
  /\ masked' = masked \cup TakenBy(sess[a])
  /\ next
  /\ UNCHANGED <<kvVars, lifeVars, subs, inbox, todo, netVars>>

(* Mutant: a new connection does not take up the subscriptions. *)
Reconnect_NotRenewed ==
  /\ alive /\ pc[Reader] = "idle" /\ pc[Redial] = "idle"
  /\ Bridge!Connect(Plugin)
  /\ inbox' = {} /\ masked' = {}
  /\ UNCHANGED <<kvVars, lifeVars, subs, todo, netVars, cmdVars>>

(* Connect, in OnActivate or in reconnect, which then copies the           *)
(* subscriptions; what the old connection still carried is lost.  The       *)
(* reader of the old connection has ended, so it handles no message.       *)
Reconnect ==
  /\ alive /\ pc[Reader] = "idle" /\ pc[Redial] = "idle"
  /\ Bridge!Connect(Plugin)
  /\ inbox' = {} /\ masked' = {}
  /\ todo' = subs
  /\ Goto(Redial, "renew")
  /\ UNCHANGED <<kvVars, lifeVars, subs, netVars>>

(* Each of the copied subscriptions is renewed, subscribed or not by now.  *)
Renew ==
  /\ At(Redial, "renew")
  /\ \/ \E s \in todo : todo' = todo \ {s} /\ GotoWith(Redial, "sub_add", s)
     \/ todo = {} /\ Return(Redial) /\ UNCHANGED todo
  /\ UNCHANGED <<bridgeVars, kvVars, lifeVars, subs, inbox, masked, netVars>>

(* processMessage and handleStatus, "stopped": only for a session that is  *)
(* subscribed.  The channel is told, its record deleted, whichever session *)
(* it names, and the session unsubscribed.                                 *)
StatusRead(s) ==
  /\ At(Reader, "idle") /\ s \in inbox
  /\ inbox' = inbox \ {s}
  /\ IF s \in subs
     THEN /\ pc' = [pc EXCEPT ![Reader] = "st_delete"]
          /\ ch' = [ch EXCEPT ![Reader] = ChannelOf[s]]
          /\ sess' = [sess EXCEPT ![Reader] = s]
     ELSE UNCHANGED cmdVars
  /\ UNCHANGED <<bridgeVars, kvVars, lifeVars, subs, todo, masked, netVars>>

(* Mutant: the record is left to /claude-stop. *)
StatusDelete_Forgotten ==
  /\ At(Reader, "st_delete")
  /\ Goto(Reader, "st_unsub")
  /\ UNCHANGED <<bridgeVars, kvVars, lifeVars, wsVars, netVars>>

(* A store that fails is logged. *)
StatusDelete ==
  /\ At(Reader, "st_delete")
  /\ \/ StoreWorks /\ kv' = [kv EXCEPT ![ch[Reader]] = NoSession] /\ Goto(Reader, "st_unsub")
     \/ StoreFails /\ UNCHANGED kv /\ Goto(Reader, "st_kept")
  /\ UNCHANGED <<bridgeVars, hist, lifeVars, wsVars, late>>

StatusUnsubscribe ==
  \/ UnsubDelete(Reader, "st_unsub", "st_write")
  \/ UnsubDelete(Reader, "st_kept", "st_write")
  \/ UnsubWrite(Reader, "st_write", Return(Reader))

ReaderStep == (\E s \in Sessions : StatusRead(s)) \/ StatusDelete \/ StatusUnsubscribe

-----------------------------------------------------------------------------
(* A user runs a command, presses a button or submits a dialog. *)

Begin(a) ==
  /\ At(a, "idle") /\ Counted
  /\ \E c \in Channels,
        label \in {"start_check", "stop_check", "msg_read", "thread_read", "button_read", "status_read"} :
       /\ pc' = [pc EXCEPT ![a] = label]
       /\ ch' = [ch EXCEPT ![a] = c]
  /\ UNCHANGED <<bridgeVars, kvVars, lifeVars, wsVars, late, sess>>

-----------------------------------------------------------------------------
(* /claude-start: executeClaudeStart, CreateSession. *)

StartCheck(a) == ReadRecord(a, "start_check", FALSE, "create_check")

CreateCheck(a) == ReadRecord(a, "create_check", FALSE, "create")

Fresh(c) == {s \in Sessions : ChannelOf[s] = c /\ proc[s] = "none" /\ <<"create", s>> \notin late}

(* Fresh bounds the sessions; without one the bridge refuses. *)
CreateRequest(a) ==
  /\ At(a, "create")
  /\ \/ \E s \in Fresh(ch[a]) :
          \/ Answered("create", s) /\ GotoWith(a, "sub_add", s)
          \/ Failed("create", s) /\ Return(a)
     \/ Fresh(ch[a]) = {} /\ Return(a) /\ UNCHANGED <<bridgeVars, netVars>>
  /\ UNCHANGED <<kvVars, lifeVars, wsVars>>

SaveSession(a) ==
  /\ At(a, "save")
  /\ \/ StoreWorks /\ kv' = [kv EXCEPT ![ch[a]] = sess[a]] /\ Return(a)
     \/ StoreFails /\ UNCHANGED kv /\ Goto(a, "undo_delete")
  /\ UNCHANGED <<bridgeVars, hist, lifeVars, wsVars, late>>

(* "Clean up on failure", whatever the bridge answers. *)
UndoStart(a) ==
  \/ /\ At(a, "undo_delete")
     /\ Answered("delete", sess[a]) \/ Failed("delete", sess[a])
     /\ Goto(a, "undo_unsub")
     /\ UNCHANGED <<kvVars, lifeVars, wsVars>>
  \/ UnsubDelete(a, "undo_unsub", "undo_write")
  \/ UnsubWrite(a, "undo_write", Return(a))

-----------------------------------------------------------------------------
(* /claude-stop: executeClaudeStop, StopSession. *)

StopCheck(a) == ReadRecord(a, "stop_check", TRUE, "stop_read")

StopRead(a) == ReadRecord(a, "stop_read", TRUE, "stop_unsub")

StopUnsubscribe(a) ==
  \/ UnsubDelete(a, "stop_unsub", "stop_write")
  \/ UnsubWrite(a, "stop_write", Goto(a, "stop_delete"))

(* Mutant: without a connection the bridge is taken to be down. *)
StopRequest_OnlyConnected(a) ==
  /\ At(a, "stop_delete")
  /\ IF open = {}
     THEN UNCHANGED <<bridgeVars, netVars>>
     ELSE Answered("delete", sess[a]) \/ Failed("delete", sess[a])
  /\ Goto(a, "forget")
  /\ UNCHANGED <<kvVars, lifeVars, wsVars>>

(* A failure is logged, and the local cleanup goes on. *)
StopRequest(a) ==
  /\ At(a, "stop_delete")
  /\ Answered("delete", sess[a]) \/ Failed("delete", sess[a])
  /\ Goto(a, "forget")
  /\ UNCHANGED <<kvVars, lifeVars, wsVars>>

StopForget(a) ==
  /\ At(a, "forget")
  /\ \/ StoreWorks /\ kv' = [kv EXCEPT ![ch[a]] = NoSession] /\ Goto(a, "erase")
     \/ StoreFails /\ UNCHANGED kv /\ Return(a)
  /\ UNCHANGED <<bridgeVars, hist, lifeVars, wsVars, late>>

StopErase(a) ==
  /\ At(a, "erase")
  /\ \/ StoreWorks /\ hist' = hist \ {sess[a]}
     \/ StoreFails /\ UNCHANGED hist
  /\ Return(a)
  /\ UNCHANGED <<bridgeVars, kv, lifeVars, wsVars, late>>

-----------------------------------------------------------------------------
(* /claude, /claude-thread, /claude-status, and the decisions of buttons   *)
(* and dialogs, for the session the channel has at that moment.            *)

MsgRead(a) == ReadRecord(a, "msg_read", TRUE, "message")

ThreadRead(a) == ReadRecord(a, "thread_read", TRUE, "context")

StatusCmdRead(a) == ReadRecord(a, "status_read", TRUE, "status")

DecisionRead(a) == ReadRecord(a, "button_read", TRUE, "decide")

(* Quick actions and the undo dialog carry the session in the post itself. *)
QuickAction(a) ==
  /\ At(a, "button_read")
  /\ \E s \in Sessions :
       proc[s] # "none" /\ (Answered("message", s) \/ Failed("message", s))
  /\ Return(a)
  /\ UNCHANGED <<kvVars, lifeVars, wsVars>>

(* Mutant: the history is written although the bridge refused. *)
MessageRequest_ErrorIgnored(a) ==
  /\ At(a, "message")
  /\ Answered("message", sess[a]) \/ Failed("message", sess[a])
  /\ Goto(a, "msg_store")
  /\ UNCHANGED <<kvVars, lifeVars, wsVars>>

MessageRequest(a) ==
  /\ At(a, "message")
  /\ \/ Answered("message", sess[a]) /\ Goto(a, "msg_store")
     \/ Failed("message", sess[a]) /\ Return(a)
  /\ UNCHANGED <<kvVars, lifeVars, wsVars>>

ContextRequest(a) ==
  /\ At(a, "context")
  /\ \/ Answered("message", sess[a]) /\ Goto(a, "touch")
     \/ Failed("message", sess[a]) /\ Return(a)
  /\ UNCHANGED <<kvVars, lifeVars, wsVars>>

DecisionRequest(a) ==
  /\ At(a, "decide")
  /\ Answered("decide", sess[a]) \/ Failed("decide", sess[a])
  /\ Return(a)
  /\ UNCHANGED <<kvVars, lifeVars, wsVars>>

StatusRequest(a) ==
  /\ At(a, "status")
  /\ Answered("status", sess[a]) \/ Failed("status", sess[a])
  /\ Return(a)
  /\ UNCHANGED <<kvVars, lifeVars, wsVars>>

MsgStore(a) ==
  /\ At(a, "msg_store")
  /\ \/ StoreWorks /\ hist' = hist \cup {sess[a]}
     \/ StoreFails /\ UNCHANGED hist
  /\ Goto(a, "touch")
  /\ UNCHANGED <<bridgeVars, kv, lifeVars, wsVars, late>>

(* UpdateSessionLastMessage reads the record and writes it back. *)
Touch(a) == ReadRecord(a, "touch", TRUE, "touch_save")

TouchSave(a) ==
  /\ At(a, "touch_save")
  /\ \/ StoreWorks /\ kv' = [kv EXCEPT ![ch[a]] = sess[a]]
     \/ StoreFails /\ UNCHANGED kv
  /\ Return(a)
  /\ UNCHANGED <<bridgeVars, hist, lifeVars, wsVars, late>>

-----------------------------------------------------------------------------
(* The rest of the world. *)

CliExit(s) == Bridge!CliExit(s) /\ UNCHANGED <<kvVars, lifeVars, wsVars, netVars, cmdVars>>

(* The status is sent to the plugin if it is subscribed. *)
ExitEvent(s) ==
  /\ Bridge!ExitEvent(s)
  /\ inbox' = IF Bridge!Subscribers(s) = {} THEN inbox ELSE inbox \cup {s}
  /\ UNCHANGED <<kvVars, lifeVars, subs, todo, masked, netVars, cmdVars>>

BridgeStops ==
  /\ BridgeMayStop /\ Counted
  /\ Bridge!Shutdown \/ Bridge!Crash
  /\ UNCHANGED <<kvVars, lifeVars, wsVars, late, cmdVars>>

BridgeStarts == Bridge!Restart /\ UNCHANGED <<kvVars, lifeVars, wsVars, netVars, cmdVars>>

ConnectionLost == Bridge!Disconnect(Plugin) /\ UNCHANGED <<kvVars, lifeVars, wsVars, netVars, cmdVars>>

(* Deactivation closes the connection; the sessions go on at the bridge. *)
PluginEnds ==
  /\ PluginMayStop /\ alive /\ Counted
  /\ alive' = FALSE
  /\ earlier' = {s \in Sessions : proc[s] # "none"}
  /\ subs' = {} /\ inbox' = {} /\ todo' = {} /\ masked' = {}
  /\ pc' = Everybody("idle") /\ ch' = Everybody(NoChannel) /\ sess' = Everybody(NoSession)
  /\ IF open = {} THEN UNCHANGED bridgeVars ELSE Bridge!Disconnect(Plugin)
  /\ UNCHANGED <<kvVars, late>>

(* OnActivate makes new clients; the KV store is as it was left. *)
PluginStarts ==
  /\ ~alive
  /\ alive' = TRUE
  /\ UNCHANGED <<bridgeVars, kvVars, earlier, wsVars, netVars, cmdVars>>

Start(a) ==
  \/ StartCheck(a) \/ CreateCheck(a) \/ CreateRequest(a) \/ SaveSession(a) \/ UndoStart(a)

Stop(a) ==
  \/ StopCheck(a) \/ StopRead(a) \/ StopUnsubscribe(a) \/ StopRequest(a)
  \/ StopForget(a) \/ StopErase(a)

Use(a) ==
  \/ MsgRead(a) \/ ThreadRead(a) \/ StatusCmdRead(a) \/ DecisionRead(a) \/ QuickAction(a)
  \/ MessageRequest(a) \/ ContextRequest(a) \/ DecisionRequest(a) \/ StatusRequest(a)
  \/ MsgStore(a) \/ Touch(a) \/ TouchSave(a)

Next ==
  \/ \E a \in Cmds : Begin(a) \/ Start(a) \/ Stop(a) \/ Use(a)
  \/ \E a \in Cmds \cup {Redial} : SubAdd(a) \/ SubWrite(a)
  \/ Reconnect \/ Renew \/ ReaderStep
  \/ \E s \in Sessions : CliExit(s) \/ ExitEvent(s) \/ \E request \in Requests : LateRequest(request, s)
  \/ BridgeStops \/ BridgeStarts \/ ConnectionLost \/ PluginEnds \/ PluginStarts

Spec == Init /\ [][Next]_vars

(* The goroutines of the WebSocket client go on.  Nothing else need happen. *)
RedialStep == Renew \/ SubAdd(Redial) \/ SubWrite(Redial)

FairSpec == Spec /\ WF_vars(ReaderStep) /\ WF_vars(RedialStep)

-----------------------------------------------------------------------------
(* Properties of the two together. *)

(* A stop command has unsubscribed s and its DELETE is still to come, or    *)
(* was given up.                                                            *)
StopUnderWay(s) ==
  \/ \E a \in Cmds : sess[a] = s /\ pc[a] \in {"stop_write", "stop_delete"}
  \/ <<"delete", s>> \in late

(* Reconnect has copied the subscription of s and is to renew it.          *)
Renewing(s) ==
  \/ s \in todo
  \/ pc[Redial] \in {"sub_add", "sub_write"} /\ sess[Redial] = s

(* What the plugin can do to hear of s: it takes up the messages about s,   *)
(* and the bridge sends them on the connection there is, or would had the   *)
(* plugin not sent a message about another session after the one about s.  *)
Listening(s) ==
  /\ s \in subs
  /\ open = {} \/ sub[Plugin] = s \/ s \in masked \/ Renewing(s)

(* While the process of the session a channel has is in the table of the    *)
(* bridge, the plugin has subscribed to that session there on the           *)
(* connection it has now, or is about to, and takes up what comes: whatever *)
(* was started, stopped, ended, undone, lost or connected again meanwhile.  *)
(* The one exception is what the bridge makes of several sessions on one    *)
(* connection: it serves the session it was asked for last, and none after  *)
(* an unsubscription of any (handler.ts:113), so that the others are        *)
(* recorded and not heard.  Sessions from before a restart of the plugin    *)
(* are another matter.                                                      *)
RecordedIsHeard ==
  \A c \in Channels :
    kv[c] \in table \ earlier => Listening(kv[c]) \/ StopUnderWay(kv[c])

(* The plugin keeps a history for no session the bridge has none for, as    *)
(* long as the bridge has the session: what the plugin stores was stored    *)
(* there before.                                                            *)
HistoryIsBacked == \A s \in hist : s \in stored \/ db[s] = "none"

(* A session whose record a command is about to delete, or that it could    *)
(* not save, runs on at the bridge only if the request to delete it was     *)
(* given up and is still on its way: its process has ended, was sent        *)
(* SIGTERM, or belongs to a run of the bridge that is over, although the    *)
(* answer of the bridge is not looked at.                                   *)
StopReachesBridge ==
  \A a \in Cmds : pc[a] \in {"forget", "erase", "undo_unsub", "undo_write"} =>
    \/ proc[sess[a]] # "running"
    \/ sess[a] \in term \cup lost
    \/ <<"delete", sess[a]>> \in late

(* While the commands of a channel run one at a time, a start command finds *)
(* the record it checked for still missing when it saves its own, and the   *)
(* record that is written back after a message is the one that was read,    *)
(* unless it was deleted meanwhile.                                         *)
OneAtATime == \A a, b \in Cmds : ch[a] = ch[b] /\ ch[a] # NoChannel => a = b

RecordIsAsRead ==
  \A a \in Cmds :
    /\ pc[a] \in {"create_check", "create"} \cup StartLabels => kv[ch[a]] = NoSession
    /\ pc[a] = "touch_save" => kv[ch[a]] \in {NoSession, sess[a]}

(* No session takes the place of another one in the record of a channel.    *)
NoTakeover ==
  [][\A c \in Channels : kv[c] # NoSession => kv'[c] \in {NoSession, kv[c]}]_vars

(* Of a session whose end was announced, and that the plugin listens to,    *)
(* the record goes, unless the store fails, a stop command is at work, the  *)
(* connection is lost or the plugin goes down.                              *)
StoppedIsCleanedUp ==
  \A s \in Sessions :
    kv[ChannelOf[s]] = s /\ s \in inbox /\ s \in subs ~>
      \/ kv[ChannelOf[s]] # s
      \/ sess[Reader] = s /\ pc[Reader] = "st_kept"
      \/ \E a \in Cmds : sess[a] = s /\ pc[a] \in StopLabels
      \/ open = {} \/ ~alive

-----------------------------------------------------------------------------
(* The inductive invariant behind the safety properties. *)

(* Where each goroutine can be, and what it then has in hand. *)
ControlInv ==
  /\ \A a \in Cmds :
       /\ pc[a] \in {"idle"} \cup ReadLabels \cup StartLabels \cup StopLabels \cup SendLabels
       /\ pc[a] # "idle" => ch[a] \in Channels
       /\ pc[a] \in StartLabels \cup StopLabels \cup SendLabels => sess[a] \in Sessions
  /\ pc[Reader] \in {"idle"} \cup ReaderLabels
  /\ pc[Reader] \in ReaderLabels => ch[Reader] \in Channels /\ sess[Reader] \in reported
  /\ pc[Redial] \in {"idle", "renew", "sub_add", "sub_write"}
  /\ pc[Redial] \in {"sub_add", "sub_write"} => sess[Redial] \in Sessions

(* The plugin knows only sessions that were created, and takes only ended  *)
(* ones for stopped.                                                       *)
KnownInv ==
  /\ \A s \in hist \cup subs \cup todo : proc[s] # "none"
  /\ \A c \in Channels : kv[c] # NoSession => proc[kv[c]] # "none"
  /\ \A a \in Agents : sess[a] # NoSession => proc[sess[a]] # "none"
  /\ inbox \subseteq reported

(* Recorded, or in the hands of a goroutine that found it recorded. *)
Saved(s) ==
  \/ \E c \in Channels : kv[c] = s
  \/ \E a \in Cmds : sess[a] = s /\ pc[a] \notin StartLabels

(* A session that is being started is known to its starter alone. *)
StarterInv ==
  \A a \in Cmds : pc[a] \in StartLabels =>
    /\ ~Saved(sess[a])
    /\ \A b \in Cmds : sess[b] = sess[a] => b = a
    /\ pc[a] = "sub_write" /\ sess[a] \in table => sess[a] \in subs

Saving(s) == \E a \in Cmds : sess[a] = s /\ pc[a] = "save"

SavedInv ==
  \A s \in Sessions :
    (Saved(s) \/ Saving(s)) /\ s \in table \ earlier => Listening(s) \/ StopUnderWay(s)

StoreInv ==
  \A a \in Cmds : pc[a] = "msg_store" => sess[a] \in stored \/ db[sess[a]] = "none"

IndInv ==
  /\ TypeOK /\ Bridge!IndInv /\ ControlInv /\ KnownInv
  /\ StarterInv /\ SavedInv /\ StoreInv
  /\ HistoryIsBacked

=============================================================================
