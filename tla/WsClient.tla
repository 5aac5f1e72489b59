------------------------------ MODULE WsClient ------------------------------
(***************************************************************************)
(* The WebSocket client of the plugin in bridge mode (websocket_client.go) *)
(* with the goroutines that use it: OnActivate, which connects, the reader *)
(* of each connection, which turns into the reconnecting goroutine when    *)
(* its connection fails, the commands that start and stop sessions, and    *)
(* OnDeactivate, which closes.  Of the bridge server the module keeps the  *)
(* end of each connection: what it was told, and the one session it serves *)
(* (handler.ts).                                                           *)
(*                                                                         *)
(* The mutex ws.mu is held across a step only while a goroutine dials;     *)
(* ws.conn and ws.reconnecting are also read without it, as in the code.   *)
(***************************************************************************)
EXTENDS Naturals

CONSTANTS
  Sessions,   \* bridge sessions; the goroutine that starts s is named s itself
  Stoppers,   \* goroutines that run stop commands
  MaxConns,   \* bound on the connections ever made
  NoSession   \* of an idle goroutine

Conns == 1..MaxConns

(* Thread 0 is OnActivate; thread k reads connection k and, when that      *)
(* fails, goes on as the goroutine of reconnect.                           *)
Threads == 0..MaxConns

Agents == Sessions \cup Stoppers \cup Threads

ASSUME ClientAssumption ==
  /\ MaxConns \in Nat \ {0}
  /\ NoSession \notin Sessions
  /\ Sessions \cap Stoppers = {}
  /\ Sessions \cap Nat = {}
  /\ Stoppers \cap Nat = {}

VARIABLES
  conn,          \* ws.conn: the number of a connection, or 0 for nil
  nconn,         \* how many connections were made
  link,          \* a connection: "unused", "open", "broken" or "closed"
  told,          \* sessions the bridge was last told to subscribe to, per connection
  reconnecting,  \* ws.reconnecting
  stop,          \* ws.stopChan is closed
  subs,          \* ws.subscriptions
  pc,            \* where a goroutine is
  at,            \* the session it subscribes or unsubscribes
  reading,       \* the connection a reader has loaded from ws.conn, per thread
  todo,          \* what reconnect has still to subscribe, per thread
  ended,         \* sessions whose "stopped" status has arrived
  gone,          \* sessions that Unsubscribe has deleted from ws.subscriptions
  closing,       \* Close: "no", "locking" or "closed"
  crashed        \* a goroutine called a method of a nil connection

connVars == <<conn, nconn, link, told>>
vars == <<connVars, reconnecting, stop, subs, pc, at, reading, todo, ended, gone, closing, crashed>>

SubscribeLabels == {"sub_add", "sub_look", "sub_write"}
UnsubscribeLabels == {"unsub_del", "unsub_look", "unsub_write"}
ReaderLabels == {"top", "read", "check"} \cup UnsubscribeLabels
DialLabels == {"flag", "drop", "loop", "dial", "dialing"}
TailLabels == {"copy", "resub", "clear"} \cup SubscribeLabels
Labels ==
  {"none", "done", "idle", "saved", "dropped", "stop_delete"}
    \cup ReaderLabels \cup DialLabels \cup TailLabels

TypeOK ==
  /\ conn \in Threads
  /\ nconn \in Threads
  /\ link \in [Conns -> {"unused", "open", "broken", "closed"}]
  /\ told \in [Conns -> SUBSET Sessions]
  /\ reconnecting \in BOOLEAN
  /\ stop \in BOOLEAN
  /\ subs \subseteq Sessions
  /\ pc \in [Agents -> Labels]
  /\ at \in [Agents -> Sessions \cup {NoSession}]
  /\ reading \in [Conns -> Threads]
  /\ todo \in [Threads -> SUBSET Sessions]
  /\ ended \subseteq Sessions
  /\ gone \subseteq Sessions
  /\ closing \in {"no", "locking", "closed"}
  /\ crashed \in BOOLEAN

Init ==
  /\ conn = 0
  /\ nconn = 0
  /\ link = [k \in Conns |-> "unused"]
  /\ told = [k \in Conns |-> {}]
  /\ reconnecting = FALSE
  /\ stop = FALSE
  /\ subs = {}
  /\ pc = [a \in Agents |-> IF a = 0 THEN "dial" ELSE IF a \in Threads THEN "none" ELSE "idle"]
  /\ at = [a \in Agents |-> NoSession]
  /\ reading = [t \in Conns |-> 0]
  /\ todo = [t \in Threads |-> {}]
  /\ ended = {}
  /\ gone = {}
  /\ closing = "no"
  /\ crashed = FALSE

-----------------------------------------------------------------------------
(* ws.mu: Connect holds it while it dials. *)
Unlocked == \A t \in Threads : pc[t] # "dialing"

(* Nothing runs once the plugin is down. *)
At(a, label) == ~crashed /\ pc[a] = label

Goto(a, label) == pc' = [pc EXCEPT ![a] = label]

Work(a, label, s) == Goto(a, label) /\ at' = [at EXCEPT ![a] = s]

(* A step that moves a goroutine and changes nothing else. *)
Step(a, from, to) ==
  /\ At(a, from)
  /\ Goto(a, to)
  /\ UNCHANGED <<connVars, reconnecting, stop, subs, at, reading, todo, ended, gone, closing, crashed>>

(* Until OnActivate returns the server routes no hook to the plugin. *)
Activated == pc[0] = "done"

-----------------------------------------------------------------------------
(* Connect. *)

Dial(t) == Unlocked /\ Step(t, "dial", "dialing")

(* The new connection replaces ws.conn, and its reader starts. *)
DialSucceeds(t) ==
  /\ At(t, "dialing")
  /\ nconn < MaxConns
  /\ nconn' = nconn + 1
  /\ conn' = nconn'
  /\ link' = [link EXCEPT ![nconn'] = "open"]
  /\ pc' = [pc EXCEPT ![t] = IF t = 0 THEN "done" ELSE "copy", ![nconn'] = "top"]
  /\ UNCHANGED <<told, reconnecting, stop, subs, at, reading, todo, ended, gone, closing, crashed>>

(* Mutant: reconnect gives up when its dial fails. *)
DialFails_GivesUp(t) == Step(t, "dialing", IF t = 0 THEN "done" ELSE "clear")

(* OnActivate logs a warning; reconnect sleeps and goes round its loop. *)
DialFails(t) == Step(t, "dialing", IF t = 0 THEN "done" ELSE "loop")

-----------------------------------------------------------------------------
(* handleMessages. *)

(* With a nil connection the reader sleeps a second and looks again. *)
ReaderTop(t) ==
  \/ stop /\ Step(t, "top", "done")
  \/ /\ At(t, "top") /\ ~stop /\ Unlocked /\ conn # 0
     /\ reading' = [reading EXCEPT ![t] = conn]
     /\ Goto(t, "read")
     /\ UNCHANGED <<connVars, reconnecting, stop, subs, at, todo, ended, gone, closing, crashed>>

ReaderFails(t) == Step(t, "read", "check") /\ link[reading[t]] # "open"

(* handleStatus, "stopped": the record of the channel is deleted, unless   *)
(* the store fails, and the reader itself goes on to Unsubscribe.  A        *)
(* message about a session that is not subscribed is ignored.              *)
ReaderStopped(t, s) ==
  /\ At(t, "read")
  /\ link[reading[t]] = "open"
  /\ s \in told[reading[t]] \ ended
  /\ Unlocked
  /\ ended' = ended \cup {s}
  /\ IF s \in subs
     THEN /\ \E record \in {"saved", "dropped"} :
                pc' = [pc EXCEPT ![t] = "unsub_del", ![s] = IF @ = "saved" THEN record ELSE @]
          /\ at' = [at EXCEPT ![t] = s]
     ELSE Goto(t, "top") /\ UNCHANGED at
  /\ UNCHANGED <<connVars, reconnecting, stop, subs, reading, todo, gone, closing, crashed>>

(* Mutant: the reader reconnects although another goroutine does. *)
ReaderCheck_IgnoresFlag(t) == Step(t, "check", "flag")

(* ws.reconnecting is read without the mutex; the reader ends either way. *)
ReaderCheck(t) == Step(t, "check", IF reconnecting THEN "done" ELSE "flag")

-----------------------------------------------------------------------------
(* reconnect. *)

Flag(t) ==
  /\ At(t, "flag")
  /\ Unlocked
  /\ reconnecting' = TRUE
  /\ Goto(t, "drop")
  /\ UNCHANGED <<connVars, stop, subs, at, reading, todo, ended, gone, closing, crashed>>

(* The old connection is closed and forgotten. *)
CloseConn ==
  /\ link' = IF conn = 0 THEN link ELSE [link EXCEPT ![conn] = "closed"]
  /\ conn' = 0
  /\ UNCHANGED <<nconn, told>>

Drop(t) ==
  /\ At(t, "drop")
  /\ Unlocked
  /\ CloseConn
  /\ Goto(t, "loop")
  /\ UNCHANGED <<reconnecting, stop, subs, at, reading, todo, ended, gone, closing, crashed>>

(* Mutant: the loop does not look at stopChan. *)
Loop_IgnoresStop(t) == Step(t, "loop", "dial")

Loop(t) == Step(t, "loop", IF stop THEN "clear" ELSE "dial")

(* Connected: the subscriptions are copied under the lock, ... *)
Copy(t) ==
  /\ At(t, "copy")
  /\ Unlocked
  /\ todo' = [todo EXCEPT ![t] = subs]
  /\ Goto(t, "resub")
  /\ UNCHANGED <<connVars, reconnecting, stop, subs, at, reading, ended, gone, closing, crashed>>

(* ... and each of them is subscribed again, in no particular order. *)
Resub(t) ==
  /\ At(t, "resub")
  /\ \/ \E s \in todo[t] :
          /\ todo' = [todo EXCEPT ![t] = @ \ {s}]
          /\ Work(t, "sub_add", s)
     \/ todo[t] = {} /\ Work(t, "clear", NoSession) /\ UNCHANGED todo
  /\ UNCHANGED <<connVars, reconnecting, stop, subs, reading, ended, gone, closing, crashed>>

Clear(t) ==
  /\ At(t, "clear")
  /\ Unlocked
  /\ reconnecting' = FALSE
  /\ Goto(t, "done")
  /\ UNCHANGED <<connVars, stop, subs, at, reading, todo, ended, gone, closing, crashed>>

-----------------------------------------------------------------------------
(* Subscribe, by the command that creates a session and by reconnect. *)

SubAdd(a) ==
  /\ At(a, "sub_add")
  /\ Unlocked
  /\ subs' = subs \cup {at[a]}
  /\ Goto(a, "sub_look")
  /\ UNCHANGED <<connVars, reconnecting, stop, at, reading, todo, ended, gone, closing, crashed>>

(* CreateSession saves the record, or unsubscribes when that fails. *)
AfterSubscribe(a) == IF a \in Threads THEN {"resub"} ELSE {"saved", "unsub_del"}

(* Mutant: nothing is sent while a goroutine reconnects. *)
SubLook_NotReconnecting(a) ==
  \E label \in IF conn = 0 \/ (reconnecting /\ a \notin Threads)
               THEN AfterSubscribe(a) ELSE {"sub_write"} :
    Step(a, "sub_look", label)

(* Is there a connection?  ws.conn is read without the mutex ... *)
SubLook(a) ==
  \E label \in IF conn = 0 THEN AfterSubscribe(a) ELSE {"sub_write"} : Step(a, "sub_look", label)

(* ... and read again for the write: a method of a nil *websocket.Conn     *)
(* panics and takes the plugin down, a broken connection loses the message. *)
Write(a, labels, toldNow) ==
  /\ IF conn = 0
     THEN crashed' = TRUE /\ UNCHANGED <<told, pc>>
     ELSE /\ IF link[conn] = "open"
             THEN told' = [told EXCEPT ![conn] = toldNow]
             ELSE UNCHANGED told
          /\ \E label \in labels : Goto(a, label)
          /\ UNCHANGED crashed
  /\ UNCHANGED <<conn, nconn, link, reconnecting, stop, subs, at, reading, todo, ended, gone, closing>>

(* The bridge of this module serves every session of a connection; what    *)
(* the handler really does with several of them is in BridgeServer.        *)
SubWrite(a) ==
  At(a, "sub_write") /\ Write(a, AfterSubscribe(a), told[conn] \cup {at[a]})

-----------------------------------------------------------------------------
(* Unsubscribe, by a stop command, by a start command that failed and by   *)
(* the reader.                                                             *)

UnsubDelete(a) ==
  /\ At(a, "unsub_del")
  /\ Unlocked
  /\ subs' = subs \ {at[a]}
  /\ gone' = gone \cup {at[a]}
  /\ Goto(a, "unsub_look")
  /\ UNCHANGED <<connVars, reconnecting, stop, at, reading, todo, ended, closing, crashed>>

AfterUnsubscribe(a) ==
  IF a \in Threads THEN "top" ELSE IF a \in Stoppers THEN "stop_delete" ELSE "dropped"

UnsubLook(a) == Step(a, "unsub_look", IF conn = 0 THEN AfterUnsubscribe(a) ELSE "unsub_write")

UnsubWrite(a) ==
  At(a, "unsub_write") /\ Write(a, {AfterUnsubscribe(a)}, told[conn] \ {at[a]})

-----------------------------------------------------------------------------
(* The commands, while the plugin is active. *)

(* CreateSession, once the bridge has made the session. *)
StartSession(s) ==
  /\ Activated /\ closing = "no"
  /\ At(s, "idle")
  /\ Work(s, "sub_add", s)
  /\ UNCHANGED <<connVars, reconnecting, stop, subs, reading, todo, ended, gone, closing, crashed>>

(* StopSession has read the record of the channel. *)
StopSession(w, s) ==
  /\ closing = "no"
  /\ At(w, "idle")
  /\ pc[s] = "saved"
  /\ Work(w, "unsub_del", s)
  /\ UNCHANGED <<connVars, reconnecting, stop, subs, reading, todo, ended, gone, closing, crashed>>

(* The record of the channel is deleted, unless the store fails. *)
StopDelete(w) ==
  /\ At(w, "stop_delete")
  /\ \E record \in {"saved", "dropped"} :
       pc' = [pc EXCEPT ![w] = "idle", ![at[w]] = IF @ = "saved" THEN record ELSE @]
  /\ at' = [at EXCEPT ![w] = NoSession]
  /\ UNCHANGED <<connVars, reconnecting, stop, subs, reading, todo, ended, gone, closing, crashed>>

-----------------------------------------------------------------------------
(* Close, called by OnDeactivate. *)

CloseStop ==
  /\ ~crashed
  /\ Activated
  /\ closing = "no"
  /\ closing' = "locking"
  /\ stop' = TRUE
  /\ UNCHANGED <<connVars, reconnecting, subs, pc, at, reading, todo, ended, gone, crashed>>

(* Mutant: the connection is forgotten without being closed. *)
CloseLocked_NotClosed ==
  /\ ~crashed
  /\ closing = "locking"
  /\ Unlocked
  /\ conn' = 0
  /\ closing' = "closed"
  /\ UNCHANGED <<nconn, link, told, reconnecting, stop, subs, pc, at, reading, todo, ended, gone,
                 crashed>>

CloseLocked ==
  /\ ~crashed
  /\ closing = "locking"
  /\ Unlocked
  /\ CloseConn
  /\ closing' = "closed"
  /\ UNCHANGED <<reconnecting, stop, subs, pc, at, reading, todo, ended, gone, crashed>>

(* The network, the heartbeat of the bridge or its shutdown ends a          *)
(* connection.  The guard bounds the model: one more connection is left.    *)
LinkBreaks(k) ==
  /\ ~crashed
  /\ link[k] = "open"
  /\ nconn < MaxConns
  /\ link' = [link EXCEPT ![k] = "broken"]
  /\ UNCHANGED <<conn, nconn, told, reconnecting, stop, subs, pc, at, reading, todo, ended, gone,
                 closing, crashed>>

-----------------------------------------------------------------------------
ReaderStep(t) ==
  ReaderTop(t) \/ ReaderFails(t) \/ (\E s \in Sessions : ReaderStopped(t, s)) \/ ReaderCheck(t)

ReconnectStep(t) == Flag(t) \/ Drop(t) \/ Loop(t) \/ Copy(t) \/ Resub(t) \/ Clear(t)

DialStep(t) == Dial(t) \/ DialSucceeds(t) \/ DialFails(t)

SubscribeStep(a) == SubAdd(a) \/ SubLook(a) \/ SubWrite(a)

UnsubscribeStep(a) == UnsubDelete(a) \/ UnsubLook(a) \/ UnsubWrite(a)

Next ==
  \/ \E t \in Conns : ReaderStep(t) \/ ReconnectStep(t)
  \/ \E t \in Threads : DialStep(t)
  \/ \E a \in Agents : SubscribeStep(a) \/ UnsubscribeStep(a)
  \/ \E s \in Sessions : StartSession(s) \/ \E w \in Stoppers : StopSession(w, s)
  \/ \E w \in Stoppers : StopDelete(w)
  \/ \E k \in Conns : LinkBreaks(k)
  \/ CloseStop \/ CloseLocked

Spec == Init /\ [][Next]_vars

(* Whatever a thread does next, but for the messages it may receive. *)
ThreadStep(t) ==
  \/ t # 0 /\ (ReaderTop(t) \/ ReaderFails(t) \/ ReaderCheck(t) \/ ReconnectStep(t))
  \/ DialStep(t) \/ SubscribeStep(t) \/ UnsubscribeStep(t)

(* A thread that can run does, a reader learns that its connection is gone, *)
(* and a bridge that is dialled again and again answers in the end.  As the *)
(* connections are bounded, so are the times ws.mu is held across a dial.   *)
(* Nothing makes a user run a command or the server deactivate the plugin.  *)
Fairness ==
  /\ \A t \in Threads : WF_vars(ThreadStep(t))
  /\ SF_vars(\E t \in Threads : DialSucceeds(t))
  /\ WF_vars(CloseLocked)

FairSpec == Spec /\ Fairness

-----------------------------------------------------------------------------
(* Properties of the client, which hold. *)

(* reconnect, from its start to the reset of ws.reconnecting. *)
Reconnecting(t) == t # 0 /\ pc[t] \in DialLabels \cup TailLabels

(* At most one goroutine reconnects, although the flag is read without the *)
(* mutex and set only by the goroutine it is about: a second one would     *)
(* close the connection the first one made.                                *)
OneReconnect ==
  \A t, u \in Conns : Reconnecting(t) /\ Reconnecting(u) => t = u

(* No connection is lost from sight: an open one is ws.conn, where         *)
(* reconnect and Close can close it.                                       *)
NoConnectionLeak == \A k \in Conns : link[k] = "open" => conn = k

(* Started, and nothing has unsubscribed it. *)
Wanted(s) == pc[s] \in {"sub_look", "sub_write", "saved"} /\ s \notin gone

(* A goroutine that will still tell the bridge about s. *)
WillTell(s) ==
  \/ pc[s] \in {"sub_look", "sub_write"}
  \/ \E t \in Conns :
       \/ pc[t] = "copy"
       \/ s \in todo[t] /\ pc[t] \in {"resub"} \cup SubscribeLabels
       \/ at[t] = s /\ pc[t] \in SubscribeLabels

(* No subscription is lost, however Subscribe and reconnect interleave: a  *)
(* session that was started is in ws.subscriptions, and the connection in  *)
(* use has been told of it or will be.                                     *)
SubscriptionKept ==
  \A s \in Sessions : Wanted(s) =>
    /\ s \in subs
    /\ conn # 0 /\ link[conn] = "open" => s \in told[conn] \/ WillTell(s)

-----------------------------------------------------------------------------
(* The inductive invariant behind the safety properties.                   *)

(* Where each kind of goroutine can be, and on which session.  Unsubscribe *)
(* has deleted its session before it looks at the connection.              *)
ControlInv ==
  /\ pc[0] \in {"dial", "dialing", "done"}
  /\ \A t \in Conns : pc[t] \in {"none", "done"} \cup ReaderLabels \cup DialLabels \cup TailLabels
  /\ \A s \in Sessions :
       /\ pc[s] \in {"idle", "saved", "dropped"} \cup SubscribeLabels \cup UnsubscribeLabels
       /\ pc[s] # "idle" => at[s] = s /\ Activated
  /\ \A w \in Stoppers : pc[w] \in {"idle", "stop_delete"} \cup UnsubscribeLabels
  /\ \A a \in Agents :
       /\ pc[a] \in SubscribeLabels \cup UnsubscribeLabels \cup {"stop_delete"} => at[a] \in Sessions
       /\ pc[a] \in {"unsub_look", "unsub_write"} => at[a] \in gone

(* The duty to keep the client connected passes from OnActivate to the     *)
(* reader, to the goroutine of reconnect, to the next reader: one thread   *)
(* has it at a time, and the threads to come have not started.             *)
OnDuty(t) == pc[t] \in ReaderLabels \cup DialLabels

DutyInv ==
  /\ \A t, u \in Threads : OnDuty(t) /\ OnDuty(u) => t = u
  /\ \A t \in Conns : t > nconn => pc[t] = "none"
  /\ \A t \in Conns : t > nconn <=> link[t] = "unused"
  /\ conn <= nconn

(* The flag covers reconnect from its second step to its last.             *)
FlagInv == \A t \in Conns : Reconnecting(t) /\ pc[t] # "flag" => reconnecting

(* A thread that dials has dropped the old connection.                     *)
ConnInv ==
  \A t \in Threads : pc[t] \in {"loop", "dial", "dialing"} => conn = 0

IndInv ==
  /\ TypeOK /\ ControlInv /\ DutyInv /\ FlagInv /\ ConnInv
  /\ OneReconnect /\ NoConnectionLeak /\ SubscriptionKept

-----------------------------------------------------------------------------
(* The promise of the client to the bridge, on the state of this module.   *)
Live == {k \in Conns : link[k] = "open"}
Used == {k \in Conns : link[k] # "unused"}
Dialling == \E t \in Threads : pc[t] \in {"dial", "dialing"}

Client == INSTANCE Connection WITH
  live <- Live, used <- Used, dialling <- Dialling, closed <- stop

(* The bridge sees one connection of the client at a time, on which only   *)
(* the one in use is spoken, whichever goroutine dials, drops or subscribes; *)
(* after Close it sees at most the one that was being dialled.             *)
ImplementsConnection == Client!Spec

-----------------------------------------------------------------------------
(* Liveness, under FairSpec.                                               *)

(* A goroutine that has dropped the connection does not end before the     *)
(* client has one again, however often the bridge refuses, unless Close    *)
(* intervenes or the plugin goes down.                                     *)
ReconnectSucceeds ==
  \A t \in Conns : pc[t] = "loop" ~> conn # 0 \/ stop \/ crashed

(* Close ends the goroutine that reads and the one that reconnects,        *)
(* wherever it finds them.                                                 *)
CloseEndsGoroutines ==
  stop ~> crashed \/ \A t \in Conns : pc[t] \in {"none", "done"}

-----------------------------------------------------------------------------
(* What the documents and comments of the repository say, and the code     *)
(* does not do.                                                            *)

(* docs/ARCHITECTURE.md, "WebSocket disconnect -> automatic reconnection". *)
(* A connection that breaks while reconnect is still subscribing again     *)
(* ends its reader without a new reconnect.                                *)
DisconnectIsRepaired ==
  \A k \in Conns :
    conn = k /\ link[k] = "broken"
      ~> stop \/ crashed \/ conn # k
=============================================================================
