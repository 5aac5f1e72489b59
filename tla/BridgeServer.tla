---------------------------- MODULE BridgeServer ----------------------------
(***************************************************************************)
(* The bridge server: the session, message and context endpoints of its    *)
(* REST API, the rows they keep in SQLite, the table of CLI processes of   *)
(* the spawner, the WebSocket handler and the shutdown (bridge-server/src).*)
(*                                                                         *)
(* JavaScript runs one callback at a time, and no handler here awaits      *)
(* anything, so each request, message and event is one action.  What       *)
(* interleaves are the callbacks and the processes themselves: a process   *)
(* may have ended although its exit event has not been handled yet.        *)
(***************************************************************************)
CONSTANTS
  Sessions,   \* the ids uuidv4 may return, each of them once
  Clients,    \* WebSocket connections to the server
  NoSession   \* a connection that is subscribed to nothing

ASSUME BridgeAssumption == NoSession \notin Sessions

VARIABLES
  up,        \* the server runs
  db,        \* status of the row in table sessions, or "none"
  stored,    \* sessions with rows in table messages
  proc,      \* the CLI process: "none", "failed" (not started), "running", "exited"
  term,      \* sessions whose process was sent SIGTERM
  table,     \* spawner.processes
  reported,  \* sessions whose exit event was emitted
  told,      \* those of them some client was told of
  lost,      \* sessions whose process an earlier run of the server started
  open,      \* open connections, wsHandler.clients
  sub        \* ClientConnection.sessionId

procVars == <<proc, term, table, reported, told, lost>>
wsVars == <<open, sub>>
vars == <<up, db, stored, procVars, wsVars>>

TypeOK ==
  /\ up \in BOOLEAN
  /\ db \in [Sessions -> {"none", "active", "stopped", "error"}]
  /\ stored \subseteq Sessions
  /\ proc \in [Sessions -> {"none", "failed", "running", "exited"}]
  /\ term \subseteq Sessions /\ table \subseteq Sessions
  /\ reported \subseteq Sessions /\ told \subseteq Sessions /\ lost \subseteq Sessions
  /\ open \subseteq Clients
  /\ sub \in [Clients -> Sessions \cup {NoSession}]

Init ==
  /\ up = TRUE
  /\ db = [s \in Sessions |-> "none"]
  /\ proc = [s \in Sessions |-> "none"]
  /\ stored = {} /\ term = {} /\ table = {} /\ reported = {} /\ told = {} /\ lost = {}
  /\ open = {}
  /\ sub = [c \in Clients |-> NoSession]

-----------------------------------------------------------------------------
(* POST /api/sessions, which answers 201 whatever becomes of the process.  *)

Spawned(s) ==
  /\ proc' = [proc EXCEPT ![s] = "running"]
  /\ table' = table \cup {s}
  /\ db' = [db EXCEPT ![s] = "active"]

(* The error event of a CLI that cannot be run comes before any other      *)
(* callback and takes the process out of the table; its row stays active.  *)
(* An exception thrown by spawn is noted in the row.                       *)
NotSpawned(s) ==
  /\ proc' = [proc EXCEPT ![s] = "failed"]
  /\ \E status \in {"active", "error"} : db' = [db EXCEPT ![s] = status]
  /\ UNCHANGED table

CreateSession(s) ==
  /\ up /\ proc[s] = "none"
  /\ Spawned(s) \/ NotSpawned(s)
  /\ UNCHANGED <<up, stored, term, reported, told, lost, wsVars>>

(* Mutant: the row is set to stopped although the process runs. *)
GetSession_NotChecked(s) ==
  /\ up /\ db[s] = "active"
  /\ db' = [db EXCEPT ![s] = "stopped"]
  /\ UNCHANGED <<up, stored, procVars, wsVars>>

(* GET /api/sessions/:id notices that the process is gone. *)
GetSession(s) ==
  /\ up /\ db[s] = "active" /\ s \notin table
  /\ db' = [db EXCEPT ![s] = "stopped"]
  /\ UNCHANGED <<up, stored, procVars, wsVars>>

(* kill: SIGTERM, and the process is taken out of the table at once. *)
Kill(S) ==
  /\ term' = term \cup {s \in S : proc[s] = "running"}
  /\ table' = table \ S

(* Mutants: a deleted session keeps its process; kill counts as its exit;  *)
(* the foreign key of messages has no ON DELETE CASCADE.                   *)
DeleteSession_NoKill(s) ==
  /\ up /\ db[s] # "none"
  /\ table' = table \ {s}
  /\ db' = [db EXCEPT ![s] = "none"]
  /\ stored' = stored \ {s}
  /\ UNCHANGED <<up, proc, term, reported, told, lost, wsVars>>

DeleteSession_Reports(s) ==
  /\ up /\ db[s] # "none"
  /\ Kill(table \cap {s})
  /\ db' = [db EXCEPT ![s] = "none"]
  /\ stored' = stored \ {s}
  /\ reported' = reported \cup (table \cap {s})
  /\ UNCHANGED <<up, proc, told, lost, wsVars>>

(* DELETE /api/sessions/:id; the messages go with the row. *)
DeleteSession(s) ==
  /\ up /\ db[s] # "none"
  /\ Kill(table \cap {s})
  /\ db' = [db EXCEPT ![s] = "none"]
  /\ stored' = stored \ {s}
  /\ UNCHANGED <<up, proc, reported, told, lost, wsVars>>

-----------------------------------------------------------------------------
(* The end of the server: its memory is gone, the rows and the processes   *)
(* stay.                                                                   *)
Ends ==
  /\ up' = FALSE
  /\ table' = {}
  /\ lost' = lost \cup {s \in Sessions : proc[s] \in {"running", "exited"} /\ s \notin reported}
  /\ open' = {}
  /\ sub' = [c \in Clients |-> NoSession]
  /\ UNCHANGED <<proc, reported, told>>

(* SIGTERM, SIGINT or an uncaught exception: kill all, close, exit. *)
ShutsDown == term' = term \cup {s \in table : proc[s] = "running"} /\ Ends

(* Mutant: the processes are not killed. *)
Shutdown_NoKillAll == up /\ Ends /\ UNCHANGED <<db, stored, term>>

Shutdown == up /\ ShutsDown /\ UNCHANGED <<db, stored>>

Crash == up /\ Ends /\ UNCHANGED <<db, stored, term>>

Restart ==
  /\ ~up
  /\ up' = TRUE
  /\ UNCHANGED <<db, stored, procVars, wsVars>>

-----------------------------------------------------------------------------
(* Input for a process: messages and contexts, which are stored first, and *)
(* decisions about changes, which are not.  A write to a process that has  *)
(* ended fails with EPIPE after the handler has answered; no listener      *)
(* takes the error event of stdin, so it is an uncaught exception.         *)
SendInput(s) ==
  \/ UNCHANGED <<up, procVars, wsVars>>
  \/ proc[s] = "exited" /\ ShutsDown

SendMessage(s) ==
  /\ up /\ db[s] # "none" /\ s \in table
  /\ stored' = stored \cup {s}
  /\ SendInput(s)
  /\ UNCHANGED db

DecideChange(s) ==
  /\ up /\ db[s] # "none" /\ s \in table
  /\ SendInput(s)
  /\ UNCHANGED <<db, stored>>

-----------------------------------------------------------------------------
(* Processes, and the exit event of the spawner. *)

CliExit(s) ==
  /\ proc[s] = "running"
  /\ proc' = [proc EXCEPT ![s] = "exited"]
  /\ UNCHANGED <<up, db, stored, term, table, reported, told, lost, wsVars>>

Subscribers(s) == {c \in open : sub[c] = s}

(* Mutant: the event is handled only while a client is subscribed. *)
ExitEvent_OnlySubscribed(s) ==
  /\ up /\ proc[s] = "exited" /\ s \notin reported \cup lost
  /\ Subscribers(s) # {}
  /\ table' = table \ {s}
  /\ reported' = reported \cup {s}
  /\ told' = told \cup {s}
  /\ UNCHANGED <<up, db, stored, proc, term, lost, wsVars>>

(* Mutant: the exit of a process that kill has forgotten is not broadcast. *)
ExitEvent_KilledUntold(s) ==
  /\ up /\ proc[s] = "exited" /\ s \notin reported \cup lost
  /\ table' = table \ {s}
  /\ reported' = reported \cup {s}
  /\ told' = IF Subscribers(s) = {} \/ s \notin table THEN told ELSE told \cup {s}
  /\ UNCHANGED <<up, db, stored, proc, term, lost, wsVars>>

(* The process leaves the table and the clients subscribed to its session  *)
(* get the status "stopped".                                               *)
ExitEvent(s) ==
  /\ up /\ proc[s] = "exited" /\ s \notin reported \cup lost
  /\ table' = table \ {s}
  /\ reported' = reported \cup {s}
  /\ told' = IF Subscribers(s) = {} THEN told ELSE told \cup {s}
  /\ UNCHANGED <<up, db, stored, proc, term, lost, wsVars>>

-----------------------------------------------------------------------------
(* The WebSocket handler: one session for each connection. *)

Connect(c) ==
  /\ up /\ c \notin open
  /\ open' = open \cup {c}
  /\ UNCHANGED <<up, db, stored, procVars, sub>>

(* A client learns the id of a session from the answer that creates it. *)
Subscribe(c, s) ==
  /\ c \in open /\ proc[s] # "none"
  /\ sub' = [sub EXCEPT ![c] = s]
  /\ UNCHANGED <<up, db, stored, procVars, open>>

Unsubscribe(c) ==
  /\ c \in open
  /\ sub' = [sub EXCEPT ![c] = NoSession]
  /\ UNCHANGED <<up, db, stored, procVars, open>>

(* The client closes, the network fails, or the heartbeat finds it dead. *)
Disconnect(c) ==
  /\ c \in open
  /\ open' = open \ {c}
  /\ sub' = [sub EXCEPT ![c] = NoSession]
  /\ UNCHANGED <<up, db, stored, procVars>>

-----------------------------------------------------------------------------
Request(s) ==
  CreateSession(s) \/ GetSession(s) \/ DeleteSession(s) \/ SendMessage(s) \/ DecideChange(s)

Next ==
  \/ \E s \in Sessions : Request(s) \/ CliExit(s) \/ ExitEvent(s)
  \/ \E c \in Clients :
       Connect(c) \/ Unsubscribe(c) \/ Disconnect(c) \/ \E s \in Sessions : Subscribe(c, s)
  \/ Shutdown \/ Crash \/ Restart

Spec == Init /\ [][Next]_vars

(* The event loop gets round to every exit event.  Nothing makes a process *)
(* end, a client come, or a server that is down start again.               *)
FairSpec == Spec /\ \A s \in Sessions : WF_vars(ExitEvent(s))

-----------------------------------------------------------------------------
(* Properties of the server, which hold. *)

(* A process in the table belongs to a session the API shows as active:    *)
(* neither the lazy update of GET nor DELETE leaves one behind, so that    *)
(* every process the server can reach can be stopped through its session.  *)
TableIsActive == \A s \in table : db[s] = "active"

(* No process of this run of the server escapes: it can be reached through *)
(* the table, or it has been sent SIGTERM.                                 *)
NoStrayProcess ==
  \A s \in Sessions : proc[s] = "running" /\ s \notin lost => s \in table \cup term

(* A row says "stopped" only of a process that has ended: what GET does    *)
(* with a row whose process is not in the table never hides one that runs. *)
(* What a run of the server leaves behind is out of sight for the next.    *)
StoppedHasEnded ==
  \A s \in Sessions : db[s] = "stopped" => proc[s] # "running" \/ s \in lost

(* A shutdown sends SIGTERM to every process of this run, the process of a *)
(* deleted session included.                                               *)
ShutdownSignalsAll ==
  [][Shutdown => \A s \in Sessions : proc[s] = "running" => s \in term' \cup lost]_vars

(* The inductive invariant behind them.  Only a session that was created   *)
(* has rows, and only a started process has entries.                       *)
SessionInv ==
  \A s \in Sessions :
    /\ proc[s] = "none" => db[s] = "none" /\ s \notin term
    /\ db[s] = "none" => s \notin stored
    /\ db[s] = "stopped" => proc[s] # "running" \/ s \in lost
    /\ s \in term => db[s] = "none" \/ s \in lost
    /\ s \in table => proc[s] \in {"running", "exited"} /\ s \notin reported \cup lost
    /\ s \in reported => proc[s] = "exited" /\ s \notin lost
    /\ s \in lost => proc[s] \in {"running", "exited"}
    /\ ~up => proc[s] \in {"none", "failed"} \/ s \in reported \cup lost

IndInv == TypeOK /\ SessionInv /\ TableIsActive /\ NoStrayProcess

(* The promise of the spawner: the one of the plugin's process manager.    *)
phaseOf ==
  [s \in Sessions |->
     IF s \in lost THEN "abandoned"
     ELSE IF s \in reported THEN "reported"
     ELSE IF proc[s] = "exited" THEN "ended"
     ELSE IF proc[s] = "running" THEN "running"
     ELSE "unused"]

Lifecycle == INSTANCE ProcessLifecycle WITH phase <- phaseOf

(* Every process is started once, and its exit event comes once and after  *)
(* the fact, whether the process was killed or ended by itself.            *)
ImplementsLifecycle == Lifecycle!Spec

(* The same, and the exit event does come while the server runs.           *)
ImplementsFairLifecycle == Lifecycle!FairSpec

(* A client that is subscribed to a session when its process ends is told   *)
(* of it, whoever deleted the session in the meantime, unless the client    *)
(* turns to another session, its connection is lost or the server ends.     *)
SubscriberIsTold ==
  \A c \in Clients, s \in Sessions :
    sub[c] = s /\ proc[s] = "exited" /\ s \notin reported \cup lost
      ~> s \in told \/ sub[c] # s
=============================================================================
