--------------------------- MODULE EmbeddedSession ---------------------------
(***************************************************************************)
(* The plugin in embedded mode: slash commands, the session record each    *)
(* channel has in the Mattermost KV store, the table of CLI processes, and *)
(* the goroutine that waits for each process (session_manager.go,          *)
(* cli_process.go, commands.go, the exit path of output_handler.go and the *)
(* activation hooks of plugin.go).                                         *)
(*                                                                         *)
(* Mattermost runs every slash command in a goroutine of its own, so the   *)
(* commands of one channel interleave at every call to the KV store, to    *)
(* the process table and to the operating system.  Each such call is one   *)
(* action.  A goroutine is its program counter pc, the channel it serves   *)
(* and the session it read or created.                                     *)
(***************************************************************************)
EXTENDS Naturals, FiniteSets

CONSTANTS
  Channels,      \* Mattermost channels
  Sessions,      \* the session ids model.NewId may return, each of them once
  Cmds,          \* goroutines that run slash commands, one at a time each
  NoSession,     \* a channel without a record; a goroutine without a session
  NoChannel,     \* an idle goroutine
  NoAgent,       \* a mutex nobody holds
  KVMayFail,     \* calls to the KV store may return an error
  PluginMayStop, \* the plugin may be deactivated, killed and started again
  CliMayStall    \* the CLI may stop reading its standard input

(* The goroutine of KillAll that kills session s is named s itself. *)
Agents == Cmds \cup Sessions

ASSUME ConstantsAssumption ==
  /\ NoSession \notin Sessions
  /\ NoChannel \notin Channels
  /\ NoAgent \notin Agents
  /\ Cmds \cap Sessions = {}
  /\ KVMayFail \in BOOLEAN
  /\ PluginMayStop \in BOOLEAN
  /\ CliMayStall \in BOOLEAN

VARIABLES
  kv,        \* KV key session_<channel>: the session of the channel, or NoSession
  hist,      \* sessions with a KV key messages_<session>
  os,        \* the CLI process of a session: "none", "running" or "exited"
  sig,       \* the strongest signal it was ever sent: "none", "term" or "kill"
  asker,     \* observed: who sent the last signal, if that was SIGTERM and it runs
  stalled,   \* sessions whose process does not read its input and whose pipe is full
  chan,      \* CLIProcess.ChannelID
  procs,     \* ProcessManager.processes, the table of processes
  done,      \* sessions whose CLIProcess.done is closed
  mu,        \* the holder of CLIProcess.mu
  waiter,    \* where the goroutine waitForExit of a session is
  up,        \* "active", "deactivating" or "down"
  pc,        \* where a goroutine is
  op,        \* the command it runs
  ch,        \* args.ChannelId of the command
  sess       \* the session id the command works on

kvVars  == <<kv, hist>>
osVars  == <<os, sig, asker, stalled>>
pmVars  == <<chan, procs, done, mu, waiter>>
cmdVars == <<pc, op, ch, sess>>
vars    == <<kvVars, osVars, pmVars, up, cmdVars>>

OpNames == {"none", "start", "stop", "message"}

Labels ==
  {"idle",
   "start_check", "create_check", "spawn", "store", "save", "start_failed",
   "stop_check", "stop_read", "stop_delete", "stop_history", "stop_report",
   "msg_read", "msg_running", "send_load", "send_lock", "send_write",
   "msg_store", "msg_touch", "msg_save",
   "kill_load", "kill_lock", "kill_term", "kill_wait", "killed"}

WaiterStates ==
  {"none",      \* not started
   "waiting",   \* in Cmd.Wait
   "closed",    \* has closed done
   "removed",   \* has removed the process from the table
   "notified",  \* has posted the exit notice
   "finished",  \* has deleted the session record of the channel
   "lost"}      \* the plugin stopped before the exit was reported

TypeOK ==
  /\ kv \in [Channels -> Sessions \cup {NoSession}]
  /\ hist \subseteq Sessions
  /\ os \in [Sessions -> {"none", "running", "exited"}]
  /\ sig \in [Sessions -> {"none", "term", "kill"}]
  /\ asker \in [Sessions -> Agents \cup {NoAgent}]
  /\ stalled \subseteq Sessions
  /\ chan \in [Sessions -> Channels \cup {NoChannel}]
  /\ procs \subseteq Sessions
  /\ done \subseteq Sessions
  /\ mu \in [Sessions -> Agents \cup {NoAgent}]
  /\ waiter \in [Sessions -> WaiterStates]
  /\ up \in {"active", "deactivating", "down"}
  /\ pc \in [Agents -> Labels]
  /\ op \in [Cmds -> OpNames]
  /\ ch \in [Cmds -> Channels \cup {NoChannel}]
  /\ sess \in [Cmds -> Sessions \cup {NoSession}]

Init ==
  /\ kv = [c \in Channels |-> NoSession]
  /\ hist = {}
  /\ os = [s \in Sessions |-> "none"]
  /\ sig = [s \in Sessions |-> "none"]
  /\ asker = [s \in Sessions |-> NoAgent]
  /\ stalled = {}
  /\ chan = [s \in Sessions |-> NoChannel]
  /\ procs = {}
  /\ done = {}
  /\ mu = [s \in Sessions |-> NoAgent]
  /\ waiter = [s \in Sessions |-> "none"]
  /\ up = "active"
  /\ pc = [a \in Agents |-> "idle"]
  /\ op = [c \in Cmds |-> "none"]
  /\ ch = [c \in Cmds |-> NoChannel]
  /\ sess = [c \in Cmds |-> NoSession]

-----------------------------------------------------------------------------
(* Moves of one goroutine. *)

At(a, label) == up # "down" /\ pc[a] = label

Goto(c, label) == pc' = [pc EXCEPT ![c] = label] /\ UNCHANGED <<op, ch, sess>>

GotoWith(c, label, s) ==
  /\ pc' = [pc EXCEPT ![c] = label]
  /\ sess' = [sess EXCEPT ![c] = s]
  /\ UNCHANGED <<op, ch>>

(* The command has sent its response: its goroutine is free again. *)
Return(c) ==
  /\ pc' = [pc EXCEPT ![c] = "idle"]
  /\ op' = [op EXCEPT ![c] = "none"]
  /\ ch' = [ch EXCEPT ![c] = NoChannel]
  /\ sess' = [sess EXCEPT ![c] = NoSession]

(* GetActiveSession, at the program point from: the command goes on at     *)
(* label with the session it read when present says so, and answers the    *)
(* user otherwise, or when the store fails.                                *)
ReadRecord(c, from, present, label) ==
  /\ At(c, from)
  /\ \/ /\ (kv[ch[c]] # NoSession) = present
        /\ GotoWith(c, label, kv[ch[c]])
     \/ /\ (kv[ch[c]] # NoSession) # present
        /\ Return(c)
     \/ /\ KVMayFail
        /\ Return(c)
  /\ UNCHANGED <<kvVars, osVars, pmVars, up>>

-----------------------------------------------------------------------------
(* ExecuteCommand: a user runs a slash command in a channel.               *)

Begin(c, name, channel, label) ==
  /\ up = "active"
  /\ pc[c] = "idle"
  /\ pc' = [pc EXCEPT ![c] = label]
  /\ op' = [op EXCEPT ![c] = name]
  /\ ch' = [ch EXCEPT ![c] = channel]
  /\ UNCHANGED <<sess, kvVars, osVars, pmVars, up>>

ExecuteCommand(c) ==
  \E channel \in Channels :
    \/ Begin(c, "start", channel, "start_check")
    \/ Begin(c, "stop", channel, "stop_check")
    \/ Begin(c, "message", channel, "msg_read")

-----------------------------------------------------------------------------
(* /claude-start: executeClaudeStart, CreateSession, Spawn.                *)

StartCheck(c) == ReadRecord(c, "start_check", FALSE, "create_check")

CreateCheck(c) == ReadRecord(c, "create_check", FALSE, "spawn")

(* NewId returns an id no session ever had, and cmd.Start either runs the  *)
(* process or fails (no such CLI, no pipe, no such directory).             *)
SpawnStart(c) ==
  /\ At(c, "spawn")
  /\ \/ \E s \in Sessions :
          /\ os[s] = "none"
          /\ os' = [os EXCEPT ![s] = "running"]
          /\ chan' = [chan EXCEPT ![s] = ch[c]]
          /\ GotoWith(c, "store", s)
     \/ /\ Return(c)
        /\ UNCHANGED <<os, chan>>
  /\ UNCHANGED <<kvVars, sig, asker, stalled, procs, done, mu, waiter, up>>

(* Mutant: the process never gets into the table. *)
SpawnStore_NotInTable(c) ==
  /\ At(c, "store")
  /\ waiter' = [waiter EXCEPT ![sess[c]] = "waiting"]
  /\ Goto(c, "save")
  /\ UNCHANGED <<kvVars, osVars, chan, procs, done, mu, up>>

(* processes.Store, and then the goroutine waitForExit. *)
SpawnStore(c) ==
  /\ At(c, "store")
  /\ procs' = procs \cup {sess[c]}
  /\ waiter' = [waiter EXCEPT ![sess[c]] = "waiting"]
  /\ Goto(c, "save")
  /\ UNCHANGED <<kvVars, osVars, chan, done, mu, up>>

(* Mutant: what was spawned is left running. *)
SaveSession_NoUndo(c) ==
  /\ At(c, "save")
  /\ \/ kv' = [kv EXCEPT ![ch[c]] = sess[c]] /\ Return(c)
     \/ KVMayFail /\ Goto(c, "start_failed") /\ UNCHANGED kv
  /\ UNCHANGED <<hist, osVars, pmVars, up>>

SaveSession(c) ==
  /\ At(c, "save")
  /\ \/ kv' = [kv EXCEPT ![ch[c]] = sess[c]] /\ Return(c)
     \/ KVMayFail /\ Goto(c, "kill_load") /\ UNCHANGED kv
  /\ UNCHANGED <<hist, osVars, pmVars, up>>

(* "Failed to start session", once what was spawned has been killed. *)
StartFails(c) ==
  /\ At(c, "start_failed")
  /\ Return(c)
  /\ UNCHANGED <<kvVars, osVars, pmVars, up>>

-----------------------------------------------------------------------------
(* /claude-stop: executeClaudeStop, StopSession.                           *)

StopCheck(c) == ReadRecord(c, "stop_check", TRUE, "stop_read")

StopRead(c) == ReadRecord(c, "stop_read", TRUE, "kill_load")

StopDelete(c) ==
  /\ At(c, "stop_delete")
  /\ \/ kv' = [kv EXCEPT ![ch[c]] = NoSession] /\ Goto(c, "stop_history")
     \/ KVMayFail /\ Return(c) /\ UNCHANGED kv
  /\ UNCHANGED <<hist, osVars, pmVars, up>>

StopHistory(c) ==
  /\ At(c, "stop_history")
  /\ \/ hist' = hist \ {sess[c]}
     \/ KVMayFail /\ UNCHANGED hist
  /\ Goto(c, "stop_report")
  /\ UNCHANGED <<kv, osVars, pmVars, up>>

(* "Session stopped successfully." *)
StopReport(c) ==
  /\ At(c, "stop_report")
  /\ Return(c)
  /\ UNCHANGED <<kvVars, osVars, pmVars, up>>

-----------------------------------------------------------------------------
(* Kill and killProcess, run by a command on the session it works on and   *)
(* by the goroutine of KillAll on its own session.                         *)

Target(a) == IF a \in Sessions THEN a ELSE sess[a]

(* StopSession goes on; CreateSession returns its error; KillAll's         *)
(* goroutine is done.                                                      *)
AfterKill(a) ==
  \/ a \in Sessions /\ Goto(a, "killed")
  \/ a \in Cmds /\ op[a] = "stop" /\ Goto(a, "stop_delete")
  \/ a \in Cmds /\ op[a] # "stop" /\ Goto(a, "start_failed")

KillLoad(a) ==
  /\ At(a, "kill_load")
  /\ IF Target(a) \in procs THEN Goto(a, "kill_lock") ELSE AfterKill(a)
  /\ UNCHANGED <<kvVars, osVars, pmVars, up>>

(* Mutant: killProcess does not wait for the mutex. *)
KillLock_NoMutex(a) ==
  /\ At(a, "kill_lock")
  /\ IF Target(a) \in done
     THEN AfterKill(a) /\ UNCHANGED mu
     ELSE Goto(a, "kill_term") /\ mu' = [mu EXCEPT ![Target(a)] = a]
  /\ UNCHANGED <<kvVars, osVars, chan, procs, done, waiter, up>>

(* Takes mu; a process that is done needs no killing. *)
KillLock(a) ==
  /\ At(a, "kill_lock")
  /\ mu[Target(a)] = NoAgent
  /\ IF Target(a) \in done
     THEN AfterKill(a) /\ UNCHANGED mu
     ELSE Goto(a, "kill_term") /\ mu' = [mu EXCEPT ![Target(a)] = a]
  /\ UNCHANGED <<kvVars, osVars, chan, procs, done, waiter, up>>

(* To a process that has ended a signal does nothing; one that was sent    *)
(* SIGKILL and has not ended yet may be sent both again.                   *)
Signal(a, signal) ==
  LET s == Target(a) IN
  IF os[s] = "running"
  THEN /\ sig' = [sig EXCEPT ![s] = IF @ = "kill" THEN @ ELSE signal]
       /\ asker' = [asker EXCEPT ![s] = IF signal = "term" THEN a ELSE NoAgent]
  ELSE UNCHANGED <<sig, asker>>

(* Closes the standard input and sends SIGTERM. *)
KillTerm(a) ==
  /\ At(a, "kill_term")
  /\ Signal(a, "term")
  /\ Goto(a, "kill_wait")
  /\ UNCHANGED <<kvVars, os, stalled, pmVars, up>>

Unlock(a) == mu' = [mu EXCEPT ![Target(a)] = NoAgent]

KillDone(a) ==
  /\ At(a, "kill_wait")
  /\ Target(a) \in done
  /\ AfterKill(a)
  /\ Unlock(a)
  /\ UNCHANGED <<kvVars, osVars, chan, procs, done, waiter, up>>

(* Mutants: killProcess gives up after the timeout; it has no timeout. *)
KillTimeout_GivesUp(a) ==
  /\ At(a, "kill_wait")
  /\ AfterKill(a)
  /\ Unlock(a)
  /\ UNCHANGED <<kvVars, osVars, chan, procs, done, waiter, up>>

KillTimeout_Never(a) == At(a, "kill_wait") /\ FALSE /\ UNCHANGED vars

(* Five seconds have passed: SIGKILL, without waiting for the exit. *)
KillTimeout(a) ==
  /\ At(a, "kill_wait")
  /\ Signal(a, "kill")
  /\ AfterKill(a)
  /\ Unlock(a)
  /\ UNCHANGED <<kvVars, os, stalled, chan, procs, done, waiter, up>>

-----------------------------------------------------------------------------
(* /claude: executeClaude, SendInput, AddMessage, UpdateSessionLastMessage. *)

MsgRead(c) == ReadRecord(c, "msg_read", TRUE, "msg_running")

(* IsRunning. *)
MsgRunning(c) ==
  /\ At(c, "msg_running")
  /\ IF sess[c] \in procs \ done THEN Goto(c, "send_load") ELSE Return(c)
  /\ UNCHANGED <<kvVars, osVars, pmVars, up>>

SendLoad(c) ==
  /\ At(c, "send_load")
  /\ IF sess[c] \in procs THEN Goto(c, "send_lock") ELSE Return(c)
  /\ UNCHANGED <<kvVars, osVars, pmVars, up>>

(* Mutant: SendInput does not take the mutex. *)
SendLock_NoMutex(c) ==
  /\ At(c, "send_lock")
  /\ IF sess[c] \in done THEN Return(c) ELSE Goto(c, "send_write")
  /\ UNCHANGED <<kvVars, osVars, pmVars, up>>

SendLock(c) ==
  /\ At(c, "send_lock")
  /\ mu[sess[c]] = NoAgent
  /\ IF sess[c] \in done
     THEN Return(c) /\ UNCHANGED mu
     ELSE Goto(c, "send_write") /\ mu' = [mu EXCEPT ![sess[c]] = c]
  /\ UNCHANGED <<kvVars, osVars, chan, procs, done, waiter, up>>

(* Fprintln blocks while the pipe is full and the process lives; it fails  *)
(* once the process is gone or killProcess has closed the pipe.            *)
SendWrite(c) ==
  /\ At(c, "send_write")
  /\ \/ /\ os[sess[c]] = "running" /\ sig[sess[c]] = "none"
        /\ sess[c] \notin stalled
        /\ Goto(c, "msg_store")
     \/ /\ os[sess[c]] = "exited" \/ sig[sess[c]] # "none"
        /\ Return(c)
  /\ mu' = [mu EXCEPT ![sess[c]] = NoAgent]
  /\ UNCHANGED <<kvVars, osVars, chan, procs, done, waiter, up>>

(* AddMessage writes the history key whether or not it was there. *)
MsgStore(c) ==
  /\ At(c, "msg_store")
  /\ \/ hist' = hist \cup {sess[c]}
     \/ KVMayFail /\ UNCHANGED hist
  /\ Goto(c, "msg_touch")
  /\ UNCHANGED <<kv, osVars, pmVars, up>>

(* UpdateSessionLastMessage reads the record again, ... *)
MsgTouch(c) == ReadRecord(c, "msg_touch", TRUE, "msg_save")

(* ... and writes back what it read. *)
MsgSave(c) ==
  /\ At(c, "msg_save")
  /\ \/ kv' = [kv EXCEPT ![ch[c]] = sess[c]]
     \/ KVMayFail /\ UNCHANGED kv
  /\ Return(c)
  /\ UNCHANGED <<hist, osVars, pmVars, up>>

-----------------------------------------------------------------------------
(* waitForExit and HandleExit. *)

(* Mutant: done is closed without waiting for the exit. *)
WaitReturns_TooEarly(s) ==
  /\ waiter[s] = "waiting"
  /\ done' = done \cup {s}
  /\ waiter' = [waiter EXCEPT ![s] = "closed"]
  /\ UNCHANGED <<kvVars, osVars, chan, procs, mu, up, cmdVars>>

WaitReturns(s) ==
  /\ waiter[s] = "waiting"
  /\ os[s] = "exited"
  /\ done' = done \cup {s}
  /\ waiter' = [waiter EXCEPT ![s] = "closed"]
  /\ UNCHANGED <<kvVars, osVars, chan, procs, mu, up, cmdVars>>

WaitForgets(s) ==
  /\ waiter[s] = "closed"
  /\ procs' = procs \ {s}
  /\ waiter' = [waiter EXCEPT ![s] = "removed"]
  /\ UNCHANGED <<kvVars, osVars, chan, done, mu, up, cmdVars>>

(* Mutant: no exit notice for a process that was signalled. *)
ExitNotice_UnlessKilled(s) ==
  /\ waiter[s] = "removed"
  /\ sig[s] = "none"
  /\ waiter' = [waiter EXCEPT ![s] = "notified"]
  /\ UNCHANGED <<kvVars, osVars, chan, procs, done, mu, up, cmdVars>>

ExitNotice(s) ==
  /\ waiter[s] = "removed"
  /\ waiter' = [waiter EXCEPT ![s] = "notified"]
  /\ UNCHANGED <<kvVars, osVars, chan, procs, done, mu, up, cmdVars>>

(* Deletes the record of the channel, whichever session it names. *)
ExitCleanup(s) ==
  /\ waiter[s] = "notified"
  /\ \/ kv' = [kv EXCEPT ![chan[s]] = NoSession]
     \/ KVMayFail /\ UNCHANGED kv
  /\ waiter' = [waiter EXCEPT ![s] = "finished"]
  /\ UNCHANGED <<hist, osVars, chan, procs, done, mu, up, cmdVars>>

-----------------------------------------------------------------------------
(* The CLI process: it may exit at any time, and stop reading its input.   *)

CliExit(s) ==
  /\ os[s] = "running"
  /\ os' = [os EXCEPT ![s] = "exited"]
  /\ stalled' = stalled \ {s}
  /\ asker' = [asker EXCEPT ![s] = NoAgent]
  /\ UNCHANGED <<kvVars, sig, pmVars, up, cmdVars>>

CliStall(s) ==
  /\ CliMayStall
  /\ os[s] = "running"
  /\ s \notin stalled
  /\ stalled' = stalled \cup {s}
  /\ UNCHANGED <<kvVars, os, sig, asker, pmVars, up, cmdVars>>

CliResume(s) ==
  /\ s \in stalled
  /\ stalled' = stalled \ {s}
  /\ UNCHANGED <<kvVars, os, sig, asker, pmVars, up, cmdVars>>

-----------------------------------------------------------------------------
(* Activation, deactivation and death of the plugin.                       *)

(* OnDeactivate, KillAll: one goroutine for each process in the table.     *)
(* The server routes no further command to the plugin.                     *)
Deactivate ==
  /\ PluginMayStop
  /\ up = "active"
  /\ up' = "deactivating"
  /\ pc' = [a \in Agents |-> IF a \in procs THEN "kill_lock" ELSE pc[a]]
  /\ UNCHANGED <<kvVars, osVars, pmVars, op, ch, sess>>

KillAllReturned == up = "deactivating" /\ \A s \in Sessions : pc[s] \in {"idle", "killed"}

(* Every goroutine and all memory of the plugin is gone; the KV store and  *)
(* the processes stay.                                                     *)
PluginEnds ==
  /\ up' = "down"
  /\ procs' = {}
  /\ mu' = [s \in Sessions |-> NoAgent]
  /\ waiter' = [s \in Sessions |->
                  CASE os[s] = "none" -> "none"
                    [] waiter[s] \in {"notified", "finished"} -> "finished"
                    [] OTHER -> "lost"]
  /\ pc' = [a \in Agents |-> "idle"]
  /\ op' = [c \in Cmds |-> "none"]
  /\ ch' = [c \in Cmds |-> NoChannel]
  /\ sess' = [c \in Cmds |-> NoSession]
  /\ UNCHANGED <<kvVars, osVars, chan, done>>

Shutdown == KillAllReturned /\ PluginEnds

Crash == PluginMayStop /\ up # "down" /\ PluginEnds

(* OnActivate makes an empty process table and leaves the KV store alone. *)
Activate ==
  /\ up = "down"
  /\ up' = "active"
  /\ UNCHANGED <<kvVars, osVars, pmVars, cmdVars>>

-----------------------------------------------------------------------------
KillStep(a) == KillLoad(a) \/ KillLock(a) \/ KillTerm(a) \/ KillDone(a) \/ KillTimeout(a)

StartStep(c) ==
  \/ StartCheck(c) \/ CreateCheck(c) \/ SpawnStart(c) \/ SpawnStore(c) \/ SaveSession(c)
  \/ StartFails(c)

StopStep(c) ==
  StopCheck(c) \/ StopRead(c) \/ StopDelete(c) \/ StopHistory(c) \/ StopReport(c)

MessageStep(c) ==
  \/ MsgRead(c) \/ MsgRunning(c) \/ SendLoad(c) \/ SendLock(c) \/ SendWrite(c)
  \/ MsgStore(c) \/ MsgTouch(c) \/ MsgSave(c)

CmdStep(c) == StartStep(c) \/ StopStep(c) \/ MessageStep(c)

WaiterStep(s) == WaitReturns(s) \/ WaitForgets(s) \/ ExitNotice(s) \/ ExitCleanup(s)

CliStep(s) == CliExit(s) \/ CliStall(s) \/ CliResume(s)

Next ==
  \/ \E c \in Cmds : ExecuteCommand(c) \/ CmdStep(c)
  \/ \E a \in Agents : KillStep(a)
  \/ \E s \in Sessions : WaiterStep(s) \/ CliStep(s)
  \/ Deactivate \/ Shutdown \/ Crash \/ Activate

Spec == Init /\ [][Next]_vars

(* The step of a goroutine that runs a command or that KillAll started. *)
GoroutineStep(a) == (a \in Cmds /\ CmdStep(a)) \/ KillStep(a)

(* The Go scheduler runs every goroutine that can run, a sync.Mutex is not *)
(* kept forever from a goroutine that waits for it (its starvation mode),  *)
(* a write goes on when the process reads again, and SIGKILL ends a        *)
(* process.  Nothing makes a process heed SIGTERM or read its input, a     *)
(* user run a command, or the plugin stop.                                 *)
Fairness ==
  /\ \A a \in Agents : SF_vars(GoroutineStep(a))
  /\ \A s \in Sessions : WF_vars(WaiterStep(s)) /\ WF_vars(sig[s] = "kill" /\ CliExit(s))

FairSpec == Spec /\ Fairness

-----------------------------------------------------------------------------
(* Properties of the process manager, which hold. *)

(* The record of a channel names a session of this very channel, and the   *)
(* process of that session is one Kill and KillAll can reach, unless it    *)
(* has ended or an earlier life of the plugin left it behind: Spawn stores *)
(* the process before CreateSession saves the record, and waitForExit      *)
(* removes it from the table only after its end.                           *)
RecordReachesProcess ==
  \A channel \in Channels :
    LET s == kv[channel] IN
    s # NoSession =>
      /\ chan[s] = channel
      /\ s \in procs \/ os[s] = "exited" \/ waiter[s] = "lost"

(* Ended, sent SIGKILL, or out of this plugin's sight. *)
Doomed(s) == os[s] = "exited" \/ sig[s] = "kill" \/ waiter[s] = "lost"

AfterKillLabels == {"start_failed", "stop_delete", "stop_history", "stop_report", "killed"}

(* When Kill has returned to StopSession, to the CreateSession that could  *)
(* not save its record, or to KillAll, the process has ended or has been   *)
(* sent SIGKILL, whatever raced with it: a message being written, another  *)
(* kill, the exit itself.  Only a process left behind by an earlier life   *)
(* of the plugin escapes it.                                               *)
KillIsEffective == \A a \in Agents : pc[a] \in AfterKillLabels => Doomed(Target(a))

(* The goroutines between the Lock and the Unlock of CLIProcess.mu.        *)
InCritical(a) == pc[a] \in {"kill_term", "kill_wait", "send_write"}

(* No message is written to a process while killProcess closes its input   *)
(* and waits for its end, and no two goroutines kill it at the same time:  *)
(* the mutex of the process keeps them apart although it is the table that *)
(* each of them found the process in.                                      *)
NoWriteIntoKill ==
  \A a, b \in Agents :
    InCritical(a) /\ InCritical(b) /\ Target(a) = Target(b) => a = b

(* Who may send a signal to the process of s: a command of its own channel *)
(* that has got to killProcess, or the goroutine that KillAll started.     *)
MaySignal(a, s) ==
  /\ Target(a) = s /\ mu[s] = a /\ s \notin done
  /\ IF a \in Cmds THEN op[a] \in {"start", "stop"} /\ ch[a] = chan[s] ELSE a = s

(* However many commands, KillAll and the exit itself race, a process is   *)
(* sent SIGKILL only by a goroutine that has sent it SIGTERM before, and   *)
(* nobody else signals it in between: while one waits its five seconds, a  *)
(* second killer waits too, although it starts all over after a SIGKILL    *)
(* that has not taken effect yet.  Each signal comes from one that may     *)
(* send it, never from a command of another channel, and not once          *)
(* waitForExit has returned.                                               *)
KilledInOrder ==
  [][\A s \in Sessions :
       os'[s] = "running" /\ (sig'[s] # sig[s] \/ asker'[s] # asker[s]) =>
         \E a \in Agents :
           /\ MaySignal(a, s)
           /\ \/ asker[s] = NoAgent /\ asker'[s] = a /\ sig'[s] # "none"
              \/ asker[s] = a /\ asker'[s] = NoAgent /\ sig'[s] = "kill"]_vars

(* While the commands of a channel run one at a time, a start command that *)
(* found no record still finds none when it saves its own, and the record  *)
(* a message command writes back is the one it read, unless it was deleted *)
(* meanwhile.                                                              *)
OneAtATime == \A c, d \in Cmds : ch[c] = ch[d] /\ ch[c] # NoChannel => c = d

RecordIsAsRead ==
  \A c \in Cmds :
    /\ pc[c] \in {"create_check", "spawn", "store", "save"} => kv[ch[c]] = NoSession
    /\ pc[c] = "msg_save" => kv[ch[c]] \in {NoSession, sess[c]}

(* No session takes the place of another one in the record of a channel.   *)
NoTakeover ==
  [][\A channel \in Channels :
       kv[channel] # NoSession => kv'[channel] \in {NoSession, kv[channel]}]_vars

-----------------------------------------------------------------------------
(* The inductive invariant behind these properties.                        *)

(* waitForExit moves only after the end of the process, and the table      *)
(* holds a process exactly from the Store of Spawn to the Delete of        *)
(* waitForExit.                                                            *)
WaiterInv ==
  \A s \in Sessions :
    /\ s \in done \/ waiter[s] \in {"closed", "removed", "notified", "finished"}
         => os[s] = "exited"
    /\ s \in procs <=> waiter[s] \in {"waiting", "closed"}
    /\ os[s] = "none" => waiter[s] = "none"

(* A session that was stored in the table, for this channel. *)
Stored(s, channel) == s \in Sessions /\ chan[s] = channel /\ waiter[s] # "none"

RecordInv ==
  \A channel \in Channels : kv[channel] # NoSession => Stored(kv[channel], channel)

KillLabels == {"kill_load", "kill_lock", "kill_term", "kill_wait"}

LabelsOf(name) ==
  CASE name = "none" -> {"idle"}
    [] name = "start" -> {"start_check", "create_check", "spawn", "store", "save", "start_failed"}
                         \cup KillLabels
    [] name = "stop" -> {"stop_check", "stop_read", "stop_delete", "stop_history", "stop_report"}
                          \cup KillLabels
    [] name = "message" -> {"msg_read", "msg_running", "send_load", "send_lock", "send_write",
                            "msg_store", "msg_touch", "msg_save"}

(* The program points that work on a session that was stored before. *)
SessionLabels ==
  KillLabels \cup {"save", "start_failed", "stop_delete", "stop_history", "stop_report", "msg_running",
                   "send_load", "send_lock", "send_write", "msg_store", "msg_touch", "msg_save"}

(* The goroutine c works on the session of its channel. *)
CmdOk(c) ==
  /\ pc[c] \in LabelsOf(op[c])
  /\ op[c] # "none" => ch[c] \in Channels
  /\ pc[c] \in SessionLabels => Stored(sess[c], ch[c])

(* Between cmd.Start and processes.Store only c knows the session. *)
SpawningOk(c) ==
  pc[c] = "store" =>
    /\ sess[c] \in Sessions
    /\ chan[sess[c]] = ch[c]
    /\ os[sess[c]] # "none"
    /\ waiter[sess[c]] = "none"
    /\ \A d \in Cmds : pc[d] = "store" /\ sess[d] = sess[c] => d = c

CmdInv == \A c \in Cmds : CmdOk(c) /\ SpawningOk(c)

KillAllInv ==
  \A s \in Sessions :
    /\ pc[s] \in {"idle", "kill_lock", "kill_term", "kill_wait", "killed"}
    /\ pc[s] # "idle" => waiter[s] # "none"

MutexInv == \A a \in Agents : InCritical(a) => mu[Target(a)] = a

IndInv ==
  TypeOK /\ WaiterInv /\ RecordInv /\ CmdInv /\ KillAllInv /\ MutexInv /\ KillIsEffective

-----------------------------------------------------------------------------
(* The promise of the process manager, on the state of this module. *)
PhaseOf(s) ==
  CASE os[s] = "none" -> "unused"
    [] waiter[s] \in {"notified", "finished"} -> "reported"
    [] waiter[s] = "lost" -> "abandoned"
    [] os[s] = "exited" /\ waiter[s] \in {"none", "waiting", "closed", "removed"} -> "ended"
    [] os[s] = "running" /\ waiter[s] \in {"none", "waiting", "closed", "removed"} -> "running"

phaseOf == [s \in Sessions |-> PhaseOf(s)]

Lifecycle == INSTANCE ProcessLifecycle WITH phase <- phaseOf

(* Every process is started once, and its exit is reported once and only   *)
(* after the fact, unless the plugin stops first.                          *)
ImplementsLifecycle == Lifecycle!Spec

(* The same, and waitForExit does get to report an exit. *)
ImplementsFairLifecycle == Lifecycle!FairSpec

(* A stop command answers its user, whatever the process does with SIGTERM, *)
(* unless the process has stopped reading its input or the plugin stops.    *)
StopCompletes == \A c \in Cmds : op[c] = "stop" ~> op[c] # "stop" \/ stalled # {}

(* The process of a session that a command set out to kill is dead in the   *)
(* end, unless it has stopped reading its input or was left behind by an    *)
(* earlier life of the plugin.                                              *)
StopKillsProcess ==
  \A c \in Cmds, s \in Sessions :
    pc[c] = "kill_load" /\ sess[c] = s
      ~> os[s] = "exited" \/ waiter[s] = "lost" \/ s \in stalled

-----------------------------------------------------------------------------
(* What the documents and comments of the repository say, and the code     *)
(* does not do.                                                            *)

(* HandleExit, "Also clean up the local session": the session whose        *)
(* process ended.  The record deleted may be that of the next session of   *)
(* the channel, whose process then runs out of the reach of its users.     *)
ExitCleansUpOwnSession ==
  [][\A s \in Sessions : ExitCleanup(s) => kv[chan[s]] \in {s, NoSession}]_vars

(* "Kill terminates a CLI process".  A goroutine blocked in SendInput holds *)
(* the mutex killProcess waits for, and no signal is ever sent.             *)
KillTerminates ==
  \A s \in Sessions, c \in Cmds :
    pc[c] = "kill_lock" /\ sess[c] = s ~> os[s] = "exited" \/ waiter[s] = "lost"
=============================================================================
