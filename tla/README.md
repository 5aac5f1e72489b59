# Verification of the Claude Code plugin for Mattermost

TLA+ modules of the plugin (`server/`, Go) and of its bridge server
(`bridge-server/`, TypeScript), the TLC runs that check them on small
instances, and TLAPS proofs of their safety properties for every value of the
constants.  Line numbers below are those of the sources beside this directory.

## 1. The system

A Mattermost channel has at most one *session*: a Claude Code CLI process that
works on a project.  Users drive it with slash commands; what it prints comes
back as posts.  The plugin runs in one of two modes (`UseBridgeMode`,
`configuration.go:117`):

* **embedded**: the plugin spawns the CLI itself and talks to it over pipes;
* **bridge**: a separate server spawns it; the plugin sends HTTP requests and
  gets output and status over one WebSocket connection.

| component | state it keeps | operations | talks to |
|---|---|---|---|
| slash commands (`commands.go`) | none | start, stop, message, status, thread, files | session manager, message store, process manager or bridge client |
| session manager (`session_manager.go`) | KV key `session_<channel>` | create, stop, touch, look up | KV store, both back ends |
| process manager (`cli_process.go`) | `sync.Map` of `CLIProcess` (mutex, `done`) | Spawn, SendInput, Kill, KillAll, IsRunning; goroutines for stdout, stderr, exit | OS, output handler |
| output handler (`output_handler.go`) | line buffers | output, error, exit | posts, KV store |
| message store (`message_store.go`) | KV key `messages_<session>` | add, get, delete | KV store |
| plugin (`plugin.go`, `configuration.go`) | the clients, the configuration | activate, deactivate, change of configuration | all of the above |
| WebSocket client (`websocket_client.go`) | `conn`, `subscriptions`, `reconnecting`, `stopChan` | Connect, reader, reconnect, Subscribe, Unsubscribe, Close | bridge, KV store |
| bridge client (`bridge_client.go`) | none | one HTTP request for each call | bridge |
| actions, dialogs, posts (`actions.go`, `dialogs.go`, `post_utils.go`) | the posts themselves | buttons and dialogs | session manager, back ends |
| thread context, file operations | none | read posts, file dialogs | back ends |
| bridge REST API (`api/*.ts`) | rows in SQLite | sessions, messages, context, decisions, files, git | spawner, database |
| bridge spawner (`spawner.ts`) | `processes` | spawn, sendInput, kill, killAll; output, error and exit events | OS, WebSocket handler |
| bridge WebSocket handler (`websocket/handler.ts`) | `clients`, one `sessionId` each | connect, subscribe, unsubscribe, heartbeat, broadcast | spawner |
| bridge start and shutdown (`index.ts`) | none | listen, shutdown on signals and uncaught exceptions | all of the bridge |

What is hard in it:

* Mattermost runs each command in a goroutine of its own, and no lock covers a
  command: commands interleave at every call to the KV store, to the process
  table, to the OS and to the bridge.
* The exit of a process is noticed by another goroutine (or event) at any time,
  in the middle of a command that works on the same session.
* `CLIProcess.mu` is held across a blocking write and across the five seconds
  of a kill.
* `ws.conn` and `ws.reconnecting` are read outside the mutex, and the goroutine
  that reads a connection becomes the one that replaces it.
* Plugin and bridge die and restart separately; the KV store, the SQLite rows
  and the CLI processes outlive them.
* A write to a pipe or a connection may meet an end whose event is still queued.
* What the CLI prints crosses pipes that are closed under their readers, and a
  connection that breaks and is subscribed again.
* Histories, files and the git index are read, changed and written back by
  several calls at a time, each in several steps.

`PROJECT.json` lists the hazards one by one, at their lines.

## 2. Modules

| module | models | abstracts from |
|---|---|---|
| `ProcessLifecycle` | what a manager of processes promises: each is started once, its end reported once and only after the fact, lost sight of only with the manager itself | everything else |
| `EmbeddedSession` | embedded mode: start, stop and message commands, KV records, process table, `CLIProcess.mu`, SIGTERM and SIGKILL, `waitForExit`, `HandleExit`, deactivation, crash, restart | text of messages, output of the CLI |
| `Connection` | what a client that reconnects promises: one connection at a time, each opened once, nothing said on one that is gone, at most one more after it is closed | everything else |
| `WsClient` | the WebSocket client in bridge mode with the goroutines that use it | the content of messages but for `stopped` |
| `BridgeServer` | the bridge: sessions, messages and decisions, process table, rows, WebSocket subscriptions, shutdown, crash, restart | output of the CLI, files and git |
| `BridgeMode` | bridge mode as a whole: commands, buttons and dialogs, KV records, HTTP requests, subscriptions and the statuses the plugin hears, with `BridgeServer` as the other side; both sides stop and start | how the WebSocket connection is kept (`WsClient`), the output of the CLI, the text of requests |
| `Transcript` | what a channel may show of a CLI: what it printed, each stream in its order, no unit twice, and that it has ended, once and not before the fact | everything else |
| `SessionOutput` | the way of the output, in either mode: pipes, the scanners of stdout and stderr, `waitForExit`; data and exit events, broadcasts, the connection, the plugin's reader; posts that are refused | what the lines say, the end of plugin and bridge, how the connection is kept |
| `MessageLog` | what a message store promises: a log for each session, to which a call adds its message in one step | everything else |
| `Histories` | the message store with the contents of the histories: overlapping calls, reads and writes that fail, deletion | roles, texts and times of the messages |
| `ProjectFiles` | the file endpoints, call by call to the file system, and the CLI that edits the same files | directories, the listing, the test of the path, texts |
| `ProjectGit` | the git endpoints, command by command, and files that change meanwhile | the branch, hooks, who else uses git |
| `MC…` | instances for TLC: symmetry and bounds | |
| `…_proofs` | the theorems of the module named | |

`BridgeMode` composes: `Bridge == INSTANCE BridgeServer WITH Clients <-
{Plugin}`, each of whose actions is a conjunct of an action here.
`EmbeddedSession` and `BridgeServer` are both shown to implement
`ProcessLifecycle`, each with a refinement mapping `phaseOf` of its own,
`SessionOutput` to implement `Transcript`, `WsClient` to implement `Connection`
(`Live`, `Used`, `Dialling` and `Client` are the mapping), and `Histories` to
implement `MessageLog`, but only where calls do not overlap.  `SessionOutput`, `Histories`,
`ProjectFiles` and `ProjectGit` stand beside the modules of the sessions: they
open up what those treat as one step (a message stored, a line shown, a request
answered), and share no state with them that their properties speak of.

### How code becomes actions

*EmbeddedSession.*  A goroutine is a program counter `pc[a]` with the channel
`ch` and the session `sess` in its hands.  Every call to the KV store, the
process table or the OS is one action, because that is where goroutines
interleave; the Go code between two such calls belongs to the action before or
after it.  `ReadRecord` is `GetActiveSession` with the early returns of its
caller.  A label names the call that comes next:

```
start    start_check  create_check  spawn  store  save            (kill_* start_failed when save fails)
stop     stop_check  stop_read  kill_*  stop_delete  stop_history  stop_report
message  msg_read  msg_running  send_load  send_lock  send_write  msg_store  msg_touch  msg_save
kill_*   kill_load  kill_lock  kill_term  kill_wait
waiter   waiting  closed  removed  notified  finished             (waitForExit, HandleExit)
```

`mu[s]` is `CLIProcess.mu`; `done` the sessions whose channel `done` is closed;
`procs` the table.  `os`, `sig` and `stalled` are the operating system's side of
a process: whether it runs, the strongest signal it was sent, and whether it
has stopped reading a full pipe.  `asker` is observed only: the goroutine that
sent the last signal, if that was SIGTERM; a SIGKILL is sent without waiting, so
a second killer may find the process still running and send both again.  The
goroutine that `KillAll` starts for
session `s` is named `s`.

*WsClient.*  Thread 0 is the `Connect` of `OnActivate`; thread *k* reads
connection *k* and, when that fails, goes on as the goroutine of `reconnect`,
as in the code, where the reader returns after `go ws.reconnect()`.  `ws.mu`
spans several actions only while `Connect` dials; the other critical sections
are single actions with the guard `Unlocked`.  The unlocked double read of
`ws.conn` in Subscribe and Unsubscribe is two actions (`SubLook`, `SubWrite`).
`told[k]` and `served[k]` are the bridge's end of connection *k*.

*BridgeServer.*  JavaScript runs one callback at a time and no handler modelled
here awaits, so a request, an event or a signal is one action.  A process that
has ended while its exit event is queued is `proc = "exited"` and not yet
`reported`.

*BridgeMode.*  As in EmbeddedSession, a goroutine is a program counter with a
channel and a session in hand, and one call to the KV store, to the map of
subscriptions, to the connection or to the bridge is one action.  The label
names the call that comes next:

```
start    start_check  create_check  create  sub_add  sub_write  save   (undo_* when save fails)
stop     stop_check  stop_read  stop_unsub  stop_write  stop_delete  forget  erase
message  msg_read  message  msg_store  touch  touch_save
thread   thread_read  context  touch  touch_save
others   status_read  status   button_read  decide
reader   st_delete  st_unsub  st_write   (st_kept when the store refused)
redial   renew  sub_add  sub_write
```

An HTTP request is `Answered` (the handler of the bridge runs, in the same
step), `Failed` because the bridge is down or refuses (`Rejects`), or `Lost`: the client gives
up, and the bridge may get to the request later (`LateRequest`) or never.  The
connection carries only the statuses "stopped": `inbox` has those sent and not
read.  `Reconnect` replaces a lost connection at some time, or never: that is
what `WsClient` shows, in detail, and what it shows not to be certain.

The bridge keeps one session for each connection (`sub` of `BridgeServer`).
`masked`, which is observed only, has the sessions whose place there was taken
on this connection by a message about another session.  `Listening` says what it takes to hear of
a session: it is among the plugin's subscriptions, and on the connection there
is it is the one the bridge serves, or masked, or `reconnect` has it still to
renew.  `moves` counts the commands begun, the failures of the KV store, the
lost requests and the stops of bridge and plugin; `MaxMoves` bounds their number
together, so that TLC tries every mixture of them instead of every amount of one.

*SessionOutput.*  Unit *n* of a stream is a line in embedded mode and what one
data event carries in bridge mode.  `Write` and `CliExit` are the CLI;
`ReadPipe` is the read by which `Scanner.Scan` fills its empty buffer and
`HandleLine` one turn of the loop of `handleStdout` or `handleStderr`, with all
that `HandleOutput` or `HandleError` does; `WaitReturns` closes the pipes, and
`HandleExit` posts.  `DataEvent`, `ExitEvent` and `BridgeSubscribes` are
callbacks of the bridge, `ReadMessage` one turn of the plugin's reader with
`processMessage`.  A line is `overlong` when it does not fit the scanner's
buffer (1 MB for stdout, 64 KB for stderr): the loop ends, the pipe fills, and
the CLI waits for ever.  That is how a CLI comes to be `stalled` in
EmbeddedSession.  `sub` is the session's place among the plugin's subscriptions,
`asked` the subscribe messages on their way to the bridge and `served` whether
it sends to this connection.  `reconnect` dials (`Reconnect`), copies the
subscriptions (`Copy`) and subscribes to those of the copy (`Renew`), between
which the session may be stopped or end; `revived` is observed only, and says
that a `Renew` came after the notice of the end.  Units counted by `handled` and `taken` are on their way;
`refused` and `unheard` record those that were dropped, and where.

*Histories.*  `Read` is the `KVGet` of `AddMessage` (which takes a failed read
for an empty history), `Write` its `KVSet`, `Delete` the `KVDelete` of
`DeleteSessionMessages`.  What a call works on in between is `copy`.

*ProjectFiles.*  Every `await` of a handler is a place where requests
interleave, so `fs.access`, `fs.stat`, `fs.unlink`, the opening of the file by
`fs.writeFile` or `fs.readFile` and every block after that are actions of their
own.  A file is an inode named after the writer that made it; `data` has, for
each block, who wrote it.  A server that stops in between is `WriteFails` for
each request under way.

*ProjectGit.*  Every `runGitCommand` is an action: `Add` for each listed file,
`AddAll`, `Commit`, `Push`, and the three lists of a status.  The content of a
file is the number of its last edit, in the working tree, the index and the
last commit.

## 3. Runs

Bounds: session ids are never reused, so `Sessions` bounds how many sessions are
ever created; `Cmds` how many commands run at a time (each goroutine takes new
commands for ever); `MaxConns` how many connections are ever made, and so how
many break (one less).

| run | instance | shows |
|---|---|---|
| `EmbeddedCommands` | 2 sessions, 2 commands, 1 channel, KV errors, stalling CLI | `KillIsEffective`, `NoWriteIntoKill`, `RecordReachesProcess`, `KilledInOrder`, `ImplementsLifecycle` |
| `EmbeddedLiveness` | 1 session, 2 commands, stalling CLI, plugin stops and restarts, fairness | `StopCompletes`, `StopKillsProcess`, `ImplementsFairLifecycle` |
| `WsConnections` | 1 session, 1 stop command, 3 connections, fairness | `OneReconnect`, `NoConnectionLeak`, `SubscriptionKept`, `ImplementsConnection`, `ReconnectSucceeds`, `CloseEndsGoroutines` |
| `BridgeSessions` | 2 sessions, 2 clients, fairness | `TableIsActive`, `NoStrayProcess`, `StoppedHasEnded`, `ShutdownSignalsAll`, `ImplementsLifecycle`, `ImplementsFairLifecycle`, `SubscriberIsTold` |
| `BridgeCommands` | 2 sessions of one channel, 1 command, everything may fail or stop, create, delete and message requests may be lost, 3 moves, fairness | `RecordedIsHeard`, `HistoryIsBacked`, `StopReachesBridge`, `StoppedIsCleanedUp` |
| `SessionOutput` | 3 units on stdout, 1 on stderr (3 together in bridge mode), pipes of 2, both modes, 1 broken connection, refused posts, fairness | `NoGaps`, `StoppedIsLast`, `ImplementsTranscript`, `OutputIsSettled`, `WriterGoesOn`, `ExitIsTold` |
| `Histories` | 1 session, 4 calls, failing reads and writes, deletions | `NothingLostAlone`, `RealTimeOrder`, `ComesBackFromCopy` |
| `ProjectFiles` | 1 path, 3 requests, 1 edit, at most 2 blocks | `SavedIsThere`, `CreateIsExclusive`, `ReadIsWhole` |
| `ProjectGit` | 2 files, 3 requests, 2 edits | `AskedIsCommitted`, `LeftByTheUnfinished`, `StatusIsComplete` |

Why these bounds: every race of the embedded mode that is known from the code is
between two goroutines (two commands, a command and a waiter, a command and
KillAll) and about one or two sessions of one channel; channels share nothing
but the process table, whose keys are session ids.  `KilledInOrder` tells the
channels apart, and was checked once with two of them as well (3.3 million states).  Three connections let a
reconnect itself be interrupted.  In the bridge, sessions share only the
server's life and the connections.  In `BridgeMode` the command, the reader of
the connection and the goroutine of `reconnect` already interleave with one
command; the second session meets what the first left behind: the place it has
at the bridge, a status on its way, a `DELETE` that arrives late, a copy of
`reconnect` that still names it.  Three moves are a start, a stop and a second
start, or a start with any two things that go wrong; connections are lost and replaced without
bound.  Without any one of its exceptions (masked, to be renewed, no connection, a stop
under way, an earlier life of the plugin) `RecordedIsHeard` is violated within these
bounds: each of them is met.
Larger instances of `BridgeMode` were run once and hold: four moves (safety,
2.6 million states), two channels with a session each (all four properties, 1.1
million), two channels and three sessions (safety, 2.9 million).  The theorems
lift all the safety properties to any number of each.

Three results have a hypothesis about how the system is used, which the runs do
not meet: `NoTakeover` and `RecordIsAsRead` of `EmbeddedSession` and
`BridgeMode` (`OneAtATime`: the commands of a channel do not overlap), and
`ImplementsLog` of `Histories` (`Undisturbed`).  Each was model-checked once with
the hypothesis as a CONSTRAINT and holds (32 thousand states of
`EmbeddedSession`, 6.4 million of `BridgeMode` with two commands, two sessions and
five moves, 5 thousand of `Histories`), and without it TLC finds the violation: the hypothesis
is needed, and there are runs of the program that meet it.

Units, messages and blocks of one stream, history or file pass each other one
by one, and two of them beside a third show every order; a pipe of two units
can be empty, half full and full.  Sessions are separate keys of the message
store, so one is enough for `Histories`; a lost message takes two calls, one
that comes back or is erased and is then followed by another takes four.
Requests for different paths meet only in the index of git, where two files
tell "what was asked for" from "what was staged by others"; three requests are
two rivals and a witness (a reader, or a third commit that takes what the others
left).

The runs of `WsClient` and `SessionOutput` check no deadlock: the plugin may be
closed or have panicked, and the output of one CLI comes to an end.  Nor do those
of `ProjectFiles` and `ProjectGit`, where each request is made once.

### Fairness

* *EmbeddedSession*: the Go scheduler runs every goroutine that can run; a
  goroutine that waits for a `sync.Mutex` gets it in the end (the starvation
  mode of Go's mutex), hence strong fairness of each goroutine's step;
  `waitForExit` goes on; SIGKILL ends a process.  Nothing makes a process heed
  SIGTERM or read its input, a user run a command, or the plugin stop.
* *WsClient*: threads run, and one that waits for the mutex of a `Connect` gets
  it (weak fairness of each thread and of `Close`); a reader notices that its
  connection is gone; a bridge that is dialled again and again answers in the
  end (strong fairness of the dialling that succeeds).  Nothing makes a user act
  or the plugin deactivate.
* *BridgeServer*: the event loop gets round to every exit event while the
  server runs.
* *BridgeMode*: the reader of the connection and the goroutine of `reconnect`
  go on.  Nothing makes a connection come back, a request arrive, a process
  end, or a user do anything.
* *SessionOutput*: the goroutines that read the pipes and wait for the process
  go on, and so do the events of the bridge and the reader of the plugin's
  connection.  Nothing makes the CLI write or end, a user stop it, a
  subscription arrive or a connection come back.

### Disagreements between the code and what the repository says of it

Each of these runs makes TLC violate one property that a document or comment
states; `PROJECT.json` quotes the line.

| run | what happens |
|---|---|
| `EmbeddedLateExit` | the exit of a stopped process deletes the record of its successor |
| `EmbeddedBlockedKill` | a write blocked on a full pipe holds the mutex that Kill needs: the process cannot be killed |
| `WsUnrepaired` | a connection lost while reconnect is subscribing again is never replaced |

Disagreements without a run, seen while modelling and visible in the actions
named: two concurrent start commands give a channel two processes, one of them
out of reach (`CreateCheck` of both before `SaveSession` of either), though
`docs/ARCHITECTURE.md:247` says "one session per channel"; of several sessions
on the plugin's connection the bridge serves the last one (`Subscribe` of
BridgeServer), though `websocket_client.go:314` says "resubscribe to all
sessions"; a message for a process that has just ended shuts the whole bridge
down (`SendInput`), though `bridge-server/README.md:225` says "Server errors return
500"; a CLI that exits before `SaveSession` leaves the record of a dead session
(`ExitCleanup` before `SaveSession`); a message stores the history of a session
that was stopped meanwhile (`MsgStore` after `StopHistory`), and writes its
record back (`MsgSave` after `StopDelete`); a start command in
flight escapes `KillAll` (`SpawnStore` after `Deactivate`); a stop command after
a restart finds no process and reports success (`KillLoad` after `Activate`);
the first `Connect` is never retried (`DialFails(0)`); a method of a nil
connection is called (`Write` with `conn = 0`); a `Connect` that was under way
opens a connection after `Close` (`DialSucceeds` after `CloseLocked`);
`reconnect` subscribes again what was unsubscribed after its `Copy`; a second
killer sends SIGTERM, and five seconds later SIGKILL, to a process that was sent
SIGKILL and whose exit is not collected yet (`KillTerm`); a CLI that
cannot be run leaves an active row (`NotSpawned`), and a CLI that ends does
until it is asked for (`ExitEvent`, `GetSession`).

In bridge mode: the status of a session that ended deletes the record of the
next one, whose process goes on out of reach (`StatusDelete` after a stop and a
start); a create request whose answer is lost, an undo that fails and two start
commands at a time each leave a session at the bridge that no channel has
(`LateRequest`, `UndoStart`, `CreateRequest`); `reconnect` subscribes a stopped session
again from its copy (`Renew`); `UpdateSessionLastMessage` writes a stopped
record back (`TouchSave` after `StopForget`), though StopSession "removes it
from storage" (`session_manager.go:152`); a plugin that restarts listens to none
of its recorded sessions, though `docs/ARCHITECTURE.md:304` says "Persist
session state, restore on restart" (`PluginStarts`); a bridge that stops leaves
the records of its sessions (`BridgeStops`); a button of an old post decides in the
session the channel has now (`DecisionRead`).

About output, histories, files and git: lines in a scanner's buffer are posted
after the notice that the session has ended, and lines in the pipe are lost
when `Cmd.Wait` closes it (`HandleLine` and `WaitReturns` of SessionOutput); in
bridge mode what the CLI prints before the first subscription, between two
connections and after its exit event has no listener (`Broadcast`,
`ReadMessage`); messages that come late are posted after the notice of the end
once `reconnect` has put the session back from its stale copy (`Renew` of
SessionOutput); one message of two concurrent ones is lost, and a failed read
erases the history (`Write` and `Read` of Histories); a message added after the
deletion leaves a history that nothing deletes (`Write` after `Delete`); PUT
creates a file that is missing (`Open`), though `bridge_client.go:451` says
"UpdateFile updates the content of an existing file"; a write that fails or
races leaves a part of the file (`WriteFails`), though
`docs/ARCHITECTURE.md:307` promises "Transaction-like file operations"; a commit
takes along what others have staged, and answers 500 to a request whose files
another has committed (`Commit`, `CommitNothing`); a status misses a file that is
staged between its first and its last command (`ListStaged`, `ListUntracked`).

## 4. Proofs

| module | theorems |
|---|---|
| `EmbeddedSession_proofs` | `Inductive`, `TypeCorrect`, `RecordReaches`, `KillEffective`, `MutualExclusion`, `SignalsInOrder`, `SerialStarts`, `Refinement` |
| `WsClient_proofs` | `ClientInductive`, `ClientTypes`, `OneReconnectAtATime`, `NoLeak`, `NoLostSubscription`, `ClientRefines` |
| `BridgeMode_proofs` | `ModeInductive`, `ModeTypes`, `Heard`, `Backed`, `StopReaches`, `SerialStarts`, `BridgeEmbedded`, `ModeRefinesLifecycle` |
| `SessionOutput_proofs` | `OutputInductive`, `OutputTypes`, `Gapless`, `StoppedLast`, `OutputRefines` |
| `Histories_proofs` | `HistoriesInductive`, `HistoriesTypes`, `KeptUnlessOverlapped`, `OrderIsKept`, `DeletedComesFromCopy`, `IdsAreDistinct`, `SerialCallsImplementLog` |
| `ProjectFiles_proofs` | `FilesInductive`, `FilesTypes`, `SavedFilesStay`, `ExclusiveCreate`, `WholeReads`, `CreateTruncatesUnseen` |
| `ProjectGit_proofs` | `GitInductive`, `GitTypes`, `CommitCommits`, `NothingLeftStaged`, `CompleteStatus`, `GoesForward` |
| `BridgeServer_proofs` | `ServerInductive`, `ServerTypes`, `TableActive`, `NoStray`, `StoppedRows`, `ShutdownSignals`, `ServerRefines` |

All hold for any constants that satisfy the module's named assumption, which
only says that the kinds of model values do not overlap, that flags are
Boolean and bounds natural numbers (`ConstantsAssumption`, `ClientAssumption`,
`BridgeAssumption`, `ModeAssumption`, `OutputAssumption`,
`HistoriesAssumption`, `FilesAssumption`, `GitAssumption`).  The bounds on what a CLI writes, on
broken connections and on edits are constants too, so those theorems hold for
every bound.

None of the safety properties is inductive by itself; `IndInv` adds what each
needs.  TLC checked it of every module on the instance of its run before it was
proved; only the proofs are kept:

* *EmbeddedSession*: `KillIsEffective` needs to know that a closed `done`, or a
  process missing from the table, means that the process has ended or was left
  behind by an earlier life of the plugin (`WaiterInv`), that a goroutine past
  `kill_load` works on a session that was stored (`CmdInv`, `KillAllInv`), that
  only its creator knows a session between `cmd.Start` and `Store`
  (`SpawningOk`), and `RecordReachesProcess` that a record names such a session
  (`RecordInv`).  `NoWriteIntoKill` follows from `MutexInv`: whoever is in the
  critical section holds the mutex.  `SignalsInOrder` rests on `MutexInv` and on
  `SignalInv`: a process somebody kills was stored in this life of the plugin, and
  KillAll's goroutines run only while it goes down (`KillerInv`); a goroutine that waits for the exit is the one that asked last, unless the process has
  ended (`AskedInv`), so what it sends when the five seconds are over comes
  second; and whoever asked last still waits, or went down with its plugin
  (`AskerInv`), so that nobody asks in between.
* *WsClient*: the flag alone does not keep two goroutines from reconnecting,
  since it is set after the decision.  What does is that the *duty* to keep the
  client connected passes from one thread to the next (`DutyInv`): a thread has
  it while it reads or dials, and a new connection's reader starts as the
  dialling ends.  The flag covers the rest of `reconnect` (`FlagInv`).
  `NoConnectionLeak` needs that a dialling thread has dropped the old
  connection (`ConnInv`), and `SubscriptionKept` where each goroutine can be
  (`ControlInv`).  The duty is also what makes the refinement of `Connection` work:
  a connection is opened only by the thread that has it, and no other has.
* *BridgeServer*: `SessionInv` ties the life of a process to the sets `table`,
  `reported`, `lost` and `term`, and rows to their messages.  A row is marked
  stopped when its process is not in the table, and `NoStrayProcess` says which
  processes can be missing there while they run: hence `StoppedHasEnded`.

* *BridgeMode*: `RecordedIsHeard` speaks of records, but a goroutine may write a
  record back that it read long ago.  `SavedInv` therefore extends it to every
  session that is recorded or in the hands of a goroutine that found it
  recorded, and to one about to be saved, and asks for more than the plugin's own map: `Listening` looks at the bridge's end of the
  connection too, whose one place passes from session to session
  (`SubscribeMasks`, `UnsubscribeMasks`), is empty on a new connection, and is taken again
  by what `reconnect` copied (`RenewalListens`).  `StarterInv` says that a session not recorded yet is known to its
  starter alone, so that no stop and no status can unsubscribe it between
  `Subscribe` and `SaveSession`; `KnownInv` that the plugin knows only sessions
  that were created, so that a new id is fresh everywhere, and that a status
  "stopped" is only ever read of a session whose exit was reported, and which
  is therefore out of the bridge's table.  `HistoryIsBacked` needs the same of
  a message on its way to the store (`StoreInv`).  `StopReaches` needs one more
  invariant, `DeletedInv`: once a stop or an undo is past its DELETE, the session is
  out of the bridge's table, or the request that was given up is still on its
  way; which processes can run outside the table is known from `BridgeServer`.

* *SessionOutput*: `NoGaps` follows from `Accounted` (a unit that was handled,
  or sent, is settled somewhere) together with the order of what is under way:
  a post or a message never names a unit not yet handled or read (`PostsInv`),
  and the units on the wire are later than the posted ones and ascending
  (`WireInv`).  The refinement of `Transcript` needs also that the exit is posted
  only after the process has ended, and once (`TellInv`).  `StoppedIsLast` needs
  that a posted exit has ended the subscription for as long as no `Renew`
  follows it, that the exit event is emitted once (`ExitInv`), and that the modes
  do not mix (`ModeInv`).
* *Histories*: what holds of the stored history holds of every copy as well,
  minus what happened since the copy was read (`CopyInv`), and the excuses for a
  missing or returned message are never taken back (the lemmas about `Frame`).
  `SerialCallsImplementLog` adds that, undisturbed, the copy a call works on is the
  history as it is when it is written back (`CopyIsCurrent`).
* *ProjectFiles*: a path and the inode it leads to agree (`LinkInv`), the
  last writer of an inode has opened it (`LastInv`), and an inode nobody has
  mixed has exactly what its last writer has written so far (`ContentInv`).
* *ProjectGit*: versions only grow from the last commit over the index to the
  working tree (`VersionInv`), so that what a request has staged is at least as
  new as what it found (`CommitInv`); a file that a status has still to list
  is, at each of its steps, in a list to come (`StatusInv`).  `GoesForward` is
  `VersionInv` seen from a commit: the index is never older than the last commit.

`SerialStarts`, of both modes, says what the two checks of a start command are
good for.  By themselves they exclude nothing; but as long as no other command of
the channel is under way, nobody writes a record between the check and the save,
the late exit of an older session at most deletes one, and so no session loses
its record to another.

`BridgeEmbedded` shows that `BridgeMode` does to the bridge only what
`BridgeServer` allows, step by step, so that the theorems of
`BridgeServer_proofs` hold of the bridge inside; `ModeInductive` takes the
bridge's part of the invariant from there (`BridgeProofs!...`) instead of
proving it again, and `ModeRefinesLifecycle` the refinement of each step
(`BridgeProofs!StepRefines`).

The refinement proofs show that the initial state maps to the initial state of
the abstract specification and that each step maps to one of its steps or to a stutter,
function by function value.

Only model-checked: all liveness (`StopCompletes`, `StopKillsProcess`,
`ReconnectSucceeds`, `CloseEndsGoroutines`, `ImplementsFairLifecycle`,
`SubscriberIsTold`, `StoppedIsCleanedUp`, `OutputIsSettled`, `WriterGoesOn`,
`ExitIsTold`), which needs fairness and ENABLED, out of the prover's reach.
Only proved: the types, `IdsAreIndices` (the ids of a history count its
messages), `TruncatesOnlyUnseen` (a create never truncates a file that was
there when it looked), `NeverBack` (no commit takes a file back to an older
version), and the three results with a hypothesis (section 3).  Those of them
that are not plain consequences of the invariants were model-checked once.

## 5. Not modelled, and the plan

Left out for good: wording and layout of posts, logging, the health check (it
keeps nothing), `pingHandler` (it only logs), the empty web application, charts
and scripts.  The listing of files and the file browser read and keep nothing;
their buttons call handlers that `ServeHTTP` does not route to, and
`GetFileContentByName` asks for an endpoint the bridge does not have.  Nothing
outside the tests calls `postChangeProposal` and its kin (`post_utils.go`).

What a module leaves out of its part:

* `ProjectFiles`: directories (`mkdir`, whose failure is one of `WriteFails`),
  the answer that does not reach the plugin in time, the test of the path
  (a pure function); a missing session counts as any refusal.
* `ProjectGit`: files are not deleted and never return to an earlier content;
  nobody else, the CLI included, runs git in the project; `pushed` is the number of
  commits at the last push.
* `SessionOutput`: the ends of plugin and bridge (`EmbeddedSession` and
  `BridgeMode` have them); one session, and other sessions only as those
  that take the connection's one subscription away (`BridgeTurnsAway`).
* `Histories`: messages of the bridge's own database, which orders them by
  their times and keeps only what users write.

Next, in this order:

1. The change of mode while sessions run (`configuration.go`): the mode is read
   anew at every call, and the clients are made only at activation.
2. The order of the messages in the bridge's database.
