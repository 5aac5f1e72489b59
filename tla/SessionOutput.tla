---------------------------- MODULE SessionOutput ----------------------------
(***************************************************************************)
(* The way of what one CLI process prints to the posts of its channel.     *)
(*                                                                         *)
(* Embedded mode (server/cli_process.go, output_handler.go): one goroutine *)
(* for each pipe scans it for lines and posts them, while waitForExit      *)
(* waits for the process and then closes the pipes under them.             *)
(*                                                                         *)
(* Bridge mode (bridge-server/src/spawner.ts, websocket/handler.ts and     *)
(* server/websocket_client.go): the data events of both pipes and the exit *)
(* event, in any order, become messages on the plugin's connection if the  *)
(* session is the one subscribed there, and posts if the plugin still      *)
(* listens when it reads them.                                             *)
(*                                                                         *)
(* A unit of output is a line in embedded mode and what one data event     *)
(* carries in bridge mode.  Unit n of a stream is <<stream, n>>; the pipe  *)
(* holds those after taken[st], the buffer of the scanner those from       *)
(* handled[st] + 1 to taken[st].                                           *)
(***************************************************************************)
EXTENDS Naturals, Sequences

CONSTANTS
  Capacity,   \* units a pipe holds before a write to it blocks
  MaxLines,   \* bound: units the CLI writes on each stream
  MaxSent,    \* bound: units it writes on both together, in bridge mode
  MaxBreaks   \* bound: connections that break

Streams == {"stdout", "stderr"}

ASSUME OutputAssumption ==
  /\ Capacity \in Nat \ {0}
  /\ MaxLines \in [Streams -> Nat] /\ MaxSent \in Nat /\ MaxBreaks \in Nat

(* What a line comes to.  Empty lines, echoes of the user, results of      *)
(* tools, messages without text or of an unknown type and the greetings of *)
(* the debugger are silent; a line longer than the scanner's buffer is     *)
(* overlong; all others are shown.  In bridge mode nothing is parsed.      *)
Kinds == {"shown", "silent", "overlong"}

Exit == <<"exit", 0>>              \* the post that says the session has ended
Subscribed == <<"subscribed", 0>>  \* the bridge's answer to a subscription

VARIABLES
  bridged,  \* the mode: UseBridgeMode()
  cli,      \* the process: "running" or "exited"
  lines,    \* the kinds of the units written so far, for each stream
  taken,    \* how many of them were read from the pipe
  posts,    \* the posts made in the channel
  refused,  \* observed: posts that CreatePost refused
  handled,  \* embedded: how many units the reader has handled
  reader,   \* embedded: "reading", or "gave up" after an overlong line
  waiter,   \* embedded: waitForExit
  sub,      \* bridge: whether the plugin's subscriptions have the session
  link,     \* bridge: the plugin's connection is up
  breaks,   \* how often it broke
  asked,    \* bridge: messages subscribe on their way on the connection
  served,   \* bridge: the connection is subscribed there to this session
  renewal,  \* bridge: reconnect is about to "copy" the subscriptions, or to "renew" this one
  revived,  \* observed: reconnect subscribed again after the end was posted
  wire,     \* bridge: messages sent on the connection and not read
  exitSeen, \* bridge: the exit event was emitted
  unheard   \* observed: messages that reached no listener

cliVars == <<bridged, cli, lines>>
embeddedVars == <<handled, reader, waiter>>
subVars == <<sub, link, breaks, asked, served, renewal, revived>>
bridgeVars == <<subVars, wire, exitSeen, unheard>>
vars == <<cliVars, taken, posts, refused, embeddedVars, bridgeVars>>

Units == Streams \X (Nat \ {0})
Entries == Units \cup {Exit, Subscribed}

TypeOK ==
  /\ bridged \in BOOLEAN /\ cli \in {"running", "exited"}
  /\ lines \in [Streams -> Seq(Kinds)]
  /\ taken \in [Streams -> Nat] /\ handled \in [Streams -> Nat]
  /\ posts \in Seq(Entries) /\ refused \subseteq Entries
  /\ reader \in [Streams -> {"reading", "gave up"}]
  /\ waiter \in {"waiting", "closed", "told"}
  /\ sub \in {"never", "yes", "ended"}
  /\ link \in BOOLEAN /\ breaks \in Nat
  /\ asked \in Nat /\ served \in BOOLEAN
  /\ renewal \in {"none", "copy", "renew"} /\ revived \in BOOLEAN
  /\ wire \in Seq(Entries)
  /\ exitSeen \in BOOLEAN /\ unheard \subseteq Entries

Init ==
  /\ bridged \in BOOLEAN /\ cli = "running"
  /\ lines = [st \in Streams |-> <<>>]
  /\ taken = [st \in Streams |-> 0] /\ handled = [st \in Streams |-> 0]
  /\ posts = <<>> /\ refused = {}
  /\ reader = [st \in Streams |-> "reading"]
  /\ waiter = "waiting"
  /\ sub = "never" /\ link = TRUE /\ breaks = 0
  /\ asked = 0 /\ served = FALSE /\ renewal = "none" /\ revived = FALSE
  /\ wire = <<>> /\ exitSeen = FALSE /\ unheard = {}

-----------------------------------------------------------------------------
(* The process.  A write waits while the pipe is full. *)

InPipe(st) == Len(lines[st]) - taken[st]

Write(st, k) ==
  /\ cli = "running" /\ InPipe(st) < Capacity /\ Len(lines[st]) < MaxLines[st]
  /\ bridged => k = "shown" /\ Len(lines["stdout"]) + Len(lines["stderr"]) < MaxSent
  /\ lines' = [lines EXCEPT ![st] = Append(@, k)]
  /\ UNCHANGED <<bridged, cli, taken, posts, refused, embeddedVars, bridgeVars>>

CliExit ==
  /\ cli = "running"
  /\ cli' = "exited"
  /\ UNCHANGED <<bridged, lines, taken, posts, refused, embeddedVars, bridgeVars>>

(* postBotMessage: a post that is refused is logged and forgotten. *)
Post(e) ==
  \/ posts' = Append(posts, e) /\ UNCHANGED refused
  \/ refused' = refused \cup {e} /\ UNCHANGED posts

-----------------------------------------------------------------------------
(* Embedded mode. *)

Scanning(st) == ~bridged /\ reader[st] = "reading"

(* Mutant: a read into a buffer that still has lines. *)
ReadPipe_Overwrites(st) ==
  /\ Scanning(st) /\ waiter = "waiting"
  /\ \E n \in taken[st] + 1 .. Len(lines[st]) : taken' = [taken EXCEPT ![st] = n]
  /\ handled' = [handled EXCEPT ![st] = taken[st]]
  /\ UNCHANGED <<cliVars, posts, refused, reader, waiter, bridgeVars>>

(* Scanner.Scan reads again when its buffer has no line left; one read     *)
(* returns any number of lines.                                            *)
ReadPipe(st) ==
  /\ Scanning(st) /\ waiter = "waiting" /\ handled[st] = taken[st]
  /\ \E n \in taken[st] + 1 .. Len(lines[st]) : taken' = [taken EXCEPT ![st] = n]
  /\ UNCHANGED <<cliVars, posts, refused, embeddedVars, bridgeVars>>

(* Mutants: every line in a goroutine of its own; a silent line ends the   *)
(* loop.                                                                   *)
HandleLine_Concurrently(st) ==
  /\ Scanning(st) /\ handled[st] < taken[st]
  /\ \E n \in handled[st] + 1 .. taken[st] : lines[st][n] = "shown" /\ Post(<<st, n>>)
  /\ handled' = [handled EXCEPT ![st] = @ + 1]
  /\ UNCHANGED <<cliVars, taken, reader, waiter, bridgeVars>>

HandleLine_StopsAtSilent(st) ==
  /\ Scanning(st) /\ handled[st] < taken[st]
  /\ LET n == handled[st] + 1 IN
       \/ lines[st][n] = "shown" /\ Post(<<st, n>>) /\ UNCHANGED reader
       \/ /\ lines[st][n] # "shown"
          /\ reader' = [reader EXCEPT ![st] = "gave up"]
          /\ UNCHANGED <<posts, refused>>
  /\ handled' = [handled EXCEPT ![st] = @ + 1]
  /\ UNCHANGED <<cliVars, taken, waiter, bridgeVars>>

(* One turn of the loop of handleStdout or handleStderr.  An overlong line *)
(* ends the loop: nobody reads that pipe any more.                         *)
HandleLine(st) ==
  /\ Scanning(st) /\ handled[st] < taken[st]
  /\ LET n == handled[st] + 1 IN
       \/ lines[st][n] = "shown" /\ Post(<<st, n>>) /\ UNCHANGED reader
       \/ lines[st][n] = "silent" /\ UNCHANGED <<posts, refused, reader>>
       \/ /\ lines[st][n] = "overlong"
          /\ reader' = [reader EXCEPT ![st] = "gave up"]
          /\ UNCHANGED <<posts, refused>>
  /\ handled' = [handled EXCEPT ![st] = @ + 1]
  /\ UNCHANGED <<cliVars, taken, waiter, bridgeVars>>

(* Mutant: the exit is handled after the readers have come to the end. *)
WaitReturns_AfterReaders ==
  /\ ~bridged /\ cli = "exited" /\ waiter = "waiting"
  /\ \A st \in Streams : handled[st] = Len(lines[st])
  /\ waiter' = "closed"
  /\ UNCHANGED <<cliVars, taken, posts, refused, handled, reader, bridgeVars>>

(* Cmd.Wait closes the pipes, with whatever is still in them; the readers  *)
(* go on with what they have in their buffers.                             *)
WaitReturns ==
  /\ ~bridged /\ cli = "exited" /\ waiter = "waiting"
  /\ waiter' = "closed"
  /\ UNCHANGED <<cliVars, taken, posts, refused, handled, reader, bridgeVars>>

HandleExit ==
  /\ waiter = "closed"
  /\ waiter' = "told"
  /\ Post(Exit)
  /\ UNCHANGED <<cliVars, taken, handled, reader, bridgeVars>>

-----------------------------------------------------------------------------
(* Bridge mode: the bridge. *)

Send(e) == wire' = Append(wire, e) /\ UNCHANGED unheard

(* broadcastToSession: to the connection, if it is subscribed to this      *)
(* session.                                                                *)
Broadcast(e) ==
  \/ served /\ Send(e)
  \/ ~served /\ unheard' = unheard \cup {e} /\ UNCHANGED wire

(* The data events go on until the pipe is at its end, after the exit      *)
(* event too.                                                              *)
DataEvent(st) ==
  /\ bridged /\ taken[st] < Len(lines[st])
  /\ taken' = [taken EXCEPT ![st] = @ + 1]
  /\ Broadcast(<<st, taken[st] + 1>>)
  /\ UNCHANGED <<cliVars, posts, refused, embeddedVars, subVars, exitSeen>>

ExitEvent ==
  /\ bridged /\ cli = "exited" /\ ~exitSeen
  /\ exitSeen' = TRUE
  /\ Broadcast(Exit)
  /\ UNCHANGED <<cliVars, taken, posts, refused, embeddedVars, subVars>>

(* The message subscribe of this session, and one of another session or an *)
(* unsubscribe on the same connection, which has one subscription.         *)
BridgeSubscribes ==
  /\ asked > 0
  /\ asked' = asked - 1
  /\ served' = TRUE
  /\ Send(Subscribed)
  /\ UNCHANGED <<cliVars, taken, posts, refused, embeddedVars, sub, link, breaks, renewal, revived,
                 exitSeen>>

BridgeTurnsAway ==
  /\ served
  /\ served' = FALSE
  /\ UNCHANGED <<cliVars, taken, posts, refused, embeddedVars, sub, link, breaks, asked, renewal,
                 revived, wire, exitSeen, unheard>>

-----------------------------------------------------------------------------
(* Bridge mode: the plugin. *)

(* ws.Subscribe: into the map, and a message to the bridge if there is a   *)
(* connection.                                                             *)
AddSubscription ==
  /\ sub' = "yes"
  /\ asked' = IF link THEN asked + 1 ELSE asked
  /\ UNCHANGED <<cliVars, taken, posts, refused, embeddedVars, link, breaks, served, wire, exitSeen,
                 unheard>>

(* CreateSession subscribes after the bridge has started the process. *)
Subscribe ==
  /\ bridged /\ sub = "never"
  /\ AddSubscription
  /\ UNCHANGED <<renewal, revived>>

(* StopSession unsubscribes before it has the bridge kill the process. *)
StopUnsubscribes ==
  /\ sub = "yes"
  /\ sub' = "ended"
  /\ UNCHANGED <<cliVars, taken, posts, refused, embeddedVars, link, breaks, asked, served, renewal,
                 revived, wire, exitSeen, unheard>>

(* Mutant: the plugin listens on after the status "stopped". *)
ReadMessage_ListensOn ==
  /\ wire # <<>>
  /\ wire' = Tail(wire)
  /\ IF sub = "yes"
     THEN Post(Head(wire)) /\ UNCHANGED unheard
     ELSE unheard' = unheard \cup {Head(wire)} /\ UNCHANGED <<posts, refused>>
  /\ UNCHANGED <<cliVars, taken, embeddedVars, subVars, exitSeen>>

(* processMessage: output, errors and status messages are posted; after    *)
(* "stopped" the session is unsubscribed.                                  *)
ReadMessage ==
  /\ wire # <<>>
  /\ wire' = Tail(wire)
  /\ IF sub = "yes"
     THEN /\ Post(Head(wire))
          /\ sub' = IF Head(wire) = Exit THEN "ended" ELSE sub
          /\ UNCHANGED unheard
     ELSE unheard' = unheard \cup {Head(wire)} /\ UNCHANGED <<posts, refused, sub>>
  /\ UNCHANGED <<cliVars, taken, embeddedVars, link, breaks, asked, served, renewal, revived, exitSeen>>

LinkBreaks ==
  /\ bridged /\ link /\ breaks < MaxBreaks
  /\ link' = FALSE /\ breaks' = breaks + 1 /\ asked' = 0 /\ served' = FALSE
  /\ wire' = <<>>
  /\ unheard' = unheard \cup {wire[i] : i \in DOMAIN wire}
  /\ UNCHANGED <<cliVars, taken, posts, refused, embeddedVars, sub, renewal, revived, exitSeen>>

(* reconnect, of which one runs at a time: it dials, copies the            *)
(* subscriptions, and subscribes to those of the copy, be they ended by    *)
(* now or not.                                                             *)
Reconnect ==
  /\ bridged /\ ~link /\ renewal = "none"
  /\ link' = TRUE /\ renewal' = "copy"
  /\ UNCHANGED <<cliVars, taken, posts, refused, embeddedVars, sub, breaks, asked, served, revived,
                 wire, exitSeen, unheard>>

Copy ==
  /\ renewal = "copy"
  /\ renewal' = IF sub = "yes" THEN "renew" ELSE "none"
  /\ UNCHANGED <<cliVars, taken, posts, refused, embeddedVars, sub, link, breaks, asked, served,
                 revived, wire, exitSeen, unheard>>

Renew ==
  /\ renewal = "renew"
  /\ renewal' = "none"
  /\ revived' = (revived \/ \E i \in DOMAIN posts : posts[i] = Exit)
  /\ AddSubscription

-----------------------------------------------------------------------------
ReaderStep(st) == ReadPipe(st) \/ HandleLine(st)

Next ==
  \/ \E st \in Streams : (\E k \in Kinds : Write(st, k)) \/ ReaderStep(st) \/ DataEvent(st)
  \/ CliExit \/ WaitReturns \/ HandleExit
  \/ ExitEvent \/ BridgeSubscribes \/ BridgeTurnsAway
  \/ Subscribe \/ StopUnsubscribes \/ ReadMessage
  \/ LinkBreaks \/ Reconnect \/ Copy \/ Renew

Spec == Init /\ [][Next]_vars

(* Goroutines and event loops go on, and a connection that stays up        *)
(* delivers.  Nothing makes the CLI write or end, a user stop it, or a     *)
(* connection come back.                                                   *)
FairSpec ==
  /\ Spec
  /\ \A st \in Streams : WF_vars(ReaderStep(st)) /\ WF_vars(DataEvent(st))
  /\ WF_vars(WaitReturns) /\ WF_vars(HandleExit)
  /\ WF_vars(ExitEvent) /\ WF_vars(ReadMessage)

-----------------------------------------------------------------------------
Elements(s) == {s[i] : i \in DOMAIN s}
IsShown(st, n) == lines[st][n] = "shown"
Settled == Elements(posts) \cup refused \cup unheard

(* A post has a gap before it only where a post was refused or a message   *)
(* reached no listener: neither a full buffer, a read of several lines,    *)
(* the closing of the pipes nor the mixing of two streams on one           *)
(* connection loses a line between two that are shown.                     *)
NoGaps ==
  \A st \in Streams : \A n \in 1..Len(lines[st]) :
    <<st, n>> \in Elements(posts) =>
      \A m \in 1..n-1 : IsShown(st, m) => <<st, m>> \in Settled

(* In bridge mode the notice that the session has stopped is the last post *)
(* about it, although data events may follow the exit event, a message may *)
(* be on its way and the bridge may answer a subscription late, as long as *)
(* no reconnect has put the session back among the subscriptions after the *)
(* notice, from a copy it had made before.                                 *)
StoppedIsLast ==
  bridged /\ ~revived => \A i \in DOMAIN posts : posts[i] = Exit => i = Len(posts)

(* No unit of output vanishes: it is in the pipe, in the buffer or on the  *)
(* connection, was shown, was silent, was refused or reached no listener.  *)
Accounted ==
  \A st \in Streams : \A n \in 1..Len(lines[st]) :
    IF bridged
    THEN n <= taken[st] => <<st, n>> \in Settled \cup Elements(wire)
    ELSE n <= handled[st] => ~IsShown(st, n) \/ <<st, n>> \in Settled

(* Units are read, sent and posted in their order. *)
CountInv == \A st \in Streams : handled[st] <= taken[st] /\ taken[st] <= Len(lines[st])

Done(st) == IF bridged THEN taken[st] ELSE handled[st]

PostsInv ==
  \A st \in Streams : \A i \in DOMAIN posts : posts[i][1] = st => posts[i][2] <= Done(st)

WireInv ==
  \A st \in Streams : \A i \in DOMAIN wire : wire[i][1] = st =>
    /\ wire[i][2] <= taken[st]
    /\ \A j \in DOMAIN posts : posts[j][1] = st => posts[j][2] < wire[i][2]
    /\ \A j \in 1..i-1 : wire[j][1] = st => wire[j][2] < wire[i][2]

(* Each mode leaves alone what belongs to the other. *)
ModeInv ==
  IF bridged
  THEN waiter = "waiting"
  ELSE wire = <<>> /\ sub = "never" /\ asked = 0 /\ ~served /\ renewal = "none"

(* The exit is told once, and the end of the subscription goes with it,    *)
(* but for a reconnect that renews it.                                     *)
ExitInv ==
  bridged =>
    /\ Exit \in Elements(posts) => sub = "ended" \/ revived
    /\ Exit \in Elements(posts) \cup Elements(wire) => exitSeen
    /\ Exit \in Elements(wire) => Exit \notin Elements(posts)
    /\ \A i, j \in DOMAIN wire : wire[i] = Exit /\ wire[j] = Exit => i = j
    /\ StoppedIsLast

(* The end is told by those who have seen it: the exit event of the bridge *)
(* and waitForExit.                                                        *)
TellInv ==
  /\ exitSeen \/ waiter # "waiting" => cli = "exited"
  /\ ~bridged /\ Exit \in Elements(posts) => waiter = "told"

IndInv ==
  /\ TypeOK
  /\ CountInv /\ PostsInv /\ WireInv /\ ModeInv
  /\ Accounted /\ NoGaps
  /\ ExitInv

WrittenSoFar == [st \in Streams |-> Len(lines[st])]

HasEnded == cli = "exited"

Channel == INSTANCE Transcript WITH written <- WrittenSoFar, ended <- HasEnded

(* The channel shows what the CLI wrote, each stream in its order and no   *)
(* unit twice, in both modes, and tells its end once and after the fact.   *)
ImplementsTranscript == Channel!Spec

(* The only reason for which a reader gives up. *)
GaveUp(st) == \E m \in 1..handled[st] : lines[st][m] = "overlong"

(* Every line is shown, refused or lost for a reason that can be named:    *)
(* its reader gave up, or the process ended before the line was read.  A   *)
(* line in the buffer is shown even after the exit.                        *)
OutputIsSettled ==
  \A st \in Streams : \A n \in 1..MaxLines[st] :
    n <= Len(lines[st]) /\ IsShown(st, n)
      ~> \/ <<st, n>> \in Settled
         \/ GaveUp(st)
         \/ waiter # "waiting" /\ n > taken[st]

(* A CLI that waits because a pipe is full can go on, unless the reader of *)
(* that pipe gave up.                                                      *)
WriterGoesOn ==
  \A st \in Streams :
    InPipe(st) = Capacity ~> InPipe(st) < Capacity \/ GaveUp(st) \/ cli = "exited"

(* The end of a process is told to the channel, or is known to have been   *)
(* refused or to have had no listener, even if a reader gave up.           *)
ExitIsTold == cli = "exited" ~> Exit \in Settled
=============================================================================
