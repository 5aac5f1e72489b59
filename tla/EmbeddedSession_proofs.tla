----------------------- MODULE EmbeddedSession_proofs -----------------------
(***************************************************************************)
(* Proofs about EmbeddedSession, for any number of channels, sessions and  *)
(* commands and whatever may fail.                                         *)
(***************************************************************************)
EXTENDS EmbeddedSession, TLAPS

USE DEF vars, kvVars, osVars, pmVars, cmdVars

(* A goroutine that is not idle serves a channel. *)
LEMMA BusyHasChannel ==
  ASSUME TypeOK, CmdInv, NEW c \in Cmds, pc[c] # "idle"
  PROVE  ch[c] \in Channels
BY DEF TypeOK, CmdInv, CmdOk, LabelsOf, OpNames

(* The work of a goroutine past its first look at the session. *)
LEMMA SessionKnown ==
  ASSUME TypeOK, CmdInv, NEW c \in Cmds, pc[c] \in SessionLabels \cup {"store"}
  PROVE  sess[c] \in Sessions /\ chan[sess[c]] = ch[c]
BY DEF CmdInv, CmdOk, SpawningOk, Stored

LEMMA TargetIsSession ==
  ASSUME TypeOK, CmdInv, NEW a \in Agents, pc[a] \in KillLabels
  PROVE  Target(a) \in Sessions
BY SessionKnown DEF Target, Agents, SessionLabels

(* The variables keep their types: in particular every session id a        *)
(* goroutine indexes the process table, the mutexes or the KV store with   *)
(* is a session id.                                                        *)
LEMMA TypeInit == Init => TypeOK
BY ConstantsAssumption DEF Init, TypeOK, Agents, Labels, WaiterStates, OpNames

LEMMA ReadRecordType ==
  ASSUME TypeOK, CmdInv, NEW c \in Cmds, NEW from \in Labels \ {"idle"}, NEW present \in BOOLEAN,
         NEW label \in Labels, ReadRecord(c, from, present, label)
  PROVE  TypeOK'
<1>1. ch[c] \in Channels
  BY BusyHasChannel DEF ReadRecord, At
<1>2. kv[ch[c]] \in Sessions \cup {NoSession}
  BY <1>1 DEF TypeOK
<1>3. CASE GotoWith(c, label, kv[ch[c]])
  BY <1>2, <1>3 DEF ReadRecord, GotoWith, TypeOK, Agents
<1>4. CASE Return(c)
  BY <1>4 DEF ReadRecord, Return, TypeOK, Agents, Labels, OpNames
<1> QED
  BY <1>3, <1>4 DEF ReadRecord

LEMMA StartType == ASSUME TypeOK, CmdInv, NEW c \in Cmds, StartStep(c) PROVE TypeOK'
<1> USE DEF At, Goto, GotoWith, Return, Agents, Labels
<1>1. CASE StartCheck(c)
  BY <1>1, ReadRecordType DEF StartCheck
<1>2. CASE CreateCheck(c)
  BY <1>2, ReadRecordType DEF CreateCheck
<1>3. CASE SpawnStart(c)
  <2>1. ch[c] \in Channels
    BY <1>3, BusyHasChannel DEF SpawnStart
  <2>2. /\ os' \in [Sessions -> {"none", "running", "exited"}]
        /\ chan' \in [Sessions -> Channels \cup {NoChannel}]
    BY <1>3, <2>1 DEF SpawnStart, TypeOK
  <2>3. /\ pc' \in [Agents -> Labels]
        /\ op' \in [Cmds -> OpNames]
        /\ ch' \in [Cmds -> Channels \cup {NoChannel}]
        /\ sess' \in [Cmds -> Sessions \cup {NoSession}]
    BY <1>3 DEF SpawnStart, TypeOK, OpNames
  <2> QED
    BY <1>3, <2>2, <2>3 DEF SpawnStart, TypeOK
<1>4. CASE SpawnStore(c)
  BY <1>4, SessionKnown DEF SpawnStore, TypeOK, WaiterStates
<1>5. CASE SaveSession(c)
  BY <1>5, SessionKnown DEF SaveSession, TypeOK, SessionLabels, OpNames
<1>6. CASE StartFails(c)
  BY <1>6 DEF StartFails, TypeOK, OpNames
<1> QED
  BY <1>1, <1>2, <1>3, <1>4, <1>5, <1>6 DEF StartStep

LEMMA StopType == ASSUME TypeOK, CmdInv, NEW c \in Cmds, StopStep(c) PROVE TypeOK'
<1> USE DEF At, Goto, Return, Agents, Labels, OpNames
<1>1. CASE StopCheck(c)
  BY <1>1, ReadRecordType DEF StopCheck
<1>2. CASE StopRead(c)
  BY <1>2, ReadRecordType DEF StopRead
<1>3. CASE StopDelete(c)
  BY <1>3 DEF StopDelete, TypeOK
<1>4. CASE StopHistory(c)
  BY <1>4 DEF StopHistory, TypeOK
<1>5. CASE StopReport(c)
  BY <1>5 DEF StopReport, TypeOK
<1> QED
  BY <1>1, <1>2, <1>3, <1>4, <1>5 DEF StopStep

LEMMA MessageType == ASSUME TypeOK, CmdInv, NEW c \in Cmds, MessageStep(c) PROVE TypeOK'
<1> USE DEF At, Goto, Return, Agents, Labels, OpNames
<1>1. CASE MsgRead(c)
  BY <1>1, ReadRecordType DEF MsgRead
<1>2. CASE MsgRunning(c)
  BY <1>2 DEF MsgRunning, TypeOK
<1>3. CASE SendLoad(c)
  BY <1>3 DEF SendLoad, TypeOK
<1>4. CASE SendLock(c)
  BY <1>4 DEF SendLock, TypeOK
<1>5. CASE SendWrite(c)
  <2>1. Goto(c, "msg_store") \/ Return(c)
    BY <1>5 DEF SendWrite
  <2>2. mu' \in [Sessions -> Agents \cup {NoAgent}]
    BY <1>5 DEF SendWrite, TypeOK
  <2> QED
    BY <1>5, <2>1, <2>2 DEF SendWrite, TypeOK
<1>6. CASE MsgStore(c)
  BY <1>6, SessionKnown DEF MsgStore, TypeOK, SessionLabels
<1>7. CASE MsgTouch(c)
  BY <1>7, ReadRecordType DEF MsgTouch
<1>8. CASE MsgSave(c)
  BY <1>8, SessionKnown DEF MsgSave, TypeOK, SessionLabels
<1> QED
  BY <1>1, <1>2, <1>3, <1>4, <1>5, <1>6, <1>7, <1>8 DEF MessageStep

LEMMA AfterKillType ==
  ASSUME TypeOK, NEW a \in Agents, AfterKill(a)
  PROVE  /\ pc' \in [Agents -> Labels]
         /\ op' \in [Cmds -> OpNames]
         /\ ch' \in [Cmds -> Channels \cup {NoChannel}]
         /\ sess' \in [Cmds -> Sessions \cup {NoSession}]
BY DEF AfterKill, TypeOK, Goto, Return, Agents, Labels, OpNames

LEMMA KillType == ASSUME TypeOK, NEW a \in Agents, KillStep(a) PROVE TypeOK'
<1> USE DEF At, Goto, TypeOK, Labels
<1>1. CASE KillLoad(a)
  BY <1>1, AfterKillType DEF KillLoad
<1>2. CASE KillLock(a)
  BY <1>2, AfterKillType DEF KillLock
<1>3. CASE KillTerm(a)
  BY <1>3 DEF KillTerm, Signal
<1>4. CASE KillDone(a)
  BY <1>4, AfterKillType DEF KillDone, Unlock
<1>5. CASE KillTimeout(a)
  BY <1>5, AfterKillType DEF KillTimeout, Signal, Unlock
<1> QED
  BY <1>1, <1>2, <1>3, <1>4, <1>5 DEF KillStep

LEMMA TypeNext == ASSUME TypeOK, CmdInv, [Next]_vars PROVE TypeOK'
<1> USE ConstantsAssumption DEF TypeOK
<1>1. CASE UNCHANGED vars
  BY <1>1
<1>2. ASSUME NEW c \in Cmds, ExecuteCommand(c) PROVE TypeOK'
  BY <1>2 DEF ExecuteCommand, Begin, Labels, OpNames, Agents
<1>3. ASSUME NEW s \in Sessions, WaiterStep(s) PROVE TypeOK'
  BY <1>3 DEF WaiterStep, WaitReturns, WaitForgets, ExitNotice, ExitCleanup, WaiterStates
<1>4. ASSUME NEW s \in Sessions, CliStep(s) PROVE TypeOK'
  BY <1>4 DEF CliStep, CliExit, CliStall, CliResume
<1>5. CASE Deactivate
  BY <1>5 DEF Deactivate, Labels
<1>6. CASE Shutdown \/ Crash
  BY <1>6 DEF Shutdown, Crash, PluginEnds, WaiterStates, Labels, OpNames
<1>7. CASE Activate
  BY <1>7 DEF Activate
<1> QED
  BY <1>1, <1>2, <1>3, <1>4, <1>5, <1>6, <1>7, StartType, StopType, MessageType, KillType
  DEF Next, CmdStep

-----------------------------------------------------------------------------
(* How a step of one goroutine looks to the others.                        *)

(* A step of a command's goroutine leaves those of the others alone, and   *)
(* of the processes it changes only what it starts or stores.              *)
Frame(c) ==
  \A d \in Cmds \ {c} : pc'[d] = pc[d] /\ op'[d] = op[d] /\ ch'[d] = ch[d] /\ sess'[d] = sess[d]

LEMMA MoveFrame ==
  ASSUME TypeOK, NEW c \in Cmds, NEW label, NEW s, Goto(c, label) \/ GotoWith(c, label, s) \/ Return(c)
  PROVE  Frame(c) /\ \A t \in Sessions : pc'[t] = pc[t]
BY ConstantsAssumption DEF TypeOK, Agents, Frame, Goto, GotoWith, Return

LEMMA CommandFrame ==
  ASSUME TypeOK, NEW c \in Cmds, ExecuteCommand(c) \/ CmdStep(c) \/ KillStep(c)
  PROVE  Frame(c) /\ \A s \in Sessions : pc'[s] = pc[s]
<1>1. CASE ExecuteCommand(c)
  BY <1>1, ConstantsAssumption DEF ExecuteCommand, Begin, TypeOK, Agents, Frame
<1>2. CASE StartStep(c)
  BY <1>2, MoveFrame DEF StartStep, StartCheck, CreateCheck, SpawnStart, SpawnStore, SaveSession,
     StartFails, ReadRecord
<1>3. CASE StopStep(c)
  BY <1>3, MoveFrame DEF StopStep, StopCheck, StopRead, StopDelete, StopHistory, StopReport, ReadRecord
<1>4. CASE MessageStep(c)
  BY <1>4, MoveFrame DEF MessageStep, MsgRead, MsgRunning, SendLoad, SendLock, SendWrite, MsgStore,
     MsgTouch, MsgSave, ReadRecord
<1>5. CASE KillStep(c)
  BY <1>5, MoveFrame DEF KillStep, KillLoad, KillLock, KillTerm, KillDone, KillTimeout, AfterKill
<1> QED
  BY <1>1, <1>2, <1>3, <1>4, <1>5 DEF CmdStep

LEMMA KillerFrame ==
  ASSUME TypeOK, NEW s \in Sessions, KillStep(s)
  PROVE  /\ UNCHANGED <<op, ch, sess>>
         /\ \A a \in Agents \ {s} : pc'[a] = pc[a]
BY ConstantsAssumption DEF TypeOK, KillStep, KillLoad, KillLock, KillTerm, KillDone, KillTimeout,
   AfterKill, Goto, Agents

(* Most steps touch neither the table nor the processes' life. *)
LEMMA QuietStep ==
  ASSUME NEW c, ExecuteCommand(c) \/ StopStep(c) \/ MessageStep(c) \/ KillStep(c)
                \/ StartCheck(c) \/ CreateCheck(c) \/ SaveSession(c) \/ StartFails(c)
  PROVE  UNCHANGED <<os, chan, procs, done, waiter>>
<1>1. CASE ExecuteCommand(c)
  BY <1>1 DEF ExecuteCommand, Begin
<1>2. CASE StopStep(c)
  BY <1>2 DEF StopStep, StopCheck, StopRead, StopDelete, StopHistory, StopReport, ReadRecord
<1>3. CASE MessageStep(c)
  BY <1>3 DEF MessageStep, MsgRead, MsgRunning, SendLoad, SendLock, SendWrite, MsgStore, MsgTouch,
     MsgSave, ReadRecord
<1>4. CASE KillStep(c)
  BY <1>4 DEF KillStep, KillLoad, KillLock, KillTerm, KillDone, KillTimeout
<1>5. CASE StartCheck(c) \/ CreateCheck(c) \/ SaveSession(c) \/ StartFails(c)
  BY <1>5 DEF StartCheck, CreateCheck, SaveSession, StartFails, ReadRecord
<1> QED
  BY <1>1, <1>2, <1>3, <1>4, <1>5

-----------------------------------------------------------------------------
(* WaiterInv: the table holds a process from its Store to the Delete of    *)
(* waitForExit, which comes after its end.                                 *)
LEMMA WaiterNext == ASSUME TypeOK, WaiterInv, CmdInv, [Next]_vars PROVE WaiterInv'
<1> USE DEF TypeOK, WaiterInv
<1>1. CASE UNCHANGED <<os, procs, done, waiter>>
  BY <1>1
<1>2. ASSUME NEW c \in Cmds, SpawnStart(c) PROVE WaiterInv'
  BY <1>2 DEF SpawnStart
<1>3. ASSUME NEW c \in Cmds, SpawnStore(c) PROVE WaiterInv'
  BY <1>3 DEF SpawnStore, At, CmdInv, SpawningOk
<1>4. ASSUME NEW s \in Sessions, WaiterStep(s) PROVE WaiterInv'
  BY <1>4 DEF WaiterStep, WaitReturns, WaitForgets, ExitNotice, ExitCleanup, WaiterStates
<1>5. ASSUME NEW s \in Sessions, CliStep(s) PROVE WaiterInv'
  BY <1>5 DEF CliStep, CliExit, CliStall, CliResume
<1>6. CASE Shutdown \/ Crash
  BY <1>6 DEF Shutdown, Crash, PluginEnds, WaiterStates
<1>7. CASE Deactivate \/ Activate
  BY <1>7 DEF Deactivate, Activate
<1> QED
  BY <1>1, <1>2, <1>3, <1>4, <1>5, <1>6, <1>7, QuietStep DEF Next, CmdStep, StartStep

(* A session once stored stays what it is: ids are never used again. *)
LEMMA StoredStays ==
  ASSUME TypeOK, WaiterInv, CmdInv, [Next]_vars, NEW s \in Sessions, waiter[s] # "none"
  PROVE  chan'[s] = chan[s] /\ waiter'[s] # "none"
<1>1. CASE UNCHANGED <<chan, waiter>>
  BY <1>1
<1>2. ASSUME NEW c \in Cmds, SpawnStart(c) \/ SpawnStore(c)
      PROVE  chan'[s] = chan[s] /\ waiter'[s] # "none"
  BY <1>2 DEF SpawnStart, SpawnStore, TypeOK, WaiterInv
<1>3. ASSUME NEW t \in Sessions, WaiterStep(t) \/ CliStep(t)
      PROVE  chan'[s] = chan[s] /\ waiter'[s] # "none"
  BY <1>3 DEF WaiterStep, WaitReturns, WaitForgets, ExitNotice, ExitCleanup, CliStep, CliExit,
     CliStall, CliResume, TypeOK
<1>4. CASE Shutdown \/ Crash
  BY <1>4 DEF Shutdown, Crash, PluginEnds, WaiterInv, TypeOK
<1>5. CASE Deactivate \/ Activate
  BY <1>5 DEF Deactivate, Activate
<1> QED
  BY <1>1, <1>2, <1>3, <1>4, <1>5, QuietStep DEF Next, CmdStep, StartStep

-----------------------------------------------------------------------------
(* RecordInv: a record is written only by a goroutine that knows a session *)
(* of its channel.                                                         *)
LEMMA RecordWriters ==
  ASSUME TypeOK, CmdInv, [Next]_vars, NEW channel \in Channels
  PROVE  \/ kv'[channel] \in {kv[channel], NoSession}
         \/ \E c \in Cmds : /\ pc[c] \in {"save", "msg_save"}
                           /\ ch[c] = channel
                           /\ kv'[channel] = sess[c]
                           /\ pc'[c] = "idle"
<1> DEFINE Goal == \/ kv'[channel] \in {kv[channel], NoSession}
                   \/ \E c \in Cmds : /\ pc[c] \in {"save", "msg_save"}
                                     /\ ch[c] = channel
                                     /\ kv'[channel] = sess[c]
                                     /\ pc'[c] = "idle"
<1>1. ASSUME NEW c \in Cmds, StartStep(c) PROVE Goal
  BY <1>1 DEF StartStep, StartCheck, CreateCheck, SpawnStart, SpawnStore, SaveSession, StartFails,
     ReadRecord, At, Return, TypeOK, Agents
<1>2. ASSUME NEW c \in Cmds, StopStep(c) PROVE Goal
  BY <1>2 DEF StopStep, StopCheck, StopRead, StopDelete, StopHistory, StopReport, ReadRecord, TypeOK
<1>3. ASSUME NEW c \in Cmds, MessageStep(c) PROVE Goal
  BY <1>3 DEF MessageStep, MsgRead, MsgRunning, SendLoad, SendLock, SendWrite, MsgStore, MsgTouch,
     MsgSave, ReadRecord, At, Return, TypeOK, Agents
<1>4. ASSUME NEW s \in Sessions, ExitCleanup(s) PROVE Goal
  BY <1>4 DEF ExitCleanup, TypeOK
<1>5. CASE UNCHANGED kv
  BY <1>5
<1>6. ASSUME NEW c \in Cmds, ExecuteCommand(c) PROVE Goal
  BY <1>6 DEF ExecuteCommand, Begin
<1>7. ASSUME NEW a \in Agents, KillStep(a) PROVE Goal
  BY <1>7 DEF KillStep, KillLoad, KillLock, KillTerm, KillDone, KillTimeout
<1>8. ASSUME NEW s \in Sessions, WaitReturns(s) \/ WaitForgets(s) \/ ExitNotice(s) \/ CliStep(s)
      PROVE  Goal
  BY <1>8 DEF WaitReturns, WaitForgets, ExitNotice, CliStep, CliExit, CliStall, CliResume
<1>9. CASE Deactivate \/ Shutdown \/ Crash \/ Activate
  BY <1>9 DEF Deactivate, Shutdown, Crash, PluginEnds, Activate
<1> QED
  BY <1>1, <1>2, <1>3, <1>4, <1>5, <1>6, <1>7, <1>8, <1>9 DEF Next, CmdStep, WaiterStep

LEMMA RecordNext ==
  ASSUME TypeOK, WaiterInv, CmdInv, RecordInv, [Next]_vars PROVE RecordInv'
<1> SUFFICES ASSUME NEW channel \in Channels, kv'[channel] # NoSession
             PROVE  Stored(kv[channel], channel)'
  BY DEF RecordInv
<1>1. CASE kv'[channel] = kv[channel]
  BY <1>1, StoredStays DEF RecordInv, Stored
<1>2. ASSUME NEW c \in Cmds, pc[c] \in {"save", "msg_save"}, ch[c] = channel, kv'[channel] = sess[c]
      PROVE  Stored(kv[channel], channel)'
  <2>1. Stored(sess[c], channel)
    BY <1>2 DEF CmdInv, CmdOk, SessionLabels
  <2> QED
    BY <1>2, <2>1, StoredStays DEF Stored
<1> QED
  BY <1>1, <1>2, RecordWriters

-----------------------------------------------------------------------------
(* CmdInv: a goroutine works on a session of its own channel.              *)

(* The goroutines that do not move. *)
LEMMA OthersOk ==
  ASSUME TypeOK, WaiterInv, CmdInv, [Next]_vars, NEW d \in Cmds,
         pc'[d] = pc[d], op'[d] = op[d], ch'[d] = ch[d], sess'[d] = sess[d]
  PROVE  CmdOk(d)'
BY StoredStays DEF CmdInv, CmdOk, Stored

LEMMA ReadRecordOk ==
  ASSUME TypeOK, WaiterInv, CmdInv, RecordInv, NEW c \in Cmds, NEW from \in Labels \ {"idle"},
         NEW present \in BOOLEAN, NEW label, ReadRecord(c, from, present, label),
         label \in LabelsOf(op[c]), ~present => label \notin SessionLabels, label # "store"
  PROVE  CmdOk(c)' /\ pc'[c] # "store"
<1>1. ch[c] \in Channels
  BY BusyHasChannel DEF ReadRecord, At
<1>2. CASE Return(c)
  BY <1>2 DEF Return, CmdOk, LabelsOf, SessionLabels, KillLabels, TypeOK, Agents
<1>3. CASE GotoWith(c, label, kv[ch[c]]) /\ (kv[ch[c]] # NoSession) = present
  <2>1. pc'[c] = label /\ sess'[c] = kv[ch[c]] /\ op' = op /\ ch' = ch
    BY <1>3 DEF GotoWith, TypeOK, Agents
  <2>2. UNCHANGED <<chan, waiter>>
    BY DEF ReadRecord
  <2>3. present => Stored(kv[ch[c]], ch[c])
    BY <1>1, <1>3 DEF RecordInv
  <2> QED
    BY <1>1, <2>1, <2>2, <2>3 DEF CmdOk, Stored
<1> QED
  BY <1>2, <1>3 DEF ReadRecord

LEMMA OpOfLabel ==
  ASSUME TypeOK, CmdInv, NEW c \in Cmds
  PROVE  /\ pc[c] \in {"start_check", "create_check", "spawn", "store", "save"} => op[c] = "start"
         /\ pc[c] \in {"stop_check", "stop_read", "stop_delete", "stop_history", "stop_report"}
              => op[c] = "stop"
         /\ pc[c] \in {"msg_read", "msg_running", "send_load", "send_lock", "send_write",
                       "msg_store", "msg_touch", "msg_save"} => op[c] = "message"
         /\ pc[c] \in KillLabels => op[c] \in {"start", "stop"}
         /\ pc[c] = "start_failed" => op[c] = "start"
BY DEF TypeOK, CmdInv, CmdOk, LabelsOf, KillLabels, OpNames

(* The goroutine that moves to another point of its command. *)
LEMMA GotoOk ==
  ASSUME TypeOK, CmdInv, NEW c \in Cmds, NEW label, Goto(c, label), pc[c] # "idle",
         label \in LabelsOf(op[c]), label \in SessionLabels => Stored(sess[c], ch[c])'
  PROVE  CmdOk(c)' /\ pc'[c] = label
<1>1. pc'[c] = label /\ op'[c] = op[c] /\ ch'[c] = ch[c]
  BY DEF Goto, TypeOK, Agents
<1> QED
  BY <1>1, BusyHasChannel DEF CmdOk, Goto

LEMMA ReturnOk ==
  ASSUME TypeOK, NEW c \in Cmds, Return(c)
  PROVE  CmdOk(c)' /\ pc'[c] = "idle"
BY DEF Return, CmdOk, LabelsOf, SessionLabels, KillLabels, TypeOK, Agents

LEMMA KnownStays ==
  ASSUME TypeOK, WaiterInv, CmdInv, [Next]_vars, NEW c \in Cmds, pc[c] \in SessionLabels,
         sess' = sess, ch' = ch
  PROVE  Stored(sess[c], ch[c])'
BY StoredStays DEF CmdInv, CmdOk, Stored

LEMMA BeginOk ==
  ASSUME TypeOK, NEW c \in Cmds, ExecuteCommand(c)
  PROVE  CmdOk(c)' /\ pc'[c] # "store"
BY DEF ExecuteCommand, Begin, CmdOk, LabelsOf, SessionLabels, KillLabels, TypeOK, Agents

LEMMA StartOk ==
  ASSUME TypeOK, WaiterInv, CmdInv, RecordInv, [Next]_vars, NEW c \in Cmds, StartStep(c)
  PROVE  CmdOk(c)' /\ (pc'[c] = "store" => SpawnStart(c))
<1> USE OpOfLabel DEF At, LabelsOf
<1>1. CASE StartCheck(c)
  <2>1. ReadRecord(c, "start_check", FALSE, "create_check")
    BY <1>1 DEF StartCheck
  <2>2. "create_check" \in LabelsOf(op[c])
    BY <2>1, OpOfLabel DEF ReadRecord, LabelsOf, KillLabels
  <2> QED
    BY <2>1, <2>2, ReadRecordOk DEF Labels, SessionLabels, KillLabels
<1>2. CASE CreateCheck(c)
  <2>1. ReadRecord(c, "create_check", FALSE, "spawn")
    BY <1>2 DEF CreateCheck
  <2>2. "spawn" \in LabelsOf(op[c])
    BY <2>1, OpOfLabel DEF ReadRecord, LabelsOf, KillLabels
  <2> QED
    BY <2>1, <2>2, ReadRecordOk DEF Labels, SessionLabels, KillLabels
<1>3. CASE SpawnStart(c)
  <2>1. CASE Return(c)
    BY <1>3, <2>1, ReturnOk
  <2>2. ASSUME NEW s \in Sessions, GotoWith(c, "store", s) PROVE CmdOk(c)'
    BY <1>3, <2>2, BusyHasChannel
    DEF SpawnStart, GotoWith, CmdOk, TypeOK, Agents, SessionLabels, KillLabels
  <2> QED
    BY <1>3, <2>1, <2>2 DEF SpawnStart
<1>4. CASE SpawnStore(c)
  <2>1. Stored(sess[c], ch[c])'
    BY <1>4 DEF SpawnStore, Goto, Stored, CmdInv, SpawningOk, TypeOK
  <2> QED
    BY <1>4, <2>1, GotoOk DEF SpawnStore
<1>5. CASE SaveSession(c)
  <2>1. CASE Return(c)
    BY <2>1, ReturnOk
  <2>2. CASE Goto(c, "kill_load")
    <3>1. Stored(sess[c], ch[c])'
      BY <1>5, <2>2, KnownStays DEF SaveSession, Goto, SessionLabels
    <3> QED
      BY <1>5, <2>2, <3>1, GotoOk DEF SaveSession, KillLabels
  <2> QED
    BY <1>5, <2>1, <2>2 DEF SaveSession
<1>6. CASE StartFails(c)
  BY <1>6, ReturnOk DEF StartFails
<1> QED
  BY <1>1, <1>2, <1>3, <1>4, <1>5, <1>6 DEF StartStep

(* A goroutine that works on a stored session goes on with it, or returns. *)
LEMMA GoOnOk ==
  ASSUME TypeOK, WaiterInv, CmdInv, [Next]_vars, NEW c \in Cmds, NEW label,
         pc[c] \in SessionLabels, Goto(c, label) \/ Return(c),
         label \in LabelsOf(op[c]), label # "store"
  PROVE  CmdOk(c)' /\ pc'[c] # "store"
<1>1. CASE Return(c)
  BY <1>1, ReturnOk
<1>2. CASE Goto(c, label)
  <2>1. Stored(sess[c], ch[c])'
    BY <1>2, KnownStays DEF Goto
  <2>2. pc[c] # "idle"
    BY DEF SessionLabels, KillLabels
  <2> QED
    BY <1>2, <2>1, <2>2, GotoOk
<1> QED
  BY <1>1, <1>2

LEMMA StopOk ==
  ASSUME TypeOK, WaiterInv, CmdInv, RecordInv, [Next]_vars, NEW c \in Cmds, StopStep(c)
  PROVE  CmdOk(c)' /\ pc'[c] # "store"
<1> USE OpOfLabel DEF At
<1>1. CASE StopCheck(c)
  <2>1. ReadRecord(c, "stop_check", TRUE, "stop_read")
    BY <1>1 DEF StopCheck
  <2>2. "stop_read" \in LabelsOf(op[c])
    BY <2>1, OpOfLabel DEF ReadRecord, LabelsOf, KillLabels
  <2> QED
    BY <2>1, <2>2, ReadRecordOk DEF Labels, SessionLabels, KillLabels
<1>2. CASE StopRead(c)
  <2>1. ReadRecord(c, "stop_read", TRUE, "kill_load")
    BY <1>2 DEF StopRead
  <2>2. "kill_load" \in LabelsOf(op[c])
    BY <2>1, OpOfLabel DEF ReadRecord, LabelsOf, KillLabels
  <2> QED
    BY <2>1, <2>2, ReadRecordOk DEF Labels, SessionLabels, KillLabels
<1>3. CASE StopDelete(c)
  BY <1>3, GoOnOk DEF StopDelete, SessionLabels, LabelsOf
<1>4. CASE StopHistory(c)
  BY <1>4, GoOnOk DEF StopHistory, SessionLabels, LabelsOf
<1>5. CASE StopReport(c)
  BY <1>5, ReturnOk DEF StopReport
<1> QED
  BY <1>1, <1>2, <1>3, <1>4, <1>5 DEF StopStep

LEMMA MessageOk ==
  ASSUME TypeOK, WaiterInv, CmdInv, RecordInv, [Next]_vars, NEW c \in Cmds, MessageStep(c)
  PROVE  CmdOk(c)' /\ pc'[c] # "store"
<1> USE OpOfLabel DEF At
<1>1. CASE MsgRead(c)
  <2>1. ReadRecord(c, "msg_read", TRUE, "msg_running")
    BY <1>1 DEF MsgRead
  <2>2. "msg_running" \in LabelsOf(op[c])
    BY <2>1, OpOfLabel DEF ReadRecord, LabelsOf, KillLabels
  <2> QED
    BY <2>1, <2>2, ReadRecordOk DEF Labels, SessionLabels, KillLabels
<1>2. CASE MsgRunning(c)
  BY <1>2, GoOnOk DEF MsgRunning, SessionLabels, LabelsOf
<1>3. CASE SendLoad(c)
  BY <1>3, GoOnOk DEF SendLoad, SessionLabels, LabelsOf
<1>4. CASE SendLock(c)
  BY <1>4, GoOnOk DEF SendLock, SessionLabels, LabelsOf
<1>5. CASE SendWrite(c)
  BY <1>5, GoOnOk DEF SendWrite, SessionLabels, LabelsOf
<1>6. CASE MsgStore(c)
  BY <1>6, GoOnOk DEF MsgStore, SessionLabels, LabelsOf
<1>7. CASE MsgTouch(c)
  <2>1. ReadRecord(c, "msg_touch", TRUE, "msg_save")
    BY <1>7 DEF MsgTouch
  <2>2. "msg_save" \in LabelsOf(op[c])
    BY <2>1, OpOfLabel DEF ReadRecord, LabelsOf, KillLabels
  <2> QED
    BY <2>1, <2>2, ReadRecordOk DEF Labels, SessionLabels, KillLabels
<1>8. CASE MsgSave(c)
  BY <1>8, ReturnOk DEF MsgSave
<1> QED
  BY <1>1, <1>2, <1>3, <1>4, <1>5, <1>6, <1>7, <1>8 DEF MessageStep

LEMMA KillOk ==
  ASSUME TypeOK, WaiterInv, CmdInv, RecordInv, [Next]_vars, NEW c \in Cmds, KillStep(c)
  PROVE  CmdOk(c)' /\ pc'[c] # "store"
<1>1. pc[c] \in KillLabels
  BY DEF KillStep, KillLoad, KillLock, KillTerm, KillDone, KillTimeout, At, KillLabels
<1>2. CASE AfterKill(c)
  <2>1. CASE op[c] = "stop"
    BY <1>1, <1>2, <2>1, GoOnOk, ConstantsAssumption DEF AfterKill, SessionLabels, LabelsOf
  <2>2. CASE op[c] # "stop"
    <3>1. op[c] = "start"
      BY <1>1, <2>2, OpOfLabel
    <3> QED
      BY <1>1, <1>2, <3>1, GoOnOk, ConstantsAssumption DEF AfterKill, SessionLabels, LabelsOf
  <2> QED
    BY <2>1, <2>2
<1>3. ASSUME NEW label \in KillLabels, Goto(c, label) PROVE CmdOk(c)' /\ pc'[c] # "store"
  <2>1. label \in LabelsOf(op[c]) /\ label # "store"
    BY <1>1, OpOfLabel DEF LabelsOf, KillLabels
  <2> QED
    BY <1>1, <1>3, <2>1, GoOnOk DEF SessionLabels
<1> QED
  BY <1>2, <1>3 DEF KillStep, KillLoad, KillLock, KillTerm, KillDone, KillTimeout, KillLabels

(* A goroutine is about to store a process it has just started, or was so  *)
(* before the step.                                                        *)
LEMMA StoreSource ==
  ASSUME TypeOK, WaiterInv, CmdInv, RecordInv, [Next]_vars, NEW d \in Cmds, pc'[d] = "store"
  PROVE  SpawnStart(d) \/ (pc[d] = "store" /\ sess'[d] = sess[d] /\ ch'[d] = ch[d])
<1> DEFINE Goal == SpawnStart(d) \/ (pc[d] = "store" /\ sess'[d] = sess[d] /\ ch'[d] = ch[d])
<1>1. ASSUME NEW c \in Cmds, ExecuteCommand(c) \/ CmdStep(c) \/ KillStep(c) PROVE Goal
  <2>1. CASE c = d
    BY <1>1, <2>1, BeginOk, StartOk, StopOk, MessageOk, KillOk DEF CmdStep
  <2>2. CASE c # d
    BY <1>1, <2>2, CommandFrame DEF Frame
  <2> QED
    BY <2>1, <2>2
<1>2. ASSUME NEW s \in Sessions, KillStep(s) PROVE Goal
  BY <1>2, KillerFrame, ConstantsAssumption DEF Agents
<1>3. CASE UNCHANGED cmdVars
  BY <1>3
<1>4. CASE Deactivate
  BY <1>4, ConstantsAssumption DEF Deactivate, TypeOK, Agents
<1>5. CASE Shutdown \/ Crash
  BY <1>5 DEF Shutdown, Crash, PluginEnds, Agents
<1>6. ASSUME NEW s \in Sessions, WaiterStep(s) \/ CliStep(s) PROVE Goal
  BY <1>6 DEF WaiterStep, WaitReturns, WaitForgets, ExitNotice, ExitCleanup, CliStep, CliExit,
     CliStall, CliResume
<1>7. CASE Activate
  BY <1>7 DEF Activate
<1> QED
  BY <1>1, <1>2, <1>3, <1>4, <1>5, <1>6, <1>7 DEF Next, Agents

(* Until it is stored, nobody else touches a process that was started. *)
LEMMA UnstoredStays ==
  ASSUME TypeOK, WaiterInv, CmdInv, [Next]_vars, NEW d \in Cmds,
         pc[d] = "store", pc'[d] = "store"
  PROVE  /\ chan'[sess[d]] = chan[sess[d]]
         /\ os'[sess[d]] # "none"
         /\ waiter'[sess[d]] = "none"
<1> DEFINE t == sess[d]
           Goal == chan'[t] = chan[t] /\ os'[t] # "none" /\ waiter'[t] = "none"
<1>0. t \in Sessions /\ os[t] # "none" /\ waiter[t] = "none"
  BY DEF CmdInv, SpawningOk
<1>1. CASE UNCHANGED <<chan, os, waiter>>
  BY <1>0, <1>1
<1>2. ASSUME NEW c \in Cmds, SpawnStart(c) PROVE Goal
  BY <1>0, <1>2 DEF SpawnStart, TypeOK
<1>3. ASSUME NEW c \in Cmds, SpawnStore(c) PROVE Goal
  <2>1. c # d
    BY <1>3 DEF SpawnStore, Goto, TypeOK, Agents
  <2>2. sess[c] # t
    BY <1>3, <2>1 DEF SpawnStore, At, CmdInv, SpawningOk
  <2> QED
    BY <1>0, <1>3, <2>2 DEF SpawnStore, TypeOK
<1>4. ASSUME NEW s \in Sessions, WaiterStep(s) PROVE Goal
  BY <1>0, <1>4 DEF WaiterStep, WaitReturns, WaitForgets, ExitNotice, ExitCleanup, TypeOK
<1>5. ASSUME NEW s \in Sessions, CliStep(s) PROVE Goal
  BY <1>0, <1>5 DEF CliStep, CliExit, CliStall, CliResume, TypeOK
<1>6. CASE Shutdown \/ Crash
  BY <1>6 DEF Shutdown, Crash, PluginEnds, Agents
<1>7. CASE Deactivate \/ Activate
  BY <1>0, <1>7 DEF Deactivate, Activate
<1> QED
  BY <1>1, <1>2, <1>3, <1>4, <1>5, <1>6, <1>7, QuietStep DEF Next, CmdStep, StartStep

LEMMA SpawningNext ==
  ASSUME TypeOK, WaiterInv, CmdInv, RecordInv, [Next]_vars, NEW d \in Cmds
  PROVE  SpawningOk(d)'
<1> SUFFICES ASSUME pc'[d] = "store" PROVE SpawningOk(d)'
  BY DEF SpawningOk
<1>1. CASE SpawnStart(d)
  <2>1. PICK s \in Sessions : /\ os[s] = "none"
                              /\ os' = [os EXCEPT ![s] = "running"]
                              /\ chan' = [chan EXCEPT ![s] = ch[d]]
                              /\ GotoWith(d, "store", s)
    BY <1>1 DEF SpawnStart, Return, TypeOK, Agents
  <2>2. sess'[d] = s /\ ch' = ch /\ waiter'[s] = "none"
    BY <1>1, <2>1 DEF SpawnStart, GotoWith, TypeOK, WaiterInv
  <2>3. ASSUME NEW e \in Cmds, pc'[e] = "store", sess'[e] = s, e # d PROVE FALSE
    <3>1. pc[e] = "store" /\ sess[e] = s
      BY <2>1, <2>3 DEF GotoWith, TypeOK, Agents
    <3> QED
      BY <2>1, <3>1 DEF CmdInv, SpawningOk
  <2> QED
    BY <2>1, <2>2, <2>3 DEF SpawningOk, TypeOK
<1>2. CASE pc[d] = "store" /\ sess'[d] = sess[d] /\ ch'[d] = ch[d]
  <2>1. ASSUME NEW e \in Cmds, pc'[e] = "store", sess'[e] = sess[d], e # d PROVE FALSE
    <3>1. CASE pc[e] = "store" /\ sess'[e] = sess[e]
      BY <1>2, <2>1, <3>1 DEF CmdInv, SpawningOk
    <3>2. CASE SpawnStart(e)
      <4>1. os[sess'[e]] = "none"
        BY <2>1, <3>2 DEF SpawnStart, GotoWith, Return, TypeOK, Agents
      <4> QED
        BY <1>2, <2>1, <4>1 DEF CmdInv, SpawningOk
    <3> QED
      BY <2>1, <3>1, <3>2, StoreSource
  <2> QED
    BY <1>2, <2>1, UnstoredStays DEF CmdInv, SpawningOk
<1> QED
  BY <1>1, <1>2, StoreSource

LEMMA CmdNext ==
  ASSUME TypeOK, WaiterInv, CmdInv, RecordInv, [Next]_vars PROVE CmdInv'
<1> SUFFICES ASSUME NEW d \in Cmds PROVE CmdOk(d)'
  BY SpawningNext DEF CmdInv
<1>1. ASSUME NEW c \in Cmds, ExecuteCommand(c) \/ CmdStep(c) \/ KillStep(c) PROVE CmdOk(d)'
  <2>1. CASE c = d
    BY <1>1, <2>1, BeginOk, StartOk, StopOk, MessageOk, KillOk DEF CmdStep
  <2>2. CASE c # d
    BY <1>1, <2>2, CommandFrame, OthersOk DEF Frame
  <2> QED
    BY <2>1, <2>2
<1>2. ASSUME NEW s \in Sessions, KillStep(s) PROVE CmdOk(d)'
  <2>1. pc'[d] = pc[d] /\ op' = op /\ ch' = ch /\ sess' = sess
    BY <1>2, KillerFrame, ConstantsAssumption DEF Agents
  <2> QED
    BY <2>1, OthersOk
<1>3. CASE UNCHANGED cmdVars
  BY <1>3, OthersOk
<1>4. CASE Deactivate
  <2>1. pc'[d] = pc[d] /\ op' = op /\ ch' = ch /\ sess' = sess
    BY <1>4, ConstantsAssumption DEF Deactivate, TypeOK, Agents
  <2> QED
    BY <2>1, OthersOk
<1>5. CASE Shutdown \/ Crash
  BY <1>5 DEF Shutdown, Crash, PluginEnds, Agents, CmdOk, LabelsOf, SessionLabels, KillLabels
<1>6. ASSUME NEW s \in Sessions, WaiterStep(s) \/ CliStep(s) PROVE UNCHANGED cmdVars
  BY <1>6 DEF WaiterStep, WaitReturns, WaitForgets, ExitNotice, ExitCleanup, CliStep, CliExit,
     CliStall, CliResume
<1>7. CASE Activate
  BY <1>3, <1>7 DEF Activate
<1> QED
  BY <1>1, <1>2, <1>3, <1>4, <1>5, <1>6, <1>7 DEF Next, Agents

-----------------------------------------------------------------------------
(* KillAllInv: the goroutines of KillAll. *)
LEMMA KillAllNext ==
  ASSUME TypeOK, WaiterInv, CmdInv, KillAllInv, [Next]_vars PROVE KillAllInv'
<1> SUFFICES ASSUME NEW t \in Sessions
             PROVE  /\ pc'[t] \in {"idle", "kill_lock", "kill_term", "kill_wait", "killed"}
                    /\ pc'[t] # "idle" => waiter'[t] # "none"
  BY DEF KillAllInv
<1> DEFINE Labelled == pc'[t] \in {"idle", "kill_lock", "kill_term", "kill_wait", "killed"}
           Known == pc'[t] # "idle" => waiter[t] # "none"
<1>1. CASE pc'[t] = pc[t]
  BY <1>1, StoredStays DEF KillAllInv
<1>2. ASSUME NEW c \in Cmds, ExecuteCommand(c) \/ CmdStep(c) \/ KillStep(c) PROVE pc'[t] = pc[t]
  BY <1>2, CommandFrame
<1>3. ASSUME NEW s \in Sessions, KillStep(s) PROVE Labelled /\ Known
  <2>1. CASE s = t
    <3>1. pc[t] # "idle"
      BY <1>3, <2>1 DEF KillStep, KillLoad, KillLock, KillTerm, KillDone, KillTimeout, At
    <3>2. Labelled
      BY <1>3, <2>1, ConstantsAssumption
      DEF KillStep, KillLoad, KillLock, KillTerm, KillDone, KillTimeout, AfterKill, Goto, At,
          TypeOK, Agents
    <3> QED
      BY <3>1, <3>2 DEF KillAllInv
  <2>2. CASE s # t
    BY <1>3, <2>2, KillerFrame DEF KillAllInv, Agents
  <2> QED
    BY <2>1, <2>2
<1>4. CASE Deactivate
  BY <1>4 DEF Deactivate, Agents, WaiterInv, KillAllInv
<1>5. CASE Shutdown \/ Crash
  BY <1>5 DEF Shutdown, Crash, PluginEnds, Agents
<1>6. ASSUME NEW s \in Sessions, WaiterStep(s) \/ CliStep(s) PROVE pc'[t] = pc[t]
  BY <1>6 DEF WaiterStep, WaitReturns, WaitForgets, ExitNotice, ExitCleanup, CliStep, CliExit,
     CliStall, CliResume
<1>7. CASE Activate \/ UNCHANGED vars
  BY <1>1, <1>7 DEF Activate
<1> QED
  BY <1>1, <1>2, <1>3, <1>4, <1>5, <1>6, <1>7, StoredStays DEF Next, Agents

-----------------------------------------------------------------------------
(* MutexInv: whoever is between Lock and Unlock holds the mutex. *)

(* A goroutine that a step neither moves nor retargets. *)
Unmoved(b) == pc'[b] = pc[b] /\ Target(b)' = Target(b)

LEMMA OthersUnmoved ==
  ASSUME TypeOK, NEW a \in Agents, NEW b \in Agents, a # b,
         (a \in Cmds /\ (ExecuteCommand(a) \/ CmdStep(a))) \/ KillStep(a)
  PROVE  Unmoved(b)
BY CommandFrame, KillerFrame, ConstantsAssumption DEF Unmoved, Target, Agents, Frame

(* Enough for MutexInv: nobody who does not move loses the mutex, and the  *)
(* goroutine that moves, if any, holds it when it is in its critical       *)
(* section.                                                                *)
LEMMA CriticalTarget ==
  ASSUME TypeOK, CmdInv, NEW a \in Agents, InCritical(a)
  PROVE  Target(a) \in Sessions
BY SessionKnown DEF InCritical, Target, Agents, SessionLabels, KillLabels

LEMMA MutexKept ==
  ASSUME TypeOK, CmdInv, MutexInv, mu' = mu, NEW b \in Agents, Unmoved(b), InCritical(b)'
  PROVE  mu'[Target(b)'] = b
BY DEF MutexInv, Unmoved, InCritical

LEMMA MutexTaken ==
  ASSUME TypeOK, CmdInv, MutexInv, NEW a \in Agents, NEW t \in Sessions,
         mu[t] = NoAgent, mu' = [mu EXCEPT ![t] = a],
         NEW b \in Agents, Unmoved(b), InCritical(b)'
  PROVE  mu'[Target(b)'] = b
BY CriticalTarget, ConstantsAssumption DEF MutexInv, Unmoved, InCritical, TypeOK

LEMMA MutexReleased ==
  ASSUME TypeOK, CmdInv, MutexInv, NEW a \in Agents, InCritical(a),
         mu' = [mu EXCEPT ![Target(a)] = NoAgent],
         NEW b \in Agents, b # a, Unmoved(b), InCritical(b)'
  PROVE  mu'[Target(b)'] = b
BY CriticalTarget DEF MutexInv, Unmoved, InCritical, TypeOK

LEMMA AfterKillLeaves ==
  ASSUME TypeOK, NEW a \in Agents, AfterKill(a)
  PROVE  ~InCritical(a)'
BY DEF AfterKill, Goto, Return, InCritical, TypeOK

(* The steps that leave every mutex alone and enter no critical section. *)
LEMMA NoCriticalStep ==
  ASSUME TypeOK, NEW c \in Cmds,
         \/ ExecuteCommand(c) \/ StartStep(c) \/ StopStep(c)
         \/ MsgRead(c) \/ MsgRunning(c) \/ SendLoad(c) \/ MsgStore(c) \/ MsgTouch(c) \/ MsgSave(c)
  PROVE  mu' = mu /\ ~InCritical(c)'
<1> USE DEF InCritical, TypeOK, Agents, Goto, GotoWith, Return
<1>1. CASE ExecuteCommand(c)
  BY <1>1 DEF ExecuteCommand, Begin
<1>2. CASE StartStep(c)
  BY <1>2 DEF StartStep, StartCheck, CreateCheck, SpawnStart, SpawnStore, SaveSession, StartFails,
     ReadRecord
<1>3. CASE StopStep(c)
  BY <1>3 DEF StopStep, StopCheck, StopRead, StopDelete, StopHistory, StopReport, ReadRecord
<1>4. CASE MsgRead(c) \/ MsgRunning(c) \/ SendLoad(c) \/ MsgStore(c) \/ MsgTouch(c) \/ MsgSave(c)
  BY <1>4 DEF MsgRead, MsgRunning, SendLoad, MsgStore, MsgTouch, MsgSave, ReadRecord
<1> QED
  BY <1>1, <1>2, <1>3, <1>4

LEMMA SendMutex ==
  ASSUME TypeOK, CmdInv, MutexInv, NEW c \in Cmds, SendLock(c) \/ SendWrite(c)
  PROVE  MutexInv'
<1>1. c \in Agents /\ Target(c) = sess[c]
  BY ConstantsAssumption DEF Agents, Target
<1>2. \A b \in Agents \ {c} : Unmoved(b)
  BY <1>1, OthersUnmoved DEF CmdStep, MessageStep
<1>3. CASE SendLock(c)
  <2>1. sess[c] \in Sessions
    BY <1>3, SessionKnown DEF SendLock, At, SessionLabels
  <2>2. CASE Return(c) /\ mu' = mu
    BY <1>1, <1>2, <2>2, MutexKept DEF MutexInv, Return, InCritical, TypeOK
  <2>3. CASE Goto(c, "send_write") /\ mu' = [mu EXCEPT ![sess[c]] = c]
    <3>1. mu'[Target(c)'] = c
      BY <1>1, <2>1, <2>3, ConstantsAssumption DEF Goto, Target, TypeOK
    <3> QED
      BY <1>1, <1>2, <1>3, <2>1, <2>3, <3>1, MutexTaken DEF MutexInv, SendLock
  <2> QED
    BY <1>3, <2>2, <2>3 DEF SendLock
<1>4. CASE SendWrite(c)
  <2>1. InCritical(c) /\ ~InCritical(c)'
    BY <1>1, <1>4 DEF SendWrite, At, InCritical, Goto, Return, TypeOK
  <2>2. mu' = [mu EXCEPT ![Target(c)] = NoAgent]
    BY <1>1, <1>4 DEF SendWrite
  <2> QED
    BY <1>1, <1>2, <2>1, <2>2, MutexReleased DEF MutexInv
<1> QED
  BY <1>3, <1>4

LEMMA KillMutex ==
  ASSUME TypeOK, CmdInv, KillAllInv, MutexInv, NEW a \in Agents, KillStep(a)
  PROVE  MutexInv'
<1>1. \A b \in Agents \ {a} : Unmoved(b)
  BY OthersUnmoved
<1>2. Target(a) \in Sessions
  BY TargetIsSession DEF KillStep, KillLoad, KillLock, KillTerm, KillDone, KillTimeout, At, KillLabels
<1>3. CASE mu' = mu /\ ~InCritical(a)'
  BY <1>1, <1>3, MutexKept DEF MutexInv
<1>4. CASE KillLoad(a)
  BY <1>3, <1>4, AfterKillLeaves DEF KillLoad, Goto, InCritical, TypeOK
<1>5. CASE KillLock(a)
  <2>1. CASE Goto(a, "kill_term") /\ mu' = [mu EXCEPT ![Target(a)] = a]
    <3>1. mu'[Target(a)'] = a
      BY <1>2, <2>1 DEF Goto, Target, TypeOK
    <3> QED
      BY <1>1, <1>2, <1>5, <2>1, <3>1, MutexTaken DEF MutexInv, KillLock
  <2> QED
    BY <1>3, <1>5, <2>1, AfterKillLeaves DEF KillLock
<1>6. CASE KillTerm(a)
  <2>1. mu'[Target(a)'] = a
    BY <1>6 DEF KillTerm, At, Goto, Target, MutexInv, InCritical
  <2> QED
    BY <1>1, <1>6, <2>1, MutexKept DEF MutexInv, KillTerm
<1>7. CASE KillDone(a) \/ KillTimeout(a)
  <2>1. InCritical(a) /\ ~InCritical(a)'
    BY <1>7, AfterKillLeaves DEF KillDone, KillTimeout, At, InCritical
  <2>2. mu' = [mu EXCEPT ![Target(a)] = NoAgent]
    BY <1>7 DEF KillDone, KillTimeout, Unlock
  <2> QED
    BY <1>1, <2>1, <2>2, MutexReleased DEF MutexInv
<1> QED
  BY <1>4, <1>5, <1>6, <1>7 DEF KillStep

LEMMA MutexNext ==
  ASSUME TypeOK, CmdInv, KillAllInv, MutexInv, [Next]_vars PROVE MutexInv'
<1>1. ASSUME NEW c \in Cmds, ExecuteCommand(c) \/ CmdStep(c) PROVE MutexInv'
  <2>1. CASE SendLock(c) \/ SendWrite(c)
    BY <2>1, SendMutex
  <2>2. CASE mu' = mu /\ ~InCritical(c)'
    BY <1>1, <2>2, OthersUnmoved, MutexKept DEF MutexInv, Agents
  <2> QED
    BY <1>1, <2>1, <2>2, NoCriticalStep DEF CmdStep, MessageStep
<1>2. ASSUME NEW a \in Agents, KillStep(a) PROVE MutexInv'
  BY <1>2, KillMutex
<1>3. CASE UNCHANGED <<mu, cmdVars>>
  BY <1>3 DEF MutexInv, InCritical, Target
<1>4. CASE Deactivate
  <2>1. mu' = mu /\ sess' = sess /\ \A a \in Agents : InCritical(a)' => InCritical(a)
    BY <1>4 DEF Deactivate, InCritical
  <2> QED
    BY <2>1 DEF MutexInv, Target
<1>5. CASE Shutdown \/ Crash
  BY <1>5 DEF Shutdown, Crash, PluginEnds, MutexInv, InCritical
<1>6. ASSUME NEW s \in Sessions, WaiterStep(s) \/ CliStep(s) PROVE UNCHANGED <<mu, cmdVars>>
  BY <1>6 DEF WaiterStep, WaitReturns, WaitForgets, ExitNotice, ExitCleanup, CliStep, CliExit,
     CliStall, CliResume
<1>7. CASE Activate
  BY <1>3, <1>7 DEF Activate
<1> QED
  BY <1>1, <1>2, <1>3, <1>4, <1>5, <1>6, <1>7 DEF Next

-----------------------------------------------------------------------------
(* KillIsEffective. *)

LEMMA DoomedStays ==
  ASSUME TypeOK, WaiterInv, CmdInv, [Next]_vars, NEW s \in Sessions, Doomed(s)
  PROVE  Doomed(s)'
<1> USE DEF Doomed, TypeOK
<1>1. ASSUME NEW c \in Cmds, SpawnStart(c) PROVE Doomed(s)'
  BY <1>1 DEF SpawnStart
<1>2. ASSUME NEW c \in Cmds, SpawnStore(c) PROVE Doomed(s)'
  BY <1>2 DEF SpawnStore, CmdInv, SpawningOk, At
<1>3. ASSUME NEW c \in Cmds, StartCheck(c) \/ CreateCheck(c) \/ SaveSession(c) \/ StartFails(c)
      PROVE  Doomed(s)'
  BY <1>3 DEF StartCheck, CreateCheck, SaveSession, StartFails, ReadRecord
<1>4. ASSUME NEW c \in Cmds, ExecuteCommand(c) PROVE Doomed(s)'
  BY <1>4 DEF ExecuteCommand, Begin
<1>5. ASSUME NEW c \in Cmds, StopStep(c) PROVE Doomed(s)'
  BY <1>5 DEF StopStep, StopCheck, StopRead, StopDelete, StopHistory, StopReport, ReadRecord
<1>6. ASSUME NEW c \in Cmds, MessageStep(c) PROVE Doomed(s)'
  BY <1>6 DEF MessageStep, MsgRead, MsgRunning, SendLoad, SendLock, SendWrite, MsgStore, MsgTouch,
     MsgSave, ReadRecord
<1>7. ASSUME NEW a \in Agents, KillStep(a) PROVE Doomed(s)'
  BY <1>7 DEF KillStep, KillLoad, KillLock, KillTerm, KillDone, KillTimeout, Signal
<1>8. ASSUME NEW t \in Sessions, WaiterStep(t) \/ CliStep(t) PROVE Doomed(s)'
  BY <1>8 DEF WaiterStep, WaitReturns, WaitForgets, ExitNotice, ExitCleanup, CliStep, CliExit,
     CliStall, CliResume
<1>9. CASE Shutdown \/ Crash
  BY <1>9 DEF Shutdown, Crash, PluginEnds, WaiterInv
<1>10. CASE Deactivate \/ Activate \/ UNCHANGED vars
  BY <1>10 DEF Deactivate, Activate
<1> QED
  BY <1>1, <1>2, <1>3, <1>4, <1>5, <1>6, <1>7, <1>8, <1>9, <1>10 DEF Next, CmdStep, StartStep

LEMMA AfterKillTarget ==
  ASSUME TypeOK, CmdInv, NEW a \in Agents, pc[a] \in AfterKillLabels \cup KillLabels
  PROVE  Target(a) \in Sessions
<1>1. CASE a \in Sessions
  BY <1>1 DEF Target
<1>2. CASE a \in Cmds
  <2>1. pc[a] # "killed"
    BY <1>2 DEF CmdInv, CmdOk, LabelsOf, KillLabels, TypeOK, OpNames
  <2> QED
    BY <1>2, <2>1, SessionKnown DEF Target, AfterKillLabels, SessionLabels
<1> QED
  BY <1>1, <1>2 DEF Agents

(* Whoever leaves Kill leaves its process ended or killed: the entry of a  *)
(* process is missing from the table, and its done channel closed, only    *)
(* after its end.                                                          *)
LEMMA KillDooms ==
  ASSUME TypeOK, WaiterInv, CmdInv, KillAllInv, NEW a \in Agents, KillStep(a),
         pc'[a] \in AfterKillLabels
  PROVE  Doomed(Target(a))'
<1>1. pc[a] \in KillLabels
  BY DEF KillStep, KillLoad, KillLock, KillTerm, KillDone, KillTimeout, At, KillLabels
<1>2. Target(a) \in Sessions /\ waiter[Target(a)] # "none"
  <2>1. CASE a \in Sessions
    BY <1>1, <2>1 DEF Target, KillAllInv, KillLabels
  <2>2. CASE a \in Cmds
    BY <1>1, <2>2, ConstantsAssumption DEF Target, CmdInv, CmdOk, Stored, SessionLabels
  <2> QED
    BY <2>1, <2>2 DEF Agents
<1>3. Target(a)' = Target(a)
  BY DEF KillStep, KillLoad, KillLock, KillTerm, KillDone, KillTimeout, AfterKill, Goto, Return,
     AfterKillLabels, Target, TypeOK
<1>4. os[Target(a)] # "none"
  BY <1>2 DEF WaiterInv
<1>5. CASE KillLoad(a)
  BY <1>2, <1>3, <1>5 DEF KillLoad, Goto, AfterKillLabels, WaiterInv, WaiterStates, Doomed, TypeOK
<1>6. CASE KillLock(a)
  BY <1>2, <1>3, <1>6 DEF KillLock, Goto, AfterKillLabels, WaiterInv, Doomed, TypeOK
<1>7. CASE KillTerm(a)
  BY <1>7 DEF KillTerm, Goto, AfterKillLabels, TypeOK
<1>8. CASE KillDone(a)
  BY <1>2, <1>3, <1>8 DEF KillDone, WaiterInv, Doomed
<1>9. CASE KillTimeout(a)
  BY <1>2, <1>3, <1>4, <1>9 DEF KillTimeout, Signal, Doomed, TypeOK
<1> QED
  BY <1>5, <1>6, <1>7, <1>8, <1>9 DEF KillStep

LEMMA KillNext ==
  ASSUME IndInv, [Next]_vars PROVE KillIsEffective'
<1> USE DEF IndInv
<1> SUFFICES ASSUME NEW a \in Agents, pc'[a] \in AfterKillLabels
             PROVE  Doomed(Target(a))'
  BY DEF KillIsEffective
<1>1. CASE Unmoved(a)
  BY <1>1, AfterKillTarget, DoomedStays DEF Unmoved, KillIsEffective, Doomed
<1>2. CASE KillStep(a)
  BY <1>2, KillDooms
<1>3. CASE a \in Cmds /\ (StopDelete(a) \/ StopHistory(a))
  <2>1. pc[a] \in AfterKillLabels /\ sess' = sess
    BY <1>3 DEF StopDelete, StopHistory, At, Goto, Return, AfterKillLabels, TypeOK
  <2> QED
    BY <2>1, AfterKillTarget, DoomedStays DEF Target, KillIsEffective, Doomed
<1>4. CASE a \in Cmds /\ (\/ ExecuteCommand(a) \/ StartStep(a) \/ MessageStep(a)
                         \/ StopCheck(a) \/ StopRead(a) \/ StopReport(a))
  <2>1. ~ ExecuteCommand(a)
    BY DEF ExecuteCommand, Begin, AfterKillLabels, TypeOK
  <2>2. ~ StartStep(a)
    BY DEF StartStep, StartCheck, CreateCheck, SpawnStart, SpawnStore, SaveSession, StartFails,
       ReadRecord, Goto, GotoWith, Return, AfterKillLabels, TypeOK
  <2>3. ~ MessageStep(a)
    BY DEF MessageStep, MsgRead, MsgRunning, SendLoad, SendLock, SendWrite, MsgStore, MsgTouch,
       MsgSave, ReadRecord, Goto, GotoWith, Return, AfterKillLabels, TypeOK
  <2>4. ~ (StopCheck(a) \/ StopRead(a) \/ StopReport(a))
    BY DEF StopCheck, StopRead, StopReport, ReadRecord, GotoWith, Return, AfterKillLabels, TypeOK
  <2> QED
    BY <1>4, <2>1, <2>2, <2>3, <2>4
<1>5. ASSUME NEW b \in Agents, b # a,
             (b \in Cmds /\ (ExecuteCommand(b) \/ CmdStep(b))) \/ KillStep(b)
      PROVE  Unmoved(a)
  BY <1>5, OthersUnmoved
<1>6. CASE UNCHANGED cmdVars
  BY <1>1, <1>6 DEF Unmoved, Target
<1>7. ASSUME NEW s \in Sessions, WaiterStep(s) \/ CliStep(s) PROVE UNCHANGED cmdVars
  BY <1>7 DEF WaiterStep, WaitReturns, WaitForgets, ExitNotice, ExitCleanup, CliStep, CliExit,
     CliStall, CliResume
<1>8. CASE Deactivate
  BY <1>1, <1>8 DEF Deactivate, AfterKillLabels, Unmoved, Target
<1>9. CASE Shutdown \/ Crash
  BY <1>9 DEF Shutdown, Crash, PluginEnds, AfterKillLabels
<1>10. CASE Activate
  BY <1>6, <1>10 DEF Activate
<1> QED
  BY <1>1, <1>2, <1>3, <1>4, <1>5, <1>6, <1>7, <1>8, <1>9, <1>10 DEF Next, CmdStep, StopStep, Agents

-----------------------------------------------------------------------------
(* The conjunction of these invariants is inductive. *)
THEOREM Inductive == Spec => []IndInv
<1>1. Init => IndInv
  <2> SUFFICES ASSUME Init PROVE IndInv
    OBVIOUS
  <2>1. TypeOK
    BY TypeInit
  <2>2. WaiterInv /\ RecordInv /\ KillAllInv
    BY DEF Init, WaiterInv, RecordInv, KillAllInv, Agents
  <2>3. CmdInv
    BY DEF Init, CmdInv, CmdOk, SpawningOk, LabelsOf, SessionLabels, KillLabels, Agents
  <2>4. MutexInv /\ KillIsEffective
    BY DEF Init, MutexInv, InCritical, KillIsEffective, AfterKillLabels
  <2> QED
    BY <2>1, <2>2, <2>3, <2>4 DEF IndInv
<1>2. IndInv /\ [Next]_vars => IndInv'
  BY TypeNext, WaiterNext, RecordNext, CmdNext, KillAllNext, MutexNext, KillNext DEF IndInv
<1> QED
  BY <1>1, <1>2, PTL DEF Spec

(* Every variable keeps its type: in particular a goroutine never indexes  *)
(* the process table, a mutex or a signal with something that is not a     *)
(* session id.                                                             *)
THEOREM TypeCorrect == Spec => []TypeOK
<1>1. IndInv => TypeOK
  BY DEF IndInv
<1> QED
  BY <1>1, Inductive, PTL

(* The record of a channel names a session of this channel whose process   *)
(* Kill can reach, or that has ended, or that an earlier life of the       *)
(* plugin left behind.                                                     *)
THEOREM RecordReaches == Spec => []RecordReachesProcess
<1>1. IndInv => RecordReachesProcess
  BY DEF IndInv, TypeOK, RecordReachesProcess, RecordInv, Stored, WaiterInv, WaiterStates
<1> QED
  BY <1>1, Inductive, PTL

(* When killProcess returns, its process has ended or was sent SIGKILL,    *)
(* whatever ran at the same time.                                          *)
THEOREM KillEffective == Spec => []KillIsEffective
<1>1. IndInv => KillIsEffective
  BY DEF IndInv
<1> QED
  BY <1>1, Inductive, PTL

(* SendInput and killProcess, or two of them, never overlap on a process. *)
THEOREM MutualExclusion == Spec => []NoWriteIntoKill
<1>1. IndInv => NoWriteIntoKill
  BY DEF IndInv, MutexInv, NoWriteIntoKill
<1> QED
  BY <1>1, Inductive, PTL

-----------------------------------------------------------------------------
(* The signals come in order and from the right hands.                     *)

KillingLabels == {"kill_lock", "kill_term", "kill_wait"}

(* killProcess works on a process that this plugin has in its sight, and   *)
(* KillAll's goroutines are there only while the plugin stops.             *)
KillerInv ==
  /\ \A a \in Agents : pc[a] \in KillingLabels => waiter[Target(a)] \notin {"none", "lost"}
  /\ \A s \in Sessions : pc[s] # "idle" => up = "deactivating"

(* killProcess waits for a process that has got its own SIGTERM, as the    *)
(* last signal, ...                                                        *)
AskedInv == \A a \in Agents : pc[a] = "kill_wait" => os[Target(a)] = "exited" \/ asker[Target(a)] = a

(* ... and whoever asked a process to end is still waiting for it, unless  *)
(* the plugin has stopped.                                                 *)
AskerInv ==
  \A s \in Sessions :
    asker[s] # NoAgent =>
      /\ os[s] = "running"
      /\ waiter[s] = "lost" \/ (pc[asker[s]] = "kill_wait" /\ Target(asker[s]) = s)

SignalInv == KillerInv /\ AskedInv /\ AskerInv

(* Only killProcess sends signals, only a new session starts, and a        *)
(* process that ended stays so.                                            *)
LEMMA SignalSteps ==
  ASSUME TypeOK, [Next]_vars
  PROVE  /\ \/ UNCHANGED <<sig, asker>>
            \/ \E a \in Agents : KillTerm(a) \/ KillTimeout(a)
            \/ \E s \in Sessions : CliExit(s)
         /\ \A s \in Sessions : os[s] = "exited" => os'[s] = "exited"
         /\ \A s \in Sessions : os[s] = "running" => os'[s] = "running" \/ CliExit(s)
<1> DEFINE Goal == /\ \/ UNCHANGED <<sig, asker>>
                      \/ \E a \in Agents : KillTerm(a) \/ KillTimeout(a)
                      \/ \E s \in Sessions : CliExit(s)
                   /\ \A s \in Sessions : os[s] = "exited" => os'[s] = "exited"
                   /\ \A s \in Sessions : os[s] = "running" => os'[s] = "running" \/ CliExit(s)
<1>1. ASSUME NEW c \in Cmds, ExecuteCommand(c) \/ StopStep(c) PROVE Goal
  BY <1>1 DEF ExecuteCommand, Begin, StopStep, StopCheck, StopRead, StopDelete, StopHistory,
     StopReport, ReadRecord
<1>2. ASSUME NEW c \in Cmds, StartStep(c) PROVE Goal
  BY <1>2 DEF StartStep, StartCheck, CreateCheck, SpawnStart, SpawnStore, SaveSession,
     StartFails, ReadRecord, TypeOK
<1>3. ASSUME NEW c \in Cmds, MessageStep(c) PROVE Goal
  BY <1>3 DEF MessageStep, MsgRead, MsgRunning, SendLoad, SendLock, SendWrite, MsgStore,
     MsgTouch, MsgSave, ReadRecord
<1>4. ASSUME NEW a \in Agents, KillStep(a) PROVE Goal
  BY <1>4 DEF KillStep, KillLoad, KillLock, KillTerm, KillDone, KillTimeout
<1>5. ASSUME NEW s \in Sessions, WaiterStep(s) \/ CliStep(s) PROVE Goal
  <2>1. CASE CliExit(s)
    BY <2>1 DEF CliExit, TypeOK
  <2>2. CASE WaiterStep(s) \/ CliStall(s) \/ CliResume(s)
    BY <2>2 DEF WaiterStep, WaitReturns, WaitForgets, ExitNotice, ExitCleanup, CliStall, CliResume
  <2> QED BY <1>5, <2>1, <2>2 DEF CliStep
<1>6. CASE Deactivate \/ Shutdown \/ Crash \/ Activate \/ UNCHANGED vars
  BY <1>6 DEF Deactivate, Shutdown, Crash, PluginEnds, Activate
<1> QED
  BY <1>1, <1>2, <1>3, <1>4, <1>5, <1>6 DEF Next, CmdStep

(* The waiter of a process moves on, but for the end of the plugin. *)
LEMMA WaiterMoves ==
  ASSUME TypeOK, WaiterInv, CmdInv, [Next]_vars, NEW s \in Sessions
  PROVE  /\ waiter[s] = "lost" => waiter'[s] = "lost"
         /\ waiter[s] \notin {"none", "lost"} => waiter'[s] \notin {"none", "lost"} \/ PluginEnds
<1> DEFINE Goal == /\ waiter[s] = "lost" => waiter'[s] = "lost"
                   /\ waiter[s] \notin {"none", "lost"} => waiter'[s] \notin {"none", "lost"}
<1>1. CASE UNCHANGED waiter
  BY <1>1
<1>2. ASSUME NEW c \in Cmds, SpawnStart(c) \/ SpawnStore(c) PROVE Goal
  BY <1>2 DEF SpawnStart, SpawnStore, TypeOK, At, CmdInv, SpawningOk
<1>3. ASSUME NEW t \in Sessions, WaiterStep(t) \/ CliStep(t) PROVE Goal
  BY <1>3 DEF WaiterStep, WaitReturns, WaitForgets, ExitNotice, ExitCleanup, CliStep, CliExit,
     CliStall, CliResume, TypeOK
<1>4. CASE PluginEnds
  <2>1. waiter[s] = "lost" => os[s] # "none"
    BY DEF WaiterInv
  <2> QED BY <1>4, <2>1 DEF PluginEnds
<1>5. CASE Deactivate \/ Activate
  BY <1>5 DEF Deactivate, Activate
<1> QED
  BY <1>1, <1>2, <1>3, <1>4, <1>5, QuietStep DEF Next, CmdStep, StartStep, Shutdown, Crash

(* The target of a kill is a process that was started. *)
LEMMA TargetStarted ==
  ASSUME IndInv, NEW a \in Agents, pc[a] \in KillLabels
  PROVE  Target(a) \in Sessions /\ os[Target(a)] \in {"running", "exited"}
<1>1. Target(a) \in Sessions
  BY TargetIsSession DEF IndInv
<1>2. waiter[Target(a)] # "none"
  <2>1. CASE a \in Sessions
    BY <2>1 DEF Target, IndInv, KillAllInv, KillLabels
  <2>2. CASE a \in Cmds
    BY <2>2, ConstantsAssumption DEF Target, IndInv, CmdInv, CmdOk, Stored, SessionLabels
  <2> QED BY <2>1, <2>2 DEF Agents
<1> QED BY <1>1, <1>2 DEF IndInv, WaiterInv, TypeOK

(* A goroutine gets into killProcess by its own steps, or is started there *)
(* by KillAll, ...                                                         *)
LEMMA GetsToKill ==
  ASSUME IndInv, [Next]_vars, NEW a \in Agents, pc'[a] \in KillingLabels
  PROVE  /\ ~PluginEnds
         /\ Unmoved(a) \/ KillStep(a) \/ (Deactivate /\ a \in procs)
<1> USE DEF IndInv, KillingLabels
<1>1. ASSUME NEW b \in Agents, b # a,
             (b \in Cmds /\ (ExecuteCommand(b) \/ CmdStep(b))) \/ KillStep(b)
      PROVE  Unmoved(a)
  BY <1>1, OthersUnmoved
<1>2. a \in Cmds => ~(ExecuteCommand(a) \/ CmdStep(a))
  <2>1. SUFFICES ASSUME a \in Cmds PROVE ~ExecuteCommand(a) /\ ~CmdStep(a)
    OBVIOUS
  <2>2. ~ExecuteCommand(a)
    BY <2>1 DEF ExecuteCommand, Begin, TypeOK
  <2>3. ~StartStep(a)
    BY <2>1 DEF StartStep, StartCheck, CreateCheck, SpawnStart, SpawnStore, SaveSession,
       StartFails, ReadRecord, Goto, GotoWith, Return, TypeOK
  <2>4. ~StopStep(a)
    BY <2>1 DEF StopStep, StopCheck, StopRead, StopDelete, StopHistory, StopReport, ReadRecord,
       Goto, GotoWith, Return, TypeOK
  <2>5. ~MessageStep(a)
    BY <2>1 DEF MessageStep, MsgRead, MsgRunning, SendLoad, SendLock, SendWrite, MsgStore,
       MsgTouch, MsgSave, ReadRecord, Goto, GotoWith, Return, TypeOK
  <2> QED BY <2>2, <2>3, <2>4, <2>5 DEF CmdStep
<1>3. ASSUME NEW s \in Sessions, WaiterStep(s) \/ CliStep(s) PROVE UNCHANGED cmdVars
  BY <1>3 DEF WaiterStep, WaitReturns, WaitForgets, ExitNotice, ExitCleanup, CliStep, CliExit,
     CliStall, CliResume
<1>4. CASE Deactivate
  BY <1>4 DEF Deactivate, Unmoved, Target, PluginEnds
<1>5. ~PluginEnds
  BY DEF PluginEnds
<1>6. CASE UNCHANGED cmdVars \/ Activate
  BY <1>5, <1>6 DEF Activate, Unmoved, Target
<1> QED BY <1>1, <1>2, <1>3, <1>4, <1>5, <1>6 DEF Next, Agents, Shutdown, Crash

(* ... to the wait past its SIGTERM only, ... *)
LEMMA WaitsAfterTerm ==
  ASSUME IndInv, [Next]_vars, NEW a \in Agents, pc'[a] = "kill_wait"
  PROVE  Unmoved(a) \/ KillTerm(a)
<1>1. KillStep(a) => KillTerm(a)
  BY DEF KillStep, KillLoad, KillLock, KillDone, KillTimeout, AfterKill, Goto, Return, IndInv,
     TypeOK
<1>2. ~(Deactivate /\ a \in procs)
  BY DEF Deactivate
<1> QED BY <1>1, <1>2, GetsToKill DEF KillingLabels

(* ... and leaves it with the process, with SIGKILL or with the plugin. *)
LEMMA LeavesWait ==
  ASSUME IndInv, KillerInv, [Next]_vars, NEW a \in Agents, pc[a] = "kill_wait"
  PROVE  Unmoved(a) \/ KillDone(a) \/ KillTimeout(a) \/ PluginEnds
<1> USE DEF IndInv
<1>1. ASSUME NEW b \in Agents, b # a,
             (b \in Cmds /\ (ExecuteCommand(b) \/ CmdStep(b))) \/ KillStep(b)
      PROVE  Unmoved(a)
  BY <1>1, OthersUnmoved
<1>2. CASE KillStep(a)
  BY <1>2 DEF KillStep, KillLoad, KillLock, KillTerm, At
<1>3. a \in Cmds => ~(ExecuteCommand(a) \/ CmdStep(a))
  BY DEF ExecuteCommand, Begin, CmdStep, StartStep, StartCheck, CreateCheck, SpawnStart, SpawnStore,
     SaveSession, StartFails, StopStep, StopCheck, StopRead, StopDelete, StopHistory, StopReport,
     MessageStep, MsgRead, MsgRunning, SendLoad, SendLock, SendWrite, MsgStore, MsgTouch, MsgSave,
     ReadRecord, At
<1>4. ASSUME NEW s \in Sessions, WaiterStep(s) \/ CliStep(s) PROVE UNCHANGED cmdVars
  BY <1>4 DEF WaiterStep, WaitReturns, WaitForgets, ExitNotice, ExitCleanup, CliStep, CliExit,
     CliStall, CliResume
<1>5. CASE Deactivate
  <2>1. a \notin procs
    BY <1>5 DEF Deactivate, KillerInv, TypeOK
  <2> QED BY <1>5, <2>1 DEF Deactivate, Unmoved, Target
<1>6. CASE UNCHANGED cmdVars \/ Activate
  BY <1>6 DEF Activate, Unmoved, Target
<1> QED BY <1>1, <1>2, <1>3, <1>4, <1>5, <1>6 DEF Next, Agents, Shutdown, Crash

LEMMA KillerNext == ASSUME IndInv, KillerInv, [Next]_vars PROVE KillerInv'
<1>1. ASSUME NEW a \in Agents, pc'[a] \in KillingLabels
      PROVE  waiter'[Target(a)'] \notin {"none", "lost"}
  <2>1. ~PluginEnds
    BY <1>1, GetsToKill
  <2>2. CASE Unmoved(a)
    <3>1. pc[a] \in KillLabels /\ waiter[Target(a)] \notin {"none", "lost"}
      BY <1>1, <2>2 DEF Unmoved, KillerInv, KillingLabels, KillLabels
    <3> QED BY <2>1, <2>2, <3>1, TargetStarted, WaiterMoves DEF Unmoved, IndInv
  <2>3. CASE KillStep(a)
    <3>1. waiter' = waiter /\ pc[a] \in KillLabels
      BY <2>3 DEF KillStep, KillLoad, KillLock, KillTerm, KillDone, KillTimeout, At, KillLabels
    <3>2. Target(a)' = Target(a)
      BY <1>1, <2>3 DEF KillStep, KillLoad, KillLock, KillTerm, KillDone, KillTimeout, AfterKill,
         Goto, Return, Target, IndInv, TypeOK, KillingLabels
    <3>3. pc[a] = "kill_load" => Target(a) \in procs
      BY <1>1, <2>3 DEF KillStep, KillLoad, KillLock, KillTerm, KillDone, KillTimeout, AfterKill,
         At, Goto, Return, IndInv, TypeOK, KillingLabels
    <3> QED BY <3>1, <3>2, <3>3, TargetStarted DEF KillerInv, KillLabels, KillingLabels, IndInv, WaiterInv
  <2>4. CASE Deactivate /\ a \in procs
    BY <2>4 DEF Deactivate, Target, IndInv, WaiterInv, TypeOK
  <2> QED BY <1>1, <2>2, <2>3, <2>4, GetsToKill
<1>2. ASSUME NEW s \in Sessions, pc'[s] # "idle" PROVE up' = "deactivating"
  <2> USE DEF IndInv, KillerInv
  <2>1. ASSUME NEW c \in Cmds, ExecuteCommand(c) \/ CmdStep(c) PROVE pc'[s] = pc[s] /\ up' = up
    <3>1. pc'[s] = pc[s]
      BY <2>1, CommandFrame
    <3>2. up' = up
      BY <2>1 DEF ExecuteCommand, Begin, CmdStep, StartStep, StartCheck, CreateCheck, SpawnStart,
         SpawnStore, SaveSession, StartFails, StopStep, StopCheck, StopRead, StopDelete,
         StopHistory, StopReport, MessageStep, MsgRead, MsgRunning, SendLoad, SendLock, SendWrite,
         MsgStore, MsgTouch, MsgSave, ReadRecord
    <3> QED BY <3>1, <3>2
  <2>2. ASSUME NEW a \in Agents, KillStep(a) PROVE up' = up /\ (pc'[s] # "idle" => pc[s] # "idle")
    <3>1. up' = up /\ pc[a] # "idle"
      BY <2>2 DEF KillStep, KillLoad, KillLock, KillTerm, KillDone, KillTimeout, At
    <3>2. a # s => pc'[s] = pc[s]
      BY <2>2, OthersUnmoved, ConstantsAssumption DEF Unmoved, Agents
    <3> QED BY <3>1, <3>2
  <2>3. ASSUME NEW t \in Sessions, WaiterStep(t) \/ CliStep(t) PROVE UNCHANGED <<pc, up>>
    BY <2>3 DEF WaiterStep, WaitReturns, WaitForgets, ExitNotice, ExitCleanup, CliStep, CliExit,
       CliStall, CliResume
  <2>4. CASE Deactivate
    BY <2>4 DEF Deactivate
  <2>5. CASE Shutdown \/ Crash
    BY <1>2, <2>5 DEF Shutdown, Crash, PluginEnds, Agents
  <2>6. CASE Activate \/ UNCHANGED vars
    BY <1>2, <2>6 DEF Activate
  <2> QED BY <1>2, <2>1, <2>2, <2>3, <2>4, <2>5, <2>6 DEF Next
<1> QED BY <1>1, <1>2 DEF KillerInv

(* One goroutine at a time is in killProcess of a process. *)
LEMMA OneKiller ==
  ASSUME IndInv, NEW a \in Agents, NEW b \in Agents,
         pc[a] \in {"kill_term", "kill_wait"}, pc[b] \in {"kill_term", "kill_wait"},
         Target(a) = Target(b)
  PROVE  a = b
BY DEF IndInv, MutexInv, InCritical

LEMMA AskedNext == ASSUME IndInv, SignalInv, [Next]_vars PROVE AskedInv'
<1> USE DEF SignalInv
<1> SUFFICES ASSUME NEW a \in Agents, pc'[a] = "kill_wait"
             PROVE  os'[Target(a)'] = "exited" \/ asker'[Target(a)'] = a
  BY DEF AskedInv
<1>1. CASE KillTerm(a)
  <2>1. Target(a)' = Target(a)
    BY <1>1 DEF KillTerm, Goto, Target
  <2>2. Target(a) \in Sessions /\ os[Target(a)] \in {"running", "exited"}
    BY <1>1, TargetStarted DEF KillTerm, At, KillLabels
  <2> QED BY <1>1, <2>1, <2>2 DEF KillTerm, Signal, IndInv, TypeOK
<1>2. CASE Unmoved(a)
  <2> DEFINE s == Target(a)
  <2>1. pc[a] = "kill_wait" /\ Target(a)' = s
    BY <1>2 DEF Unmoved
  <2>2. s \in Sessions /\ os[s] \in {"running", "exited"}
    BY <2>1, TargetStarted DEF KillLabels
  <2>3. CASE os[s] = "exited"
    BY <2>1, <2>2, <2>3, SignalSteps DEF IndInv
  <2>4. CASE asker[s] = a /\ os[s] = "running"
    <3>1. CASE UNCHANGED asker
      BY <2>1, <2>4, <3>1
    <3>2. ASSUME NEW b \in Agents, KillTerm(b) \/ KillTimeout(b), Target(b) = s PROVE FALSE
      <4>1. b = a
        BY <2>1, <3>2, OneKiller DEF KillTerm, KillTimeout, At
      <4> QED BY <2>1, <3>2, <4>1
              DEF KillTerm, KillTimeout, At, AfterKill, Goto, Return, IndInv, TypeOK
    <3>3. ASSUME NEW b \in Agents, KillTerm(b) \/ KillTimeout(b), Target(b) # s
          PROVE  asker'[s] = asker[s]
      BY <2>2, <3>3 DEF KillTerm, KillTimeout, Signal, IndInv, TypeOK
    <3>4. ASSUME NEW t \in Sessions, CliExit(t)
          PROVE  os'[s] = "exited" \/ asker'[s] = asker[s]
      BY <2>2, <3>4 DEF CliExit, IndInv, TypeOK
    <3> QED BY <2>1, <2>4, <3>1, <3>2, <3>3, <3>4, SignalSteps DEF IndInv
  <2> QED BY <2>1, <2>2, <2>3, <2>4 DEF AskedInv
<1> QED BY <1>1, <1>2, WaitsAfterTerm

LEMMA AskerNext == ASSUME IndInv, SignalInv, [Next]_vars PROVE AskerInv'
<1> USE DEF SignalInv
<1> SUFFICES ASSUME NEW s \in Sessions, asker'[s] # NoAgent
             PROVE  /\ os'[s] = "running"
                    /\ \/ waiter'[s] = "lost"
                       \/ \E b \in Agents : asker'[s] = b /\ pc'[b] = "kill_wait" /\ Target(b)' = s
  BY DEF AskerInv, Target
<1>1. ASSUME NEW a \in Agents, KillTerm(a), asker'[s] # asker[s]
      PROVE  os'[s] = "running" /\ asker'[s] = a /\ pc'[a] = "kill_wait" /\ Target(a)' = s
  <2>1. Target(a) = s /\ os[s] = "running" /\ asker'[s] = a
    BY <1>1 DEF KillTerm, Signal, IndInv, TypeOK
  <2> QED BY <1>1, <2>1 DEF KillTerm, Goto, Target, IndInv, TypeOK
<1>2. ASSUME NEW a \in Agents, KillTimeout(a) PROVE asker'[s] = asker[s]
  BY <1>2 DEF KillTimeout, Signal, IndInv, TypeOK
<1>3. ASSUME NEW t \in Sessions, CliExit(t) PROVE asker'[s] = asker[s] /\ ~CliExit(s)
  BY <1>3 DEF CliExit, IndInv, TypeOK
<1>4. CASE asker'[s] = asker[s]
  <2>1. os[s] = "running" /\ asker[s] \in Agents
    BY <1>4 DEF AskerInv, IndInv, TypeOK
  <2> PICK b \in Agents : b = asker[s]
    BY <2>1
  <2>2. os'[s] = "running"
    BY <1>3, <2>1, SignalSteps DEF IndInv
  <2>3. CASE waiter[s] = "lost"
    BY <2>2, <2>3, WaiterMoves DEF IndInv
  <2>4. CASE pc[b] = "kill_wait" /\ Target(b) = s
    <3>1. CASE Unmoved(b)
      BY <1>4, <2>2, <2>4, <3>1 DEF Unmoved
    <3>2. ~KillDone(b)
      BY <2>1, <2>4 DEF KillDone, IndInv, WaiterInv
    <3>3. ~KillTimeout(b)
      BY <1>4, <2>1, <2>4 DEF KillTimeout, Signal, IndInv, TypeOK
    <3>4. CASE PluginEnds
      BY <2>1, <2>2, <3>4 DEF PluginEnds, IndInv, WaiterInv
    <3> QED BY <2>1, <2>4, <3>1, <3>2, <3>3, <3>4, LeavesWait
  <2> QED BY <1>4, <2>3, <2>4 DEF AskerInv, Target
<1> QED BY <1>1, <1>2, <1>3, <1>4, SignalSteps DEF IndInv

(* SIGKILL only from the goroutine that has sent SIGTERM, with no signal   *)
(* of another one in between, and every signal from a command of the       *)
(* channel of the session or from KillAll, with the mutex held, and to a   *)
(* process whose exit nobody has collected.                                *)
THEOREM SignalsInOrder == Spec => KilledInOrder
<1> DEFINE InOrder(s) ==
      os'[s] = "running" /\ (sig'[s] # sig[s] \/ asker'[s] # asker[s]) =>
        \E a \in Agents :
          /\ MaySignal(a, s)
          /\ \/ asker[s] = NoAgent /\ asker'[s] = a /\ sig'[s] # "none"
             \/ asker[s] = a /\ asker'[s] = NoAgent /\ sig'[s] = "kill"
<1>1. Init => SignalInv
  BY DEF Init, SignalInv, KillerInv, AskedInv, AskerInv, KillingLabels, Agents
<1>2. ASSUME IndInv, SignalInv, [Next]_vars, NEW s \in Sessions PROVE InOrder(s)
  <2> SUFFICES ASSUME os'[s] = "running", sig'[s] # sig[s] \/ asker'[s] # asker[s] PROVE InOrder(s)
    OBVIOUS
  <2>1. PICK a \in Agents : KillTerm(a) \/ KillTimeout(a)
    <3>1. ASSUME NEW t \in Sessions, CliExit(t) PROVE FALSE
      BY <1>2, <3>1 DEF CliExit, IndInv, TypeOK
    <3> QED BY <1>2, <3>1, SignalSteps DEF IndInv
  <2>2. pc[a] \in {"kill_term", "kill_wait"} /\ InCritical(a)
    BY <2>1 DEF KillTerm, KillTimeout, At, InCritical
  <2>3. Target(a) = s /\ os[s] = "running"
    BY <1>2, <2>1 DEF KillTerm, KillTimeout, Signal, IndInv, TypeOK
  <2>4. mu[s] = a /\ s \notin done
    BY <1>2, <2>2, <2>3 DEF IndInv, MutexInv, WaiterInv
  <2>5. a \in Cmds => op[a] \in {"start", "stop"} /\ ch[a] = chan[s]
    <3> SUFFICES ASSUME a \in Cmds PROVE op[a] \in {"start", "stop"} /\ ch[a] = chan[s]
      OBVIOUS
    <3>1. pc[a] \in LabelsOf(op[a]) /\ op[a] \in OpNames
      BY <1>2 DEF IndInv, CmdInv, CmdOk, TypeOK
    <3>2. Stored(s, ch[a])
      BY <1>2, <2>2, <2>3, ConstantsAssumption
      DEF IndInv, CmdInv, CmdOk, SessionLabels, KillLabels, Target
    <3> QED BY <2>2, <3>1, <3>2 DEF LabelsOf, OpNames, Stored
  <2>6. a \notin Cmds => a = s
    BY <2>3 DEF Agents, Target
  <2>7. MaySignal(a, s)
    BY <2>3, <2>4, <2>5, <2>6 DEF MaySignal
  <2>8. CASE KillTerm(a)
    <3>1. asker[s] = NoAgent
      <4> SUFFICES ASSUME asker[s] # NoAgent PROVE FALSE
        OBVIOUS
      <4>1. waiter[s] # "lost"
        BY <1>2, <2>2, <2>3 DEF SignalInv, KillerInv, KillingLabels
      <4>2. asker[s] \in Agents /\ pc[asker[s]] = "kill_wait" /\ Target(asker[s]) = s
        BY <1>2, <4>1 DEF SignalInv, AskerInv, IndInv, TypeOK
      <4>3. asker[s] = a
        BY <1>2, <2>2, <2>3, <4>2, OneKiller
      <4> QED BY <2>8, <4>2, <4>3 DEF KillTerm, At
    <3>2. asker'[s] = a /\ sig'[s] # "none"
      BY <1>2, <2>3, <2>8 DEF KillTerm, Signal, IndInv, TypeOK
    <3> QED BY <2>7, <3>1, <3>2
  <2>9. CASE KillTimeout(a)
    <3>1. asker[s] = a
      BY <1>2, <2>3, <2>9 DEF SignalInv, AskedInv, KillTimeout, At
    <3>2. asker'[s] = NoAgent /\ sig'[s] = "kill"
      BY <1>2, <2>3, <2>9 DEF KillTimeout, Signal, IndInv, TypeOK
    <3> QED BY <2>7, <3>1, <3>2
  <2> QED BY <2>1, <2>8, <2>9
<1>3. IndInv /\ SignalInv /\ [Next]_vars => [\A s \in Sessions : InOrder(s)]_vars
  BY <1>2
<1>4. IndInv /\ SignalInv /\ [Next]_vars => SignalInv'
  BY KillerNext, AskedNext, AskerNext DEF SignalInv
<1> QED BY <1>1, <1>3, <1>4, Inductive, PTL DEF Spec, KilledInOrder

-----------------------------------------------------------------------------
(* Commands one at a time.                                                 *)

(* How a command gets where RecordIsAsRead speaks of it.                   *)
StartingLabels == {"create_check", "spawn", "store", "save"}

LEMMA FoundSo ==
  ASSUME IndInv, [Next]_vars, NEW c \in Cmds
  PROVE  /\ pc'[c] \in StartingLabels =>
              /\ ch'[c] = ch[c] /\ pc[c] # "idle"
              /\ pc[c] \in StartingLabels \/ kv[ch[c]] = NoSession
         /\ pc'[c] = "msg_save" =>
              /\ ch'[c] = ch[c] /\ pc[c] # "idle"
              /\ (pc[c] = "msg_save" /\ sess'[c] = sess[c]) \/ sess'[c] = kv[ch[c]]
<1> DEFINE Goal == /\ pc'[c] \in StartingLabels =>
                        /\ ch'[c] = ch[c] /\ pc[c] # "idle"
                        /\ pc[c] \in StartingLabels \/ kv[ch[c]] = NoSession
                   /\ pc'[c] = "msg_save" =>
                        /\ ch'[c] = ch[c] /\ pc[c] # "idle"
                        /\ \/ pc[c] = "msg_save" /\ sess'[c] = sess[c]
                           \/ sess'[c] = kv[ch[c]]
<1> USE DEF IndInv, StartingLabels
<1>1. CASE ExecuteCommand(c)
  BY <1>1 DEF ExecuteCommand, Begin, TypeOK, Agents
<1>2. CASE StartStep(c)
  BY <1>2 DEF StartStep, StartCheck, CreateCheck, SpawnStart, SpawnStore, SaveSession,
     StartFails, ReadRecord, At, Goto, GotoWith, Return, TypeOK, Agents
<1>3. CASE StopStep(c)
  BY <1>3 DEF StopStep, StopCheck, StopRead, StopDelete, StopHistory, StopReport, ReadRecord,
     Goto, GotoWith, Return, TypeOK, Agents
<1>4. CASE MessageStep(c)
  BY <1>4 DEF MessageStep, MsgRead, MsgRunning, SendLoad, SendLock, SendWrite, MsgStore,
     MsgTouch, MsgSave, ReadRecord, At, Goto, GotoWith, Return, TypeOK, Agents
<1>5. CASE KillStep(c)
  BY <1>5 DEF KillStep, KillLoad, KillLock, KillTerm, KillDone, KillTimeout, AfterKill, Goto,
     Return, TypeOK, Agents
<1>6. CASE pc'[c] = pc[c] /\ ch'[c] = ch[c] /\ sess'[c] = sess[c]
  BY <1>6
<1>7. ASSUME NEW b \in Cmds, b # c, ExecuteCommand(b) \/ CmdStep(b) \/ KillStep(b)
      PROVE  pc'[c] = pc[c] /\ ch'[c] = ch[c] /\ sess'[c] = sess[c]
  BY <1>7, CommandFrame DEF Frame
<1>8. ASSUME NEW s \in Sessions, KillStep(s)
      PROVE  pc'[c] = pc[c] /\ ch'[c] = ch[c] /\ sess'[c] = sess[c]
  BY <1>8, KillerFrame, ConstantsAssumption DEF Agents
<1>9. ASSUME NEW s \in Sessions, WaiterStep(s) \/ CliStep(s) PROVE UNCHANGED cmdVars
  BY <1>9 DEF WaiterStep, WaitReturns, WaitForgets, ExitNotice, ExitCleanup, CliStep, CliExit,
     CliStall, CliResume
<1>10. CASE Deactivate
  BY <1>6, <1>10, ConstantsAssumption DEF Deactivate, Agents, TypeOK
<1>11. CASE Shutdown \/ Crash
  BY <1>11 DEF Shutdown, Crash, PluginEnds, Agents
<1>12. CASE UNCHANGED cmdVars \/ Activate
  BY <1>6, <1>12 DEF Activate
<1> QED
  BY <1>1, <1>2, <1>3, <1>4, <1>5, <1>6, <1>7, <1>8, <1>9, <1>10, <1>11, <1>12
  DEF Next, CmdStep, Agents

LEMMA AsReadNext ==
  ASSUME IndInv, OneAtATime, RecordIsAsRead, [Next]_vars PROVE RecordIsAsRead'
<1> SUFFICES ASSUME NEW c \in Cmds
             PROVE  /\ pc'[c] \in StartingLabels => kv'[ch'[c]] = NoSession
                    /\ pc'[c] = "msg_save" => kv'[ch'[c]] \in {NoSession, sess'[c]}
  BY DEF RecordIsAsRead, StartingLabels
<1>1. pc[c] # "idle" => ch[c] \in Channels
  BY BusyHasChannel DEF IndInv
<1>2. ASSUME pc[c] # "idle", pc'[c] # "idle" PROVE kv'[ch[c]] \in {NoSession, kv[ch[c]]}
  <2>1. ASSUME NEW d \in Cmds, ch[d] = ch[c], pc'[d] = "idle" PROVE FALSE
    BY <1>1, <1>2, <2>1, ConstantsAssumption DEF OneAtATime
  <2> QED BY <1>1, <1>2, <2>1, RecordWriters DEF IndInv
<1>3. pc'[c] \in StartingLabels \cup {"msg_save"} => pc[c] # "idle"
  BY FoundSo
<1>4. pc'[c] \in StartingLabels => kv'[ch'[c]] = NoSession
  BY <1>2, <1>3, FoundSo DEF RecordIsAsRead, StartingLabels
<1>5. pc'[c] = "msg_save" => kv'[ch'[c]] \in {NoSession, sess'[c]}
  BY <1>2, <1>3, FoundSo DEF RecordIsAsRead, StartingLabels
<1> QED BY <1>4, <1>5

(* The checks of a start command suffice where the commands of a channel   *)
(* do not overlap: no session loses its record to another one, though a    *)
(* record that was deleted may come back.                                  *)
THEOREM SerialStarts == Spec /\ []OneAtATime => []RecordIsAsRead /\ NoTakeover
<1>1. Init => RecordIsAsRead
  BY DEF Init, RecordIsAsRead, Agents
<1>2. IndInv /\ RecordIsAsRead /\ [Next]_vars
        => [\A channel \in Channels :
              kv[channel] # NoSession => kv'[channel] \in {NoSession, kv[channel]}]_vars
  BY RecordWriters DEF RecordIsAsRead, IndInv
<1> QED BY <1>1, <1>2, AsReadNext, Inductive, PTL DEF Spec, NoTakeover

-----------------------------------------------------------------------------
(* The process manager implements ProcessLifecycle. *)

LEMMA PhaseInit == Init => Lifecycle!Init
BY DEF Init, Lifecycle!Init, phaseOf, PhaseOf

(* A step that moves neither a process nor its waiter between phases. *)
LEMMA PhaseStutter ==
  ASSUME \A s \in Sessions : PhaseOf(s)' = PhaseOf(s)
  PROVE  UNCHANGED phaseOf
BY DEF phaseOf

LEMMA PhaseQuiet ==
  ASSUME UNCHANGED <<os, waiter>>
  PROVE  UNCHANGED phaseOf
BY PhaseStutter DEF PhaseOf

LEMMA PhaseMove ==
  ASSUME NEW s \in Sessions, NEW from, NEW to, PhaseOf(s) = from, PhaseOf(s)' = to,
         \A t \in Sessions \ {s} : PhaseOf(t)' = PhaseOf(t)
  PROVE  Lifecycle!Move(s, from, to)
BY DEF phaseOf, Lifecycle!Move

LEMMA PhaseSpawnStart ==
  ASSUME IndInv, NEW c \in Cmds, SpawnStart(c)
  PROVE  [Lifecycle!Next]_phaseOf
<1>1. CASE UNCHANGED <<os, waiter>>
  BY <1>1, PhaseQuiet
<1>2. ASSUME NEW s \in Sessions, os[s] = "none", os' = [os EXCEPT ![s] = "running"]
      PROVE  Lifecycle!Start(s)
  <2>1. waiter' = waiter /\ waiter[s] = "none" /\ os'[s] = "running"
    BY <1>2 DEF SpawnStart, IndInv, WaiterInv, TypeOK
  <2>2. PhaseOf(s) = "unused" /\ PhaseOf(s)' = "running"
    BY <1>2, <2>1 DEF PhaseOf
  <2>3. \A t \in Sessions \ {s} : PhaseOf(t)' = PhaseOf(t)
    BY <1>2, <2>1 DEF PhaseOf, IndInv, TypeOK
  <2> QED
    BY <2>2, <2>3, PhaseMove DEF Lifecycle!Start
<1> QED
  BY <1>1, <1>2 DEF SpawnStart, Lifecycle!Next

LEMMA PhaseSpawnStore ==
  ASSUME IndInv, NEW c \in Cmds, SpawnStore(c)
  PROVE  UNCHANGED phaseOf
<1>1. waiter[sess[c]] = "none" /\ os' = os /\ waiter' = [waiter EXCEPT ![sess[c]] = "waiting"]
  BY DEF SpawnStore, At, IndInv, CmdInv, SpawningOk
<1> QED
  BY <1>1, PhaseStutter DEF PhaseOf, IndInv, TypeOK

LEMMA PhaseWaiter ==
  ASSUME IndInv, NEW s \in Sessions, WaiterStep(s)
  PROVE  [Lifecycle!Next]_phaseOf
<1> USE DEF IndInv, TypeOK, WaiterInv
<1>1. CASE WaitReturns(s) \/ WaitForgets(s) \/ ExitCleanup(s)
  <2>1. os' = os /\ \A t \in Sessions \ {s} : waiter'[t] = waiter[t]
    BY <1>1 DEF WaitReturns, WaitForgets, ExitCleanup
  <2>2. \/ waiter[s] \in {"waiting", "closed"} /\ waiter'[s] \in {"closed", "removed"}
        \/ waiter[s] = "notified" /\ waiter'[s] = "finished"
    BY <1>1 DEF WaitReturns, WaitForgets, ExitCleanup
  <2>3. \A t \in Sessions : PhaseOf(t)' = PhaseOf(t)
    BY <2>1, <2>2 DEF PhaseOf
  <2> QED
    BY <2>3, PhaseStutter
<1>2. CASE ExitNotice(s)
  <2>1. os[s] = "exited" /\ waiter[s] = "removed" /\ os' = os /\ waiter'[s] = "notified"
    BY <1>2 DEF ExitNotice
  <2>2. PhaseOf(s) = "ended" /\ PhaseOf(s)' = "reported"
    BY <2>1 DEF PhaseOf
  <2>3. \A t \in Sessions \ {s} : PhaseOf(t)' = PhaseOf(t)
    BY <1>2 DEF ExitNotice, PhaseOf
  <2> QED
    BY <2>2, <2>3, PhaseMove DEF Lifecycle!Next, Lifecycle!Report
<1> QED
  BY <1>1, <1>2 DEF WaiterStep

LEMMA PhaseCli ==
  ASSUME IndInv, NEW s \in Sessions, CliStep(s)
  PROVE  [Lifecycle!Next]_phaseOf
<1>1. CASE CliExit(s)
  <2>1. os[s] = "running" /\ os'[s] = "exited" /\ waiter' = waiter
    BY <1>1 DEF CliExit, IndInv, TypeOK
  <2>2. waiter[s] \in {"none", "waiting", "closed", "removed", "lost"}
    BY <2>1 DEF IndInv, WaiterInv, TypeOK, WaiterStates
  <2>3. \A t \in Sessions \ {s} : PhaseOf(t)' = PhaseOf(t)
    BY <1>1 DEF CliExit, PhaseOf, IndInv, TypeOK
  <2>4. CASE waiter[s] = "lost"
    <3>1. PhaseOf(s)' = PhaseOf(s)
      BY <2>1, <2>4 DEF PhaseOf
    <3> QED
      BY <2>3, <3>1, PhaseStutter
  <2>5. CASE waiter[s] # "lost"
    <3>1. PhaseOf(s) = "running" /\ PhaseOf(s)' = "ended"
      BY <2>1, <2>2, <2>5 DEF PhaseOf
    <3> QED
      BY <2>3, <3>1, PhaseMove DEF Lifecycle!Next, Lifecycle!End
  <2> QED
    BY <2>4, <2>5
<1>2. CASE CliStall(s) \/ CliResume(s)
  BY <1>2, PhaseQuiet DEF CliStall, CliResume
<1> QED
  BY <1>1, <1>2 DEF CliStep

LEMMA PhasePlugin ==
  ASSUME IndInv, PluginEnds
  PROVE  Lifecycle!Abandon
<1>1. ASSUME NEW s \in Sessions
      PROVE  PhaseOf(s)' = IF PhaseOf(s) \in {"running", "ended"} THEN "abandoned" ELSE PhaseOf(s)
  <2>1. os'[s] = os[s] /\ os[s] \in {"none", "running", "exited"} /\ waiter[s] \in WaiterStates
    BY DEF PluginEnds, IndInv, TypeOK
  <2>2. CASE os[s] = "none"
    <3>1. waiter[s] = "none" /\ waiter'[s] = "none"
      BY <2>2 DEF PluginEnds, IndInv, WaiterInv
    <3> QED
      BY <2>1, <2>2, <3>1 DEF PhaseOf
  <2>3. CASE os[s] # "none" /\ waiter[s] \in {"notified", "finished"}
    <3>1. waiter'[s] = "finished"
      BY <2>3 DEF PluginEnds
    <3> QED
      BY <2>1, <2>3, <3>1 DEF PhaseOf
  <2>4. CASE os[s] # "none" /\ waiter[s] \notin {"notified", "finished"}
    <3>1. waiter'[s] = "lost"
      BY <2>4 DEF PluginEnds
    <3> QED
      BY <2>1, <2>4, <3>1 DEF PhaseOf, WaiterStates
  <2> QED
    BY <2>2, <2>3, <2>4
<1> QED
  BY <1>1 DEF Lifecycle!Abandon, phaseOf

(* Every process is started once under a fresh id, and its exit reported   *)
(* once and only after the fact, unless the plugin stops in between.       *)
THEOREM Refinement == Spec => ImplementsLifecycle
<1>1. IndInv /\ [Next]_vars => [Lifecycle!Next]_phaseOf
  <2> SUFFICES ASSUME IndInv, [Next]_vars PROVE [Lifecycle!Next]_phaseOf
    OBVIOUS
  <2>1. CASE UNCHANGED vars \/ Deactivate \/ Activate
    BY <2>1, PhaseQuiet DEF Deactivate, Activate
  <2>2. CASE Shutdown \/ Crash
    BY <2>2, PhasePlugin DEF Shutdown, Crash, Lifecycle!Next
  <2> QED
    BY <2>1, <2>2, QuietStep, PhaseQuiet, PhaseSpawnStart, PhaseSpawnStore, PhaseWaiter, PhaseCli
    DEF Next, CmdStep, StartStep
<1> QED
  BY <1>1, PhaseInit, Inductive, PTL DEF Spec, ImplementsLifecycle, Lifecycle!Spec
=============================================================================
