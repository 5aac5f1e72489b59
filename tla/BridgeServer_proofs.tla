------------------------ MODULE BridgeServer_proofs ------------------------
(***************************************************************************)
(* Proofs about the bridge server: IndInv is inductive, with one lemma for *)
(* the requests, one for the processes, one for the server itself and one  *)
(* for the connections; what the runs check follows from it.               *)
(***************************************************************************)
EXTENDS BridgeServer, TLAPS

USE DEF procVars, wsVars

LEMMA InitInv == Init => IndInv
BY BridgeAssumption DEF Init, IndInv, TypeOK, SessionInv, TableIsActive, NoStrayProcess

(* The actions that touch the state of a session, one by one. *)
LEMMA CreateKeeps ==
  ASSUME NEW s \in Sessions, IndInv, CreateSession(s) PROVE IndInv'
<1>1. CASE Spawned(s)
  BY <1>1 DEF IndInv, TypeOK, SessionInv, TableIsActive, NoStrayProcess, CreateSession, Spawned
<1>2. CASE NotSpawned(s)
  BY <1>2 DEF IndInv, TypeOK, SessionInv, TableIsActive, NoStrayProcess, CreateSession,
     NotSpawned
<1> QED BY <1>1, <1>2 DEF CreateSession

LEMMA GetKeeps ==
  ASSUME NEW s \in Sessions, IndInv, GetSession(s) PROVE IndInv'
BY DEF IndInv, TypeOK, SessionInv, TableIsActive, NoStrayProcess, GetSession

LEMMA DeleteKeeps ==
  ASSUME NEW s \in Sessions, IndInv, DeleteSession(s) PROVE IndInv'
BY DEF IndInv, TypeOK, SessionInv, TableIsActive, NoStrayProcess, DeleteSession, Kill

(* The end of the server, by a shutdown or a crash: what was running or    *)
(* had not been reported is lost.                                          *)
LEMMA EndsKeeps ==
  ASSUME IndInv, Ends, UNCHANGED db, stored' \in SUBSET Sessions,
         \A s \in Sessions : s \in stored' => db[s] # "none",
         term' = term \/ term' = term \cup {s \in table : proc[s] = "running"}
  PROVE  IndInv'
<1>1. TypeOK'
  BY DEF IndInv, TypeOK, Ends
<1>2. SessionInv'
  BY DEF IndInv, TypeOK, SessionInv, Ends
<1>3. TableIsActive' /\ NoStrayProcess'
  BY DEF IndInv, TypeOK, SessionInv, TableIsActive, NoStrayProcess, Ends
<1> QED BY <1>1, <1>2, <1>3 DEF IndInv

LEMMA ShutdownKeeps == IndInv /\ Shutdown => IndInv'
BY EndsKeeps DEF Shutdown, ShutsDown, IndInv, TypeOK, SessionInv

LEMMA CrashKeeps == IndInv /\ Crash => IndInv'
BY EndsKeeps DEF Crash, IndInv, TypeOK, SessionInv

LEMMA RestartKeeps == IndInv /\ Restart => IndInv'
BY DEF IndInv, TypeOK, SessionInv, TableIsActive, NoStrayProcess, Restart

LEMMA SendKeeps ==
  ASSUME NEW s \in Sessions, IndInv, SendMessage(s) PROVE IndInv'
<1>1. CASE UNCHANGED <<up, procVars, wsVars>>
  BY <1>1 DEF IndInv, TypeOK, SessionInv, TableIsActive, NoStrayProcess, SendMessage
<1>2. CASE ShutsDown
  BY <1>2, EndsKeeps DEF IndInv, TypeOK, SessionInv, ShutsDown, SendMessage
<1> QED BY <1>1, <1>2 DEF SendMessage, SendInput

LEMMA DecideKeeps ==
  ASSUME NEW s \in Sessions, IndInv, DecideChange(s) PROVE IndInv'
<1>1. CASE UNCHANGED <<up, procVars, wsVars>>
  BY <1>1 DEF IndInv, TypeOK, SessionInv, TableIsActive, NoStrayProcess, DecideChange
<1>2. CASE ShutsDown
  BY <1>2, EndsKeeps DEF IndInv, TypeOK, SessionInv, ShutsDown, DecideChange
<1> QED BY <1>1, <1>2 DEF DecideChange, SendInput

LEMMA CliExitKeeps ==
  ASSUME NEW s \in Sessions, IndInv, CliExit(s) PROVE IndInv'
BY DEF IndInv, TypeOK, SessionInv, TableIsActive, NoStrayProcess, CliExit

LEMMA ExitEventKeeps ==
  ASSUME NEW s \in Sessions, IndInv, ExitEvent(s) PROVE IndInv'
BY DEF IndInv, TypeOK, SessionInv, TableIsActive, NoStrayProcess, ExitEvent

(* A connection comes, goes, subscribes or unsubscribes. *)
LEMMA ClientKeeps ==
  ASSUME NEW c \in Clients, IndInv,
         Connect(c) \/ Unsubscribe(c) \/ Disconnect(c) \/ \E s \in Sessions : Subscribe(c, s)
  PROVE  IndInv'
<1>1. UNCHANGED <<up, db, stored, procVars>>
  BY DEF Connect, Unsubscribe, Disconnect, Subscribe
<1>2. TypeOK'
  BY DEF IndInv, TypeOK, Connect, Unsubscribe, Disconnect, Subscribe
<1> QED BY <1>1, <1>2 DEF IndInv, SessionInv, TableIsActive, NoStrayProcess

LEMMA NextKeeps == IndInv /\ [Next]_vars => IndInv'
<1> SUFFICES ASSUME IndInv, [Next]_vars PROVE IndInv'
  OBVIOUS
<1>1. CASE \E s \in Sessions : Request(s) \/ CliExit(s) \/ ExitEvent(s)
  BY <1>1, CreateKeeps, GetKeeps, DeleteKeeps, SendKeeps, DecideKeeps, CliExitKeeps,
     ExitEventKeeps DEF Request
<1>2. CASE \E c \in Clients :
             Connect(c) \/ Unsubscribe(c) \/ Disconnect(c) \/ \E s \in Sessions : Subscribe(c, s)
  BY <1>2, ClientKeeps
<1>3. CASE Shutdown \/ Crash \/ Restart
  BY <1>3, ShutdownKeeps, CrashKeeps, RestartKeeps
<1>4. CASE UNCHANGED vars
  BY <1>4 DEF IndInv, TypeOK, SessionInv, TableIsActive, NoStrayProcess, vars
<1> QED BY <1>1, <1>2, <1>3, <1>4 DEF Next

(* The invariant behind all the others, in every reachable state and for   *)
(* any number of sessions and clients.                                     *)
THEOREM ServerInductive == Spec => []IndInv
BY InitInv, NextKeeps, PTL DEF Spec

(* The variables of the server keep their types. *)
THEOREM ServerTypes == Spec => []TypeOK
<1>1. IndInv => TypeOK
  BY DEF IndInv
<1> QED BY <1>1, ServerInductive, PTL

(* Every process in the spawner's table belongs to a session whose row is  *)
(* active.                                                                 *)
THEOREM TableActive == Spec => []TableIsActive
<1>1. IndInv => TableIsActive
  BY DEF IndInv
<1> QED BY <1>1, ServerInductive, PTL

(* Every running process this run of the server has started is in the      *)
(* table or has been sent SIGTERM.                                         *)
THEOREM NoStray == Spec => []NoStrayProcess
<1>1. IndInv => NoStrayProcess
  BY DEF IndInv
<1> QED BY <1>1, ServerInductive, PTL

(* A row that says "stopped" hides no running process of this run. *)
THEOREM StoppedRows == Spec => []StoppedHasEnded
<1>1. IndInv => StoppedHasEnded
  BY DEF IndInv, SessionInv, StoppedHasEnded
<1> QED BY <1>1, ServerInductive, PTL

(* A shutdown leaves no process of this run without a SIGTERM. *)
THEOREM ShutdownSignals == Spec => ShutdownSignalsAll
<1>1. IndInv /\ Shutdown => \A s \in Sessions : proc[s] = "running" => s \in term' \cup lost
  BY DEF IndInv, TypeOK, NoStrayProcess, Shutdown, ShutsDown
<1>2. IndInv /\ [Next]_vars
        => [Shutdown => \A s \in Sessions : proc[s] = "running" => s \in term' \cup lost]_vars
  BY <1>1
<1> QED BY <1>2, ServerInductive, PTL DEF Spec, ShutdownSignalsAll

-----------------------------------------------------------------------------
(* The refinement of ProcessLifecycle.                                     *)

(* phaseOf follows the variables it is made of. *)
LEMMA PhaseStutters ==
  ASSUME UNCHANGED <<proc, reported, lost>> PROVE phaseOf' = phaseOf
BY DEF phaseOf

(* The end of the server abandons what runs and what is not reported. *)
LEMMA EndsAbandons == IndInv /\ Ends => Lifecycle!Abandon
<1> SUFFICES ASSUME IndInv, Ends PROVE Lifecycle!Abandon
  OBVIOUS
<1>1. ASSUME NEW s \in Sessions
      PROVE phaseOf'[s] = IF phaseOf[s] \in {"running", "ended"} THEN "abandoned"
                          ELSE phaseOf[s]
  BY <1>1 DEF IndInv, TypeOK, SessionInv, Ends, phaseOf
<1> QED BY <1>1 DEF Lifecycle!Abandon, phaseOf

(* One session moves and the others stay where they are. *)
LEMMA MoveOne ==
  ASSUME NEW s \in Sessions, NEW from, NEW to, phaseOf[s] = from, phaseOf'[s] = to,
         \A r \in Sessions \ {s} : phaseOf'[r] = phaseOf[r]
  PROVE  Lifecycle!Move(s, from, to)
BY DEF Lifecycle!Move, phaseOf

LEMMA StepRefines == IndInv /\ [Next]_vars => [Lifecycle!Next]_phaseOf
<1> SUFFICES ASSUME IndInv, [Next]_vars PROVE [Lifecycle!Next]_phaseOf
  OBVIOUS
<1>1. CASE UNCHANGED <<proc, reported, lost>>
  BY <1>1, PhaseStutters
<1>2. CASE Ends
  BY <1>2, EndsAbandons DEF Lifecycle!Next
<1>3. ASSUME NEW s \in Sessions, CreateSession(s) PROVE [Lifecycle!Next]_phaseOf
  <2>1. CASE Spawned(s)
    <3>1. phaseOf[s] = "unused" /\ phaseOf'[s] = "running"
      BY <1>3, <2>1 DEF IndInv, TypeOK, SessionInv, CreateSession, Spawned, phaseOf
    <3>2. \A r \in Sessions \ {s} : phaseOf'[r] = phaseOf[r]
      BY <1>3, <2>1 DEF IndInv, TypeOK, CreateSession, Spawned, phaseOf
    <3> QED BY <3>1, <3>2, MoveOne DEF Lifecycle!Start, Lifecycle!Next
  <2>2. CASE NotSpawned(s)
    <3>1. \A r \in Sessions : phaseOf'[r] = phaseOf[r]
      BY <1>3, <2>2 DEF IndInv, TypeOK, SessionInv, CreateSession, NotSpawned, phaseOf
    <3> QED BY <3>1 DEF phaseOf
  <2> QED BY <1>3, <2>1, <2>2 DEF CreateSession
<1>4. ASSUME NEW s \in Sessions, CliExit(s) PROVE [Lifecycle!Next]_phaseOf
  <2>1. CASE s \in lost
    <3>1. \A r \in Sessions : phaseOf'[r] = phaseOf[r]
      BY <1>4, <2>1 DEF IndInv, TypeOK, CliExit, phaseOf
    <3> QED BY <3>1 DEF phaseOf
  <2>2. CASE s \notin lost
    <3>1. phaseOf[s] = "running" /\ phaseOf'[s] = "ended"
      BY <1>4, <2>2 DEF IndInv, TypeOK, SessionInv, CliExit, phaseOf
    <3>2. \A r \in Sessions \ {s} : phaseOf'[r] = phaseOf[r]
      BY <1>4 DEF IndInv, TypeOK, CliExit, phaseOf
    <3> QED BY <3>1, <3>2, MoveOne DEF Lifecycle!End, Lifecycle!Next
  <2> QED BY <2>1, <2>2
<1>5. ASSUME NEW s \in Sessions, ExitEvent(s) PROVE [Lifecycle!Next]_phaseOf
  <2>1. phaseOf[s] = "ended" /\ phaseOf'[s] = "reported"
    BY <1>5 DEF IndInv, TypeOK, ExitEvent, phaseOf
  <2>2. \A r \in Sessions \ {s} : phaseOf'[r] = phaseOf[r]
    BY <1>5 DEF IndInv, TypeOK, ExitEvent, phaseOf
  <2> QED BY <2>1, <2>2, MoveOne DEF Lifecycle!Report, Lifecycle!Next
<1>6. \/ UNCHANGED <<proc, reported, lost>> \/ Ends
      \/ \E s \in Sessions : CreateSession(s) \/ CliExit(s) \/ ExitEvent(s)
  BY DEF Next, Request, GetSession, DeleteSession, SendMessage, DecideChange, SendInput,
     ShutsDown, Shutdown, Crash, Restart, Connect, Subscribe, Unsubscribe, Disconnect, vars
<1> QED BY <1>1, <1>2, <1>3, <1>4, <1>5, <1>6

(* The spawner keeps the promise of a process manager: each process is     *)
(* started once and its exit reported at most once, after the fact.        *)
THEOREM ServerRefines == Spec => ImplementsLifecycle
<1>1. Init => Lifecycle!Init
  BY DEF Init, phaseOf, Lifecycle!Init
<1> QED BY <1>1, StepRefines, ServerInductive, PTL DEF Spec, ImplementsLifecycle, Lifecycle!Spec
=============================================================================
