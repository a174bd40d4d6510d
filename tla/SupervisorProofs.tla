-------------------------- MODULE SupervisorProofs --------------------------
(***************************************************************************)
(* Proofs about Supervisor for every set of clients and every bound: its   *)
(* types, the mutual exclusion of callbacks (OneWorker), BlockedNeverStarts *)
(* and NoLostWake.                                                         *)
(*                                                                         *)
(* None of the three is inductive.  Control adds what the code relies on   *)
(* without saying so: which places of the loop hold the gate, that an idle *)
(* caller inside its callback keeps every other request out of the loop's  *)
(* reach, and where each executor can be while it is inside stopChild.     *)
(***************************************************************************)
EXTENDS Supervisor, TLAPS

Pcs == {"rest", "gate", "work", "sess", "send", "wait", "gone"}
Phases == {"none", "wait", "killed", "desc", "ok", "err"}
SessionPlaces == {"none", "work", "stop", "final", "keep"}
Numbers == {0} \cup Procs

\* TypeOK in two parts: the provers treat Boolean variables apart.
BoolOK ==
  /\ active \in BOOLEAN /\ blocked \in BOOLEAN /\ waiting \in BOOLEAN
  /\ ctxDone \in BOOLEAN /\ wake \in BOOLEAN

DataOK ==
  /\ runDone \in {"nil", "open", "closed"}
  /\ gate \in {"free"} \cup Execs
  /\ pending \in Numbers /\ own \in Numbers
  /\ loop \in LoopPoints
  /\ why \in {"none", "ctx", "health", "exit", "restart", "maintain", "update"}
  /\ ret \in {"none", "idle", "own", "backoff"}
  /\ cur \in {"none"} \cup Clients
  /\ restarts \in Nat /\ status \in Observations
  /\ proc \in [Procs -> {"unborn", "alive", "dying", "joined"}]
  /\ tok \in [Procs -> BOOLEAN] /\ desc \in [Procs -> BOOLEAN]
  /\ mon \in [Procs -> Monitors]
  /\ cl \in [Clients -> Callers] /\ calls \in [Clients -> Nat]
  /\ stp \in [Execs -> Stops] /\ sess \in [Execs -> Sessions]
  /\ abandoned \subseteq Procs /\ displaced \subseteq Procs

LEMMA TypeParts == TypeOK <=> BoolOK /\ DataOK
BY Zenon DEF TypeOK, BoolOK, DataOK, Numbers

\* The names of executors, clients and processes do not clash.
LEMMA Names ==
  /\ "run" \in Execs /\ "run" \notin Clients /\ "none" \notin Clients
  /\ "free" \notin Clients /\ "free" \notin Execs
  /\ \A c \in Clients : c \in Execs /\ c # "run" /\ c # "free" /\ c # "none"
  /\ \A e \in Execs : e # "run" => e \in Clients
  /\ 0 \notin Procs /\ 0 \in Numbers /\ \A p \in Procs : p \in Numbers
BY ClientsAssumption, BoundsAssumption DEF Execs, Procs, Numbers

LEMMA Members ==
  /\ "gate" \in Pcs /\ "send" \in Pcs /\ "wait" \in Pcs
  /\ "ok" \in Results /\ "err" \in Results
BY Zenon DEF Pcs, Results

\* The records the code builds have their types.
LEMMA RecordTypes ==
  /\ NoMonitor \in Monitors /\ NoCall \in Callers
  /\ NoStop \in Stops /\ NoSession \in Sessions
BY Zenon DEF NoMonitor, Monitors, NoCall, Callers, NoStop, Stops, NoSession, Sessions,
   Results, Ops

LEMMA ObservationType ==
  ASSUME NEW s \in Statuses, NEW p \in Numbers, NEW n \in Nat
  PROVE  Observation(s, p, n) \in Observations
BY Zenon DEF Observation, Observations, Numbers

LEMMA CallerUpdate ==
  ASSUME NEW r \in Callers
  PROVE  /\ \A pc \in Pcs : [r EXCEPT !.pc = pc] \in Callers
         /\ \A a \in {"none"} \cup Results : [r EXCEPT !.resp = a] \in Callers
         /\ \A pc \in Pcs, a \in {"none"} \cup Results :
              [r EXCEPT !.pc = pc, !.resp = a] \in Callers
         /\ \A pc \in Pcs, op \in Ops : [r EXCEPT !.op = op, !.pc = pc] \in Callers
BY Zenon DEF Callers, Pcs

LEMMA StopUpdate ==
  ASSUME NEW r \in Stops, NEW ph \in Phases
  PROVE  /\ [r EXCEPT !.ph = ph] \in Stops
         /\ \A b \in BOOLEAN : [r EXCEPT !.ph = ph, !.terr = b] \in Stops
BY Zenon DEF Stops, Phases

LEMMA BeginStopType ==
  ASSUME NEW p \in Numbers
  PROVE  BeginStop(p) \in Stops /\ SessionStopOf(p) \in Stops
<1>1. BeginStop(p) \in Stops
  BY Zenon DEF Stops, BeginStop, Numbers
<1>2. [BeginStop(p) EXCEPT !.ph = "desc"] \in Stops
  BY Zenon, <1>1 DEF Stops
<1> QED
  BY Zenon, <1>1, <1>2, RecordTypes DEF SessionStopOf

LEMMA SessionUpdate ==
  ASSUME NEW r \in Sessions, NEW st \in SessionPlaces
  PROVE  /\ [r EXCEPT !.st = st] \in Sessions
         /\ \A p \in Numbers, b \in BOOLEAN : [r EXCEPT !.p = p, !.healthy = b] \in Sessions
         /\ \A p \in Numbers, b \in BOOLEAN :
              [r EXCEPT !.st = st, !.p = p, !.healthy = b] \in Sessions
         /\ \A a \in {"none"} \cup Results : [r EXCEPT !.res = a, !.st = st] \in Sessions
         /\ \A b \in BOOLEAN : [r EXCEPT !.st = st, !.was = b] \in Sessions
BY Zenon DEF Sessions, SessionPlaces, Numbers

LEMMA BeginSessionType ==
  ASSUME NEW b \in BOOLEAN
  PROVE  BeginSession(b) \in Sessions
BY RecordTypes, Zenon DEF BeginSession, Sessions

LEMMA MonitorUpdate ==
  ASSUME NEW r \in Monitors
  PROVE  /\ \A n \in Nat : [r EXCEPT !.fails = n] \in Monitors
         /\ \A n \in Nat, b \in BOOLEAN : [r EXCEPT !.fails = n, !.pub = b] \in Monitors
         /\ \A b \in BOOLEAN : [r EXCEPT !.failed = b] \in Monitors
         /\ \A st \in {"none", "run", "quit"} : [r EXCEPT !.st = st] \in Monitors
         /\ \A st \in {"none", "run", "quit"}, b \in BOOLEAN :
              [r EXCEPT !.st = st, !.failed = b] \in Monitors
BY Zenon DEF Monitors

-----------------------------------------------------------------------------
(* The inductive invariant.                                                *)

\* Client c runs a callback of its own, as no loop was active when it asked.
IdleCaller(c) == cl[c].pc \in {"work", "sess"}

\* The loop holds the gate at three places, and serves requests while active.
LoopControl ==
  /\ loop \notin {"off", "closed", "done"} => active
  /\ loop \in {"off", "closed", "done"} => ~active
  /\ gate = "run" <=> loop \in {"recheck", "start", "dstop"}
  /\ loop = "off" => \A c \in Clients : cl[c].pc # "send"
  /\ loop \in {"own", "stop", "join", "joined"} => own # 0
  /\ loop = "start" => ~blocked

\* A caller inside its own callback holds the gate; a loop that became active
\* meanwhile has not passed the gate, and no request but Restart can reach it.
IdleControl ==
  \A c \in Clients : IdleCaller(c) =>
    /\ gate = c
    /\ loop \in {"off", "entry", "top", "idle", "gate", "defer", "closed", "done"}
    /\ loop \in {"entry", "top", "idle", "gate", "defer"} =>
         \A d \in Clients : cl[d].pc = "send" => cl[d].op = "restart"

\* Where an executor is while it has a session, or is inside stopChild.
ExecControl ==
  /\ \A c \in Clients : sess[c].st # "none" => cl[c].pc = "sess"
  /\ sess["run"].st # "none" => loop = "upd"
  /\ \A e \in Execs : stp[e].ph # "none" => stp[e].p # 0
  /\ \A c \in Clients : stp[c].ph \in {"wait", "killed", "desc"} => cl[c].pc = "sess"
  /\ stp["run"].ph \in {"wait", "killed", "desc"} => loop \in {"stop", "dstop", "upd"}
  /\ loop = "join" /\ why # "exit" => stp["run"].ph \in {"ok", "err"}

\* Without a token, only an update in progress will end the idle select.
WakeControl ==
  loop = "idle" /\ ~blocked /\ ~waiting /\ ~wake =>
    \E c \in Clients : gate = c /\ cl[c].pc = "sess"

Control == LoopControl /\ IdleControl /\ ExecControl /\ WakeControl

\* Processes and monitors preserve the invariant.
LEMMA ProcSteps ==
  ASSUME DataOK, Control, NEW p \in Procs,
         \/ ProcExit(p)
         \/ DescendantsExit(p)
         \/ MonitorHealthy(p)
         \/ MonitorUnhealthy(p)
         \/ MonitorQuit(p)
  PROVE  DataOK' /\ Control'
<1>1. CASE ProcExit(p)
  <2>1. DataOK'
    BY Zenon, <1>1, Names DEF DataOK, ProcExit, flagVars, lifeVars, idleVars, loopVars,
       reqVars, pubVars, clientVars, execVars, histVars
  <2>2. Control'
    BY <1>1, Names DEF DataOK, Control, LoopControl, IdleControl, ExecControl, WakeControl,
       IdleCaller, ProcExit, flagVars, lifeVars, idleVars, loopVars, reqVars, pubVars,
       clientVars, execVars, histVars
  <2> QED
    BY Zenon, <2>1, <2>2
<1>2. CASE DescendantsExit(p)
  <2>1. DataOK'
    BY Zenon, <1>2, Names DEF DataOK, DescendantsExit, flagVars, lifeVars, idleVars,
       loopVars, reqVars, pubVars, clientVars, execVars, histVars
  <2>2. Control'
    BY Zenon, <1>2, Names DEF DataOK, Control, LoopControl, IdleControl, ExecControl,
       WakeControl, IdleCaller, DescendantsExit, flagVars, lifeVars, idleVars, loopVars,
       reqVars, pubVars, clientVars, execVars, histVars
  <2> QED
    BY Zenon, <2>1, <2>2
<1>3. CASE MonitorHealthy(p)
  <2>1. DataOK'
    BY ZenonT(60), <1>3, Names, ObservationType, MonitorUpdate DEF DataOK, MonitorHealthy,
       Statuses, flagVars, lifeVars, idleVars, reqVars, clientVars, execVars, histVars
  <2>2. Control'
    BY Zenon, <1>3, Names DEF DataOK, Control, LoopControl, IdleControl, ExecControl,
       WakeControl, IdleCaller, MonitorHealthy, flagVars, lifeVars, idleVars, reqVars,
       clientVars, execVars, histVars
  <2> QED
    BY Zenon, <2>1, <2>2
<1>4. CASE MonitorUnhealthy(p)
  <2>1. mon[p] \in Monitors /\ mon[p].fails + 1 \in Nat
    BY DEF DataOK, Monitors
  <2>2. [NoMonitor EXCEPT !.st = "quit", !.failed = TRUE] \in Monitors
    BY RecordTypes, MonitorUpdate, Zenon
  <2>3. [mon[p] EXCEPT !.fails = mon[p].fails + 1] \in Monitors
    BY Zenon, <2>1, MonitorUpdate
  <2>4. mon' \in [Procs -> Monitors]
    BY Zenon, <1>4, <2>2, <2>3 DEF DataOK, MonitorUnhealthy, flagVars, lifeVars, idleVars,
       loopVars, reqVars, pubVars, clientVars, execVars, histVars
  <2>5. DataOK'
    BY Zenon, <1>4, <2>4 DEF DataOK, MonitorUnhealthy, flagVars, lifeVars, idleVars,
       loopVars, reqVars, pubVars, clientVars, execVars, histVars
  <2>6. Control'
    BY Zenon, <1>4 DEF Control, LoopControl, IdleControl, ExecControl, WakeControl,
       IdleCaller, MonitorUnhealthy, flagVars, lifeVars, idleVars, loopVars, reqVars, pubVars,
       clientVars, execVars, histVars
  <2> QED
    BY Zenon, <2>5, <2>6
<1>5. CASE MonitorQuit(p)
  <2>1. DataOK'
    BY Zenon, <1>5, Names, RecordTypes, MonitorUpdate DEF DataOK, MonitorQuit, flagVars,
       lifeVars, idleVars, loopVars, reqVars, pubVars, clientVars, execVars, histVars
  <2>2. Control'
    BY Zenon, <1>5, Names DEF DataOK, Control, LoopControl, IdleControl, ExecControl,
       WakeControl, IdleCaller, MonitorQuit, flagVars, lifeVars, idleVars, loopVars, reqVars,
       pubVars, clientVars, execVars, histVars
  <2> QED
    BY Zenon, <2>1, <2>2
<1> QED
  BY Zenon, <1>1, <1>2, <1>3, <1>4, <1>5

\* stopChild, by any executor, preserves the invariant.
LEMMA StopSteps ==
  ASSUME DataOK, Control, NEW e \in Execs,
         \/ StopDone(e)
         \/ StopKillFails(e)
         \/ StopKill(e)
         \/ StopKilledDone(e)
         \/ StopDescendants(e)
  PROVE  DataOK' /\ Control'
<1>1. CASE StopDone(e)
  <2>1. PICK terr \in BOOLEAN : stp' = [stp EXCEPT ![e].ph = "desc", ![e].terr = terr]
    BY Zenon, <1>1 DEF StopDone, flagVars, lifeVars, idleVars, loopVars, reqVars, pubVars,
       clientVars, histVars
  <2>2. stp' \in [Execs -> Stops]
    BY ZenonT(60), <2>1, StopUpdate DEF DataOK, Phases
  <2>3. /\ stp[e].ph = "wait"
        /\ stp'[e].ph = "desc" /\ stp'[e].p = stp[e].p
        /\ \A f \in Execs : f # e => stp'[f] = stp[f]
    BY ZenonT(60), <1>1, <2>1 DEF DataOK, Stops, StopDone, flagVars, lifeVars, idleVars,
       loopVars, reqVars, pubVars, clientVars, histVars
  <2>4. DataOK'
    BY Zenon, <1>1, <2>2 DEF DataOK, StopDone, flagVars, lifeVars, idleVars, loopVars,
       reqVars, pubVars, clientVars, histVars
  <2>5. UNCHANGED <<flagVars, loopVars, clientVars, sess>>
    BY Zenon, <1>1 DEF StopDone, flagVars, lifeVars, idleVars, loopVars, reqVars, pubVars,
       clientVars, histVars
  <2>6. Control'
    BY <2>3, <2>5, Names DEF DataOK, Control, LoopControl, IdleControl, ExecControl,
       WakeControl, IdleCaller, flagVars, lifeVars, idleVars, loopVars, reqVars, pubVars,
       clientVars
  <2> QED
    BY Zenon, <2>4, <2>6 DEF flagVars, lifeVars, idleVars, loopVars, reqVars, pubVars,
       clientVars
<1>2. CASE StopKillFails(e)
  <2>1. DataOK'
    BY Zenon, <1>2, Names, StopUpdate DEF DataOK, StopKillFails, Phases, lifeVars,
       idleVars, loopVars, reqVars, pubVars, procVars, clientVars, histVars
  <2>2. Control'
    BY <1>2, Names DEF DataOK, Control, LoopControl, IdleControl, ExecControl, WakeControl,
       IdleCaller, StopKillFails, Stops, lifeVars, idleVars, loopVars, reqVars, pubVars,
       procVars, clientVars, histVars
  <2> QED
    BY Zenon, <2>1, <2>2
<1>3. CASE StopKill(e)
  <2>1. DataOK'
    BY Zenon, <1>3, Names, StopUpdate DEF DataOK, StopKill, Phases, flagVars, lifeVars,
       idleVars, loopVars, reqVars, pubVars, clientVars, histVars
  <2>2. Control'
    BY <1>3, Names DEF DataOK, Control, LoopControl, IdleControl, ExecControl, WakeControl,
       IdleCaller, StopKill, Stops, flagVars, lifeVars, idleVars, loopVars, reqVars, pubVars,
       clientVars, histVars
  <2> QED
    BY Zenon, <2>1, <2>2
<1>4. CASE StopKilledDone(e)
  <2>1. DataOK'
    BY ZenonT(60), <1>4, Names, StopUpdate DEF DataOK, StopKilledDone, Phases, flagVars,
       lifeVars, idleVars, loopVars, reqVars, pubVars, clientVars, histVars
  <2>2. Control'
    BY <1>4, Names DEF DataOK, Control, LoopControl, IdleControl, ExecControl, WakeControl,
       IdleCaller, StopKilledDone, Stops, flagVars, lifeVars, idleVars, loopVars, reqVars,
       pubVars, clientVars, histVars
  <2> QED
    BY Zenon, <2>1, <2>2
<1>5. CASE StopDescendants(e)
  <2>1. DataOK'
    BY ZenonT(60), <1>5, Names, StopUpdate, ObservationType DEF DataOK, StopDescendants,
       Phases, Statuses, lifeVars, idleVars, reqVars, procVars, clientVars, histVars
  <2>2. Control'
    BY <1>5, Names DEF DataOK, Control, LoopControl, IdleControl, ExecControl, WakeControl,
       IdleCaller, StopDescendants, Stops, lifeVars, idleVars, reqVars, procVars, clientVars,
       histVars
  <2> QED
    BY Zenon, <2>1, <2>2
<1> QED
  BY Zenon, <1>1, <1>2, <1>3, <1>4, <1>5

\* An update session inside its callback preserves the invariant.
LEMMA SessionSteps ==
  ASSUME DataOK, Control, NEW e \in Execs,
         \/ SessionStart(e)
         \/ SessionStop(e)
         \/ SessionStopEnds(e)
         \/ SessionReturn(e)
  PROVE  DataOK' /\ Control'
<1>1. CASE SessionStart(e)
  <2>1. PICK q \in Procs, h \in BOOLEAN :
          /\ proc' = [proc EXCEPT ![q] = "alive"]
          /\ sess' = [sess EXCEPT ![e].p = q, ![e].healthy = h]
    BY Zenon, <1>1 DEF SessionStart, flagVars, lifeVars, idleVars, loopVars, reqVars,
       pubVars, clientVars, histVars
  <2>2. sess' \in [Execs -> Sessions]
    BY Zenon, <2>1, SessionUpdate, Names DEF DataOK, SessionPlaces
  <2>3. \A f \in Execs : sess'[f].st = sess[f].st
    BY Zenon, <2>1 DEF DataOK, Sessions
  <2>4. DataOK'
    BY ZenonT(60), <1>1, <2>1, <2>2 DEF DataOK, SessionStart, flagVars, lifeVars, idleVars,
       loopVars, reqVars, pubVars, clientVars, histVars
  <2>5. Control'
    BY ZenonT(60), <1>1, <2>3, Names DEF DataOK, Control, LoopControl, IdleControl,
       ExecControl, WakeControl, IdleCaller, SessionStart, flagVars, lifeVars, idleVars,
       loopVars, reqVars, pubVars, clientVars, histVars
  <2> QED
    BY Zenon, <2>4, <2>5
<1>2. CASE SessionStop(e)
  <2>1. sess[e].p \in Numbers /\ sess[e].p # 0 /\ sess[e].st = "work"
    BY Zenon, <1>2 DEF DataOK, Sessions, SessionStop, Numbers, flagVars, lifeVars,
       idleVars, loopVars, reqVars, pubVars, procVars, clientVars, histVars
  <2>2. sess' \in [Execs -> Sessions] /\ stp' \in [Execs -> Stops]
    BY Zenon, <1>2, <2>1, BeginStopType, SessionUpdate DEF DataOK, SessionStop,
       SessionPlaces, flagVars, lifeVars, idleVars, loopVars, reqVars, pubVars, procVars,
       clientVars, histVars
  <2>3. DataOK'
    BY Zenon, <1>2, <2>2 DEF DataOK, SessionStop, flagVars, lifeVars, idleVars, loopVars,
       reqVars, pubVars, procVars, clientVars, histVars
  <2>4. Control'
    BY <1>2, Names DEF DataOK, Control, LoopControl, IdleControl, ExecControl, WakeControl,
       IdleCaller, SessionStop, SessionStopOf, BeginStop, NoStop, Sessions, Stops, flagVars,
       lifeVars, idleVars, loopVars, reqVars, pubVars, procVars, clientVars, histVars
  <2> QED
    BY Zenon, <2>3, <2>4
<1>3. CASE SessionStopEnds(e)
  <2>1. sess[e].p \in Numbers /\ sess[e].st = "stop"
    BY Zenon, <1>3 DEF DataOK, Sessions, SessionStopEnds, Numbers, flagVars, lifeVars,
       idleVars, loopVars, reqVars, pubVars, procVars, clientVars, histVars
  <2>2. CASE /\ sess' = [sess EXCEPT ![e].st = "work", ![e].p = 0, ![e].healthy = FALSE]
             /\ stp' = [stp EXCEPT ![e] = NoStop]
    <3>1. sess' \in [Execs -> Sessions]
      BY <2>2, SessionUpdate, Names, Zenon DEF DataOK, SessionPlaces
    <3>2. stp' \in [Execs -> Stops]
      BY Zenon, <2>2, RecordTypes DEF DataOK
    <3>3. /\ \A f \in Execs : sess'[f].st # "none" => sess[f].st # "none"
          /\ stp'[e].ph = "none" /\ \A f \in Execs : f # e => stp'[f] = stp[f]
      BY Zenon, <2>1, <2>2 DEF DataOK, Sessions, NoStop
    <3>4. DataOK'
      BY <1>3, <3>1, <3>2 DEF DataOK, SessionStopEnds, flagVars, lifeVars, idleVars,
         loopVars, reqVars, pubVars, procVars, clientVars, histVars
    <3>5. Control'
      BY <1>3, <2>1, <3>3, Names DEF DataOK, Control, LoopControl, IdleControl,
         ExecControl, WakeControl, IdleCaller, SessionStopEnds, flagVars, lifeVars, idleVars,
         loopVars, reqVars, pubVars, procVars, clientVars, histVars
    <3> QED
      BY Zenon, <3>4, <3>5
  <2>3. CASE /\ sess' = [sess EXCEPT ![e].st = "final"]
             /\ stp' = [stp EXCEPT ![e] = SessionStopOf(sess[e].p)]
    <3>1. sess' \in [Execs -> Sessions] /\ stp' \in [Execs -> Stops]
      BY Zenon, <2>1, <2>3, SessionUpdate, BeginStopType DEF DataOK, SessionPlaces
    <3>2. DataOK'
      BY <1>3, <3>1 DEF DataOK, SessionStopEnds, flagVars, lifeVars, idleVars, loopVars,
         reqVars, pubVars, procVars, clientVars, histVars
    <3>3. /\ \A f \in Execs : sess'[f].st # "none" => sess[f].st # "none"
          /\ stp'[e].ph # "none" => stp'[e].p # 0
          /\ \A f \in Execs : f # e => stp'[f] = stp[f]
      BY Zenon, <2>1, <2>3 DEF DataOK, Sessions, SessionStopOf, BeginStop, NoStop
    <3>4. UNCHANGED <<cl, loop, own, why, gate, active, blocked, waiting, wake>>
      BY Zenon, <1>3 DEF SessionStopEnds, flagVars, lifeVars, idleVars, loopVars, reqVars,
         clientVars
    <3>5. ExecControl'
      BY Zenon, <2>1, <3>3, <3>4, Names DEF Control, ExecControl
    <3>6. LoopControl' /\ IdleControl' /\ WakeControl'
      BY Zenon, <3>4 DEF Control, LoopControl, IdleControl, WakeControl, IdleCaller
    <3> QED
      BY Zenon, <3>2, <3>5, <3>6 DEF Control
  <2> QED
    BY Zenon, <1>3, <2>2, <2>3 DEF SessionStopEnds, flagVars, lifeVars, idleVars, loopVars,
       reqVars, pubVars, procVars, clientVars, histVars
<1>4. CASE SessionReturn(e)
  <2>1. sess[e].p \in Numbers /\ sess[e].st = "work"
    BY Zenon, <1>4 DEF DataOK, Sessions, SessionReturn, Numbers, flagVars, lifeVars,
       idleVars, loopVars, reqVars, pubVars, procVars, clientVars, histVars
  <2>2. PICK res \in Results, st \in {"final", "keep"} :
          sess' = [sess EXCEPT ![e].res = res, ![e].st = st]
    BY Zenon, <1>4 DEF SessionReturn, flagVars, lifeVars, idleVars, loopVars, reqVars,
       pubVars, procVars, clientVars, histVars
  <2>3. sess' \in [Execs -> Sessions] /\ stp' \in [Execs -> Stops]
    BY ZenonT(60), <1>4, <2>1, <2>2, BeginStopType, SessionUpdate DEF DataOK,
       SessionReturn, SessionPlaces, flagVars, lifeVars, idleVars, loopVars, reqVars, pubVars,
       procVars, clientVars, histVars
  <2>4. \A f \in Execs : sess'[f].st # "none" => sess[f].st # "none"
    BY Zenon, <2>1, <2>2 DEF DataOK, Sessions
  <2>5. DataOK'
    BY ZenonT(60), <1>4, <2>3 DEF DataOK, SessionReturn, flagVars, lifeVars, idleVars,
       loopVars, reqVars, pubVars, procVars, clientVars, histVars
  <2>6. UNCHANGED <<flagVars, loopVars, clientVars>>
    BY Zenon, <1>4 DEF SessionReturn, flagVars, lifeVars, idleVars, loopVars, reqVars,
       pubVars, procVars, clientVars, histVars
  <2>7. stp' = [stp EXCEPT ![e] = SessionStopOf(sess[e].p)]
    BY Zenon, <1>4 DEF SessionReturn, flagVars, lifeVars, idleVars, loopVars, reqVars,
       pubVars, procVars, clientVars, histVars
  <2>8. Control'
    BY <2>1, <2>4, <2>6, <2>7, Names DEF DataOK, Control, LoopControl, IdleControl,
       ExecControl, WakeControl, IdleCaller, SessionStopOf, BeginStop, NoStop, Stops,
       flagVars, lifeVars, idleVars, loopVars, reqVars, pubVars, clientVars
  <2> QED
    BY Zenon, <2>5, <2>8 DEF flagVars, lifeVars, idleVars, loopVars, reqVars, pubVars,
       clientVars
<1> QED
  BY Zenon, <1>1, <1>2, <1>3, <1>4

\* A caller that is not inside a callback, before or after a step of its own,
\* disturbs nothing the loop relies on.
LEMMA CallerControl ==
  ASSUME Control, NEW c \in Clients,
         UNCHANGED <<flagVars, loopVars, execVars>>,
         \A d \in Clients : d # c => cl'[d] = cl[d],
         ~IdleCaller(c), ~IdleCaller(c)',
         cl'[c].pc = "send" => active /\ (cl'[c].op = "restart" \/ gate = "free")
  PROVE  Control'
<1>1. LoopControl'
  BY Zenon DEF Control, LoopControl, flagVars, lifeVars, idleVars, loopVars, reqVars,
     pubVars, execVars
<1>2. IdleControl'
  BY Zenon, Names DEF Control, IdleControl, IdleCaller, flagVars, lifeVars, idleVars,
     loopVars, reqVars, pubVars, execVars
<1>3. ExecControl'
  BY Zenon DEF Control, ExecControl, IdleCaller, flagVars, lifeVars, idleVars, loopVars,
     reqVars, pubVars, execVars
<1>4. WakeControl'
  BY Zenon DEF Control, WakeControl, IdleCaller, flagVars, lifeVars, idleVars, loopVars,
     reqVars, pubVars, execVars
<1> QED
  BY Zenon, <1>1, <1>2, <1>3, <1>4 DEF Control, flagVars, lifeVars, idleVars, loopVars,
     reqVars, pubVars, execVars

\* What the loop says of its own session, stop and join.
RunControl ==
  /\ sess["run"].st # "none" => loop = "upd"
  /\ stp["run"].ph # "none" => stp["run"].p # 0
  /\ stp["run"].ph \in {"wait", "killed", "desc"} => loop \in {"stop", "dstop", "upd"}
  /\ loop = "join" /\ why # "exit" => stp["run"].ph \in {"ok", "err"}

\* A step of the loop that leaves the callers' sessions and stops alone, at a
\* place no idle caller is beside.
LEMMA RunSteps ==
  ASSUME Control, LoopControl', RunControl', UNCHANGED cl,
         \A c \in Clients : sess'[c] = sess[c] /\ stp'[c] = stp[c],
         gate \in Clients =>
           loop \notin {"off", "entry", "top", "idle", "gate", "defer", "closed", "done"},
         loop' # "idle"
  PROVE  Control'
<1>1. \A c \in Clients : ~IdleCaller(c) /\ ~IdleCaller(c)'
  BY Zenon DEF Control, IdleControl, IdleCaller
<1>2. IdleControl' /\ WakeControl'
  BY Zenon, <1>1 DEF IdleControl, WakeControl
<1>3. ExecControl'
  BY Zenon, Names DEF Control, ExecControl, RunControl
<1> QED
  BY Zenon, <1>2, <1>3 DEF Control

\* Callers preserve the invariant.
LEMMA ClientSteps ==
  ASSUME DataOK, Control, NEW c \in Clients,
         \/ Call(c)
         \/ PassGate(c)
         \/ IdleWork(c)
         \/ ClientCancel(c)
         \/ ClientRunDone(c)
         \/ ClientReturn(c)
  PROVE  DataOK' /\ Control'
<1>1. CASE Call(c)
  <2>1. PICK op \in Ops :
          cl' = IF op = "restart" /\ (blocked \/ ~active) THEN cl
                ELSE [cl EXCEPT ![c].op = op,
                                ![c].pc = IF op = "restart" THEN "send" ELSE "gate"]
    BY Zenon, <1>1 DEF Call, flagVars, lifeVars, idleVars, loopVars, reqVars, pubVars,
       procVars, execVars, histVars
  <2>2. cl' \in [Clients -> Callers]
    BY Zenon, <2>1, CallerUpdate, Members DEF DataOK
  <2>3. calls[c] + 1 \in Nat
    BY DEF DataOK
  <2>4. calls' \in [Clients -> Nat]
    BY ZenonT(60), <1>1, <2>3 DEF DataOK, Call, flagVars, lifeVars, idleVars, loopVars,
       reqVars, pubVars, procVars, execVars, histVars
  <2>5. DataOK'
    BY ZenonT(60), <1>1, <2>2, <2>4 DEF DataOK, Call, flagVars, lifeVars, idleVars,
       loopVars, reqVars, pubVars, procVars, execVars, histVars
  <2>6. cl[c].pc = "rest" /\ cl \in [Clients -> Callers]
    BY Zenon, <1>1 DEF DataOK, Call, flagVars, lifeVars, idleVars, loopVars, reqVars,
       pubVars, procVars, execVars, histVars
  <2>7. /\ \A d \in Clients : d # c => cl'[d] = cl[d]
        /\ cl'[c].pc \in {"rest", "send", "gate"}
        /\ cl'[c].pc = "send" => active /\ cl'[c].op = "restart"
    BY Zenon, <2>1, <2>6 DEF Callers, flagVars, lifeVars, idleVars, loopVars, reqVars,
       pubVars, execVars
  <2>8. UNCHANGED <<flagVars, loopVars, execVars>>
    BY Zenon, <1>1 DEF Call, flagVars, lifeVars, idleVars, loopVars, reqVars, pubVars,
       procVars, execVars, histVars
  <2>9. Control'
    BY Zenon, <2>6, <2>7, <2>8, CallerControl DEF IdleCaller, flagVars, lifeVars, idleVars,
       loopVars, reqVars, pubVars, execVars
  <2> QED
    BY Zenon, <2>5, <2>9
<1>2. CASE PassGate(c)
  <2>1. CASE cl' = [cl EXCEPT ![c] = NoCall] /\ UNCHANGED <<gate, blocked, sess>>
    <3>1. DataOK'
      BY Zenon, <1>2, <2>1, RecordTypes DEF DataOK, PassGate, flagVars, lifeVars, idleVars,
         loopVars, reqVars, pubVars, procVars, execVars, histVars
    <3>2. /\ cl[c].pc = "gate" /\ cl'[c].pc = "rest"
          /\ \A d \in Clients : d # c => cl'[d] = cl[d]
      BY Zenon, <1>2, <2>1 DEF DataOK, PassGate, NoCall, flagVars, lifeVars, idleVars,
         loopVars, reqVars, pubVars, procVars, execVars, histVars
    <3>3. UNCHANGED <<flagVars, loopVars, execVars>>
      BY Zenon, <1>2, <2>1 DEF PassGate, flagVars, lifeVars, idleVars, loopVars, reqVars,
         pubVars, procVars, execVars, histVars
    <3>4. Control'
      BY Zenon, <3>2, <3>3, CallerControl DEF IdleCaller, flagVars, lifeVars, idleVars,
         loopVars, reqVars, pubVars, execVars
    <3> QED
      BY Zenon, <3>1, <3>4 DEF flagVars, lifeVars, idleVars, loopVars, reqVars, pubVars,
         execVars
  <2>2. CASE ~active /\ IdleEntry(c)
    <3>1. cl' \in [Clients -> Callers] /\ sess' \in [Execs -> Sessions]
      BY Zenon, <2>2, CallerUpdate, BeginSessionType DEF DataOK, Pcs, IdleEntry
    <3>2. DataOK'
      BY Zenon, <1>2, <2>2, <3>1, Names DEF DataOK, PassGate, IdleEntry, flagVars,
         lifeVars, idleVars, loopVars, reqVars, pubVars, procVars, execVars, histVars
    <3>3. /\ cl[c].pc = "gate" /\ gate = "free" /\ gate' = c /\ IdleCaller(c)'
          /\ \A d \in Clients : d # c => cl'[d] = cl[d]
          /\ \A d \in Clients : cl'[d].pc = "sess" /\ d # c => cl[d].pc = "sess"
          /\ \A f \in Execs : f # c => sess'[f] = sess[f]
          /\ sess'[c].st # "none" => cl'[c].pc = "sess" \/ sess[c].st # "none"
          /\ UNCHANGED <<loop, active, stp, own, why>>
      BY ZenonT(60), <1>2, <2>2, Names DEF DataOK, PassGate, IdleEntry, IdleCaller,
         Callers, flagVars, lifeVars, idleVars, loopVars, reqVars, pubVars, procVars,
         execVars, histVars
    <3>4. loop \in {"off", "closed", "done"}
      BY Zenon, <2>2 DEF Control, LoopControl
    <3>5. Control'
      BY <3>3, <3>4, Names DEF Control, LoopControl, IdleControl, ExecControl, WakeControl,
         IdleCaller
    <3> QED
      BY Zenon, <3>2, <3>5
  <2>3. CASE active /\ cl' = [cl EXCEPT ![c].pc = "send"] /\ UNCHANGED <<gate, blocked, sess>>
    <3>1. DataOK'
      BY ZenonT(60), <1>2, <2>3, CallerUpdate DEF DataOK, PassGate, Pcs, flagVars,
         lifeVars, idleVars, loopVars, reqVars, pubVars, procVars, execVars, histVars
    <3>2. /\ cl[c].pc = "gate" /\ gate = "free" /\ cl'[c].pc = "send"
          /\ \A d \in Clients : d # c => cl'[d] = cl[d]
      BY Zenon, <1>2, <2>3 DEF DataOK, Callers, PassGate, flagVars, lifeVars, idleVars,
         loopVars, reqVars, pubVars, procVars, execVars, histVars
    <3>3. UNCHANGED <<flagVars, loopVars, execVars>>
      BY Zenon, <1>2, <2>3 DEF PassGate, flagVars, lifeVars, idleVars, loopVars, reqVars,
         pubVars, procVars, execVars, histVars
    <3>4. Control'
      BY Zenon, <2>3, <3>2, <3>3, CallerControl DEF IdleCaller, flagVars, lifeVars,
         idleVars, loopVars, reqVars, pubVars, execVars
    <3> QED
      BY Zenon, <3>1, <3>4 DEF flagVars, lifeVars, idleVars, loopVars, reqVars, pubVars,
         execVars
  <2> QED
    BY Zenon, <1>2, <2>1, <2>2, <2>3 DEF PassGate, flagVars, lifeVars, idleVars, loopVars,
       reqVars, pubVars, procVars, execVars, histVars
<1>3. CASE IdleWork(c)
  <2>1. DataOK'
    BY Zenon, <1>3, Names, RecordTypes DEF DataOK, IdleWork, lifeVars, idleVars, loopVars,
       reqVars, pubVars, procVars, execVars, histVars
  <2>2. Control'
    BY ZenonT(60), <1>3, Names DEF DataOK, Control, LoopControl, IdleControl, ExecControl,
       WakeControl, IdleCaller, IdleWork, Callers, NoCall, lifeVars, idleVars, loopVars,
       reqVars, pubVars, procVars, execVars, histVars
  <2> QED
    BY Zenon, <2>1, <2>2 DEF flagVars, lifeVars, idleVars, loopVars, reqVars, pubVars,
       execVars
<1>4. CASE ClientCancel(c)
  <2>1. UNCHANGED <<flagVars, loopVars, execVars>>
    BY Zenon, <1>4 DEF ClientCancel, flagVars, lifeVars, idleVars, loopVars, reqVars,
       pubVars, procVars, execVars, histVars
  <2>2. CASE cl[c].pc \in {"gate", "send"} /\ cl' = [cl EXCEPT ![c] = NoCall]
    <3>1. DataOK'
      BY Zenon, <1>4, <2>2, RecordTypes DEF DataOK, ClientCancel, flagVars, lifeVars,
         idleVars, loopVars, reqVars, pubVars, procVars, execVars, histVars
    <3>2. cl'[c].pc = "rest" /\ \A d \in Clients : d # c => cl'[d] = cl[d]
      BY Zenon, <2>2 DEF DataOK, NoCall
    <3>3. Control'
      BY Zenon, <2>1, <2>2, <3>2, CallerControl DEF IdleCaller, flagVars, lifeVars,
         idleVars, loopVars, reqVars, pubVars, execVars
    <3> QED
      BY Zenon, <3>1, <3>3
  <2>3. CASE cl[c].pc = "wait" /\ cl' = [cl EXCEPT ![c].pc = "gone"]
    <3>1. DataOK'
      BY Zenon, <1>4, <2>3, CallerUpdate DEF DataOK, ClientCancel, Pcs, flagVars, lifeVars,
         idleVars, loopVars, reqVars, pubVars, procVars, execVars, histVars
    <3>2. cl'[c].pc = "gone" /\ \A d \in Clients : d # c => cl'[d] = cl[d]
      BY Zenon, <2>3 DEF DataOK, Callers
    <3>3. Control'
      BY Zenon, <2>1, <2>3, <3>2, CallerControl DEF IdleCaller, flagVars, lifeVars,
         idleVars, loopVars, reqVars, pubVars, execVars
    <3> QED
      BY Zenon, <3>1, <3>3
  <2> QED
    BY Zenon, <1>4, <2>2, <2>3 DEF ClientCancel, flagVars, lifeVars, idleVars, loopVars,
       reqVars, pubVars, procVars, execVars, histVars
<1>5. CASE ClientRunDone(c)
  <2>1. DataOK'
    BY Zenon, <1>5, Names, RecordTypes DEF DataOK, ClientRunDone, flagVars, lifeVars,
       idleVars, loopVars, reqVars, pubVars, procVars, execVars, histVars
  <2>2. /\ cl[c].pc \in {"send", "wait"} /\ cl'[c].pc = "rest"
        /\ \A d \in Clients : d # c => cl'[d] = cl[d]
        /\ UNCHANGED <<flagVars, loopVars, execVars>>
    BY Zenon, <1>5 DEF DataOK, ClientRunDone, NoCall, flagVars, lifeVars, idleVars,
       loopVars, reqVars, pubVars, procVars, execVars, histVars
  <2>3. Control'
    BY Zenon, <2>2, CallerControl DEF IdleCaller, flagVars, lifeVars, idleVars, loopVars,
       reqVars, pubVars, execVars
  <2> QED
    BY Zenon, <2>1, <2>3 DEF flagVars, lifeVars, idleVars, loopVars, reqVars, pubVars,
       execVars
<1>6. CASE ClientReturn(c)
  <2>1. DataOK'
    BY Zenon, <1>6, Names, RecordTypes DEF DataOK, ClientReturn, flagVars, lifeVars,
       idleVars, loopVars, reqVars, pubVars, procVars, execVars, histVars
  <2>2. /\ cl[c].pc = "wait" /\ cl'[c].pc = "rest"
        /\ \A d \in Clients : d # c => cl'[d] = cl[d]
        /\ UNCHANGED <<flagVars, loopVars, execVars>>
    BY Zenon, <1>6 DEF DataOK, ClientReturn, NoCall, flagVars, lifeVars, idleVars,
       loopVars, reqVars, pubVars, procVars, execVars, histVars
  <2>3. Control'
    BY Zenon, <2>2, CallerControl DEF IdleCaller, flagVars, lifeVars, idleVars, loopVars,
       reqVars, pubVars, execVars
  <2> QED
    BY Zenon, <2>1, <2>3 DEF flagVars, lifeVars, idleVars, loopVars, reqVars, pubVars,
       execVars
<1> QED
  BY Zenon, <1>1, <1>2, <1>3, <1>4, <1>5, <1>6 DEF flagVars, lifeVars, idleVars, loopVars,
     reqVars, pubVars, execVars

\* Run, up to a launched child, preserves the invariant.
LEMMA EntrySteps ==
  ASSUME DataOK, Control,
         \/ WaitForCore
         \/ RunEnter
         \/ RunStore
         \/ CancelRun
         \/ LoopTop
         \/ IdleWake
         \/ LoopCancelled
         \/ TakeGate
         \/ Recheck
         \/ StartChild
         \/ StartFails
  PROVE  DataOK' /\ Control'
<1>1. CASE WaitForCore
  <2>1. DataOK'
    BY Zenon, <1>1, Names DEF DataOK, WaitForCore, lifeVars, loopVars, reqVars, pubVars,
       procVars, clientVars, execVars, histVars
  <2>2. Control'
    BY Zenon, <1>1, Names DEF DataOK, Control, LoopControl, IdleControl, ExecControl,
       WakeControl, IdleCaller, WaitForCore, lifeVars, loopVars, reqVars, pubVars, procVars,
       clientVars, execVars, histVars
  <2> QED
    BY Zenon, <2>1, <2>2
<1>2. CASE RunEnter
  <2>1. DataOK'
    BY <1>2, Names DEF DataOK, RunEnter, LoopPoints, idleVars, reqVars, pubVars, procVars,
       clientVars, execVars, histVars
  <2>2. Control'
    BY Zenon, <1>2, Names DEF DataOK, Control, LoopControl, IdleControl, ExecControl,
       WakeControl, IdleCaller, RunEnter, idleVars, reqVars, pubVars, procVars, clientVars,
       execVars, histVars
  <2> QED
    BY Zenon, <2>1, <2>2
<1>3. CASE RunStore
  <2>1. DataOK'
    BY Zenon, <1>3, Names DEF DataOK, RunStore, LoopPoints, idleVars, reqVars, pubVars,
       procVars, clientVars, execVars, histVars
  <2>2. Control'
    BY Zenon, <1>3, Names DEF DataOK, Control, LoopControl, IdleControl, ExecControl,
       WakeControl, IdleCaller, RunStore, idleVars, reqVars, pubVars, procVars, clientVars,
       execVars, histVars
  <2> QED
    BY Zenon, <2>1, <2>2
<1>4. CASE CancelRun
  <2>1. DataOK'
    BY <1>4, Names DEF DataOK, CancelRun, idleVars, loopVars, reqVars, pubVars, procVars,
       clientVars, execVars, histVars
  <2>2. Control'
    BY Zenon, <1>4, Names DEF DataOK, Control, LoopControl, IdleControl, ExecControl,
       WakeControl, IdleCaller, CancelRun, idleVars, loopVars, reqVars, pubVars, procVars,
       clientVars, execVars, histVars
  <2> QED
    BY Zenon, <2>1, <2>2
<1>5. CASE LoopTop
  <2>1. DataOK'
    BY <1>5, Names, ObservationType DEF DataOK, LoopTop, LoopPoints, Statuses, flagVars,
       lifeVars, idleVars, reqVars, procVars, clientVars, execVars, histVars
  <2>2. Control'
    BY Zenon, <1>5, Names DEF DataOK, Control, LoopControl, IdleControl, ExecControl,
       WakeControl, IdleCaller, LoopTop, flagVars, lifeVars, idleVars, reqVars, procVars,
       clientVars, execVars, histVars
  <2> QED
    BY Zenon, <2>1, <2>2
<1>6. CASE IdleWake
  <2>1. DataOK'
    BY <1>6, Names DEF DataOK, IdleWake, LoopPoints, lifeVars, reqVars, pubVars, procVars,
       clientVars, execVars, histVars
  <2>2. Control'
    BY Zenon, <1>6, Names DEF DataOK, Control, LoopControl, IdleControl, ExecControl,
       WakeControl, IdleCaller, IdleWake, lifeVars, reqVars, pubVars, procVars, clientVars,
       execVars, histVars
  <2> QED
    BY Zenon, <2>1, <2>2
<1>7. CASE LoopCancelled
  <2>1. DataOK'
    BY <1>7, Names DEF DataOK, LoopCancelled, LoopPoints, flagVars, lifeVars, idleVars,
       reqVars, pubVars, procVars, clientVars, execVars, histVars
  <2>2. Control'
    BY Zenon, <1>7, Names DEF DataOK, Control, LoopControl, IdleControl, ExecControl,
       WakeControl, IdleCaller, LoopCancelled, flagVars, lifeVars, idleVars, reqVars, pubVars,
       procVars, clientVars, execVars, histVars
  <2> QED
    BY Zenon, <2>1, <2>2
<1>8. CASE TakeGate
  <2>1. DataOK'
    BY Zenon, <1>8, Names DEF DataOK, TakeGate, LoopPoints, lifeVars, idleVars, reqVars,
       pubVars, procVars, clientVars, execVars, histVars
  <2>2. Control'
    BY Zenon, <1>8, Names DEF DataOK, Control, LoopControl, IdleControl, ExecControl,
       WakeControl, IdleCaller, TakeGate, lifeVars, idleVars, reqVars, pubVars, procVars,
       clientVars, execVars, histVars
  <2> QED
    BY Zenon, <2>1, <2>2 DEF reqVars, pubVars
<1>9. CASE Recheck
  <2>1. CASE /\ RefusesStart
             /\ gate' = "free" /\ loop' = "top" /\ UNCHANGED <<pending, reqVars, pubVars, mon>>
    <3>1. DataOK'
      BY Zenon, <1>9, <2>1 DEF DataOK, Recheck, LoopPoints, lifeVars, reqVars, pubVars,
         clientVars, execVars, histVars
    <3>2. Control'
      BY Zenon, <1>9, <2>1, Names DEF DataOK, Control, LoopControl, IdleControl,
         ExecControl, WakeControl, IdleCaller, Recheck, lifeVars, reqVars, pubVars,
         clientVars, execVars, histVars
    <3> QED
      BY Zenon, <3>1, <3>2
  <2>2. CASE ~RefusesStart /\ pending # 0 /\ Adopt
    <3>1. pending \in Procs
      BY Zenon, <2>2 DEF DataOK, Numbers
    <3>2. status' \in Observations /\ mon' \in [Procs -> Monitors]
      BY Zenon, <2>2, <3>1, RecordTypes, MonitorUpdate, ObservationType, Names DEF DataOK,
         Adopt, Launch, Statuses
    <3>3. DataOK'
      BY Zenon, <1>9, <2>2, <3>1, <3>2, Names DEF DataOK, Recheck, Adopt, Launch,
         LoopPoints, lifeVars, reqVars, pubVars, clientVars, execVars, histVars
    <3>4. Control'
      BY Zenon, <1>9, <2>2, Names DEF DataOK, Control, LoopControl, IdleControl,
         ExecControl, WakeControl, IdleCaller, Recheck, Adopt, Launch, lifeVars, reqVars,
         pubVars, clientVars, execVars, histVars
    <3> QED
      BY Zenon, <3>3, <3>4 DEF reqVars, pubVars
  <2>3. CASE /\ ~RefusesStart /\ loop' = "start"
             /\ UNCHANGED <<gate, pending, reqVars, pubVars, mon>>
    <3>1. DataOK'
      BY <1>9, <2>3 DEF DataOK, Recheck, LoopPoints, lifeVars, reqVars, pubVars,
         clientVars, execVars, histVars
    <3>2. Control'
      BY Zenon, <1>9, <2>3, Names DEF DataOK, Control, LoopControl, IdleControl,
         ExecControl, WakeControl, IdleCaller, Recheck, RefusesStart, lifeVars, reqVars,
         pubVars, clientVars, execVars, histVars
    <3> QED
      BY Zenon, <3>1, <3>2
  <2> QED
    BY Zenon, <1>9, <2>1, <2>2, <2>3 DEF Recheck, lifeVars, reqVars, pubVars, clientVars,
       execVars, histVars
<1>10. CASE StartChild
  <2>1. PICK p \in Procs : proc' = [proc EXCEPT ![p] = "alive"] /\ Launch(p)
    BY Zenon, <1>10 DEF StartChild, lifeVars, idleVars, clientVars, execVars, histVars
  <2>2. status' \in Observations /\ mon' \in [Procs -> Monitors]
    BY Zenon, <2>1, RecordTypes, MonitorUpdate, ObservationType, Names DEF DataOK, Launch,
       Statuses
  <2>3. DataOK'
    BY Zenon, <1>10, <2>1, <2>2, Names DEF DataOK, StartChild, Launch, LoopPoints,
       lifeVars, idleVars, clientVars, execVars, histVars
  <2>4. Control'
    BY Zenon, <1>10, <2>1, Names DEF DataOK, Control, LoopControl, IdleControl,
       ExecControl, WakeControl, IdleCaller, StartChild, Launch, lifeVars, idleVars,
       clientVars, execVars, histVars
  <2> QED
    BY Zenon, <2>3, <2>4
<1>11. CASE StartFails
  <2>1. DataOK'
    BY <1>11, Names, ObservationType DEF DataOK, StartFails, LoopPoints, Statuses,
       lifeVars, idleVars, reqVars, procVars, clientVars, execVars, histVars
  <2>2. Control'
    BY Zenon, <1>11, Names DEF DataOK, Control, LoopControl, IdleControl, ExecControl,
       WakeControl, IdleCaller, StartFails, lifeVars, idleVars, reqVars, procVars, clientVars,
       execVars, histVars
  <2> QED
    BY Zenon, <2>1, <2>2
<1> QED
  BY Zenon, <1>1, <1>2, <1>3, <1>4, <1>5, <1>6, <1>7, <1>8, <1>9, <1>10, <1>11 DEF reqVars,
     pubVars

\* Taking a request preserves the invariant.
LEMMA RequestSteps ==
  ASSUME DataOK, Control, NEW c \in Clients,
         \/ IdleReject(c)
         \/ IdleUpdate(c)
         \/ OwnRequest(c)
         \/ BackoffRestart(c)
         \/ BackoffOwned(c)
  PROVE  DataOK' /\ Control'
<1>1. CASE IdleReject(c)
  <2>1. DataOK'
    BY ZenonT(60), <1>1, Names, CallerUpdate DEF DataOK, IdleReject, LoopPoints, Pcs,
       Results, flagVars, lifeVars, idleVars, reqVars, pubVars, procVars, execVars, histVars
  <2>2. Control'
    BY <1>1, Names DEF DataOK, Control, LoopControl, IdleControl, ExecControl, WakeControl,
       IdleCaller, IdleReject, Callers, Offers, flagVars, lifeVars, idleVars, reqVars,
       pubVars, procVars, execVars, histVars
  <2> QED
    BY Zenon, <2>1, <2>2
<1>2. CASE IdleUpdate(c)
  <2>1. DataOK'
    BY Zenon, <1>2, Names, CallerUpdate, BeginSessionType DEF DataOK, IdleUpdate,
       LoopPoints, Pcs, lifeVars, idleVars, pubVars, procVars, histVars
  <2>2. Control'
    BY <1>2, Names DEF DataOK, Control, LoopControl, IdleControl, ExecControl, WakeControl,
       IdleCaller, IdleUpdate, Callers, Offers, Sessions, lifeVars, idleVars, pubVars,
       procVars, histVars
  <2> QED
    BY Zenon, <2>1, <2>2
<1>3. CASE OwnRequest(c)
  <2>1. cl' \in [Clients -> Callers] /\ stp' \in [Execs -> Stops]
    BY Zenon, <1>3, CallerUpdate, BeginStopType, Members DEF DataOK, OwnRequest, flagVars,
       lifeVars, idleVars, pubVars, procVars, histVars
  <2>2. why' \in Ops /\ why' # "reinstall"
    BY Zenon, <1>3 DEF OwnRequest, Offers, Ops, flagVars, lifeVars, idleVars, pubVars,
       procVars, histVars
  <2>3. DataOK'
    BY Zenon, <1>3, <2>1, <2>2 DEF DataOK, OwnRequest, LoopPoints, Ops, flagVars, lifeVars,
       idleVars, pubVars, procVars, histVars
  <2>4. Control'
    BY <1>3, Names DEF DataOK, Control, LoopControl, IdleControl, ExecControl, WakeControl,
       IdleCaller, OwnRequest, Offers, BeginStop, Callers, Stops, flagVars, lifeVars,
       idleVars, pubVars, procVars, histVars
  <2> QED
    BY Zenon, <2>3, <2>4
<1>4. CASE BackoffRestart(c)
  <2>1. cl' \in [Clients -> Callers]
    BY Zenon, <1>4, CallerUpdate, Members DEF DataOK, BackoffRestart, flagVars, lifeVars,
       idleVars, reqVars, procVars, execVars, histVars
  <2>2. DataOK'
    BY <1>4, <2>1 DEF DataOK, BackoffRestart, LoopPoints, flagVars, lifeVars, idleVars,
       reqVars, procVars, execVars, histVars
  <2>3. Control'
    BY <1>4, Names DEF DataOK, Control, LoopControl, IdleControl, ExecControl, WakeControl,
       IdleCaller, BackoffRestart, Offers, Callers, flagVars, lifeVars, idleVars, reqVars,
       procVars, execVars, histVars
  <2> QED
    BY Zenon, <2>2, <2>3
<1>5. CASE BackoffOwned(c)
  <2>1. cl' \in [Clients -> Callers]
    BY Zenon, <1>5, CallerUpdate, Members DEF DataOK, BackoffOwned, flagVars, lifeVars,
       idleVars, pubVars, procVars, histVars
  <2>2. BeginSession(TRUE) \in Sessions /\ sess \in [Execs -> Sessions]
    BY BeginSessionType, Zenon DEF DataOK
  <2>3. sess' \in [Execs -> Sessions]
    BY Zenon, <1>5, <2>2 DEF BackoffOwned, flagVars, lifeVars, idleVars, pubVars, procVars,
       histVars
  <2>4. DataOK'
    BY Zenon, <1>5, <2>1, <2>3 DEF DataOK, BackoffOwned, LoopPoints, flagVars, lifeVars,
       idleVars, pubVars, procVars, histVars
  <2>5. /\ loop = "backoff" /\ UNCHANGED <<flagVars, own, why, stp>>
        /\ \A d \in Clients : cl'[d].pc # cl[d].pc => cl[d].pc = "send" /\ cl'[d].pc = "wait"
    BY Zenon, <1>5 DEF DataOK, BackoffOwned, Offers, Callers, flagVars, lifeVars, idleVars,
       pubVars, procVars, histVars
  <2>6. /\ \A d \in Clients : sess'[d] = sess[d]
        /\ loop' = "upd" \/ (loop' = "work" /\ sess' = sess)
    BY Zenon, <1>5, <2>2, Names DEF BackoffOwned, flagVars, lifeVars, idleVars, pubVars,
       procVars, histVars
  <2>7. Control'
    <3>1. LoopControl'
      BY Zenon, <2>5, <2>6, Names DEF DataOK, Control, LoopControl, IdleControl,
         ExecControl, WakeControl, IdleCaller, flagVars, lifeVars, idleVars
    <3>2. IdleControl'
      BY Zenon, <2>5, <2>6, Names DEF DataOK, Control, LoopControl, IdleControl,
         ExecControl, WakeControl, IdleCaller, flagVars, lifeVars, idleVars
    <3>3. ExecControl'
      BY <2>5, <2>6 DEF Control, ExecControl
    <3>4. WakeControl'
      BY Zenon, <2>5, <2>6, Names DEF DataOK, Control, LoopControl, IdleControl,
         ExecControl, WakeControl, IdleCaller, flagVars, lifeVars, idleVars
    <3> QED
      BY Zenon, <3>1, <3>2, <3>3, <3>4 DEF Control
  <2> QED
    BY Zenon, <2>4, <2>7 DEF flagVars, lifeVars, idleVars
<1> QED
  BY Zenon, <1>1, <1>2, <1>3, <1>4, <1>5

\* The loop with its child, and the deferred functions, preserve the invariant.
LEMMA ChildSteps ==
  ASSUME DataOK, Control,
         \/ OwnCancelled
         \/ OwnUnhealthy
         \/ OwnExited
         \/ OwnStopped
         \/ JoinedPlain
         \/ JoinedExit
         \/ JoinedRestart
         \/ JoinedOwned
         \/ OwnJoined
         \/ LoopWork
         \/ BackoffEnds
         \/ DeferGate
         \/ DeferStopped
         \/ Deactivate
         \/ CloseRunDone
  PROVE  DataOK' /\ Control'
<1>1. CASE OwnCancelled
  <2>1. DataOK'
    BY Zenon, <1>1, Names, BeginStopType DEF DataOK, OwnCancelled, LoopPoints, flagVars,
       lifeVars, idleVars, pubVars, procVars, clientVars, histVars
  <2>2. /\ loop = "own" /\ loop' = "stop" /\ UNCHANGED <<flagVars, cl, own, sess>>
        /\ stp'["run"].ph = "wait" /\ stp'["run"].p = own
        /\ \A c \in Clients : stp'[c] = stp[c]
    BY Zenon, <1>1, Names DEF DataOK, OwnCancelled, BeginStop, flagVars, lifeVars,
       idleVars, pubVars, procVars, clientVars, histVars
  <2>3. LoopControl' /\ RunControl'
    BY Zenon, <2>2, Names DEF Control, LoopControl, ExecControl, RunControl, flagVars,
       lifeVars, idleVars
  <2>4. Control'
    BY Zenon, <2>2, <2>3, Names, RunSteps DEF flagVars, lifeVars, idleVars
  <2> QED
    BY Zenon, <2>1, <2>4 DEF flagVars, lifeVars, idleVars
<1>2. CASE OwnUnhealthy
  <2>1. DataOK'
    BY Zenon, <1>2, Names, BeginStopType, MonitorUpdate DEF DataOK, OwnUnhealthy,
       LoopPoints, flagVars, lifeVars, idleVars, pubVars, clientVars, histVars
  <2>2. Control'
    BY <1>2, Names DEF DataOK, Control, LoopControl, IdleControl, ExecControl, WakeControl,
       IdleCaller, OwnUnhealthy, Stops, BeginStop, flagVars, lifeVars, idleVars, pubVars,
       clientVars, histVars
  <2> QED
    BY Zenon, <2>1, <2>2
<1>3. CASE OwnExited
  <2>1. DataOK'
    BY ZenonT(60), <1>3, Names DEF DataOK, OwnExited, LoopPoints, flagVars, lifeVars,
       idleVars, pubVars, clientVars, execVars, histVars
  <2>2. Control'
    BY Zenon, <1>3, Names DEF DataOK, Control, LoopControl, IdleControl, ExecControl,
       WakeControl, IdleCaller, OwnExited, flagVars, lifeVars, idleVars, pubVars, clientVars,
       execVars, histVars
  <2> QED
    BY Zenon, <2>1, <2>2
<1>4. CASE OwnStopped
  <2>1. DataOK'
    BY <1>4, Names DEF DataOK, OwnStopped, LoopPoints, flagVars, lifeVars, idleVars,
       reqVars, pubVars, procVars, clientVars, execVars, histVars
  <2>2. Control'
    BY Zenon, <1>4, Names DEF DataOK, Control, LoopControl, IdleControl, ExecControl,
       WakeControl, IdleCaller, OwnStopped, StopEnded, flagVars, lifeVars, idleVars, reqVars,
       pubVars, procVars, clientVars, execVars, histVars
  <2> QED
    BY Zenon, <2>1, <2>2
<1>5. CASE JoinedPlain
  <2>1. Failed("run") \subseteq Procs
    BY Zenon, Names DEF DataOK, Control, ExecControl, Failed, Stops
  <2>2. stp' \in [Execs -> Stops] /\ status' \in Observations /\ loop' \in LoopPoints
    BY Zenon, <1>5, ObservationType, RecordTypes, Names DEF DataOK, JoinedPlain,
       LeaveChild, Statuses, LoopPoints, flagVars, lifeVars, idleVars, procVars, clientVars
  <2>3. DataOK'
    BY Zenon, <1>5, <2>1, <2>2, Names DEF DataOK, JoinedPlain, LeaveChild, flagVars,
       lifeVars, idleVars, procVars, clientVars
  <2>4. /\ loop = "join" /\ loop' \in {"defer", "top", "backoff"}
        /\ UNCHANGED <<flagVars, cl, sess>>
        /\ stp'["run"].ph = "none" /\ \A c \in Clients : stp'[c] = stp[c]
    BY Zenon, <1>5, Names DEF DataOK, JoinedPlain, MonitorJoined, LeaveChild, NoStop,
       flagVars, lifeVars, idleVars, procVars, clientVars
  <2>5. LoopControl' /\ RunControl'
    BY Zenon, <2>4, Names DEF Control, LoopControl, ExecControl, RunControl, flagVars,
       lifeVars, idleVars
  <2>6. Control'
    BY Zenon, <2>4, <2>5, Names, RunSteps DEF flagVars, lifeVars, idleVars
  <2> QED
    BY Zenon, <2>3, <2>6 DEF flagVars, lifeVars, idleVars
<1>6. CASE JoinedExit
  <2>1. DataOK'
    BY Zenon, <1>6, Names, ObservationType DEF DataOK, JoinedExit, LoopPoints, Statuses,
       LeaveChild, MonitorJoined, Numbers, Control, LoopControl, lifeVars, idleVars, procVars,
       clientVars, execVars
  <2>2. Control'
    BY Zenon, <1>6, Names DEF DataOK, Control, LoopControl, IdleControl, ExecControl,
       WakeControl, IdleCaller, JoinedExit, LeaveChild, MonitorJoined, lifeVars, idleVars,
       procVars, clientVars, execVars
  <2> QED
    BY Zenon, <2>1, <2>2
<1>7. CASE JoinedRestart
  <2>1. stp["run"].ph \in {"ok", "err"} /\ Failed("run") \subseteq Procs
    BY <1>7, Names DEF DataOK, Control, ExecControl, JoinedRestart, MonitorJoined, Failed,
       Stops, flagVars, lifeVars, idleVars, procVars
  <2>2. cl' \in [Clients -> Callers]
    BY Zenon, <1>7, <2>1, CallerUpdate DEF DataOK, JoinedRestart, Results, flagVars,
       lifeVars, idleVars, procVars
  <2>3. stp' \in [Execs -> Stops] /\ status' \in Observations
    BY Zenon, <1>7, RecordTypes, ObservationType, Names DEF DataOK, JoinedRestart,
       Statuses, flagVars, lifeVars, idleVars, procVars
  <2>4. DataOK'
    BY <1>7, <2>1, <2>2, <2>3, Names DEF DataOK, JoinedRestart, LoopPoints, flagVars,
       lifeVars, idleVars, procVars
  <2>5. Control'
    BY <1>7, Names DEF DataOK, Control, LoopControl, IdleControl, ExecControl, WakeControl,
       IdleCaller, JoinedRestart, MonitorJoined, NoStop, Stops, Callers, flagVars, lifeVars,
       idleVars, procVars
  <2> QED
    BY Zenon, <2>4, <2>5
<1>8. CASE JoinedOwned
  <2>1. DataOK'
    BY ZenonT(60), <1>8, Names, CallerUpdate DEF DataOK, JoinedOwned, LoopPoints, Results,
       lifeVars, idleVars, pubVars, procVars, execVars, histVars
  <2>2. Control'
    BY <1>8, Names DEF DataOK, Control, LoopControl, IdleControl, ExecControl, WakeControl,
       IdleCaller, JoinedOwned, MonitorJoined, Callers, StopFailed, lifeVars, idleVars,
       pubVars, procVars, execVars, histVars
  <2> QED
    BY Zenon, <2>1, <2>2
<1>9. CASE OwnJoined
  <2>1. Failed("run") \subseteq Procs
    BY Zenon, Names DEF DataOK, Control, ExecControl, Failed, Stops
  <2>2. stp' \in [Execs -> Stops] /\ stp'["run"].ph = "none"
        /\ \A c \in Clients : stp'[c] = stp[c]
    BY Zenon, <1>9, RecordTypes, Names DEF DataOK, OwnJoined, NoStop, flagVars, lifeVars,
       idleVars, reqVars, pubVars, procVars, clientVars
  <2>3. CASE Resume(status) /\ UNCHANGED sess
    <3>1. status' \in Observations
      BY Zenon, <2>3, ObservationType, Names DEF DataOK, Resume, Statuses
    <3>2. /\ loop' \in {"defer", "top"} /\ restarts' \in Nat
          /\ own' = 0 /\ cur' = "none" /\ why' = "none" /\ ret' = "none"
      BY <2>3 DEF DataOK, Resume
    <3>3. DataOK'
      BY Zenon, <1>9, <2>1, <2>2, <2>3, <3>1, <3>2, Names DEF DataOK, OwnJoined,
         LoopPoints, flagVars, lifeVars, idleVars, reqVars, pubVars, procVars, clientVars
    <3>4. loop = "joined" /\ UNCHANGED <<flagVars, cl, sess>>
      BY Zenon, <1>9, <2>3 DEF OwnJoined, flagVars, lifeVars, idleVars, reqVars, pubVars,
         procVars, clientVars
    <3>5. LoopControl' /\ RunControl'
      BY Zenon, <2>2, <3>2, <3>4, Names DEF Control, LoopControl, ExecControl, RunControl,
         flagVars, lifeVars, idleVars
    <3>6. Control'
      BY Zenon, <2>2, <3>2, <3>4, <3>5, Names, RunSteps DEF flagVars, lifeVars, idleVars,
         reqVars, pubVars
    <3> QED
      BY Zenon, <3>3, <3>6 DEF flagVars, lifeVars, idleVars, reqVars, pubVars
  <2>4. CASE /\ loop' = "upd" /\ sess' = [sess EXCEPT !["run"] = BeginSession(TRUE)]
             /\ UNCHANGED <<reqVars, pubVars>>
    <3>1. BeginSession(TRUE) \in Sessions
      BY BeginSessionType, Zenon
    <3>2. sess' \in [Execs -> Sessions]
      BY Zenon, <2>4, <3>1 DEF DataOK, flagVars, lifeVars, idleVars, reqVars, pubVars,
         clientVars
    <3>3. DataOK'
      BY Zenon, <1>9, <2>1, <2>2, <2>4, <3>2 DEF DataOK, OwnJoined, LoopPoints, flagVars,
         lifeVars, idleVars, reqVars, pubVars, procVars, clientVars
    <3>4. /\ loop = "joined" /\ loop' = "upd" /\ UNCHANGED <<flagVars, clientVars>>
          /\ \A c \in Clients : sess'[c] = sess[c]
      BY Zenon, <1>9, <2>4, Names DEF DataOK, OwnJoined, flagVars, lifeVars, idleVars,
         reqVars, pubVars, procVars, clientVars
    <3>5. LoopControl' /\ WakeControl'
      BY ZenonT(60), <2>4, <3>4, Names DEF Control, LoopControl, WakeControl, flagVars,
         lifeVars, idleVars, reqVars, pubVars, clientVars
    <3>6. IdleControl'
      BY Zenon, <3>4 DEF Control, IdleControl, IdleCaller, flagVars, lifeVars, idleVars,
         clientVars
    <3>7. ExecControl'
      BY Zenon, <2>2, <3>4, Names DEF Control, ExecControl, flagVars, lifeVars, idleVars,
         clientVars
    <3> QED
      BY Zenon, <3>3, <3>5, <3>6, <3>7 DEF Control, flagVars, lifeVars, idleVars,
         clientVars
  <2> QED
    BY Zenon, <1>9, <2>3, <2>4 DEF OwnJoined, flagVars, lifeVars, idleVars, reqVars,
       pubVars, procVars, clientVars
<1>10. CASE LoopWork
  <2>1. PICK res \in Results :
          blocked' = (blocked \/ res = "degraded") /\ cl' = [cl EXCEPT ![cur].resp = res]
    BY Zenon, <1>10 DEF LoopWork, lifeVars, idleVars, procVars, histVars
  <2>2. cl' \in [Clients -> Callers]
    BY Zenon, <2>1, CallerUpdate DEF DataOK
  <2>3. stp' \in [Execs -> Stops] /\ status' \in Observations
    BY Zenon, <1>10, RecordTypes, ObservationType, Names DEF DataOK, LoopWork, Resume,
       Statuses, lifeVars, idleVars, procVars, histVars
  <2>4. DataOK'
    BY <1>10, <2>2, <2>3, Names DEF DataOK, LoopWork, Resume, LoopPoints, lifeVars,
       idleVars, procVars, histVars
  <2>5. /\ loop = "work" /\ loop' \in {"defer", "top"} /\ UNCHANGED <<gate, active, sess>>
        /\ stp'["run"].ph = "none" /\ \A c \in Clients : stp'[c] = stp[c]
    BY Zenon, <1>10, Names DEF DataOK, LoopWork, Resume, NoStop, lifeVars, idleVars,
       procVars, histVars
  <2>6. \A c \in Clients : cl'[c].pc = cl[c].pc /\ cl'[c].op = cl[c].op
    BY Zenon, <2>1 DEF DataOK, Callers
  <2>7. \A c \in Clients : ~IdleCaller(c) /\ ~IdleCaller(c)'
    BY Zenon, <2>5, <2>6 DEF Control, IdleControl, IdleCaller
  <2>8. LoopControl' /\ IdleControl' /\ WakeControl'
    BY Zenon, <2>5, <2>6, <2>7, Names DEF Control, LoopControl, IdleControl, WakeControl
  <2>9. ExecControl'
    BY <2>5, <2>6, Names DEF Control, ExecControl
  <2> QED
    BY Zenon, <2>4, <2>8, <2>9 DEF Control
<1>11. CASE BackoffEnds
  <2>0. restarts \in Nat /\ Observation("stopped", 0, restarts) \in Observations
    BY Zenon, ObservationType, Names DEF DataOK, Statuses
  <2>1. status' \in Observations /\ restarts' \in Nat
    <3>1. restarts' \in {restarts, restarts + 1} /\ status' \in {status, Observation("stopped", 0, restarts)}
      BY Zenon, <1>11 DEF BackoffEnds
    <3>2. restarts' \in Nat
      BY <2>0, <3>1
    <3> QED
      BY Zenon, <2>0, <3>1, <3>2 DEF DataOK
  <2>2. DataOK'
    BY Zenon, <1>11, <2>1, Names DEF DataOK, BackoffEnds, LoopPoints, flagVars, lifeVars,
       idleVars, reqVars, procVars, clientVars, execVars, histVars
  <2>3. /\ loop = "backoff" /\ loop' \in {"defer", "top"}
        /\ UNCHANGED <<flagVars, cl, sess, stp>>
    BY Zenon, <1>11 DEF BackoffEnds, flagVars, lifeVars, idleVars, reqVars, procVars,
       clientVars, execVars, histVars
  <2>4. LoopControl' /\ RunControl'
    BY Zenon, <2>3, Names DEF Control, LoopControl, ExecControl, RunControl, flagVars,
       lifeVars, idleVars
  <2>5. Control'
    BY Zenon, <2>3, <2>4, Names, RunSteps DEF flagVars, lifeVars, idleVars
  <2> QED
    BY Zenon, <2>2, <2>5 DEF flagVars, lifeVars, idleVars
<1>12. CASE DeferGate
  <2>1. BeginStop(pending) \in Stops
    BY Zenon, BeginStopType DEF DataOK
  <2>2. stp' \in [Execs -> Stops] /\ gate' \in {gate, "run"} /\ loop' \in {"dstop", "closing"}
    <3>1. /\ stp' = stp \/ stp' = [stp EXCEPT !["run"] = BeginStop(pending)]
          /\ gate' \in {gate, "run"} /\ loop' \in {"dstop", "closing"}
      BY Zenon, <1>12 DEF DeferGate
    <3> QED
      BY Zenon, <2>1, <3>1 DEF DataOK
  <2>3. DataOK'
    <3>1. UNCHANGED <<procVars, reqVars, lifeVars, pending, pubVars, clientVars, histVars, sess>>
      BY Zenon, <1>12 DEF DeferGate, idleVars
    <3>2. gate' \in {"free"} \cup Execs /\ loop' \in LoopPoints
      BY <2>2, Names DEF DataOK, LoopPoints
    <3>3. UNCHANGED <<runDone, pending, own, why, ret, cur, restarts, status>>
      BY Zenon, <3>1 DEF lifeVars, reqVars, pubVars
    <3>4. UNCHANGED <<proc, tok, desc, mon, cl, calls, sess, abandoned, displaced>>
      BY Zenon, <3>1 DEF procVars, clientVars, histVars
    <3> QED
      BY Zenon, <2>2, <3>2, <3>3, <3>4 DEF DataOK
  <2>4. /\ loop = "defer" /\ gate = "free" /\ UNCHANGED <<active, blocked, cl, sess>>
        /\ \/ gate' = "run" /\ loop' = "dstop"
           \/ gate' = "free" /\ loop' = "closing" /\ stp' = stp
    BY Zenon, <1>12 DEF DeferGate, lifeVars, idleVars, reqVars, pubVars, procVars,
       clientVars, histVars
  <2>5. /\ \A c \in Clients : stp'[c] = stp[c]
        /\ loop' = "dstop" => stp'["run"].ph = "wait" /\ stp'["run"].p # 0
    BY <1>12, Names DEF DataOK, DeferGate, BeginStop
  <2>6. LoopControl' /\ RunControl'
    BY Zenon, <2>4, <2>5, Names DEF Control, LoopControl, ExecControl, RunControl
  <2>7. Control'
    BY Zenon, <2>4, <2>5, <2>6, Names, RunSteps
  <2> QED
    BY Zenon, <2>3, <2>7
<1>13. CASE DeferStopped
  <2>1. Failed("run") \subseteq Procs
    BY Zenon, Names DEF DataOK, Control, ExecControl, Failed, Stops
  <2>2. stp' \in [Execs -> Stops]
    BY Zenon, <1>13, RecordTypes, Names DEF DataOK, DeferStopped, lifeVars, reqVars,
       pubVars, procVars, clientVars
  <2>3. DataOK'
    BY Zenon, <1>13, <2>1, <2>2, Names DEF DataOK, DeferStopped, LoopPoints, lifeVars,
       reqVars, pubVars, procVars, clientVars
  <2>4. /\ loop = "dstop" /\ loop' = "closing" /\ gate' = "free"
        /\ UNCHANGED <<active, blocked, cl, sess>>
        /\ stp'["run"].ph = "none" /\ \A c \in Clients : stp'[c] = stp[c]
    BY Zenon, <1>13, Names DEF DataOK, DeferStopped, NoStop, lifeVars, reqVars, pubVars,
       procVars, clientVars
  <2>5. LoopControl' /\ RunControl'
    BY Zenon, <2>4, Names DEF Control, LoopControl, ExecControl, RunControl
  <2>6. Control'
    BY Zenon, <2>4, <2>5, Names, RunSteps
  <2> QED
    BY Zenon, <2>3, <2>6
<1>14. CASE Deactivate
  <2>1. DataOK'
    BY <1>14, Names DEF DataOK, Deactivate, LoopPoints, idleVars, reqVars, pubVars,
       procVars, clientVars, execVars, histVars
  <2>2. Control'
    BY Zenon, <1>14, Names DEF DataOK, Control, LoopControl, IdleControl, ExecControl,
       WakeControl, IdleCaller, Deactivate, idleVars, reqVars, pubVars, procVars, clientVars,
       execVars, histVars
  <2> QED
    BY Zenon, <2>1, <2>2
<1>15. CASE CloseRunDone
  <2>1. DataOK'
    BY Zenon, <1>15, Names DEF DataOK, CloseRunDone, LoopPoints, idleVars, reqVars,
       pubVars, procVars, clientVars, execVars, histVars
  <2>2. Control'
    BY Zenon, <1>15, Names DEF DataOK, Control, LoopControl, IdleControl, ExecControl,
       WakeControl, IdleCaller, CloseRunDone, idleVars, reqVars, pubVars, procVars,
       clientVars, execVars, histVars
  <2> QED
    BY Zenon, <2>1, <2>2
<1> QED
  BY <1>1, <1>2, <1>3, <1>4, <1>5, <1>6, <1>7, <1>8, <1>9, <1>10, <1>11, <1>12, <1>13,
     <1>14, <1>15 DEF flagVars, lifeVars, idleVars

\* The return from performUpdate preserves the invariant: the loop goes on, or an
\* idle caller releases the gate that it alone could hold.
LEMMA EndUpdateStep ==
  ASSUME DataOK, Control, NEW e \in Execs, NEW res \in {"none"} \cup Results, NEW obs \in Observations,
         sess[e].st # "none", EndUpdate(e, res, obs),
         UNCHANGED <<lifeVars, procVars, calls>>, blocked' \/ wake',
         pending' \in Numbers, abandoned' \subseteq Procs, displaced' \subseteq Procs
  PROVE  DataOK' /\ Control'
<1>1. /\ sess' \in [Execs -> Sessions] /\ stp' \in [Execs -> Stops]
      /\ sess'[e].st = "none" /\ stp'[e].ph = "none"
      /\ \A f \in Execs : f # e => sess'[f] = sess[f] /\ stp'[f] = stp[f]
  BY Zenon, RecordTypes DEF DataOK, EndUpdate, NoSession, NoStop, lifeVars, reqVars,
     procVars
<1>2. CASE e = "run"
  <2>1. /\ Resume(obs) /\ gate' = gate /\ cl' = [cl EXCEPT ![cur].resp = res]
    BY Zenon, <1>2 DEF EndUpdate, lifeVars, reqVars, procVars
  <2>2. cl' \in [Clients -> Callers] /\ \A c \in Clients : cl'[c].pc = cl[c].pc
    <3>1. CASE cur = "none"
      BY Zenon, <2>1, <3>1, Names DEF DataOK, lifeVars, procVars
    <3>2. CASE cur \in Clients
      <4>1. [cl[cur] EXCEPT !.resp = res] \in Callers
        BY Zenon, <3>2, CallerUpdate DEF DataOK, lifeVars, procVars
      <4> QED
        BY Zenon, <2>1, <3>2, <4>1 DEF DataOK, Callers, lifeVars, procVars
    <3> QED
      BY Zenon, <3>1, <3>2 DEF DataOK, lifeVars, procVars
  <2>3. loop = "upd" /\ loop' \in {"top", "defer"} /\ own' = 0
    BY Zenon, <1>2, <2>1 DEF Control, ExecControl, Resume, lifeVars, procVars
  <2>4. status' \in Observations /\ restarts' \in Nat
    BY <2>1, ObservationType, Names DEF DataOK, Resume, Statuses, lifeVars, procVars
  <2>5. DataOK'
    BY Zenon, <1>1, <2>1, <2>2, <2>3, <2>4, Names DEF DataOK, Resume, LoopPoints, lifeVars,
       procVars
  <2>6. LoopControl' /\ IdleControl' /\ WakeControl'
    BY Zenon, <2>1, <2>2, <2>3, Names DEF DataOK, Control, LoopControl, IdleControl,
       WakeControl, IdleCaller, lifeVars, procVars
  <2>7. ExecControl'
    BY ZenonT(60), <1>1, <1>2, <2>2, <2>3, Names DEF Control, ExecControl, lifeVars,
       procVars
  <2> QED
    BY Zenon, <2>5, <2>6, <2>7 DEF Control, lifeVars, reqVars, procVars
<1>3. CASE e # "run"
  <2>1. /\ cl' = [cl EXCEPT ![e].pc = "wait", ![e].resp = res]
        /\ gate' = "free" /\ status' = obs /\ UNCHANGED <<reqVars, loop, restarts>>
    BY Zenon, <1>3 DEF EndUpdate, lifeVars, reqVars, procVars
  <2>2. e \in Clients /\ cl[e].pc = "sess" /\ IdleCaller(e)
    BY Zenon, <1>3, Names DEF Control, ExecControl, IdleCaller, lifeVars, reqVars, procVars
  <2>3. cl' \in [Clients -> Callers]
    BY Zenon, <2>1, <2>2, CallerUpdate, Members DEF DataOK, lifeVars, reqVars, procVars
  <2>4. cl'[e].pc = "wait" /\ \A c \in Clients : c # e => cl'[c] = cl[c]
    BY Zenon, <2>1, <2>2 DEF DataOK, Callers, lifeVars, reqVars, procVars
  <2>5. DataOK'
    BY Zenon, <1>1, <2>1, <2>3, Names DEF DataOK, lifeVars, reqVars, procVars
  <2>6. LoopControl' /\ IdleControl' /\ WakeControl'
    BY ZenonT(60), <2>1, <2>2, <2>4, Names DEF Control, LoopControl, IdleControl,
       WakeControl, IdleCaller, lifeVars, reqVars, procVars
  <2>7. ExecControl'
    <3>1. /\ sess'["run"] = sess["run"] /\ stp'["run"] = stp["run"]
          /\ loop' = loop /\ why' = why
      BY Zenon, <1>1, <1>3, <2>1, Names DEF lifeVars, reqVars, procVars
    <3>2. \A c \in Clients : c # e =>
            sess'[c] = sess[c] /\ stp'[c] = stp[c] /\ cl'[c] = cl[c]
      BY Zenon, <1>1, <2>4, Names DEF lifeVars, procVars
    <3>3. /\ \A c \in Clients : sess'[c].st # "none" => cl'[c].pc = "sess"
          /\ \A c \in Clients :
               stp'[c].ph \in {"wait", "killed", "desc"} => cl'[c].pc = "sess"
      BY Zenon, <1>1, <3>2 DEF Control, ExecControl, lifeVars, procVars
    <3>4. \A f \in Execs : stp'[f].ph # "none" => stp'[f].p # 0
      BY Zenon, <1>1 DEF Control, ExecControl, lifeVars, procVars
    <3>5. /\ sess'["run"].st # "none" => loop' = "upd"
          /\ stp'["run"].ph \in {"wait", "killed", "desc"} => loop' \in {"stop", "dstop", "upd"}
          /\ loop' = "join" /\ why' # "exit" => stp'["run"].ph \in {"ok", "err"}
      BY <3>1, Zenon DEF Control, ExecControl, lifeVars, procVars
    <3> QED
      BY Zenon, <3>3, <3>4, <3>5 DEF ExecControl, lifeVars, procVars
  <2> QED
    BY Zenon, <2>5, <2>6, <2>7 DEF Control, lifeVars, procVars
<1> QED
  BY Zenon, <1>2, <1>3 DEF lifeVars, reqVars, procVars

\* The three ways performUpdate ends preserve the invariant.
LEMMA FinishSteps ==
  ASSUME DataOK, Control, NEW e \in Execs,
         SessionDegraded(e) \/ SessionKeepFails(e) \/ SessionFinish(e)
  PROVE  DataOK' /\ Control'
<1>1. Failed(e) \subseteq Procs
  BY Zenon, Names DEF DataOK, Control, ExecControl, Failed, Stops
<1>2. CASE SessionDegraded(e)
  <2>1. Observation("degraded", 0, 0) \in Observations /\ "degraded" \in Results
    BY Zenon, ObservationType, Names DEF Statuses, Results
  <2>2. sess[e].st # "none" /\ abandoned' \subseteq Procs
    BY Zenon, <1>1, <1>2 DEF SessionDegraded, DataOK, lifeVars, idleVars, procVars
  <2> QED
    BY Zenon, <1>2, <2>1, <2>2, EndUpdateStep DEF SessionDegraded, DataOK, lifeVars,
       idleVars, procVars
<1>3. CASE SessionKeepFails(e)
  <2>1. sess[e].st # "none" /\ abandoned' \subseteq Procs
    BY Zenon, <1>1, <1>3 DEF SessionKeepFails, DataOK, lifeVars, idleVars, procVars
  <2> QED
    BY Zenon, <1>3, <2>1, Members, EndUpdateStep DEF SessionKeepFails, DataOK, lifeVars,
       idleVars, procVars
<1>4. CASE SessionFinish(e)
  <2>1. ASSUME NEW p \in Numbers, NEW res \in {"none"} \cup Results, NEW keep \in BOOLEAN,
               sess[e].st # "none", Settle(e, p, res, keep)
        PROVE  DataOK' /\ Control'
    <3>1. displaced' \subseteq Procs
      BY Zenon, <2>1 DEF Settle, DataOK, Numbers, lifeVars, procVars
    <3> QED
      BY Zenon, <2>1, <3>1, EndUpdateStep DEF Settle, Wake, DataOK, lifeVars, procVars
  <2>2. sess[e].p \in Numbers
    BY Zenon DEF DataOK, Sessions, Numbers
  <2>3. CASE \E res \in Results, keep \in BOOLEAN :
               sess[e].st = "work" /\ Settle(e, sess[e].p, res, keep)
    BY Zenon, <2>1, <2>2, <2>3
  <2>4. CASE sess[e].st = "keep" /\ Settle(e, 0, sess[e].res, TRUE)
    <3>1. sess[e].res \in {"none"} \cup Results
      BY Zenon DEF DataOK, Sessions
    <3> QED
      BY <2>1, <2>4, <3>1, Names, Zenon
  <2> QED
    BY Zenon, <1>4, <2>3, <2>4 DEF SessionFinish
<1> QED
  BY Zenon, <1>2, <1>3, <1>4

\* Boolean variables stay Boolean.
LEMMA BoolStep == BoolOK /\ [Next]_vars => BoolOK'
<1> SUFFICES ASSUME BoolOK, Next PROVE BoolOK'
  BY Zenon DEF BoolOK, vars, flagVars, lifeVars, idleVars, procVars, loopVars, reqVars,
     pubVars, clientVars, execVars, histVars
<1> USE DEF BoolOK
<1>1. ASSUME NEW p \in Procs, ProcExit(p) \/ DescendantsExit(p) \/ MonitorStep(p)
      PROVE  BoolOK'
  BY <1>1, Zenon DEF ProcExit, DescendantsExit, MonitorStep, MonitorHealthy,
     MonitorUnhealthy, MonitorQuit, flagVars, lifeVars, idleVars, loopVars, reqVars, pubVars,
     clientVars, execVars, histVars
<1>2. ASSUME NEW e \in Execs, StopStep(e) PROVE BoolOK'
  BY <1>2, Zenon DEF StopStep, StopDone, StopKillFails, StopKill, StopKilledDone,
     StopDescendants, flagVars, lifeVars, idleVars, loopVars, reqVars, pubVars, procVars,
     clientVars, histVars
<1>3. ASSUME NEW e \in Execs, SessionStep(e) PROVE BoolOK'
  <2>1. CASE SessionStart(e) \/ SessionStop(e) \/ SessionStopEnds(e) \/ SessionReturn(e)
    BY <2>1, Zenon DEF SessionStart, SessionStop, SessionStopEnds, SessionReturn, flagVars,
       lifeVars, idleVars, loopVars, reqVars, pubVars, procVars, clientVars, histVars
  <2>2. CASE SessionDegraded(e) \/ SessionKeepFails(e)
    BY <2>2, Zenon DEF SessionDegraded, SessionKeepFails, lifeVars, idleVars, procVars
  <2>3. ASSUME NEW p, NEW res, NEW keep \in BOOLEAN, Settle(e, p, res, keep) PROVE BoolOK'
    BY <2>3, Zenon DEF Settle, Wake, lifeVars, procVars
  <2>4. CASE SessionFinish(e)
    BY <2>3, <2>4, Zenon DEF SessionFinish
  <2> QED
    BY <1>3, <2>1, <2>2, <2>4, Zenon DEF SessionStep
<1>4. ASSUME NEW c \in Clients, ClientStep(c) PROVE BoolOK'
  BY <1>4, Zenon DEF ClientStep, Call, PassGate, IdleEntry, IdleWork, ClientCancel,
     ClientRunDone, ClientReturn, flagVars, lifeVars, idleVars, loopVars, reqVars, pubVars,
     procVars, execVars, histVars
<1>5. ASSUME NEW c \in Clients,
             IdleReject(c) \/ IdleUpdate(c) \/ OwnRequest(c) \/ BackoffRestart(c) \/ BackoffOwned(c)
      PROVE  BoolOK'
  BY <1>5, Zenon DEF IdleReject, IdleUpdate, OwnRequest, BackoffRestart, BackoffOwned,
     flagVars, lifeVars, idleVars, reqVars, pubVars, procVars, execVars, histVars
<1>6. CASE \/ RunEnter \/ RunStore \/ LoopTop \/ IdleWake \/ LoopCancelled \/ TakeGate
           \/ StartChild \/ StartFails
  BY <1>6, Zenon DEF RunEnter, RunStore, LoopTop, IdleWake, LoopCancelled, TakeGate,
     StartChild, StartFails, flagVars, lifeVars, idleVars, reqVars, pubVars, procVars,
     clientVars, execVars, histVars
<1>7. CASE Recheck
  BY <1>7, Zenon DEF Recheck, lifeVars, reqVars, pubVars, clientVars, execVars, histVars
<1>8. CASE \/ OwnCancelled \/ OwnUnhealthy \/ OwnExited \/ OwnStopped \/ JoinedPlain
           \/ JoinedExit \/ JoinedRestart \/ JoinedOwned \/ OwnJoined \/ LoopWork
  BY <1>8, Zenon DEF OwnCancelled, OwnUnhealthy, OwnExited, OwnStopped, JoinedPlain,
     JoinedExit, JoinedRestart, JoinedOwned, OwnJoined, LoopWork, flagVars, lifeVars,
     idleVars, reqVars, pubVars, procVars, clientVars, execVars, histVars
<1>9. CASE BackoffEnds \/ DeferGate \/ DeferStopped \/ Deactivate \/ CloseRunDone
  BY <1>9, Zenon DEF BackoffEnds, DeferGate, DeferStopped, Deactivate, CloseRunDone,
     flagVars, lifeVars, idleVars, reqVars, pubVars, procVars, clientVars, execVars, histVars
<1>10. CASE WaitForCore \/ CancelRun \/ Terminated
  BY <1>10, Zenon DEF WaitForCore, CancelRun, Terminated, vars, flagVars, lifeVars,
     idleVars, loopVars, reqVars, pubVars, procVars, clientVars, execVars, histVars
<1> QED
  BY Zenon, <1>1, <1>2, <1>3, <1>4, <1>5, <1>6, <1>7, <1>8, <1>9, <1>10 DEF Next, LoopStep,
     ExecStep

-----------------------------------------------------------------------------
(* The theorems.                                                           *)

Inv == BoolOK /\ DataOK /\ Control

LEMMA InitInv == Init => Inv
<1> SUFFICES ASSUME Init PROVE Inv
  OBVIOUS
<1>1. BoolOK
  BY Zenon DEF Init, BoolOK
<1>2. status \in Observations
  BY Zenon, ObservationType, Names DEF Init, Statuses
<1>3. DataOK
  BY Zenon, <1>2, RecordTypes, Names DEF Init, DataOK, LoopPoints
<1>4. Control
  BY Zenon, Names DEF Init, Control, LoopControl, IdleControl, ExecControl, WakeControl,
     IdleCaller, NoCall, NoStop, NoSession
<1> QED
  BY Zenon, <1>1, <1>3, <1>4 DEF Inv

LEMMA NextInv == Inv /\ [Next]_vars => Inv'
<1> SUFFICES ASSUME Inv, [Next]_vars PROVE DataOK' /\ Control'
  BY Zenon, BoolStep DEF Inv, vars, flagVars, lifeVars, idleVars, loopVars, reqVars,
     pubVars, procVars, clientVars, execVars, histVars
<1> USE DEF Inv
<1>1. CASE UNCHANGED vars
  <2>1. DataOK'
    BY <1>1, Zenon DEF DataOK, vars, flagVars, lifeVars, idleVars, loopVars, reqVars,
       pubVars, procVars, clientVars, execVars, histVars
  <2>2. LoopControl' /\ WakeControl'
    BY <1>1, Zenon DEF Control, LoopControl, WakeControl, vars, flagVars, lifeVars,
       idleVars, loopVars, reqVars, pubVars, procVars, clientVars, execVars, histVars
  <2>3. IdleControl'
    BY <1>1, Zenon DEF Control, IdleControl, IdleCaller, vars, flagVars, lifeVars,
       idleVars, loopVars, reqVars, pubVars, procVars, clientVars, execVars, histVars
  <2>4. ExecControl'
    BY <1>1, Zenon DEF Control, ExecControl, vars, flagVars, lifeVars, idleVars, loopVars,
       reqVars, pubVars, procVars, clientVars, execVars, histVars
  <2> QED
    BY Zenon, <2>1, <2>2, <2>3, <2>4 DEF Control, vars, flagVars, lifeVars, idleVars,
       loopVars, reqVars, pubVars, procVars, clientVars, execVars, histVars
<1>2. ASSUME NEW c \in Clients,
             IdleReject(c) \/ IdleUpdate(c) \/ OwnRequest(c) \/ BackoffRestart(c) \/ BackoffOwned(c)
      PROVE  DataOK' /\ Control'
  BY Zenon, <1>2, RequestSteps DEF vars, flagVars, lifeVars, idleVars, loopVars, reqVars,
     pubVars, procVars, clientVars, execVars, histVars
<1>3. CASE LoopStep
  BY Zenon, <1>2, <1>3, EntrySteps, ChildSteps DEF LoopStep, vars, flagVars, lifeVars,
     idleVars, loopVars, reqVars, pubVars, procVars, clientVars, execVars, histVars
<1>4. ASSUME NEW e \in Execs, ExecStep(e) PROVE DataOK' /\ Control'
  BY Zenon, <1>4, StopSteps, SessionSteps, FinishSteps DEF ExecStep, StopStep, SessionStep,
     vars, flagVars, lifeVars, idleVars, loopVars, reqVars, pubVars, procVars, clientVars,
     execVars, histVars
<1>5. ASSUME NEW p \in Procs, ProcExit(p) \/ DescendantsExit(p) \/ MonitorStep(p)
      PROVE  DataOK' /\ Control'
  BY Zenon, <1>5, ProcSteps DEF MonitorStep, vars, flagVars, lifeVars, idleVars, loopVars,
     reqVars, pubVars, procVars, clientVars, execVars, histVars
<1>6. ASSUME NEW c \in Clients, ClientStep(c) PROVE DataOK' /\ Control'
  BY Zenon, <1>6, ClientSteps DEF ClientStep, vars, flagVars, lifeVars, idleVars, loopVars,
     reqVars, pubVars, procVars, clientVars, execVars, histVars
<1>7. CASE WaitForCore \/ CancelRun \/ Terminated
  BY Zenon, <1>1, <1>7, EntrySteps DEF Terminated, vars, flagVars, lifeVars, idleVars,
     loopVars, reqVars, pubVars, procVars, clientVars, execVars, histVars
<1> QED
  BY Zenon, <1>1, <1>3, <1>4, <1>5, <1>6, <1>7 DEF Next, vars, flagVars, lifeVars,
     idleVars, loopVars, reqVars, pubVars, procVars, clientVars, execVars, histVars

\* The inductive invariant holds throughout.
THEOREM Invariance == Spec => []Inv
BY InitInv, NextInv, PTL DEF Spec

\* Every variable keeps its type; in particular a restart is only ever answered
\* with a finished stop's outcome.
THEOREM TypeCorrect == Spec => []TypeOK
<1>1. Inv => TypeOK
  BY Zenon, TypeParts DEF Inv
<1> QED
  BY <1>1, Invariance, PTL

\* Callbacks exclude each other, for any number of callers.
THEOREM MutualExclusion == Spec => []OneWorker
<1>1. Inv => OneWorker
  BY Zenon, Names DEF Inv, Control, LoopControl, IdleControl, IdleCaller, OneWorker,
     Working
<1> QED
  BY <1>1, Invariance, PTL

\* The idle select never sleeps through its reason to end.
THEOREM WakeUpsKept == Spec => []NoLostWake
<1>1. Inv => NoLostWake
  BY Zenon, Names DEF Inv, Control, WakeControl, NoLostWake
<1> QED
  BY <1>1, Invariance, PTL

\* A process only comes to life while starts are not blocked.
THEOREM NoBlockedStart == Spec => BlockedNeverStarts
<1>1. ASSUME Inv, [Next]_vars, NEW p \in Procs, proc[p] = "unborn", proc'[p] = "alive"
      PROVE  ~blocked
  <2> USE <1>1 DEF Inv, DataOK
  <2>1. CASE StartChild
    BY Zenon, <2>1 DEF StartChild, Control, LoopControl, lifeVars, idleVars, clientVars,
       execVars, histVars
  <2>2. CASE LoopStep /\ ~StartChild
    <3>1. proc' = proc
      BY ZenonT(60), <2>2 DEF LoopStep, RunEnter, RunStore, LoopTop, IdleWake,
         LoopCancelled, TakeGate, Recheck, StartFails, IdleReject, IdleUpdate, OwnRequest,
         BackoffRestart, BackoffOwned, OwnCancelled, OwnUnhealthy, OwnExited, OwnStopped,
         JoinedPlain, JoinedExit, JoinedRestart, JoinedOwned, OwnJoined, LoopWork,
         BackoffEnds, DeferGate, DeferStopped, Deactivate, CloseRunDone, flagVars, lifeVars,
         idleVars, reqVars, pubVars, procVars, clientVars, execVars, histVars
    <3> QED
      BY Zenon, <3>1
  <2>3. ASSUME NEW e \in Execs, StopStep(e) PROVE ~blocked
    BY Zenon, <2>3 DEF StopStep, StopDone, StopKillFails, StopKill, StopKilledDone,
       StopDescendants, flagVars, lifeVars, idleVars, loopVars, reqVars, pubVars, procVars,
       clientVars, histVars
  <2>4. ASSUME NEW e \in Execs, SessionStep(e) PROVE ~blocked
    BY ZenonT(60), <2>4 DEF SessionStep, SessionStart, SessionStop, SessionStopEnds,
       SessionReturn, SessionDegraded, SessionKeepFails, SessionFinish, Settle, flagVars,
       lifeVars, idleVars, loopVars, reqVars, pubVars, procVars, clientVars, histVars
  <2>5. ASSUME NEW q \in Procs, ProcExit(q) \/ DescendantsExit(q) \/ MonitorStep(q)
        PROVE  ~blocked
    BY ZenonT(60), <2>5 DEF ProcExit, DescendantsExit, MonitorStep, MonitorHealthy,
       MonitorUnhealthy, MonitorQuit, vars, flagVars, lifeVars, idleVars, loopVars, reqVars,
       pubVars, procVars, clientVars, execVars, histVars
  <2>6. ASSUME NEW c \in Clients, ClientStep(c) PROVE ~blocked
    BY Zenon, <2>6 DEF ClientStep, Call, PassGate, IdleWork, ClientCancel, ClientRunDone,
       ClientReturn, vars, flagVars, lifeVars, idleVars, loopVars, reqVars, pubVars, procVars,
       clientVars, execVars, histVars
  <2>7. CASE WaitForCore \/ CancelRun \/ Terminated \/ UNCHANGED vars
    BY Zenon, <2>7 DEF WaitForCore, CancelRun, Terminated, vars, flagVars, lifeVars,
       idleVars, loopVars, reqVars, pubVars, procVars, clientVars, execVars, histVars
  <2> QED
    BY Zenon, <2>1, <2>2, <2>3, <2>4, <2>5, <2>6, <2>7 DEF Next, ExecStep, vars, flagVars,
       lifeVars, idleVars, loopVars, reqVars, pubVars, procVars, clientVars, execVars,
       histVars
<1>2. Inv /\ [Next]_vars =>
        [\A p \in Procs : proc[p] = "unborn" /\ proc'[p] = "alive" => ~blocked]_vars
  BY Zenon, <1>1
<1> QED
  BY <1>2, Invariance, PTL DEF Spec, BlockedNeverStarts

(* What the runs check as one invariant of the loop *)

\* Types, mutual exclusion of the callbacks and the wake-ups of the idle select
\* (supervisor.go Run, Maintain and Update) hold together in every state.
THEOREM LoopIsSafe == Spec => []LoopSafe
BY TypeCorrect, MutualExclusion, WakeUpsKept, PTL DEF LoopSafe

=============================================================================
