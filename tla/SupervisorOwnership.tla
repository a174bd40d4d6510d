------------------------ MODULE SupervisorOwnership -------------------------
(***************************************************************************)
(* Proofs about the processes of Supervisor, for every set of clients and  *)
(* every bound: each live process has one owner (OneOwner), none runs      *)
(* beside a callback of the loop (WorkAlone) or after Run (ShutdownClean), *)
(* the status is the current child's (StatusFresh), and no descendants are *)
(* left beside a later child (NoDescendantsBeside).                        *)
(*                                                                         *)
(* The five follow from one inductive invariant over the invariant of      *)
(* SupervisorProofs: who can own a process at each place of the loop, whom *)
(* each executor's stopChild is about, and what its phases have confirmed. *)
(***************************************************************************)
EXTENDS SupervisorProofs

\* A process that was created belongs to one owner, or to none any more.
OwnersDiffer ==
  /\ own # 0 => proc[own] # "unborn" /\ own # pending /\ \A e \in Execs : sess[e].p # own
  /\ pending # 0 => proc[pending] # "unborn" /\ \A e \in Execs : sess[e].p # pending
  /\ \A e \in Execs : sess[e].p # 0 =>
       /\ sess[e].st # "none" /\ proc[sess[e].p] # "unborn"
       /\ \A f \in Execs : sess[f].p = sess[e].p => f = e

\* A process that runs, or whose descendants do, is owned or was reported lost.
Attended(p) == own = p \/ pending = p \/ (\E e \in Execs : sess[e].p = p) \/ p \in Excused
AllAttended == \A p \in Procs : Live(p) \/ desc[p] => Attended(p)

\* Exit results and descendants are those of processes that have exited.
ExitsOK == \A p \in Procs : tok[p] \/ desc[p] => proc[p] = "joined"

\* stopChild: what its phases confirm.
StopsOK ==
  \A e \in Execs :
    /\ stp[e].ph \in {"desc", "ok"} => proc[stp[e].p] = "joined"
    /\ stp[e].ph = "ok" => ~desc[stp[e].p]

\* Whom a stop is about.
TargetsOK ==
  /\ \A e \in Execs : sess[e].st \in {"stop", "final", "keep"} =>
       stp[e].ph # "none" /\ stp[e].p = sess[e].p
  /\ loop = "stop" => why # "exit" /\ stp["run"].ph # "none"
  /\ loop \in {"stop", "joined"} \/ (loop = "join" /\ why # "exit") => stp["run"].p = own
  /\ loop = "joined" => stp["run"].ph \in {"ok", "err"}
  /\ loop = "join" /\ why = "exit" => proc[own] = "joined"
  /\ loop = "dstop" => stp["run"].ph # "none" /\ stp["run"].p = pending

\* Where the loop has a child, and where nothing is pending.
ChildOK ==
  /\ own # 0 => loop \in {"own", "stop", "join", "joined", "work", "upd"}
  /\ own # 0 /\ loop \in {"work", "upd"} => proc[own] = "joined" /\ ~desc[own]
  /\ loop = "closing" => pending = 0

\* Only the current child is monitored.
MonitorsOK == \A p \in Procs : mon[p].st = "run" => own = p /\ loop \in {"own", "stop", "join"}

Ownership ==
  /\ OwnersDiffer /\ AllAttended /\ ExitsOK /\ StopsOK /\ TargetsOK /\ ChildOK /\ MonitorsOK
  /\ StatusFresh

-----------------------------------------------------------------------------
(* Steps that leave every process with its owner.                          *)

ownVars == <<own, pending, proc, tok, desc, mon, stp, sess, abandoned, displaced>>

\* Nothing of the invariant changes.
LEMMA Untouched ==
  ASSUME Ownership, UNCHANGED <<ownVars, loop, why, status>>
  PROVE  Ownership'
BY DEF ownVars, Ownership, OwnersDiffer, AllAttended, Attended, Live, Excused, ExitsOK,
   StopsOK, TargetsOK, ChildOK, MonitorsOK, StatusFresh

\* Where the loop has no child and stops nothing.
RestPoints == {"off", "entry", "top", "idle", "gate", "recheck", "start", "backoff", "defer",
               "closing", "closed", "done"}

\* The loop goes from one such place to another.
LEMMA RestMove ==
  ASSUME Ownership, UNCHANGED ownVars, loop \in RestPoints, loop' \in RestPoints \ {"closing"},
         loop' = "backoff" => status'.st = "backoff"
  PROVE  Ownership'
BY DEF ownVars, RestPoints, Ownership, OwnersDiffer, AllAttended, Attended, Live, Excused,
   ExitsOK, StopsOK, TargetsOK, ChildOK, MonitorsOK, StatusFresh

LEMMA ClientMoves ==
  ASSUME Ownership, NEW c \in Clients,
         Call(c) \/ IdleWork(c) \/ ClientCancel(c) \/ ClientRunDone(c) \/ ClientReturn(c)
  PROVE  Ownership'
<1>1. UNCHANGED <<ownVars, loop, why, status>>
  BY Zenon DEF ownVars, Call, IdleWork, ClientCancel, ClientRunDone, ClientReturn,
     flagVars, lifeVars, idleVars, loopVars, reqVars, pubVars, procVars, execVars, histVars
<1> QED
  BY Zenon, <1>1, Untouched

LEMMA LoopMoves ==
  ASSUME DataOK, Ownership,
         \/ RunEnter \/ RunStore \/ LoopTop \/ IdleWake \/ LoopCancelled \/ TakeGate
         \/ StartFails \/ BackoffEnds \/ Deactivate \/ CloseRunDone
         \/ \E c \in Clients : IdleReject(c) \/ BackoffRestart(c)
  PROVE  Ownership'
<1>1. UNCHANGED ownVars
  BY Zenon DEF ownVars, RunEnter, RunStore, LoopTop, IdleWake, LoopCancelled, IdleReject,
     TakeGate, StartFails, BackoffEnds, BackoffRestart, Deactivate, CloseRunDone, flagVars,
     lifeVars, idleVars, reqVars, pubVars, procVars, clientVars, execVars, histVars
<1>2. loop \in RestPoints /\ loop' \in RestPoints \ {"closing"}
  BY Zenon DEF RestPoints, RunEnter, RunStore, LoopTop, IdleWake, LoopCancelled,
     IdleReject, TakeGate, StartFails, BackoffEnds, BackoffRestart, Deactivate, CloseRunDone,
     flagVars, lifeVars, idleVars, reqVars, pubVars, procVars, clientVars, execVars, histVars
<1>3. loop' = "backoff" => status'.st = "backoff"
  <2>1. CASE StartFails
    <3>1. loop' = "backoff" => status' = Observation("backoff", 0, restarts)
      BY Zenon, <2>1 DEF StartFails, lifeVars, idleVars, reqVars, procVars, clientVars,
         execVars, histVars
    <3> QED
      BY <3>1 DEF Observation
  <2>2. CASE ~StartFails
    BY Zenon, <2>2 DEF RunEnter, RunStore, LoopTop, IdleWake, LoopCancelled, IdleReject,
       TakeGate, BackoffEnds, BackoffRestart, Deactivate, CloseRunDone, flagVars, lifeVars,
       idleVars, reqVars, pubVars, procVars, clientVars, execVars, histVars
  <2> QED
    BY Zenon, <2>1, <2>2
<1> QED
  BY Zenon, <1>1, <1>2, <1>3, RestMove

\* The loop takes a request to a callback, with no child of its own.
LEMMA CallbackBegins ==
  ASSUME DataOK, Control, Ownership, NEW c \in Clients, IdleUpdate(c) \/ BackoffOwned(c)
  PROVE  Ownership'
<1>1. /\ own = 0 /\ loop \in {"idle", "backoff"} /\ loop' \in {"work", "upd"}
      /\ UNCHANGED <<own, pending, proc, tok, desc, mon, stp, abandoned, displaced, why>>
  BY Zenon DEF IdleUpdate, BackoffOwned, Ownership, ChildOK, flagVars, lifeVars, idleVars,
     pubVars, procVars, histVars
<1>2. /\ sess["run"].p = 0 /\ "run" \in Execs
      /\ \A e \in Execs : /\ sess'[e].p = sess[e].p
                          /\ e # "run" => sess'[e] = sess[e]
      /\ sess'["run"].st \in {"none", "work"}
  <2>1. "run" \in Execs /\ sess["run"].st = "none" /\ sess["run"].p = 0
    BY Zenon, <1>1, Names DEF Ownership, OwnersDiffer, Control, ExecControl
  <2>2. \/ sess' = sess
        \/ \E was : sess' = [sess EXCEPT !["run"] = BeginSession(was)]
    BY Zenon DEF IdleUpdate, BackoffOwned, flagVars, lifeVars, idleVars, pubVars, procVars,
       histVars
  <2>3. \A was : BeginSession(was).p = 0 /\ BeginSession(was).st = "work"
    BY Zenon DEF BeginSession, NoSession
  <2> QED
    BY <2>1, <2>2, <2>3 DEF DataOK
<1>3. OwnersDiffer' /\ AllAttended'
  <2>1. OwnersDiffer'
    BY <1>1, <1>2 DEF Ownership, OwnersDiffer, AllAttended, Attended, Live, Excused
  <2>2. AllAttended'
    BY <1>1, <1>2 DEF Ownership, OwnersDiffer, AllAttended, Attended, Live, Excused
  <2> QED
    BY Zenon, <2>1, <2>2
<1>4. ExitsOK' /\ StopsOK' /\ TargetsOK' /\ ChildOK' /\ MonitorsOK' /\ StatusFresh'
  <2>1. ExitsOK'
    BY Zenon, <1>1, <1>2 DEF Ownership, ExitsOK, StopsOK, TargetsOK, ChildOK, MonitorsOK,
       StatusFresh
  <2>2. StopsOK'
    BY Zenon, <1>1, <1>2 DEF Ownership, ExitsOK, StopsOK, TargetsOK, ChildOK, MonitorsOK,
       StatusFresh
  <2>3. TargetsOK'
    BY Zenon, <1>1, <1>2 DEF Ownership, ExitsOK, StopsOK, TargetsOK, ChildOK, MonitorsOK,
       StatusFresh
  <2>4. ChildOK'
    BY Zenon, <1>1, <1>2 DEF Ownership, ExitsOK, StopsOK, TargetsOK, ChildOK, MonitorsOK,
       StatusFresh
  <2>5. MonitorsOK'
    BY Zenon, <1>1, <1>2 DEF Ownership, ExitsOK, StopsOK, TargetsOK, ChildOK, MonitorsOK,
       StatusFresh
  <2>6. StatusFresh'
    BY Zenon, <1>1, <1>2 DEF Ownership, ExitsOK, StopsOK, TargetsOK, ChildOK, MonitorsOK,
       StatusFresh
  <2> QED
    BY Zenon, <2>1, <2>2, <2>3, <2>4, <2>5, <2>6
<1> QED
  BY Zenon, <1>3, <1>4 DEF Ownership

\* An idle caller begins its callback.
LEMMA IdleBegins ==
  ASSUME DataOK, Control, Ownership, NEW c \in Clients, PassGate(c)
  PROVE  Ownership'
<1>1. UNCHANGED <<own, pending, proc, tok, desc, mon, stp, abandoned, displaced, loop, why, status>>
  BY Zenon DEF PassGate, lifeVars, idleVars, loopVars, reqVars, pubVars, procVars, histVars
<1>2. CASE sess' = sess
  BY Zenon, <1>1, <1>2, Untouched DEF ownVars
<1>3. CASE sess' = [sess EXCEPT ![c] = BeginSession(FALSE)]
  <2>1. sess[c].p = 0 /\ c \in Execs /\ sess[c].st = "none"
    BY Zenon, Names DEF PassGate, Control, ExecControl, Ownership, OwnersDiffer, lifeVars,
       idleVars, loopVars, reqVars, pubVars, procVars, histVars
  <2>2. /\ sess'[c].p = 0 /\ sess'[c].st = "work"
        /\ \A e \in Execs : e # c => sess'[e] = sess[e]
    BY Zenon, <1>3, <2>1 DEF DataOK, BeginSession, NoSession
  <2>3. OwnersDiffer' /\ AllAttended'
    <3>1. OwnersDiffer'
      BY <1>1, <2>1, <2>2 DEF Ownership, OwnersDiffer, AllAttended, Attended, Live, Excused
    <3>2. AllAttended'
      BY <1>1, <2>1, <2>2 DEF Ownership, OwnersDiffer, AllAttended, Attended, Live, Excused
    <3> QED
      BY Zenon, <3>1, <3>2
  <2>4. ExitsOK' /\ StopsOK' /\ TargetsOK' /\ ChildOK' /\ MonitorsOK' /\ StatusFresh'
    <3>1. ExitsOK'
      BY Zenon, <1>1 DEF Ownership, ExitsOK
    <3>2. StopsOK'
      BY Zenon, <1>1 DEF Ownership, StopsOK
    <3>3. TargetsOK'
      BY Zenon, <1>1, <2>2 DEF Ownership, TargetsOK
    <3>4. ChildOK'
      BY Zenon, <1>1 DEF Ownership, ChildOK
    <3>5. MonitorsOK'
      BY Zenon, <1>1, <2>1, <2>2 DEF Ownership, ExitsOK, StopsOK, TargetsOK, ChildOK,
         MonitorsOK, StatusFresh
    <3>6. StatusFresh'
      BY Zenon, <1>1, <2>1, <2>2 DEF Ownership, ExitsOK, StopsOK, TargetsOK, ChildOK,
         MonitorsOK, StatusFresh
    <3> QED
      BY Zenon, <3>1, <3>2, <3>3, <3>4, <3>5, <3>6
  <2> QED
    BY Zenon, <2>3, <2>4 DEF Ownership
<1> QED
  BY Zenon, <1>2, <1>3 DEF PassGate, IdleEntry, lifeVars, idleVars, loopVars, reqVars,
     pubVars, procVars, histVars

-----------------------------------------------------------------------------
(* Processes, their monitors, and stopChild.                               *)

LEMMA ProcMoves ==
  ASSUME DataOK, Control, Ownership, NEW p \in Procs, ProcExit(p) \/ DescendantsExit(p)
  PROVE  Ownership'
<1>1. /\ UNCHANGED <<own, pending, mon, stp, sess, abandoned, displaced, loop, why, status>>
      /\ \A q \in Procs : q # p => proc'[q] = proc[q] /\ tok'[q] = tok[q] /\ desc'[q] = desc[q]
      /\ proc[p] # "unborn" /\ proc'[p] = "joined"
      /\ Live(p) \/ desc[p]
      /\ proc[p] = "joined" => (desc'[p] => desc[p])
  BY Zenon DEF ProcExit, DescendantsExit, DataOK, Live, Ownership, ExitsOK, flagVars,
     lifeVars, idleVars, loopVars, reqVars, pubVars, clientVars, execVars, histVars
<1>2. OwnersDiffer' /\ AllAttended' /\ ExitsOK'
  <2>1. OwnersDiffer'
    BY Zenon, <1>1, Names DEF DataOK, Numbers, Sessions, Ownership, OwnersDiffer,
       AllAttended, Attended, Live, Excused, ExitsOK
  <2>2. AllAttended'
    BY Zenon, <1>1 DEF Ownership, AllAttended, Attended, Live, Excused
  <2>3. ExitsOK'
    BY Zenon, <1>1, Names DEF DataOK, Numbers, Sessions, Ownership, OwnersDiffer,
       AllAttended, Attended, Live, Excused, ExitsOK
  <2> QED
    BY Zenon, <2>1, <2>2, <2>3
<1>3. StopsOK' /\ TargetsOK' /\ ChildOK' /\ MonitorsOK' /\ StatusFresh'
  <2>1. StopsOK'
    BY <1>1 DEF Control, ExecControl, DataOK, Stops, Ownership, StopsOK
  <2>2. TargetsOK'
    BY Zenon, <1>1 DEF Control, LoopControl, DataOK, Numbers, Ownership, TargetsOK
  <2>3. ChildOK'
    BY <1>1, Names DEF Control, ExecControl, LoopControl, DataOK, Numbers, Stops,
       Ownership, StopsOK, TargetsOK, ChildOK, MonitorsOK, StatusFresh
  <2>4. MonitorsOK'
    BY Zenon, <1>1 DEF Ownership, MonitorsOK
  <2>5. StatusFresh'
    BY Zenon, <1>1, Names DEF Control, ExecControl, LoopControl, DataOK, Numbers, Stops,
       Ownership, StopsOK, TargetsOK, ChildOK, MonitorsOK, StatusFresh
  <2> QED
    BY Zenon, <2>1, <2>2, <2>3, <2>4, <2>5
<1> QED
  BY Zenon, <1>2, <1>3 DEF Ownership

LEMMA MonitorMoves ==
  ASSUME DataOK, Ownership, NEW p \in Procs, MonitorStep(p)
  PROVE  Ownership'
<1>1. /\ UNCHANGED <<own, pending, proc, tok, desc, stp, sess, abandoned, displaced, loop, why>>
      /\ \A q \in Procs : mon'[q].st = "run" => mon[q].st = "run"
      /\ mon[p].st = "run"
      /\ status' = status \/ status' = Observation("running", p, restarts)
  BY Zenon DEF MonitorStep, MonitorHealthy, MonitorUnhealthy, MonitorQuit, DataOK,
     Monitors, NoMonitor, flagVars, lifeVars, idleVars, loopVars, reqVars, pubVars,
     clientVars, execVars, histVars
<1>2. OwnersDiffer' /\ AllAttended' /\ ExitsOK' /\ StopsOK' /\ TargetsOK' /\ ChildOK' /\ MonitorsOK'
  <2>1. OwnersDiffer'
    BY Zenon, <1>1 DEF Ownership, OwnersDiffer
  <2>2. AllAttended'
    BY Zenon, <1>1 DEF Ownership, OwnersDiffer, AllAttended, Attended, Live, Excused,
       ExitsOK, StopsOK, TargetsOK, ChildOK, MonitorsOK
  <2>3. ExitsOK'
    BY Zenon, <1>1 DEF Ownership, ExitsOK
  <2>4. StopsOK'
    BY Zenon, <1>1 DEF Ownership, OwnersDiffer, AllAttended, Attended, Live, Excused,
       ExitsOK, StopsOK, TargetsOK, ChildOK, MonitorsOK
  <2>5. TargetsOK'
    BY Zenon, <1>1 DEF Ownership, OwnersDiffer, AllAttended, Attended, Live, Excused,
       ExitsOK, StopsOK, TargetsOK, ChildOK, MonitorsOK
  <2>6. ChildOK'
    BY Zenon, <1>1 DEF Ownership, OwnersDiffer, AllAttended, Attended, Live, Excused,
       ExitsOK, StopsOK, TargetsOK, ChildOK, MonitorsOK
  <2>7. MonitorsOK'
    BY Zenon, <1>1 DEF Ownership, OwnersDiffer, AllAttended, Attended, Live, Excused,
       ExitsOK, StopsOK, TargetsOK, ChildOK, MonitorsOK
  <2> QED
    BY Zenon, <2>1, <2>2, <2>3, <2>4, <2>5, <2>6, <2>7
<1>3. StatusFresh'
  BY <1>1 DEF Ownership, MonitorsOK, StatusFresh, Observation
<1> QED
  BY Zenon, <1>2, <1>3 DEF Ownership

\* The phases of stopChild: nobody is let go of before its end.
LEMMA StopMoves ==
  ASSUME DataOK, Control, Ownership, NEW e \in Execs, StopStep(e)
  PROVE  Ownership'
<1>1. /\ UNCHANGED <<own, pending, desc, mon, sess, abandoned, displaced, loop, why>>
      /\ stp[e].ph \in {"wait", "killed", "desc"}
  BY Zenon DEF StopStep, StopDone, StopKillFails, StopKill, StopKilledDone,
     StopDescendants, flagVars, lifeVars, idleVars, loopVars, reqVars, pubVars, procVars,
     clientVars, histVars
<1>2. stp[e].p \in Procs /\ stp[e] \in Stops
  BY Zenon, <1>1 DEF DataOK, Stops, Control, ExecControl
<1>3. /\ stp'[e].p = stp[e].p /\ stp'[e].ph # "none"
      /\ \A f \in Execs : f # e => stp'[f] = stp[f]
  BY <1>2 DEF StopStep, StopDone, StopKillFails, StopKill, StopKilledDone, StopDescendants,
     DataOK, Stops
<1>4. /\ \A q \in Procs : q # stp[e].p => proc'[q] = proc[q]
      /\ proc'[stp[e].p] = proc[stp[e].p] \/ (Live(stp[e].p) /\ proc'[stp[e].p] = "dying")
      /\ \A q \in Procs : tok'[q] => tok[q]
  BY Zenon, <1>2 DEF StopStep, StopDone, StopKillFails, StopKill, StopKilledDone,
     StopDescendants, DataOK, procVars
<1>5. /\ stp'[e].ph = "desc" => tok[stp[e].p] /\ proc' = proc
      /\ stp'[e].ph = "ok" => stp[e].ph = "desc" /\ ~desc[stp[e].p] /\ proc' = proc
  BY DEF StopStep, StopDone, StopKillFails, StopKill, StopKilledDone, StopDescendants,
     DataOK, Stops, DescendantsRemain, procVars
<1>6. OwnersDiffer' /\ AllAttended' /\ ExitsOK'
  <2>1. OwnersDiffer'
    BY <1>1, <1>4 DEF DataOK, Numbers, Sessions, Ownership, OwnersDiffer
  <2>2. AllAttended'
    BY Zenon, <1>1, <1>4 DEF Live, Ownership, AllAttended, Attended, Excused
  <2>3. ExitsOK'
    BY Zenon, <1>1, <1>2, <1>4 DEF Live, Ownership, ExitsOK
  <2> QED
    BY Zenon, <2>1, <2>2, <2>3
<1>7. StopsOK'
  BY <1>1, <1>3, <1>4, <1>5 DEF DataOK, Stops, Live, Ownership, ExitsOK, StopsOK, Control,
     ExecControl
<1>8. TargetsOK' /\ ChildOK' /\ MonitorsOK'
  <2>1. TargetsOK'
    <3>1. loop = "join" /\ why = "exit" => own \in Procs
      BY Zenon DEF DataOK, Numbers, Control, LoopControl
    <3>2. \A q \in Procs : proc[q] = "joined" => proc'[q] = "joined"
      BY Zenon, <1>4 DEF Live
    <3>3. loop # "joined" \/ e # "run"
      BY Zenon, <1>1 DEF Control, ExecControl
    <3>4. \A f \in Execs : sess'[f].st \in {"stop", "final", "keep"} =>
            stp'[f].ph # "none" /\ stp'[f].p = sess'[f].p
      BY Zenon, <1>1, <1>3 DEF Ownership, TargetsOK
    <3>5. /\ stp'["run"].p = stp["run"].p /\ (stp["run"].ph # "none" => stp'["run"].ph # "none")
          /\ loop = "joined" => stp'["run"] = stp["run"]
      BY Zenon, <1>3, <3>3, Names
    <3> QED
      BY Zenon, <1>1, <3>1, <3>2, <3>4, <3>5 DEF Ownership, TargetsOK
  <2>2. ChildOK'
    BY Zenon, <1>1, <1>4 DEF DataOK, Numbers, Live, Ownership, ChildOK
  <2>3. MonitorsOK'
    BY Zenon, <1>1 DEF Ownership, MonitorsOK
  <2> QED
    BY Zenon, <2>1, <2>2, <2>3
<1>9. StatusFresh'
  <2>1. loop \notin {"own", "backoff"}
    BY Zenon, <1>1, Names DEF Control, ExecControl, IdleControl, IdleCaller
  <2> QED
    BY Zenon, <1>1, <2>1 DEF StatusFresh
<1> QED
  BY Zenon, <1>6, <1>7, <1>8, <1>9 DEF Ownership

-----------------------------------------------------------------------------
(* The loop and its child.                                                 *)

\* A child is launched: a new process, or the pending one.
LEMMA LaunchMoves ==
  ASSUME DataOK, Control, Ownership, Recheck \/ StartChild
  PROVE  Ownership'
<1>1. /\ own = 0 /\ loop \in {"recheck", "start"} /\ loop \in RestPoints
      /\ \A q \in Procs : mon[q].st # "run"
      /\ UNCHANGED <<tok, desc, stp, sess, abandoned, displaced, why>>
  BY Zenon DEF Recheck, StartChild, Adopt, Launch, Ownership, ChildOK, MonitorsOK,
     RestPoints, lifeVars, idleVars, reqVars, pubVars, clientVars, execVars, histVars
<1>2. CASE UNCHANGED <<pending, reqVars, pubVars, mon>> /\ proc' = proc /\ loop' \in {"top", "start"}
  BY Zenon, <1>1, <1>2, RestMove DEF ownVars, RestPoints, reqVars, pubVars
<1>3. ASSUME NEW p \in Procs, Launch(p),
             \/ pending = p /\ pending' = 0 /\ proc' = proc
             \/ pending' = pending /\ proc[p] = "unborn" /\ proc' = [proc EXCEPT ![p] = "alive"]
      PROVE  Ownership'
  <2>1. /\ own' = p /\ loop' = "own" /\ status'.st = "starting" /\ status'.p = p
        /\ \A q \in Procs : mon'[q].st = "run" => q = p
    BY Zenon, <1>1, <1>3 DEF Launch, DataOK, Monitors, NoMonitor, Observation, reqVars,
       pubVars
  <2>2. /\ \A q \in Procs : q # p => proc'[q] = proc[q]
        /\ (proc'[p] # "unborn" /\ proc[p] # "joined") \/ proc' = proc
        /\ p # 0
    BY Zenon, <1>3, Names DEF DataOK, Ownership, OwnersDiffer, reqVars, pubVars
  <2>3. OwnersDiffer'
    BY <1>1, <1>3, <2>1 DEF DataOK, Sessions, Numbers, Ownership, OwnersDiffer, reqVars,
       pubVars
  <2>4. AllAttended' /\ ExitsOK'
    <3>1. AllAttended'
      BY Zenon, <1>1, <1>3, <2>1, <2>2, Names DEF Ownership, AllAttended, Attended, Live,
         Excused, reqVars, pubVars
    <3>2. ExitsOK'
      BY Zenon, <1>1, <2>2 DEF Ownership, ExitsOK, reqVars, pubVars
    <3> QED
      BY Zenon, <3>1, <3>2 DEF reqVars, pubVars
  <2>5. StopsOK'
    BY <1>1, <1>3, <2>2 DEF DataOK, Stops, Control, ExecControl, Ownership, StopsOK,
       reqVars, pubVars
  <2>6. TargetsOK' /\ ChildOK' /\ MonitorsOK' /\ StatusFresh'
    <3>1. TargetsOK'
      BY Zenon, <1>1, <2>1 DEF Ownership, TargetsOK, reqVars, pubVars
    <3>2. ChildOK'
      BY Zenon, <2>1 DEF ChildOK, reqVars, pubVars
    <3>3. MonitorsOK'
      BY Zenon, <2>1 DEF MonitorsOK, reqVars, pubVars
    <3>4. StatusFresh'
      BY Zenon, <1>1, <2>1 DEF Ownership, TargetsOK, ChildOK, MonitorsOK, StatusFresh,
         reqVars, pubVars
    <3> QED
      BY Zenon, <3>1, <3>2, <3>3, <3>4 DEF reqVars, pubVars
  <2> QED
    BY Zenon, <2>3, <2>4, <2>5, <2>6 DEF Ownership, reqVars, pubVars
<1>4. CASE Recheck
  <2>1. CASE loop' \in {"top", "start"}
    BY Zenon, <1>2, <1>4, <2>1 DEF Recheck, Adopt, Launch, lifeVars, reqVars, pubVars,
       clientVars, execVars, histVars
  <2>2. CASE pending # 0 /\ Adopt
    <3>1. pending \in Procs /\ proc' = proc /\ Launch(pending) /\ pending' = 0
      BY Zenon, <1>4, <2>2 DEF DataOK, Numbers, Recheck, Adopt, lifeVars, reqVars, pubVars,
         clientVars, execVars, histVars
    <3> QED
      BY Zenon, <1>3, <3>1 DEF reqVars, pubVars
  <2> QED
    BY Zenon, <1>4, <2>1, <2>2 DEF Recheck, lifeVars, reqVars, pubVars, clientVars,
       execVars, histVars
<1>5. CASE StartChild
  <2>1. PICK p \in Procs : Fresh(p) /\ proc' = [proc EXCEPT ![p] = "alive"] /\ Launch(p)
    BY Zenon, <1>5 DEF StartChild, lifeVars, idleVars, reqVars, pubVars, clientVars,
       execVars, histVars
  <2> QED
    BY Zenon, <1>3, <1>5 DEF StartChild, Fresh, lifeVars, idleVars, reqVars, pubVars,
       clientVars, execVars, histVars
<1> QED
  BY Zenon, <1>4, <1>5 DEF reqVars, pubVars

\* The loop begins to stop its child, or has seen it exit.
LEMMA ChildEnds ==
  ASSUME DataOK, Control, Ownership,
         \/ OwnCancelled \/ OwnUnhealthy \/ OwnExited \/ OwnStopped
         \/ \E c \in Clients : OwnRequest(c)
  PROVE  Ownership'
<1>1. /\ own \in Procs /\ loop \in {"own", "stop"} /\ "run" \in Execs
      /\ UNCHANGED <<own, pending, proc, desc, sess, abandoned, displaced>>
      /\ \A q \in Procs : (mon'[q].st = "run" => mon[q].st = "run") /\ (tok'[q] => tok[q])
      /\ \A e \in Execs : e # "run" => stp'[e] = stp[e]
  BY Names DEF Control, LoopControl, DataOK, Numbers, Monitors, OwnRequest, OwnCancelled,
     OwnUnhealthy, OwnExited, OwnStopped, flagVars, lifeVars, idleVars, reqVars, pubVars,
     procVars, clientVars, execVars, histVars
<1>2. sess["run"].st = "none"
  BY Zenon, <1>1 DEF Control, ExecControl
<1>3. \/ /\ loop' = "stop" /\ stp'["run"] = BeginStop(own) /\ why' # "exit"
      \/ loop' = "join" /\ stp' = stp /\ why' = "exit" /\ proc[own] = "joined"
      \/ loop = "stop" /\ loop' = "join" /\ stp' = stp /\ why' = why
  BY <1>1 DEF DataOK, OwnRequest, OwnCancelled, OwnUnhealthy, OwnExited, OwnStopped,
     Offers, Ops, Ownership, ExitsOK, flagVars, lifeVars, idleVars, reqVars, pubVars,
     procVars, clientVars, execVars, histVars
<1>4. OwnersDiffer' /\ AllAttended' /\ ExitsOK' /\ StopsOK'
  <2>1. OwnersDiffer'
    BY Zenon, <1>1 DEF Ownership, OwnersDiffer
  <2>2. AllAttended'
    BY Zenon, <1>1 DEF Ownership, AllAttended, Attended, Live, Excused
  <2>3. ExitsOK'
    BY Zenon, <1>1 DEF Ownership, ExitsOK
  <2>4. StopsOK'
    BY <1>1, <1>3 DEF Ownership, StopsOK, BeginStop
  <2> QED
    BY Zenon, <2>1, <2>2, <2>3, <2>4
<1>5. TargetsOK'
  BY <1>1, <1>2, <1>3 DEF Ownership, TargetsOK, BeginStop
<1>6. ChildOK' /\ MonitorsOK' /\ StatusFresh'
  <2>1. ChildOK'
    BY Zenon, <1>3 DEF ChildOK
  <2>2. MonitorsOK'
    BY Zenon, <1>1, <1>3 DEF Ownership, ChildOK, MonitorsOK, StatusFresh
  <2>3. StatusFresh'
    BY Zenon, <1>3 DEF StatusFresh
  <2> QED
    BY Zenon, <2>1, <2>2, <2>3
<1> QED
  BY Zenon, <1>4, <1>5, <1>6 DEF Ownership

\* The child's end is confirmed, or it is reported lost.
LEMMA StoppedChild ==
  ASSUME DataOK, Control, Ownership, loop \in {"join", "joined", "work", "upd"}, own # 0,
         Live(own) \/ desc[own]
  PROVE  IF loop = "join" /\ why = "exit" THEN desc[own] ELSE Failed("run") = {own}
BY Names DEF DataOK, Numbers, Live, Control, ExecControl, Failed, Ownership, StopsOK,
   TargetsOK, ChildOK

\* The loop lets go of its child, whose end was confirmed or reported.
LEMMA LetGo ==
  ASSUME DataOK, Control, Ownership,
         loop \in {"join", "joined", "work"}, loop' \in {"top", "defer", "backoff"}, own' = 0,
         loop = "join" => mon[own].st = "quit",
         loop' = "backoff" => status'.st = "backoff",
         own # 0 /\ (Live(own) \/ desc[own]) => own \in abandoned', abandoned \subseteq abandoned',
         stp' = stp \/ stp' = [stp EXCEPT !["run"] = NoStop],
         UNCHANGED <<pending, proc, tok, desc, mon, sess, displaced>>
  PROVE  Ownership'
<1>1. /\ sess["run"].st = "none" /\ "run" \in Execs
      /\ \A e \in Execs : stp'[e] = stp[e] \/ (e = "run" /\ stp'[e].ph = "none")
  BY Names DEF Control, ExecControl, DataOK, NoStop
<1>2. OwnersDiffer' /\ AllAttended' /\ ExitsOK'
  <2>1. OwnersDiffer'
    BY Zenon DEF Ownership, OwnersDiffer
  <2>2. AllAttended'
    BY Zenon DEF Ownership, OwnersDiffer, AllAttended, Attended, Live, Excused, ExitsOK
  <2>3. ExitsOK'
    BY Zenon DEF Ownership, OwnersDiffer, AllAttended, Attended, Live, Excused, ExitsOK
  <2> QED
    BY Zenon, <2>1, <2>2, <2>3
<1>3. StopsOK' /\ TargetsOK'
  <2>1. StopsOK'
    BY <1>1 DEF Ownership, StopsOK, TargetsOK
  <2>2. TargetsOK'
    BY <1>1 DEF Ownership, TargetsOK
  <2> QED
    BY Zenon, <2>1, <2>2
<1>4. ChildOK' /\ MonitorsOK' /\ StatusFresh'
  <2>1. ChildOK'
    BY Zenon DEF Ownership, ChildOK, MonitorsOK, StatusFresh
  <2>2. MonitorsOK'
    BY Zenon DEF Ownership, ChildOK, MonitorsOK, StatusFresh
  <2>3. StatusFresh'
    BY Zenon DEF Ownership, ChildOK, MonitorsOK, StatusFresh
  <2> QED
    BY Zenon, <2>1, <2>2, <2>3
<1> QED
  BY Zenon, <1>2, <1>3, <1>4 DEF Ownership

LEMMA ChildLeft ==
  ASSUME DataOK, Control, Ownership, JoinedPlain \/ JoinedExit \/ JoinedRestart
  PROVE  Ownership'
<1>1. /\ loop = "join" /\ own' = 0 /\ mon[own].st = "quit" /\ own # 0
      /\ loop' \in {"top", "defer", "backoff"}
      /\ UNCHANGED <<pending, proc, tok, desc, mon, sess, displaced>>
      /\ stp' = stp \/ stp' = [stp EXCEPT !["run"] = NoStop]
      /\ abandoned \subseteq abandoned'
  BY Zenon DEF JoinedPlain, JoinedExit, JoinedRestart, MonitorJoined, LeaveChild, Control,
     LoopControl, flagVars, lifeVars, idleVars, procVars, clientVars, execVars
<1>2. loop' = "backoff" => status'.st = "backoff"
  BY DEF JoinedPlain, JoinedExit, JoinedRestart, LeaveChild, Observation, flagVars,
     lifeVars, idleVars, procVars, clientVars, execVars
<1>3. Live(own) \/ desc[own] => own \in abandoned'
  BY Zenon, <1>1, StoppedChild DEF JoinedPlain, JoinedExit, JoinedRestart, MonitorJoined,
     DescendantsRemain, flagVars, lifeVars, idleVars, procVars, clientVars, execVars
<1> QED
  BY Zenon, <1>1, <1>2, <1>3, LetGo

\* The child is stopped for a callback, which begins or is refused.
LEMMA ChildServed ==
  ASSUME DataOK, Control, Ownership, JoinedOwned \/ OwnJoined \/ LoopWork
  PROVE  Ownership'
<1>1. CASE JoinedOwned
  <2>1. /\ UNCHANGED ownVars /\ loop = "join" /\ why # "exit" /\ own # 0
        /\ loop' = "joined" \/ (loop' = "work" /\ stp["run"].ph # "err")
        /\ stp["run"].ph \in {"ok", "err"} /\ stp["run"].p = own
        /\ mon[own].st # "run" /\ sess["run"].st = "none"
    BY Zenon, <1>1 DEF ownVars, JoinedOwned, MonitorJoined, StopFailed, Control,
       LoopControl, ExecControl, Ownership, TargetsOK, lifeVars, idleVars, pubVars, procVars,
       execVars, histVars
  <2>2. stp["run"].ph = "ok" => proc[own] = "joined" /\ ~desc[own]
    BY Zenon, <2>1, Names DEF Ownership, StopsOK
  <2>3. OwnersDiffer' /\ AllAttended' /\ ExitsOK' /\ StopsOK'
    <3>1. OwnersDiffer'
      BY Zenon, <2>1 DEF ownVars, Ownership, OwnersDiffer, AllAttended, Attended, Live,
         Excused, ExitsOK, StopsOK
    <3>2. AllAttended'
      BY Zenon, <2>1 DEF ownVars, Ownership, AllAttended, Attended, Live, Excused
    <3>3. ExitsOK'
      BY Zenon, <2>1 DEF ownVars, Ownership, ExitsOK
    <3>4. StopsOK'
      BY Zenon, <2>1 DEF ownVars, Ownership, OwnersDiffer, AllAttended, Attended, Live,
         Excused, ExitsOK, StopsOK
    <3> QED
      BY Zenon, <3>1, <3>2, <3>3, <3>4
  <2>4. TargetsOK' /\ ChildOK' /\ MonitorsOK' /\ StatusFresh'
    <3>1. TargetsOK'
      BY Zenon, <2>1 DEF ownVars, Ownership, TargetsOK
    <3>2. ChildOK'
      BY Zenon, <2>1, <2>2 DEF ownVars, ChildOK
    <3>3. MonitorsOK'
      BY Zenon, <2>1, <2>2 DEF ownVars, Ownership, TargetsOK, ChildOK, MonitorsOK,
         StatusFresh
    <3>4. StatusFresh'
      BY Zenon, <2>1 DEF StatusFresh
    <3> QED
      BY Zenon, <3>1, <3>2, <3>3, <3>4
  <2> QED
    BY Zenon, <2>3, <2>4 DEF Ownership
<1>2. CASE OwnJoined /\ StopFailed
  <2>1. /\ loop = "joined" /\ own' = 0 /\ loop' \in {"top", "defer"} /\ own # 0
        /\ UNCHANGED <<pending, proc, tok, desc, mon, sess, displaced>>
        /\ stp' = [stp EXCEPT !["run"] = NoStop]
        /\ abandoned' = abandoned \cup Failed("run")
    BY Zenon, <1>2 DEF OwnJoined, Resume, Control, LoopControl, flagVars, lifeVars,
       idleVars, reqVars, pubVars, procVars, clientVars
  <2> QED
    BY Zenon, <2>1, StoppedChild, LetGo
<1>3. CASE OwnJoined /\ ~StopFailed
  <2>1. /\ loop = "joined" /\ loop' = "upd" /\ own' = own /\ why' = why /\ own # 0
        /\ UNCHANGED <<pending, proc, tok, desc, mon, displaced, status>>
        /\ abandoned \subseteq abandoned' /\ "run" \in Execs
    BY Zenon, <1>3, Names DEF OwnJoined, Control, LoopControl, flagVars, lifeVars,
       idleVars, reqVars, pubVars, procVars, clientVars
  <2>2. /\ sess["run"].p = 0 /\ sess["run"].st = "none"
        /\ proc[own] = "joined" /\ ~desc[own]
    BY Zenon, <1>3, <2>1 DEF StopFailed, Control, ExecControl, Ownership, OwnersDiffer,
       TargetsOK, StopsOK
  <2>3. /\ sess'["run"].p = 0 /\ sess'["run"].st = "work" /\ stp'["run"].ph = "none"
        /\ \A e \in Execs : e # "run" => sess'[e] = sess[e] /\ stp'[e] = stp[e]
    BY Zenon, <1>3, <2>1 DEF OwnJoined, DataOK, BeginSession, NoSession, NoStop, flagVars,
       lifeVars, idleVars, reqVars, pubVars, procVars, clientVars
  <2>4. OwnersDiffer' /\ AllAttended' /\ ExitsOK'
    <3>1. OwnersDiffer'
      BY <2>1, <2>3 DEF Ownership, OwnersDiffer
    <3>2. AllAttended'
      BY <2>1, <2>2, <2>3 DEF Ownership, AllAttended, Attended, Live, Excused
    <3>3. ExitsOK'
      BY Zenon, <2>1 DEF Ownership, ExitsOK
    <3> QED
      BY Zenon, <3>1, <3>2, <3>3
  <2>5. StopsOK' /\ TargetsOK' /\ ChildOK' /\ MonitorsOK' /\ StatusFresh'
    <3>1. StopsOK'
      BY Zenon, <2>1, <2>3 DEF Ownership, StopsOK
    <3>2. TargetsOK'
      BY Zenon, <2>1, <2>3 DEF Ownership, TargetsOK
    <3>3. ChildOK'
      BY Zenon, <2>1, <2>2 DEF ChildOK
    <3>4. MonitorsOK'
      BY Zenon, <2>1 DEF Ownership, MonitorsOK
    <3>5. StatusFresh'
      BY Zenon, <2>1 DEF StatusFresh
    <3> QED
      BY Zenon, <3>1, <3>2, <3>3, <3>4, <3>5
  <2> QED
    BY Zenon, <2>4, <2>5 DEF Ownership
<1>4. CASE LoopWork
  <2>1. /\ loop = "work" /\ own' = 0 /\ loop' \in {"top", "defer"}
        /\ UNCHANGED <<pending, proc, tok, desc, mon, sess, abandoned, displaced>>
        /\ stp' = [stp EXCEPT !["run"] = NoStop]
    BY Zenon, <1>4 DEF LoopWork, Resume, lifeVars, idleVars, procVars, histVars
  <2>2. own # 0 => ~Live(own) /\ ~desc[own]
    BY Zenon, <2>1 DEF Ownership, ChildOK, Live
  <2> QED
    BY Zenon, <2>1, <2>2, LetGo
<1> QED
  BY Zenon, <1>1, <1>2, <1>3, <1>4

\* Run's deferred function stops the pending process.
LEMMA DeferMoves ==
  ASSUME DataOK, Control, Ownership, DeferGate \/ DeferStopped
  PROVE  Ownership'
<1>1. /\ own = 0 /\ loop \in {"defer", "dstop"} /\ loop' \in {"dstop", "closing"} /\ sess["run"].st = "none"
      /\ UNCHANGED <<own, proc, tok, desc, mon, sess, why, displaced>>
      /\ "run" \in Execs /\ \A e \in Execs : e # "run" => stp'[e] = stp[e]
  BY Zenon, Names DEF DataOK, DeferGate, DeferStopped, Ownership, ChildOK, Control,
     ExecControl, lifeVars, idleVars, reqVars, pubVars, procVars, clientVars, histVars
<1>2. CASE DeferGate
  <2>1. /\ pending' = pending /\ abandoned' = abandoned
        /\ \/ loop' = "dstop" /\ pending # 0 /\ stp'["run"] = BeginStop(pending)
           \/ loop' = "closing" /\ pending = 0 /\ stp' = stp
    BY Zenon, <1>1, <1>2 DEF DeferGate, DataOK, lifeVars, idleVars, reqVars, pubVars,
       procVars, clientVars, histVars
  <2>2. OwnersDiffer' /\ AllAttended' /\ ExitsOK' /\ StopsOK'
    <3>1. OwnersDiffer'
      BY Zenon, <1>1, <2>1 DEF Ownership, OwnersDiffer
    <3>2. AllAttended'
      BY Zenon, <1>1, <2>1 DEF Ownership, AllAttended, Attended, Live, Excused
    <3>3. ExitsOK'
      BY Zenon, <1>1 DEF Ownership, ExitsOK
    <3>4. StopsOK'
      BY <1>1, <2>1 DEF Ownership, StopsOK, BeginStop
    <3> QED
      BY Zenon, <3>1, <3>2, <3>3, <3>4
  <2>3. TargetsOK' /\ ChildOK' /\ MonitorsOK' /\ StatusFresh'
    <3>1. TargetsOK'
      BY <1>1, <2>1 DEF Ownership, TargetsOK, BeginStop
    <3>2. ChildOK'
      BY Zenon, <1>1, <2>1 DEF ChildOK
    <3>3. MonitorsOK'
      BY Zenon, <1>1 DEF Ownership, MonitorsOK
    <3>4. StatusFresh'
      BY Zenon, <1>1 DEF StatusFresh
    <3> QED
      BY Zenon, <3>1, <3>2, <3>3, <3>4
  <2> QED
    BY Zenon, <2>2, <2>3 DEF Ownership
<1>3. CASE DeferStopped
  <2>1. /\ loop = "dstop" /\ loop' = "closing" /\ pending' = 0 /\ stp'["run"].ph = "none"
        /\ stp["run"].ph \in {"ok", "err"} /\ stp["run"].p = pending
        /\ abandoned' = abandoned \cup Failed("run")
    BY Zenon, <1>1, <1>3 DEF DeferStopped, StopEnded, DataOK, NoStop, Ownership, TargetsOK,
       lifeVars, reqVars, pubVars, procVars, clientVars
  <2>2. Live(pending) \/ desc[pending] => pending \in abandoned'
    BY Zenon, <1>1, <2>1 DEF Failed, Live, Ownership, StopsOK
  <2>3. OwnersDiffer' /\ AllAttended' /\ ExitsOK' /\ StopsOK'
    <3>1. OwnersDiffer'
      BY Zenon, <1>1, <2>1 DEF Ownership, OwnersDiffer
    <3>2. AllAttended'
      BY Zenon, <1>1, <2>1, <2>2 DEF Ownership, AllAttended, Attended, Live, Excused
    <3>3. ExitsOK'
      BY Zenon, <1>1 DEF Ownership, ExitsOK
    <3>4. StopsOK'
      BY Zenon, <1>1, <2>1 DEF Ownership, StopsOK
    <3> QED
      BY Zenon, <3>1, <3>2, <3>3, <3>4
  <2>4. TargetsOK' /\ ChildOK' /\ MonitorsOK' /\ StatusFresh'
    <3>1. TargetsOK'
      BY Zenon, <1>1, <2>1 DEF Ownership, TargetsOK
    <3>2. ChildOK'
      BY Zenon, <1>1, <2>1 DEF ChildOK
    <3>3. MonitorsOK'
      BY Zenon, <1>1 DEF Ownership, MonitorsOK
    <3>4. StatusFresh'
      BY Zenon, <1>1 DEF StatusFresh
    <3> QED
      BY Zenon, <3>1, <3>2, <3>3, <3>4
  <2> QED
    BY Zenon, <2>3, <2>4 DEF Ownership
<1> QED
  BY Zenon, <1>2, <1>3

-----------------------------------------------------------------------------
(* Update sessions.                                                        *)

\* A session starts a process, stops it, or returns with one still to be stopped.
LEMMA SessionMoves ==
  ASSUME DataOK, Control, Ownership, NEW e \in Execs,
         SessionStart(e) \/ SessionStop(e) \/ SessionStopEnds(e) \/ SessionReturn(e)
  PROVE  Ownership'
<1>1. /\ UNCHANGED <<own, pending, tok, desc, mon, abandoned, displaced, loop, why, status>>
      /\ sess[e].st # "none"
  BY Zenon DEF SessionStart, SessionStop, SessionStopEnds, SessionReturn, flagVars,
     lifeVars, idleVars, loopVars, reqVars, pubVars, procVars, clientVars, histVars
<1>2. /\ e = "run" => loop = "upd"
      /\ loop = "dstop" => e # "run"
  BY Zenon, <1>1 DEF Control, ExecControl
<1>3. CASE SessionStart(e)
  <2>1. PICK p \in Procs, h \in BOOLEAN :
          /\ proc[p] = "unborn" /\ proc' = [proc EXCEPT ![p] = "alive"]
          /\ sess' = [sess EXCEPT ![e].p = p, ![e].healthy = h]
    BY Zenon, <1>3 DEF SessionStart, Fresh, flagVars, lifeVars, idleVars, loopVars,
       reqVars, pubVars, clientVars, histVars
  <2>2. /\ sess'[e].p = p /\ sess'[e].st = sess[e].st
        /\ \A f \in Execs : f # e => sess'[f] = sess[f]
    BY Zenon, <2>1 DEF DataOK, Sessions
  <2>3. /\ proc[p] = "unborn" /\ proc'[p] = "alive" /\ \A q \in Procs : q # p => proc'[q] = proc[q]
        /\ stp' = stp /\ sess[e].st = "work" /\ sess[e].p = 0 /\ p # 0
    <3>1. stp' = stp /\ sess[e].st = "work" /\ sess[e].p = 0
      BY Zenon, <1>3 DEF SessionStart
    <3>2. /\ proc[p] = "unborn" /\ proc'[p] = "alive" /\ p # 0
          /\ \A q \in Procs : q # p => proc'[q] = proc[q]
      BY Zenon, <2>1, Names DEF DataOK
    <3> QED
      BY Zenon, <3>1, <3>2
  <2>4. OwnersDiffer'
    <3>1. own # p /\ pending # p /\ \A f \in Execs : sess[f].p # p
      BY Zenon, <2>3 DEF Ownership, OwnersDiffer
    <3>2. /\ own # 0 => proc'[own] # "unborn"
          /\ pending # 0 => proc'[pending] # "unborn"
          /\ \A f \in Execs : sess[f].p # 0 => proc'[sess[f].p] # "unborn"
      <4>1. own \in Numbers /\ pending \in Numbers /\ \A f \in Execs : sess[f].p \in Numbers
        BY DEF DataOK, Sessions, Numbers
      <4>2. \A q \in Numbers : q # 0 => q \in Procs
        BY Zenon DEF Numbers
      <4> QED
        BY Zenon, <2>3, <3>1, <4>1, <4>2 DEF Ownership, OwnersDiffer
    <3>3. /\ own' # 0 => proc'[own'] # "unborn" /\ own' # pending' /\ \A f \in Execs : sess'[f].p # own'
          /\ pending' # 0 => proc'[pending'] # "unborn" /\ \A f \in Execs : sess'[f].p # pending'
      <4>1. own' = own /\ pending' = pending
        BY Zenon, <1>1
      <4>2. own # 0 => own # pending /\ \A f \in Execs : sess'[f].p # own
        BY Zenon, <2>2, <3>1 DEF Ownership, OwnersDiffer
      <4>3. pending # 0 => \A f \in Execs : sess'[f].p # pending
        BY Zenon, <2>2, <3>1 DEF Ownership, OwnersDiffer
      <4> QED
        BY Zenon, <3>2, <4>1, <4>2, <4>3
    <3>4. ASSUME NEW f \in Execs, sess'[f].p # 0
          PROVE  /\ sess'[f].st # "none" /\ proc'[sess'[f].p] # "unborn"
                 /\ \A g \in Execs : sess'[g].p = sess'[f].p => g = f
      <4>1. CASE f = e
        BY Zenon, <2>2, <2>3, <3>1, <4>1
      <4>2. CASE f # e
        <5>1. sess'[f] = sess[f] /\ sess[f].p # p
          BY Zenon, <2>2, <3>1, <4>2
        <5>2. /\ sess[f].st # "none" /\ proc'[sess[f].p] # "unborn"
              /\ \A g \in Execs : sess[g].p = sess[f].p => g = f
          BY Zenon, <3>2, <3>4, <5>1 DEF Ownership, OwnersDiffer
        <5> QED
          BY Zenon, <2>2, <5>1, <5>2
      <4> QED
        BY Zenon, <4>1, <4>2
    <3> QED
      BY Zenon, <3>3, <3>4 DEF OwnersDiffer
  <2>5. AllAttended' /\ ExitsOK'
    <3>1. AllAttended'
      BY <1>1, <2>2, <2>3, Names DEF Ownership, AllAttended, Attended, Live, Excused
    <3>2. ExitsOK'
      BY Zenon, <1>1, <2>3 DEF Ownership, ExitsOK
    <3> QED
      BY Zenon, <3>1, <3>2
  <2>6. StopsOK' /\ TargetsOK' /\ ChildOK' /\ MonitorsOK' /\ StatusFresh'
    <3>1. StopsOK'
      BY <1>1, <2>3 DEF DataOK, Stops, Control, LoopControl, ExecControl, Ownership,
         StopsOK
    <3>2. TargetsOK'
      BY <1>1, <2>2, <2>3 DEF DataOK, Numbers, Control, LoopControl, Ownership, TargetsOK,
         MonitorsOK, StatusFresh
    <3>3. ChildOK'
      BY Zenon, <1>1, <2>3 DEF DataOK, Numbers, Ownership, ChildOK
    <3>4. MonitorsOK'
      BY Zenon, <1>1 DEF Ownership, MonitorsOK
    <3>5. StatusFresh'
      BY Zenon, <1>1 DEF Ownership, StatusFresh
    <3> QED
      BY Zenon, <3>1, <3>2, <3>3, <3>4, <3>5
  <2> QED
    BY Zenon, <2>4, <2>5, <2>6 DEF Ownership
<1>4. CASE SessionStop(e) \/ SessionReturn(e) \/ (SessionStopEnds(e) /\ stp[e].ph = "err")
  <2>1. /\ sess'[e].p = sess[e].p /\ sess'[e].st \in {"stop", "final", "keep"}
        /\ \A f \in Execs : f # e => sess'[f] = sess[f] /\ stp'[f] = stp[f]
        /\ stp'[e] = SessionStopOf(sess[e].p) /\ proc' = proc /\ sess[e].p \in Procs
    <3>1. /\ stp' = [stp EXCEPT ![e] = SessionStopOf(sess[e].p)] /\ proc' = proc
          /\ \E st \in {"stop", "final", "keep"} :
               \/ sess' = [sess EXCEPT ![e].st = st]
               \/ \E res \in Results : sess' = [sess EXCEPT ![e].res = res, ![e].st = st]
      <4>1. CASE SessionStop(e)
        BY Zenon, <4>1 DEF SessionStop, flagVars, lifeVars, idleVars, loopVars, reqVars,
           pubVars, procVars, clientVars, histVars
      <4>2. CASE SessionReturn(e)
        BY Zenon, <4>2 DEF SessionReturn, flagVars, lifeVars, idleVars, loopVars, reqVars,
           pubVars, procVars, clientVars, histVars
      <4>3. CASE SessionStopEnds(e) /\ stp[e].ph = "err"
        BY Zenon, <4>3 DEF SessionStopEnds, StopConfirmed, flagVars, lifeVars, idleVars,
           loopVars, reqVars, pubVars, procVars, clientVars, histVars
      <4> QED
        BY Zenon, <1>4, <4>1, <4>2, <4>3
    <3>2. sess'[e].p = sess[e].p /\ sess'[e].st \in {"stop", "final", "keep"}
      <4>1. PICK st \in {"stop", "final", "keep"} :
              \/ sess' = [sess EXCEPT ![e].st = st]
              \/ \E res \in Results : sess' = [sess EXCEPT ![e].res = res, ![e].st = st]
        BY Zenon, <3>1
      <4>2. CASE sess' = [sess EXCEPT ![e].st = st]
        BY Zenon, <4>2 DEF DataOK, Sessions
      <4>3. ASSUME NEW res \in Results, sess' = [sess EXCEPT ![e].res = res, ![e].st = st]
            PROVE  sess'[e].p = sess[e].p /\ sess'[e].st = st
        BY <4>3 DEF DataOK, Sessions
      <4> QED
        BY Zenon, <4>1, <4>2, <4>3
    <3>3. \A f \in Execs : f # e => sess'[f] = sess[f]
      BY Zenon, <3>1 DEF DataOK
    <3>4. stp'[e] = SessionStopOf(sess[e].p) /\ \A f \in Execs : f # e => stp'[f] = stp[f]
      BY Zenon, <3>1 DEF DataOK
    <3>5. sess[e].p \in Procs
      BY Zenon, <1>4 DEF SessionStop, SessionReturn, SessionStopEnds, DataOK, Sessions,
         Ownership, TargetsOK, Control, ExecControl, flagVars, lifeVars, idleVars, loopVars,
         reqVars, pubVars, procVars, clientVars, histVars
    <3> QED
      BY Zenon, <3>1, <3>2, <3>3, <3>4, <3>5
  <2>2. /\ stp'[e].p = sess[e].p /\ stp'[e].ph \in {"wait", "desc"}
        /\ stp'[e].ph = "desc" => proc[sess[e].p] = "joined"
    BY <2>1, Names DEF SessionStopOf, BeginStop
  <2>3. OwnersDiffer' /\ AllAttended' /\ ExitsOK'
    <3>0. \A f \in Execs : sess'[f].p = sess[f].p /\ (sess'[f].st = "none" => sess[f].st = "none")
      BY Zenon, <2>1
    <3>4. own' = own /\ pending' = pending /\ proc' = proc /\ desc' = desc /\ Excused' = Excused
      BY Zenon, <1>1, <2>1 DEF Excused
    <3>1. OwnersDiffer'
      <4>1. OwnersDiffer
        BY Zenon DEF Ownership
      <4> QED
        BY <3>0, <3>4, <4>1 DEF OwnersDiffer
    <3>2. AllAttended'
      <4>1. AllAttended
        BY Zenon DEF Ownership
      <4> QED
        BY Zenon, <3>0, <3>4, <4>1 DEF AllAttended, Attended, Live
    <3>3. ExitsOK'
      BY Zenon, <1>1, <2>1 DEF Ownership, ExitsOK
    <3> QED
      BY Zenon, <3>1, <3>2, <3>3
  <2>4. StopsOK' /\ TargetsOK' /\ ChildOK' /\ MonitorsOK' /\ StatusFresh'
    <3>1. StopsOK'
      BY <1>1, <2>1, <2>2 DEF Ownership, StopsOK
    <3>2. TargetsOK'
      BY <1>1, <1>2, <2>1, <2>2, Names DEF Ownership, TargetsOK
    <3>3. ChildOK'
      BY Zenon, <1>1, <2>1 DEF Ownership, ChildOK
    <3>4. MonitorsOK'
      BY Zenon, <1>1 DEF Ownership, MonitorsOK
    <3>5. StatusFresh'
      BY Zenon, <1>1 DEF Ownership, StatusFresh
    <3> QED
      BY Zenon, <3>1, <3>2, <3>3, <3>4, <3>5
  <2> QED
    BY Zenon, <2>3, <2>4 DEF Ownership
<1>5. CASE SessionStopEnds(e) /\ StopConfirmed(e) /\ stp[e].ph # "err"
  <2>1. /\ sess'[e].p = 0 /\ sess'[e].st = "work" /\ stp'[e].ph = "none" /\ proc' = proc
        /\ \A f \in Execs : f # e => sess'[f] = sess[f] /\ stp'[f] = stp[f]
    BY <1>5 DEF SessionStopEnds, DataOK, Sessions, NoStop, flagVars, lifeVars, idleVars,
       loopVars, reqVars, pubVars, procVars, clientVars, histVars
  <2>2. ~Live(sess[e].p) /\ ~desc[sess[e].p]
    BY Zenon, <1>5 DEF SessionStopEnds, StopConfirmed, Ownership, TargetsOK, StopsOK, Live,
       flagVars, lifeVars, idleVars, loopVars, reqVars, pubVars, procVars, clientVars,
       histVars
  <2>3. OwnersDiffer' /\ AllAttended' /\ ExitsOK'
    <3>1. OwnersDiffer'
      BY <1>1, <2>1 DEF Ownership, OwnersDiffer
    <3>2. AllAttended'
      <4> SUFFICES ASSUME NEW q \in Procs, Live(q)' \/ desc'[q] PROVE Attended(q)'
        BY Zenon DEF AllAttended
      <4>1. Attended(q) /\ q # sess[e].p
        BY Zenon, <1>1, <2>1, <2>2 DEF Ownership, AllAttended, Live
      <4> QED
        BY Zenon, <1>1, <2>1, <4>1 DEF Attended, Excused
    <3>3. ExitsOK'
      BY Zenon, <1>1, <2>1 DEF Ownership, ExitsOK
    <3> QED
      BY Zenon, <3>1, <3>2, <3>3
  <2>4. StopsOK' /\ TargetsOK' /\ ChildOK' /\ MonitorsOK' /\ StatusFresh'
    <3>1. StopsOK'
      BY Zenon, <1>1, <2>1 DEF Ownership, StopsOK
    <3>2. TargetsOK'
      BY Zenon, <1>1, <1>2, <2>1, Names DEF Ownership, TargetsOK
    <3>3. ChildOK'
      BY Zenon, <1>1, <2>1 DEF Ownership, ChildOK
    <3>4. MonitorsOK'
      BY Zenon, <1>1 DEF Ownership, MonitorsOK
    <3>5. StatusFresh'
      BY Zenon, <1>1 DEF Ownership, StatusFresh
    <3> QED
      BY Zenon, <3>1, <3>2, <3>3, <3>4, <3>5
  <2> QED
    BY Zenon, <2>3, <2>4 DEF Ownership
<1> QED
  BY Zenon, <1>3, <1>4, <1>5 DEF SessionStopEnds, flagVars, lifeVars, idleVars, loopVars,
     reqVars, pubVars, procVars, clientVars, histVars

\* performUpdate returns: its process is pending, confirmed to have ended, or
\* reported lost, and so is the process that was pending.
LEMMA EndsUpdate ==
  ASSUME DataOK, Control, Ownership, NEW e \in Execs, NEW res, NEW obs, EndUpdate(e, res, obs),
         sess[e].st # "none", UNCHANGED <<proc, tok, desc, mon>>, Excused \subseteq Excused',
         pending' \in {0, pending, sess[e].p},
         LET q == sess[e].p IN q # 0 /\ (Live(q) \/ desc[q]) => pending' = q \/ q \in Excused',
         pending # 0 /\ pending' # pending => pending \in Excused'
  PROVE  Ownership'
<1>1. /\ sess'[e].p = 0 /\ sess'[e].st = "none" /\ stp'[e].ph = "none" /\ "run" \in Execs
      /\ \A f \in Execs : f # e => sess'[f] = sess[f] /\ stp'[f] = stp[f]
  BY Zenon, Names DEF EndUpdate, DataOK, NoSession, NoStop, reqVars
<1>2. \/ e = "run" /\ loop = "upd" /\ own' = 0 /\ loop' \in {"top", "defer"}
      \/ /\ e # "run" /\ UNCHANGED <<loop, why, own>>
         /\ loop \notin {"own", "backoff", "dstop", "closing"}
  BY Zenon, Names DEF EndUpdate, Resume, Control, ExecControl, IdleControl, IdleCaller,
     reqVars
<1>3. own # 0 /\ e = "run" => ~Live(own) /\ ~desc[own]
  BY Zenon, <1>2 DEF Ownership, ChildOK, Live
<1>4. OwnersDiffer'
  <2>1. /\ own' \in {0, own} /\ proc' = proc
        /\ \A f \in Execs : sess'[f].p # 0 => f # e /\ sess'[f] = sess[f]
    BY Zenon, <1>1, <1>2
  <2>2. OwnersDiffer
    BY Zenon DEF Ownership
  <2>3. own' # 0 => proc'[own'] # "unborn" /\ own' # pending' /\ \A f \in Execs : sess'[f].p # own'
    BY Zenon, <2>1, <2>2 DEF OwnersDiffer
  <2>4. pending' # 0 => proc'[pending'] # "unborn" /\ \A f \in Execs : sess'[f].p # pending'
    BY Zenon, <2>1, <2>2 DEF OwnersDiffer
  <2>5. \A f \in Execs : sess'[f].p # 0 =>
          /\ sess'[f].st # "none" /\ proc'[sess'[f].p] # "unborn"
          /\ \A g \in Execs : sess'[g].p = sess'[f].p => g = f
    <3> SUFFICES ASSUME NEW f \in Execs, sess'[f].p # 0
                 PROVE  /\ sess'[f].st # "none" /\ proc'[sess'[f].p] # "unborn"
                        /\ \A g \in Execs : sess'[g].p = sess'[f].p => g = f
      BY Zenon
    <3>1. sess'[f] = sess[f] /\ sess[f].p # 0
      BY Zenon, <2>1
    <3>2. ASSUME NEW g \in Execs, sess'[g].p = sess'[f].p PROVE g = f
      <4>1. sess'[g] = sess[g]
        BY Zenon, <2>1, <3>2
      <4>2. sess[g].p = sess[f].p
        BY Zenon, <3>1, <3>2, <4>1
      <4> QED
        BY Zenon, <2>2, <3>1, <4>2 DEF OwnersDiffer
    <3> QED
      BY Zenon, <2>1, <2>2, <3>1, <3>2 DEF OwnersDiffer
  <2> QED
    BY Zenon, <2>3, <2>4, <2>5 DEF OwnersDiffer
<1>5. AllAttended' /\ ExitsOK'
  <2>1. AllAttended'
    <3> SUFFICES ASSUME NEW p \in Procs, Live(p) \/ desc[p], p \notin Excused'
                 PROVE  own' = p \/ pending' = p \/ \E f \in Execs : sess'[f].p = p
      BY Zenon DEF AllAttended, Attended, Live
    <3>1. p # 0 /\ (own = p \/ pending = p \/ \E f \in Execs : sess[f].p = p)
      BY Zenon, Names DEF Ownership, AllAttended, Attended
    <3>2. own = p => own' = p
      BY Zenon, <1>2, <1>3, <3>1
    <3>3. pending = p => pending' = p
      BY Zenon, <3>1
    <3>4. ASSUME NEW f \in Execs, sess[f].p = p PROVE sess'[f].p = p \/ pending' = p
      BY Zenon, <1>1, <3>1, <3>4
    <3> QED
      BY Zenon, <3>1, <3>2, <3>3, <3>4
  <2>2. ExitsOK'
    BY Zenon DEF Ownership, ExitsOK
  <2> QED
    BY Zenon, <2>1, <2>2
<1>6. StopsOK' /\ TargetsOK'
  <2>1. StopsOK'
    BY Zenon, <1>1 DEF Ownership, StopsOK
  <2>2. TargetsOK'
    BY Zenon, <1>1, <1>2 DEF Ownership, TargetsOK
  <2> QED
    BY Zenon, <2>1, <2>2
<1>7. ChildOK' /\ MonitorsOK' /\ StatusFresh'
  <2>1. ChildOK'
    BY Zenon, <1>2 DEF Ownership, ChildOK
  <2>2. MonitorsOK'
    BY Zenon, <1>2 DEF Ownership, MonitorsOK
  <2>3. StatusFresh'
    BY Zenon, <1>2 DEF StatusFresh
  <2> QED
    BY Zenon, <2>1, <2>2, <2>3
<1> QED
  BY Zenon, <1>4, <1>5, <1>6, <1>7 DEF Ownership

LEMMA SessionEnds ==
  ASSUME DataOK, Control, Ownership, NEW e \in Execs,
         SessionDegraded(e) \/ SessionKeepFails(e) \/ SessionFinish(e)
  PROVE  Ownership'
<1>1. sess[e].st # "none" /\ UNCHANGED <<proc, tok, desc, mon>> /\ Excused \subseteq Excused'
  BY Zenon DEF SessionDegraded, SessionKeepFails, SessionFinish, Settle, Excused, lifeVars,
     idleVars, procVars
<1>2. StopConfirmed(e) /\ sess[e].st \in {"final", "keep"} => ~Live(sess[e].p) /\ ~desc[sess[e].p]
  BY Zenon DEF StopConfirmed, Ownership, TargetsOK, StopsOK, Live
<1>3. CASE SessionDegraded(e)
  <2>1. /\ pending' = pending /\ EndUpdate(e, "degraded", Observation("degraded", 0, 0))
        /\ sess[e].p = 0 \/ stp[e].ph = "err" \/ StopConfirmed(e)
        /\ sess[e].p # 0 => sess[e].st = "final"
        /\ abandoned' = abandoned \cup Failed(e)
    BY Zenon, <1>3 DEF SessionDegraded, lifeVars, idleVars, procVars
  <2>2. sess[e].p # 0 /\ (Live(sess[e].p) \/ desc[sess[e].p]) => sess[e].p \in Excused'
    BY Zenon, <1>2, <2>1 DEF Failed, Excused, Ownership, TargetsOK
  <2> QED
    BY Zenon, <1>1, <2>1, <2>2, EndsUpdate
<1>4. CASE SessionKeepFails(e)
  <2>1. /\ pending' = pending /\ EndUpdate(e, "err", status)
        /\ stp[e].ph = "err" /\ sess[e].st = "keep"
        /\ abandoned' = abandoned \cup Failed(e)
    BY Zenon, <1>4 DEF SessionKeepFails, lifeVars, idleVars, procVars
  <2>2. sess[e].p \in Excused'
    BY Zenon, <2>1 DEF Failed, Excused, Ownership, TargetsOK
  <2> QED
    BY Zenon, <1>1, <2>1, <2>2, EndsUpdate
<1>5. ASSUME NEW p \in {0, sess[e].p}, NEW res, NEW keep, Settle(e, p, res, keep),
             p = 0 => sess[e].p = 0 \/ (~Live(sess[e].p) /\ ~desc[sess[e].p])
      PROVE  Ownership'
  <2>1. /\ pending' = p /\ EndUpdate(e, res, status)
        /\ displaced' = displaced \cup ({pending} \ {0, p})
    BY Zenon, <1>5 DEF Settle, lifeVars, procVars
  <2>2. pending # 0 /\ pending' # pending => pending \in Excused'
    BY Zenon, <2>1 DEF Excused
  <2> QED
    BY Zenon, <1>1, <1>5, <2>1, <2>2, EndsUpdate
<1>6. CASE SessionFinish(e)
  BY Zenon, <1>2, <1>5, <1>6 DEF SessionFinish
<1> QED
  BY Zenon, <1>3, <1>4, <1>6

-----------------------------------------------------------------------------
(* The theorems.                                                           *)

LEMMA OwnershipInit == Init => Ownership
<1> SUFFICES ASSUME Init PROVE Ownership
  OBVIOUS
<1>1. "run" \in Execs
  BY Zenon, Names
<1>2. OwnersDiffer /\ AllAttended /\ ExitsOK
  BY Zenon DEF Init, NoSession, OwnersDiffer, AllAttended, Live, ExitsOK
<1>3. StopsOK /\ TargetsOK /\ ChildOK /\ MonitorsOK /\ StatusFresh
  BY Zenon DEF Init, NoSession, NoStop, NoMonitor, StopsOK, TargetsOK, ChildOK, MonitorsOK,
     StatusFresh
<1> QED
  BY Zenon, <1>2, <1>3 DEF Ownership

LEMMA OwnershipNext == Inv /\ Ownership /\ [Next]_vars => Ownership'
<1> SUFFICES ASSUME DataOK, Control, Ownership, [Next]_vars PROVE Ownership'
  BY Zenon DEF Inv, vars, flagVars, lifeVars, idleVars, loopVars, reqVars, pubVars,
     procVars, clientVars, execVars, histVars
<1>1. CASE UNCHANGED vars
  BY Zenon, <1>1, Untouched DEF ownVars, vars, flagVars, lifeVars, idleVars, loopVars,
     reqVars, pubVars, procVars, clientVars, execVars, histVars
<1>2. ASSUME NEW p \in Procs, ProcExit(p) \/ DescendantsExit(p) \/ MonitorStep(p)
      PROVE  Ownership'
  BY Zenon, <1>2, ProcMoves, MonitorMoves DEF vars, flagVars, lifeVars, idleVars, loopVars,
     reqVars, pubVars, procVars, clientVars, execVars, histVars
<1>3. ASSUME NEW e \in Execs, ExecStep(e)
      PROVE  Ownership'
  BY Zenon, <1>3, StopMoves, SessionMoves, SessionEnds DEF ExecStep, SessionStep, vars,
     flagVars, lifeVars, idleVars, loopVars, reqVars, pubVars, procVars, clientVars, execVars,
     histVars
<1>4. ASSUME NEW c \in Clients,
             \/ ClientStep(c)
             \/ IdleReject(c) \/ IdleUpdate(c) \/ OwnRequest(c) \/ BackoffRestart(c) \/ BackoffOwned(c)
      PROVE  Ownership'
  BY Zenon, <1>4, ClientMoves, IdleBegins, LoopMoves, CallbackBegins, ChildEnds DEF
     ClientStep, vars, flagVars, lifeVars, idleVars, loopVars, reqVars, pubVars, procVars,
     clientVars, execVars, histVars
<1>5. CASE WaitForCore \/ CancelRun \/ Terminated
  <2>1. UNCHANGED <<ownVars, loop, why, status>>
    BY Zenon, <1>5 DEF ownVars, WaitForCore, CancelRun, Terminated, vars, flagVars,
       lifeVars, idleVars, loopVars, reqVars, pubVars, procVars, clientVars, execVars,
       histVars
  <2> QED
    BY Zenon, <2>1, Untouched DEF vars, flagVars, lifeVars, idleVars, loopVars, reqVars,
       pubVars, procVars, clientVars, execVars, histVars
<1>6. CASE \/ RunEnter \/ RunStore \/ LoopTop \/ IdleWake \/ LoopCancelled \/ TakeGate
           \/ StartFails \/ BackoffEnds \/ Deactivate \/ CloseRunDone
  BY Zenon, <1>6, LoopMoves DEF vars, flagVars, lifeVars, idleVars, loopVars, reqVars,
     pubVars, procVars, clientVars, execVars, histVars
<1>7. CASE OwnCancelled \/ OwnUnhealthy \/ OwnExited \/ OwnStopped
  BY Zenon, <1>7, ChildEnds DEF vars, flagVars, lifeVars, idleVars, loopVars, reqVars,
     pubVars, procVars, clientVars, execVars, histVars
<1>8. CASE \/ Recheck \/ StartChild \/ JoinedPlain \/ JoinedExit \/ JoinedRestart \/ JoinedOwned
           \/ OwnJoined \/ LoopWork \/ DeferGate \/ DeferStopped
  BY Zenon, <1>8, LaunchMoves, ChildLeft, ChildServed, DeferMoves DEF vars, flagVars,
     lifeVars, idleVars, loopVars, reqVars, pubVars, procVars, clientVars, execVars, histVars
<1> QED
  BY Zenon, <1>1, <1>2, <1>3, <1>4, <1>5, <1>6, <1>7, <1>8 DEF Next, LoopStep, vars,
     flagVars, lifeVars, idleVars, loopVars, reqVars, pubVars, procVars, clientVars, execVars,
     histVars

THEOREM OwnershipHolds == Spec => []Ownership
<1>1. Spec => []Inv
  BY Zenon, Invariance
<1> QED
  BY <1>1, OwnershipInit, OwnershipNext, PTL DEF Spec

\* A session belongs to an executor that is inside its callback.
LEMMA SessionsWork ==
  ASSUME Control, Ownership, NEW e \in Execs, sess[e].p # 0
  PROVE  IF e = "run" THEN loop = "upd" ELSE IdleCaller(e)
BY Zenon, Names DEF Control, ExecControl, IdleCaller, Ownership, OwnersDiffer

\* Cardinality counts the one element of a singleton: the function it is defined by
\* is the one given here.
LEMMA SingletonCounts ==
  ASSUME NEW x
  PROVE  Cardinality({x}) = 1
<1> DEFINE Counts(f) ==
             f = [T \in SUBSET {x} |-> IF T = {} THEN 0 ELSE 1 + f[T \ {CHOOSE y : y \in T}]]
<1> DEFINE g == [T \in SUBSET {x} |-> IF T = {} THEN 0 ELSE 1]
<1> DEFINE h == CHOOSE f : Counts(f)
<1>1. ASSUME NEW T \in SUBSET {x}, T # {}
      PROVE  T \ {CHOOSE y : y \in T} = {}
  <2>1. (CHOOSE y : y \in T) \in T
    BY Zenon, <1>1
  <2> QED
    BY Zenon, <2>1
<1>2. Counts(g)
  <2>1. {} \in SUBSET {x} /\ g[{}] = 0
    OBVIOUS
  <2>2. ASSUME NEW T \in SUBSET {x}
        PROVE  g[T] = IF T = {} THEN 0 ELSE 1 + g[T \ {CHOOSE y : y \in T}]
    BY <1>1, <2>1
  <2>3. g = [T \in SUBSET {x} |-> IF T = {} THEN 0 ELSE 1 + g[T \ {CHOOSE y : y \in T}]]
    BY Zenon, <2>2
  <2> QED
    BY <2>3, Zenon
<1>3. Counts(h)
  BY <1>2, Zenon
<1>4. Cardinality({x}) = h[{x}]
  BY Zenon DEF Cardinality
<1>5. h = [T \in SUBSET {x} |-> IF T = {} THEN 0 ELSE 1 + h[T \ {CHOOSE y : y \in T}]]
  BY <1>3, Zenon
<1> HIDE DEF h
<1>6. h[{}] = 0
  BY Zenon, <1>5
<1>7. h[{x}] = 1 + h[{}]
  BY Zenon, <1>1, <1>5
<1> QED
  BY <1>4, <1>6, <1>7

\* One owner: the three kinds of owner exclude each other.
LEMMA OneOwnerEach == Inv /\ Ownership => OneOwner
<1> SUFFICES ASSUME DataOK, Ownership, NEW p \in Procs, Live(p), p \notin Excused
             PROVE  Cardinality(Owners(p)) = 1
  BY Zenon DEF Inv, OneOwner
<1>1. p # 0 /\ Attended(p)
  BY Zenon, Names DEF Ownership, AllAttended
<1>2. \E x : Owners(p) = {x}
  <2>1. CASE own = p
    <3>1. Owners(p) = {"loop"}
      BY Zenon, <1>1, <2>1 DEF Owners, Ownership, OwnersDiffer
    <3> QED
      BY Zenon, <3>1
  <2>2. CASE own # p /\ pending = p
    <3>1. Owners(p) = {"pending"}
      BY Zenon, <1>1, <2>2 DEF Owners, Ownership, OwnersDiffer
    <3> QED
      BY Zenon, <3>1
  <2>3. CASE own # p /\ pending # p
    <3>1. PICK e \in Execs : sess[e].p = p
      BY Zenon, <1>1, <2>3 DEF Attended
    <3>2. Owners(p) = {e}
      BY Zenon, <1>1, <3>1 DEF Owners, Ownership, OwnersDiffer
    <3> QED
      BY Zenon, <3>2
  <2> QED
    BY Zenon, <2>1, <2>2, <2>3
<1>3. PICK x : Owners(p) = {x}
  BY Zenon, <1>2
<1>4. Cardinality({x}) = 1
  BY Zenon, SingletonCounts
<1> QED
  BY Zenon, <1>3, <1>4

\* For any clients, processes and calls: a live process has one owner or was
\* reported lost, none runs beside a callback of the loop or after Run, and the
\* status is the current child's (runOwnedChild, performUpdate, Run's defer).
THEOREM ProcessesAreOwned == Spec => []ProcessesOwned
<1>1. Inv /\ Ownership => WorkAlone
  <2> SUFFICES ASSUME DataOK, Control, Ownership, loop \in {"work", "upd"}, NEW p \in Procs, Live(p)
               PROVE  p \in {sess["run"].p, pending} \cup Excused
    BY Zenon DEF Inv, WorkAlone
  <2>1. Attended(p) /\ own # p /\ p # 0
    BY Zenon, Names DEF Ownership, AllAttended, ChildOK, Live
  <2>2. ASSUME NEW e \in Execs, sess[e].p = p PROVE e = "run"
    BY Zenon, <2>2, SessionsWork, Names DEF Control, IdleControl
  <2> QED
    BY Zenon, <2>1, <2>2 DEF Attended
<1>2. Inv /\ Ownership => ShutdownClean
  <2> SUFFICES ASSUME DataOK, Control, Ownership, loop = "closing", NEW p \in Procs, Live(p)
               PROVE  p \in Excused
    BY Zenon DEF Inv, ShutdownClean
  <2>1. Attended(p) /\ own # p /\ pending # p /\ p # 0
    BY Zenon, Names DEF Ownership, AllAttended, ChildOK
  <2>2. \A e \in Execs : sess[e].p # p
    BY Zenon, SessionsWork, Names DEF Control, IdleControl
  <2> QED
    BY Zenon, <2>1, <2>2 DEF Attended
<1>3. Inv /\ Ownership => ProcessesOwned
  BY Zenon, <1>1, <1>2, OneOwnerEach DEF ProcessesOwned, Ownership
<1> QED
  BY <1>3, Invariance, OwnershipHolds, PTL

\* For any clients, processes and calls: no descendant of an earlier child is left
\* beside a start, a child or a callback, unless that child was reported lost
\* (waitDescendants).
THEOREM DescendantsAreGone == Spec => []NoDescendantsBeside
<1>1. Inv /\ Ownership => NoDescendantsBeside
  <2> SUFFICES ASSUME DataOK, Control, Ownership, loop \in {"start", "own", "work", "upd"},
                      NEW p \in Procs, desc[p]
               PROVE  p \in {own, pending, sess["run"].p} \cup Excused
    BY Zenon DEF Inv, NoDescendantsBeside
  <2>1. Attended(p) /\ p # 0
    BY Zenon, Names DEF Ownership, AllAttended
  <2>2. ASSUME NEW e \in Execs, sess[e].p = p PROVE e = "run"
    BY Zenon, <2>2, SessionsWork, Names DEF Control, IdleControl
  <2> QED
    BY Zenon, <2>1, <2>2 DEF Attended
<1> QED
  BY <1>1, Invariance, OwnershipHolds, PTL
=============================================================================
