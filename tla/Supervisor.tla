----------------------------- MODULE Supervisor -----------------------------
(***************************************************************************)
(* The owner of the mihomo process: internal/supervisor/supervisor.go and  *)
(* update.go.  One goroutine executes Run (the event loop); a monitor      *)
(* goroutine and a Wait goroutine belong to each child; any number of      *)
(* callers use Restart, Maintain, Update and Reinstall.                    *)
(*                                                                         *)
(* stopChild and performUpdate are executed by the event loop or, while no *)
(* loop is active, by the caller itself.  Their state is therefore kept    *)
(* per executor: stp[e] for stopChild, sess[e] for an UpdateSession.       *)
(*                                                                         *)
(* Channels are unbuffered handshakes (the loop takes a request from a     *)
(* caller standing at its send), the startGate token is the variable gate, *)
(* and every step ends where the code blocks, or where another goroutine   *)
(* could observe a difference.  Time is nondeterministic: a timer may fire *)
(* whenever the code waits on one.                                         *)
(***************************************************************************)
EXTENDS Naturals, FiniteSets

CONSTANTS
  Clients,        \* callers of the supervisor's methods
  MaxProcs,       \* bound: processes the starter can create
  MaxCalls,       \* bound: calls one client makes
  MaxRestarts,    \* bound: failed starts happen only below this count
  FailureLimit,   \* consecutive health failures that end a child (the code's is 3)
  KillFails,      \* TRUE: Kill may report an error on a live process
  Descendants     \* TRUE: a child may leave descendants behind when it exits

ASSUME ClientsAssumption == {"run", "none", "free"} \cap Clients = {}
ASSUME BoundsAssumption ==
  /\ MaxProcs \in Nat /\ MaxCalls \in Nat /\ MaxRestarts \in Nat
  /\ FailureLimit \in Nat \ {0}
  /\ KillFails \in BOOLEAN /\ Descendants \in BOOLEAN

VARIABLES
  active, blocked, waiting,  \* the atomics of the same names
  runDone,    \* the runDone channel: "nil" (not stored), "open" or "closed"
  ctxDone,    \* the context passed to Run has been cancelled
  gate,       \* who holds the startGate token ("free": it is in the channel)
  wake,       \* a token is in updateWake
  pending,    \* s.pending: process adopted by the next loop iteration, or 0
  loop,       \* where the event loop is
  why,        \* which case of runOwnedChild's select was taken
  ret,        \* where performUpdate or work returns to
  own,        \* the child of runOwnedChild, or 0
  cur,        \* the client whose request the loop is serving
  restarts,   \* Run's restart counter
  status,     \* the last Observation published
  proc,       \* proc[p]: life of a process and of its Wait goroutine
  tok,        \* tok[p]: the exit result is in the done channel of p
  desc,       \* desc[p]: descendants of p are alive although p has exited
  mon,        \* mon[p]: the monitor goroutine of p
  cl,         \* cl[c]: where client c is, its method and the response channel
  calls,      \* calls[c]: calls client c has made
  stp,        \* stp[e]: executor e inside stopChild
  sess,       \* sess[e]: executor e inside performUpdate
  abandoned,  \* history: processes let go of after a stop that failed
  displaced   \* history: processes overwritten in s.pending

lifeVars   == <<active, runDone, ctxDone>>
idleVars   == <<waiting, wake, pending>>
flagVars   == <<lifeVars, idleVars, blocked, gate>>
reqVars    == <<why, ret, own, cur>>
pubVars    == <<restarts, status>>
loopVars   == <<loop, reqVars, pubVars>>
procVars   == <<proc, tok, desc, mon>>
clientVars == <<cl, calls>>
execVars   == <<stp, sess>>
histVars   == <<abandoned, displaced>>
vars == <<flagVars, loopVars, procVars, clientVars, execVars, histVars>>

Procs == 1..MaxProcs
Execs == {"run"} \cup Clients
Ops == {"restart", "maintain", "update", "reinstall"}
Results == {"ok", "err", "degraded"}
Statuses == {"stopped", "starting", "running", "backoff", "degraded"}

NoCall == [pc |-> "rest", op |-> "none", resp |-> "none"]
NoStop == [p |-> 0, ph |-> "none", terr |-> FALSE]
NoSession == [st |-> "none", was |-> FALSE, p |-> 0, healthy |-> FALSE, res |-> "none"]
NoMonitor == [st |-> "none", fails |-> 0, pub |-> FALSE, failed |-> FALSE]

Live(p) == proc[p] \in {"alive", "dying"}
Observation(s, p, n) == [st |-> s, p |-> p, n |-> n]

Init ==
  /\ active = FALSE /\ blocked = FALSE /\ waiting = FALSE
  /\ runDone = "nil" /\ ctxDone = FALSE /\ gate = "free" /\ wake = FALSE
  /\ pending = 0
  /\ loop = "off" /\ why = "none" /\ ret = "none" /\ own = 0 /\ cur = "none"
  /\ restarts = 0 /\ status = Observation("stopped", 0, 0)
  /\ proc = [p \in Procs |-> "unborn"] /\ tok = [p \in Procs |-> FALSE]
  /\ desc = [p \in Procs |-> FALSE] /\ mon = [p \in Procs |-> NoMonitor]
  /\ cl = [c \in Clients |-> NoCall] /\ calls = [c \in Clients |-> 0]
  /\ stp = [e \in Execs |-> NoStop] /\ sess = [e \in Execs |-> NoSession]
  /\ abandoned = {} /\ displaced = {}

-----------------------------------------------------------------------------
(* Processes: the operating system and the Wait goroutine of ownChild.     *)

\* The next process the starter creates.
Fresh(p) == proc[p] = "unborn" /\ \A q \in Procs : q < p => proc[q] # "unborn"

\* The process exits: Wait returns, its result is sent on done and joined is closed.
ProcExit(p) ==
  /\ Live(p)
  /\ proc' = [proc EXCEPT ![p] = "joined"]
  /\ tok' = [tok EXCEPT ![p] = TRUE]
  /\ \E d \in (IF Descendants THEN BOOLEAN ELSE {FALSE}) : desc' = [desc EXCEPT ![p] = d]
  /\ UNCHANGED <<flagVars, loopVars, clientVars, execVars, histVars, mon>>

DescendantsExit(p) ==
  /\ desc[p]
  /\ desc' = [desc EXCEPT ![p] = FALSE]
  /\ UNCHANGED <<flagVars, loopVars, clientVars, execVars, histVars, proc, tok, mon>>

-----------------------------------------------------------------------------
(* monitor: one goroutine per child started by runOwnedChild.              *)

\* A health check succeeds; Running is published once.
MonitorHealthy(p) ==
  /\ mon[p].st = "run"
  /\ mon' = [mon EXCEPT ![p].fails = 0, ![p].pub = TRUE]
  /\ status' = IF mon[p].pub THEN status ELSE Observation("running", p, restarts)
  /\ UNCHANGED <<flagVars, reqVars, clientVars, execVars, histVars, loop, restarts, proc,
                 tok, desc>>

\* A health check fails; the third failure in a row is reported and ends the monitor.
MonitorUnhealthy(p) ==
  /\ mon[p].st = "run"
  /\ LET n == mon[p].fails + 1 IN
     mon' = [mon EXCEPT ![p] = IF n < FailureLimit THEN [@ EXCEPT !.fails = n]
                               ELSE [NoMonitor EXCEPT !.st = "quit", !.failed = TRUE]]
  /\ UNCHANGED <<flagVars, loopVars, clientVars, execVars, histVars, proc, tok, desc>>

CancelledByRunOnly(p) == ctxDone

\* The monitor's context ends with that of Run, or when finishMonitor cancels it.
Cancelled(p) == ctxDone \/ own # p \/ loop = "join"

\* A wait of the monitor returns the cancellation.
MonitorQuit(p) ==
  /\ mon[p].st = "run" /\ Cancelled(p)
  /\ mon' = [mon EXCEPT ![p] = [NoMonitor EXCEPT !.st = "quit"]]
  /\ UNCHANGED <<flagVars, loopVars, clientVars, execVars, histVars, proc, tok, desc>>

-----------------------------------------------------------------------------
(* stopChild and waitDescendants, by executor e.                           *)

BeginStop(p) == [p |-> p, ph |-> "wait", terr |-> FALSE]

\* After Terminate, done is received; an error of Terminate is kept until the end.
StopDone(e) ==
  /\ stp[e].ph = "wait" /\ tok[stp[e].p]
  /\ tok' = [tok EXCEPT ![stp[e].p] = FALSE]
  /\ \E terr \in BOOLEAN : stp' = [stp EXCEPT ![e].ph = "desc", ![e].terr = terr]
  /\ UNCHANGED <<flagVars, loopVars, clientVars, histVars, proc, desc, mon, sess>>

\* The timer fires and Kill fails: the child stays owned by nobody, blocked is set.
\* Signalling a process that has exited, with no group left, always fails.
StopKillFails(e) ==
  /\ stp[e].ph = "wait"
  /\ KillFails \/ ~(Live(stp[e].p) \/ desc[stp[e].p])
  /\ stp' = [stp EXCEPT ![e].ph = "err"]
  /\ blocked' = TRUE
  /\ UNCHANGED <<loopVars, procVars, lifeVars, idleVars, clientVars, histVars, gate,
                 sess>>

\* The timer fires and Kill succeeds; the code then waits for done alone.
StopKill(e) ==
  /\ stp[e].ph = "wait"
  /\ Live(stp[e].p) \/ desc[stp[e].p]
  /\ stp' = [stp EXCEPT ![e].ph = "killed"]
  /\ proc' = IF Live(stp[e].p) THEN [proc EXCEPT ![stp[e].p] = "dying"] ELSE proc
  /\ UNCHANGED <<flagVars, loopVars, clientVars, histVars, tok, desc, mon, sess>>

StopKilledDone(e) ==
  /\ stp[e].ph = "killed" /\ tok[stp[e].p]
  /\ tok' = [tok EXCEPT ![stp[e].p] = FALSE]
  /\ stp' = [stp EXCEPT ![e].ph = "desc"]
  /\ UNCHANGED <<flagVars, loopVars, clientVars, histVars, proc, desc, mon, sess>>

DescendantsUnchecked(p) == FALSE

\* waitDescendants times out.
DescendantsRemain(p) == desc[p]

\* waitDescendants inside stopChild: a live descendant at the timeout, or an
\* error of Terminate, is an error of the stop and sets blocked.
StopDescendants(e) ==
  /\ stp[e].ph = "desc"
  /\ LET p == stp[e].p
         fails == DescendantsRemain(p) \/ stp[e].terr
     IN /\ stp' = [stp EXCEPT ![e].ph = IF fails THEN "err" ELSE "ok"]
        /\ blocked' = (blocked \/ fails)
        /\ status' = IF DescendantsRemain(p) THEN Observation("degraded", 0, 0) ELSE status
  /\ UNCHANGED <<procVars, reqVars, lifeVars, idleVars, clientVars, histVars, gate, loop,
                 restarts, sess>>

StopStep(e) ==
  \/ StopDone(e) \/ StopKillFails(e) \/ StopKill(e) \/ StopKilledDone(e)
  \/ StopDescendants(e)

-----------------------------------------------------------------------------
(* Where the event loop goes when a child, or a callback, has ended.       *)

\* Return from performUpdate, work or an explicit stop to the point ret names:
\* the idle select, runOwnedChild (explicit) or waitBackoff.
Resume(obs) ==
  LET leaves == ret = "own" /\ ctxDone IN
  /\ loop' = IF leaves THEN "defer" ELSE "top"
  /\ restarts' = IF ret = "idle" \/ leaves THEN restarts ELSE restarts + 1
  /\ status' = IF leaves THEN Observation("stopped", 0, restarts) ELSE obs
  /\ own' = 0 /\ cur' = "none" /\ why' = "none" /\ ret' = "none"

\* runOwnedChild returns explicit = FALSE: stop, wait while blocked, or back off.
LeaveChild(isBlocked, obs) ==
  /\ loop' = IF ctxDone THEN "defer" ELSE IF isBlocked THEN "top" ELSE "backoff"
  /\ status' = IF ctxDone THEN Observation("stopped", 0, restarts)
               ELSE IF isBlocked THEN obs ELSE Observation("backoff", 0, restarts)
  /\ own' = 0 /\ cur' = "none" /\ why' = "none" /\ ret' = "none"
  /\ UNCHANGED restarts

-----------------------------------------------------------------------------
(* UpdateSession and performUpdate, by executor e.  The callback is        *)
(* arbitrary: it may start and stop in any order, then return.  A Start    *)
(* that fails before a process exists changes nothing.                     *)

BeginSession(wasRunning) == [NoSession EXCEPT !.st = "work", !.was = wasRunning]

\* Start and confirmHealth.
SessionStart(e) ==
  /\ sess[e].st = "work" /\ sess[e].p = 0 /\ ~blocked
  /\ \E p \in Procs, h \in BOOLEAN :
       /\ Fresh(p)
       /\ proc' = [proc EXCEPT ![p] = "alive"]
       /\ sess' = [sess EXCEPT ![e].p = p, ![e].healthy = h]
  /\ UNCHANGED <<flagVars, loopVars, clientVars, histVars, tok, desc, mon, stp>>

\* UpdateSession.Stop: a joined process only needs its descendants awaited.
SessionStopOf(p) ==
  IF p = 0 THEN NoStop
  ELSE IF proc[p] = "joined" THEN [BeginStop(p) EXCEPT !.ph = "desc"] ELSE BeginStop(p)

SessionStop(e) ==
  /\ sess[e].st = "work" /\ sess[e].p # 0
  /\ sess' = [sess EXCEPT ![e].st = "stop"]
  /\ stp' = [stp EXCEPT ![e] = SessionStopOf(sess[e].p)]
  /\ UNCHANGED <<flagVars, loopVars, procVars, clientVars, histVars>>

\* Stop has succeeded: the process is also joined before it is forgotten.
StopConfirmed(e) == stp[e].ph = "ok" /\ proc[stp[e].p] = "joined"

\* After a failed Stop the callback returns a degraded error, and performUpdate
\* calls Stop once more.
SessionStopEnds(e) ==
  /\ sess[e].st = "stop"
  /\ \/ /\ StopConfirmed(e)
        /\ sess' = [sess EXCEPT ![e].st = "work", ![e].p = 0, ![e].healthy = FALSE]
        /\ stp' = [stp EXCEPT ![e] = NoStop]
     \/ /\ stp[e].ph = "err"
        /\ sess' = [sess EXCEPT ![e].st = "final"]
        /\ stp' = [stp EXCEPT ![e] = SessionStopOf(sess[e].p)]
  /\ UNCHANGED <<flagVars, loopVars, procVars, clientVars, histVars>>

\* What performUpdate makes of the callback's result and its KeepStopped flag.
NeedsRecovery(s, res, keep) ==
  \/ res = "degraded"
  \/ s.p # 0 /\ ~s.healthy
  \/ s.was /\ s.p = 0 /\ ~keep

\* The callback returns with a process that performUpdate itself has to stop.
SessionReturn(e) ==
  /\ sess[e].st = "work" /\ sess[e].p # 0
  /\ \E res \in Results, keep \in BOOLEAN :
       /\ keep \/ NeedsRecovery(sess[e], res, keep)
       /\ sess' = [sess EXCEPT ![e].res = res,
                     ![e].st = IF NeedsRecovery(sess[e], res, keep) THEN "final" ELSE "keep"]
  /\ stp' = [stp EXCEPT ![e] = SessionStopOf(sess[e].p)]
  /\ UNCHANGED <<flagVars, loopVars, procVars, clientVars, histVars>>

\* The process of executor e's stop, when that stop has failed.
Failed(e) == IF stp[e].ph = "err" THEN {stp[e].p} ELSE {}

\* performUpdate returns to the loop, or to the idle caller that still holds the gate.
EndUpdate(e, res, obs) ==
  /\ sess' = [sess EXCEPT ![e] = NoSession]
  /\ stp' = [stp EXCEPT ![e] = NoStop]
  /\ IF e = "run"
     THEN /\ Resume(obs)
          /\ cl' = [cl EXCEPT ![cur].resp = res]
          /\ UNCHANGED gate
     ELSE /\ cl' = [cl EXCEPT ![e].pc = "wait", ![e].resp = res]
          /\ gate' = "free" /\ status' = obs
          /\ UNCHANGED <<reqVars, loop, restarts>>

\* Recovery is required: the trial is stopped if that is possible, starts are blocked.
SessionDegraded(e) ==
  /\ \/ /\ sess[e].st = "work" /\ sess[e].p = 0
        /\ \E res \in Results, keep \in BOOLEAN : NeedsRecovery(sess[e], res, keep)
     \/ sess[e].st = "final" /\ (stp[e].ph = "err" \/ StopConfirmed(e))
  /\ blocked' = TRUE
  /\ abandoned' = abandoned \cup Failed(e)
  /\ EndUpdate(e, "degraded", Observation("degraded", 0, 0))
  /\ UNCHANGED <<procVars, lifeVars, idleVars, calls, displaced>>

SessionKeepFails(e) ==
  /\ sess[e].st = "keep" /\ stp[e].ph = "err"
  /\ blocked' = TRUE
  /\ abandoned' = abandoned \cup Failed(e)
  /\ EndUpdate(e, "err", status)
  /\ UNCHANGED <<procVars, lifeVars, idleVars, calls, displaced>>

\* A token is put into updateWake unless one is there.
Wake == wake' = TRUE

\* The session's process p becomes pending for the loop to adopt.
Settle(e, p, res, keep) ==
  /\ waiting' = (keep \/ (p = 0 /\ waiting))
  /\ pending' = p
  /\ displaced' = displaced \cup ({pending} \ {0, p})
  /\ Wake
  /\ EndUpdate(e, res, status)
  /\ UNCHANGED <<procVars, lifeVars, blocked, calls, abandoned>>

SessionFinish(e) ==
  \/ /\ sess[e].st = "work"
     /\ \E res \in Results, keep \in BOOLEAN :
          /\ ~NeedsRecovery(sess[e], res, keep)
          /\ keep => sess[e].p = 0
          /\ Settle(e, sess[e].p, res, keep)
  \/ /\ sess[e].st = "keep" /\ StopConfirmed(e)
     /\ Settle(e, 0, sess[e].res, TRUE)

SessionStep(e) ==
  \/ SessionStart(e) \/ SessionStop(e) \/ SessionStopEnds(e) \/ SessionReturn(e)
  \/ SessionDegraded(e) \/ SessionKeepFails(e) \/ SessionFinish(e)

-----------------------------------------------------------------------------
(* Callers.  Maintain, Update and Reinstall pass the gate first; Restart   *)
(* does not.  A caller at "send" offers its request to the event loop.     *)

Call(c) ==
  /\ cl[c].pc = "rest" /\ calls[c] < MaxCalls
  /\ \E op \in Ops :
       cl' = IF op = "restart" /\ (blocked \/ ~active) THEN cl
             ELSE [cl EXCEPT ![c].op = op,
                             ![c].pc = IF op = "restart" THEN "send" ELSE "gate"]
  /\ calls' = [calls EXCEPT ![c] = @ + 1]
  /\ UNCHANGED <<flagVars, loopVars, procVars, execVars, histVars>>

IdleEntry(c) ==
  /\ gate' = c
  /\ cl' = [cl EXCEPT ![c].pc = IF cl[c].op = "maintain" THEN "work" ELSE "sess"]
  /\ sess' = IF cl[c].op = "maintain" THEN sess
             ELSE [sess EXCEPT ![c] = BeginSession(FALSE)]
  /\ blocked' = (blocked /\ cl[c].op # "reinstall")

\* Behind the gate: reject, work in place while no loop is active, or go on to send.
PassGate(c) ==
  /\ cl[c].pc = "gate" /\ gate = "free"
  /\ LET rejected == \/ blocked /\ cl[c].op # "reinstall"
                     \/ active /\ runDone = "nil"
     IN \/ /\ rejected
           /\ cl' = [cl EXCEPT ![c] = NoCall]
           /\ UNCHANGED <<gate, blocked, sess>>
        \/ ~rejected /\ ~active /\ IdleEntry(c)
        \/ /\ ~rejected /\ active
           /\ cl' = [cl EXCEPT ![c].pc = "send"]
           /\ UNCHANGED <<gate, blocked, sess>>
  /\ UNCHANGED <<loopVars, procVars, lifeVars, idleVars, histVars, calls, stp>>

\* Idle maintenance: the callback returns and the gate is released.
IdleWork(c) ==
  /\ cl[c].pc = "work"
  /\ \E res \in Results : blocked' = (blocked \/ res = "degraded")
  /\ cl' = [cl EXCEPT ![c] = NoCall]
  /\ gate' = "free"
  /\ UNCHANGED <<loopVars, procVars, lifeVars, idleVars, execVars, histVars, calls>>

\* The caller's context ends.  Only Restart may leave once its request was taken;
\* a caller that left before its answer makes no further call.
ClientCancel(c) ==
  /\ \/ /\ cl[c].pc \in {"gate", "send"}
        /\ cl' = [cl EXCEPT ![c] = NoCall]
     \/ /\ cl[c].pc = "wait" /\ cl[c].op = "restart" /\ cl[c].resp = "none"
        /\ cl' = [cl EXCEPT ![c].pc = "gone"]
  /\ UNCHANGED <<flagVars, loopVars, procVars, execVars, histVars, calls>>

\* The select of Maintain and Update observes that Run has returned.
ClientRunDone(c) ==
  /\ cl[c].pc = "send" /\ cl[c].op # "restart" /\ runDone = "closed"
  /\ cl' = [cl EXCEPT ![c] = NoCall]
  /\ UNCHANGED <<flagVars, loopVars, procVars, execVars, histVars, calls>>

ClientReturn(c) ==
  /\ cl[c].pc = "wait" /\ cl[c].resp # "none"
  /\ cl' = [cl EXCEPT ![c] = NoCall]
  /\ UNCHANGED <<flagVars, loopVars, procVars, execVars, histVars, calls>>

-----------------------------------------------------------------------------
(* Run, up to a launched child.                                            *)

\* Manager.Run calls WaitForCore before Run when no core binary is installed.
WaitForCore ==
  /\ loop = "off" /\ gate = "free"
  /\ waiting' = (pending = 0)
  /\ UNCHANGED <<loopVars, procVars, lifeVars, clientVars, execVars, histVars, blocked,
                 gate, wake, pending>>

RunEnter ==
  /\ loop = "off"
  /\ active' = TRUE /\ loop' = "entry"
  /\ UNCHANGED <<procVars, reqVars, idleVars, pubVars, clientVars, execVars, histVars,
                 blocked, runDone, ctxDone, gate>>

RunStore ==
  /\ loop = "entry"
  /\ runDone' = "open" /\ loop' = "top"
  /\ UNCHANGED <<procVars, reqVars, idleVars, pubVars, clientVars, execVars, histVars,
                 active, blocked, ctxDone, gate>>

\* The daemon cancels the context of Run.
CancelRun ==
  /\ ~ctxDone /\ ctxDone' = TRUE
  /\ UNCHANGED <<loopVars, procVars, idleVars, clientVars, execVars, histVars, active,
                 blocked, runDone, gate>>

LoopTop ==
  /\ loop = "top"
  /\ loop' = IF ctxDone THEN "defer" ELSE IF blocked \/ waiting THEN "idle" ELSE "gate"
  /\ status' = IF ctxDone THEN Observation("stopped", 0, restarts) ELSE status
  /\ UNCHANGED <<flagVars, procVars, reqVars, clientVars, execVars, histVars, restarts>>

IdleWake ==
  /\ loop = "idle" /\ wake
  /\ wake' = FALSE /\ loop' = "top"
  /\ UNCHANGED <<procVars, reqVars, lifeVars, pubVars, clientVars, execVars, histVars,
                 blocked, waiting, gate, pending>>

\* The context ends in the idle select or while waiting for the gate.
LoopCancelled ==
  /\ loop \in {"idle", "gate"} /\ ctxDone
  /\ loop' = "defer"
  /\ UNCHANGED <<flagVars, procVars, reqVars, pubVars, clientVars, execVars, histVars>>

\* The loop takes the request of client c.
Offers(c, ops) == cl[c].pc = "send" /\ cl[c].op \in ops

\* idleRejection, also for an update while blocked.
IdleReject(c) ==
  /\ loop = "idle"
  /\ Offers(c, {"restart", "maintain"}) \/ (Offers(c, {"update"}) /\ blocked)
  /\ cl' = [cl EXCEPT ![c].pc = "wait", ![c].resp = "err"]
  /\ loop' = "top"
  /\ UNCHANGED <<flagVars, procVars, reqVars, pubVars, execVars, histVars, calls>>

IdleUpdate(c) ==
  /\ loop = "idle"
  /\ Offers(c, {"reinstall"}) \/ (Offers(c, {"update"}) /\ ~blocked)
  /\ blocked' = (blocked /\ cl[c].op # "reinstall")
  /\ cl' = [cl EXCEPT ![c].pc = "wait"] /\ cur' = c
  /\ sess' = [sess EXCEPT !["run"] = BeginSession(~waiting)]
  /\ loop' = "upd" /\ ret' = "idle"
  /\ UNCHANGED <<procVars, lifeVars, idleVars, pubVars, histVars, gate, why, own, calls,
                 stp>>

TakeGate ==
  /\ loop = "gate" /\ gate = "free"
  /\ gate' = "run" /\ loop' = "recheck"
  /\ UNCHANGED <<procVars, reqVars, lifeVars, idleVars, pubVars, clientVars, execVars,
                 histVars, blocked>>

\* The child is observed as starting and its monitor begins.
Launch(p) ==
  /\ own' = p /\ loop' = "own"
  /\ status' = Observation("starting", p, restarts)
  /\ mon' = [mon EXCEPT ![p] = [NoMonitor EXCEPT !.st = "run"]]
  /\ gate' = "free"
  /\ UNCHANGED <<why, ret, cur, restarts>>

AdoptShared == Launch(pending) /\ UNCHANGED pending

Adopt == Launch(pending) /\ pending' = 0

\* Idle maintenance may have degraded while the loop waited for the gate.
RefusesStartStale == ctxDone \/ (waiting /\ pending = 0)

RefusesStart == ctxDone \/ blocked \/ (waiting /\ pending = 0)

\* The state is read again under the gate; a pending process is adopted.
Recheck ==
  /\ loop = "recheck"
  /\ \/ /\ RefusesStart
        /\ gate' = "free" /\ loop' = "top"
        /\ UNCHANGED <<pending, reqVars, pubVars, mon>>
     \/ ~RefusesStart /\ pending # 0 /\ Adopt
     \/ /\ ~RefusesStart /\ pending = 0
        /\ loop' = "start"
        /\ UNCHANGED <<gate, pending, reqVars, pubVars, mon>>
  /\ UNCHANGED <<lifeVars, blocked, waiting, wake, proc, tok, desc, clientVars, execVars,
                 histVars>>

\* start: BeforeStart and Start succeed, still under the gate.
StartChild ==
  /\ loop = "start"
  /\ \E p \in Procs :
       /\ Fresh(p)
       /\ proc' = [proc EXCEPT ![p] = "alive"]
       /\ Launch(p)
  /\ UNCHANGED <<lifeVars, idleVars, clientVars, execVars, histVars, blocked, tok, desc>>

\* start fails; a degraded error blocks every later start.
StartFails ==
  /\ loop = "start" /\ (restarts < MaxRestarts \/ ctxDone)
  /\ gate' = "free"
  /\ \E degraded \in BOOLEAN :
       /\ blocked' = (blocked \/ degraded)
       /\ loop' = IF blocked' THEN "top" ELSE "backoff"
       /\ status' = IF degraded THEN Observation("degraded", 0, restarts)
                    ELSE IF blocked THEN status ELSE Observation("backoff", 0, restarts)
  /\ UNCHANGED <<procVars, reqVars, lifeVars, idleVars, clientVars, execVars, histVars,
                 restarts>>

-----------------------------------------------------------------------------
(* runOwnedChild.                                                          *)

\* A request, the parent context or the third health failure: stop the child.
OwnRequest(c) ==
  /\ loop = "own" /\ Offers(c, Ops)
  /\ cl' = [cl EXCEPT ![c].pc = "wait"] /\ cur' = c
  /\ why' = IF cl[c].op = "reinstall" THEN "update" ELSE cl[c].op
  /\ loop' = "stop" /\ stp' = [stp EXCEPT !["run"] = BeginStop(own)]
  /\ UNCHANGED <<flagVars, procVars, pubVars, histVars, ret, own, calls, sess>>

OwnCancelled ==
  /\ loop = "own" /\ ctxDone
  /\ why' = "ctx" /\ loop' = "stop" /\ stp' = [stp EXCEPT !["run"] = BeginStop(own)]
  /\ UNCHANGED <<flagVars, procVars, pubVars, clientVars, histVars, ret, own, cur, sess>>

OwnUnhealthy ==
  /\ loop = "own" /\ mon[own].failed
  /\ mon' = [mon EXCEPT ![own].failed = FALSE]
  /\ why' = "health" /\ loop' = "stop" /\ stp' = [stp EXCEPT !["run"] = BeginStop(own)]
  /\ UNCHANGED <<flagVars, pubVars, clientVars, histVars, ret, own, cur, proc, tok, desc,
                 sess>>

\* The child exits by itself: the monitor is finished before its descendants.
OwnExited ==
  /\ loop = "own" /\ tok[own]
  /\ tok' = [tok EXCEPT ![own] = FALSE]
  /\ why' = "exit" /\ loop' = "join"
  /\ UNCHANGED <<flagVars, pubVars, clientVars, execVars, histVars, ret, own, cur, proc,
                 desc, mon>>

StopBegun == stp["run"].ph # "none"

StopEnded == stp["run"].ph \in {"ok", "err"}

OwnStopped ==
  /\ loop = "stop" /\ StopEnded
  /\ loop' = "join"
  /\ UNCHANGED <<flagVars, procVars, reqVars, pubVars, clientVars, execVars, histVars>>

\* finishMonitor has joined the monitor.
MonitorJoined == loop = "join" /\ mon[own].st = "quit"

JoinedPlain ==
  /\ MonitorJoined /\ why \in {"ctx", "health"}
  /\ LeaveChild(blocked, status)
  /\ abandoned' = abandoned \cup Failed("run")
  /\ stp' = [stp EXCEPT !["run"] = NoStop]
  /\ UNCHANGED <<flagVars, procVars, clientVars, sess, displaced>>

JoinedExit ==
  /\ MonitorJoined /\ why = "exit"
  /\ blocked' = (blocked \/ DescendantsRemain(own))
  /\ abandoned' = IF DescendantsRemain(own) THEN abandoned \cup {own} ELSE abandoned
  /\ LeaveChild(blocked', IF DescendantsRemain(own) THEN Observation("degraded", 0, 0) ELSE status)
  /\ UNCHANGED <<procVars, lifeVars, idleVars, clientVars, execVars, gate, displaced>>

\* restart answers and returns whatever the stop's outcome was.
JoinedRestart ==
  /\ MonitorJoined /\ why = "restart"
  /\ cl' = [cl EXCEPT ![cur].resp = stp["run"].ph]
  /\ loop' = IF ctxDone THEN "defer" ELSE "top"
  /\ restarts' = IF ctxDone THEN restarts ELSE restarts + 1
  /\ status' = IF ctxDone THEN Observation("stopped", 0, restarts) ELSE status
  /\ own' = 0 /\ cur' = "none" /\ why' = "none"
  /\ abandoned' = abandoned \cup Failed("run")
  /\ stp' = [stp EXCEPT !["run"] = NoStop]
  /\ UNCHANGED <<flagVars, procVars, ret, calls, sess, displaced>>

StopFailed == stp["run"].ph = "err"

\* maintain and update: a failed stop is answered first, then joined is awaited.
JoinedOwned ==
  /\ MonitorJoined /\ why \in {"maintain", "update"}
  /\ ret' = "own"
  /\ blocked' = (blocked \/ StopFailed)
  /\ cl' = IF StopFailed THEN [cl EXCEPT ![cur].resp = "err"] ELSE cl
  /\ loop' = IF ~StopFailed /\ why = "maintain" THEN "work" ELSE "joined"
  /\ UNCHANGED <<procVars, lifeVars, idleVars, pubVars, execVars, histVars, gate, why,
                 own, cur, calls>>

\* The Wait goroutine of the child has ended.
OwnJoined ==
  /\ loop = "joined" /\ proc[own] = "joined"
  /\ IF StopFailed
     THEN Resume(status) /\ UNCHANGED sess
     ELSE /\ loop' = "upd"
          /\ sess' = [sess EXCEPT !["run"] = BeginSession(TRUE)]
          /\ UNCHANGED <<reqVars, pubVars>>
  /\ abandoned' = abandoned \cup Failed("run")
  /\ stp' = [stp EXCEPT !["run"] = NoStop]
  /\ UNCHANGED <<flagVars, procVars, clientVars, displaced>>

\* The maintenance callback returns.
LoopWork ==
  /\ loop = "work"
  /\ \E res \in Results :
       /\ blocked' = (blocked \/ res = "degraded")
       /\ cl' = [cl EXCEPT ![cur].resp = res]
  /\ Resume(status)
  /\ stp' = [stp EXCEPT !["run"] = NoStop]
  /\ UNCHANGED <<procVars, lifeVars, idleVars, histVars, gate, calls, sess>>

-----------------------------------------------------------------------------
(* waitBackoff.                                                            *)

\* The delay has passed, or the context has ended.
BackoffEnds ==
  /\ loop = "backoff"
  /\ loop' = IF ctxDone THEN "defer" ELSE "top"
  /\ restarts' = IF ctxDone THEN restarts ELSE restarts + 1
  /\ status' = IF ctxDone THEN Observation("stopped", 0, restarts) ELSE status
  /\ UNCHANGED <<flagVars, procVars, reqVars, clientVars, execVars, histVars>>

BackoffRestart(c) ==
  /\ loop = "backoff" /\ Offers(c, {"restart"})
  /\ cl' = [cl EXCEPT ![c].pc = "wait", ![c].resp = "ok"]
  /\ loop' = "top" /\ restarts' = restarts + 1
  /\ UNCHANGED <<flagVars, procVars, reqVars, execVars, histVars, status, calls>>

BackoffOwned(c) ==
  /\ loop = "backoff" /\ Offers(c, {"maintain", "update", "reinstall"})
  /\ cl' = [cl EXCEPT ![c].pc = "wait"] /\ cur' = c /\ ret' = "backoff"
  /\ IF cl[c].op = "maintain"
     THEN loop' = "work" /\ UNCHANGED sess
     ELSE loop' = "upd" /\ sess' = [sess EXCEPT !["run"] = BeginSession(TRUE)]
  /\ UNCHANGED <<flagVars, procVars, pubVars, histVars, why, own, calls, stp>>

-----------------------------------------------------------------------------
(* The deferred functions of Run.                                          *)

DeferGate ==
  /\ loop = "defer" /\ gate = "free"
  /\ IF pending # 0
     THEN /\ gate' = "run" /\ loop' = "dstop"
          /\ stp' = [stp EXCEPT !["run"] = BeginStop(pending)]
     ELSE loop' = "closing" /\ UNCHANGED <<gate, stp>>
  /\ UNCHANGED <<procVars, reqVars, lifeVars, idleVars, pubVars, clientVars, histVars,
                 blocked, sess>>

DeferStopped ==
  /\ loop = "dstop" /\ StopEnded
  /\ pending' = 0 /\ gate' = "free" /\ loop' = "closing"
  /\ abandoned' = abandoned \cup Failed("run")
  /\ stp' = [stp EXCEPT !["run"] = NoStop]
  /\ UNCHANGED <<procVars, reqVars, lifeVars, pubVars, clientVars, blocked, waiting, wake,
                 sess, displaced>>

Deactivate ==
  /\ loop = "closing"
  /\ active' = FALSE /\ loop' = "closed"
  /\ UNCHANGED <<procVars, reqVars, idleVars, pubVars, clientVars, execVars, histVars,
                 blocked, runDone, ctxDone, gate>>

CloseRunDone ==
  /\ loop = "closed"
  /\ runDone' = "closed" /\ loop' = "done"
  /\ UNCHANGED <<procVars, reqVars, idleVars, pubVars, clientVars, execVars, histVars,
                 active, blocked, ctxDone, gate>>

-----------------------------------------------------------------------------
LoopStep ==
  \/ RunEnter \/ RunStore \/ LoopTop \/ IdleWake \/ LoopCancelled \/ TakeGate
  \/ Recheck \/ StartChild \/ StartFails
  \/ \E c \in Clients :
       IdleReject(c) \/ IdleUpdate(c) \/ OwnRequest(c) \/ BackoffRestart(c)
         \/ BackoffOwned(c)
  \/ OwnCancelled \/ OwnUnhealthy \/ OwnExited \/ OwnStopped
  \/ JoinedPlain \/ JoinedExit \/ JoinedRestart \/ JoinedOwned \/ OwnJoined \/ LoopWork
  \/ BackoffEnds \/ DeferGate \/ DeferStopped \/ Deactivate \/ CloseRunDone

ExecStep(e) == StopStep(e) \/ SessionStep(e)

MonitorStep(p) == MonitorHealthy(p) \/ MonitorUnhealthy(p) \/ MonitorQuit(p)

ClientStep(c) ==
  \/ Call(c) \/ PassGate(c) \/ IdleWork(c) \/ ClientCancel(c) \/ ClientRunDone(c)
  \/ ClientReturn(c)

\* Run has returned and no call is in progress: nothing is left to do.
Terminated ==
  /\ loop = "done" /\ \A c \in Clients : cl[c].pc \in {"rest", "gone"}
  /\ UNCHANGED vars

Next ==
  \/ LoopStep
  \/ \E e \in Execs : ExecStep(e)
  \/ \E p \in Procs : ProcExit(p) \/ DescendantsExit(p) \/ MonitorStep(p)
  \/ \E c \in Clients : ClientStep(c)
  \/ WaitForCore \/ CancelRun \/ Terminated

Spec == Init /\ [][Next]_vars

\* The scheduler runs the loop, the executors and the callers that can go on;
\* a killed process exits; callbacks return.  Nothing is assumed of processes
\* that were not killed, of health checks, of new calls or of cancellation.
Fairness ==
  /\ WF_vars(LoopStep)
  /\ \A e \in Execs : WF_vars(ExecStep(e))
  /\ \A p \in Procs : WF_vars(MonitorQuit(p)) /\ WF_vars(proc[p] = "dying" /\ ProcExit(p))
  /\ \A c \in Clients :
       /\ WF_vars(PassGate(c)) /\ WF_vars(IdleWork(c))
       /\ WF_vars(ClientRunDone(c)) /\ WF_vars(ClientReturn(c))

FairSpec == Spec /\ Fairness

-----------------------------------------------------------------------------
(* Properties.                                                             *)

LoopPoints == {"off", "entry", "top", "idle", "gate", "recheck", "start", "own", "stop",
               "join", "joined", "work", "upd", "backoff", "defer", "dstop", "closing",
               "closed", "done"}

Monitors == [st : {"none", "run", "quit"}, fails : Nat, pub : BOOLEAN, failed : BOOLEAN]
Callers == [pc : {"rest", "gate", "work", "sess", "send", "wait", "gone"},
            op : {"none"} \cup Ops, resp : {"none"} \cup Results]
Stops == [p : {0} \cup Procs, ph : {"none", "wait", "killed", "desc", "ok", "err"},
          terr : BOOLEAN]
Sessions == [st : {"none", "work", "stop", "final", "keep"}, was : BOOLEAN,
             p : {0} \cup Procs, healthy : BOOLEAN, res : {"none"} \cup Results]
Observations == [st : Statuses, p : {0} \cup Procs, n : Nat]

\* Type invariant of the supervisor's state: every response, status and process
\* number is one the code can produce.
TypeOK ==
  /\ active \in BOOLEAN /\ blocked \in BOOLEAN /\ waiting \in BOOLEAN
  /\ ctxDone \in BOOLEAN /\ wake \in BOOLEAN
  /\ runDone \in {"nil", "open", "closed"}
  /\ gate \in {"free"} \cup Execs
  /\ pending \in {0} \cup Procs /\ own \in {0} \cup Procs
  /\ loop \in LoopPoints
  /\ why \in {"none", "ctx", "health", "exit", "restart", "maintain", "update"}
  /\ ret \in {"none", "idle", "own", "backoff"}
  /\ cur \in {"none"} \cup Clients
  /\ restarts \in Nat /\ status \in Observations
  /\ proc \in [Procs -> {"unborn", "alive", "dying", "joined"}]
  /\ tok \in [Procs -> BOOLEAN] /\ desc \in [Procs -> BOOLEAN]
  /\ mon \in [Procs -> Monitors]
  /\ cl \in [Clients -> Callers] /\ calls \in [Clients -> Nat]
  /\ stp \in [Execs -> Stops] /\ sess \in [Execs -> Sessions]
  /\ abandoned \subseteq Procs /\ displaced \subseteq Procs

\* Executor e is inside a maintenance or update callback.
Working(e) ==
  IF e = "run" THEN loop \in {"work", "upd"} ELSE cl[e].pc \in {"work", "sess"}

\* Callbacks exclude each other: the event loop never runs one while an idle
\* caller is inside its own, whatever the order of Run, Maintain and Update.
OneWorker == \A e, f \in Execs : Working(e) /\ Working(f) => e = f

\* Processes the supervisor has lost on paths that it reports.
Excused == abandoned \cup displaced

\* Every live process has exactly one owner: the event loop's child, pending, or
\* one update session.
Owners(p) ==
  (IF own = p THEN {"loop"} ELSE {}) \cup (IF pending = p THEN {"pending"} ELSE {})
    \cup {e \in Execs : sess[e].p = p}

OneOwner == \A p \in Procs : Live(p) => Cardinality(Owners(p)) = 1 \/ p \in Excused

\* While a callback runs in the event loop the loop's own child is gone: the only
\* live processes are the session's, one still pending, or reported lost.
WorkAlone ==
  loop \in {"work", "upd"} =>
    \A p \in Procs : Live(p) => p \in {sess["run"].p, pending} \cup Excused

\* Beside a child, a start or a callback of the loop no descendant of an earlier
\* child is alive, unless that child's stop was reported as failed.
NoDescendantsBeside ==
  loop \in {"start", "own", "work", "upd"} =>
    \A p \in Procs : desc[p] => p \in {own, pending, sess["run"].p} \cup Excused

\* A process that comes to life does so while starts are not blocked.
BlockedNeverStarts ==
  [][\A p \in Procs : proc[p] = "unborn" /\ proc'[p] = "alive" => ~blocked]_vars

\* When Run returns, nothing it owned is left running.
ShutdownClean ==
  loop \in {"closing"} => \A p \in Procs : Live(p) => p \in Excused

\* The published status is that of the current child while one is supervised, and
\* Backoff throughout a backoff: no monitor of an earlier child can overwrite it.
StatusFresh ==
  /\ loop = "own" => status.p = own /\ status.st \in {"starting", "running"}
  /\ loop = "backoff" => status.st = "backoff"

\* The idle select never sleeps through its reason to end: once neither blocked
\* nor waiting, a wake-up token is there or the caller holding the gate will send one.
NoLostWake == loop = "idle" /\ ~blocked /\ ~waiting => wake \/ gate # "free"

\* The loop's own state: of its type, one callback at a time, and no wake-up lost.
LoopSafe == TypeOK /\ OneWorker /\ NoLostWake

\* Processes: one owner each, none beside a callback of the loop or after Run, and a
\* status that is the current child's.
ProcessesOwned == OneOwner /\ WorkAlone /\ ShutdownClean /\ StatusFresh

\* An accepted request is answered.
Answered == \A c \in Clients : cl[c].pc = "wait" ~> cl[c].pc # "wait"

\* Once its context has ended, Run returns.
ShutdownCompletes == ctxDone /\ loop # "off" ~> loop = "done"

\* A crash is attended to: another start is attempted unless starts are blocked,
\* no core is to run, or the daemon is stopping.
CrashAttended ==
  loop = "own" /\ ~Live(own)
    ~> loop = "start" \/ (loop = "own" /\ Live(own)) \/ blocked \/ waiting \/ ctxDone

\* A process handed over by an idle update is adopted by the loop or stopped, as
\* long as Run has not yet passed the deferred stop of pending.
PendingSettled ==
  loop \notin {"off", "closing", "closed", "done"} /\ pending # 0 ~> pending = 0 \/ blocked

\* Under the fairness of FairSpec the loop, its callers and its children make progress:
\* requests are answered, Run returns, crashes are attended to, pending is settled.
LoopProgress == Answered /\ ShutdownCompletes /\ CrashAttended /\ PendingSettled
=============================================================================
