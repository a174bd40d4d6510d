------------------------------ MODULE DaemonRun ------------------------------
(***************************************************************************)
(* One run of the daemon process: cmd/mihari (runUnixDaemonWithGate,       *)
(* runDaemonWith), the runtime assembly (app/runtime.go), daemon.Run and   *)
(* Manager.Run with its background workers, up to the release of the last  *)
(* resource.  The main thread takes the lease, opens the resources one by  *)
(* one, chooses a mode (normal, validation, degraded, ports) and serves;   *)
(* beside it run the manager, its workers, one request at a time and the   *)
(* world (installer, other applications, the shutdown signal).             *)
(***************************************************************************)
EXTENDS Naturals, FiniteSets

CONSTANTS Addrs,           \* mixed addresses a user may choose
          RunCasts,        \* initial worlds explored
          MaxRunFaults,    \* bound on failing steps and foreign interference
          MaxRequests      \* bound on control requests

VARIABLES main,      \* the main thread: [at, mode, seen]
          open,      \* resources held by the process
          world,     \* [phase, busy, core, proxy]: what is outside the process
          disk,      \* settings and onboarding state as persisted
          mem,       \* settings as the manager publishes them, its degraded marker
          mgr,       \* Manager.Run: [at, closing, proxyFlag, tunFlag, saw]
          crew,      \* background workers that are running
          request,   \* the request being served
          gate,      \* holder of the maintenance lock
          ctx,       \* [parent, inner, req]: cancelled contexts
          runFaults,
          ghost      \* [asked, raced, moved]: history used by the properties

drVars == <<main, open, world, disk, mem, mgr, crew, request, gate, ctx, runFaults, ghost>>

Captures == {"stdout", "stderr"}
Resources == Captures \cup {"lease", "data", "fs", "daemonlog", "mihomolog", "listener"}
Activated == {"none", "committed", "complete"}
Phases == Activated \cup {"recovering"}
Background == {"web", "scheduler", "observer", "supervisor"}
Idle == [op |-> "none", at |-> "idle", was |-> "off", prev |-> FALSE, addr |-> "off"]
Unset == [mixed |-> "off", desired |-> FALSE, rev |-> "loaded"]

\* A step that fails, and anything foreign that happens, uses the fault budget.
Mishap ==
  /\ runFaults < MaxRunFaults
  /\ runFaults' = runFaults + 1

Smooth == UNCHANGED runFaults

To(pc) == main' = [main EXCEPT !.at = pc]

\* The deferred closers of runDaemonWith and runUnixDaemonWithGate run on every path.
Unwinding == "unwind"

(***************************************************************************)
(* Starting: lease, activation, roots, settings and logs                   *)
(***************************************************************************)

AcquireDaemonLease ==
  /\ main.at = "begin"
  /\ \/ open' = open \cup {"lease"} /\ To("recheck") /\ Smooth
     \/ open' = open /\ To("gone") /\ Mishap
  /\ UNCHANGED <<world, disk, mem, mgr, crew, request, gate, ctx, ghost>>

\* The phase that admitted the process is inspected again under the lease.
RecheckActivation ==
  /\ main.at = "recheck"
  /\ To(IF world.phase = main.seen THEN "roots" ELSE Unwinding)
  /\ UNCHANGED <<open, world, disk, mem, mgr, crew, request, gate, ctx, runFaults, ghost>>

\* Credential, trusted data root, provider and provenance recovery, log root.
OpenRoots ==
  /\ main.at = "roots"
  /\ \/ open' = open \cup {"data", "fs"} /\ To("admit") /\ Smooth
     \/ open' \in {open, open \cup {"data"}} /\ To(Unwinding) /\ Mishap
  /\ UNCHANGED <<world, disk, mem, mgr, crew, request, gate, ctx, ghost>>

BusinessMutationAllowed(phase, validation) == ~validation /\ phase \in Activated

AdmitRun ==
  /\ main.at = "admit"
  /\ To(IF main.mode = "validation" \/ BusinessMutationAllowed(main.seen, FALSE)
        THEN "settings" ELSE Unwinding)
  /\ UNCHANGED <<open, world, disk, mem, mgr, crew, request, gate, ctx, runFaults, ghost>>

\* A permission error ends the run; any other unreadable settings file leaves
\* a degraded daemon (validation returns the error instead).
LoadSettings ==
  /\ main.at = "settings"
  /\ \/ /\ mem' = [mem EXCEPT !.settings = disk.settings]
        /\ To("daemonlog") /\ Smooth
     \/ /\ mem' = mem
        /\ main' = IF main.mode = "validation" THEN [main EXCEPT !.at = Unwinding]
                   ELSE [main EXCEPT !.at = "listen", !.mode = "degraded"]
        /\ Mishap
     \/ mem' = mem /\ To(Unwinding) /\ Mishap
  /\ UNCHANGED <<open, world, disk, mgr, crew, request, gate, ctx, ghost>>

OpenDaemonLog ==
  /\ main.at = "daemonlog"
  /\ \/ open' = open \cup {"daemonlog"} /\ To("mihomolog") /\ Smooth
     \/ open' = open /\ To(Unwinding) /\ Mishap
  /\ UNCHANGED <<world, disk, mem, mgr, crew, request, gate, ctx, ghost>>

OpenMihomoLog ==
  /\ main.at = "mihomolog"
  /\ \/ open' = open \cup {"mihomolog"} \cup Captures /\ To("build") /\ Smooth
     \/ open' = open /\ To(Unwinding) /\ Mishap
  /\ UNCHANGED <<world, disk, mem, mgr, crew, request, gate, ctx, ghost>>

(***************************************************************************)
(* Building the runtime                                                    *)
(***************************************************************************)

\* RecoverState finishes an interrupted activation of resources and may have
\* committed newer settings than the ones the caller loaded.
Recovered == IF disk.pending THEN [disk.settings EXCEPT !.rev = "recovered"] ELSE disk.settings

\* probeManagedPortsWithListener
PortTaken(settings) == settings.mixed = world.busy

Assembled(mode, settings) ==
  /\ main' = [main EXCEPT !.at = "listen", !.mode = mode]
  /\ mem' = [mem EXCEPT !.settings = settings]

\* NewPortRecovery reads the settings again: recovery may have replaced them.
PortRecovery(settings) == Assembled("ports", settings)

\* A startup configuration the installed core does not accept leaves the
\* daemon up, with the core blocked until it is reinstalled.
StartupRejected ==
  /\ world.core = "ok" /\ ~PortTaken(Recovered)
  /\ world' = [world EXCEPT !.core = "repair"]
  /\ Assembled("normal", Recovered) /\ Mishap

BuildRuntime ==
  /\ main.at = "build" /\ main.mode # "validation"
  /\ disk' = [disk EXCEPT !.settings = Recovered, !.pending = FALSE]
  /\ \/ StartupRejected
     \/ UNCHANGED world /\ ~PortTaken(Recovered) /\ Assembled("normal", Recovered) /\ Smooth
     \/ UNCHANGED world /\ PortTaken(Recovered) /\ PortRecovery(Recovered) /\ Smooth
     \/ UNCHANGED world /\ Assembled("degraded", mem.settings) /\ Mishap
  /\ UNCHANGED <<open, mgr, crew, request, gate, ctx, ghost>>

\* BuildValidationRuntime reads the business objects; a failure ends the run.
BuildValidationRuntime ==
  /\ main.at = "build" /\ main.mode = "validation"
  /\ disk' = [disk EXCEPT !.settings = Recovered, !.pending = FALSE]
  /\ \/ Assembled("validation", Recovered) /\ Smooth
     \/ To(Unwinding) /\ mem' = mem /\ Mishap
  /\ UNCHANGED <<open, world, mgr, crew, request, gate, ctx, ghost>>

(***************************************************************************)
(* daemon.Run: listen, announce, serve, join                               *)
(***************************************************************************)

HasRuntime == main.mode \in {"normal", "validation"}

Listen ==
  /\ main.at = "listen"
  /\ \/ open' = open \cup {"listener"} /\ To("ready") /\ Smooth
     \/ open' = open /\ To(Unwinding) /\ Mishap
  /\ UNCHANGED <<world, disk, mem, mgr, crew, request, gate, ctx, ghost>>

\* Startup cleanup only reports; an OnReady error ends the run before anything
\* is started.
AnnounceReady ==
  /\ main.at = "ready"
  /\ \/ /\ To("serving") /\ Smooth
        /\ mgr' = IF HasRuntime THEN [mgr EXCEPT !.at = "gate"] ELSE mgr
     \/ main.mode = "validation" /\ To(Unwinding) /\ mgr' = mgr /\ Mishap
  /\ UNCHANGED <<open, world, disk, mem, crew, request, gate, ctx, ghost>>

\* Serve returns on cancellation or on a listener error, in both cases after
\* closing the HTTP server; requests still running are waited for.
StopServing ==
  /\ main.at = "serving"
  /\ \/ ctx.inner /\ Smooth
     \/ ~ctx.inner /\ Mishap
  /\ To("draining")
  /\ UNCHANGED <<open, world, disk, mem, mgr, crew, request, gate, ctx, ghost>>

\* The shutdown timeout closes the connections and so cancels the requests.
CloseConnections ==
  /\ main.at = "draining" /\ ~ctx.req /\ request.op # "none"
  /\ ctx' = [ctx EXCEPT !.req = TRUE]
  /\ UNCHANGED <<main, open, world, disk, mem, mgr, crew, request, gate, runFaults, ghost>>

\* cancel() follows Serve, so that a server error also ends the manager.
HandlersJoined ==
  /\ main.at = "draining" /\ request.op = "none"
  /\ To("joining")
  /\ ctx' = [ctx EXCEPT !.inner = TRUE]
  /\ UNCHANGED <<open, world, disk, mem, mgr, crew, request, gate, runFaults, ghost>>

\* <-runtimeDone
RuntimeJoined ==
  /\ main.at = "joining" /\ mgr.at \in {"off", "ended"}
  /\ To(Unwinding)
  /\ UNCHANGED <<open, world, disk, mem, mgr, crew, request, gate, ctx, runFaults, ghost>>

\* The listener first, then daemonLoggingResources.Close, the data root and the
\* lease; a failing Close is joined into the result and the next one follows.
CloseOrder == <<"listener", "stdout", "stderr", "mihomolog", "daemonlog", "fs", "data", "lease">>

Release ==
  /\ main.at = Unwinding
  /\ IF open = {} THEN To("gone") /\ open' = open
     ELSE /\ main' = main
          /\ \E i \in DOMAIN CloseOrder :
               /\ CloseOrder[i] \in open
               /\ \A j \in 1..(i - 1) : CloseOrder[j] \notin open
               /\ open' = open \ {CloseOrder[i]}
  /\ UNCHANGED <<world, disk, mem, mgr, crew, request, gate, ctx, runFaults, ghost>>

(***************************************************************************)
(* Manager.Run                                                             *)
(***************************************************************************)

Enters(pc) == mgr' = [mgr EXCEPT !.at = pc]

\* Validation only waits; a runtime without activation returns at once.
ManagerGate ==
  /\ mgr.at = "gate"
  /\ CASE main.mode = "validation" -> ctx.inner /\ Enters("ended") /\ crew' = crew
       [] ~BusinessMutationAllowed(main.seen, main.mode = "validation") ->
            Enters("ended") /\ crew' = crew
       [] OTHER -> Enters("core") /\ crew' = {"web", "scheduler", "observer"}
  /\ UNCHANGED <<main, open, world, disk, mem, request, gate, ctx, runFaults, ghost>>

\* coreRecovery or no binary: the supervisor waits for an installation.
CoreMissing == world.core \in {"missing", "repair"}

StartCore ==
  /\ mgr.at = "core"
  /\ mgr' = [mgr EXCEPT !.at = IF CoreMissing THEN "supervise" ELSE "apply",
                        !.missing = CoreMissing,
                        !.proxyFlag = ~CoreMissing /\ ~ctx.inner]
  /\ UNCHANGED <<main, open, world, disk, mem, crew, request, gate, ctx, runFaults, ghost>>

Owned(server) == server = mem.settings.mixed

OwnProxy == [world EXCEPT !.proxy = mem.settings.mixed]

\* ApplyDesiredSystemProxy under the maintenance lock; the flag is cleared by
\* its defer whatever the outcome.
ApplyStartupProxy ==
  /\ mgr.at = "apply" /\ (gate = "free" \/ ctx.inner)
  /\ \/ ctx.inner /\ world' = world /\ Smooth
     \/ /\ ~ctx.inner /\ Smooth
        /\ world' = IF mem.settings.desired THEN OwnProxy
                    ELSE IF Owned(world.proxy) THEN [world EXCEPT !.proxy = "off"] ELSE world
     \/ ~ctx.inner /\ world' = world /\ Mishap
  /\ mgr' = [mgr EXCEPT !.at = "supervise", !.proxyFlag = FALSE]
  /\ UNCHANGED <<main, open, disk, mem, crew, request, gate, ctx, ghost>>

Supervise ==
  /\ mgr.at = "supervise"
  /\ mgr' = [mgr EXCEPT !.at = "running", !.tunFlag = ~mgr.missing /\ ~ctx.inner]
  /\ crew' = crew \cup {"supervisor"}
  /\ UNCHANGED <<main, open, world, disk, mem, request, gate, ctx, runFaults, ghost>>

\* The supervisor starts a child unless it waits for a core.
CoreRuns ==
  /\ "supervisor" \in crew /\ ~mgr.missing /\ ~mgr.child
  /\ mgr' = [mgr EXCEPT !.child = TRUE, !.tunFlag = FALSE]
  /\ UNCHANGED <<main, open, world, disk, mem, crew, request, gate, ctx, runFaults, ghost>>

\* The deferred ClearOwnedSystemProxy follows whether the supervisor failed or
\* was cancelled.
SupervisorReturns ==
  /\ mgr.at = "running"
  /\ \/ ctx.inner /\ Smooth
     \/ ~ctx.inner /\ Mishap
  /\ crew' = crew \ {"supervisor"}
  /\ mgr' = [mgr EXCEPT !.at = "clear", !.tunFlag = FALSE, !.child = FALSE]
  /\ UNCHANGED <<main, open, world, disk, mem, request, gate, ctx, ghost>>

\* ClearOwnedSystemProxy holds no lock: it reads the proxy, then disables it.
LookAtProxy ==
  /\ mgr.at = "clear"
  /\ \/ /\ mgr' = [mgr EXCEPT !.at = IF Owned(world.proxy) THEN "disable" ELSE "observer"]
        /\ Smooth /\ ghost' = ghost
     \/ Enters("observer") /\ Mishap /\ ghost' = [ghost EXCEPT !.raced = TRUE]
  /\ UNCHANGED <<main, open, world, disk, mem, crew, request, gate, ctx>>

ClearProxy ==
  /\ mgr.at = "disable"
  /\ \/ world' = [world EXCEPT !.proxy = "off"] /\ Smooth /\ ghost' = ghost
     \/ world' = world /\ Mishap /\ ghost' = [ghost EXCEPT !.raced = TRUE]
  /\ Enters("observer")
  /\ UNCHANGED <<main, open, disk, mem, crew, request, gate, ctx>>

\* The deferred joins, last started first: the logging observer and the
\* scheduler are cancelled, the web gateway lives until the context ends.
JoinWorkers ==
  /\ mgr.at \in {"observer", "scheduler", "web"}
  /\ mgr.at \notin crew
  /\ Enters(CASE mgr.at = "observer" -> "scheduler" [] mgr.at = "scheduler" -> "web"
              [] OTHER -> "leave")
  /\ UNCHANGED <<main, open, world, disk, mem, crew, request, gate, ctx, runFaults, ghost>>

\* geoip.Close, the startup flags and closing.
ManagerReturns ==
  /\ mgr.at = "leave"
  /\ mgr' = [mgr EXCEPT !.at = "ended", !.closing = TRUE, !.proxyFlag = FALSE, !.tunFlag = FALSE]
  /\ UNCHANGED <<main, open, world, disk, mem, crew, request, gate, ctx, runFaults, ghost>>

\* A worker ends with its context; the web gateway may also fail on its own.
WorkerEnds(w) ==
  /\ w \in crew \ {"supervisor"}
  /\ \/ (ctx.inner \/ (w # "web" /\ mgr.at = w)) /\ Smooth
     \/ w = "web" /\ ~ctx.inner /\ Mishap
  /\ crew' = crew \ {w}
  /\ UNCHANGED <<main, open, world, disk, mem, mgr, request, gate, ctx, ghost>>

\* The watcher goroutine closes the manager for requests as soon as the context ends.
WatchShutdown ==
  /\ ctx.inner /\ ~mgr.closing
  /\ mgr.at \notin {"off", "gate", "ended"} /\ main.mode = "normal"
  /\ mgr' = [mgr EXCEPT !.closing = TRUE]
  /\ UNCHANGED <<main, open, world, disk, mem, crew, request, gate, ctx, runFaults, ghost>>

(***************************************************************************)
(* Requests                                                                *)
(***************************************************************************)

Serving == main.at = "serving"
Turns(pc) == request' = [request EXCEPT !.at = pc]
Done == request' = Idle

Offered == CASE main.mode = "normal" -> {"enable", "disable", "endpoint", "complete", "install"}
             [] main.mode = "ports" -> {"endpoint", "complete"}
             [] OTHER -> {}

\* checkOpen and the restricted surface of PortRecovery refuse before anything.
Refused(op) ==
  \/ mgr.closing
  \/ main.mode = "ports" /\ op = "complete"
  \/ main.mode = "normal" /\ world.core = "repair" /\ op # "install"
  \/ mem.degraded

Admit(op, a) ==
  /\ Serving /\ request.op = "none" /\ ghost.asked < MaxRequests
  /\ op \in Offered /\ ~Refused(op)
  /\ request' = [op |-> op, at |-> "lock", was |-> "off", prev |-> FALSE, addr |-> a]
  /\ ghost' = [ghost EXCEPT !.asked = @ + 1]
  /\ UNCHANGED <<main, open, world, disk, mem, mgr, crew, gate, ctx, runFaults>>

LockRequest ==
  /\ request.at = "lock"
  /\ IF ctx.req THEN Done /\ gate' = gate
     ELSE gate = "free" /\ gate' = "request"
          /\ Turns(IF request.op = "install" THEN "install"
                   ELSE IF request.op \in {"endpoint", "complete"} THEN "save" ELSE "look")
  /\ UNCHANGED <<main, open, world, disk, mem, mgr, crew, ctx, runFaults, ghost>>

AnswerLocked == Done /\ gate' = gate

Answer == Done /\ gate' = "free"

\* Reinstalling the core wakes the waiting supervisor.
InstallCore ==
  /\ request.at = "install"
  /\ Answer
  /\ \/ /\ world' = [world EXCEPT !.core = "ok"]
        /\ mgr' = [mgr EXCEPT !.missing = FALSE]
        /\ Smooth
     \/ UNCHANGED <<world, mgr>> /\ Mishap
  /\ UNCHANGED <<main, open, disk, mem, crew, ctx, ghost>>

\* The manager has already looked for a proxy to clear.
Late == mgr.at \in {"disable", "observer", "scheduler", "web", "leave", "ended"}

IsForeign(server) == server # "off" /\ ~Owned(server)

\* A foreign proxy is a conflict for enable and not ours for disable.
LookBeforeProxy ==
  /\ request.at = "look"
  /\ IF IsForeign(world.proxy) \/ ctx.req
     THEN Answer
     ELSE /\ request' = [request EXCEPT !.at = "save", !.was = world.proxy,
                                             !.prev = mem.settings.desired]
          /\ gate' = gate
  /\ UNCHANGED <<main, open, world, disk, mem, mgr, crew, ctx, runFaults, ghost>>

Proposed == CASE request.op \in {"endpoint", "complete"} -> [mem.settings EXCEPT !.mixed = request.addr]
            [] request.op = "enable" -> [mem.settings EXCEPT !.desired = TRUE]
            [] request.op = "disable" -> [mem.settings EXCEPT !.desired = FALSE]
            [] OTHER -> mem.settings

\* saveSettingsCandidate; the system proxy publishes at once, onboarding only
\* after its own state is saved.
SaveCandidate ==
  /\ request.at = "save"
  /\ \/ /\ disk' = [disk EXCEPT !.settings = Proposed]
        /\ mem' = IF request.op \in {"enable", "disable"}
                  THEN [mem EXCEPT !.settings = Proposed] ELSE mem
        /\ Turns(IF request.op \in {"enable", "disable"} THEN "os" ELSE "state")
        /\ gate' = gate /\ Smooth
     \/ Answer /\ Mishap /\ UNCHANGED <<disk, mem>>
  /\ UNCHANGED <<main, open, world, mgr, crew, ctx, ghost>>

\* onboarding.Update failed: the settings are saved back, and when that fails
\* too the candidate is published and every further mutation refused.
RollBackSettings ==
  \/ /\ disk' = [disk EXCEPT !.settings = mem.settings]
     /\ mem' = mem
  \/ /\ disk' = disk
     /\ mem' = [mem EXCEPT !.settings = Proposed, !.degraded = TRUE]

SaveOnboarding ==
  /\ request.at = "state"
  /\ \/ /\ disk' = [disk EXCEPT !.complete = @ \/ request.op = "complete"]
        /\ mem' = [mem EXCEPT !.settings = Proposed]
        /\ Smooth
     \/ request.op = "complete" /\ RollBackSettings /\ Mishap
  /\ ghost' = [ghost EXCEPT !.moved = @ \/ mem'.settings.mixed # mem.settings.mixed]
  /\ Answer
  /\ UNCHANGED <<main, open, world, mgr, crew, ctx>>

\* compensateSystemProxy puts the settings and, once touched, the OS back.  That
\* the proxy was off before cannot be restored: the manager then degrades.
Compensate(touched) ==
  /\ disk' = [disk EXCEPT !.settings.desired = request.prev]
  /\ mem' = [mem EXCEPT !.settings.desired = request.prev,
                        !.degraded = @ \/ (touched /\ request.was = "off")]
  /\ world' = IF touched /\ request.was # "off" THEN [world EXCEPT !.proxy = request.was] ELSE world
  /\ ghost' = [ghost EXCEPT !.raced = @ \/ (touched /\ Late)]

SwitchProxy ==
  /\ request.at = "os"
  /\ \/ /\ ~ctx.req /\ Smooth
        /\ world' = IF request.op = "enable" THEN OwnProxy
                    ELSE IF Owned(request.was) THEN [world EXCEPT !.proxy = "off"] ELSE world
        /\ ghost' = [ghost EXCEPT !.raced = @ \/ (request.op = "enable" /\ Late)]
        /\ Turns("confirm") /\ gate' = gate /\ UNCHANGED <<disk, mem>>
     \/ ctx.req /\ Compensate(FALSE) /\ Answer /\ Smooth
  /\ UNCHANGED <<main, open, mgr, crew, ctx>>

ConfirmProxy ==
  /\ request.at = "confirm"
  /\ IF ~ctx.req /\ ((request.op = "enable") = Owned(world.proxy))
     THEN UNCHANGED <<disk, mem, world, ghost>>
     ELSE Compensate(TRUE)
  /\ Answer
  /\ UNCHANGED <<main, open, mgr, crew, ctx, runFaults>>

(***************************************************************************)
(* The world                                                               *)
(***************************************************************************)

\* SIGINT, SIGTERM, the service manager.
SignalStop ==
  /\ ~ctx.parent /\ main.at \notin {"gone", Unwinding}
  /\ ctx' = [ctx EXCEPT !.parent = TRUE, !.inner = TRUE]
  /\ UNCHANGED <<main, open, world, disk, mem, mgr, crew, request, gate, runFaults, ghost>>

\* An installation takes the daemon lease before it changes the phase.
InstallerMoves ==
  /\ "lease" \notin open /\ main.at = "begin" /\ Mishap
  /\ \E p \in Phases \ {world.phase} : world' = [world EXCEPT !.phase = p]
  /\ UNCHANGED <<main, open, disk, mem, mgr, crew, request, gate, ctx, ghost>>

OtherProxyTool ==
  /\ world.proxy # "foreign" /\ main.at # "gone" /\ Mishap
  /\ world' = [world EXCEPT !.proxy = "foreign"]
  /\ UNCHANGED <<main, open, disk, mem, mgr, crew, request, gate, ctx, ghost>>

DrInit ==
  /\ \E c \in RunCasts :
       /\ main = [at |-> "begin", mode |-> c.mode, seen |-> c.phase]
       /\ world = [phase |-> c.phase, busy |-> c.busy, core |-> c.core, proxy |-> c.proxy]
       /\ disk = [settings |-> [mixed |-> c.mixed, desired |-> c.desired, rev |-> "loaded"],
                  pending |-> c.pending, complete |-> FALSE]
  /\ open = {} /\ crew = {} /\ request = Idle /\ gate = "free" /\ runFaults = 0
  /\ mem = [settings |-> Unset, degraded |-> FALSE]
  /\ mgr = [at |-> "off", closing |-> FALSE, proxyFlag |-> FALSE, tunFlag |-> FALSE,
            missing |-> FALSE, child |-> FALSE]
  /\ ctx = [parent |-> FALSE, inner |-> FALSE, req |-> FALSE]
  /\ ghost = [asked |-> 0, raced |-> FALSE, moved |-> FALSE]

DrCode ==
  \/ AcquireDaemonLease \/ RecheckActivation \/ OpenRoots \/ AdmitRun \/ LoadSettings
  \/ OpenDaemonLog \/ OpenMihomoLog \/ BuildRuntime \/ BuildValidationRuntime
  \/ Listen \/ AnnounceReady \/ StopServing \/ CloseConnections \/ HandlersJoined
  \/ RuntimeJoined \/ Release
  \/ ManagerGate \/ StartCore \/ ApplyStartupProxy \/ Supervise \/ CoreRuns
  \/ SupervisorReturns \/ LookAtProxy \/ ClearProxy \/ JoinWorkers \/ ManagerReturns
  \/ (\E w \in Background : WorkerEnds(w)) \/ WatchShutdown
  \/ LockRequest \/ InstallCore \/ LookBeforeProxy \/ SaveCandidate \/ SaveOnboarding
  \/ SwitchProxy \/ ConfirmProxy

DrNext ==
  \/ DrCode
  \/ SignalStop \/ InstallerMoves \/ OtherProxyTool
  \/ \E op \in {"enable", "disable", "install"} : Admit(op, "off")
  \/ \E op \in {"endpoint", "complete"}, a \in Addrs : Admit(op, a)

DrSpec == DrInit /\ [][DrNext]_drVars

(***************************************************************************)
(* Properties                                                              *)
(***************************************************************************)

Busy == crew # {} \/ mgr.at \notin {"off", "ended"} \/ request.op # "none"

\* Type correctness; the maintenance lock is held exactly while a request is
\* past it, and a resource is held only by a process that has the lease.
DrTypeOK ==
  /\ open \subseteq Resources /\ crew \subseteq Background
  /\ world.phase \in Phases /\ main.seen \in Phases
  /\ main.mode \in {"normal", "validation", "degraded", "ports"}
  /\ runFaults \in 0..MaxRunFaults /\ ghost.asked \in 0..MaxRequests
  /\ mem.settings.mixed \in Addrs \cup {"off"} /\ disk.settings.mixed \in Addrs
  /\ (gate = "request") = (request.at \notin {"idle", "lock"})
  /\ open # {} => "lease" \in open

\* Every worker, the manager and every request are joined before the first log
\* is closed: nobody ever works with a closed log, private filesystem or data
\* root, and the lease outlives them all (cmd/mihari runDaemonWith's deferred
\* closeResources after daemon.Run joined runtime and handlers).
JoinedBeforeRelease ==
  Busy => {"lease", "data", "fs"} \cup (IF main.mode = "degraded" THEN {} ELSE {"daemonlog", "mihomolog"})
            \subseteq open

\* A capture never outlives the log it writes to, a log never outlives the
\* private filesystem, which never outlives the lease (daemonLoggingResources.Close).
ClosedInsideOut ==
  /\ open \cap Captures # {} => "mihomolog" \in open
  /\ open \cap {"daemonlog", "mihomolog"} # {} => "fs" \in open
  /\ "fs" \in open => "lease" \in open

\* Background work, a core process and changes of settings only happen in the
\* normal mode of a process whose installation is still activated now, not just
\* when it was admitted (the recheck under the lease, BusinessMutationAllowed).
ActivatedOnly ==
  (crew # {} \/ mgr.child \/ request.op \in {"enable", "disable", "install"})
     => main.mode = "normal" /\ world.phase \in Activated

\* No core runs while an interrupted core update or a rejected startup
\* configuration still requires a repair (coreRecovery, WaitForCore).
RepairFirst == mgr.child => world.core = "ok"

\* The startup network flags are up only while the initial application really
\* runs; errors, cancellation and the end of the manager leave none behind
\* (startup_network.go, the defers of Manager.Run).
StartupFlagsHonest ==
  /\ mgr.proxyFlag => mgr.at = "apply"
  /\ mgr.tunFlag => mgr.at = "running" /\ ~mgr.child

\* Whatever fails while endpoints, completion or the system proxy are changed,
\* and whatever the resource recovery committed after the settings were loaded,
\* between requests the manager works on the persisted settings, so that no later
\* save brings older values back (NewPortRecovery, updateOnboardingAttempt).
MemoryIsDisk ==
  (main.at \in {"serving", "joining"} /\ main.mode \in {"normal", "ports"} /\ request.op = "none")
     => mem.settings = disk.settings

\* A daemon that leaves gracefully leaves no system proxy pointing at its own
\* endpoint, unless a request touched the proxy after the manager had looked, the
\* clearing itself failed, or the endpoint was moved meanwhile (ClearOwnedSystemProxy).
CleanExit ==
  (main.at = "gone" /\ mgr.at = "ended" /\ main.mode = "normal" /\ world.proxy \in Addrs)
     => ghost.raced \/ ghost.moved

\* Once the shutdown began, by a signal or by a failing server, the process is never stuck: some step of it can be
\* taken until it is gone, whoever waits for whom (joins, the maintenance lock).
ShutdownNotStuck ==
  ((ctx.parent \/ main.at \in {"draining", "joining", Unwinding}) /\ main.at # "gone")
     => ENABLED DrCode

\* What the shutdown comment says without the exceptions of CleanExit.
NoOwnProxyLeft ==
  (main.at = "gone" /\ mgr.at = "ended" /\ main.mode = "normal" /\ runFaults = 0)
     => world.proxy # mem.settings.mixed

\* Everything above that a reachable state promises.
DrSafe ==
  /\ DrTypeOK /\ JoinedBeforeRelease /\ ClosedInsideOut /\ ActivatedOnly /\ RepairFirst
  /\ StartupFlagsHonest /\ MemoryIsDisk /\ CleanExit /\ ShutdownNotStuck
=============================================================================
