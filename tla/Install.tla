------------------------------ MODULE Install ------------------------------
(***************************************************************************)
(* The native install transaction of Unix: installs, updates, reinstalls,  *)
(* and the service operations start, stop, restart and uninstall, all of   *)
(* them journaled action by action, and the recovery that finishes or      *)
(* undoes whatever an error, a crash or a power loss left behind.          *)
(*                                                                         *)
(* The installer's remaining work is the sequence todo.  Each action of    *)
(* the journal takes three steps (its intent is made durable, its effect   *)
(* applied, its completion recorded), and the machine may stop between any *)
(* two of them.                                                            *)
(***************************************************************************)
EXTENDS Integers, Sequences, SequencesExt

CONSTANTS
  InstallOps,        \* the operations a user asks for
  MaxInstallOps,     \* how many of them
  MaxInstallFaults   \* how many failed saves, failed effects and crashes

ASSUME InstallAssumption == MaxInstallOps \in Nat /\ MaxInstallFaults \in Nat

VARIABLES
  world,     \* the replaced objects: data, binaries, channel, unit, wants link
  svc,       \* the service process: off, starting (before its gate) or serving
  dataLock,  \* the owner of the data directory's daemon lock
  child,     \* the validation daemon runs
  journal,   \* install-transaction.json as it reads now
  safe,      \* the journal a power loss is sure to leave
  todo,      \* the session's remaining work; its last item closes the session
  bound,     \* the transaction whose candidates and backups the session holds
  stages,    \* the transactions whose candidates and backups are on disk
  mode,      \* idle, apply, recover
  undone,    \* rollback: some action was reversed
  unknown,   \* an observed object was neither old nor new
  used,      \* a daemon has served from the data directory
  inOps, inFaults

inVars == <<world, svc, dataLock, child, journal, safe, todo, bound, stages, mode, undone,
            unknown, used, inOps, inFaults>>

\* What no step of a session's work changes.
session == <<bound, stages, used, inOps>>

Files     == {"data", "managed", "path", "channel"}
Objects   == Files \cup {"unit", "wants"}
Lifecycle == {"start", "stop", "restart", "uninstall"}
Pending   == {"prepared", "stopped", "data_committed", "binaries_committed", "definition_committed"}
Phases    == Pending \cup {"activation_committed", "complete"}

\* The object an action of a kind changes.
ObjectOf(k) ==
  CASE k \in Files                     -> k
    [] k \in {"mask", "definition"}    -> "unit"
    [] k \in {"disable", "enable"}     -> "wants"
    [] OTHER                           -> "none"

ServiceKinds == {"mask", "definition", "disable", "enable", "stop", "start"}
Kinds == Files \cup ServiceKinds \cup {"reload", "validation_start", "validation_stop", "activation"}

NoJournal == [id |-> 0, op |-> "none", phase |-> "complete", authority |-> "target", acts |-> <<>>,
              old |-> [o \in Objects |-> "absent"], new |-> [o \in Objects |-> "absent"],
              oldRun |-> FALSE, newRun |-> FALSE, cand |-> "absent"]

\* A work item; the fields an item does not need are empty.
Item(t, k, v, n) == [t |-> t, k |-> k, v |-> v, n |-> n]
Step(k, v)  == Item("step", k, v, 0)
Phase(p)    == Item("phase", p, "", 0)
Complete(a) == Item("phase", "complete", a, 0)
Do(t)       == Item(t, "", "", 0)
About(t, n) == Item(t, "", "", n)

InTypeOK ==
  /\ world \in [Objects -> {"absent", "v1", "v2", "mask", "on", "off"}]
  /\ svc \in {"off", "starting", "serving"}
  /\ dataLock \in {"free", "installer", "child", "daemon"}
  /\ (svc = "serving") = (dataLock = "daemon")
  /\ dataLock = "child" => child
  /\ dataLock = "installer" => mode # "idle"
  /\ \A j \in {journal, safe} : j.phase \in Phases /\ j.authority \in {"source", "target"}
  /\ \A i \in 1..Len(journal.acts) : journal.acts[i].k \in Kinds
  /\ mode \in {"idle", "apply", "recover"}
  /\ (mode = "idle") = (todo = <<>>)
  /\ stages \subseteq 1..MaxInstallOps /\ bound \in 0..MaxInstallOps
  /\ undone \in BOOLEAN /\ unknown \in BOOLEAN /\ used \in BOOLEAN /\ child \in BOOLEAN
  /\ inOps \in 0..MaxInstallOps /\ inFaults \in 0..MaxInstallFaults

\* An empty machine, or version v1 installed by an earlier transaction,
\* running or not.
InInit ==
  /\ \E running \in BOOLEAN, enabled \in {"on", "off"}, installed \in BOOLEAN :
       /\ ~installed => ~running /\ enabled = "off"
       /\ world = IF installed
                  THEN [o \in Objects |-> IF o = "wants" THEN enabled ELSE "v1"]
                  ELSE [o \in Objects |-> IF o = "wants" THEN "off" ELSE "absent"]
       /\ svc = IF running THEN "serving" ELSE "off"
       /\ dataLock = IF running THEN "daemon" ELSE "free"
       /\ used = installed
       /\ journal = IF ~installed THEN NoJournal
                    ELSE [NoJournal EXCEPT !.op = "install", !.old = [o \in Objects |-> IF o = "wants" THEN "off" ELSE "absent"],
                                           !.new = world, !.newRun = running, !.cand = "v1"]
  /\ safe = journal
  /\ todo = <<>> /\ mode = "idle" /\ bound = 0 /\ stages = {}
  /\ child = FALSE /\ undone = FALSE /\ unknown = FALSE
  /\ inOps = 0 /\ inFaults = 0

Fault == inFaults < MaxInstallFaults /\ inFaults' = inFaults + 1
NoFault == UNCHANGED inFaults

-----------------------------------------------------------------------------
(* How work goes on.                                                       *)

Continue(items) == todo' = items \o Tail(todo) /\ UNCHANGED mode

\* A failed operation recovers under the same lease; a failed recovery
\* leaves the journal for the next one.
Abandon ==
  /\ todo' = IF mode = "apply" THEN <<Do("recover"), Do("close")>> ELSE <<Do("close")>>
  /\ mode' = "recover"

\* The journal is written to a temporary file, synced, renamed and its
\* directory synced.  A failure may come after the rename.
Save(j, items) ==
  \/ journal' = j /\ safe' = j /\ Continue(items) /\ NoFault
  \/ journal' = j /\ UNCHANGED safe /\ Abandon /\ Fault
  \/ UNCHANGED <<journal, safe>> /\ Abandon /\ Fault

Head1 == todo[1]
Active(t) == todo # <<>> /\ Head1.t = t

Observe(k) ==
  CASE ObjectOf(k) # "none"          -> world[ObjectOf(k)]
    [] k \in {"start", "stop"}       -> IF svc = "off" THEN "stopped" ELSE "running"
    [] k = "activation"              -> journal.authority
    [] k \in {"validation_start", "validation_stop"} -> IF child /\ mode = "apply" THEN "running" ELSE "idle"
    [] OTHER                         -> "stale"

RecoveringSource == mode = "recover" /\ journal.authority = "source"

Action(k, from, to) == [k |-> k, from |-> from, to |-> to, rev |-> RecoveringSource, done |-> FALSE]

\* What is recorded as the old state: a service action observes it, a file
\* action takes what the transaction prepared.
FromOf(k) ==
  CASE k \in Files /\ RecoveringSource -> journal.new[k]
    [] k \in Files                      -> journal.old[k]
    [] k = "validation_start"           -> "idle"
    [] k = "validation_stop"            -> "running"
    [] OTHER                            -> Observe(k)

\* step: an action whose old and new states agree is skipped.
RecordIntent ==
  /\ Active("step")
  /\ LET k == Head1.k
         from == FromOf(k)
         n == Len(journal.acts) + 1
     IN IF from = Head1.v
        THEN Continue(<<>>) /\ NoFault /\ UNCHANGED <<journal, safe>>
        ELSE Save([journal EXCEPT !.acts = Append(@, Action(k, from, Head1.v))],
                  <<About("effect", n), About("done", n)>>)
 
  /\ UNCHANGED <<world, svc, child, dataLock, undone, unknown, session>>

RecordDone ==
  /\ Active("done")
  /\ Save([journal EXCEPT !.acts[Head1.n].done = TRUE], <<>>)
 
  /\ UNCHANGED <<world, svc, child, dataLock, undone, unknown, session>>

\* An object that is neither as it was nor as it should be stops the work.
StopUnknown ==
  /\ unknown' = TRUE /\ Abandon
  /\ UNCHANGED <<world, svc, child, dataLock, journal, safe, undone, inFaults>>

\* Apply: the object is moved or written only when it still is in its old
\* state.  Nothing else of the transaction changes the object.
ReplaceObject(o, a) ==
  IF world[o] \notin {a.from, a.to} \/ (o \in Files /\ journal.id \notin stages) THEN StopUnknown
  ELSE /\ world' = [world EXCEPT ![o] = a.to]
       /\ Continue(<<>>) /\ NoFault
       /\ UNCHANGED <<svc, child, dataLock, journal, safe, undone, unknown>>

StopService ==
  /\ svc' = "off"
  /\ dataLock' = IF dataLock = "daemon" THEN "free" ELSE dataLock
  /\ Continue(<<>>) /\ NoFault
  /\ UNCHANGED <<world, child, journal, safe, undone, unknown>>

\* The installer's own lease is given back before the daemon needs it.
StartService ==
  /\ svc' = IF svc = "off" THEN "starting" ELSE svc
  /\ dataLock' = IF dataLock = "installer" THEN "free" ELSE dataLock
  /\ Continue(<<>>) /\ NoFault
  /\ UNCHANGED <<world, child, journal, safe, undone, unknown>>

\* startAndWaitValidation: the lease passes to the candidate's daemon.
StartValidation ==
  /\ dataLock \in {"free", "installer"}
  /\ child' = TRUE /\ dataLock' = "child"
  /\ Continue(<<>>) /\ NoFault
  /\ UNCHANGED <<world, svc, journal, safe, undone, unknown>>

StopValidation ==
  /\ child' = FALSE /\ dataLock' = IF dataLock = "child" THEN "free" ELSE dataLock
  /\ Continue(<<>>) /\ NoFault
  /\ UNCHANGED <<world, svc, journal, safe, undone, unknown>>

\* activate: the journal's authority passes to the target before anything
\* of the target may start.
Activate ==
  /\ Save([journal EXCEPT !.authority = "target", !.phase = "activation_committed"], <<>>)
  /\ UNCHANGED <<world, svc, child, dataLock, undone, unknown>>

ApplyEffect ==
  /\ Active("effect")
  /\ LET a == journal.acts[Head1.n]
         o == ObjectOf(a.k)
     IN \/ o # "none" /\ ReplaceObject(o, a)
        \/ a.k = "stop" /\ StopService
        \/ a.k = "start" /\ StartService
        \/ a.k = "validation_start" /\ StartValidation
        \/ a.k = "validation_stop" /\ StopValidation
        \/ a.k = "activation" /\ Activate
        \/ a.k = "reload" /\ Continue(<<>>) /\ NoFault
                          /\ UNCHANGED <<world, svc, child, dataLock, journal, safe, undone, unknown>>
  /\ UNCHANGED session

\* The effect fails before it changes anything; a validation that fails has
\* already given the lease away.
EffectFails ==
  /\ Active("effect")
  /\ Fault /\ Abandon
  /\ dataLock' = IF journal.acts[Head1.n].k = "validation_start" /\ dataLock = "installer" THEN "free" ELSE dataLock
  /\ UNCHANGED <<world, svc, child, journal, safe, undone, unknown, session>>

-----------------------------------------------------------------------------
(* The program of an operation.                                            *)

SavePhase ==
  /\ Active("phase")
  /\ Save([journal EXCEPT !.phase = Head1.k, !.authority = IF Head1.v = "" THEN @ ELSE Head1.v], <<>>)
 
  /\ UNCHANGED <<world, svc, child, dataLock, undone, unknown, session>>

\* DisableAutostartAndStop: the link goes first, then the unit is masked, so
\* that neither the manager nor a reboot starts it; then it is stopped.
Quiesce ==
  IF world["unit"] = "absent" THEN <<>>
  ELSE <<Step("disable", "off"), Step("mask", "mask"), Step("reload", "reloaded"), Step("stop", "stopped")>>

If(cond, item) == IF cond THEN <<item>> ELSE <<>>

\* removeObsoleteDefinitions: what the old definition had and the new lacks.
Obsolete(old, new) ==
  If(new["unit"] = "absent" /\ old["unit"] # "absent", Step("definition", "absent"))
  \o If(new["wants"] = "off" /\ old["wants"] = "on", Step("disable", "off"))

\* WriteDefinition: the unit file (replacing the mask), its link, a reload.
WriteDefinition(d) ==
  If(d["unit"] # "absent", Step("definition", d["unit"]))
  \o If(d["unit"] # "absent" /\ d["wants"] = "on", Step("enable", "on"))
  \o <<Step("reload", "reloaded")>>

\* ensureTarget, and the end of ApplyLocked and of lifecycleActions.
EnsureTarget(j) ==
  Obsolete(j.old, j.new) \o WriteDefinition(j.new) \o If(j.newRun, Step("start", "running"))

\* RestoreDefinition and Start, for the source.
RestoreDefinition(j) == WriteDefinition(j.old) \o If(j.oldRun, Step("start", "running"))

ProgramFilesFirst(op, create) ==
  IF op \in Lifecycle THEN <<Step("activation", "target"), Do("define"), Phase("complete")>>
  ELSE <<Step("managed", "v2"), Step("path", "v2"), Step("channel", "v2"), Do("quiesce"), Phase("stopped")>>
ProgramChecksEarly(op, create) ==
  IF op \in Lifecycle THEN <<Step("activation", "target"), Do("define"), Phase("complete")>>
  ELSE <<Do("quiesce"), Phase("stopped"), Do("lease"), Step("managed", "v2"), Step("validation_start", "running"),
         Step("path", "v2"), Step("channel", "v2"), Step("validation_stop", "idle"), Step("activation", "target")>>
ProgramAlwaysPublishes(op, create) ==
  <<Do("quiesce"), Phase("stopped"), Step("data", "v2"), Do("lease"), Phase("data_committed")>>

ApplyLockedChecksEarly(create) ==
  <<Do("quiesce"), Phase("stopped"), Do("lease"), Step("managed", "v2"), Step("validation_start", "running"),
    Step("path", "v2"), Step("channel", "v2"), Step("validation_stop", "idle"), Step("activation", "target")>>

\* ApplyLocked: the old service is disabled and stopped, the objects are
\* replaced, the candidate is validated, and only then is it activated.
ApplyLocked(create) ==
  <<Do("quiesce"), Phase("stopped")>>
  \o If(create, Step("data", "v2"))
  \o <<Do("lease"), Phase("data_committed"),
       Step("managed", "v2"), Step("path", "v2"), Step("channel", "v2"), Phase("binaries_committed"),
       Step("reload", "reloaded"), Phase("definition_committed"),
       Step("validation_start", "running"), Step("validation_stop", "idle"),
       Step("activation", "target"), Do("define"), Phase("complete")>>

LifecycleActions(op) ==
  If(op # "start", Do("quiesce")) \o <<Step("activation", "target"), Do("define"), Phase("complete")>>

\* Expanding an item: what it does is decided when its turn comes.
Expand ==
  /\ \/ Active("quiesce") /\ Continue(Quiesce)
     \/ Active("define") /\ Continue(EnsureTarget(journal))
     \/ Active("restore") /\ Continue(RestoreDefinition(journal))
     \/ Active("undoAll")
        /\ Continue([i \in 1..Len(journal.acts) |-> About("undo", Len(journal.acts) + 1 - i)])
     \/ Active("restoreReload")
        /\ Continue(IF undone THEN <<Step("reload", "reloaded")>> ELSE <<>>)
 
  /\ UNCHANGED <<world, svc, child, dataLock, journal, safe, undone, unknown, session, inFaults>>

\* acquireDataLease; an absent data directory has no lock to take, and a
\* service operation replaces no file.
TakeLease ==
  /\ Active("lease")
  /\ IF world["data"] = "absent" \/ journal.op \in Lifecycle THEN Continue(<<>>) /\ UNCHANGED dataLock
     ELSE IF dataLock \in {"free", "installer"} THEN Continue(<<>>) /\ dataLock' = "installer"
     ELSE Abandon /\ UNCHANGED dataLock
  /\ UNCHANGED <<world, svc, child, journal, safe, undone, unknown, session, inFaults>>

-----------------------------------------------------------------------------
(* RecoverLocked.                                                          *)

\* recoverValidation: the recorded child is reaped.
ReapValidation ==
  /\ child' = FALSE
  /\ dataLock' = IF dataLock = "child" THEN "free" ELSE dataLock

\* The recorded validation child is reaped; then the authority decides
\* whether the transaction is finished or undone.
Recover ==
  /\ Active("recover")
  /\ IF journal.id = 0 \/ journal.phase = "complete"
     THEN Continue(<<>>) /\ UNCHANGED <<child, dataLock, undone>>
     ELSE /\ ReapValidation /\ undone' = FALSE
          /\ Continue(
               IF journal.authority = "target"
               THEN [n \in 1..Len(journal.acts) |-> About("finish", n)] \o <<Do("define"), Complete("target")>>
               ELSE <<Do("quiesce"), Do("lease"), Do("undoAll"), Do("restoreReload"), Do("restore"), Complete("source")>>)
  /\ UNCHANGED <<world, svc, journal, safe, unknown, session, inFaults>>

AlreadyReversed(n) ==
  \E m \in n + 1 .. Len(journal.acts) : journal.acts[m].rev /\ journal.acts[m].k = journal.acts[n].k

\* rollback: one action of the journal, from the last to the first.
Undo ==
  /\ Active("undo")
  /\ LET n == Head1.n
         a == journal.acts[n]
     IN \/ /\ a.k \in {"stop", "start", "reload"}
           /\ Continue(<<>>) /\ UNCHANGED <<undone, unknown>>
        \/ /\ a.k \notin {"stop", "start", "reload"} /\ a.rev
           /\ Continue(<<About("finish", n)>>) /\ UNCHANGED <<undone, unknown>>
        \/ /\ a.k \notin {"stop", "start", "reload"} /\ ~a.rev
           /\ IF AlreadyReversed(n) \/ Observe(a.k) = a.from
              THEN Continue(<<>>) /\ UNCHANGED <<undone, unknown>>
              ELSE IF Observe(a.k) # a.to
              THEN unknown' = TRUE /\ Abandon /\ UNCHANGED undone
              ELSE Continue(<<Step(a.k, a.from)>>) /\ undone' = TRUE /\ UNCHANGED unknown
 
  /\ UNCHANGED <<world, svc, child, dataLock, journal, safe, session, inFaults>>

\* finishAction: an intent is carried out unless its effect is there.
Finish ==
  /\ Active("finish")
  /\ LET n == Head1.n
         a == journal.acts[n]
     IN IF a.done THEN Continue(<<>>) /\ UNCHANGED unknown
        ELSE IF Observe(a.k) = a.from THEN Continue(<<About("effect", n), About("done", n)>>) /\ UNCHANGED unknown
        ELSE IF Observe(a.k) = a.to THEN Continue(<<About("done", n)>>) /\ UNCHANGED unknown
        ELSE unknown' = TRUE /\ Abandon
 
  /\ UNCHANGED <<world, svc, child, dataLock, journal, safe, undone, session, inFaults>>

-----------------------------------------------------------------------------
(* The operations of a user.                                               *)

\* Every operation recovers first; an update refuses to.
Begin(op) ==
  /\ mode = "idle" /\ inOps < MaxInstallOps
  /\ op = "update" => journal.phase = "complete"
  /\ inOps' = inOps + 1
  /\ mode' = "recover"
  /\ todo' = <<Do("recover")>> \o (IF op = "recover" THEN <<>> ELSE <<Item("prepare", op, "", 0)>>) \o <<Do("close")>>
  /\ bound' = journal.id
  /\ UNCHANGED <<world, svc, dataLock, child, journal, safe, stages, undone, unknown, used, inFaults>>

\* targetServicePolicy and prepareLifecycle.
Target(op) ==
  LET wants == IF op \in {"install", "reinstall"} THEN "on" ELSE world["wants"]
  IN IF op = "uninstall" THEN [world EXCEPT !["unit"] = "absent", !["wants"] = "off"]
     ELSE IF op \in Lifecycle THEN world
     ELSE [o \in Objects |-> CASE o = "wants" -> wants
                               [] o = "data" /\ world["data"] # "absent" -> world["data"]
                               [] OTHER -> "v2"]

TargetRuns(op, run) ==
  CASE op \in {"reinstall", "start", "restart"} -> {TRUE}
    [] op \in {"stop", "uninstall"}             -> {FALSE}
    [] op = "install"                           -> BOOLEAN
    [] OTHER                                    -> {run}

\* The hash the daemon's gate compares its own binary with.
CandidateHash(op) ==
  CASE op \notin Lifecycle -> "v2"
    [] op \in {"stop", "uninstall"} /\ journal.authority = "target" -> journal.cand
    [] OTHER -> world["managed"]

\* A service that waits to be restarted by its manager counts as stopped.
Prepare ==
  /\ Active("prepare")
  /\ LET op == Head1.k
         installed == world["unit"] # "absent"
     IN \E run \in {svc = "serving", svc # "off"} :
          IF (op = "install") = installed \/ (op = "start" /\ run)
          THEN Continue(<<>>) /\ NoFault /\ UNCHANGED <<journal, safe, bound, stages>>
          ELSE \E newRun \in TargetRuns(op, run) :
               LET j == [id |-> inOps, op |-> op, phase |-> "prepared", authority |-> "source", acts |-> <<>>,
                         old |-> world, new |-> Target(op), oldRun |-> run, newRun |-> newRun,
                         cand |-> CandidateHash(op)]
               IN /\ bound' = inOps /\ stages' = stages \cup {inOps}
                  /\ \/ /\ journal' = j /\ safe' = j /\ NoFault
                        /\ mode' = "apply"
                        /\ todo' = (IF op \in Lifecycle THEN LifecycleActions(op)
                                    ELSE ApplyLocked(world["data"] = "absent")) \o <<Do("close")>>
                     \/ /\ journal' \in {j, journal} /\ UNCHANGED safe /\ Fault
                        /\ todo' = <<Do("recover"), Do("close")>> /\ mode' = "recover"
 
  /\ UNCHANGED <<world, svc, child, dataLock, undone, unknown, used, inOps>>

CloseSessionKeepsLease ==
  /\ Active("close")
  /\ todo' = <<>> /\ mode' = "idle"
  /\ stages' = IF journal.id = bound /\ journal.phase # "complete" THEN stages ELSE stages \ {bound}
  /\ UNCHANGED <<world, svc, child, dataLock, journal, safe, bound, undone, unknown, used, inOps, inFaults>>

\* Close: the lease ends with the session, and the candidates of its
\* transaction go unless a pending journal still needs them.
CloseSession ==
  /\ Active("close")
  /\ todo' = <<>> /\ mode' = "idle"
  /\ dataLock' = IF dataLock = "installer" THEN "free" ELSE dataLock
  /\ stages' = IF journal.id = bound /\ journal.phase # "complete" THEN stages ELSE stages \ {bound}
  /\ UNCHANGED <<world, svc, child, journal, safe, bound, undone, unknown, used, inOps, inFaults>>

-----------------------------------------------------------------------------
(* The daemon, the validation child and the machine.                       *)

\* inspectUnixActivation: what the service's daemon asks before it serves.
Admitted ==
  /\ journal.phase \in {"activation_committed", "complete"}
  /\ journal.authority = "target"
  /\ world["managed"] = journal.cand

DaemonGate ==
  /\ svc = "starting" /\ Admitted
  /\ dataLock = "free"
  /\ svc' = "serving" /\ dataLock' = "daemon" /\ used' = TRUE
  /\ UNCHANGED <<world, child, journal, safe, todo, bound, stages, mode, undone, unknown, inOps, inFaults>>

\* The child's lease pipe is closed when the installer dies.
ChildExit ==
  /\ child /\ mode = "idle"
  /\ child' = FALSE /\ dataLock' = IF dataLock = "child" THEN "free" ELSE dataLock
  /\ UNCHANGED <<world, svc, journal, safe, todo, bound, stages, mode, undone, unknown, used, inOps, inFaults>>

InstallerDies ==
  /\ mode # "idle" /\ Fault
  /\ todo' = <<>> /\ mode' = "idle"
  /\ dataLock' = IF dataLock = "installer" THEN "free" ELSE dataLock
  /\ UNCHANGED <<world, svc, child, journal, safe, bound, stages, undone, unknown, used, inOps>>

\* A power loss may take back a journal whose directory was not synced; at
\* boot the manager starts an enabled unit.
PowerLoss ==
  /\ Fault
  /\ todo' = <<>> /\ mode' = "idle" /\ child' = FALSE /\ dataLock' = "free"
  /\ journal' \in {journal, safe} /\ safe' = journal'
  /\ svc' = IF world["unit"] \notin {"absent", "mask"} /\ world["wants"] = "on" THEN "starting" ELSE "off"
  /\ UNCHANGED <<world, bound, stages, undone, unknown, used, inOps>>

Work == RecordIntent \/ RecordDone \/ ApplyEffect \/ EffectFails \/ SavePhase \/ Expand \/ TakeLease
        \/ Recover \/ Undo \/ Finish

InNext ==
  \/ Work
  \/ Prepare \/ CloseSession
  \/ \E op \in InstallOps : Begin(op)
  \/ DaemonGate \/ ChildExit \/ InstallerDies \/ PowerLoss

InSpec == InInit /\ [][InNext]_inVars

-----------------------------------------------------------------------------
(* Properties.                                                             *)

\* All or nothing: a complete transaction leaves every object as its
\* authority wants it, whatever failed or stopped on the way.
CompleteIsWhole ==
  journal.phase = "complete" /\ mode = "idle" /\ journal.id # 0 =>
    world = IF journal.authority = "target" THEN journal.new ELSE journal.old

\* A daemon never serves a mixture: while one serves, the binaries and the
\* channel are of one version, and the unit is theirs or masked for a stop.
ServedWhole ==
  svc = "serving" =>
    /\ world["path"] = world["managed"] /\ world["channel"] = world["managed"]
    /\ world["unit"] \in {world["managed"], "mask"}
    /\ world["data"] # "absent"

\* Recovery always recognises what it finds: no crash leaves an object that
\* is neither in its old nor in its new state.
RecoveryKnows == ~unknown

\* Nothing is replaced under a running daemon or validation child.
QuietReplacement ==
  \A o \in Files : world'[o] # world[o] => svc # "serving" /\ ~child

\* Data that a daemon has served from is never moved away, by no rollback
\* and by no uninstall.
ServedDataKept == used => world'["data"] = world["data"]

\* A durable activation is final: the same transaction is never rolled back
\* afterwards.
ActivationFinal ==
  safe.authority = "target" /\ safe'.id = safe.id => safe'.authority = "target"

\* The service a rollback has restarted gets past the daemon's gate, as the
\* promise to restore the running state needs.
RestoredServiceAdmitted ==
  mode = "idle" /\ journal.phase = "complete" /\ journal.authority = "source" /\ svc = "starting" => Admitted

\* Everything above that a reachable state promises.
InSafe ==
  /\ InTypeOK /\ CompleteIsWhole /\ ServedWhole /\ RecoveryKnows

\* Everything above that a step promises.
InStepOK ==
  /\ QuietReplacement /\ ServedDataKept /\ ActivationFinal
=============================================================================
