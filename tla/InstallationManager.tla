------------------------- MODULE InstallationManager -------------------------
(***************************************************************************)
(* The recorded installation (internal/app/installation_manager.go,        *)
(* installation_inspect.go, installation_startup.go, the Unix observer and *)
(* internal/platform/install_control.go).  A repair or a fresh             *)
(* installation is planned, shown to the user and then executed: the plan  *)
(* is claimed once, the facts it was made from are checked again with and  *)
(* without the operation lock, the old record is archived, an "applying"   *)
(* record is published durably, the daemon is stopped behind the startup   *)
(* gate, the data root is bound, the target is deployed, and the record    *)
(* becomes "complete".  Meanwhile other processes inspect the installation *)
(* and the service manager starts the daemon, which confirms the record    *)
(* first.  Installers die and the power fails.  The native backend is an   *)
(* interface: its calls fail, return a wrong target or publish without     *)
(* durability as they like.                                                *)
(***************************************************************************)
EXTENDS Integers, FiniteSets

CONSTANTS Executors, Inspectors, Binaries, MaxInstallations, MaxOutages,
          Requests   \* what each executor's user asks for: modes and candidates

VARIABLES record,    \* state.json as every process sees it
          disk,      \* what a power failure leaves of it
          opLock,    \* operation.lock: an executor, an inspector or "free"
          gate,      \* startup.lock: an executor, "daemon" or "free"
          root,      \* the data root exists
          deployed,  \* what the machine runs: a target, NotDeployed or Mixed
          plans,     \* the plans each manager authorised
          executor,  \* the calls of Plan and Execute in progress
          inspector, \* the calls of Inspect in progress
          starter,   \* the daemon and its startup
          outages, nextId,
          finished   \* the complete records so far (for the properties)

imVars == <<record, disk, opLock, gate, root, deployed, plans, executor,
            inspector, starter, outages, nextId, finished>>

NoDoc == [id |-> 0, state |-> "none"]
NotDeployed == [binary |-> "none", root |-> "none"]
Mixed == [binary |-> "mixed", root |-> "mixed"]
NoBase == NotDeployed
Modes == {"repair", "fresh"}
Targets == [binary : Binaries, root : {"parent", "bound"}]
NoAuthority == [mode |-> "none"]
Resting == [at |-> "idle", plan |-> NoAuthority, confirmed |-> FALSE,
            doc |-> NoDoc]
Unasked == [at |-> "idle", held |-> NoDoc, locked |-> FALSE, doc |-> NoDoc,
            kind |-> "none"]
Missing == [Resting EXCEPT !.at = "missing"]
Absent == [Unasked EXCEPT !.at = "absent"]
Down == [at |-> "down", doc |-> NoDoc]
Disabled == [at |-> "disabled", doc |-> NoDoc]
Stopped(daemon) == IF daemon = Disabled THEN Disabled ELSE Down

(* Executors of one process share a manager, and so its plans.  Either the *)
(* service is enabled and the service manager may start it at any time, or *)
(* somebody inspects what one executor does.                               *)
ImInit ==
  /\ record = NoDoc /\ disk = NoDoc
  /\ opLock = "free" /\ gate = "free" /\ root = FALSE
  /\ deployed = NotDeployed
  /\ plans \in {[p \in {"shared"} |-> {}], [p \in Executors |-> {}]}
  /\ \/ /\ starter = Down /\ inspector = [i \in Inspectors |-> Absent]
        /\ executor = [e \in Executors |-> Resting]
     \/ /\ starter = Disabled /\ inspector = [i \in Inspectors |-> Unasked]
        /\ \E e \in Executors : executor = [x \in Executors |-> IF x = e THEN Resting ELSE Missing]
  /\ outages = 0 /\ nextId = 1 /\ finished = {}

Home(e) == IF DOMAIN plans = {"shared"} THEN "shared" ELSE e
At(e, pc) == executor[e].at = pc
Go(e, next) == executor' = [executor EXCEPT ![e] = next]
Advance(e, pc) == Go(e, [executor[e] EXCEPT !.at = pc])

UnwindGateFirst(e) ==
  /\ Go(e, Resting)
  /\ gate' = IF gate = e THEN "free" ELSE gate
  /\ opLock' = IF opLock = e /\ gate # e THEN "free" ELSE opLock
(* The deferred closes of Execute: the startup gate, then the lock.        *)
Unwind(e) ==
  /\ Go(e, Resting)
  /\ gate' = IF gate = e THEN "free" ELSE gate
  /\ opLock' = IF opLock = e THEN "free" ELSE opLock

-----------------------------------------------------------------------------
(* The facts a preparation describes: the record (ID and digest), the      *)
(* candidate and whether the data root has its own identity yet.           *)
Described(mode, binary) ==
  [mode |-> mode, record |-> record,
   target |-> [binary |-> binary, root |-> IF root THEN "bound" ELSE "parent"]]

PlanInstallation(e) ==
  /\ At(e, "idle")
  /\ \E request \in Requests[e] :
       LET plan == Described(request.mode, request.binary) IN
         /\ plans' = [plans EXCEPT ![Home(e)] = @ \cup {plan}]
         /\ Go(e, [Resting EXCEPT !.at = "planned", !.plan = plan])
  /\ UNCHANGED <<record, disk, opLock, gate, root, deployed, inspector, starter,
                 outages, nextId, finished>>

SameInstallationPlanInput(plan) == Described(plan.mode, plan.target.binary) = plan
SamePlanTarget(plan) == Described(plan.mode, plan.target.binary).target = plan.target

(* claimInstallationPlan: a plan this manager made and nobody used yet.    *)
(* (A plan nobody asks to execute any more is forgotten here.)             *)
Claimable(e) == executor[e].plan \in plans[Home(e)]
Unclaimed(e, granted) ==
  IF granted \/ \A x \in Executors \ {e} : executor[x].plan # executor[e].plan \/ ~At(x, "planned")
  THEN plans[Home(e)] \ {executor[e].plan} ELSE plans[Home(e)]

(* Execute: a fresh installation needs the reset confirmed; the claimed    *)
(* plan is prepared and described again, "installation plan changed"       *)
(* otherwise.                                                              *)
ClaimInstallationPlan(e) ==
  /\ At(e, "planned")
  /\ \E confirmed \in BOOLEAN :
       LET granted == (executor[e].plan.mode = "fresh" => confirmed) /\ Claimable(e) IN
       /\ plans' = [plans EXCEPT ![Home(e)] = Unclaimed(e, granted)]
       /\ Go(e, IF granted /\ SameInstallationPlanInput(executor[e].plan)
                THEN [executor[e] EXCEPT !.at = "described", !.confirmed = confirmed]
                ELSE Resting)
  /\ UNCHANGED <<record, disk, opLock, gate, root, deployed, inspector, starter,
                 outages, nextId, finished>>

(* Begin takes operation.lock without waiting; it may meet an inspector's  *)
(* probe there and fail.                                                   *)
LockOperation(e) ==
  /\ At(e, "described")
  /\ IF opLock = "free"
     THEN opLock' = e /\ Advance(e, "locked")
     ELSE opLock' = opLock /\ Go(e, Resting)
  /\ UNCHANGED <<record, disk, gate, root, deployed, plans, inspector, starter,
                 outages, nextId, finished>>

(* newApplyingInstallationState: an interrupted operation hands on its     *)
(* base, a complete one becomes the base.                                  *)
NewApplying(id, plan, current) ==
  [id |-> id, state |-> "applying", op |-> plan.mode, target |-> plan.target,
   supersedes |-> current.id,
   base |-> IF current = NoDoc THEN NoBase
            ELSE IF current.state = "applying" THEN current.base
            ELSE current.target]

(* validateInstallationState, which every document written passes: a root  *)
(* without its own identity only while a first installation is applied.    *)
ValidState(doc) ==
  doc.target.root = "parent" => doc.state = "applying" /\ doc.base = NoBase

RevalidateTarget(plan) == SamePlanTarget(plan)
(* revalidateInstallationExecution: everything again under the lock.       *)
Revalidates(plan) == SameInstallationPlanInput(plan)

RevalidateInstallation(e) ==
  /\ At(e, "locked") /\ nextId <= MaxInstallations
  /\ LET plan == executor[e].plan IN
     IF Revalidates(plan) /\ ValidState(NewApplying(nextId, plan, record))
     THEN /\ Go(e, [executor[e] EXCEPT !.at = "archived",
                      !.doc = NewApplying(nextId, plan, record)])
          /\ nextId' = nextId + 1
          /\ UNCHANGED <<gate, opLock>>
     ELSE Unwind(e) /\ UNCHANGED nextId
  /\ UNCHANGED <<record, disk, root, deployed, plans, inspector, starter,
                 outages, finished>>

(* publishDurableInstallationState: published and not durable is an error  *)
(* although every process already sees the document.                       *)
PublishDurable(e, doc, next) ==
  /\ record' = doc
  /\ \/ disk' = doc /\ Go(e, next) /\ UNCHANGED <<gate, opLock>>
     \/ disk' = disk /\ Unwind(e)

PublishApplying(e) ==
  /\ At(e, "archived")
  /\ PublishDurable(e, executor[e].doc, [executor[e] EXCEPT !.at = "applying"])
  /\ UNCHANGED <<root, deployed, plans, inspector, starter, outages, nextId,
                 finished>>

(* QuiesceExecutor: the managed tree is stopped and the startup gate held.         *)
QuiesceExecutor(e) ==
  /\ At(e, "applying") /\ gate = "free"
  /\ gate' = e /\ Advance(e, "quiesced") /\ starter' = Stopped(starter)
  /\ UNCHANGED <<record, disk, opLock, root, deployed, plans, inspector,
                 outages, nextId, finished>>

RootBindingAny(initial, bound) == bound.root = "bound"
(* validateInstallationRootBinding: the root may gain its own identity;    *)
(* nothing else may change.                                                *)
RootBindingValid(initial, bound) ==
  /\ bound.root = "bound"
  /\ \/ bound = initial
     \/ initial.root = "parent" /\ bound = [initial EXCEPT !.root = "bound"]

(* OpenData and BindRoot; a root bound now is published before it is used. *)
BindRoot(e) ==
  /\ At(e, "quiesced")
  /\ root' = TRUE
  /\ \E bound \in Targets :
       LET doc == executor[e].doc
           next == [executor[e] EXCEPT !.at = "bound", !.doc.target = bound] IN
       IF ~RootBindingValid(doc.target, bound)
       THEN Unwind(e) /\ UNCHANGED <<record, disk>>
       ELSE IF bound = doc.target
       THEN Go(e, next) /\ UNCHANGED <<record, disk, gate, opLock>>
       ELSE PublishDurable(e, next.doc, next)
  /\ UNCHANGED <<deployed, plans, inspector, starter, outages, nextId, finished>>

(* data.Apply works on the machine for a while ...                         *)
ApplyBegins(e) ==
  /\ At(e, "bound")
  /\ deployed' = Mixed /\ Advance(e, "deploying")
  /\ UNCHANGED <<record, disk, opLock, gate, root, plans, inspector, starter,
                 outages, nextId, finished>>

FinalTargetInstalled(bound, final) == final.root = "bound"
FinalTargetValid(bound, final) == final = bound

(* ... and reports the target it deployed.                                 *)
Apply(e) ==
  /\ At(e, "deploying")
  /\ \E final \in Targets :
       /\ deployed' = final
       /\ IF FinalTargetValid(executor[e].doc.target, final)
          THEN /\ Go(e, [executor[e] EXCEPT !.at = "applied",
                           !.doc.target = final, !.doc.state = "complete"])
               /\ UNCHANGED <<gate, opLock>>
          ELSE Unwind(e)
  /\ UNCHANGED <<record, disk, root, plans, inspector, starter, outages, nextId,
                 finished>>

PublishComplete(e) ==
  /\ At(e, "applied")
  /\ PublishDurable(e, executor[e].doc, [executor[e] EXCEPT !.at = "complete"])
  /\ finished' = finished \cup {[id |-> executor[e].doc.id, target |-> executor[e].doc.target]}
  /\ UNCHANGED <<root, deployed, plans, inspector, starter, outages, nextId>>

(* Data and gate are closed before the service manager is asked to start   *)
(* the daemon; the operation lock goes last.                               *)
CloseGate(e) ==
  /\ At(e, "complete")
  /\ gate' = "free" /\ Advance(e, "starting")
  /\ UNCHANGED <<record, disk, opLock, root, deployed, plans, inspector,
                 starter, outages, nextId, finished>>

StartAndCheck(e) ==
  /\ At(e, "starting") /\ Unwind(e)
  /\ UNCHANGED <<record, disk, root, deployed, plans, inspector, starter,
                 outages, nextId, finished>>

(* Any call of the backend, or the context, fails.                         *)
ExecuteFails(e) ==
  /\ executor[e].at \notin {"missing", "idle", "planned"} /\ Unwind(e)
  /\ UNCHANGED <<record, disk, root, deployed, plans, inspector, starter,
                 outages, nextId, finished>>

-----------------------------------------------------------------------------
(* Verify: the definition, the binary, the data root and its marker and    *)
(* the credential are the target's.                                        *)
VerifyManifest(target) == deployed = target
ObservedService == IF deployed = NotDeployed THEN "not_installed" ELSE "installed"

(* The daemon takes startup.lock ...                                       *)
LockStartup ==
  /\ starter.at = "down" /\ gate = "free"
  /\ gate' = "daemon" /\ starter' = [Down EXCEPT !.at = "gated"]
  /\ UNCHANGED <<record, disk, opLock, root, deployed, plans, executor,
                 inspector, outages, nextId, finished>>

Refuse == starter' = Down /\ gate' = "free"

(* ... and ConfirmInstallationStartup reads a complete record ...          *)
ReadStartupState ==
  /\ starter.at = "gated"
  /\ IF record.state = "complete"
     THEN starter' = [at |-> "read", doc |-> record] /\ UNCHANGED gate
     ELSE Refuse
  /\ UNCHANGED <<record, disk, opLock, root, deployed, plans, executor,
                 inspector, outages, nextId, finished>>

ConfirmNothing == UNCHANGED <<disk, gate>> /\ starter' = [starter EXCEPT !.at = "confirmed"]
(* confirmState: the held document is still the named one, and is synced.  *)
ConfirmState ==
  \/ /\ record = starter.doc
     /\ disk' = record /\ starter' = [starter EXCEPT !.at = "confirmed"]
     /\ UNCHANGED gate
  \/ Refuse /\ UNCHANGED disk

ConfirmStartupState ==
  /\ starter.at = "read" /\ ConfirmState
  /\ UNCHANGED <<record, opLock, root, deployed, plans, executor, inspector,
                 outages, nextId, finished>>

(* ... verifies its target twice around a second read, and starts.         *)
StartOwners ==
  /\ starter.at = "confirmed"
  /\ IF record = starter.doc /\ VerifyManifest(starter.doc.target)
     THEN starter' = [starter EXCEPT !.at = "up"] /\ gate' = "free"
     ELSE Refuse
  /\ UNCHANGED <<record, disk, opLock, root, deployed, plans, executor,
                 inspector, outages, nextId, finished>>

DaemonExits ==
  /\ starter.at \notin {"down", "disabled"}
  /\ starter' = Down
  /\ gate' = IF gate = "daemon" THEN "free" ELSE gate
  /\ UNCHANGED <<record, disk, opLock, root, deployed, plans, executor,
                 inspector, outages, nextId, finished>>

-----------------------------------------------------------------------------
(* Inspect takes two snapshots.  A snapshot opens the control directory    *)
(* (and holds its state file), probes operation.lock by taking it for a    *)
(* moment, and reads the state file it holds, which must still be the      *)
(* named one.                                                              *)
Tell(i, next) == inspector' = [inspector EXCEPT ![i] = next]
OpensAt == [idle |-> "opened", observed |-> "reopened"]
ProbesAt == [opened |-> "probing", reopened |-> "reprobing"]

OpenControl(i) ==
  /\ inspector[i].at \in DOMAIN OpensAt
  /\ Tell(i, [inspector[i] EXCEPT !.at = OpensAt[@], !.held = record])
  /\ UNCHANGED <<record, disk, opLock, gate, root, deployed, plans, executor,
                 starter, outages, nextId, finished>>

ProbeOperation(i) ==
  /\ inspector[i].at \in DOMAIN ProbesAt
  /\ LET pc == ProbesAt[inspector[i].at]
         locked == inspector[i].held # NoDoc /\ opLock # "free"
         first == pc = "probing" IN
     /\ opLock' = IF inspector[i].held = NoDoc \/ locked THEN opLock ELSE i
     /\ Tell(i, IF first THEN [inspector[i] EXCEPT !.at = pc, !.locked = locked]
                ELSE [inspector[i] EXCEPT !.at = pc,
                        !.kind = IF locked = inspector[i].locked THEN @ ELSE "unknown"])
  /\ UNCHANGED <<record, disk, gate, root, deployed, plans, executor, starter,
                 outages, nextId, finished>>

ReleaseProbe(i) == opLock' = IF opLock = i THEN "free" ELSE opLock

(* validateControl: the named file is the one this capability opened.      *)
StillNamed(i) == record = inspector[i].held

(* Inspect 81-128: the kind a snapshot suggests.                           *)
Classified(locked, doc) ==
  IF locked THEN "in_progress"
  ELSE IF doc = NoDoc THEN "not_installed"
  ELSE IF doc.state = "applying" THEN "interrupted" ELSE "installed"

ReadSnapshot(i) ==
  /\ inspector[i].at = "probing"
  /\ ReleaseProbe(i)
  /\ Tell(i, IF StillNamed(i) \/ inspector[i].held = NoDoc
             THEN [inspector[i] EXCEPT !.at = "classified", !.doc = inspector[i].held,
                     !.kind = Classified(inspector[i].locked, inspector[i].held)]
             ELSE [Unasked EXCEPT !.kind = "unknown"])
  /\ UNCHANGED <<record, disk, gate, root, deployed, plans, executor, starter,
                 outages, nextId, finished>>

(* Inspect 130-175: the target's resources, then the service.              *)
ObserveInstallation(i) ==
  /\ inspector[i].at = "classified"
  /\ LET kind == inspector[i].kind IN
     Tell(i, [inspector[i] EXCEPT !.at = "observed",
       !.kind = IF \/ kind = "installed" /\ ~VerifyManifest(inspector[i].doc.target)
                   \/ kind = "not_installed" /\ ObservedService # "not_installed"
                THEN "unknown" ELSE kind])
  /\ UNCHANGED <<record, disk, opLock, gate, root, deployed, plans, executor,
                 starter, outages, nextId, finished>>

SameState(i) == inspector[i].held = inspector[i].doc
(* The second snapshot must equal the first (sameInstallationSnapshot; the *)
(* lock was compared when it was probed), or the answer is "unknown".      *)
SameSnapshot(i) ==
  /\ SameState(i)
  /\ StillNamed(i) \/ inspector[i].held = NoDoc

Inspected(i) ==
  /\ inspector[i].at = "reprobing"
  /\ ReleaseProbe(i)
  /\ Tell(i, [Unasked EXCEPT !.kind = IF SameSnapshot(i) THEN inspector[i].kind ELSE "unknown"])
  /\ UNCHANGED <<record, disk, gate, root, deployed, plans, executor, starter,
                 outages, nextId, finished>>

-----------------------------------------------------------------------------
(* An installer process dies: its plans go with it, the kernel frees its   *)
(* locks, and the executors sharing its manager die too.                   *)
ExecutorDies(e) ==
  /\ outages < MaxOutages /\ executor[e].at \notin {"missing", "idle"}
  /\ LET dead == {x \in Executors : Home(x) = Home(e) /\ ~At(x, "missing")} IN
     /\ executor' = [x \in Executors |-> IF x \in dead THEN Resting ELSE executor[x]]
     /\ gate' = IF gate \in dead THEN "free" ELSE gate
     /\ opLock' = IF opLock \in dead THEN "free" ELSE opLock
  /\ plans' = [plans EXCEPT ![Home(e)] = {}]
  /\ outages' = outages + 1
  /\ UNCHANGED <<record, disk, root, deployed, inspector, starter, nextId, finished>>

PowerFails ==
  /\ outages < MaxOutages
  /\ outages' = outages + 1
  /\ record' = disk
  /\ gate' = "free" /\ opLock' = "free"
  /\ plans' = [p \in DOMAIN plans |-> {}]
  /\ executor' = [e \in Executors |-> IF At(e, "missing") THEN Missing ELSE Resting]
  /\ inspector' = [i \in Inspectors |-> IF inspector[i] = Absent THEN Absent ELSE Unasked]
  /\ starter' = Stopped(starter)
  /\ finished' = {f \in finished : f.id < disk.id \/ (f.id = disk.id /\ disk.state = "complete")}
  /\ UNCHANGED <<disk, root, deployed, nextId>>

ImNext ==
  \/ \E e \in Executors :
       \/ PlanInstallation(e) \/ ClaimInstallationPlan(e) \/ LockOperation(e) \/ RevalidateInstallation(e) \/ PublishApplying(e)
       \/ QuiesceExecutor(e) \/ BindRoot(e) \/ ApplyBegins(e) \/ Apply(e)
       \/ PublishComplete(e) \/ CloseGate(e) \/ StartAndCheck(e)
       \/ ExecuteFails(e) \/ ExecutorDies(e)
  \/ LockStartup \/ ReadStartupState \/ ConfirmStartupState \/ StartOwners
  \/ DaemonExits \/ PowerFails
  \/ \E i \in Inspectors :
       \/ OpenControl(i) \/ ProbeOperation(i) \/ ReadSnapshot(i)
       \/ ObserveInstallation(i) \/ Inspected(i)

ImSpec == ImInit /\ [][ImNext]_imVars

-----------------------------------------------------------------------------
Working(e) == executor[e].at \in {"locked", "archived", "applying", "quiesced",
                "bound", "deploying", "applied", "complete", "starting"}

(* The variables keep their shape, an executor past Begin holds the        *)
(* operation lock, and one that touches the data holds the startup gate:   *)
(* every return of Execute closes what it opened.                          *)
ImTypeOK ==
  /\ record.id \in 0..MaxInstallations /\ disk.id \in 0..MaxInstallations
  /\ opLock \in Executors \cup Inspectors \cup {"free"}
  /\ gate \in Executors \cup {"daemon", "free"}
  /\ deployed \in Targets \cup {NotDeployed, Mixed}
  /\ \A e \in Executors : Working(e) <=> opLock = e
  /\ \A e \in Executors :
       gate = e <=> executor[e].at \in {"quiesced", "bound", "deploying", "applied", "complete"}

(* After any crash, also one that loses what was not durable, a machine    *)
(* that does not run exactly the recorded target has an "applying" record: *)
(* Execute makes it durable before it touches anything.                    *)
WholeOrMarked ==
  \/ disk.state = "applying"
  \/ disk = NoDoc /\ deployed = NotDeployed
  \/ disk.state = "complete" /\ deployed = disk.target

(* An applying record's base is the target of the last operation that      *)
(* completed, however many operations were interrupted since.              *)
BaseIsLastComplete ==
  record.state = "applying" =>
    LET older == {f \in finished : f.id < record.id} IN
      IF older = {} THEN record.base = NoBase
      ELSE \E f \in older : record.base = f.target /\ \A g \in older : g.id <= f.id

(* The daemon's owners run only on the installation they confirmed: never  *)
(* beside a deployment, and never on a record a power failure could undo.  *)
RunsConfirmed ==
  starter.at = "up" =>
    /\ deployed = starter.doc.target
    /\ disk = starter.doc \/ disk.id > starter.doc.id

(* A complete record names the candidate of the plan its user confirmed,   *)
(* and every new record replaces exactly the record that plan was made     *)
(* from: nothing changed between preview and execution.                    *)
AsPlanned ==
  record' # record /\ outages' = outages =>
    \E e \in Executors :
      LET plan == executor[e].plan IN
      /\ record'.op = plan.mode
      /\ plan.mode = "fresh" => executor[e].confirmed
      /\ record'.target.binary = plan.target.binary
      /\ record'.id # record.id => record = plan.record
      /\ record'.id = record.id => record'.id = executor[e].doc.id

(* What Inspect answers is true of the moment it answers, unless it says   *)
(* it does not know: "installed" and "not_installed" describe the machine, *)
(* and "interrupted" is never said of an operation that is going on.       *)
AnswersTrue ==
  \A i \in Inspectors :
    inspector[i].at = "reprobing" /\ inspector'[i].at = "idle" =>
      /\ inspector'[i].kind = "installed" =>
           record.state = "complete" /\ deployed = record.target
      /\ inspector'[i].kind = "interrupted" =>
           /\ record.state = "applying"
           /\ \A e \in Executors : executor[e].doc.id # record.id
      /\ inspector'[i].kind = "not_installed" /\ record = NoDoc =>
           deployed = NotDeployed

\* Everything above that a reachable state promises.
ImSafe ==
  /\ ImTypeOK /\ WholeOrMarked /\ BaseIsLastComplete /\ RunsConfirmed

\* Everything above that a step promises.
ImStepOK ==
  /\ AsPlanned /\ AnswersTrue
=============================================================================
