---------------------------- MODULE Maintenance ----------------------------
(***************************************************************************)
(* The mutation fence of internal/runtime and the supervisor it talks to,  *)
(* with a trusted core: the maintenance token every state change holds,    *)
(* the reservation of a core update, the latches mutationDegraded and      *)
(* stopCoreOnUnlock, and Manager.unlock, which stops the core through      *)
(* Supervisor.Maintain when a compensation failed.                         *)
(*                                                                         *)
(* The supervisor's loop and its health monitor take the same token (in    *)
(* PrepareCoreStart, Observe and RestoreRouting), so the token, the start  *)
(* gate, the loop's channels and the join of the monitor wait for each     *)
(* other.  The supervisor itself is modelled in Supervisor, the files of   *)
(* an update in CoreUpdate; here both are reduced to where they stand.     *)
(***************************************************************************)
EXTENDS Naturals, FiniteSets

CONSTANTS
  Callers,   \* goroutines of the control API
  Kinds,     \* the operations they ask for, a subset of AllKinds
  Budget,    \* bound: operations per caller
  Nobody     \* no holder, no owner

AllKinds == {"mutate", "add", "settings", "status", "restart", "update", "reinstall"}

ASSUME KindsAssumption == Kinds \subseteq AllKinds
ASSUME BudgetAssumption == Budget \in Nat
ASSUME NobodyAssumption == Nobody \notin Callers \cup {"loop", "mon"}
ASSUME CallersAssumption == "loop" \notin Callers /\ "mon" \notin Callers

VARIABLES
  token,      \* holder of Manager.maintenance
  gate,       \* holder of Supervisor.startGate
  reserved,   \* owner of Manager.coreUpdate
  recovery,   \* Manager.coreRecovery
  degraded,   \* Manager.mutationDegraded
  stop,       \* Manager.stopCoreOnUnlock
  blocked,    \* Supervisor.blocked
  waiting,    \* Supervisor.waiting
  cancelled,  \* the context of Manager.Run
  closing,    \* Manager.closing
  core,       \* the managed process
  monCancel,  \* the monitor's context
  job,        \* the request the loop serves
  worker,     \* the goroutine running an update's work
  client,     \* the caller whose update it is
  stage,      \* how far the update's work is
  pc,         \* where each goroutine stands: <<place, task>>
  ret,        \* where it goes on after Observe or Maintain
  kind,       \* the operation of each caller
  left,       \* operations each caller may still begin
  stale,      \* inputs captured under the token that are outdated
  broken,     \* history: the worst compensation that failed
  late        \* history: a mutation was let in after that

flags  == <<recovery, degraded, stop, broken, late>>
super  == <<blocked, waiting, core, monCancel, job>>
work   == <<worker, client, stage>>
owning == <<token, gate, reserved>>
ops    == <<kind, left, stale>>
run    == <<cancelled, closing>>
vars   == <<flags, super, work, owning, ops, run, pc, ret>>

Actors == Callers \cup {"loop", "mon"}
NoJob  == [what |-> "none", who |-> Nobody]

At(p)        == <<p, "none">>
Ask(t)       == <<"ask", t>>
Want(t)      == <<"want", t>>
Hold(t)      == <<"hold", t>>
Home         == At("home")
Observe      == Want("observe")

Move(a, p) == pc' = [pc EXCEPT ![a] = p]
Goto(a, p) == Move(a, p) /\ UNCHANGED ret

\* supervisor.Observe, called by a, which goes on at p.
ObserveThen(a, p) == Move(a, Observe) /\ ret' = [ret EXCEPT ![a] = p]

Tasks == {"none", "mutate", "add", "settings", "status", "restart", "capture",
          "reserve", "seize", "broken", "update", "halt", "prep1", "prep2", "start",
          "restore", "save", "publish", "apply", "block", "observe"}
Places == {"home", "ask", "want", "hold", "leave", "mark", "call", "send", "sent", "halt",
           "fault", "saving", "block", "unsound", "finish", "answer", "unstarted",
           "unsafe", "unwell", "healthy", "health", "sick", "gone", "off", "top", "idle",
           "gate", "spawn", "own", "join", "backoff", "end", "done"} \X Tasks

-----------------------------------------------------------------------------
\* The token.

\* lockMutation; every other task only calls lockMaintenance.
Mutating == {"mutate", "add", "settings", "restart", "capture", "reserve",
             "prep1", "prep2", "restore", "save"}

\* PrepareCoreStart takes it too, for a start and not for a change of its own.
Starter == {"prep1", "prep2"}

\* The work of an update runs under its client's context; Observe under none.
ownsCoreUpdate(a, t) ==
  /\ reserved # Nobody /\ t # "observe"
  /\ a = reserved \/ (a = worker /\ client = reserved)

Reserved(a, t) == (reserved # Nobody \/ recovery) /\ ~ownsCoreUpdate(a, t)

\* Mutants of the checks.
RefusesStale(a, t) ==
  \/ closing /\ ~ownsCoreUpdate(a, t)
  \/ t \in Mutating /\ degraded
RefusesNoStart(a, t) ==
  \/ closing /\ ~ownsCoreUpdate(a, t)
  \/ t \in Mutating /\ (Reserved(a, t) \/ (degraded /\ t \notin Starter))

\* The checks made with the token in hand.
Refuses(a, t) ==
  \/ closing /\ ~ownsCoreUpdate(a, t)
  \/ t \in Mutating /\ (Reserved(a, t) \/ degraded)

\* Mutant: the latch is dropped.
unlockSilent(a, p) == token' = Nobody /\ stop' = FALSE /\ Goto(a, p)

\* unlock: the latch is taken before the token is given back, and whoever took
\* it calls Maintain before it goes on.
unlock(a, p) ==
  /\ token' = Nobody
  /\ stop' = FALSE
  /\ IF stop THEN Move(a, At("halt")) /\ ret' = [ret EXCEPT ![a] = p]
             ELSE Goto(a, p)

\* releaseMutation: the latch stays where it is.
releaseMutation(a, p) == token' = Nobody /\ Goto(a, p) /\ UNCHANGED stop

\* Where a goes on when the lock is refused or the step it guards failed.
Failed(a, t) ==
  CASE t = "observe" -> ret[a]
    [] t = "block"   -> At("unsound")
    [] t = "publish" -> At("block")
    [] t = "apply"   -> At("finish")
    [] OTHER -> CASE a = worker -> At("fault")
                  [] a = "loop" /\ a # worker -> At("unstarted")
                  [] a = "mon"  -> At("unwell")
                  [] OTHER      -> At("leave")

\* The first reading of the reservation, before a waits for the token.
LockAsk(a) ==
  /\ pc[a][1] = "ask"
  /\ LET t == pc[a][2] IN
       Goto(a, IF t \in Mutating /\ Reserved(a, t) THEN Failed(a, t) ELSE Want(t))
  /\ UNCHANGED <<flags, super, work, owning, ops, run>>

lockMaintenance(a) ==
  /\ pc[a][1] = "want" /\ token = Nobody
  /\ LET t == pc[a][2] IN
       IF Refuses(a, t)
       THEN unlock(a, Failed(a, t)) /\ UNCHANGED late
       ELSE /\ token' = a /\ Goto(a, Hold(t)) /\ UNCHANGED stop
            /\ late' = (late \/ (t \in Mutating \ Starter /\ broken # "none"))
  /\ UNCHANGED <<super, work, gate, reserved, ops, run, recovery, degraded, broken>>

\* The context under which a waits for the token is done.
MayGiveUp(a, t) ==
  /\ t # "observe"
  /\ a = "loop" /\ worker # "loop" => cancelled
  /\ a = "mon" => monCancel

LockGiveUp(a) ==
  /\ pc[a][1] = "want" /\ MayGiveUp(a, pc[a][2])
  /\ Goto(a, Failed(a, pc[a][2]))
  /\ UNCHANGED <<flags, super, work, owning, ops, run>>

Holds(a, t) == token = a /\ pc[a] = Hold(t)

-----------------------------------------------------------------------------
\* Inputs captured under the token and used after it was given back: the
\* generation an update was prepared for, the generation and epoch of a start.

Starts == {<<a, "start">> : a \in
              {x \in Actors : pc[x] \in {Ask("prep2"), Want("prep2"), Hold("prep2")}}}
Updates == {<<c, "update">> : c \in
              {x \in Callers : kind[x] \in {"update", "reinstall"}}}
Mine(a) == {<<a, "start">>} \cup (IF worker = a THEN {<<client, "update">>} ELSE {})

\* Mutant: the update in flight is marked whether or not there is one.
configGenerationMarks(a) ==
  stale' = stale \cup Starts \cup Updates \cup {<<client, "update">>}
configGenerationMoves(a) == stale' = stale \cup ((Starts \cup Updates) \ Mine(a))
coreEpochMoves(a)        == stale' = stale \cup (Starts \ Mine(a))

-----------------------------------------------------------------------------
\* Operations of the control API.

FirstTask == [mutate |-> "mutate", add |-> "add", settings |-> "settings",
              status |-> "status", restart |-> "restart",
              update |-> "capture", reinstall |-> "seize"]

\* doOperation; a status query has no operation and only takes the token.
doOperation(c, k) ==
  /\ pc[c] = Home /\ left[c] > 0 /\ k \in Kinds
  /\ k # "status" => ~closing
  /\ k \notin {"status", "reinstall"} => ~recovery
  /\ kind' = [kind EXCEPT ![c] = k]
  /\ left' = [left EXCEPT ![c] = @ - 1]
  /\ Goto(c, Ask(FirstTask[k]))
  /\ UNCHANGED <<flags, super, work, owning, run, stale>>

\* A mutation that holds the token commits, or fails and is compensated.
MutationSettles(c) ==
  /\ \E t \in {"mutate", "add", "settings"} : Holds(c, t)
  /\ unlock(c, At("leave"))
  /\ configGenerationMoves(c) \/ UNCHANGED stale
  /\ UNCHANGED <<super, work, gate, reserved, kind, left, run,
                 recovery, degraded, broken, late>>

\* Its compensation fails as well.  Subscription, TUN, egress and logging
\* changes latch both flags with the token in hand ...
MutationBreaks(c) ==
  /\ Holds(c, "mutate") \/ Holds(c, "add")
  /\ degraded' = TRUE /\ stop' = TRUE /\ broken' = "config"
  /\ Goto(c, Hold("broken"))
  /\ UNCHANGED <<super, work, owning, ops, run, recovery, late>>

\* ... commitSubscriptionCandidate outside setup gives the token back first.
SubscriptionBreaks(c) ==
  /\ Holds(c, "add")
  /\ broken' = "config"
  /\ unlock(c, At("mark"))
  /\ UNCHANGED <<super, work, gate, reserved, ops, run, recovery, degraded, late>>

UnlockBroken(c) ==
  /\ Holds(c, "broken")
  /\ unlock(c, At(IF kind[c] = "add" THEN "mark" ELSE "leave"))
  /\ UNCHANGED <<super, work, gate, reserved, ops, run, recovery, degraded, broken, late>>

markConfigDegraded(c) ==
  /\ pc[c] = At("mark")
  /\ degraded' = TRUE /\ stop' = TRUE
  /\ Goto(c, At("leave"))
  /\ UNCHANGED <<super, work, owning, ops, run, recovery, broken, late>>

\* The system proxy, onboarding and routing only close the fence.
enterMutationDegraded(c) ==
  /\ Holds(c, "settings")
  /\ degraded' = TRUE
  /\ broken' = IF broken = "none" THEN "settings" ELSE broken
  /\ unlock(c, At("leave"))
  /\ UNCHANGED <<super, work, gate, reserved, ops, run, recovery, late>>

Status(c) ==
  /\ Holds(c, "status")
  /\ unlock(c, At("leave"))
  /\ UNCHANGED <<super, work, gate, reserved, ops, run, recovery, degraded, broken, late>>

Restart(c) ==
  /\ Holds(c, "restart")
  /\ unlock(c, <<"call", "restart">>)
  /\ UNCHANGED <<super, work, gate, reserved, ops, run, recovery, degraded, broken, late>>

captureCoreUpdateInputs(c) ==
  /\ Holds(c, "capture")
  /\ stale' = stale \ {<<c, "update">>}
  /\ unlock(c, Ask("reserve"))
  /\ UNCHANGED <<super, work, gate, reserved, kind, left, run,
                 recovery, degraded, broken, late>>

\* installCoreUpdate up to its reservation; a reinstall replaces its own.
installCoreUpdate(c) ==
  /\ Holds(c, "reserve")
  /\ \/ /\ <<c, "update">> \notin stale
        /\ reserved' = c
        /\ releaseMutation(c, <<"call", "update">>)
     \/ unlock(c, At("leave")) /\ UNCHANGED reserved
  /\ UNCHANGED <<super, work, gate, ops, run, recovery, degraded, broken, late>>

Reinstall(c) ==
  /\ Holds(c, "seize")
  /\ IF reserved = Nobody
     THEN reserved' = c /\ releaseMutation(c, Ask("capture"))
     ELSE releaseMutation(c, At("leave")) /\ UNCHANGED reserved
  /\ UNCHANGED <<super, work, gate, ops, run, recovery, degraded, broken, late>>

\* The operation returns; a reservation goes with it.
Return(c) ==
  /\ pc[c] = At("leave")
  /\ reserved' = IF reserved = c THEN Nobody ELSE reserved
  /\ kind' = [kind EXCEPT ![c] = "none"]
  /\ stale' = stale \ {<<c, "update">>}
  /\ Goto(c, Home)
  /\ UNCHANGED <<flags, super, work, token, gate, left, run>>

-----------------------------------------------------------------------------
\* Calls of the supervisor.

Active == pc["loop"] \notin {At("off"), At("done")}

\* Supervisor.Maintain as unlock calls it: with the background context and work
\* that only reports a degraded configuration.
Maintain(a) ==
  /\ pc[a] = At("halt") /\ gate = Nobody
  /\ blocked' = (blocked \/ ~Active)
  /\ Goto(a, IF blocked \/ ~Active THEN ret[a] ELSE <<"send", "halt">>)
  /\ UNCHANGED <<flags, waiting, core, monCancel, job, work, owning, ops, run>>

\* Supervisor.Restart takes no gate.
SupervisorRestart(c) ==
  /\ pc[c] = <<"call", "restart">>
  /\ Goto(c, IF blocked \/ ~Active THEN At("leave") ELSE <<"send", "restart">>)
  /\ UNCHANGED <<flags, super, work, owning, ops, run>>

\* The run ended before the loop took the request.  Restart does not look.
SendClosed(a) ==
  /\ pc[a] \in {<<"send", "halt">>, <<"send", "update">>} /\ pc["loop"] = At("done")
  /\ Goto(a, IF pc[a][2] = "halt" THEN ret[a] ELSE At("leave"))
  /\ UNCHANGED <<flags, super, work, owning, ops, run>>

\* The client's context ends: a request not taken yet is withdrawn, a restart
\* under way is left alone, an update under way is waited for.
SendCancelled(c) ==
  /\ pc[c] \in {<<"send", "restart">>, <<"send", "update">>, <<"sent", "restart">>}
  /\ Goto(c, At("leave"))
  /\ UNCHANGED <<flags, super, work, owning, ops, run>>

-----------------------------------------------------------------------------
\* The work of an update: what installCoreUpdate does under the reservation.
\*   trial: start the new core, check it, save the selection, publish it
\*   undo:  save the old selection, start the old core again, publish it
\*   back:  the transaction did not begin, start the old core again

Working(w) == w \in Actors /\ worker = w
WasRunning(w) == w = "loop" /\ ~waiting

\* Where the work stands after BeginUpdate, which may fail.
WorkEntry(reinstall, running) ==
  {[place |-> Ask("prep1"), stage |-> "trial"], [place |-> At("block"), stage |-> "trial"]}
  \cup (IF running THEN {} ELSE {[place |-> Ask("save"), stage |-> "trial"]})
  \cup (IF reinstall THEN {} ELSE
        {[place |-> IF running THEN Ask("prep1") ELSE At("finish"), stage |-> "back"]})

\* Supervisor.Update and Reinstall.  Without a running loop the caller carries
\* out the work itself and keeps the gate.
updateOwned(c) ==
  /\ pc[c] = <<"call", "update">> /\ gate = Nobody
  /\ LET reinstall == kind[c] = "reinstall" IN
       \/ /\ blocked /\ ~reinstall
          /\ Goto(c, At("leave"))
          /\ UNCHANGED <<super, work, gate>>
       \/ /\ ~blocked \/ reinstall
          /\ Active
          /\ Goto(c, <<"send", "update">>)
          /\ UNCHANGED <<super, work, gate>>
       \/ /\ ~blocked \/ reinstall
          /\ ~Active
          /\ gate' = c /\ blocked' = FALSE
          /\ worker' = c /\ client' = c
          /\ \E e \in WorkEntry(reinstall, FALSE) : stage' = e.stage /\ Goto(c, e.place)
          /\ UNCHANGED <<waiting, core, monCancel, job>>
  /\ UNCHANGED <<flags, token, reserved, ops, run>>

WorkFault(w) ==
  /\ Working(w) /\ pc[w] = At("fault")
  /\ \/ /\ core = "trial"                     \* session.Stop fails
        /\ core' = "lost" /\ blocked' = TRUE
        /\ Goto(w, At("block")) /\ UNCHANGED stage
     \/ /\ core' = IF core = "trial" THEN "none" ELSE core
        /\ UNCHANGED blocked
        /\ \/ /\ stage = "trial" /\ kind[client] = "update"
              /\ stage' = "undo" /\ Goto(w, Ask("save"))
           \/ Goto(w, At("block")) /\ UNCHANGED stage
  /\ UNCHANGED <<flags, waiting, monCancel, job, worker, client, owning, ops, run>>

\* saveCoreSelection: the settings file is written after the token is given back.
saveCoreSelection(w) ==
  /\ Working(w)
  /\ \/ Holds(w, "save") /\ releaseMutation(w, At("saving"))
     \/ /\ pc[w] = At("saving") /\ UNCHANGED <<token, stop>>
        /\ \/ Goto(w, At("fault"))
           \/ Goto(w, IF stage = "undo" /\ WasRunning(w) THEN Ask("prep1")
                      ELSE Want("publish"))
  /\ UNCHANGED <<super, work, gate, reserved, ops, run, recovery, degraded, broken, late>>

publishCoreSelection(w) ==
  /\ Working(w) /\ Holds(w, "publish")
  /\ configGenerationMoves(w) \/ UNCHANGED stale
  /\ \/ releaseMutation(w, At("finish"))
     \/ releaseMutation(w, At("block"))
     \/ stage = "trial" /\ core = "trial" /\ releaseMutation(w, Want("apply"))
  /\ UNCHANGED <<super, work, gate, reserved, kind, left, run,
                 recovery, degraded, broken, late>>

\* ApplyDesiredSystemProxy, the last step of a first installation.
ApplyDesiredSystemProxy(w) ==
  /\ Working(w) /\ Holds(w, "apply")
  /\ unlock(w, At("finish"))
  /\ UNCHANGED <<super, work, gate, reserved, ops, run, recovery, degraded, broken, late>>

\* Mutant: the old core is started although its recovery is uncertain.
blockAndRestart(w) ==
  /\ Working(w)
  /\ \/ /\ pc[w] = At("block")
        /\ recovery' = TRUE
        /\ Goto(w, Want("block")) /\ UNCHANGED <<token, stop>>
     \/ /\ Holds(w, "block")
        /\ releaseMutation(w, Ask("prep1")) /\ UNCHANGED recovery
  /\ UNCHANGED <<super, work, gate, reserved, ops, run, degraded, broken, late>>

blockCoreUpdate(w) ==
  /\ Working(w)
  /\ \/ /\ pc[w] = At("block")
        /\ recovery' = TRUE
        /\ Goto(w, Want("block")) /\ UNCHANGED <<token, stop>>
     \/ /\ Holds(w, "block")
        /\ releaseMutation(w, At("unsound")) /\ UNCHANGED recovery
  /\ UNCHANGED <<super, work, gate, reserved, ops, run, degraded, broken, late>>

\* performUpdate after its work: hand the child over, or block the core.
performUpdate(w) ==
  /\ Working(w)
  /\ \/ /\ pc[w] = At("finish")
        /\ core' = IF core = "trial" THEN "pending" ELSE core
        /\ waiting' = (core # "trial")
        /\ recovery' = (recovery /\ ~(stage = "trial" /\ kind[client] = "reinstall"))
        /\ Goto(w, At("answer"))
        /\ UNCHANGED blocked
     \/ /\ pc[w] = At("unsound")
        /\ core' \in IF core = "trial" THEN {"none", "lost"} ELSE {core}
        /\ blocked' = TRUE
        /\ ObserveThen(w, At("answer"))
        /\ UNCHANGED <<waiting, recovery>>
  /\ UNCHANGED <<degraded, stop, broken, late, monCancel, job, work, owning, ops, run>>

\* The client is answered; a caller that worked itself gives the gate back.
AnswerUpdate(w) ==
  /\ Working(w) /\ pc[w] = At("answer")
  /\ pc' = [pc EXCEPT ![w] = At("top"), ![client] = At("leave")]
  /\ gate' = IF gate = client THEN Nobody ELSE gate
  /\ worker' = Nobody /\ client' = Nobody /\ stage' = "none" /\ job' = NoJob
  /\ UNCHANGED <<flags, blocked, waiting, core, monCancel, ret, token, reserved, ops, run>>

-----------------------------------------------------------------------------
\* PrepareCoreStart, by the loop or by the work of an update.

PrepareFails(a) ==
  /\ pc[a] \in {Ask("prep1"), Ask("prep2")}
  /\ Goto(a, Failed(a, "prep1"))
  /\ stale' = stale \ {<<a, "start">>}
  /\ UNCHANGED <<flags, super, work, owning, kind, left, run>>

PrepareCapture(a) ==
  /\ Holds(a, "prep1")
  /\ stale' = (stale \cup (Starts \ Mine(a))) \ {<<a, "start">>}    \* coreEpoch++
  /\ releaseMutation(a, Ask("prep2")) \/ releaseMutation(a, Failed(a, "prep1"))
  /\ UNCHANGED <<super, work, gate, reserved, kind, left, run,
                 recovery, degraded, broken, late>>

\* The inputs are compared under the token, which is kept until the child runs.
PreparePublish(a) ==
  /\ Holds(a, "prep2")
  /\ \/ /\ <<a, "start">> \notin stale
        /\ configGenerationMoves(a)
        /\ Goto(a, Hold("start"))
        /\ UNCHANGED <<token, stop, degraded, broken>>
     \/ /\ releaseMutation(a, Failed(a, "prep2"))
        /\ stale' = stale \ {<<a, "start">>}
        /\ UNCHANGED <<degraded, broken>>
     \/ /\ <<a, "start">> \notin stale                     \* Publish could not be undone
        /\ degraded' = TRUE
        /\ broken' = IF broken = "none" THEN "settings" ELSE broken
        /\ releaseMutation(a, IF a = worker THEN At("fault") ELSE At("unsafe"))
        /\ UNCHANGED stale
  /\ UNCHANGED <<super, work, gate, reserved, kind, left, run, recovery, late>>

\* Supervisor.start: the release runs once the child was started or was not.
StartChild(a) ==
  /\ Holds(a, "start")
  /\ token' = Nobody
  /\ \/ /\ a = worker
        /\ core' = "trial" /\ Goto(a, Ask("restore"))
        /\ UNCHANGED gate
     \/ /\ a # worker
        /\ core' = "owned" /\ ObserveThen(a, At("spawn"))
        /\ gate' = Nobody
     \/ /\ Goto(a, Failed(a, "prep2"))
        /\ UNCHANGED <<gate, core>>
  /\ UNCHANGED <<flags, blocked, waiting, monCancel, job, work, reserved, ops, run>>

\* RestoreRouting, by the health check of the monitor or of a trial.
Restored(a) ==
  IF a = worker
  THEN CASE stage = "trial" -> Ask("save")
         [] stage = "undo"  -> Want("publish")
         [] OTHER           -> At("finish")
  ELSE At("healthy")

RestoreRouting(a) ==
  /\ Holds(a, "restore")
  /\ \/ /\ unlock(a, Restored(a)) \/ unlock(a, Failed(a, "restore"))
        /\ configGenerationMoves(a) \/ UNCHANGED stale
        /\ UNCHANGED <<degraded, broken>>
     \/ /\ degraded' = TRUE
        /\ broken' = IF broken = "none" THEN "settings" ELSE broken
        /\ unlock(a, Failed(a, "restore"))
        /\ UNCHANGED stale
  /\ UNCHANGED <<super, work, gate, reserved, kind, left, run, recovery, late>>

ObserveHeld(a) ==
  /\ Holds(a, "observe")
  /\ coreEpochMoves(a)
  /\ unlock(a, ret[a])
  /\ UNCHANGED <<super, work, gate, reserved, kind, left, run,
                 recovery, degraded, broken, late>>

-----------------------------------------------------------------------------
\* The supervisor's loop.

Loop == pc["loop"]

RunBegins ==
  /\ Loop = At("off")
  /\ Goto("loop", At("top"))
  /\ UNCHANGED <<flags, super, work, owning, ops, run>>

LoopTop ==
  /\ Loop = At("top")
  /\ IF cancelled THEN ObserveThen("loop", At("end"))
     ELSE Goto("loop", At(IF blocked \/ waiting THEN "idle" ELSE "gate"))
  /\ UNCHANGED <<flags, super, work, owning, ops, run>>

LoopLeaves ==
  /\ \/ Loop = At("idle") /\ ~cancelled /\ ~blocked /\ ~waiting /\ Goto("loop", At("top"))
     \/ Loop \in {At("idle"), At("gate")} /\ cancelled /\ Goto("loop", At("end"))
     \/ Loop = At("backoff") /\ Goto("loop", At("top"))
     \/ Loop = At("backoff") /\ cancelled /\ ObserveThen("loop", At("end"))
  /\ UNCHANGED <<flags, super, work, owning, ops, run>>

LoopGate ==
  /\ Loop = At("gate") /\ gate = Nobody
  /\ \/ /\ cancelled \/ blocked \/ (waiting /\ core # "pending")
        /\ Goto("loop", At("top"))
        /\ UNCHANGED <<gate, core>>
     \/ /\ ~cancelled /\ ~blocked /\ core = "pending"
        /\ core' = "owned" /\ ObserveThen("loop", At("spawn"))
        /\ UNCHANGED gate
     \/ /\ ~cancelled /\ ~blocked /\ ~waiting /\ core # "pending"
        /\ gate' = "loop" /\ Goto("loop", Ask("prep1"))
        /\ UNCHANGED core
  /\ UNCHANGED <<flags, blocked, waiting, monCancel, job, work, token, reserved, ops, run>>

\* Run after a start that failed; "unsafe" if its recovery could not be confirmed.
LoopUnstarted ==
  /\ Loop \in {At("unstarted"), At("unsafe")}
  /\ gate' = Nobody
  /\ blocked' = (blocked \/ Loop = At("unsafe"))
  /\ CASE Loop = At("unsafe") -> ObserveThen("loop", At("top"))
       [] OTHER -> IF blocked THEN Goto("loop", At("top"))
                   ELSE ObserveThen("loop", At("backoff"))
  /\ UNCHANGED <<flags, waiting, core, monCancel, job, work, token, reserved, ops, run>>

\* runOwnedChild: the monitor runs beside the child.
SpawnMonitor ==
  /\ Loop = At("spawn")
  /\ pc' = [pc EXCEPT !["loop"] = At("own"), !["mon"] = At("health")]
  /\ monCancel' = FALSE
  /\ UNCHANGED <<flags, blocked, waiting, core, job, work, owning, ops, run, ret>>

\* The child is stopped, which may fail, and the monitor is told to end.
StopsChild(what, who) ==
  /\ job' = [what |-> what, who |-> who]
  /\ monCancel' = TRUE
  /\ \E sure \in BOOLEAN :
       /\ core' = IF sure THEN "none" ELSE "lost"
       /\ blocked' = (blocked \/ ~sure)

\* request <- s.update, s.maintain or s.restart, while a child is owned.
OwnReceives(a) ==
  /\ Loop = At("own") /\ pc[a][1] = "send"
  /\ StopsChild(pc[a][2], a)
  /\ pc' = [pc EXCEPT ![a] = <<"sent", pc[a][2]>>, !["loop"] = At("join")]
  /\ UNCHANGED <<flags, waiting, work, owning, ops, run, ret>>

OwnEnds(why) ==
  /\ Loop = At("own")
  /\ why = "ctx" => cancelled
  /\ why = "sick" => pc["mon"] = At("sick")
  /\ StopsChild(why, Nobody)
  /\ Goto("loop", At("join"))
  /\ UNCHANGED <<flags, waiting, work, owning, ops, run>>

\* A request is answered: where its sender goes on.
Answered(a, what) == IF what = "halt" THEN ret[a] ELSE At("leave")

\* finishMonitor, then what the request asks for.
Join ==
  /\ Loop = At("join") /\ pc["mon"] \in {At("gone"), At("sick")}
  /\ job' = NoJob
  /\ LET a == job.who  w == job.what IN
       \/ /\ w = "update" /\ core # "lost"
          /\ worker' = "loop" /\ client' = a
          /\ \E e \in WorkEntry(kind[a] = "reinstall", TRUE) :
               stage' = e.stage /\ Goto("loop", e.place)
          /\ UNCHANGED blocked
       \/ /\ w \in {"halt", "restart"} \/ (w = "update" /\ core = "lost")
          /\ blocked' = (blocked \/ w = "halt")
          /\ pc' = [pc EXCEPT !["loop"] = At("top"),
                      ![a] = IF @ = <<"sent", w>> THEN Answered(a, w) ELSE @]
          /\ UNCHANGED <<work, ret>>
       \/ /\ w \in {"ctx", "exit", "sick"}
          /\ IF cancelled \/ blocked THEN Goto("loop", At("top"))
             ELSE ObserveThen("loop", At("backoff"))
          /\ UNCHANGED <<blocked, work>>
  /\ UNCHANGED <<flags, waiting, core, monCancel, owning, ops, run>>

\* The same requests without a child: in the backoff, and in the idle loop,
\* which rejects what it may not do.
IdleReceives(a) ==
  /\ Loop \in {At("backoff"), At("idle")} /\ pc[a][1] = "send"
  /\ LET w == pc[a][2]
         allowed == Loop = At("backoff") \/ ~blocked \/ (w = "update" /\ kind[a] = "reinstall")
     IN \/ /\ w = "update" /\ allowed
           /\ worker' = "loop" /\ client' = a
           /\ blocked' = (blocked /\ Loop = At("backoff"))
           /\ \E e \in WorkEntry(kind[a] = "reinstall", ~waiting) :
                /\ stage' = e.stage
                /\ pc' = [pc EXCEPT ![a] = <<"sent", w>>, !["loop"] = e.place]
        \/ /\ w # "update" \/ ~allowed
           /\ blocked' = (blocked \/ (w = "halt" /\ Loop = At("backoff")))
           /\ pc' = [pc EXCEPT !["loop"] = At("top"), ![a] = Answered(a, w)]
           /\ UNCHANGED work
  /\ UNCHANGED <<flags, waiting, core, monCancel, job, owning, ops, run, ret>>

\* The deferred end of Run.
RunEnds ==
  /\ Loop = At("end") /\ gate = Nobody
  /\ core' \in IF core = "pending" THEN {"none", "lost"} ELSE {core}
  /\ blocked' = (blocked \/ (core' = "lost" /\ core = "pending"))
  /\ Goto("loop", At("done"))
  /\ UNCHANGED <<flags, waiting, monCancel, job, work, owning, ops, run>>

-----------------------------------------------------------------------------
\* The monitor.

MonitorChecks ==
  /\ pc["mon"] = At("health")
  /\ \/ monCancel /\ Goto("mon", At("gone"))
     \/ ~monCancel /\ ~closing /\ ~recovery /\ Goto("mon", Ask("restore"))
     \/ ~monCancel /\ Goto("mon", At("unwell"))
  /\ UNCHANGED <<flags, super, work, owning, ops, run>>

\* The first check that succeeds is published, the third that fails ends it.
MonitorSettles ==
  /\ \/ /\ pc["mon"] = At("healthy")
        /\ Goto("mon", At("health")) \/ ObserveThen("mon", At("health"))
     \/ /\ pc["mon"] = At("unwell")
        /\ Goto("mon", At("health")) \/ Goto("mon", At("sick"))
  /\ UNCHANGED <<flags, super, work, owning, ops, run>>

-----------------------------------------------------------------------------
Cancel ==
  /\ ~cancelled /\ cancelled' = TRUE
  /\ UNCHANGED <<flags, super, work, owning, ops, pc, ret, closing>>

\* The goroutine of Manager.Run that watches the context.
Closes ==
  /\ cancelled /\ ~closing /\ closing' = TRUE
  /\ UNCHANGED <<flags, super, work, owning, ops, pc, ret, cancelled>>

Init ==
  /\ token = Nobody /\ gate = Nobody /\ reserved = Nobody
  /\ recovery \in BOOLEAN /\ waiting \in BOOLEAN /\ (recovery => waiting)
  /\ degraded = FALSE /\ stop = FALSE /\ blocked = FALSE
  /\ cancelled = FALSE /\ closing = FALSE /\ monCancel = FALSE
  /\ core = "none" /\ job = NoJob
  /\ worker = Nobody /\ client = Nobody /\ stage = "none"
  /\ pc = [a \in Actors |-> CASE a = "loop" -> At("off")
                              [] a = "mon"  -> At("gone")
                              [] OTHER      -> Home]
  /\ ret = [a \in Actors |-> Home]
  /\ kind = [c \in Callers |-> "none"]
  /\ left = [c \in Callers |-> Budget]
  /\ stale = {} /\ broken = "none" /\ late = FALSE

\* What a goroutine does once it is let: its own steps, and those for which it
\* waits for the token, for the gate or for the loop to take its request.
GoesOn(a) ==
  \/ LockAsk(a) \/ lockMaintenance(a) \/ RestoreRouting(a) \/ ObserveHeld(a)
  \/ Maintain(a) \/ SendClosed(a) \/ OwnReceives(a) \/ IdleReceives(a)
  \/ WorkFault(a) \/ saveCoreSelection(a) \/ publishCoreSelection(a)
  \/ ApplyDesiredSystemProxy(a) \/ blockCoreUpdate(a) \/ performUpdate(a) \/ AnswerUpdate(a)
  \/ PrepareFails(a) \/ PrepareCapture(a) \/ PreparePublish(a) \/ StartChild(a)

CallerGoesOn(c) ==
  \/ GoesOn(c)
  \/ MutationSettles(c) \/ MutationBreaks(c) \/ SubscriptionBreaks(c)
  \/ UnlockBroken(c) \/ markConfigDegraded(c) \/ enterMutationDegraded(c)
  \/ Status(c) \/ Restart(c) \/ captureCoreUpdateInputs(c) \/ installCoreUpdate(c)
  \/ Reinstall(c) \/ Return(c) \/ SupervisorRestart(c) \/ updateOwned(c)

LoopGoesOn ==
  \/ GoesOn("loop")
  \/ RunBegins \/ LoopTop \/ LoopLeaves \/ LoopGate \/ LoopUnstarted \/ SpawnMonitor
  \/ OwnEnds("ctx") \/ OwnEnds("sick") \/ Join \/ RunEnds

MonitorGoesOn == GoesOn("mon") \/ MonitorChecks \/ MonitorSettles

\* What the world may do and need not: clients ask and give up, the child exits,
\* the daemon is told to stop.
Environment ==
  \/ \E c \in Callers : SendCancelled(c) \/ \E k \in Kinds : doOperation(c, k)
  \/ \E a \in Actors : LockGiveUp(a)
  \/ OwnEnds("exit") \/ Cancel

Next ==
  \/ \E c \in Callers : CallerGoesOn(c)
  \/ LoopGoesOn \/ MonitorGoesOn \/ Closes \/ Environment

Spec == Init /\ [][Next]_vars

\* Goroutines go on.  Strong fairness, because one that waits for the token, the
\* gate or the loop is served in turn: a Go channel queues its receivers, and
\* select chooses among its ready cases at random.
Fairness ==
  /\ \A c \in Callers : SF_vars(CallerGoesOn(c))
  /\ SF_vars(LoopGoesOn) /\ SF_vars(MonitorGoesOn) /\ WF_vars(Closes)

FairSpec == Spec /\ Fairness

-----------------------------------------------------------------------------
\* Every variable keeps the kind of value its declaration names.
TypeOK ==
  /\ token \in Actors \cup {Nobody}
  /\ gate \in Callers \cup {"loop", Nobody}
  /\ reserved \in Callers \cup {Nobody}
  /\ {recovery, degraded, stop, late, blocked, waiting, cancelled, closing, monCancel}
        \subseteq BOOLEAN
  /\ core \in {"none", "owned", "trial", "pending", "lost"}
  /\ job \in [what : {"none", "halt", "restart", "update", "ctx", "exit", "sick"},
              who : Actors \cup {Nobody}]
  /\ worker \in Callers \cup {"loop", Nobody}
  /\ client \in Callers \cup {Nobody}
  /\ stage \in {"none", "trial", "undo", "back"}
  /\ pc \in [Actors -> Places] /\ ret \in [Actors -> Places]
  /\ kind \in [Callers -> Kinds \cup {"none"}]
  /\ left \in [Callers -> 0..Budget]
  /\ stale \subseteq Actors \X {"start", "update"}
  /\ broken \in {"none", "settings", "config"}

\* Where a goroutine stands in the Supervisor.Maintain that unlock calls.
InMaintain == {At("halt"), <<"send", "halt">>, <<"sent", "halt">>}

\* The loop, its monitor and the work of an update never stand in a call of
\* Supervisor.Maintain: each of them is what that call waits for.  unlock makes
\* the call for whoever gives the token back, so this rests on the latch being
\* set and taken by the same holder of the token.
NoSelfWait ==
  /\ pc["loop"] \notin InMaintain /\ pc["mon"] \notin InMaintain
  /\ worker # Nobody => pc[worker] \notin InMaintain

\* Once the compensation of a mutation failed, lockMutation lets no later mutation
\* in, one that was already waiting for the token included.
FenceClosed == ~late

\* The token and the latch: nobody waits for itself, and a broken state is fenced.
MutationsFenced == TypeOK /\ NoSelfWait /\ FenceClosed

\* While installCoreUpdate holds its reservation, lockMutation gives the token to
\* nobody but the update's owner and its work, whatever was queued before.
UpdateExclusive ==
  reserved # Nobody /\ token # Nobody /\ pc[token][1] = "hold" /\ pc[token][2] \in Mutating
    => ownsCoreUpdate(token, pc[token][2])

\* From the reservation on, the generation installCoreUpdate was prepared for is
\* the current one until the update itself moves it, although the token is given
\* back between the capture of the inputs, the reservation and the work.
UpdateInputsCurrent ==
  \A c \in Callers :
    pc[c] \in {<<"call", "update">>, <<"send", "update">>, <<"sent", "update">>} \/ client = c
      => <<c, "update">> \notin stale

\* At most one goroutine is inside Supervisor.start, from PrepareCoreStart to the
\* running child: the loop, its update and a caller that updates without a loop
\* exclude each other through the gate.
OneStart ==
  Cardinality({a \in Actors :
    pc[a][1] \in {"ask", "want", "hold"} /\ pc[a][2] \in {"prep1", "prep2", "start"}}) <= 1

\* An update works alone, on the inputs it captured, and one core is started at a time.
UpdateAlone == UpdateExclusive /\ UpdateInputsCurrent /\ OneStart

\* A step of Supervisor.start that makes a process.
Starting == core' # core /\ (core' = "trial" \/ (core' = "owned" /\ core # "pending"))

\* No child is started on a configuration whose rollback failed: PrepareCoreStart
\* keeps the token until the child runs and takes it only while not degraded.
NoStartAfterBreak == [][Starting => broken # "config"]_vars

\* After blockCoreUpdate required recovery, only a Reinstall starts a core.
RecoveryStartsOnlyReinstall ==
  [][Starting /\ recovery => worker # Nobody /\ kind[client] = "reinstall"]_vars

\* After a configuration could not be rolled back, the Maintain of unlock stops the
\* core and it stays stopped, whatever the loop was doing meanwhile.
CoreStops == broken = "config" ~> [](core \in {"none", "lost"})

\* Every operation of the control API returns; Supervisor.Restart may outwait a run that ended under it.
OperationsReturn ==
  \A c \in Callers :
    pc[c] # Home ~> pc[c] = Home \/ (pc[c] = <<"send", "restart">> /\ pc["loop"] = At("done"))

\* A cancelled Supervisor.Run ends: nobody waits for somebody who waits for the loop.
ShutdownCompletes == cancelled ~> pc["loop"] = At("done")

\* Token, gate, channels and joins form no cycle: broken cores stop, operations return,
\* and a cancelled run ends.
MaintenanceProgress == CoreStops /\ OperationsReturn /\ ShutdownCompletes
=============================================================================
