------------------------ MODULE MaintenanceTheorems -------------------------
(***************************************************************************)
(* What holds of Maintenance in every reachable state: its invariant, and  *)
(* what follows from it about updates, starts, recovery and the fence.     *)
(***************************************************************************)
EXTENDS MaintenanceWork, MaintenanceTypes, MaintenanceFence

-----------------------------------------------------------------------------

\* The context ends: nothing the invariant speaks of changes.
LEMMA QuietStep ==
  ASSUME Inv, Cancel \/ Closes \/ UNCHANGED vars
  PROVE  Inv'
<1> USE DEF vars, flags, super, work, owning, ops, run
<1>1. /\ pc' = pc /\ ret' = ret /\ kind' = kind /\ worker' = worker /\ client' = client /\ gate' = gate
      /\ token' = token /\ reserved' = reserved /\ recovery' = recovery /\ job' = job /\ stale' = stale
  BY Zenon DEF Cancel, Closes
<1>2. TypeOK'
  <2>0. PlacesTyped /\ OwnTyped /\ StateTyped /\ FlagsTyped /\ OpsTyped
    BY Zenon, TypeSplit DEF Inv, RestTyped
  <2>1. PlacesTyped' /\ OwnTyped'
    BY Zenon, <1>1, <2>0 DEF PlacesTyped, OwnTyped
  <2>2. StateTyped' /\ OpsTyped'
    BY Zenon, <2>0 DEF StateTyped, OpsTyped, Cancel, Closes
  <2>3. FlagsTyped'
    <3>1. CASE Cancel
      BY Zenon, <2>0, <3>1 DEF FlagsTyped, Cancel
    <3>2. CASE Closes
      BY Zenon, <2>0, <3>2 DEF FlagsTyped, Closes
    <3>3. CASE UNCHANGED vars
      BY Zenon, <2>0, <3>3 DEF FlagsTyped
    <3> QED
      BY Zenon, <3>1, <3>2, <3>3
  <2> QED
    BY Zenon, <2>1, <2>2, <2>3 DEF TypeOK, PlacesTyped, OwnTyped, StateTyped, FlagsTyped, OpsTyped
<1>3. PlacesOK'
  BY Zenon, <1>1, LegalKept DEF Inv, PlacesOK
<1>4. TokenOK' /\ GateOK' /\ MonitorOK'
  BY Zenon, <1>1 DEF Inv, TokenOK, GateOK, MonitorOK, LoopStarts
<1>5. OwnersOK'
  BY Zenon, <1>1 DEF Inv, OwnersOK, InStage, Updating
<1>6. UpdateExclusive' /\ UpdateInputsCurrent'
  BY Zenon, <1>1 DEF Inv, UpdateExclusive, UpdateInputsCurrent, ownsCoreUpdate
<1>7. RecoveryOK'
  BY Zenon, <1>1 DEF Inv, RecoveryOK, InStage, HasReported, Reports, Landing
<1> QED
  BY Zenon, <1>2, <1>3, <1>4, <1>5, <1>6, <1>7 DEF Inv

-----------------------------------------------------------------------------
\* The invariant is inductive.

LEMMA TypesAfter == PlacesTyped' /\ RestTyped' => TypeOK'
BY TypeSplit, PTL

LEMMA GoesOnStep ==
  ASSUME Inv, NEW a \in Actors, GoesOn(a)
  PROVE  Inv'
<1>1. PlacesTyped'
  BY Zenon, PlacesStep1, PlacesStep5 DEF GoesOn
<1>2. RestTyped'
  BY Zenon, RestStep1, RestStep4 DEF GoesOn
<1>3. TypeOK'
  BY Zenon, <1>1, <1>2, TypesAfter
<1> QED
  BY Zenon, <1>3, LockAskStep, LockStep, RestoreStep, ObserveStep, MaintainStep,
     SendClosedStep, OwnReceivesStep, IdleReceivesStep, WorkStep, WorkHoldStep, BlockStep,
     AnswerStep, PrepareStep, PreparePublishStep, StartChildStep DEF GoesOn

LEMMA CallerGoesOnStep ==
  ASSUME Inv, NEW c \in Callers,
         CallerGoesOn(c) \/ SendCancelled(c) \/ \E k \in Kinds : doOperation(c, k)
  PROVE  Inv'
<1>1. CASE GoesOn(c)
  BY Zenon, <1>1, GoesOnStep, Names
<1>2. CASE ~GoesOn(c)
  <2>1. PlacesTyped' /\ RestTyped'
    BY Zenon, <1>2, PlacesStep2, RestStep2 DEF CallerGoesOn
  <2>2. TypeOK'
    BY Zenon, <2>1, TypesAfter
  <2> QED
    BY Zenon, <1>2, <2>2, CallerStep1, CallerStep2, MutationBreaksStep, ReserveStep,
       OperationStep, UpdateStep DEF CallerGoesOn
<1> QED
  BY Zenon, <1>1, <1>2

LEMMA LoopGoesOnStep ==
  ASSUME Inv, LoopGoesOn \/ OwnEnds("exit") \/ MonitorGoesOn
  PROVE  Inv'
<1>1. CASE GoesOn("loop") \/ GoesOn("mon")
  BY Zenon, <1>1, GoesOnStep, Names
<1>2. CASE ~(GoesOn("loop") \/ GoesOn("mon"))
  <2>1. PlacesTyped' /\ RestTyped'
    BY Zenon, <1>2, PlacesStep3, PlacesStep4, PlacesStep5, RestStep3, RestStep4, Names DEF
       LoopGoesOn, MonitorGoesOn
  <2>2. TypeOK'
    BY Zenon, <2>1, TypesAfter
  <2> QED
    BY Zenon, <1>2, <2>2, LoopStep, LoopGateStep, LoopUnstartedStep, SpawnMonitorStep,
       JoinStep, MonitorStep DEF LoopGoesOn, MonitorGoesOn
<1> QED
  BY Zenon, <1>1, <1>2

LEMMA InvStep ==
  ASSUME Inv, [Next]_vars
  PROVE  Inv'
<1>1. ASSUME NEW a \in Actors, LockGiveUp(a) PROVE Inv'
  <2>1. PlacesTyped' /\ RestTyped'
    BY Zenon, <1>1, PlacesStep1, RestStep1
  <2>2. TypeOK'
    BY Zenon, <2>1, TypesAfter
  <2> QED
    BY Zenon, <1>1, <2>2, GiveUpStep
<1> QED
  BY Zenon, <1>1, CallerGoesOnStep, LoopGoesOnStep, QuietStep DEF Next, Environment

LEMMA InvInit == Init => Inv
<1> SUFFICES ASSUME Init PROVE Inv
  OBVIOUS
<1>1. /\ pc["loop"] = At("off") /\ pc["mon"] = At("gone") /\ \A c \in Callers : pc[c] = Home
      /\ worker = Nobody /\ client = Nobody /\ reserved = Nobody /\ token = Nobody
      /\ \A c \in Callers : kind[c] = "none"
  BY Zenon, Names DEF Init
<1>2. PlacesTyped
  BY Zenon, PlaceFacts DEF Init, PlacesTyped, Home
<1>3. RestTyped
  <2>1. OwnTyped
    BY Zenon DEF Init, OwnTyped
  <2>2. StateTyped
    BY Zenon DEF Init, StateTyped, NoJob
  <2>3. FlagsTyped
    BY Zenon DEF Init, FlagsTyped
  <2>4. OpsTyped
    BY BudgetAssumption DEF Init, OpsTyped
  <2> QED
    BY Zenon, <2>1, <2>2, <2>3, <2>4 DEF RestTyped
<1>4. TypeOK
  BY Zenon, <1>2, <1>3, TypeSplit
<1>5. PlacesOK
  BY <1>1, Names DEF PlacesOK, Legal, StandsAt, LoopAt, MonAt, CallerAt, Rests, InMaintain, Observing,
        Home, At, Want, Hold, Actors
<1>6. \A a \in Actors : pc[a] \in {At("off"), At("gone"), Home}
  BY Zenon, <1>1 DEF Actors
<1>7. TokenOK
  BY <1>1, <1>6, Names DEF TokenOK, Home, At
<1>8. \A c \in Callers : ~InStage(c)
  BY <1>1, Names DEF InStage, UpdatePlaces, Home, At
<1>9. OwnersOK
  BY Zenon, <1>1, <1>8, Names DEF Init, OwnersOK, NoJob
<1>10. GateOK /\ MonitorOK
  BY <1>1 DEF GateOK, MonitorOK, LoopStarts, InMaintain, Locks, At, Hold
<1>11. UpdateExclusive /\ UpdateInputsCurrent
  BY Zenon, <1>1, <1>8 DEF UpdateExclusive, UpdateInputsCurrent, InStage, UpdatePlaces
<1>12. RecoveryOK
  BY <1>1, <1>6, <1>8 DEF RecoveryOK, Home, At, Hold
<1> QED
  BY Zenon, <1>4, <1>5, <1>7, <1>9, <1>10, <1>11, <1>12 DEF Inv

LEMMA Invariance == Spec => []Inv
  BY InvInit, InvStep, PTL DEF Spec

-----------------------------------------------------------------------------
\* What the invariant says of an update and of starts.

\* Cardinality of a set without two elements, from the function it is defined by.
LEMMA AtMostOne ==
  ASSUME NEW S, \A a, b \in S : a = b
  PROVE  Cardinality(S) <= 1
<1> DEFINE Counts(f) == f = [T \in SUBSET S |-> IF T = {} THEN 0 ELSE 1 + f[T \ {CHOOSE x : x \in T}]]
<1> DEFINE g == [T \in SUBSET S |-> IF T = {} THEN 0 ELSE 1]
<1>1. ASSUME NEW T \in SUBSET S, T # {}
      PROVE  T \ {CHOOSE x : x \in T} = {}
  <2>1. (CHOOSE x : x \in T) \in T
    BY Zenon, <1>1
  <2> QED
    BY Zenon, <2>1
<1>2. Counts(g)
  <2>1. g = [T \in SUBSET S |-> IF T = {} THEN 0 ELSE 1 + g[T \ {CHOOSE x : x \in T}]]
    <3>1. {} \in SUBSET S /\ g[{}] = 0
      OBVIOUS
    <3>2. ASSUME NEW T \in SUBSET S PROVE g[T] = IF T = {} THEN 0 ELSE 1 + g[T \ {CHOOSE x : x \in T}]
      BY <1>1, <3>1
    <3> QED
      BY Zenon, <3>2
  <2> QED
    BY Zenon, <2>1
<1>3. Counts(CHOOSE f : Counts(f))
  BY Zenon, <1>2
<1>4. Cardinality(S) = (CHOOSE f : Counts(f))[S]
  BY Zenon DEF Cardinality
<1> DEFINE h == CHOOSE f : Counts(f)
<1>5. h = [T \in SUBSET S |-> IF T = {} THEN 0 ELSE 1 + h[T \ {CHOOSE x : x \in T}]]
  BY Zenon, <1>3
<1> HIDE DEF h
<1>6. h[{}] = 0
  BY Zenon, <1>5
<1>7. S # {} => h[S] = 1 + h[{}]
  BY Zenon, <1>1, <1>5
<1> QED
  BY <1>4, <1>6, <1>7 DEF h

LEMMA StartsAlone ==
  ASSUME Inv
  PROVE  OneStart
<1> DEFINE S == {a \in Actors : pc[a][1] \in {"ask", "want", "hold"}
                                /\ pc[a][2] \in {"prep1", "prep2", "start"}}
<1>1. ASSUME NEW a \in S PROVE a = worker \/ (a = "loop" /\ worker # "loop" /\ gate = "loop")
  BY Zenon, <1>1, StarterIs DEF Locks
<1>2. ASSUME NEW a \in S, NEW b \in S PROVE a = b
  BY <1>1, <1>2, Names DEF Inv, OwnersOK, TypeOK
<1>3. Cardinality(S) <= 1
  <2> HIDE DEF S
  <2> QED
    BY Zenon, <1>2, AtMostOne
<1> QED
  BY Zenon, <1>3 DEF OneStart

\* While an update is reserved it alone changes state, on inputs nothing outdated, and
\* at most one goroutine is inside Supervisor.start, for any number of callers.
THEOREM UpdatesAreAlone == Spec => []UpdateAlone
<1>1. Inv => UpdateAlone
  BY Zenon, StartsAlone DEF Inv, UpdateAlone
<1> QED
  BY <1>1, Invariance, PTL

\* The one step that makes a process.
LEMMA StartsAre ==
  ASSUME Inv, Next, Starting
  PROVE  \E a \in Actors : StartChild(a)
<1> USE DEF Starting
<1>1. ASSUME NEW a \in Actors, GoesOn(a), ~StartChild(a) PROVE FALSE
  BY Zenon, <1>1 DEF GoesOn, LockAsk, lockMaintenance, RestoreRouting, ObserveHeld,
     Maintain, SendClosed, OwnReceives, IdleReceives, WorkFault, saveCoreSelection,
     publishCoreSelection, ApplyDesiredSystemProxy, blockCoreUpdate, performUpdate,
     AnswerUpdate, PrepareFails, PrepareCapture, PreparePublish, StopsChild, super
<1>2. ASSUME NEW c \in Callers, CallerGoesOn(c), ~GoesOn(c) PROVE FALSE
  BY Zenon, <1>2 DEF CallerGoesOn, MutationSettles, MutationBreaks, SubscriptionBreaks,
     UnlockBroken, markConfigDegraded, enterMutationDegraded, Status, Restart,
     captureCoreUpdateInputs, installCoreUpdate, Reinstall, Return, SupervisorRestart,
     updateOwned, super
<1>3. ASSUME LoopGoesOn \/ OwnEnds("exit"), ~GoesOn("loop") PROVE FALSE
  BY Zenon, <1>3 DEF LoopGoesOn, RunBegins, LoopTop, LoopLeaves, LoopGate, LoopUnstarted,
     SpawnMonitor, OwnEnds, Join, RunEnds, StopsChild, super
<1>4. ASSUME MonitorGoesOn, ~GoesOn("mon") PROVE FALSE
  BY Zenon, <1>4 DEF MonitorGoesOn, MonitorChecks, MonitorSettles, super
<1>5. ASSUME Closes \/ Cancel \/ \E a \in Actors : LockGiveUp(a) PROVE FALSE
  BY Zenon, <1>5 DEF Closes, Cancel, LockGiveUp, super
<1>6. ASSUME NEW c \in Callers, SendCancelled(c) \/ \E k \in Kinds : doOperation(c, k) PROVE FALSE
  BY Zenon, <1>6 DEF SendCancelled, doOperation, super
<1> QED
  BY Zenon, <1>1, <1>2, <1>3, <1>4, <1>5, <1>6, Names DEF Next, Environment

\* Once an update required recovery, a process is made only for a reinstallation.
THEOREM RecoveryAllowsReinstall == Spec => RecoveryStartsOnlyReinstall
<1>1. Inv /\ [Next]_vars => [Starting /\ recovery => worker # Nobody /\ kind[client] = "reinstall"]_vars
  <2> SUFFICES ASSUME Inv, Next, Starting, recovery
               PROVE  worker # Nobody /\ kind[client] = "reinstall"
    OBVIOUS
  <2>1. PICK a \in Actors : StartChild(a)
    BY Zenon, StartsAre
  <2>2. pc[a] = Hold("start")
    BY Zenon, <2>1 DEF StartChild, Holds
  <2> QED
    BY Zenon, <2>2, Names DEF Inv, RecoveryOK
<1> QED
  BY <1>1, Invariance, PTL DEF Spec, RecoveryStartsOnlyReinstall

-----------------------------------------------------------------------------
\* The fence.

LEMMA FenceStep ==
  ASSUME Inv, Fence, "add" \notin Kinds, [Next]_vars
  PROVE  Fence'
<1>1. Inv'
  BY Zenon, InvStep
<1>2. ASSUME NEW a \in Actors, GoesOn(a) PROVE Fence'
  BY Zenon, <1>1, <1>2, FenceStep1, FenceStep2, FenceStep5 DEF GoesOn
<1>3. ASSUME NEW c \in Callers, CallerGoesOn(c) \/ SendCancelled(c) \/ \E k \in Kinds : doOperation(c, k)
      PROVE  Fence'
  BY Zenon, <1>1, <1>2, <1>3, FenceStep3, Names DEF CallerGoesOn
<1>4. ASSUME LoopGoesOn \/ MonitorGoesOn \/ OwnEnds("exit") PROVE Fence'
  BY Zenon, <1>1, <1>2, <1>4, FenceStep4, FenceStep5, Names DEF LoopGoesOn, MonitorGoesOn
<1>5. ASSUME NEW a \in Actors, LockGiveUp(a) PROVE Fence'
  BY Zenon, <1>1, <1>5, FenceStep1
<1> QED
  BY Zenon, <1>1, <1>2, <1>3, <1>4, <1>5, FenceQuiet DEF Next, Environment

LEMMA FenceInit == Init => Fence
  BY Names DEF Init, Fence, FenceOK, NoSelfWait, InMaintain, At

LEMMA FenceInvariance ==
  ASSUME "add" \notin Kinds
  PROVE  Spec => []Fence
<1>1. Inv /\ Fence /\ [Next]_vars => Fence'
  BY Zenon, FenceStep
<1> QED
  BY <1>1, FenceInit, Invariance, PTL DEF Spec

\* Where no subscription is added outside setup, the loop, its monitor and the work of
\* an update never wait in the Maintain that unlock calls, and lockMutation lets no
\* mutation in once a compensation failed.
THEOREM FenceHolds ==
  ASSUME "add" \notin Kinds
  PROVE  Spec => []MutationsFenced
<1>1. Inv /\ Fence => MutationsFenced
  BY Zenon DEF Inv, Fence, MutationsFenced, FenceClosed
<1> QED
  BY <1>1, Invariance, FenceInvariance, PTL

\* There, too, no child is started on a configuration whose rollback failed, however
\* the start and the failing mutation interleave.
THEOREM NoChildAfterBreak ==
  ASSUME "add" \notin Kinds
  PROVE  Spec => NoStartAfterBreak
<1>1. Inv /\ Fence /\ [Next]_vars => [Starting => broken # "config"]_vars
  <2> SUFFICES ASSUME Inv, Fence, Next, Starting PROVE broken # "config"
    OBVIOUS
  <2>1. PICK a \in Actors : StartChild(a)
    BY Zenon, StartsAre
  <2>2. pc[a] = Hold("start")
    BY Zenon, <2>1 DEF StartChild, Holds
  <2> QED
    BY <2>2 DEF Fence, FenceOK, Hold
<1> QED
  BY <1>1, Invariance, FenceInvariance, PTL DEF Spec, NoStartAfterBreak

=============================================================================
