-------------------------- MODULE MaintenanceTypes --------------------------
(***************************************************************************)
(* Every step of Maintenance keeps the types of its variables.             *)
(***************************************************************************)
EXTENDS MaintenanceProofs

-----------------------------------------------------------------------------

LEMMA MovesTyped ==
  ASSUME TypeOK, NEW a \in Actors, NEW p \in Places,
         Goto(a, p) \/ ObserveThen(a, p) \/ unlock(a, p) \/ releaseMutation(a, p)
  PROVE  PlacesTyped'
<1>1. Observe \in Places /\ At("halt") \in Places
  BY Zenon, PlaceFacts DEF Observe
<1>2. ASSUME NEW q \in Places, Move(a, q) PROVE pc' \in [Actors -> Places]
  BY Zenon, <1>2 DEF Move, TypeOK
<1>3. ret' = ret \/ ret' = [ret EXCEPT ![a] = p] => ret' \in [Actors -> Places]
  BY Zenon DEF TypeOK
<1>4. CASE Goto(a, p) \/ releaseMutation(a, p)
  BY Zenon, <1>2, <1>3, <1>4 DEF Goto, releaseMutation, PlacesTyped
<1>5. CASE ObserveThen(a, p)
  BY Zenon, <1>1, <1>2, <1>3, <1>5 DEF ObserveThen, PlacesTyped
<1>6. CASE unlock(a, p)
  BY Zenon, <1>1, <1>2, <1>3, <1>6 DEF unlock, Goto, PlacesTyped
<1> QED
  BY Zenon, <1>4, <1>5, <1>6

LEMMA PlacesStep1 ==
  ASSUME Inv, NEW a \in Actors,
         \/ LockAsk(a) \/ lockMaintenance(a) \/ RestoreRouting(a) \/ ObserveHeld(a)
         \/ Maintain(a) \/ SendClosed(a)
         \/ WorkFault(a) \/ saveCoreSelection(a) \/ publishCoreSelection(a)
         \/ ApplyDesiredSystemProxy(a) \/ blockCoreUpdate(a) \/ performUpdate(a)
         \/ PrepareFails(a) \/ PrepareCapture(a) \/ PreparePublish(a) \/ StartChild(a) \/ LockGiveUp(a)
  PROVE  PlacesTyped'
<1> DEFINE F(p) == Goto(a, p) \/ ObserveThen(a, p) \/ unlock(a, p) \/ releaseMutation(a, p)
<1> SUFFICES \E p \in Places : F(p)
  BY Zenon, MovesTyped DEF Inv
<1>1. /\ \A t : Failed(a, t) \in Places
      /\ ret[a] \in Places /\ Want(pc[a][2]) \in Places /\ Hold(pc[a][2]) \in Places
  BY Zenon, FailedTyped, PlaceFacts DEF Inv
<1>2. CASE LockAsk(a)
  BY Zenon, <1>1, <1>2 DEF LockAsk
<1>3. CASE lockMaintenance(a)
  BY Zenon, <1>1, <1>3 DEF lockMaintenance
<1>4. CASE RestoreRouting(a)
  <2>1. Restored(a) \in Places
    BY Zenon, PlaceFacts DEF Restored
  <2> QED
    BY Zenon, <1>1, <1>4, <2>1 DEF RestoreRouting
<1>5. CASE ObserveHeld(a) \/ PrepareFails(a) \/ LockGiveUp(a)
  BY Zenon, <1>1, <1>5 DEF ObserveHeld, PrepareFails, LockGiveUp
<1>6. CASE Maintain(a) \/ SendClosed(a)
  BY Zenon, <1>1, <1>6, PlaceFacts DEF Maintain, SendClosed
<1>7. CASE WorkFault(a) \/ saveCoreSelection(a)
  BY Zenon, <1>7, PlaceFacts DEF WorkFault, saveCoreSelection
<1>8. CASE publishCoreSelection(a) \/ ApplyDesiredSystemProxy(a)
  BY Zenon, <1>8, PlaceFacts DEF publishCoreSelection, ApplyDesiredSystemProxy
<1>9. CASE blockCoreUpdate(a) \/ performUpdate(a)
  BY Zenon, <1>9, PlaceFacts DEF blockCoreUpdate, performUpdate
<1>10. CASE PrepareCapture(a) \/ PreparePublish(a) \/ StartChild(a)
  BY Zenon, <1>1, <1>10, PlaceFacts DEF PrepareCapture, PreparePublish, StartChild
<1> QED
  BY Zenon, <1>2, <1>3, <1>4, <1>5, <1>6, <1>7, <1>8, <1>9, <1>10

LEMMA PlacesStep2 ==
  ASSUME Inv, NEW c \in Callers,
         \/ MutationSettles(c) \/ MutationBreaks(c) \/ SubscriptionBreaks(c)
         \/ UnlockBroken(c) \/ markConfigDegraded(c) \/ enterMutationDegraded(c)
         \/ Status(c) \/ Restart(c) \/ captureCoreUpdateInputs(c) \/ installCoreUpdate(c)
         \/ Reinstall(c) \/ Return(c) \/ SupervisorRestart(c) \/ updateOwned(c) \/ SendCancelled(c)
         \/ \E k \in Kinds : doOperation(c, k)
  PROVE  PlacesTyped'
<1> DEFINE F(p) == Goto(c, p) \/ ObserveThen(c, p) \/ unlock(c, p) \/ releaseMutation(c, p)
<1> SUFFICES \E p \in Places : F(p)
  BY Zenon, MovesTyped, Names DEF Inv
<1>1. CASE MutationSettles(c) \/ MutationBreaks(c) \/ SubscriptionBreaks(c)
  BY Zenon, <1>1, PlaceFacts DEF MutationSettles, MutationBreaks, SubscriptionBreaks
<1>2. CASE UnlockBroken(c) \/ markConfigDegraded(c) \/ enterMutationDegraded(c)
  BY Zenon, <1>2, PlaceFacts DEF UnlockBroken, markConfigDegraded, enterMutationDegraded
<1>3. CASE Status(c) \/ Restart(c) \/ captureCoreUpdateInputs(c) \/ installCoreUpdate(c)
  BY Zenon, <1>3, PlaceFacts DEF Status, Restart, captureCoreUpdateInputs,
     installCoreUpdate
<1>4. CASE Reinstall(c) \/ Return(c) \/ SupervisorRestart(c) \/ SendCancelled(c)
  BY Zenon, <1>4, PlaceFacts DEF Reinstall, Return, SupervisorRestart, SendCancelled, Home
<1>5. CASE updateOwned(c)
  <2>1. \A u \in BOOLEAN : \A e \in WorkEntry(u, FALSE) : e.place \in Places
    BY Zenon, EntryPlace, PlaceFacts
  <2> QED
    BY Zenon, <1>5, <2>1, PlaceFacts DEF updateOwned
<1>6. CASE \E k \in Kinds : doOperation(c, k)
  <2>1. \A k \in Kinds : FirstTask[k] \in Tasks
    BY KindsAssumption, PlaceFacts DEF AllKinds, FirstTask
  <2> QED
    BY Zenon, <1>6, <2>1, PlaceFacts DEF doOperation
<1> QED
  BY Zenon, <1>1, <1>2, <1>3, <1>4, <1>5, <1>6

LEMMA PlacesStep3 ==
  ASSUME Inv,
         \/ RunBegins \/ LoopTop \/ LoopLeaves \/ LoopGate \/ LoopUnstarted \/ RunEnds
         \/ \E w \in {"ctx", "sick", "exit"} : OwnEnds(w)
  PROVE  PlacesTyped'
<1> DEFINE F(p) == Goto("loop", p) \/ ObserveThen("loop", p)
<1> SUFFICES \E p \in Places : F(p)
  BY Zenon, MovesTyped, Names DEF Inv
<1>1. CASE RunBegins \/ LoopTop \/ LoopLeaves
  BY Zenon, <1>1, PlaceFacts DEF RunBegins, LoopTop, LoopLeaves
<1>2. CASE LoopGate \/ LoopUnstarted
  BY Zenon, <1>2, PlaceFacts DEF LoopGate, LoopUnstarted
<1>3. CASE RunEnds \/ \E w \in {"ctx", "sick", "exit"} : OwnEnds(w)
  BY Zenon, <1>3, PlaceFacts DEF RunEnds, OwnEnds
<1> QED
  BY Zenon, <1>1, <1>2, <1>3

LEMMA PlacesStep4 ==
  ASSUME Inv, MonitorChecks \/ MonitorSettles
  PROVE  PlacesTyped'
<1> DEFINE F(p) == Goto("mon", p) \/ ObserveThen("mon", p)
<1> SUFFICES \E p \in Places : F(p)
  BY Zenon, MovesTyped, Names DEF Inv
<1> QED
  BY Zenon, PlaceFacts DEF MonitorChecks, MonitorSettles

\* Two goroutines move at once.
LEMMA PairTyped ==
  ASSUME TypeOK, NEW a, NEW b, NEW p \in Places, NEW q \in Places, ret' = ret,
         pc' = [pc EXCEPT ![a] = p, ![b] = q]
  PROVE  PlacesTyped'
  BY Zenon DEF TypeOK, PlacesTyped

LEMMA PlacesStep5 ==
  ASSUME Inv, NEW a \in Actors,
         OwnReceives(a) \/ IdleReceives(a) \/ AnswerUpdate(a) \/ Join \/ SpawnMonitor
  PROVE  PlacesTyped'
<1>1. \A u, v \in BOOLEAN : \A e \in WorkEntry(u, v) : e.place \in Places
  BY Zenon, EntryPlace, PlaceFacts
<1>2. \A x \in Actors : \A w : Answered(x, w) \in Places
  BY Zenon, FailedTyped, PlaceFacts DEF Answered, Inv
<1>3. pc[a][2] \in Tasks /\ TypeOK
  BY Zenon, FailedTyped DEF Inv
<1>4. CASE SpawnMonitor
  BY Zenon, <1>3, <1>4, PlaceFacts, PairTyped DEF SpawnMonitor
<1>5. CASE OwnReceives(a)
  BY Zenon, <1>3, <1>5, PlaceFacts, PairTyped DEF OwnReceives
<1>6. CASE AnswerUpdate(a)
  BY Zenon, <1>3, <1>6, PlaceFacts, PairTyped DEF AnswerUpdate
<1>7. CASE IdleReceives(a)
  <2>1. waiting \in BOOLEAN
    BY Zenon DEF Inv, TypeOK
  <2>2. \/ pc' = [pc EXCEPT !["loop"] = At("top"), ![a] = Answered(a, pc[a][2])]
        \/ \E e \in WorkEntry(kind[a] = "reinstall", ~waiting) :
              pc' = [pc EXCEPT ![a] = <<"sent", pc[a][2]>>, !["loop"] = e.place]
    BY Zenon, <1>7 DEF IdleReceives
  <2>3. ret' = ret
    BY Zenon, <1>7 DEF IdleReceives
  <2>4. At("top") \in Places /\ <<"sent", pc[a][2]>> \in Places
    BY Zenon, <1>3, PlaceFacts
  <2>5. CASE pc' = [pc EXCEPT !["loop"] = At("top"), ![a] = Answered(a, pc[a][2])]
    BY Zenon, <1>2, <1>3, <2>3, <2>4, <2>5, PairTyped
  <2>6. ASSUME NEW e \in WorkEntry(kind[a] = "reinstall", ~waiting),
               pc' = [pc EXCEPT ![a] = <<"sent", pc[a][2]>>, !["loop"] = e.place]
        PROVE  PlacesTyped'
    <3>1. e.place \in Places
      BY Zenon, <1>1, <2>1
    <3> QED
      BY Zenon, <1>3, <2>3, <2>4, <2>6, <3>1, PairTyped
  <2> QED
    BY Zenon, <2>2, <2>5, <2>6
<1>8. CASE Join
  <2>1. CASE Goto("loop", At("top")) \/ ObserveThen("loop", At("backoff"))
    BY Zenon, <1>3, <2>1, PlaceFacts, MovesTyped, Names
  <2>2. CASE \E e \in WorkEntry(kind[job.who] = "reinstall", TRUE) : Goto("loop", e.place)
    BY Zenon, <1>1, <1>3, <2>2, MovesTyped, Names
  <2>3. CASE /\ pc' = [pc EXCEPT !["loop"] = At("top"),
                      ![job.who] = IF @ = <<"sent", job.what>> THEN Answered(job.who, job.what) ELSE @]
             /\ ret' = ret
    <3>1. At("top") \in Places
      BY Zenon, PlaceFacts
    <3> QED
      BY Zenon, <1>2, <1>3, <2>3, <3>1 DEF TypeOK, PlacesTyped
  <2> QED
    BY Zenon, <1>8, <2>1, <2>2, <2>3 DEF Join
<1> QED
  BY Zenon, <1>4, <1>5, <1>6, <1>7, <1>8

OwnTyped ==
  /\ token \in Actors \cup {Nobody}
  /\ gate \in Callers \cup {"loop", Nobody}
  /\ reserved \in Callers \cup {Nobody}
  /\ worker \in Callers \cup {"loop", Nobody}
  /\ client \in Callers \cup {Nobody}

StateTyped ==
  /\ core \in {"none", "owned", "trial", "pending", "lost"}
  /\ job \in [what : {"none", "halt", "restart", "update", "ctx", "exit", "sick"},
              who : Actors \cup {Nobody}]
  /\ stage \in {"none", "trial", "undo", "back"}
  /\ broken \in {"none", "settings", "config"}

FlagsTyped ==
  /\ recovery \in BOOLEAN /\ degraded \in BOOLEAN /\ stop \in BOOLEAN /\ late \in BOOLEAN
  /\ blocked \in BOOLEAN /\ waiting \in BOOLEAN /\ cancelled \in BOOLEAN
  /\ closing \in BOOLEAN /\ monCancel \in BOOLEAN

OpsTyped ==
  /\ kind \in [Callers -> Kinds \cup {"none"}]
  /\ left \in [Callers -> 0..Budget]
  /\ stale \subseteq Actors \X {"start", "update"}

RestTyped == OwnTyped /\ StateTyped /\ FlagsTyped /\ OpsTyped

LEMMA QuietFlags ==
  ASSUME FlagsTyped, flags' = flags, super' = super, run' = run
  PROVE  FlagsTyped'
BY Zenon DEF FlagsTyped, flags, super, run

LEMMA TypeSplit == TypeOK <=> PlacesTyped /\ RestTyped
<1>1. {recovery, degraded, stop, late, blocked, waiting, cancelled, closing, monCancel} \subseteq BOOLEAN
        <=> FlagsTyped
  BY Zenon DEF FlagsTyped
<1> QED
  BY Zenon, <1>1 DEF TypeOK, PlacesTyped, RestTyped, OwnTyped, StateTyped, OpsTyped

LEMMA StaleTyped ==
  ASSUME TypeOK
  PROVE  Starts \cup Updates \subseteq Actors \X {"start", "update"} /\ NoJob.what = "none"
         /\ NoJob \in [what : {"none", "halt", "restart", "update", "ctx", "exit", "sick"},
                       who : Actors \cup {Nobody}]
  BY Names DEF Starts, Updates, NoJob

LEMMA RestStep1 ==
  ASSUME Inv, NEW a \in Actors,
         \/ LockAsk(a) \/ lockMaintenance(a) \/ RestoreRouting(a) \/ ObserveHeld(a)
         \/ Maintain(a) \/ SendClosed(a)
         \/ WorkFault(a) \/ saveCoreSelection(a) \/ publishCoreSelection(a)
         \/ ApplyDesiredSystemProxy(a) \/ blockCoreUpdate(a) \/ performUpdate(a)
         \/ PrepareFails(a) \/ PrepareCapture(a) \/ PreparePublish(a) \/ StartChild(a) \/ LockGiveUp(a)
  PROVE  RestTyped'
<1> USE DEF flags, super, work, owning, ops, run
<1>0. OwnTyped /\ StateTyped /\ FlagsTyped /\ OpsTyped /\ TypeOK
  BY Zenon, TypeSplit DEF Inv, RestTyped
<1>1. CASE LockAsk(a) \/ LockGiveUp(a) \/ SendClosed(a)
  <2>1. OwnTyped'
    BY Zenon, <1>0, <1>1 DEF OwnTyped, LockAsk, LockGiveUp, SendClosed
  <2>2. StateTyped'
    BY Zenon, <1>0, <1>1 DEF StateTyped, LockAsk, LockGiveUp, SendClosed
  <2>3. FlagsTyped'
    BY Zenon, <1>0, <1>1, QuietFlags DEF LockAsk, LockGiveUp, SendClosed
  <2>4. OpsTyped'
    BY Zenon, <1>0, <1>1 DEF OpsTyped, LockAsk, LockGiveUp, SendClosed
  <2> QED
    BY Zenon, <2>1, <2>2, <2>3, <2>4 DEF RestTyped
<1>2. CASE lockMaintenance(a)
  <2>1. OwnTyped'
    BY Zenon, <1>0, <1>2 DEF OwnTyped, lockMaintenance, unlock
  <2>2. StateTyped'
    BY Zenon, <1>0, <1>2 DEF StateTyped, lockMaintenance, unlock
  <2>3. FlagsTyped'
    BY Zenon, <1>0, <1>2 DEF FlagsTyped, lockMaintenance, unlock
  <2>4. OpsTyped'
    BY Zenon, <1>0, <1>2 DEF OpsTyped, lockMaintenance, unlock
  <2> QED
    BY Zenon, <2>1, <2>2, <2>3, <2>4 DEF RestTyped
<1>3. CASE RestoreRouting(a)
  <2>1. OwnTyped'
    BY Zenon, <1>0, <1>3 DEF OwnTyped, RestoreRouting, unlock, configGenerationMoves
  <2>2. StateTyped'
    BY Zenon, <1>0, <1>3 DEF StateTyped, RestoreRouting, unlock, configGenerationMoves
  <2>3. FlagsTyped'
    BY Zenon, <1>0, <1>3 DEF FlagsTyped, RestoreRouting, unlock, configGenerationMoves
  <2>4. OpsTyped'
    BY Zenon, <1>0, <1>3, StaleTyped DEF OpsTyped, RestoreRouting, unlock,
       configGenerationMoves
  <2> QED
    BY Zenon, <2>1, <2>2, <2>3, <2>4 DEF RestTyped
<1>4. CASE ObserveHeld(a)
  <2>1. OwnTyped'
    BY Zenon, <1>0, <1>4 DEF OwnTyped, ObserveHeld, unlock, coreEpochMoves
  <2>2. StateTyped'
    BY Zenon, <1>0, <1>4 DEF StateTyped, ObserveHeld, unlock, coreEpochMoves
  <2>3. FlagsTyped'
    BY Zenon, <1>0, <1>4 DEF FlagsTyped, ObserveHeld, unlock, coreEpochMoves
  <2>4. OpsTyped'
    BY Zenon, <1>0, <1>4, StaleTyped DEF OpsTyped, ObserveHeld, unlock, coreEpochMoves
  <2> QED
    BY Zenon, <2>1, <2>2, <2>3, <2>4 DEF RestTyped
<1>5. CASE Maintain(a)
  <2>1. OwnTyped'
    BY Zenon, <1>0, <1>5 DEF OwnTyped, Maintain
  <2>2. StateTyped'
    BY Zenon, <1>0, <1>5 DEF StateTyped, Maintain
  <2>3. FlagsTyped'
    BY Zenon, <1>0, <1>5 DEF FlagsTyped, Maintain
  <2>4. OpsTyped'
    BY Zenon, <1>0, <1>5 DEF OpsTyped, Maintain
  <2> QED
    BY Zenon, <2>1, <2>2, <2>3, <2>4 DEF RestTyped
<1>6. CASE WorkFault(a)
  <2>1. OwnTyped'
    BY Zenon, <1>0, <1>6 DEF OwnTyped, WorkFault
  <2>2. StateTyped'
    BY Zenon, <1>0, <1>6 DEF StateTyped, WorkFault
  <2>3. FlagsTyped'
    BY Zenon, <1>0, <1>6 DEF FlagsTyped, WorkFault
  <2>4. OpsTyped'
    BY Zenon, <1>0, <1>6 DEF OpsTyped, WorkFault
  <2> QED
    BY Zenon, <2>1, <2>2, <2>3, <2>4 DEF RestTyped
<1>7. CASE saveCoreSelection(a)
  <2>1. OwnTyped'
    BY Zenon, <1>0, <1>7 DEF OwnTyped, saveCoreSelection, releaseMutation
  <2>2. StateTyped'
    BY Zenon, <1>0, <1>7 DEF StateTyped, saveCoreSelection, releaseMutation
  <2>3. FlagsTyped'
    BY Zenon, <1>0, <1>7 DEF FlagsTyped, saveCoreSelection, releaseMutation
  <2>4. OpsTyped'
    BY Zenon, <1>0, <1>7 DEF OpsTyped, saveCoreSelection, releaseMutation
  <2> QED
    BY Zenon, <2>1, <2>2, <2>3, <2>4 DEF RestTyped
<1>8. CASE publishCoreSelection(a)
  <2>1. OwnTyped'
    BY Zenon, <1>0, <1>8 DEF OwnTyped, publishCoreSelection, releaseMutation,
       configGenerationMoves
  <2>2. StateTyped'
    BY Zenon, <1>0, <1>8 DEF StateTyped, publishCoreSelection, releaseMutation,
       configGenerationMoves
  <2>3. FlagsTyped'
    BY Zenon, <1>0, <1>8 DEF FlagsTyped, publishCoreSelection, releaseMutation,
       configGenerationMoves
  <2>4. OpsTyped'
    BY Zenon, <1>0, <1>8, StaleTyped DEF OpsTyped, publishCoreSelection, releaseMutation,
       configGenerationMoves
  <2> QED
    BY Zenon, <2>1, <2>2, <2>3, <2>4 DEF RestTyped
<1>9. CASE ApplyDesiredSystemProxy(a)
  <2>1. OwnTyped'
    BY Zenon, <1>0, <1>9 DEF OwnTyped, ApplyDesiredSystemProxy, unlock
  <2>2. StateTyped'
    BY Zenon, <1>0, <1>9 DEF StateTyped, ApplyDesiredSystemProxy, unlock
  <2>3. FlagsTyped'
    BY Zenon, <1>0, <1>9 DEF FlagsTyped, ApplyDesiredSystemProxy, unlock
  <2>4. OpsTyped'
    BY Zenon, <1>0, <1>9 DEF OpsTyped, ApplyDesiredSystemProxy, unlock
  <2> QED
    BY Zenon, <2>1, <2>2, <2>3, <2>4 DEF RestTyped
<1>10. CASE blockCoreUpdate(a)
  <2>1. OwnTyped'
    BY Zenon, <1>0, <1>10 DEF OwnTyped, blockCoreUpdate, releaseMutation
  <2>2. StateTyped'
    BY Zenon, <1>0, <1>10 DEF StateTyped, blockCoreUpdate, releaseMutation
  <2>3. FlagsTyped'
    BY Zenon, <1>0, <1>10 DEF FlagsTyped, blockCoreUpdate, releaseMutation
  <2>4. OpsTyped'
    BY Zenon, <1>0, <1>10 DEF OpsTyped, blockCoreUpdate, releaseMutation
  <2> QED
    BY Zenon, <2>1, <2>2, <2>3, <2>4 DEF RestTyped
<1>11. CASE performUpdate(a)
  <2>1. OwnTyped'
    BY Zenon, <1>0, <1>11 DEF OwnTyped, performUpdate
  <2>2. StateTyped'
    BY Zenon, <1>0, <1>11 DEF StateTyped, performUpdate
  <2>3. FlagsTyped'
    BY Zenon, <1>0, <1>11 DEF FlagsTyped, performUpdate
  <2>4. OpsTyped'
    BY Zenon, <1>0, <1>11 DEF OpsTyped, performUpdate
  <2> QED
    BY Zenon, <2>1, <2>2, <2>3, <2>4 DEF RestTyped
<1>12. CASE PrepareFails(a)
  <2>1. OwnTyped'
    BY Zenon, <1>0, <1>12 DEF OwnTyped, PrepareFails
  <2>2. StateTyped'
    BY Zenon, <1>0, <1>12 DEF StateTyped, PrepareFails
  <2>3. FlagsTyped'
    BY Zenon, <1>0, <1>12 DEF FlagsTyped, PrepareFails
  <2>4. OpsTyped'
    BY Zenon, <1>0, <1>12 DEF OpsTyped, PrepareFails
  <2> QED
    BY Zenon, <2>1, <2>2, <2>3, <2>4 DEF RestTyped
<1>13. CASE PrepareCapture(a)
  <2>1. OwnTyped'
    BY Zenon, <1>0, <1>13 DEF OwnTyped, PrepareCapture, releaseMutation
  <2>2. StateTyped'
    BY Zenon, <1>0, <1>13 DEF StateTyped, PrepareCapture, releaseMutation
  <2>3. FlagsTyped'
    BY Zenon, <1>0, <1>13 DEF FlagsTyped, PrepareCapture, releaseMutation
  <2>4. OpsTyped'
    BY Zenon, <1>0, <1>13, StaleTyped DEF OpsTyped, PrepareCapture, releaseMutation
  <2> QED
    BY Zenon, <2>1, <2>2, <2>3, <2>4 DEF RestTyped
<1>14. CASE PreparePublish(a)
  <2>1. OwnTyped'
    BY Zenon, <1>0, <1>14 DEF OwnTyped, PreparePublish, releaseMutation,
       configGenerationMoves
  <2>2. StateTyped'
    BY Zenon, <1>0, <1>14 DEF StateTyped, PreparePublish, releaseMutation,
       configGenerationMoves
  <2>3. FlagsTyped'
    BY Zenon, <1>0, <1>14 DEF FlagsTyped, PreparePublish, releaseMutation,
       configGenerationMoves
  <2>4. OpsTyped'
    BY Zenon, <1>0, <1>14, StaleTyped DEF OpsTyped, PreparePublish, releaseMutation,
       configGenerationMoves
  <2> QED
    BY Zenon, <2>1, <2>2, <2>3, <2>4 DEF RestTyped
<1>15. CASE StartChild(a)
  <2>1. OwnTyped'
    BY Zenon, <1>0, <1>15 DEF OwnTyped, StartChild
  <2>2. StateTyped'
    BY Zenon, <1>0, <1>15 DEF StateTyped, StartChild
  <2>3. FlagsTyped'
    BY Zenon, <1>0, <1>15 DEF FlagsTyped, StartChild
  <2>4. OpsTyped'
    BY Zenon, <1>0, <1>15 DEF OpsTyped, StartChild
  <2> QED
    BY Zenon, <2>1, <2>2, <2>3, <2>4 DEF RestTyped
<1> QED
  BY Zenon, <1>1, <1>2, <1>3, <1>4, <1>5, <1>6, <1>7, <1>8, <1>9, <1>10, <1>11, <1>12,
     <1>13, <1>14, <1>15

LEMMA RestStep2 ==
  ASSUME Inv, NEW c \in Callers,
         \/ MutationSettles(c) \/ MutationBreaks(c) \/ SubscriptionBreaks(c)
         \/ UnlockBroken(c) \/ markConfigDegraded(c) \/ enterMutationDegraded(c)
         \/ Status(c) \/ Restart(c) \/ captureCoreUpdateInputs(c) \/ installCoreUpdate(c)
         \/ Reinstall(c) \/ Return(c) \/ SupervisorRestart(c) \/ updateOwned(c) \/ SendCancelled(c)
         \/ \E k \in Kinds : doOperation(c, k)
  PROVE  RestTyped'
<1> USE DEF flags, super, work, owning, ops, run
<1>0. OwnTyped /\ StateTyped /\ FlagsTyped /\ OpsTyped /\ TypeOK
  BY Zenon, TypeSplit DEF Inv, RestTyped
<1>1. CASE MutationSettles(c)
  <2>1. OwnTyped'
    BY Zenon, <1>0, <1>1 DEF OwnTyped, MutationSettles, unlock, configGenerationMoves
  <2>2. StateTyped'
    BY Zenon, <1>0, <1>1 DEF StateTyped, MutationSettles, unlock, configGenerationMoves
  <2>3. FlagsTyped'
    BY Zenon, <1>0, <1>1 DEF FlagsTyped, MutationSettles, unlock, configGenerationMoves
  <2>4. OpsTyped'
    BY Zenon, <1>0, <1>1, StaleTyped DEF OpsTyped, MutationSettles, unlock,
       configGenerationMoves
  <2> QED
    BY Zenon, <2>1, <2>2, <2>3, <2>4 DEF RestTyped
<1>2. CASE MutationBreaks(c) \/ markConfigDegraded(c) \/ SupervisorRestart(c) \/ SendCancelled(c)
  <2>1. OwnTyped'
    BY Zenon, <1>0, <1>2 DEF OwnTyped, MutationBreaks, markConfigDegraded,
       SupervisorRestart, SendCancelled
  <2>2. StateTyped'
    BY Zenon, <1>0, <1>2 DEF StateTyped, MutationBreaks, markConfigDegraded,
       SupervisorRestart, SendCancelled
  <2>3. FlagsTyped'
    <3>1. CASE MutationBreaks(c)
      BY Zenon, <1>0, <3>1 DEF FlagsTyped, MutationBreaks
    <3>2. CASE markConfigDegraded(c)
      BY Zenon, <1>0, <3>2 DEF FlagsTyped, markConfigDegraded
    <3>3. CASE SupervisorRestart(c) \/ SendCancelled(c)
      BY Zenon, <1>0, <3>3, QuietFlags DEF SupervisorRestart, SendCancelled
    <3> QED
      BY Zenon, <1>2, <3>1, <3>2, <3>3
  <2>4. OpsTyped'
    BY Zenon, <1>0, <1>2 DEF OpsTyped, MutationBreaks, markConfigDegraded,
       SupervisorRestart, SendCancelled
  <2> QED
    BY Zenon, <2>1, <2>2, <2>3, <2>4 DEF RestTyped
<1>3. CASE SubscriptionBreaks(c) \/ UnlockBroken(c) \/ enterMutationDegraded(c)
  <2>1. OwnTyped'
    BY Zenon, <1>0, <1>3 DEF OwnTyped, SubscriptionBreaks, UnlockBroken,
       enterMutationDegraded, unlock
  <2>2. StateTyped'
    BY Zenon, <1>0, <1>3 DEF StateTyped, SubscriptionBreaks, UnlockBroken,
       enterMutationDegraded, unlock
  <2>3. FlagsTyped'
    BY Zenon, <1>0, <1>3 DEF FlagsTyped, SubscriptionBreaks, UnlockBroken,
       enterMutationDegraded, unlock
  <2>4. OpsTyped'
    BY Zenon, <1>0, <1>3 DEF OpsTyped, SubscriptionBreaks, UnlockBroken,
       enterMutationDegraded, unlock
  <2> QED
    BY Zenon, <2>1, <2>2, <2>3, <2>4 DEF RestTyped
<1>4. CASE Status(c) \/ Restart(c) \/ captureCoreUpdateInputs(c)
  <2>1. OwnTyped'
    BY Zenon, <1>0, <1>4 DEF OwnTyped, Status, Restart, captureCoreUpdateInputs, unlock
  <2>2. StateTyped'
    BY Zenon, <1>0, <1>4 DEF StateTyped, Status, Restart, captureCoreUpdateInputs, unlock
  <2>3. FlagsTyped'
    BY Zenon, <1>0, <1>4 DEF FlagsTyped, Status, Restart, captureCoreUpdateInputs, unlock
  <2>4. OpsTyped'
    BY Zenon, <1>0, <1>4 DEF OpsTyped, Status, Restart, captureCoreUpdateInputs, unlock
  <2> QED
    BY Zenon, <2>1, <2>2, <2>3, <2>4 DEF RestTyped
<1>5. CASE installCoreUpdate(c) \/ Reinstall(c)
  <2>1. OwnTyped'
    BY Zenon, <1>0, <1>5 DEF OwnTyped, installCoreUpdate, Reinstall, unlock,
       releaseMutation
  <2>2. StateTyped'
    BY Zenon, <1>0, <1>5 DEF StateTyped, installCoreUpdate, Reinstall, unlock,
       releaseMutation
  <2>3. FlagsTyped'
    BY <1>0, <1>5 DEF FlagsTyped, installCoreUpdate, Reinstall, unlock, releaseMutation
  <2>4. OpsTyped'
    BY Zenon, <1>0, <1>5 DEF OpsTyped, installCoreUpdate, Reinstall, unlock,
       releaseMutation
  <2> QED
    BY Zenon, <2>1, <2>2, <2>3, <2>4 DEF RestTyped
<1>6. CASE Return(c)
  <2>1. OwnTyped'
    BY Zenon, <1>0, <1>6 DEF OwnTyped, Return
  <2>2. StateTyped'
    BY Zenon, <1>0, <1>6 DEF StateTyped, Return
  <2>3. FlagsTyped'
    BY Zenon, <1>0, <1>6 DEF FlagsTyped, Return
  <2>4. OpsTyped'
    BY Zenon, <1>0, <1>6 DEF OpsTyped, Return
  <2> QED
    BY Zenon, <2>1, <2>2, <2>3, <2>4 DEF RestTyped
<1>7. CASE updateOwned(c)
  <2>1. \A u \in BOOLEAN : \A e \in WorkEntry(u, FALSE) : e.stage \in {"trial", "back"}
    BY Zenon, EntryPlace
  <2>2. OwnTyped'
    BY Zenon, <1>0, <1>7, <2>1 DEF OwnTyped, updateOwned
  <2>3. StateTyped'
    BY Zenon, <1>0, <1>7, <2>1 DEF StateTyped, updateOwned
  <2>4. FlagsTyped'
    BY Zenon, <1>0, <1>7, <2>1 DEF FlagsTyped, updateOwned
  <2>5. OpsTyped'
    BY Zenon, <1>0, <1>7, <2>1 DEF OpsTyped, updateOwned
  <2> QED
    BY Zenon, <2>2, <2>3, <2>4, <2>5 DEF RestTyped
<1>8. CASE \E k \in Kinds : doOperation(c, k)
  <2>1. OwnTyped'
    BY Zenon, <1>0, <1>8, BudgetAssumption DEF OwnTyped, doOperation
  <2>2. StateTyped'
    BY Zenon, <1>0, <1>8, BudgetAssumption DEF StateTyped, doOperation
  <2>3. FlagsTyped'
    BY Zenon, <1>0, <1>8, BudgetAssumption DEF FlagsTyped, doOperation
  <2>4. OpsTyped'
    BY <1>0, <1>8, BudgetAssumption DEF OpsTyped, doOperation
  <2> QED
    BY Zenon, <2>1, <2>2, <2>3, <2>4 DEF RestTyped
<1> QED
  BY Zenon, <1>1, <1>2, <1>3, <1>4, <1>5, <1>6, <1>7, <1>8

LEMMA RestStep3 ==
  ASSUME Inv,
         \/ RunBegins \/ LoopTop \/ LoopLeaves \/ LoopGate \/ LoopUnstarted \/ RunEnds
         \/ (\E w \in {"ctx", "sick", "exit"} : OwnEnds(w))
         \/ MonitorChecks \/ MonitorSettles \/ SpawnMonitor
  PROVE  RestTyped'
<1> USE DEF flags, super, work, owning, ops, run
<1>0. OwnTyped /\ StateTyped /\ FlagsTyped /\ OpsTyped /\ TypeOK
  BY Zenon, TypeSplit DEF Inv, RestTyped
<1>1. CASE RunBegins \/ LoopTop \/ LoopLeaves \/ MonitorChecks \/ MonitorSettles
  <2>0. /\ flags' = flags /\ super' = super /\ work' = work /\ owning' = owning
        /\ ops' = ops /\ run' = run
    BY Zenon, <1>1 DEF RunBegins, LoopTop, LoopLeaves, MonitorChecks, MonitorSettles
  <2>1. OwnTyped'
    BY Zenon, <1>0, <2>0 DEF OwnTyped
  <2>2. StateTyped'
    BY Zenon, <1>0, <2>0 DEF StateTyped
  <2>3. FlagsTyped'
    BY Zenon, <1>0, <2>0 DEF FlagsTyped
  <2>4. OpsTyped'
    BY Zenon, <1>0, <2>0 DEF OpsTyped
  <2> QED
    BY Zenon, <2>1, <2>2, <2>3, <2>4 DEF RestTyped
<1>2. CASE LoopGate
  <2>1. OwnTyped'
    BY Zenon, <1>0, <1>2 DEF OwnTyped, LoopGate
  <2>2. StateTyped'
    BY Zenon, <1>0, <1>2 DEF StateTyped, LoopGate
  <2>3. FlagsTyped'
    BY Zenon, <1>0, <1>2 DEF FlagsTyped, LoopGate
  <2>4. OpsTyped'
    BY Zenon, <1>0, <1>2 DEF OpsTyped, LoopGate
  <2> QED
    BY Zenon, <2>1, <2>2, <2>3, <2>4 DEF RestTyped
<1>3. CASE LoopUnstarted
  <2>1. OwnTyped'
    BY Zenon, <1>0, <1>3 DEF OwnTyped, LoopUnstarted
  <2>2. StateTyped'
    BY Zenon, <1>0, <1>3 DEF StateTyped, LoopUnstarted
  <2>3. FlagsTyped'
    BY Zenon, <1>0, <1>3 DEF FlagsTyped, LoopUnstarted
  <2>4. OpsTyped'
    BY Zenon, <1>0, <1>3 DEF OpsTyped, LoopUnstarted
  <2> QED
    BY Zenon, <2>1, <2>2, <2>3, <2>4 DEF RestTyped
<1>4. CASE RunEnds
  <2>1. OwnTyped'
    BY Zenon, <1>0, <1>4 DEF OwnTyped, RunEnds
  <2>2. StateTyped'
    BY Zenon, <1>0, <1>4 DEF StateTyped, RunEnds
  <2>3. FlagsTyped'
    BY Zenon, <1>0, <1>4 DEF FlagsTyped, RunEnds
  <2>4. OpsTyped'
    BY Zenon, <1>0, <1>4 DEF OpsTyped, RunEnds
  <2> QED
    BY Zenon, <2>1, <2>2, <2>3, <2>4 DEF RestTyped
<1>5. CASE \E w \in {"ctx", "sick", "exit"} : OwnEnds(w)
  <2>1. OwnTyped'
    BY Zenon, <1>0, <1>5 DEF OwnTyped, OwnEnds, StopsChild
  <2>2. StateTyped'
    BY <1>0, <1>5 DEF StateTyped, OwnEnds, StopsChild
  <2>3. FlagsTyped'
    BY Zenon, <1>0, <1>5 DEF FlagsTyped, OwnEnds, StopsChild
  <2>4. OpsTyped'
    BY Zenon, <1>0, <1>5 DEF OpsTyped, OwnEnds, StopsChild
  <2> QED
    BY Zenon, <2>1, <2>2, <2>3, <2>4 DEF RestTyped
<1>6. CASE SpawnMonitor
  <2>1. OwnTyped'
    BY Zenon, <1>0, <1>6 DEF OwnTyped, SpawnMonitor
  <2>2. StateTyped'
    BY Zenon, <1>0, <1>6 DEF StateTyped, SpawnMonitor
  <2>3. FlagsTyped'
    BY Zenon, <1>0, <1>6 DEF FlagsTyped, SpawnMonitor
  <2>4. OpsTyped'
    BY Zenon, <1>0, <1>6 DEF OpsTyped, SpawnMonitor
  <2> QED
    BY Zenon, <2>1, <2>2, <2>3, <2>4 DEF RestTyped
<1> QED
  BY Zenon, <1>1, <1>2, <1>3, <1>4, <1>5, <1>6

LEMMA RestStep4 ==
  ASSUME Inv, NEW a \in Actors, OwnReceives(a) \/ IdleReceives(a) \/ AnswerUpdate(a) \/ Join
  PROVE  RestTyped'
<1> USE DEF flags, super, work, owning, ops, run
<1>0. OwnTyped /\ StateTyped /\ FlagsTyped /\ OpsTyped /\ TypeOK
  BY Zenon, TypeSplit DEF Inv, RestTyped
<1>1. CASE OwnReceives(a)
  <2>1. pc[a][2] \in {"halt", "restart", "update"}
    BY Zenon, <1>1, SenderStands DEF OwnReceives
  <2>2. OwnTyped'
    BY Zenon, <1>0, <1>1, <2>1 DEF OwnTyped, OwnReceives, StopsChild
  <2>3. StateTyped'
    BY Zenon, <1>0, <1>1, <2>1 DEF StateTyped, OwnReceives, StopsChild
  <2>4. FlagsTyped'
    BY Zenon, <1>0, <1>1, <2>1 DEF FlagsTyped, OwnReceives, StopsChild
  <2>5. OpsTyped'
    BY Zenon, <1>0, <1>1, <2>1 DEF OpsTyped, OwnReceives, StopsChild
  <2> QED
    BY Zenon, <2>2, <2>3, <2>4, <2>5 DEF RestTyped
<1>2. CASE IdleReceives(a)
  <2>1. pc[a][2] = "update" => a \in Callers
    BY Zenon, <1>2, SenderStands DEF IdleReceives
  <2>2. \A u, v \in BOOLEAN : \A e \in WorkEntry(u, v) : e.stage \in {"trial", "back"}
    BY Zenon, EntryPlace
  <2>3. OwnTyped'
    BY Zenon, <1>0, <1>2, <2>1, <2>2 DEF OwnTyped, IdleReceives
  <2>4. StateTyped'
    BY Zenon, <1>0, <1>2, <2>1, <2>2 DEF StateTyped, IdleReceives
  <2>5. FlagsTyped'
    BY Zenon, <1>0, <1>2, <2>1, <2>2 DEF FlagsTyped, IdleReceives
  <2>6. OpsTyped'
    BY Zenon, <1>0, <1>2, <2>1, <2>2 DEF OpsTyped, IdleReceives
  <2> QED
    BY Zenon, <2>3, <2>4, <2>5, <2>6 DEF RestTyped
<1>3. CASE AnswerUpdate(a)
  <2>1. OwnTyped'
    BY Zenon, <1>0, <1>3 DEF OwnTyped, AnswerUpdate
  <2>2. StateTyped'
    BY Zenon, <1>0, <1>3, StaleTyped DEF StateTyped, AnswerUpdate
  <2>3. FlagsTyped'
    BY Zenon, <1>0, <1>3 DEF FlagsTyped, AnswerUpdate
  <2>4. OpsTyped'
    BY Zenon, <1>0, <1>3, StaleTyped DEF OpsTyped, AnswerUpdate
  <2> QED
    BY Zenon, <2>1, <2>2, <2>3, <2>4 DEF RestTyped
<1>4. CASE Join
  <2>1. job.what = "update" => job.who \in Callers
    BY Zenon DEF OwnersOK, Inv
  <2>2. \A u, v \in BOOLEAN : \A e \in WorkEntry(u, v) : e.stage \in {"trial", "back"}
    BY Zenon, EntryPlace
  <2>3. OwnTyped'
    BY Zenon, <1>0, <1>4, <2>1, <2>2, StaleTyped DEF OwnTyped, Join
  <2>4. StateTyped'
    BY Zenon, <1>0, <1>4, <2>1, <2>2, StaleTyped DEF StateTyped, Join
  <2>5. FlagsTyped'
    BY Zenon, <1>0, <1>4, <2>1, <2>2, StaleTyped DEF FlagsTyped, Join
  <2>6. OpsTyped'
    BY Zenon, <1>0, <1>4, <2>1, <2>2, StaleTyped DEF OpsTyped, Join
  <2> QED
    BY Zenon, <2>3, <2>4, <2>5, <2>6 DEF RestTyped
<1> QED
  BY Zenon, <1>1, <1>2, <1>3, <1>4

==============================================================================
