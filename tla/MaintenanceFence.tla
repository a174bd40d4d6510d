-------------------------- MODULE MaintenanceFence --------------------------
(***************************************************************************)
(* The fence of Maintenance, where no subscription is added outside setup: *)
(* that path sets the latch without the token.  Every other step keeps it. *)
(***************************************************************************)
EXTENDS MaintenanceProofs

-----------------------------------------------------------------------------

\* The latches, where no subscription is added outside setup: both are set with
\* the token in hand, so whoever holds it for a change or a start finds them open.
FenceOK ==
  /\ broken # "none" => degraded
  /\ stop => token # Nobody /\ pc[token] = Hold("broken")
  /\ \A a \in Actors :
       pc[a][1] = "hold" /\ pc[a][2] \in Mutating \cup {"start"} => ~degraded

Fence == FenceOK /\ NoSelfWait /\ ~late

\* Places at which an open fence is relied on.
Fenced(p) == p[1] = "hold" /\ p[2] \in Mutating \cup {"start"}

LEMMA NoAdds ==
  ASSUME Inv, "add" \notin Kinds, NEW c \in Callers
  PROVE  kind[c] # "add" /\ pc[c] # At("mark") /\ ~Holds(c, "add")
<1>1. kind[c] # "add"
  BY Zenon DEF Inv, TypeOK
<1>2. pc[c] # At("mark")
  BY <1>1, CallerStands DEF WorkAt, CallerAt, InMaintain, UpdatePlaces, Locks, Home, At, Hold
<1>3. ~Holds(c, "add")
  BY Zenon, <1>1, CallerHolds DEF CallerTasks, Suits, Updating
<1> QED
  BY Zenon, <1>1, <1>2, <1>3

\* Both latches stay as they are, or the one is taken.
Latched == degraded' = degraded /\ broken' = broken /\ (stop' => stop) /\ late' = late

LEMMA QuietLatch == (flags' = flags => Latched) /\ (work' = work => worker' = worker)
BY DEF flags, work, Latched

\* A step that sets no latch and lets nobody into Maintain.
LEMMA FenceKept ==
  ASSUME Inv, Inv', Fence, Latched,
         \A x \in Actors : pc'[x] = pc[x]
                            \/ (/\ pc[x] # Hold("broken") /\ (Fenced(pc'[x]) => ~degraded)
                                /\ (pc'[x] \in InMaintain => pc[x] \in InMaintain)),
         worker' \in {worker, Nobody} \/ pc'[worker'] \notin InMaintain
  PROVE  Fence'
<1>1. broken' # "none" => degraded'
  BY Zenon DEF Fence, FenceOK, Latched
<1>2. ASSUME stop' PROVE token' # Nobody /\ pc'[token'] = Hold("broken")
  <2>1. token \in Actors /\ pc[token] = Hold("broken")
    BY Zenon, <1>2 DEF Fence, FenceOK, Latched, Inv, TypeOK
  <2>2. pc'[token] = Hold("broken")
    BY Zenon, <2>1
  <2>3. token' = token
    BY Zenon, <2>1, <2>2 DEF Inv, TokenOK, Hold
  <2> QED
    BY Zenon, <2>1, <2>2, <2>3, Names
<1>3. \A x \in Actors : Fenced(pc'[x]) => ~degraded'
  BY Zenon DEF Fence, FenceOK, Latched, Fenced
<1>4. \A x \in Actors : pc'[x] \in InMaintain => pc[x] \in InMaintain
  OBVIOUS
<1>5. NoSelfWait'
  <2>1. worker' # Nobody => worker' \in Actors
    BY Zenon, Names DEF Inv, TypeOK
  <2> QED
    BY Zenon, <1>4, <2>1, Names DEF Fence, NoSelfWait
<1> QED
  BY Zenon, <1>1, <1>2, <1>3, <1>5 DEF Fence, FenceOK, Latched, Fenced

\* One goroutine moves.
LEMMA FenceMoves ==
  ASSUME Inv, Inv', Fence, Latched, NEW a \in Actors, NEW q, Move(a, q), pc[a] # Hold("broken"),
         Fenced(q) => ~degraded, q \in InMaintain => pc[a] \in InMaintain,
         worker' \in {worker, Nobody} \/ (worker' = a /\ q \notin InMaintain)
  PROVE  Fence'
<1>1. pc'[a] = q /\ \A x \in Actors : x # a => pc'[x] = pc[x]
  BY Zenon DEF Move, Inv, TypeOK
<1> QED
  BY Zenon, <1>1, FenceKept

\* The latch is open for whoever does not stand at its failed compensation.
LEMMA LatchOpen ==
  ASSUME Inv, Fence, NEW a \in Actors, NEW p,
         token = Nobody \/ \E t : t # "broken" /\ Holds(a, t),
         unlock(a, p) \/ releaseMutation(a, p)
  PROVE  ~stop /\ ~stop' /\ Move(a, p)
<1>1. ~stop
  BY DEF Fence, FenceOK, Holds, Hold
<1> QED
  BY <1>1 DEF unlock, releaseMutation, Goto

\* The holder of the token closes the fence and leaves for q.
LEMMA FenceCloses ==
  ASSUME Inv, Inv', Fence, NEW a \in Actors, NEW q, Move(a, q), token = a,
         ~Fenced(q), q \notin InMaintain, degraded' = TRUE, worker' = worker, late' = late,
         stop' => q = Hold("broken")
  PROVE  Fence'
<1>1. pc'[a] = q /\ \A x \in Actors : x # a => pc'[x] = pc[x]
  BY Zenon DEF Move, Inv, TypeOK
<1>2. \A x \in Actors : x # a => pc'[x][1] # "hold"
  BY Zenon, <1>1 DEF Inv, TokenOK
<1>3. \A x \in Actors : ~Fenced(pc'[x])
  BY Zenon, <1>1, <1>2 DEF Fenced
<1>4. stop' => token' = a
  BY <1>1 DEF Inv, TokenOK, Hold
<1>5. NoSelfWait'
  BY Zenon, <1>1, Names DEF Fence, NoSelfWait, Inv, TypeOK
<1> QED
  BY Zenon, <1>1, <1>3, <1>4, <1>5, Names DEF Fence, FenceOK, Fenced

\* Where goroutines go on, they neither hold the token nor call Maintain.
LEMMA FailedOpen ==
  ASSUME Inv, NEW a \in Actors, pc[a][1] \in Locks, NEW t,
         t = pc[a][2] \/ (t \in {"prep1", "prep2"} /\ pc[a][2] \in {"prep1", "prep2", "start"})
  PROVE  ~Fenced(Failed(a, t)) /\ Failed(a, t) \notin InMaintain
  BY Zenon, FailedFits, BackFits DEF Fenced

LEMMA FenceStep1 ==
  ASSUME Inv, Inv', Fence, NEW a \in Actors,
         \/ LockAsk(a) \/ lockMaintenance(a) \/ LockGiveUp(a) \/ ObserveHeld(a)
         \/ PrepareFails(a) \/ PrepareCapture(a) \/ PreparePublish(a) \/ StartChild(a) \/ RestoreRouting(a)
  PROVE  Fence'
<1> USE DEF flags, work
<1>1. \A t \in Tasks : ~Fenced(Ask(t)) /\ ~Fenced(Want(t)) /\ Ask(t) \notin InMaintain
                       /\ Want(t) \notin InMaintain /\ Hold(t) \notin InMaintain
  BY Zenon DEF Fenced, InMaintain, At, Ask, Want, Hold
<1>2. \A p \in Places : p[1] \in {"ask", "want"} => p # Hold("broken")
  BY DEF Hold
<1>3. pc[a] \in Places /\ pc[a][2] \in Tasks
  BY Zenon, FailedTyped DEF Inv, TypeOK
<1>4. CASE LockAsk(a) \/ LockGiveUp(a) \/ PrepareFails(a)
  <2>1. PICK q : Move(a, q) /\ ~Fenced(q) /\ q \notin InMaintain
    <3>1. CASE LockAsk(a)
      <4>1. pc[a][1] \in Locks
        BY Zenon, <3>1 DEF LockAsk, Locks
      <4> QED
        BY Zenon, <1>1, <1>3, <3>1, <4>1, FailedOpen DEF LockAsk, Goto
    <3>2. CASE LockGiveUp(a)
      <4>1. pc[a][1] \in Locks
        BY Zenon, <3>2 DEF LockGiveUp, Locks
      <4> QED
        BY Zenon, <3>2, <4>1, FailedOpen DEF LockGiveUp, Goto
    <3>3. CASE PrepareFails(a)
      <4>1. pc[a][1] \in Locks /\ pc[a][2] \in {"prep1", "prep2"}
        BY <3>3 DEF PrepareFails, Locks, Ask
      <4> QED
        BY Zenon, <3>3, <4>1, FailedOpen DEF PrepareFails, Goto
    <3> QED
      BY Zenon, <1>4, <3>1, <3>2, <3>3
  <2>2. Latched /\ worker' = worker
    BY <1>4 DEF LockAsk, LockGiveUp, PrepareFails, Latched
  <2>3. pc[a] # Hold("broken")
    BY <1>4 DEF LockAsk, LockGiveUp, PrepareFails, Ask, Hold
  <2> QED
    BY Zenon, <2>1, <2>2, <2>3, FenceMoves
<1>5. CASE lockMaintenance(a)
  <2>1. token = Nobody /\ pc[a][1] = "want" /\ pc[a] # Hold("broken") /\ worker' = worker
        /\ degraded' = degraded /\ broken' = broken /\ pc[a][1] \in Locks
    BY <1>5 DEF lockMaintenance, Hold, Locks
  <2>2. CASE Refuses(a, pc[a][2])
    <3>1. ~stop' /\ Move(a, Failed(a, pc[a][2])) /\ late' = late
      BY Zenon, <1>5, <2>1, <2>2, LatchOpen DEF lockMaintenance
    <3>2. Latched
      BY Zenon, <2>1, <3>1 DEF Latched
    <3> QED
      BY Zenon, <2>1, <3>1, <3>2, FailedOpen, FenceMoves
  <2>3. CASE ~Refuses(a, pc[a][2])
    <3>1. Move(a, Hold(pc[a][2])) /\ stop' = stop
          /\ late' = (late \/ (pc[a][2] \in Mutating \ Starter /\ broken # "none"))
      BY Zenon, <1>5, <2>3 DEF lockMaintenance, Goto
    <3>2. pc[a][2] \in Mutating => ~degraded
      BY Zenon, <2>3 DEF Refuses
    <3>3. late' = late
      BY Zenon, <3>1, <3>2 DEF Fence, FenceOK, Inv, TypeOK
    <3>4. Fenced(Hold(pc[a][2])) => ~degraded
      <4>1. pc[a][2] # "start"
        <5>1. StandsAt(a, pc[a]) /\ pc[a] = Want(pc[a][2])
          BY <1>3, <2>1 DEF Inv, PlacesOK, Legal, InMaintain, Places, At, Want
        <5> QED
          BY <5>1, Names DEF StandsAt, WorkAt, LoopAt, LoopStarts, MonAt, CallerAt, Suits, Updating, Rests,
                Observing, UpdatePlaces, Locks, Home, At, Want, Hold
      <4> QED
        BY Zenon, <3>2, <4>1 DEF Fenced, Hold
    <3>5. Latched
      BY Zenon, <2>1, <3>1, <3>3 DEF Latched
    <3> QED
      BY Zenon, <1>1, <1>3, <2>1, <3>1, <3>4, <3>5, FenceMoves
  <2> QED
    BY Zenon, <2>2, <2>3
<1>6. CASE ObserveHeld(a)
  <2>1. Holds(a, "observe") /\ unlock(a, ret[a]) /\ degraded' = degraded /\ broken' = broken
        /\ late' = late /\ worker' = worker
    BY Zenon, <1>6 DEF ObserveHeld
  <2>2. pc[a][1] \in Locks /\ pc[a][2] = "observe" /\ Failed(a, "observe") = ret[a] /\ pc[a] # Hold("broken")
    BY <2>1 DEF Failed, Holds, Hold, Locks
  <2>3. ~stop' /\ Move(a, ret[a])
    BY Zenon, <2>1, LatchOpen
  <2>4. Latched
    BY Zenon, <2>1, <2>3 DEF Latched
  <2> QED
    BY Zenon, <2>1, <2>2, <2>3, <2>4, FailedOpen, FenceMoves
<1>7. CASE PrepareCapture(a)
  <2>1. /\ Holds(a, "prep1") /\ degraded' = degraded /\ broken' = broken /\ late' = late /\ worker' = worker
        /\ releaseMutation(a, Ask("prep2")) \/ releaseMutation(a, Failed(a, "prep1"))
    BY Zenon, <1>7 DEF PrepareCapture
  <2>2. pc[a][1] \in Locks /\ pc[a][2] = "prep1" /\ pc[a] # Hold("broken")
    BY <2>1 DEF Holds, Hold, Locks
  <2>3. PICK q \in {Ask("prep2"), Failed(a, "prep1")} : releaseMutation(a, q)
    BY Zenon, <2>1
  <2>4. ~Fenced(q) /\ q \notin InMaintain
    BY Zenon, <1>1, <2>2, <2>3, FailedOpen, PlaceFacts
  <2>5. Latched /\ Move(a, q)
    BY Zenon, <2>1, <2>3 DEF Latched, releaseMutation, Goto
  <2> QED
    BY Zenon, <2>1, <2>2, <2>4, <2>5, FenceMoves
<1>8. CASE PreparePublish(a)
  <2>1. Holds(a, "prep2") /\ late' = late /\ worker' = worker
    BY Zenon, <1>8 DEF PreparePublish
  <2>2. /\ pc[a][1] \in Locks /\ pc[a][1] = "hold" /\ pc[a][2] = "prep2" /\ pc[a] # Hold("broken")
        /\ token = a
    BY <2>1 DEF Holds, Hold, Locks
  <2>3. ~degraded
    BY Zenon, <2>2 DEF Fence, FenceOK, Mutating
  <2>4. CASE Goto(a, Hold("start")) /\ UNCHANGED <<token, stop, degraded, broken>>
    <3>1. Latched /\ Move(a, Hold("start")) /\ Hold("start") \notin InMaintain
      BY Zenon, <1>1, <2>1, <2>4, PlaceFacts DEF Latched, Goto
    <3> QED
      BY Zenon, <2>1, <2>2, <2>3, <3>1, FenceMoves
  <2>5. CASE releaseMutation(a, Failed(a, "prep2")) /\ UNCHANGED <<degraded, broken>>
    <3>1. Latched /\ Move(a, Failed(a, "prep2"))
      BY Zenon, <2>1, <2>5 DEF Latched, releaseMutation, Goto
    <3> QED
      BY Zenon, <2>1, <2>2, <3>1, FailedOpen, FenceMoves
  <2>6. CASE degraded' = TRUE /\ \E q \in {At("fault"), At("unsafe")} : releaseMutation(a, q)
    <3>1. PICK q \in {At("fault"), At("unsafe")} : releaseMutation(a, q)
      BY Zenon, <2>6
    <3>2. ~stop' /\ Move(a, q) /\ ~Fenced(q) /\ q \notin InMaintain
      BY <2>1, <3>1, LatchOpen DEF Fenced, InMaintain, At
    <3> QED
      BY Zenon, <2>1, <2>2, <2>6, <3>2, FenceCloses
  <2> QED
    BY Zenon, <1>8, <2>4, <2>5, <2>6 DEF PreparePublish
<1>9. CASE StartChild(a)
  <2>1. /\ Holds(a, "start") /\ Latched /\ worker' = worker
    BY Zenon, <1>9 DEF StartChild, Latched
  <2>2. pc[a][1] \in Locks /\ pc[a][2] = "start" /\ pc[a] # Hold("broken")
    BY <2>1 DEF Holds, Hold, Locks
  <2>3. PICK q \in {Ask("restore"), Observe, Failed(a, "prep2")} : Move(a, q)
    BY Zenon, <1>9 DEF StartChild, Goto, ObserveThen
  <2>4. ~Fenced(q) /\ q \notin InMaintain
    BY Zenon, <1>1, <2>2, <2>3, FailedOpen, PlaceFacts DEF Observe
  <2> QED
    BY Zenon, <2>1, <2>2, <2>3, <2>4, FenceMoves
<1>10. CASE RestoreRouting(a)
  <2>1. /\ Holds(a, "restore") /\ late' = late /\ worker' = worker
        /\ unlock(a, Restored(a)) \/ unlock(a, Failed(a, "restore"))
        /\ (degraded' = degraded /\ broken' = broken) \/ degraded' = TRUE
    BY Zenon, <1>10 DEF RestoreRouting
  <2>2. pc[a][1] \in Locks /\ pc[a][2] = "restore" /\ pc[a] # Hold("broken") /\ token = a
    BY <2>1 DEF Holds, Hold, Locks
  <2>3. PICK q \in {Restored(a), Failed(a, "restore")} : unlock(a, q)
    BY Zenon, <2>1
  <2>4. ~stop' /\ Move(a, q)
    BY Zenon, <2>1, <2>3, LatchOpen
  <2>5. ~Fenced(Restored(a)) /\ Restored(a) \notin InMaintain
    BY Zenon DEF Restored, Fenced, InMaintain, At, Ask, Want
  <2>6. ~Fenced(q) /\ q \notin InMaintain
    BY Zenon, <2>2, <2>3, <2>5, FailedOpen
  <2>7. CASE degraded' = degraded /\ broken' = broken
    BY Zenon, <2>1, <2>2, <2>4, <2>6, <2>7, FenceMoves DEF Latched
  <2>8. CASE degraded' = TRUE
    BY Zenon, <2>1, <2>2, <2>4, <2>6, <2>8, FenceCloses
  <2> QED
    BY Zenon, <2>1, <2>7, <2>8
<1> QED
  BY Zenon, <1>4, <1>5, <1>6, <1>7, <1>8, <1>9, <1>10

\* Places that are neither hold places nor in Maintain.
Open(p) == p[1] # "hold" /\ p \notin InMaintain

LEMMA OpenPlaces ==
  /\ \A t : Open(Ask(t))
  /\ Open(At("block")) /\ Open(At("finish")) /\ Open(At("leave")) /\ Open(At("top"))
BY DEF Open, InMaintain, At, Ask

LEMMA OpenMoves ==
  ASSUME Inv, Inv', Fence, Latched, NEW a \in Actors, NEW q, Move(a, q), pc[a] # Hold("broken"),
         Open(q), worker' \in {worker, Nobody, a}
  PROVE  Fence'
  BY Zenon, FenceMoves DEF Open, Fenced

LEMMA FenceStep2 ==
  ASSUME Inv, Inv', Fence, NEW a \in Actors,
         \/ Maintain(a) \/ SendClosed(a)
         \/ WorkFault(a) \/ saveCoreSelection(a) \/ publishCoreSelection(a)
         \/ ApplyDesiredSystemProxy(a) \/ blockCoreUpdate(a) \/ performUpdate(a)
  PROVE  Fence'
<1> USE DEF flags, work
<1>1. CASE Maintain(a) \/ SendClosed(a)
  <2>1. Latched /\ worker' = worker
    BY Zenon, <1>1, QuietLatch DEF Maintain, SendClosed
  <2>2. pc[a] \in InMaintain \/ pc[a] = <<"send", "update">>
    BY Zenon, <1>1 DEF Maintain, SendClosed, InMaintain
  <2>3. pc[a] # Hold("broken")
    BY Zenon, <1>1, Apart DEF Maintain, SendClosed
  <2>4. pc[a] \in InMaintain => ret[a][1] # "hold"
    BY Zenon, BackFits DEF Inv, PlacesOK, Legal
  <2>5. PICK q : /\ Move(a, q)
                 /\ q = At("leave") \/ (pc[a] \in InMaintain /\ (q = ret[a] \/ q = <<"send", "halt">>))
    <3>1. CASE Maintain(a)
      BY Zenon, <3>1 DEF Maintain, Goto, InMaintain
    <3>2. CASE SendClosed(a)
      BY <3>2 DEF SendClosed, Goto, InMaintain
    <3> QED
      BY Zenon, <1>1, <3>1, <3>2
  <2>6. ~Fenced(q) /\ (q \in InMaintain => pc[a] \in InMaintain)
    BY <2>4, <2>5 DEF Fenced, InMaintain, At
  <2> QED
    BY Zenon, <2>1, <2>3, <2>5, <2>6, FenceMoves
<1>2. CASE WorkFault(a) \/ performUpdate(a)
  <2>1. Latched /\ worker' = worker
    BY <1>2 DEF WorkFault, performUpdate, Latched
  <2>2. PICK q \in {At("block"), Ask("save"), At("answer"), Observe} : Move(a, q)
    BY Zenon, <1>2 DEF WorkFault, performUpdate, Goto, ObserveThen
  <2>3. Open(q) /\ pc[a] # Hold("broken")
    BY <1>2 DEF WorkFault, performUpdate, Open, InMaintain, At, Ask, Want, Hold, Observe
  <2> QED
    BY Zenon, <2>1, <2>2, <2>3, OpenMoves
<1>3. CASE saveCoreSelection(a) \/ blockCoreUpdate(a)
  <2>1. Latched /\ worker' = worker
    BY <1>3 DEF saveCoreSelection, blockCoreUpdate, releaseMutation, Latched
  <2>2. PICK q \in {At("saving"), At("fault"), Ask("prep1"), Want("publish"), Want("block"), At("unsound")} :
               Move(a, q)
    BY Zenon, <1>3 DEF saveCoreSelection, blockCoreUpdate, releaseMutation, Goto
  <2>3. Open(q) /\ pc[a] # Hold("broken")
    BY <1>3 DEF saveCoreSelection, blockCoreUpdate, Holds, Open, InMaintain, At, Ask, Want, Hold
  <2> QED
    BY Zenon, <2>1, <2>2, <2>3, OpenMoves
<1>4. CASE publishCoreSelection(a)
  <2>1. Latched /\ worker' = worker
    BY <1>4 DEF publishCoreSelection, releaseMutation, Latched
  <2>2. PICK q \in {At("finish"), At("block"), Want("apply")} : Move(a, q)
    BY Zenon, <1>4 DEF publishCoreSelection, releaseMutation, Goto
  <2>3. Open(q) /\ pc[a] # Hold("broken")
    BY <1>4 DEF publishCoreSelection, Holds, Open, InMaintain, At, Want, Hold
  <2> QED
    BY Zenon, <2>1, <2>2, <2>3, OpenMoves
<1>5. CASE ApplyDesiredSystemProxy(a)
  <2>1. Holds(a, "apply") /\ unlock(a, At("finish")) /\ degraded' = degraded /\ broken' = broken
        /\ late' = late /\ worker' = worker
    BY Zenon, <1>5 DEF ApplyDesiredSystemProxy
  <2>2. ~stop' /\ Move(a, At("finish"))
    BY Zenon, <2>1, LatchOpen
  <2>3. Open(At("finish")) /\ pc[a] # Hold("broken") /\ Latched
    BY <2>1, <2>2 DEF Holds, Open, InMaintain, At, Hold, Latched
  <2> QED
    BY Zenon, <2>1, <2>2, <2>3, OpenMoves
<1> QED
  BY Zenon, <1>1, <1>2, <1>3, <1>4, <1>5

LEMMA FenceStep3 ==
  ASSUME Inv, Inv', Fence, "add" \notin Kinds, NEW c \in Callers,
         \/ MutationSettles(c) \/ MutationBreaks(c) \/ SubscriptionBreaks(c)
         \/ UnlockBroken(c) \/ markConfigDegraded(c) \/ enterMutationDegraded(c)
         \/ Status(c) \/ Restart(c) \/ captureCoreUpdateInputs(c) \/ installCoreUpdate(c)
         \/ Reinstall(c) \/ Return(c) \/ SupervisorRestart(c) \/ updateOwned(c) \/ SendCancelled(c)
         \/ \E k \in Kinds : doOperation(c, k)
  PROVE  Fence'
<1> USE DEF flags, work
<1>1. c \in Actors /\ c # "loop" /\ c # "mon"
  BY Zenon, Names
<1>2. Open(At("leave")) /\ Open(Home) /\ \A t : Open(Ask(t)) /\ Open(<<"call", "restart">>)
      /\ Open(<<"call", "update">>) /\ Open(<<"send", "restart">>) /\ Open(<<"send", "update">>)
  BY Zenon DEF Open, InMaintain, Home, At, Ask
<1>3. CASE \/ MutationSettles(c) \/ Status(c) \/ Restart(c) \/ captureCoreUpdateInputs(c)
           \/ installCoreUpdate(c) \/ Reinstall(c)
  <2>1. degraded' = degraded /\ broken' = broken /\ late' = late /\ worker' = worker
    BY Zenon, <1>3 DEF MutationSettles, Status, Restart, captureCoreUpdateInputs,
       installCoreUpdate, Reinstall
  <2>2. /\ \E t : t # "broken" /\ Holds(c, t)
        /\ \E q \in {At("leave"), Ask("reserve"), Ask("capture"), <<"call", "restart">>, <<"call", "update">>} :
             unlock(c, q) \/ releaseMutation(c, q)
    BY Zenon, <1>3 DEF MutationSettles, Status, Restart, captureCoreUpdateInputs,
       installCoreUpdate, Reinstall
  <2>3. PICK q \in {At("leave"), Ask("reserve"), Ask("capture"), <<"call", "restart">>, <<"call", "update">>} :
             unlock(c, q) \/ releaseMutation(c, q)
    BY Zenon, <2>2
  <2>4. ~stop' /\ Move(c, q)
    BY Zenon, <1>1, <2>2, <2>3, LatchOpen
  <2>5. Latched /\ pc[c] # Hold("broken") /\ Open(q)
    BY <1>2, <2>1, <2>2, <2>4 DEF Latched, Holds, Hold
  <2> QED
    BY Zenon, <1>1, <2>1, <2>4, <2>5, OpenMoves
<1>4. CASE MutationBreaks(c)
  <2>1. /\ Move(c, Hold("broken")) /\ degraded' = TRUE /\ worker' = worker /\ late' = late
        /\ token = c
    BY Zenon, <1>4 DEF MutationBreaks, Goto, Holds
  <2>2. ~Fenced(Hold("broken")) /\ Hold("broken") \notin InMaintain
    BY Zenon DEF Fenced, InMaintain, Mutating, At, Hold
  <2> QED
    BY Zenon, <1>1, <2>1, <2>2, FenceCloses
<1>5. CASE SubscriptionBreaks(c) \/ markConfigDegraded(c)
  BY Zenon, <1>5, NoAdds DEF SubscriptionBreaks, markConfigDegraded
<1>6. CASE enterMutationDegraded(c)
  <2>1. /\ Holds(c, "settings") /\ unlock(c, At("leave")) /\ degraded' = TRUE /\ worker' = worker
        /\ late' = late
    BY Zenon, <1>6 DEF enterMutationDegraded
  <2>2. ~stop' /\ Move(c, At("leave")) /\ token = c
    BY Zenon, <1>1, <2>1, LatchOpen DEF Holds
  <2> QED
    BY Zenon, <1>1, <1>2, <2>1, <2>2, FenceCloses DEF Open, Fenced
<1>7. CASE Return(c) \/ SupervisorRestart(c) \/ SendCancelled(c) \/ \E k \in Kinds : doOperation(c, k)
  <2>1. Latched /\ worker' = worker
    BY Zenon, <1>7, QuietLatch DEF Return, SupervisorRestart, SendCancelled, doOperation
  <2>2. PICK q : Move(c, q) /\ Open(q)
    BY Zenon, <1>2, <1>7 DEF Return, SupervisorRestart, SendCancelled, doOperation, Goto
  <2>3. pc[c] # Hold("broken")
    BY Zenon, <1>7, Apart DEF Return, SupervisorRestart, SendCancelled, doOperation, Home
  <2> QED
    BY Zenon, <1>1, <2>1, <2>2, <2>3, OpenMoves
<1>8. CASE updateOwned(c)
  <2>1. Latched /\ worker' \in {worker, c} /\ pc[c] # Hold("broken")
    <3>1. flags' = flags /\ pc[c] = <<"call", "update">>
      BY Zenon, <1>8 DEF updateOwned
    <3>2. worker' \in {worker, c}
      BY Zenon, <1>8 DEF updateOwned
    <3> QED
      BY Zenon, <3>1, <3>2, Apart, QuietLatch
  <2>2. ASSUME NEW u \in BOOLEAN, NEW e \in WorkEntry(u, FALSE) PROVE Open(e.place)
    <3>1. e.place \in {Ask("prep1"), At("block"), Ask("save"), At("finish")}
      BY Zenon, EntryPlace
    <3> QED
      BY Zenon, <3>1, OpenPlaces
  <2>3. PICK q : Move(c, q) /\ Open(q)
    BY Zenon, <1>2, <1>8, <2>2 DEF updateOwned, Goto
  <2> QED
    BY Zenon, <1>1, <2>1, <2>3, OpenMoves
<1>9. CASE UnlockBroken(c)
  <2>1. /\ Holds(c, "broken") /\ stop' = FALSE /\ degraded' = degraded /\ broken' = broken /\ late' = late
        /\ worker' = worker
    BY Zenon, <1>9 DEF UnlockBroken, unlock
  <2>2. c # worker
    BY Zenon, <2>1, CallerHolds DEF CallerTasks
  <2>3. PICK q : q[1] # "hold" /\ Move(c, q)
    BY Zenon, <1>9 DEF UnlockBroken, unlock, Goto, At
  <2>4. pc'[c] = q /\ \A x \in Actors : x # c => pc'[x] = pc[x]
    BY Zenon, <1>1, <2>3 DEF Move, Inv, TypeOK
  <2>5. NoSelfWait'
    BY Zenon, <1>1, <2>1, <2>2, <2>4, Names DEF Fence, NoSelfWait, Inv, TypeOK
  <2>6. \A x \in Actors : Fenced(pc'[x]) => ~degraded'
    BY Zenon, <2>1, <2>3, <2>4 DEF Fence, FenceOK, Fenced
  <2> QED
    BY Zenon, <2>1, <2>5, <2>6 DEF Fence, FenceOK, Fenced
<1> QED
  BY Zenon, <1>3, <1>4, <1>5, <1>6, <1>7, <1>8, <1>9

LEMMA FenceStep4 ==
  ASSUME Inv, Inv', Fence,
         \/ RunBegins \/ LoopTop \/ LoopLeaves \/ LoopGate \/ LoopUnstarted \/ RunEnds
         \/ (\E w \in {"ctx", "sick", "exit"} : OwnEnds(w))
         \/ MonitorChecks \/ MonitorSettles
  PROVE  Fence'
<1> USE DEF flags, work
<1> DEFINE P == {At("off"), At("top"), At("idle"), At("gate"), At("backoff"), At("end"), At("done"), At("own"),
                 At("join"), At("gone"), At("unwell"), At("health"), At("sick"), Ask("prep1"), Ask("restore"),
                 Observe}
<1>1. \A q \in P : Open(q)
  BY DEF Open, InMaintain, Observe, At, Ask, Want
<1>2. Latched /\ worker' = worker
  BY DEF RunBegins, LoopTop, LoopLeaves, LoopGate, LoopUnstarted, RunEnds, OwnEnds, MonitorChecks, MonitorSettles,
     Latched
<1>3. CASE RunBegins \/ LoopTop \/ LoopLeaves \/ RunEnds \/ \E w \in {"ctx", "sick", "exit"} : OwnEnds(w)
  <2>1. \E q \in P : Move("loop", q)
    BY Zenon, <1>3 DEF RunBegins, LoopTop, LoopLeaves, RunEnds, OwnEnds, Goto, ObserveThen
  <2>2. pc["loop"] # Hold("broken")
    BY Zenon, <1>3, Apart DEF RunBegins, LoopTop, LoopLeaves, RunEnds, OwnEnds, Loop
  <2> QED
    BY Zenon, <1>1, <1>2, <2>1, <2>2, OpenMoves, Names
<1>4. CASE LoopGate \/ LoopUnstarted
  <2>1. \E q \in P : Move("loop", q)
    BY Zenon, <1>4 DEF LoopGate, LoopUnstarted, Goto, ObserveThen
  <2>2. pc["loop"] # Hold("broken")
    BY <1>4 DEF LoopGate, LoopUnstarted, Loop, At, Hold
  <2> QED
    BY Zenon, <1>1, <1>2, <2>1, <2>2, OpenMoves, Names
<1>5. CASE MonitorChecks \/ MonitorSettles
  <2>1. \E q \in P : Move("mon", q)
    BY Zenon, <1>5 DEF MonitorChecks, MonitorSettles, Goto, ObserveThen
  <2>2. pc["mon"] # Hold("broken")
    BY Zenon, <1>5, Apart DEF MonitorChecks, MonitorSettles
  <2> QED
    BY Zenon, <1>1, <1>2, <2>1, <2>2, OpenMoves, Names
<1> QED
  BY Zenon, <1>3, <1>4, <1>5

\* Two goroutines move at once, to places that neither hold nor enter Maintain.
LEMMA FencePair ==
  ASSUME Inv, Inv', Fence, Latched, NEW a \in Actors, NEW b \in Actors, NEW p, NEW q,
         pc' = [pc EXCEPT ![a] = p, ![b] = q], pc[a] # Hold("broken"), pc[b] # Hold("broken"),
         p[1] # "hold", q[1] # "hold", p \in InMaintain => pc[a] \in InMaintain,
         q \in InMaintain => pc[b] \in InMaintain,
         worker' \in {worker, Nobody} \/ (worker' = a /\ a # b /\ p \notin InMaintain)
           \/ (worker' = b /\ q \notin InMaintain)
  PROVE  Fence'
<1>1. /\ pc'[b] = q /\ (a # b => pc'[a] = p)
      /\ \A x \in Actors : x \notin {a, b} => pc'[x] = pc[x]
  BY Zenon DEF Inv, TypeOK
<1> QED
  BY Zenon, <1>1, FenceKept DEF Fenced

LEMMA FenceStep5 ==
  ASSUME Inv, Inv', Fence, NEW a \in Actors,
         OwnReceives(a) \/ IdleReceives(a) \/ AnswerUpdate(a) \/ Join \/ SpawnMonitor
  PROVE  Fence'
<1> USE DEF flags, work
<1>1. "loop" \in Actors /\ "mon" \in Actors
  BY Zenon, Names
<1>2. Latched
  <2>1. flags' = flags
    BY Zenon DEF OwnReceives, IdleReceives, AnswerUpdate, Join, SpawnMonitor
  <2> QED
    BY <2>1 DEF Latched
<1>3. \A u, v \in BOOLEAN : \A e \in WorkEntry(u, v) : Open(e.place)
  BY EntryPlace DEF Open, InMaintain, At, Ask
<1>4. ASSUME NEW x \in Actors, NEW w, pc[x] = <<"send", w>> \/ pc[x] = <<"sent", w>>
      PROVE  Answered(x, w)[1] # "hold" /\ (Answered(x, w) \in InMaintain => pc[x] \in InMaintain)
             /\ (<<"sent", w>> \in InMaintain => pc[x] \in InMaintain)
  <2>1. w = "halt" => pc[x] \in InMaintain
    BY Zenon, <1>4 DEF InMaintain
  <2>2. pc[x] \in InMaintain => ret[x][1] # "hold"
    BY Zenon, BackFits DEF Inv, PlacesOK, Legal
  <2> QED
    BY Zenon, <2>1, <2>2 DEF Answered, InMaintain, At
<1>5. CASE SpawnMonitor
  <2>1. pc["loop"] # Hold("broken") /\ pc["mon"] # Hold("broken") /\ worker' = worker
    <3>1. pc["loop"] = At("spawn") /\ worker' = worker
      BY Zenon, <1>5 DEF SpawnMonitor, Loop
    <3>2. pc["loop"] \notin Watching
      BY <3>1 DEF Watching, At
    <3> QED
      BY Zenon, <3>1, <3>2, Apart DEF Inv, MonitorOK
  <2>2. pc' = [pc EXCEPT !["loop"] = At("own"), !["mon"] = At("health")]
    BY Zenon, <1>5 DEF SpawnMonitor
  <2>3. Open(At("own")) /\ Open(At("health"))
    BY Zenon DEF Open, InMaintain, At
  <2> QED
    BY Zenon, <1>1, <1>2, <2>1, <2>2, <2>3, FencePair DEF Open
<1>6. CASE OwnReceives(a)
  <2>1. pc["loop"] = At("own") /\ pc[a] = <<"send", pc[a][2]>> /\ worker' = worker
    <3>1. pc[a][1] = "send" /\ pc[a] \in Places /\ pc["loop"] = At("own") /\ worker' = worker
      BY Zenon, <1>6, Names DEF OwnReceives, Loop, Inv, TypeOK, work, owning, ops
    <3> QED
      BY <3>1 DEF Places
  <2>2. pc["loop"] # Hold("broken") /\ pc[a] # Hold("broken") /\ At("join")[1] # "hold"
        /\ At("join") \notin InMaintain
    BY <2>1 DEF At, Hold, InMaintain
  <2>3. <<"sent", pc[a][2]>> \in InMaintain => pc[a] \in InMaintain
    BY Zenon, <1>4, <2>1
  <2>4. pc' = [pc EXCEPT ![a] = <<"sent", pc[a][2]>>, !["loop"] = At("join")]
    BY Zenon, <1>6 DEF OwnReceives
  <2>5. <<"sent", pc[a][2]>>[1] # "hold"
    OBVIOUS
  <2> QED
    BY Zenon, <1>1, <1>2, <2>1, <2>2, <2>3, <2>4, <2>5, FencePair
<1>7. CASE AnswerUpdate(a)
  <2>1. a = worker /\ pc[a] = At("answer") /\ worker' = Nobody
        /\ pc' = [pc EXCEPT ![a] = At("top"), ![client] = At("leave")]
    BY Zenon, <1>7 DEF AnswerUpdate, Working
  <2>2. client \in Actors /\ pc[client] # Hold("broken") /\ pc[a] # Hold("broken")
    <3>1. client \in Callers /\ (client = worker \/ pc[client] = <<"sent", "update">>)
      BY Zenon, <2>1, ClientOwns, Names DEF Inv, OwnersOK, TypeOK
    <3> QED
      BY Zenon, <2>1, <3>1, Names, Apart
  <2>3. Open(At("top")) /\ Open(At("leave"))
    BY Zenon DEF Open, InMaintain, At
  <2> QED
    BY Zenon, <1>2, <2>1, <2>2, <2>3, FencePair DEF Open
<1>8. CASE IdleReceives(a)
  <2>1. pc["loop"] \in {At("backoff"), At("idle")} /\ pc[a] = <<"send", pc[a][2]>>
    <3>1. pc[a][1] = "send" /\ pc[a] \in Places /\ pc["loop"] \in {At("backoff"), At("idle")}
      BY Zenon, <1>8, Names DEF IdleReceives, Loop, Inv, TypeOK
    <3> QED
      BY <3>1 DEF Places
  <2>2. pc["loop"] # Hold("broken") /\ pc[a] # Hold("broken") /\ a # "loop"
        /\ At("top")[1] # "hold" /\ At("top") \notin InMaintain
    BY <2>1 DEF At, Hold, InMaintain
  <2>3. CASE worker' = "loop" /\ \E e \in WorkEntry(kind[a] = "reinstall", ~waiting) :
                pc' = [pc EXCEPT ![a] = <<"sent", pc[a][2]>>, !["loop"] = e.place]
    <3>1. PICK e \in WorkEntry(kind[a] = "reinstall", ~waiting) :
                pc' = [pc EXCEPT ![a] = <<"sent", pc[a][2]>>, !["loop"] = e.place]
      BY Zenon, <2>3
    <3>2. Open(e.place)
      BY Zenon, <1>3 DEF Inv, TypeOK
    <3> QED
      <4>1. <<"sent", pc[a][2]>> \in InMaintain => pc[a] \in InMaintain
        BY Zenon, <1>4, <2>1
      <4>2. <<"sent", pc[a][2]>>[1] # "hold"
        OBVIOUS
      <4>3. e.place[1] # "hold" /\ e.place \notin InMaintain
        BY Zenon, <3>2 DEF Open
      <4>4. worker' = "loop"
        BY Zenon, <2>3
      <4> QED
        BY Zenon, <1>1, <1>2, <2>2, <3>1, <4>1, <4>2, <4>3, <4>4, FencePair
  <2>4. CASE worker' = worker /\ pc' = [pc EXCEPT !["loop"] = At("top"), ![a] = Answered(a, pc[a][2])]
    <3>1. Answered(a, pc[a][2])[1] # "hold" /\ (Answered(a, pc[a][2]) \in InMaintain => pc[a] \in InMaintain)
      BY Zenon, <1>4, <2>1
    <3> QED
      BY Zenon, <1>1, <1>2, <2>2, <2>4, <3>1, FencePair
  <2> QED
    BY Zenon, <1>8, <2>3, <2>4 DEF IdleReceives
<1>9. CASE Join
  <2>1. pc["loop"] = At("join") /\ pc["loop"] # Hold("broken")
    BY Zenon, <1>9, Apart DEF Join, Loop
  <2>2. CASE worker' \in {worker, "loop"} /\ \E q : Move("loop", q) /\ Open(q)
    BY Zenon, <1>1, <1>2, <2>1, <2>2, OpenMoves
  <2>3. CASE /\ worker' = worker
             /\ pc' = [pc EXCEPT !["loop"] = At("top"), ![job.who] =
                         IF @ = <<"sent", job.what>> THEN Answered(job.who, job.what) ELSE @]
    <3>1. CASE job.who \in Actors /\ job.who # "loop"
      <4> DEFINE q == IF pc[job.who] = <<"sent", job.what>> THEN Answered(job.who, job.what) ELSE pc[job.who]
      <4>1. /\ pc'["loop"] = At("top") /\ pc'[job.who] = q
            /\ \A x \in Actors : x \notin {"loop", job.who} => pc'[x] = pc[x]
        BY Zenon, <1>1, <2>3, <3>1 DEF Inv, TypeOK
      <4>2. \/ q = pc[job.who]
            \/ /\ pc[job.who] # Hold("broken") /\ ~Fenced(q)
               /\ (q \in InMaintain => pc[job.who] \in InMaintain)
        <5>1. CASE pc[job.who] = <<"sent", job.what>>
          <6>1. /\ q = Answered(job.who, job.what) /\ q[1] # "hold"
                /\ q \in InMaintain => pc[job.who] \in InMaintain
            BY Zenon, <1>4, <3>1, <5>1
          <6>2. pc[job.who] # Hold("broken")
            BY <5>1 DEF Hold
          <6> HIDE DEF q
          <6> QED
            BY Zenon, <6>1, <6>2 DEF Fenced
        <5>2. CASE pc[job.who] # <<"sent", job.what>>
          BY Zenon, <5>2
        <5> QED
          BY Zenon, <5>1, <5>2
      <4>3. ~Fenced(At("top")) /\ At("top") \notin InMaintain
        BY Zenon DEF Fenced, InMaintain, At
      <4> QED
        BY Zenon, <1>2, <2>1, <2>3, <4>1, <4>2, <4>3, FenceKept
    <3>2. CASE ~(job.who \in Actors /\ job.who # "loop")
      <4>1. pc'["loop"] = At("top") /\ \A x \in Actors : x # "loop" => pc'[x] = pc[x]
        <5>1. At("top") # <<"sent", job.what>>
          BY DEF At
        <5> QED
          BY <1>1, <2>3, <3>2, <5>1 DEF Inv, TypeOK
      <4>2. ~Fenced(At("top")) /\ At("top") \notin InMaintain
        BY Zenon DEF Fenced, InMaintain, At
      <4> QED
        BY Zenon, <1>2, <2>1, <2>3, <4>1, <4>2, FenceKept
    <3> QED
      BY Zenon, <3>1, <3>2
  <2>4. Open(At("top")) /\ Open(Observe)
    BY Zenon DEF Open, InMaintain, Observe, At, Want
  <2>5. ASSUME NEW e \in WorkEntry(kind[job.who] = "reinstall", TRUE) PROVE Open(e.place)
    BY Zenon, <1>3
  <2> QED
    BY Zenon, <1>9, <2>2, <2>3, <2>4, <2>5 DEF Join, Goto, ObserveThen
<1> QED
  BY Zenon, <1>5, <1>6, <1>7, <1>8, <1>9

LEMMA FenceQuiet ==
  ASSUME Inv, Inv', Fence, Cancel \/ Closes \/ UNCHANGED vars
  PROVE  Fence'
<1>1. Latched /\ pc' = pc /\ worker' = worker
  BY DEF Cancel, Closes, vars, flags, work, Latched
<1> QED
  BY Zenon, <1>1, FenceKept

==============================================================================
