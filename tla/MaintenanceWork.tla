--------------------------- MODULE MaintenanceWork ---------------------------
(***************************************************************************)
(* The steps of Maintenance in which two goroutines meet or an update      *)
(* works: requests the loop takes and answers, the work of an update, the  *)
(* starts of a core, the reservation and its end.  Each keeps the          *)
(* invariant of MaintenanceProofs.                                         *)
(***************************************************************************)

EXTENDS MaintenanceProofs

-----------------------------------------------------------------------------
\* The loop takes or answers a request.

\* Sender a goes to q while the loop passes from one resting place to another.
LEMMA SenderMoves ==
  ASSUME Inv, TypeOK', NEW a \in Actors, NEW w, NEW q, Moves(a, q, ret[a]), Frame, KeepsMonitor(a),
         pc[a] = <<"send", w>> \/ pc[a] = <<"sent", w>>, token' = token, gate' = gate, stale' = stale,
         q = Answered(a, w) \/ q = <<"sent", w>>,
         w = "halt" => job' = job \/ job'.what # "update",
         w # "halt" => KeepsStage(a, q)
  PROVE  Inv'
<1>1. pc[a][1] \in {"send", "sent"} /\ pc[a][2] = w
  OBVIOUS
<1>2. CASE w = "halt"
  <2>1. pc[a] \in InMaintain /\ (q \in InMaintain \/ q = ret[a])
    BY Zenon, <1>2 DEF InMaintain, Answered
  <2> QED
    BY Zenon, <1>2, <2>1, MaintainMoves
<1>3. CASE w # "halt"
  <2>1. /\ a \in Callers /\ a # worker /\ w \in {"restart", "update"} /\ kind[a] # "none"
        /\ w = "restart" => kind[a] = "restart"
        /\ w = "update" => Updating(kind[a])
    BY Zenon, <1>1, <1>3, SenderStands
  <2>2. q \in {At("leave"), <<"sent", w>>}
    BY Zenon, <1>3 DEF Answered
  <2>3. CallerAt(kind[a], q) /\ q[1] # "hold" /\ q \notin InMaintain /\ q \notin Observing
    BY <1>3, <2>1, <2>2 DEF CallerAt, UpdatePlaces, InMaintain, Observing, At, Want, Hold
  <2> QED
    BY Zenon, <1>1, <1>3, <2>1, <2>3, CallerMoves
<1> QED
  BY Zenon, <1>2, <1>3

LEMMA OwnReceivesStep ==
  ASSUME Inv, TypeOK', NEW a \in Actors, OwnReceives(a)
  PROVE  Inv'
<1> DEFINE w == pc[a][2]
           q == <<"sent", w>>
<1>1. /\ Frame /\ token' = token /\ gate' = gate /\ stale' = stale
      /\ job' = [what |-> w, who |-> a] /\ pc["loop"] = At("own") /\ pc[a][1] = "send"
  BY Zenon DEF OwnReceives, StopsChild, Loop, Frame, flags, work, owning, ops
<1>2. a # "loop" /\ pc[a] = <<"send", w>>
  BY <1>1 DEF Inv, TypeOK, Places, At
<1>3. /\ pc'["loop"] = At("join") /\ pc'[a] = q /\ ret' = ret
      /\ \A x \in Actors : x \notin {"loop", a} => pc'[x] = pc[x]
  BY Zenon, <1>2, Names DEF OwnReceives, Inv, TypeOK
<1>4. Moves(a, q, ret[a])
  BY Zenon, <1>1, <1>2, <1>3 DEF Moves, Still, Rests
<1>5. KeepsMonitor(a)
  BY Zenon, <1>3 DEF KeepsMonitor, Watching
<1>6. w # "halt" => a \in Callers
  BY Zenon, <1>1, SenderStands
<1>7. w # "halt" => KeepsStage(a, q)
  BY <1>1, <1>2, <1>6 DEF KeepsStage, UpdatePlaces, At
<1>8. w = "halt" => job'.what # "update"
  BY Zenon, <1>1
<1> QED
  BY Zenon, <1>1, <1>2, <1>4, <1>5, <1>7, <1>8, SenderMoves

\* The idle loop, or the one in its backoff, answers a request it does not carry out.
Declines(a) ==
  /\ Loop \in {At("backoff"), At("idle")} /\ pc[a][1] = "send"
  /\ pc' = [pc EXCEPT !["loop"] = At("top"), ![a] = Answered(a, pc[a][2])]
  /\ UNCHANGED <<flags, work, waiting, core, monCancel, job, owning, ops, run, ret>>

LEMMA DeclinesStep ==
  ASSUME Inv, TypeOK', NEW a \in Actors, Declines(a)
  PROVE  Inv'
<1> DEFINE w == pc[a][2]
           q == Answered(a, w)
<1>1. /\ Frame /\ token' = token /\ gate' = gate /\ stale' = stale /\ job' = job
      /\ pc["loop"] \in {At("backoff"), At("idle")} /\ pc[a][1] = "send"
  BY Zenon DEF Declines, Loop, Frame, flags, work, owning, ops
<1>2. a # "loop" /\ pc[a] = <<"send", w>>
  BY <1>1 DEF Inv, TypeOK, Places, At
<1>3. /\ pc'["loop"] = At("top") /\ pc'[a] = q /\ ret' = ret
      /\ \A x \in Actors : x \notin {"loop", a} => pc'[x] = pc[x]
  BY Zenon, <1>2, Names DEF Declines, Inv, TypeOK
<1>4. Moves(a, q, ret[a])
  BY Zenon, <1>1, <1>2, <1>3 DEF Moves, Still, Rests
<1>5. pc["loop"] \notin Watching /\ a # "mon"
  BY <1>1, <1>2 DEF Inv, MonitorOK, Watching, At
<1>6. KeepsMonitor(a)
  BY Zenon, <1>5 DEF KeepsMonitor
<1>7. w # "halt" => KeepsStage(a, q)
  BY <1>1, <1>2 DEF KeepsStage, UpdatePlaces, Answered, At
<1> QED
  BY Zenon, <1>1, <1>2, <1>4, <1>6, <1>7, SenderMoves

\* After the monitor ended, the loop answers a halt, a restart or a lost update,
\* or goes on because the run or the child ended.
Joins ==
  /\ Loop = At("join") /\ pc["mon"] \in {At("gone"), At("sick")}
  /\ job' = NoJob
  /\ LET a == job.who  w == job.what IN
       \/ /\ w \in {"halt", "restart", "update"}
          /\ pc' = [pc EXCEPT !["loop"] = At("top"),
                      ![a] = IF @ = <<"sent", w>> THEN Answered(a, w) ELSE @]
          /\ UNCHANGED ret
       \/ Goto("loop", At("top"))
       \/ ObserveThen("loop", At("backoff"))
  /\ UNCHANGED <<flags, work, waiting, core, monCancel, owning, ops, run>>

LEMMA JoinsStep ==
  ASSUME Inv, TypeOK', Joins
  PROVE  Inv'
<1> DEFINE a == job.who
           w == job.what
           q == Answered(a, w)
<1>1. /\ Frame /\ token' = token /\ gate' = gate /\ stale' = stale /\ job' = NoJob
      /\ pc["loop"] = At("join") /\ pc["mon"] \in {At("gone"), At("sick")}
  BY Zenon DEF Joins, Loop, Frame, flags, work, owning, ops
<1>2. /\ job'.what # "update" /\ pc["loop"] \in Rests /\ LetsGo("loop")
  BY <1>1 DEF NoJob, Rests, LetsGo, At
<1>3. worker # "loop"
  BY <1>1, Names DEF Inv, PlacesOK, Legal, StandsAt, WorkAt, Locks, InMaintain, At, Hold
<1>4. CASE Goto("loop", At("top"))
  <2>1. Only("loop", At("top"), ret["loop"])
    BY Zenon, <1>4, GotoGoes, Names DEF Inv
  <2> QED
    BY Zenon, <1>1, <1>2, <2>1, LoopMoves DEF Rests
<1>5. CASE ObserveThen("loop", At("backoff"))
  <2>1. Only("loop", Observe, At("backoff"))
    BY Zenon, <1>5, ObserveGoes, Names DEF Inv
  <2> QED
    BY Zenon, <1>1, <1>2, <2>1, LoopMoves
<1>6. CASE /\ w \in {"halt", "restart", "update"} /\ ret' = ret
           /\ pc' = [pc EXCEPT !["loop"] = At("top"),
                       ![a] = IF @ = <<"sent", w>> THEN Answered(a, w) ELSE @]
  <2>1. CASE a \in Actors /\ pc[a] = <<"sent", w>>
    <3>1. a # "loop" /\ a # "mon"
      BY <1>1, <2>1 DEF At
    <3>2. /\ pc'["loop"] = At("top") /\ pc'[a] = q
          /\ \A x \in Actors : x \notin {"loop", a} => pc'[x] = pc[x]
      BY Zenon, <1>6, <2>1, <3>1, Names DEF Inv, TypeOK
    <3>3. Moves(a, q, ret[a])
      BY Zenon, <1>1, <1>6, <3>1, <3>2 DEF Moves, Still, Rests
    <3>4. KeepsMonitor(a)
      BY Zenon, <1>1, <3>1 DEF KeepsMonitor
    <3>5. w # "halt" => KeepsStage(a, q)
      BY Zenon, <1>2, <1>3, <2>1 DEF KeepsStage, UpdatePlaces, Answered, At
    <3> QED
      BY Zenon, <1>1, <1>2, <2>1, <3>3, <3>4, <3>5, SenderMoves
  <2>2. CASE ~(a \in Actors /\ pc[a] = <<"sent", w>>)
    <3>1. pc'["loop"] = At("top") /\ \A x \in Actors : x # "loop" => pc'[x] = pc[x]
      BY <1>6, <2>2, Names DEF Inv, TypeOK, At
    <3>2. Only("loop", At("top"), ret["loop"])
      BY Zenon, <1>6, <3>1 DEF Only
    <3> QED
      BY Zenon, <1>1, <1>2, <3>2, LoopMoves DEF Rests
  <2> QED
    BY Zenon, <2>1, <2>2
<1> QED
  BY Zenon, <1>4, <1>5, <1>6 DEF Joins

-----------------------------------------------------------------------------
\* The work of an update.

LEMMA WorkerMoves ==
  ASSUME Inv, TypeOK', NEW a \in Actors, a = worker, NEW q, NEW r, Only(a, q, r), Frame, LetsGo(a),
         WorkAt(pc[a]), WorkAt(q), q[1] # "hold", q = Observe => r = At("answer"),
         gate' = gate, job' = job, KeepsInputs, Reports(pc[a]) => Reports(q)
  PROVE  Inv'
<1>1. \A p : WorkAt(p) => /\ p \notin InMaintain /\ p \notin UpdatePlaces /\ p # At("leave")
                           /\ p \notin {At("gone"), At("sick")} \cup Watching
  BY DEF WorkAt, InMaintain, UpdatePlaces, Watching, Locks, At, Hold
<1>2. Legal(a, q, r)
  BY <1>1 DEF Legal, StandsAt, AfterObserve, Observing, Observe, Hold
<1>3. KeepsGate(a, q, r)
  BY Zenon DEF KeepsGate
<1>4. KeepsMonitor(a)
  BY Zenon, <1>1, MonitorKept
<1>5. HasReported(a) => Reports(Landing(q, r))
  BY Zenon, <1>1 DEF HasReported, Landing
<1> QED
  BY Zenon, <1>1, <1>2, <1>3, <1>4, <1>5, PlainInv

LEMMA WorkStep ==
  ASSUME Inv, TypeOK', NEW a \in Actors, WorkFault(a) \/ saveCoreSelection(a) \/ performUpdate(a)
  PROVE  Inv'
<1> USE DEF WorkAt, Locks, At, Ask, Want, Hold, Observe
<1>1. /\ worker' = worker /\ client' = client /\ kind' = kind /\ reserved' = reserved /\ stale' = stale
      /\ gate' = gate /\ job' = job /\ a = worker
  BY Zenon DEF WorkFault, saveCoreSelection, performUpdate, Working, super, work, owning,
     ops
<1>0. recovery' => recovery
  BY Zenon DEF WorkFault, saveCoreSelection, performUpdate, flags
<1>f. Frame /\ KeepsInputs
  BY Zenon, <1>0, <1>1 DEF Frame, KeepsInputs
<1>2. CASE WorkFault(a)
  <2>1. PICK q \in {At("block"), Ask("save")} : Goto(a, q)
    BY Zenon, <1>2 DEF WorkFault
  <2>2. Only(a, q, ret[a]) /\ token' = token /\ pc[a] = At("fault")
    BY Zenon, <1>2, <2>1, GotoGoes DEF WorkFault, owning, Inv
  <2>3. WorkAt(q) /\ q[1] # "hold" /\ q # Observe /\ WorkAt(pc[a]) /\ ~Reports(pc[a]) /\ LetsGo(a)
    BY <2>1, <2>2 DEF Reports, Observing, LetsGo
  <2> QED
    BY Zenon, <1>1, <1>f, <2>2, <2>3, WorkerMoves
<1>3. CASE saveCoreSelection(a) /\ Holds(a, "save") /\ releaseMutation(a, At("saving"))
  <2>1. Only(a, At("saving"), ret[a]) /\ token' = Nobody /\ token = a /\ pc[a] = Hold("save")
    BY Zenon, <1>3, ReleaseGoes DEF Inv, Holds
  <2>2. WorkAt(At("saving")) /\ At("saving")[1] # "hold" /\ At("saving") # Observe
        /\ WorkAt(pc[a]) /\ ~Reports(pc[a]) /\ LetsGo(a)
    BY <2>1 DEF Reports, Observing, LetsGo
  <2> QED
    BY Zenon, <1>1, <1>f, <2>1, <2>2, WorkerMoves
<1>4. CASE saveCoreSelection(a) /\ pc[a] = At("saving") /\ token' = token
  <2>1. PICK q \in {At("fault"), Ask("prep1"), Want("publish")} : Goto(a, q)
    BY <1>4 DEF saveCoreSelection, Holds
  <2>2. Only(a, q, ret[a])
    BY Zenon, <2>1, GotoGoes DEF Inv
  <2>3. WorkAt(q) /\ q[1] # "hold" /\ q # Observe /\ WorkAt(pc[a]) /\ ~Reports(pc[a]) /\ LetsGo(a)
    BY <1>4, <2>1 DEF Reports, Observing, LetsGo
  <2> QED
    BY Zenon, <1>1, <1>f, <2>2, <2>3, WorkerMoves
<1>5. CASE performUpdate(a) /\ pc[a] = At("finish") /\ Goto(a, At("answer"))
  <2>1. Only(a, At("answer"), ret[a]) /\ token' = token
    BY Zenon, <1>5, GotoGoes DEF performUpdate, owning, Inv
  <2>2. WorkAt(At("answer")) /\ At("answer")[1] # "hold" /\ At("answer") # Observe
        /\ WorkAt(pc[a]) /\ ~Reports(pc[a]) /\ LetsGo(a)
    BY <1>5, <2>1 DEF Reports, Observing, LetsGo
  <2> QED
    BY Zenon, <1>1, <1>f, <2>1, <2>2, WorkerMoves
<1>6. CASE performUpdate(a) /\ pc[a] = At("unsound") /\ ObserveThen(a, At("answer"))
  <2>1. Only(a, Observe, At("answer")) /\ token' = token
    BY Zenon, <1>6, ObserveGoes DEF performUpdate, owning, Inv
  <2>2. WorkAt(Observe) /\ Observe[1] # "hold" /\ WorkAt(pc[a]) /\ Reports(Observe) /\ LetsGo(a)
    BY <1>6, <2>1 DEF Reports, Observing, LetsGo
  <2> QED
    BY Zenon, <1>1, <1>f, <2>1, <2>2, WorkerMoves
<1> QED
  BY Zenon, <1>2, <1>3, <1>4, <1>5, <1>6 DEF saveCoreSelection, performUpdate

LEMMA WorkHoldStep ==
  ASSUME Inv, TypeOK', NEW a \in Actors,
         \/ publishCoreSelection(a) \/ ApplyDesiredSystemProxy(a)
         \/ blockCoreUpdate(a) /\ Holds(a, "block")
  PROVE  Inv'
<1> USE DEF WorkAt, Locks, At, Ask, Want, Hold, Observe
<1>1. /\ Frame /\ gate' = gate /\ job' = job /\ a = worker
  BY DEF publishCoreSelection, ApplyDesiredSystemProxy, blockCoreUpdate, Holds, Working, Frame, super, work, ops
<1>2. CASE publishCoreSelection(a)
  <2>1. Holds(a, "publish") /\ ~Reports(Hold("publish"))
    BY Zenon, <1>2 DEF publishCoreSelection, Reports, Observing
  <2>2. KeepsInputs
    BY Zenon, <1>1, <1>2, OwnMoves DEF publishCoreSelection, KeepsInputs
  <2>3. CASE releaseMutation(a, Want("apply"))
    <3>1. Only(a, Want("apply"), ret[a]) /\ token' = Nobody /\ token = a /\ pc[a] = Hold("publish")
      BY Zenon, <2>1, <2>3, ReleaseGoes DEF Inv, Holds
    <3>2. WorkAt(Want("apply")) /\ Want("apply")[1] # "hold" /\ Want("apply") # Observe
          /\ WorkAt(pc[a]) /\ ~Reports(pc[a]) /\ LetsGo(a)
      BY <2>1, <3>1 DEF LetsGo
    <3> QED
      BY Zenon, <1>1, <2>2, <3>1, <3>2, WorkerMoves
  <2>4. CASE \E p \in {At("finish"), At("block")} : releaseMutation(a, p)
    <3>1. PICK p \in {At("finish"), At("block")} : releaseMutation(a, p)
      BY Zenon, <2>4
    <3>2. AfterMaintain(a, p) /\ p # At("unstarted")
      BY <1>1, <3>1 DEF AfterMaintain
    <3> QED
      BY Zenon, <1>1, <2>1, <2>2, <3>1, <3>2, HolderResumes
  <2> QED
    BY Zenon, <1>2, <2>3, <2>4 DEF publishCoreSelection
<1>3. CASE ApplyDesiredSystemProxy(a)
  <2>1. AfterMaintain(a, At("finish")) /\ At("finish") # At("unstarted") /\ ~Reports(Hold("apply"))
    BY Zenon, <1>1 DEF AfterMaintain, Reports, Observing
  <2>2. Holds(a, "apply") /\ unlock(a, At("finish")) /\ KeepsInputs
    BY Zenon, <1>3 DEF ApplyDesiredSystemProxy, KeepsInputs, ops
  <2> QED
    BY Zenon, <1>1, <2>1, <2>2, HolderResumes
<1>4. CASE blockCoreUpdate(a) /\ Holds(a, "block")
  <2>1. AfterMaintain(a, At("unsound")) /\ At("unsound") # At("unstarted") /\ Reports(At("unsound"))
    BY Zenon, <1>1 DEF AfterMaintain, Reports
  <2>2. releaseMutation(a, At("unsound")) /\ KeepsInputs
    BY <1>4 DEF blockCoreUpdate, Holds, KeepsInputs, ops
  <2> QED
    BY Zenon, <1>1, <1>4, <2>1, <2>2, HolderResumes
<1> QED
  BY Zenon, <1>2, <1>3, <1>4

-----------------------------------------------------------------------------
\* Starts, restored routing and Observe.

\* The starter goes on to q, which is not a hold place, and lets the token go.
LEMMA StarterMoves ==
  ASSUME Inv, TypeOK', NEW a \in Actors, NEW q, Only(a, q, ret[a]), Frame, LetsGo(a),
         pc[a][1] \in Locks, pc[a][2] \in {"prep1", "prep2", "start"},
         q[1] # "hold", q \notin InMaintain, q \notin Observing, q \notin UpdatePlaces,
         IF a = worker THEN WorkAt(q) ELSE LoopStarts(q),
         job' = job, gate' = gate, KeepsInputs
  PROVE  Inv'
<1>1. Legal(a, q, ret[a])
  BY Zenon, StarterIs DEF Legal, StandsAt, LoopAt
<1>2. KeepsGate(a, q, ret[a])
  BY Zenon, StarterIs DEF KeepsGate
<1>3. KeepsMonitor(a)
  BY Zenon, StarterIs, MonitorKept
<1> QED
  BY Zenon, <1>1, <1>2, <1>3, StarterIs, PlainInv

LEMMA PrepareStep ==
  ASSUME Inv, TypeOK', NEW a \in Actors, PrepareFails(a) \/ PrepareCapture(a)
  PROVE  Inv'
<1>1. /\ Frame /\ job' = job /\ gate' = gate
  BY DEF PrepareFails, PrepareCapture, Frame, flags, super, work, owning
<1>2. KeepsInputs
  <2>1. stale' \subseteq stale \cup Starts
    BY Zenon DEF PrepareFails, PrepareCapture
  <2> QED
    BY Zenon, <2>1, EpochMoves
<1>3. CASE PrepareFails(a)
  <2>1. Only(a, Failed(a, "prep1"), ret[a]) /\ token' = token
    BY Zenon, <1>3, GotoGoes DEF PrepareFails, Inv, owning
  <2>2. pc[a][1] = "ask" /\ pc[a][2] \in {"prep1", "prep2"}
    BY <1>3 DEF PrepareFails, Ask
  <2> QED
    BY Zenon, <1>1, <1>2, <2>1, <2>2, FailedFits, ResumeInv DEF Resumes, Locks, LetsGo
<1>4. CASE PrepareCapture(a) /\ releaseMutation(a, Failed(a, "prep1"))
  <2>1. Holds(a, "prep1")
    BY Zenon, <1>4 DEF PrepareCapture
  <2>2. Only(a, Failed(a, "prep1"), ret[a]) /\ token' = Nobody
    BY Zenon, <1>4, ReleaseGoes DEF Inv
  <2> QED
    BY Zenon, <1>1, <1>2, <2>1, <2>2, Holder, FailedFits, ResumeInv DEF Resumes, LetsGo
<1>5. CASE PrepareCapture(a) /\ releaseMutation(a, Ask("prep2"))
  <2>1. Holds(a, "prep1")
    BY Zenon, <1>5 DEF PrepareCapture
  <2>2. Only(a, Ask("prep2"), ret[a]) /\ token' = Nobody
    BY Zenon, <1>5, ReleaseGoes DEF Inv
  <2>3. /\ Ask("prep2")[1] # "hold" /\ Ask("prep2") \notin InMaintain /\ Ask("prep2") \notin Observing
        /\ Ask("prep2") \notin UpdatePlaces /\ WorkAt(Ask("prep2")) /\ LoopStarts(Ask("prep2"))
    BY Zenon DEF InMaintain, Observing, UpdatePlaces, WorkAt, LoopStarts, Locks, At, Ask,
       Want, Hold
  <2> QED
    BY Zenon, <1>1, <1>2, <2>1, <2>2, <2>3, Holder, StarterMoves DEF LetsGo
<1> QED
  BY Zenon, <1>3, <1>4, <1>5 DEF PrepareCapture

LEMMA PreparePublishStep ==
  ASSUME Inv, TypeOK', NEW a \in Actors, PreparePublish(a)
  PROVE  Inv'
<1>1. /\ Frame /\ job' = job /\ gate' = gate /\ Holds(a, "prep2")
  BY Zenon DEF PreparePublish, Frame, super, work
<1>2. KeepsInputs
  BY Zenon, <1>1, HolderOwns, OwnMoves DEF PreparePublish, KeepsInputs
<1>3. /\ pc[a][1] = "hold" /\ pc[a][1] \in Locks /\ pc[a][2] = "prep2" /\ token = a
      /\ pc[a] = Hold("prep2")
  BY Zenon, <1>1, Holder
<1>4. CASE Goto(a, Hold("start")) /\ token' = token
  <2> DEFINE q == Hold("start")
  <2>1. Only(a, q, ret[a])
    BY Zenon, <1>4, GotoGoes DEF Inv
  <2>2. q \notin InMaintain /\ q \notin Observing /\ WorkAt(q) /\ LoopStarts(q)
    BY Zenon DEF InMaintain, Observing, WorkAt, LoopStarts, Locks, At, Want, Hold
  <2>3. Legal(a, q, ret[a])
    BY Zenon, <1>3, <2>2, StarterIs DEF Legal, StandsAt, LoopAt
  <2>4. TakesTurn(a, q)
    BY Zenon, <1>3, <1>4 DEF TakesTurn, Hold, Mutating
  <2>5. KeepsStage(a, q)
    BY <1>1, <1>3 DEF KeepsStage, UpdatePlaces, At, Hold
  <2>6. KeepsGate(a, q, ret[a])
    BY Zenon, <1>1, <1>3, StarterIs DEF KeepsGate
  <2>7. KeepsMonitor(a)
    BY Zenon, <1>3, <2>1, StarterIs, MonitorKept
  <2>8. KeepsRecovery(a, q, ret[a])
    <3>1. recovery => a = worker /\ kind[client] = "reinstall"
      BY Zenon, <1>3 DEF Inv, RecoveryOK
    <3>2. q # Hold("reserve") /\ ~HasReported(a)
      BY Zenon, <1>3, StarterIs DEF Hold
    <3> QED
      BY Zenon, <3>1, <3>2 DEF KeepsRecovery
  <2>9. Goes(a, q, ret[a])
    BY Zenon, <1>1, <1>2, <2>1, <2>3, <2>4, <2>5, <2>6, <2>7, <2>8, OnlyMoves DEF Goes,
       Walks, Frame
  <2> QED
    BY Zenon, <2>9, GoesInv
<1>5. CASE releaseMutation(a, Failed(a, "prep2"))
  <2>1. Only(a, Failed(a, "prep2"), ret[a]) /\ token' = Nobody
    BY Zenon, <1>5, ReleaseGoes DEF Inv
  <2> QED
    BY Zenon, <1>1, <1>2, <1>3, <2>1, FailedFits, ResumeInv DEF Resumes, LetsGo
<1>6. CASE \E q : q = (IF a = worker THEN At("fault") ELSE At("unsafe")) /\ releaseMutation(a, q)
  <2>1. PICK q : q = (IF a = worker THEN At("fault") ELSE At("unsafe")) /\ releaseMutation(a, q)
    BY Zenon, <1>6
  <2>2. Only(a, q, ret[a]) /\ token' = Nobody
    BY Zenon, <2>1, ReleaseGoes DEF Inv
  <2>3. /\ q[1] # "hold" /\ q \notin InMaintain /\ q \notin Observing /\ q \notin UpdatePlaces
        /\ IF a = worker THEN WorkAt(q) ELSE LoopStarts(q)
    BY Zenon, <2>1 DEF InMaintain, Observing, UpdatePlaces, WorkAt, LoopStarts, Locks, At,
       Want, Hold
  <2> QED
    BY Zenon, <1>1, <1>2, <1>3, <2>2, <2>3, StarterMoves DEF LetsGo
<1> QED
  BY Zenon, <1>4, <1>5, <1>6 DEF PreparePublish

LEMMA StartChildStep ==
  ASSUME Inv, TypeOK', NEW a \in Actors, StartChild(a)
  PROVE  Inv'
<1>1. /\ Frame /\ job' = job /\ token' = Nobody /\ Holds(a, "start") /\ stale' = stale /\ KeepsInputs
  BY Zenon DEF StartChild, Frame, flags, work, ops, KeepsInputs
<1>2. /\ pc[a][1] = "hold" /\ pc[a][1] \in Locks /\ pc[a][2] = "start" /\ token = a
      /\ pc[a] = Hold("start") /\ LetsGo(a)
  BY Zenon, <1>1, Holder DEF LetsGo
<1>3. CASE a = worker /\ Goto(a, Ask("restore")) /\ gate' = gate
  <2>1. Only(a, Ask("restore"), ret[a])
    BY Zenon, <1>3, GotoGoes DEF Inv
  <2>2. /\ Ask("restore")[1] # "hold" /\ Ask("restore") \notin InMaintain
        /\ Ask("restore") \notin Observing /\ Ask("restore") \notin UpdatePlaces /\ WorkAt(Ask("restore"))
    BY Zenon DEF InMaintain, Observing, UpdatePlaces, WorkAt, Locks, At, Ask, Want, Hold
  <2> QED
    BY Zenon, <1>1, <1>2, <1>3, <2>1, <2>2, StarterMoves
<1>4. CASE a # worker /\ ObserveThen(a, At("spawn")) /\ gate' = Nobody
  <2>1. a = "loop" /\ worker # "loop" /\ LoopStarts(pc["loop"]) /\ gate = "loop"
    BY Zenon, <1>2, <1>4, StarterIs
  <2>2. Only("loop", Observe, At("spawn"))
    BY Zenon, <1>4, <2>1, ObserveGoes, Names DEF Inv
  <2>3. pc["loop"] \notin Watching
    BY <1>2, <2>1 DEF Watching, At
  <2> QED
    BY Zenon, <1>1, <1>2, <1>4, <2>1, <2>2, <2>3, LoopMoves, Names
<1>5. CASE Goto(a, Failed(a, "prep2")) /\ gate' = gate
  <2>1. Only(a, Failed(a, "prep2"), ret[a])
    BY Zenon, <1>5, GotoGoes DEF Inv
  <2> QED
    BY Zenon, <1>1, <1>2, <1>5, <2>1, FailedFits, ResumeInv DEF Resumes
<1> QED
  BY Zenon, <1>3, <1>4, <1>5 DEF StartChild

LEMMA RestoreStep ==
  ASSUME Inv, TypeOK', NEW a \in Actors, RestoreRouting(a)
  PROVE  Inv'
<1>1. /\ Frame /\ job' = job /\ gate' = gate /\ Holds(a, "restore")
      /\ unlock(a, Restored(a)) \/ unlock(a, Failed(a, "restore"))
  BY Zenon DEF RestoreRouting, Frame, super, work
<1>2. KeepsInputs
  BY Zenon, <1>1, HolderOwns, OwnMoves DEF RestoreRouting, KeepsInputs
<1>3. StandsAt(a, Hold("restore")) /\ pc[a] = Hold("restore") /\ pc[a][1] \in Locks /\ pc[a][2] = "restore"
  BY Zenon, <1>1, Holder
<1>4. ~Reports(Hold("restore"))
  BY Zenon DEF Reports, Observing, At, Want, Hold
<1>5. CASE unlock(a, Failed(a, "restore"))
  BY Zenon, <1>1, <1>2, <1>3, <1>4, <1>5, FailedFits, HolderResumes
<1>6. CASE unlock(a, Restored(a))
  <2>1. a = worker \/ a = "mon"
    BY Zenon, <1>3, Names DEF StandsAt, LoopAt, LoopStarts, CallerAt, Suits, Rests,
       Observing, UpdatePlaces, Locks, Home, At, Want, Hold, Actors
  <2>2. AfterMaintain(a, Restored(a)) /\ Restored(a) # At("unstarted")
    BY Zenon, <2>1, Names DEF AfterMaintain, Restored, At, Ask, Want
  <2> QED
    BY Zenon, <1>1, <1>2, <1>4, <1>6, <2>2, HolderResumes
<1> QED
  BY Zenon, <1>1, <1>5, <1>6

LEMMA ObserveStep ==
  ASSUME Inv, TypeOK', NEW a \in Actors, ObserveHeld(a)
  PROVE  Inv'
<1>1. /\ Frame /\ job' = job /\ gate' = gate /\ Holds(a, "observe") /\ unlock(a, ret[a])
  BY Zenon DEF ObserveHeld, Frame, super, work
<1>2. KeepsInputs
  <2>1. stale' \subseteq stale \cup Starts
    BY Zenon DEF ObserveHeld, coreEpochMoves
  <2> QED
    BY Zenon, <2>1, EpochMoves
<1>3. Failed(a, "observe") = ret[a]
  BY Zenon DEF Failed
<1>4. pc[a] = Hold("observe") /\ pc[a][1] \in Locks /\ pc[a][2] = "observe"
  BY Zenon, <1>1, Holder
<1> QED
  BY Zenon, <1>1, <1>2, <1>3, <1>4, FailedFits, HolderResumes

-----------------------------------------------------------------------------
\* Steps that change who owns what.

LEMMA BlockStep ==
  ASSUME Inv, TypeOK', NEW a \in Actors, blockCoreUpdate(a), ~Holds(a, "block")
  PROVE  Inv'
<1> DEFINE q == Want("block")
<1>1. /\ a = worker /\ pc[a] = At("block") /\ token' = token /\ gate' = gate /\ job' = job
      /\ worker' = worker /\ client' = client /\ kind' = kind /\ reserved' = reserved /\ KeepsInputs
  BY Zenon DEF blockCoreUpdate, Working, super, work, ops, KeepsInputs
<1>2. Only(a, q, ret[a])
  BY Zenon, GotoGoes DEF blockCoreUpdate, Inv
<1>3. Legal(a, q, ret[a])
  BY Zenon, <1>1 DEF Legal, StandsAt, WorkAt, InMaintain, Observing, Locks, At, Want, Hold
<1>4. TakesTurn(a, q) /\ KeepsStage(a, q) /\ KeepsGate(a, q, ret[a])
  BY <1>1 DEF TakesTurn, KeepsStage, KeepsGate, UpdatePlaces, At, Want
<1>5. KeepsMonitor(a)
  BY <1>1, <1>2, MonitorKept DEF Watching, At
<1>6. Walks(a, q, ret[a])
  BY Zenon, <1>1, <1>2, <1>3, <1>4, <1>5, OnlyMoves DEF Walks
<1>7. client \in Callers /\ reserved = client /\ reserved # Nobody /\ worker # Nobody
  BY Zenon, <1>1, ClientOwns, Names
<1>8. \A x \in Actors : pc'[x] \notin {Hold("prep2"), Hold("start")}
  <2> SUFFICES ASSUME NEW x \in Actors, pc'[x] \in {Hold("prep2"), Hold("start")} PROVE FALSE
    OBVIOUS
  <2>1. x # a /\ pc[x] = pc'[x]
    BY <1>2 DEF Only, Want, Hold
  <2>2. x = "loop" /\ worker # "loop" /\ gate = "loop"
    BY <1>1, <2>1, StarterIs DEF Locks, Hold
  <2> QED
    BY Zenon, <1>7, <2>2, Names DEF Inv, OwnersOK, TypeOK
<1>9. ASSUME NEW c \in Callers, kind[c] = "update" PROVE pc'[c] # Hold("reserve")
  <2> SUFFICES ASSUME pc'[c] = Hold("reserve") PROVE FALSE
    OBVIOUS
  <2>1. c # a /\ pc[c] = Hold("reserve")
    BY <1>2, Names DEF Only, Want, Hold
  <2>2. token = c
    BY <2>1, Names DEF Inv, TokenOK, Hold
  <2>3. c = reserved
    BY <1>1, <1>7, <2>1, <2>2, Names DEF Inv, UpdateExclusive, ownsCoreUpdate, Mutating, Hold
  <2> QED
    BY <1>1, <1>9, <2>1, <2>3 DEF Inv, OwnersOK, UpdatePlaces, At, Hold
<1>10. HasReported(worker)'
  BY <1>1, <1>2 DEF Only, HasReported, Landing, Reports, InMaintain, At, Want
<1>11. RecoveryOK'
  BY Zenon, <1>1, <1>7, <1>8, <1>9, <1>10 DEF RecoveryOK
<1> QED
  BY Zenon, <1>6, <1>11, WalksPlaces, WalksToken, WalksOwners, WalksGate DEF Inv

\* A caller alone moves, between places that neither hold the token nor are covered
\* by a reservation; kind and reservation change at most where it is concerned.
LEMMA CallerChanges ==
  ASSUME Inv, TypeOK', NEW c \in Callers, NEW q, Only(c, q, ret[c]),
         pc[c] \in {Home, At("leave")}, c # worker, ~InStage(c),
         worker' = worker, client' = client, gate' = gate, job' = job, recovery' = recovery,
         token' = token, stale' \subseteq stale,
         \A d \in Callers : d # c => kind'[d] = kind[d],
         CallerAt(kind'[c], q), q[1] # "hold", q \notin InMaintain \cup Observing \cup UpdatePlaces,
         reserved' # c, reserved' = reserved \/ (reserved = c /\ reserved' = Nobody)
  PROVE  Inv'
<1>1. c \in Actors /\ c # "loop" /\ c # "mon" /\ client # c
  BY Zenon, Names DEF InStage
<1>2. pc'[c] = q /\ \A x \in Actors : x # c => pc'[x] = pc[x] /\ ret'[x] = ret[x]
  BY Zenon DEF Only
<1>3. PlacesOK'
  <2>1. Legal(c, pc[c], ret[c])'
    BY Zenon, <1>2 DEF Legal, StandsAt
  <2>2. ASSUME NEW x \in Actors, x # c PROVE Legal(x, pc[x], ret[x])'
    BY Zenon, <1>2, <2>2, LegalKept DEF Inv, PlacesOK
  <2> QED
    BY Zenon, <2>1, <2>2 DEF PlacesOK
<1>4. token # c /\ TokenOK'
  BY <1>1, <1>2 DEF Inv, TokenOK, Home, At
<1>5. \A d \in Callers : d # c => (InStage(d)' <=> InStage(d))
  BY Zenon, <1>2, Names DEF InStage
<1>6. ~InStage(c)'
  BY Zenon, <1>1, <1>2 DEF InStage
<1>7. OwnersOK'
  <2>1. worker = "loop" => client \in Actors /\ client # c /\ pc'[client] = <<"sent", "update">>
    BY Zenon, <1>1, <1>2, Names DEF Inv, OwnersOK, TypeOK
  <2>2. job.what = "update" => job.who \in Callers /\ pc'[job.who] = <<"sent", "update">>
    <3>1. job.what = "update" => job.who \in Callers /\ pc[job.who] = <<"sent", "update">>
      BY Zenon DEF Inv, OwnersOK
    <3> QED
      BY <1>2, <3>1, Names DEF Home, At
  <2>3. ASSUME NEW d \in Callers
        PROVE  /\ InStage(d)' => reserved' = d
               /\ reserved' = d => Updating(kind'[d])
               /\ reserved' = d /\ kind'[d] = "update"
                    => pc'[d] \in UpdatePlaces \cup {At("leave")} \/ worker' = d
    <3>1. CASE d = c
      BY Zenon, <1>6, <3>1
    <3>2. CASE d # c
      BY Zenon, <1>2, <1>5, <3>2, Names DEF Inv, OwnersOK, Updating
    <3> QED
      BY Zenon, <3>1, <3>2
  <2>4. /\ worker = Nobody <=> client = Nobody
        /\ worker \in Callers => client = worker /\ gate = worker
    BY Zenon DEF Inv, OwnersOK
  <2> QED
    BY Zenon, <2>1, <2>2, <2>3, <2>4 DEF OwnersOK, Updating
<1>8. GateOK' /\ MonitorOK'
  BY Zenon, <1>1, <1>2, Names DEF Inv, GateOK, MonitorOK, LoopStarts
<1>9. UpdateExclusive'
  <2> SUFFICES ASSUME reserved' # Nobody, token # Nobody, pc'[token][1] = "hold", pc'[token][2] \in Mutating
               PROVE  ownsCoreUpdate(token, pc[token][2])'
    BY Zenon DEF UpdateExclusive, ownsCoreUpdate
  <2>1. reserved' = reserved /\ token \in Actors /\ pc'[token] = pc[token]
    BY Zenon, <1>2, <1>4 DEF Inv, TypeOK
  <2> QED
    BY Zenon, <2>1 DEF Inv, UpdateExclusive, ownsCoreUpdate
<1>10. UpdateInputsCurrent'
  <2>1. \A d \in Callers : InStage(d)' => <<d, "update">> \notin stale'
    BY Zenon, <1>5, <1>6 DEF Inv, UpdateInputsCurrent, InStage, UpdatePlaces
  <2> QED
    BY Zenon, <2>1 DEF UpdateInputsCurrent, InStage, UpdatePlaces
<1>11. RecoveryOK'
  <2> SUFFICES ASSUME recovery PROVE RecoveryOK'
    BY Zenon DEF RecoveryOK
  <2>1. ASSUME NEW x \in Actors, pc'[x] \in {Hold("prep2"), Hold("start")}
        PROVE  x = worker /\ kind'[client] = "reinstall"
    <3>1. pc[x] \in {Hold("prep2"), Hold("start")}
      BY <1>2, <2>1 DEF Hold
    <3>2. x = worker /\ kind[client] = "reinstall"
      BY Zenon, <3>1 DEF Inv, RecoveryOK
    <3> QED
      BY Zenon, <1>1, <3>2, ClientOwns, Names
  <2>2. ASSUME NEW d \in Callers, kind'[d] = "update"
        PROVE  /\ pc'[d] # Hold("reserve")
               /\ InStage(d)' => worker # Nobody /\ HasReported(worker)'
    <3>1. CASE d = c
      BY <1>2, <1>6, <3>1 DEF Hold
    <3>2. CASE d # c
      <4>1. pc'[d] # Hold("reserve")
        BY Zenon, <1>2, <2>2, <3>2, Names DEF Inv, RecoveryOK
      <4>2. InStage(d)' => worker # Nobody /\ HasReported(worker)
        BY Zenon, <1>5, <2>2, <3>2 DEF Inv, RecoveryOK
      <4>3. worker # Nobody /\ HasReported(worker) => HasReported(worker)'
        BY Zenon, <1>2, ClientOwns DEF HasReported, Landing, Reports
      <4> QED
        BY Zenon, <4>1, <4>2, <4>3
    <3> QED
      BY Zenon, <3>1, <3>2
  <2> QED
    BY Zenon, <2>1, <2>2 DEF RecoveryOK
<1> QED
  BY Zenon, <1>3, <1>4, <1>7, <1>8, <1>9, <1>10, <1>11 DEF Inv

LEMMA OperationStep ==
  ASSUME Inv, TypeOK', NEW c \in Callers, (\E k \in Kinds : doOperation(c, k)) \/ Return(c)
  PROVE  Inv'
<1>1. /\ worker' = worker /\ client' = client /\ gate' = gate /\ job' = job /\ recovery' = recovery
      /\ token' = token /\ pc[c] \in {Home, At("leave")} /\ stale' \subseteq stale
      /\ \A d \in Callers : d # c => kind'[d] = kind[d]
  BY Zenon DEF doOperation, Return, flags, super, work, owning, Inv, TypeOK
<1>2. c # worker /\ CallerAt(kind[c], pc[c])
  BY <1>1, CallerStands DEF WorkAt, InMaintain, Locks, Home, At, Hold
<1>3. ~InStage(c)
  <2>1. client = c => worker = c
    <3>1. pc[c] # <<"sent", "update">>
      BY <1>1 DEF Home, At
    <3> QED
      BY Zenon, <3>1, Names DEF Inv, OwnersOK, TypeOK
  <2> QED
    BY <1>1, <1>2, <2>1 DEF InStage, UpdatePlaces, Home, At
<1>4. CASE Return(c)
  <2>1. Only(c, Home, ret[c]) /\ kind'[c] = "none"
    BY Zenon, <1>4, GotoGoes, Names DEF Return, Inv, TypeOK
  <2>2. CallerAt(kind'[c], Home) /\ Home[1] # "hold" /\ Home \notin InMaintain \cup Observing \cup UpdatePlaces
    BY Zenon, <2>1 DEF CallerAt, InMaintain, Observing, UpdatePlaces, Home, At, Want, Hold
  <2>3. reserved' # c /\ (reserved' = reserved \/ (reserved = c /\ reserved' = Nobody))
    BY Zenon, <1>4, Names DEF Return
  <2> QED
    BY Zenon, <1>1, <1>2, <1>3, <2>1, <2>2, <2>3, CallerChanges
<1>5. CASE \E k \in Kinds : doOperation(c, k)
  <2>1. PICK k \in Kinds : doOperation(c, k)
    BY Zenon, <1>5
  <2> DEFINE q == Ask(FirstTask[k])
  <2>2. Only(c, q, ret[c]) /\ kind'[c] = k /\ pc[c] = Home /\ reserved' = reserved
    BY Zenon, <2>1, GotoGoes, Names DEF doOperation, owning, Inv, TypeOK
  <2>3. Suits(k, FirstTask[k]) /\ q = <<"ask", FirstTask[k]>>
    BY KindsAssumption DEF AllKinds, FirstTask, Suits, Updating, Ask
  <2>4. CallerAt(k, q) /\ q[1] # "hold" /\ q \notin InMaintain \cup Observing \cup UpdatePlaces
    BY <2>3 DEF CallerAt, InMaintain, Observing, UpdatePlaces, Locks, At, Want, Hold
  <2>5. reserved # c
    <3>1. kind[c] = "none"
      BY <1>2, <2>2 DEF CallerAt, UpdatePlaces, Locks, Home, At
    <3> QED
      BY Zenon, <3>1 DEF Inv, OwnersOK, Updating
  <2> QED
    BY Zenon, <1>1, <1>2, <1>3, <2>2, <2>4, <2>5, CallerChanges
<1> QED
  BY Zenon, <1>4, <1>5

\* A caller that holds the token reserves the update while nobody is covered by
\* another reservation.
LEMMA Reserves ==
  ASSUME Inv, TypeOK', NEW c \in Callers, NEW t \in {"reserve", "seize"}, Holds(c, t), NEW q,
         releaseMutation(c, q), reserved' = c, reserved \in {Nobody, c},
         worker' = worker, client' = client, gate' = gate, job' = job, recovery' = recovery,
         stale' = stale, kind' = kind,
         \/ t = "reserve" /\ q = <<"call", "update">> /\ <<c, "update">> \notin stale
         \/ t = "seize" /\ q = Ask("capture")
  PROVE  Inv'
<1>1. /\ c \in Actors /\ c # "loop" /\ c # "mon" /\ c # Nobody
      /\ c # worker /\ Suits(kind[c], t) /\ token = c /\ pc[c] = Hold(t)
  BY Zenon, CallerHolds, Holder, Names DEF CallerTasks
<1>2. Only(c, q, ret[c]) /\ token' = Nobody
  BY Zenon, ReleaseGoes, Names DEF Inv
<1>3. pc'[c] = q /\ \A x \in Actors : x # c => pc'[x] = pc[x] /\ ret'[x] = ret[x]
  BY Zenon, <1>2 DEF Only
<1>4. pc[c] \notin UpdatePlaces
  BY <1>1 DEF UpdatePlaces, Hold
<1>5. worker = Nobody /\ client = Nobody
  <2>1. pc[c] # <<"sent", "update">>
    BY <1>1 DEF Hold
  <2>2. worker = Nobody
    BY Zenon, <1>1, <2>1, ClientOwns DEF Inv, OwnersOK, TypeOK
  <2> QED
    BY Zenon, <2>2 DEF Inv, OwnersOK
<1>6. \A d \in Callers : ~InStage(d)
  BY Zenon, <1>1, <1>4, <1>5, Names DEF Inv, OwnersOK, InStage
<1>7. \A d \in Callers : InStage(d)' => d = c /\ t = "reserve"
  BY <1>3, <1>5, <1>6, Names DEF InStage, UpdatePlaces, Ask
<1>8. Updating(kind[c]) /\ CallerAt(kind[c], q)
  BY <1>1 DEF Suits, Updating, CallerAt, UpdatePlaces, Locks, Ask
<1>9. q \notin InMaintain /\ q \notin Observing /\ q[1] # "hold"
  BY DEF InMaintain, Observing, At, Ask, Want, Hold
<1>10. PlacesOK'
  <2>1. Legal(c, pc[c], ret[c])'
    BY Zenon, <1>1, <1>3, <1>8, <1>9 DEF Legal, StandsAt
  <2>2. ASSUME NEW x \in Actors, x # c PROVE Legal(x, pc[x], ret[x])'
    BY Zenon, <1>3, <2>2, LegalKept DEF Inv, PlacesOK
  <2> QED
    BY Zenon, <2>1, <2>2 DEF PlacesOK
<1>11. TokenOK'
  BY Zenon, <1>1, <1>2, <1>3, <1>9, Names DEF Inv, TokenOK
<1>12. OwnersOK'
  <2>1. job.what # "update"
    BY Zenon, <1>6 DEF Inv, OwnersOK, InStage, UpdatePlaces
  <2>2. reserved' = c /\ kind[c] = "update" => pc'[c] \in UpdatePlaces
    BY Zenon, <1>1, <1>3 DEF Suits, UpdatePlaces, Updating
  <2> QED
    BY Zenon, <1>5, <1>7, <1>8, <2>1, <2>2, Names DEF OwnersOK, Updating
<1>13. GateOK' /\ MonitorOK'
  BY Zenon, <1>1, <1>3, Names DEF Inv, GateOK, MonitorOK, LoopStarts
<1>14. UpdateExclusive'
  BY Zenon, <1>2 DEF UpdateExclusive
<1>15. UpdateInputsCurrent'
  BY Zenon, <1>1, <1>7 DEF UpdateInputsCurrent, InStage, UpdatePlaces
<1>16. RecoveryOK'
  <2> SUFFICES ASSUME recovery PROVE RecoveryOK'
    BY Zenon DEF RecoveryOK
  <2>1. \A x \in Actors : pc'[x] \notin {Hold("prep2"), Hold("start")}
    BY <1>3, <1>5, <1>9, Names DEF Inv, RecoveryOK, Hold
  <2>2. \A d \in Callers : kind[d] = "update" => pc'[d] # Hold("reserve")
    BY <1>3, <1>9, Names DEF Inv, RecoveryOK, Hold
  <2>3. t = "reserve" => kind[c] # "update"
    BY Zenon, <1>1 DEF Inv, RecoveryOK
  <2> QED
    BY Zenon, <1>7, <2>1, <2>2, <2>3 DEF RecoveryOK
<1> QED
  BY Zenon, <1>10, <1>11, <1>12, <1>13, <1>14, <1>15, <1>16 DEF Inv

LEMMA ReserveStep ==
  ASSUME Inv, TypeOK', NEW c \in Callers, installCoreUpdate(c) \/ Reinstall(c)
  PROVE  Inv'
<1>1. /\ worker' = worker /\ client' = client /\ gate' = gate /\ job' = job /\ recovery' = recovery
      /\ stale' = stale /\ kind' = kind
  BY Zenon DEF installCoreUpdate, Reinstall, super, work, ops
<1>2. CASE installCoreUpdate(c) /\ reserved' = c /\ releaseMutation(c, <<"call", "update">>)
           /\ <<c, "update">> \notin stale
  <2>1. Holds(c, "reserve") /\ c # worker
    BY Zenon, <1>2, CallerHolds DEF installCoreUpdate, CallerTasks
  <2>2. reserved \in {Nobody, c}
    BY Zenon, <2>1, Holder, Names DEF Inv, UpdateExclusive, ownsCoreUpdate, Mutating
  <2> QED
    BY Zenon, <1>1, <1>2, <2>1, <2>2, Reserves
<1>3. CASE Reinstall(c) /\ reserved = Nobody
  BY Zenon, <1>1, <1>3, Reserves DEF Reinstall
<1>4. CASE /\ reserved' = reserved
           /\ unlock(c, At("leave")) \/ releaseMutation(c, At("leave"))
  <2>1. PICK t \in {"reserve", "seize"} : Holds(c, t)
    BY Zenon, <1>4 DEF installCoreUpdate, Reinstall
  <2>2. Frame /\ KeepsInputs
    BY Zenon, <1>1, <1>4 DEF Frame, KeepsInputs
  <2> QED
    BY Zenon, <1>1, <1>4, <2>1, <2>2, CallerUnlocks DEF CallerTasks
<1> QED
  BY Zenon, <1>2, <1>3, <1>4 DEF installCoreUpdate, Reinstall

\* Goroutine w begins the work of c's update at q.
LEMMA Begins ==
  ASSUME Inv, TypeOK', NEW c \in Callers, NEW w \in {c, "loop"}, NEW q,
         q \in {Ask("prep1"), At("block"), Ask("save"), At("finish")},
         pc[c] \in UpdatePlaces, pc["loop"] \in Rests,
         worker' = w, client' = c, pc'[w] = q, ret' = ret,
         \A x \in Actors : x \notin {c, w} => pc'[x] = pc[x],
         w = c => gate' = c,
         w = "loop" => pc'[c] = <<"sent", "update">> /\ pc["mon"] \in {At("gone"), At("sick")},
         job'.what # "update", token' = token, reserved' = reserved, kind' = kind,
         stale' = stale, recovery' = recovery
  PROVE  Inv'
<1>1. /\ c \in Actors /\ c # "loop" /\ c # "mon" /\ c # Nobody /\ w \in Actors /\ w # "mon" /\ w # Nobody
      /\ "loop" \in Actors /\ "mon" \in Actors
  BY Zenon, Names
<1>2. pc[c] \notin InMaintain /\ ~WorkAt(pc[c]) /\ pc[c][1] # "hold"
  BY DEF UpdatePlaces, InMaintain, WorkAt, Locks, At, Hold
<1>3. c # worker /\ CallerAt(kind[c], pc[c]) /\ Updating(kind[c]) /\ reserved = c /\ InStage(c)
  <2>1. c # worker /\ CallerAt(kind[c], pc[c])
    BY Zenon, <1>2, CallerStands
  <2>2. InStage(c) /\ reserved = c
    BY Zenon DEF InStage, Inv, OwnersOK
  <2> QED
    BY Zenon, <2>1, <2>2 DEF Inv, OwnersOK
<1>4. worker # "loop"
  <2>1. ~WorkAt(pc["loop"]) /\ pc["loop"] \notin InMaintain
    BY DEF WorkAt, Rests, Locks, InMaintain, At, Hold
  <2> QED
    BY Zenon, <1>1, <2>1 DEF Inv, PlacesOK, Legal, StandsAt
<1>5. worker = Nobody /\ client = Nobody
  <2>1. worker # Nobody => worker = c
    BY Zenon, <1>3, <1>4, ClientOwns DEF Inv, OwnersOK, TypeOK
  <2> QED
    BY Zenon, <1>3, <2>1 DEF Inv, OwnersOK
<1>6. WorkAt(q) /\ q[1] # "hold" /\ q \notin InMaintain /\ q \notin Observing /\ q \notin UpdatePlaces
  BY DEF WorkAt, InMaintain, Observing, UpdatePlaces, Locks, At, Ask, Want, Hold
<1>7. PlacesOK'
  <2>1. Legal(w, pc[w], ret[w])'
    BY Zenon, <1>6 DEF Legal, StandsAt
  <2>2. ASSUME w # c PROVE Legal(c, pc[c], ret[c])'
    <3>1. pc'[c] = <<"sent", "update">> /\ c # worker' /\ Updating(kind'[c])
      BY Zenon, <1>1, <1>3, <2>2
    <3>2. <<"sent", "update">> \in UpdatePlaces \ (InMaintain \cup Observing)
      BY DEF UpdatePlaces, InMaintain, Observing, At, Want, Hold
    <3>3. CallerAt(kind[c], pc[c])'
      BY Zenon, <3>1, <3>2 DEF CallerAt
    <3> QED
      BY Zenon, <3>1, <3>2, <3>3 DEF Legal, StandsAt
  <2>3. ASSUME NEW x \in Actors, x \notin {c, w} PROVE Legal(x, pc[x], ret[x])'
    BY Zenon, <1>5, <2>3, LegalKept, Names DEF Inv, PlacesOK
  <2> QED
    BY Zenon, <2>1, <2>2, <2>3 DEF PlacesOK
<1>8. \A x \in {c, w} : token # x /\ pc'[x][1] # "hold"
  <2>1. pc["loop"][1] # "hold" /\ <<"sent", "update">>[1] # "hold"
    BY DEF Rests, At
  <2> QED
    BY Zenon, <1>1, <1>2, <1>6, <2>1 DEF Inv, TokenOK
<1>9. TokenOK'
  BY Zenon, <1>1, <1>8 DEF Inv, TokenOK
<1>10. \A d \in Callers : InStage(d)' => d = c
  <2> SUFFICES ASSUME NEW d \in Callers, InStage(d)', d # c PROVE FALSE
    OBVIOUS
  <2>1. pc[d] \in UpdatePlaces
    BY Zenon, <1>1, <1>6, Names DEF InStage
  <2> QED
    BY Zenon, <1>3, <2>1 DEF Inv, OwnersOK, InStage
<1>11. OwnersOK'
  BY Zenon, <1>1, <1>3, <1>10, Names DEF OwnersOK, UpdatePlaces, Updating
<1>12. GateOK' /\ MonitorOK'
  <2>1. CASE w = "loop"
    BY Zenon, <1>1, <2>1 DEF GateOK, MonitorOK
  <2>2. CASE w # "loop"
    <3>1. pc'["loop"] = pc["loop"] /\ pc'["mon"] = pc["mon"]
      BY Zenon, <1>1, <2>2
    <3>2. pc["loop"] \notin InMaintain /\ ~LoopStarts(pc["loop"])
      BY DEF Rests, InMaintain, LoopStarts, Locks, At, Hold
    <3> QED
      BY Zenon, <3>1, <3>2 DEF Inv, GateOK, MonitorOK, LoopStarts
  <2> QED
    BY Zenon, <2>1, <2>2
<1>13. UpdateExclusive'
  <2> SUFFICES ASSUME token # Nobody, pc'[token][1] = "hold", pc'[token][2] \in Mutating PROVE FALSE
    BY Zenon DEF UpdateExclusive
  <2>1. token \in Actors /\ token \notin {c, w} /\ pc'[token] = pc[token]
    BY Zenon, <1>8 DEF Inv, TypeOK
  <2> QED
    BY Zenon, <1>1, <1>3, <1>5, <2>1 DEF Inv, UpdateExclusive, ownsCoreUpdate
<1>14. UpdateInputsCurrent'
  BY Zenon, <1>3, <1>10 DEF Inv, UpdateInputsCurrent, InStage, UpdatePlaces
<1>15. RecoveryOK'
  <2> SUFFICES ASSUME recovery PROVE RecoveryOK'
    BY Zenon DEF RecoveryOK
  <2>1. \A x \in Actors : pc'[x] \notin {Hold("prep2"), Hold("start")}
    BY <1>5, <1>8, Names DEF Inv, RecoveryOK, Hold
  <2>2. kind[c] # "update"
    BY Zenon, <1>3, <1>5 DEF Inv, RecoveryOK
  <2>3. \A d \in Callers : kind[d] = "update" => pc'[d] # Hold("reserve")
    BY <1>8, Names DEF Inv, RecoveryOK, Hold
  <2> QED
    BY Zenon, <1>10, <2>1, <2>2, <2>3 DEF RecoveryOK
<1> QED
  BY Zenon, <1>7, <1>9, <1>11, <1>12, <1>13, <1>14, <1>15 DEF Inv

LEMMA UpdateStep ==
  ASSUME Inv, TypeOK', NEW c \in Callers, updateOwned(c)
  PROVE  Inv'
<1>1. /\ pc[c] = <<"call", "update">> /\ gate = Nobody /\ token' = token /\ reserved' = reserved
      /\ kind' = kind /\ stale' = stale /\ recovery' = recovery
  BY Zenon DEF updateOwned, flags, ops
<1>2. c # worker /\ CallerAt(kind[c], pc[c]) /\ kind[c] # "none" /\ Updating(kind[c])
  <2>1. c # worker /\ CallerAt(kind[c], pc[c])
    BY <1>1, CallerStands DEF WorkAt, InMaintain, Locks, At, Hold
  <2> QED
    BY <1>1, <2>1 DEF CallerAt, Updating, Locks, Home, At
<1>3. job.what # "update"
  <2>1. reserved = c
    BY Zenon, <1>1 DEF Inv, OwnersOK, InStage, UpdatePlaces
  <2> QED
    BY <1>1, <2>1 DEF Inv, OwnersOK, InStage, UpdatePlaces
<1>4. CASE \E q \in {At("leave"), <<"send", "update">>} : Goto(c, q) /\ UNCHANGED <<super, work, gate>>
  <2>1. PICK q \in {At("leave"), <<"send", "update">>} : Goto(c, q) /\ UNCHANGED <<super, work, gate>>
    BY Zenon, <1>4
  <2>2. Only(c, q, ret[c]) /\ Frame /\ job' = job /\ gate' = gate
    BY Zenon, <1>1, <2>1, GotoGoes, Names DEF Inv, Frame, super, work
  <2>3. KeepsMonitor(c) /\ Moves(c, q, ret[c])
    BY <1>1, <2>2, MonitorKept, OnlyMoves, Names DEF Watching, At
  <2>4. KeepsStage(c, q)
    BY <1>1, <2>2 DEF KeepsStage, UpdatePlaces
  <2>5. CallerAt(kind[c], q) /\ q[1] # "hold" /\ q \notin InMaintain /\ q \notin Observing
    BY <1>2 DEF CallerAt, UpdatePlaces, InMaintain, Observing, At, Want, Hold
  <2> QED
    <3>1. pc[c][1] # "hold"
      BY <1>1
    <3> QED
      BY Zenon, <1>1, <1>2, <2>2, <2>3, <2>4, <2>5, <3>1, CallerMoves
<1>5. CASE /\ ~Active /\ gate' = c /\ worker' = c /\ client' = c /\ job' = job
           /\ \E e \in WorkEntry(kind[c] = "reinstall", FALSE) : Goto(c, e.place)
  <2>1. PICK e \in WorkEntry(kind[c] = "reinstall", FALSE) : Goto(c, e.place)
    BY Zenon, <1>5
  <2>2. e.place \in {Ask("prep1"), At("block"), Ask("save"), At("finish")}
    BY Zenon, EntryPlace
  <2>3. Only(c, e.place, ret[c]) /\ ret' = ret
    BY Zenon, <2>1, GotoGoes, Names DEF Inv, Goto
  <2>4. pc["loop"] \in Rests /\ pc[c] \in UpdatePlaces
    BY Zenon, <1>1, <1>5 DEF Active, Rests, UpdatePlaces
  <2> QED
    BY Zenon, <1>1, <1>3, <1>5, <2>2, <2>3, <2>4, Begins, Names DEF Only
<1> QED
  BY Zenon, <1>4, <1>5 DEF updateOwned

LEMMA IdleReceivesStep ==
  ASSUME Inv, TypeOK', NEW a \in Actors, IdleReceives(a)
  PROVE  Inv'
<1>1. CASE Declines(a)
  BY Zenon, <1>1, DeclinesStep
<1>2. CASE /\ pc[a][2] = "update" /\ worker' = "loop" /\ client' = a
           /\ \E e \in WorkEntry(kind[a] = "reinstall", ~waiting) :
                pc' = [pc EXCEPT ![a] = <<"sent", "update">>, !["loop"] = e.place]
  <2>1. /\ pc["loop"] \in {At("backoff"), At("idle")} /\ pc[a][1] = "send" /\ token' = token
        /\ reserved' = reserved /\ kind' = kind /\ stale' = stale /\ recovery' = recovery
        /\ job' = job /\ ret' = ret
    BY Zenon DEF IdleReceives, Loop, flags, owning, ops
  <2>2. a \in Callers /\ pc[a] = <<"send", "update">> /\ waiting \in BOOLEAN
    <3>1. waiting \in BOOLEAN
      BY Zenon DEF Inv, TypeOK
    <3>2. pc[a][1] \in {"send", "sent"} /\ pc[a][2] # "halt"
      BY <1>2, <2>1
    <3> QED
      BY Zenon, <1>2, <2>1, <3>1, <3>2, SenderStands
  <2>3. PICK e \in WorkEntry(kind[a] = "reinstall", ~waiting) :
                pc' = [pc EXCEPT ![a] = <<"sent", "update">>, !["loop"] = e.place]
    BY Zenon, <1>2
  <2>4. e.place \in {Ask("prep1"), At("block"), Ask("save"), At("finish")}
    BY Zenon, <2>2, EntryPlace
  <2>5. /\ pc'["loop"] = e.place /\ pc'[a] = <<"sent", "update">>
        /\ \A x \in Actors : x \notin {a, "loop"} => pc'[x] = pc[x]
    BY Zenon, <2>2, <2>3, Names DEF Inv, TypeOK
  <2>6. pc["loop"] \in Rests /\ pc[a] \in UpdatePlaces /\ pc["mon"] \in {At("gone"), At("sick")}
    BY <2>1, <2>2 DEF Rests, UpdatePlaces, Inv, MonitorOK, Watching, At
  <2>7. job.what # "update"
    <3>1. reserved = a
      BY Zenon, <2>2 DEF Inv, OwnersOK, InStage, UpdatePlaces
    <3> QED
      BY <2>2, <3>1 DEF Inv, OwnersOK, InStage, UpdatePlaces
  <2> QED
    BY Zenon, <1>2, <2>1, <2>2, <2>4, <2>5, <2>6, <2>7, Begins, Names
<1> QED
  BY Zenon, <1>1, <1>2 DEF IdleReceives, Declines

LEMMA JoinStep ==
  ASSUME Inv, TypeOK', Join
  PROVE  Inv'
<1>1. CASE Joins
  BY Zenon, <1>1, JoinsStep
<1>2. CASE /\ job.what = "update" /\ worker' = "loop" /\ client' = job.who
           /\ \E e \in WorkEntry(kind[job.who] = "reinstall", TRUE) : Goto("loop", e.place)
  <2>1. /\ pc["loop"] = At("join") /\ pc["mon"] \in {At("gone"), At("sick")} /\ token' = token
        /\ reserved' = reserved /\ kind' = kind /\ stale' = stale /\ recovery' = recovery
        /\ job' = NoJob
    BY Zenon DEF Join, Loop, flags, owning, ops
  <2>2. job.who \in Callers /\ pc[job.who] = <<"sent", "update">>
    BY Zenon, <1>2 DEF Inv, OwnersOK
  <2>3. PICK e \in WorkEntry(kind[job.who] = "reinstall", TRUE) : Goto("loop", e.place)
    BY Zenon, <1>2
  <2>4. e.place \in {Ask("prep1"), At("block"), Ask("save"), At("finish")}
    BY Zenon, EntryPlace
  <2>5. Only("loop", e.place, ret["loop"]) /\ ret' = ret
    BY Zenon, <2>3, GotoGoes, Names DEF Inv, Goto
  <2>6. pc["loop"] \in Rests /\ pc[job.who] \in UpdatePlaces /\ job'.what # "update"
    BY Zenon, <2>1, <2>2 DEF Rests, UpdatePlaces, NoJob
  <2> QED
    BY Zenon, <1>2, <2>1, <2>2, <2>4, <2>5, <2>6, Begins, Names DEF Only
<1> QED
  BY Zenon, <1>1, <1>2 DEF Join, Joins

LEMMA AnswerStep ==
  ASSUME Inv, TypeOK', NEW w \in Actors, AnswerUpdate(w)
  PROVE  Inv'
<1>1. /\ w = worker /\ pc[w] = At("answer") /\ worker' = Nobody /\ client' = Nobody /\ job' = NoJob
      /\ token' = token /\ reserved' = reserved /\ kind' = kind /\ stale' = stale /\ recovery' = recovery
      /\ ret' = ret
  BY Zenon DEF AnswerUpdate, Working, flags, ops
<1>2. client \in Callers /\ client \in Actors /\ reserved = client /\ client # Nobody /\ w # Nobody
  BY Zenon, <1>1, ClientOwns, Names
<1>3. \/ w \in Callers /\ w = client /\ gate = client
      \/ w = "loop" /\ pc[client] = <<"sent", "update">>
  BY Zenon, <1>1, <1>2 DEF Inv, OwnersOK, TypeOK
<1>4. /\ pc'[client] = At("leave") /\ (w # client => pc'[w] = At("top"))
      /\ \A x \in Actors : x \notin {client, w} => pc'[x] = pc[x]
  BY Zenon, <1>2 DEF AnswerUpdate, Inv, TypeOK
<1>5. \A x \in {client, w} : token # x /\ pc[x][1] # "hold" /\ pc'[x][1] # "hold"
  BY <1>1, <1>2, <1>3, <1>4 DEF Inv, TokenOK, At
<1>6. Updating(kind[client]) /\ kind[client] # "none"
  BY Zenon, <1>2 DEF Inv, OwnersOK, Updating
<1>7. PlacesOK'
  <2>0. PICK c \in Callers : c = client
    BY Zenon, <1>2
  <2>1. Legal(c, pc[c], ret[c])'
    <3>1. pc'[c] = At("leave") /\ c # worker' /\ kind'[c] # "none"
      BY Zenon, <1>1, <1>2, <1>4, <1>6, <2>0
    <3>2. At("leave") \notin InMaintain \cup Observing
      BY DEF InMaintain, Observing, At, Want, Hold
    <3>3. CallerAt(kind[c], pc[c])'
      BY Zenon, <3>1 DEF CallerAt
    <3> QED
      BY Zenon, <3>1, <3>2, <3>3 DEF Legal, StandsAt
  <2>2. ASSUME w # client PROVE Legal(w, pc[w], ret[w])'
    <3>1. pc'[w] = At("top") /\ w = "loop" /\ w # worker'
      BY Zenon, <1>1, <1>2, <1>3, <1>4, <2>2
    <3>2. At("top") \in Rests \ (InMaintain \cup Observing)
      BY DEF Rests, InMaintain, Observing, At, Want, Hold
    <3> QED
      BY Zenon, <3>1, <3>2 DEF Legal, StandsAt, LoopAt
  <2>3. ASSUME NEW x \in Actors, x \notin {client, w} PROVE Legal(x, pc[x], ret[x])'
    BY Zenon, <1>1, <1>4, <2>3, LegalKept, Names DEF Inv, PlacesOK
  <2> QED
    BY Zenon, <2>0, <2>1, <2>2, <2>3 DEF PlacesOK
<1>8. TokenOK'
  BY Zenon, <1>1, <1>4, <1>5 DEF Inv, TokenOK
<1>9. \A d \in Callers : ~InStage(d)'
  <2> SUFFICES ASSUME NEW d \in Callers, InStage(d)' PROVE FALSE
    OBVIOUS
  <2>1. pc'[d] \in UpdatePlaces
    BY Zenon, <1>1, Names DEF InStage
  <2>2. d \notin {client, w} /\ pc[d] \in UpdatePlaces
    BY <1>3, <1>4, <2>1, Names DEF UpdatePlaces, At
  <2> QED
    BY Zenon, <1>2, <2>2 DEF Inv, OwnersOK, InStage
<1>10. OwnersOK'
  BY Zenon, <1>1, <1>2, <1>4, <1>6, <1>9, Names DEF OwnersOK, NoJob, Updating
<1>11. GateOK' /\ MonitorOK'
  <2>1. CASE w = "loop"
    <3>1. pc'["loop"] = At("top") /\ pc'["mon"] = pc["mon"]
      BY Zenon, <1>2, <1>4, <2>1, Names
    <3>2. ~LoopStarts(At("top")) /\ At("top") \notin InMaintain
      BY Zenon DEF LoopStarts, InMaintain, Locks, At, Hold
    <3>3. pc["mon"] \in {At("gone"), At("sick")}
      <4>1. At("answer") \notin Watching
        BY DEF Watching, At
      <4> QED
        BY Zenon, <1>1, <2>1, <4>1 DEF Inv, MonitorOK
    <3> QED
      BY Zenon, <3>1, <3>2, <3>3 DEF GateOK, MonitorOK
  <2>2. CASE w # "loop"
    <3>1. /\ pc'["loop"] = pc["loop"] /\ pc'["mon"] = pc["mon"] /\ ret' = ret
          /\ worker # "loop" /\ gate # "loop"
      BY Zenon, <1>1, <1>2, <1>3, <1>4, <2>2, Names
    <3> QED
      BY Zenon, <3>1 DEF Inv, GateOK, MonitorOK, LoopStarts
  <2> QED
    BY Zenon, <2>1, <2>2
<1>12. UpdateExclusive'
  <2> SUFFICES ASSUME token # Nobody, pc'[token][1] = "hold", pc'[token][2] \in Mutating PROVE FALSE
    BY Zenon, <1>1 DEF UpdateExclusive
  <2>1. token \in Actors /\ token \notin {client, w} /\ pc'[token] = pc[token]
    BY Zenon, <1>4, <1>5 DEF Inv, TypeOK
  <2> QED
    BY Zenon, <1>1, <1>2, <2>1 DEF Inv, UpdateExclusive, ownsCoreUpdate
<1>13. UpdateInputsCurrent'
  BY Zenon, <1>9 DEF UpdateInputsCurrent, InStage, UpdatePlaces
<1>14. RecoveryOK'
  <2> SUFFICES ASSUME recovery PROVE RecoveryOK'
    BY Zenon, <1>1 DEF RecoveryOK
  <2>1. \A x \in Actors : pc'[x] \notin {Hold("prep2"), Hold("start")}
    <3> SUFFICES ASSUME NEW x \in Actors, NEW t \in {"prep2", "start"}, pc'[x] = Hold(t) PROVE FALSE
      BY Zenon
    <3>1. x \notin {client, w}
      BY Zenon, <1>5, Apart
    <3>2. pc[x] \in {Hold("prep2"), Hold("start")}
      BY Zenon, <1>4, <3>1
    <3> QED
      BY Zenon, <1>1, <3>1, <3>2 DEF Inv, RecoveryOK
  <2>2. \A d \in Callers : kind[d] = "update" => pc'[d] # Hold("reserve")
    BY Zenon, <1>4, <1>5, Apart, Names DEF Inv, RecoveryOK
  <2> QED
    BY Zenon, <1>1, <1>9, <2>1, <2>2 DEF RecoveryOK
<1> QED
  BY Zenon, <1>7, <1>8, <1>10, <1>11, <1>12, <1>13, <1>14 DEF Inv

=============================================================================
