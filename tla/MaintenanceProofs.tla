-------------------------- MODULE MaintenanceProofs --------------------------
(***************************************************************************)
(* The inductive invariant of Maintenance, for any number of callers,      *)
(* operations and budgets, and that the steps of its callers, its loop and *)
(* its monitor keep it.  The invariant says where each goroutine may stand,*)
(* that the token is held exactly by the one that stands at a hold place,  *)
(* and that reservation, worker, gate and client of an update belong       *)
(* together; on that rest the exclusion of other mutations, the currency   *)
(* of the update's inputs, the single start and the recovery rule.         *)
(***************************************************************************)

EXTENDS Maintenance, TLAPS

-----------------------------------------------------------------------------
\* Where goroutines stand.

Locks == {"ask", "want", "hold"}

UpdatePlaces == {<<"call", "update">>, <<"send", "update">>, <<"sent", "update">>}

Observing == {Want("observe"), Hold("observe")}

Updating(k) == k \in {"update", "reinstall"}

\* The tasks for which operation k takes the token.
Suits(k, t) ==
  \/ k = t /\ t \in {"mutate", "add", "settings", "status", "restart"}
  \/ t = "broken" /\ k \in {"mutate", "add"}
  \/ t \in {"capture", "reserve"} /\ Updating(k)
  \/ t = "seize" /\ k = "reinstall"

\* A caller with operation k that does not carry out an update itself.
CallerAt(k, p) ==
  \/ p = Home /\ k = "none"
  \/ p = At("leave") /\ k # "none"
  \/ p = At("mark") /\ k = "add"
  \/ p[1] \in Locks /\ Suits(k, p[2])
  \/ p \in {<<"call", "restart">>, <<"send", "restart">>, <<"sent", "restart">>} /\ k = "restart"
  \/ p \in UpdatePlaces /\ Updating(k)

\* The goroutine that carries out the work of an update.
WorkAt(p) ==
  \/ p[1] \in Locks /\ p[2] \in {"prep1", "prep2", "restore", "save"}
  \/ p = Hold("start")
  \/ p[1] \in {"want", "hold"} /\ p[2] \in {"publish", "apply", "block", "observe"}
  \/ p \in {At("fault"), At("saving"), At("block"), At("unsound"), At("finish"), At("answer")}

\* The places of a start, up to its failure, for which the loop holds the gate.
LoopStarts(p) ==
  \/ p[1] \in Locks /\ p[2] \in {"prep1", "prep2"}
  \/ p \in {Hold("start"), At("unstarted"), At("unsafe")}

\* The places at which it neither starts a child nor takes the token.
Rests == {At("off"), At("top"), At("idle"), At("gate"), At("spawn"), At("own"),
          At("join"), At("backoff"), At("end"), At("done")}

LoopAt(p) == LoopStarts(p) \/ p \in Observing \/ p \in Rests

MonAt(p) ==
  \/ p[1] \in Locks /\ p[2] = "restore"
  \/ p \in Observing
  \/ p \in {At("gone"), At("health"), At("healthy"), At("unwell"), At("sick")}

\* Where Observe goes on.
AfterObserve(a, p) ==
  IF a = worker THEN p = At("answer")
  ELSE \/ a = "loop" /\ p \in {At("top"), At("spawn"), At("backoff"), At("end")}
       \/ a = "mon" /\ p = At("health")

\* Where Maintain goes on.
AfterMaintain(a, p) ==
  IF a = worker
  THEN p \in {At("fault"), At("block"), At("unsound"), At("finish"), At("answer"),
              Ask("save"), Want("publish")}
  ELSE \/ a = "loop" /\ p \in {At("unstarted"), At("top"), At("spawn"), At("backoff"), At("end")}
       \/ a = "mon" /\ p \in {At("health"), At("healthy"), At("unwell")}
       \/ /\ a \in Callers
          /\ \/ p = At("leave") /\ kind[a] # "none"
             \/ p = At("mark") /\ kind[a] = "add"
             \/ p = <<"call", "restart">> /\ kind[a] = "restart"
             \/ p = Ask("reserve") /\ Updating(kind[a])

StandsAt(a, p) ==
  IF a = worker THEN WorkAt(p)
  ELSE \/ a = "loop" /\ LoopAt(p)
       \/ a = "mon" /\ MonAt(p)
       \/ a \in Callers /\ CallerAt(kind[a], p)

\* Place p, with r as the place to go on at, fits the role of goroutine a: it is one
\* of its own, or in a Maintain that goes on at one.
Legal(a, p, r) ==
  /\ p \in InMaintain \/ StandsAt(a, p)
  /\ p \in InMaintain => AfterMaintain(a, r)
  /\ p \in Observing => AfterObserve(a, r)

PlacesOK == \A a \in Actors : Legal(a, pc[a], ret[a])

-----------------------------------------------------------------------------

\* The token is held by the goroutine at a hold place, and by no other.
TokenOK == \A a \in Actors : pc[a][1] = "hold" <=> token = a

\* The caller is in the part of its update that its reservation covers.
InStage(c) == pc[c] \in UpdatePlaces \/ client = c

\* Reservation, worker, client and gate of an update belong together.
OwnersOK ==
  /\ worker = Nobody <=> client = Nobody
  /\ worker \in Callers => client = worker /\ gate = worker
  /\ worker = "loop" => pc[client] = <<"sent", "update">>
  /\ job.what = "update" => job.who \in Callers /\ pc[job.who] = <<"sent", "update">>
  /\ \A c \in Callers :
       /\ InStage(c) => reserved = c
       /\ reserved = c => Updating(kind[c])
       /\ reserved = c /\ kind[c] = "update"
            => pc[c] \in UpdatePlaces \cup {At("leave")} \/ worker = c

\* While the loop starts a child of its own, it holds the gate.
GateOK ==
  worker # "loop"
    => /\ LoopStarts(pc["loop"]) => gate = "loop"
       /\ pc["loop"] \in InMaintain /\ ret["loop"] = At("unstarted") => gate = "loop"

\* The monitor runs only beside a child of the loop.
Watching == {At("own"), At("join")}

MonitorOK == pc["loop"] \notin Watching => pc["mon"] \in {At("gone"), At("sick")}

\* The update has required recovery and only reports it any more.
Reports(p) == p \in {Want("block"), Hold("block"), At("unsound"), At("answer")} \cup Observing

Landing(p, r) == IF p \in InMaintain THEN r ELSE p

HasReported(a) == Reports(Landing(pc[a], ret[a]))

\* Who may meet required recovery: a reinstallation, or an update that required it.
RecoveryOK ==
  recovery
    => /\ \A a \in Actors : pc[a] \in {Hold("prep2"), Hold("start")}
            => a = worker /\ kind[client] = "reinstall"
       /\ \A c \in Callers :
            kind[c] = "update"
              => /\ pc[c] # Hold("reserve")
                 /\ InStage(c) => worker # Nobody /\ HasReported(worker)

Inv ==
  /\ TypeOK /\ PlacesOK /\ TokenOK /\ OwnersOK /\ GateOK /\ MonitorOK
  /\ UpdateExclusive /\ UpdateInputsCurrent /\ RecoveryOK

-----------------------------------------------------------------------------
\* A step of one goroutine.

\* Only a moves, to q.
Only(a, q, r) ==
  /\ pc'[a] = q /\ ret'[a] = r
  /\ \A x \in Actors : x # a => pc'[x] = pc[x] /\ ret'[x] = ret[x]

\* x stays where it is; the loop may pass between its resting places.
Still(x) ==
  /\ ret'[x] = ret[x]
  /\ pc'[x] = pc[x] \/ (x = "loop" /\ pc[x] \in Rests /\ pc'[x] \in Rests)

\* a moves to q, at most the loop's passing beside it.
Moves(a, q, r) ==
  /\ pc'[a] = q /\ ret'[a] = r
  /\ \A x \in Actors : x # a => Still(x)

\* What a does with the token on its way to q.
TakesTurn(a, q) ==
  \/ q[1] # "hold" /\ pc[a][1] # "hold" /\ token' = token
  \/ q[1] # "hold" /\ token = a /\ token' = Nobody
  \/ /\ q[1] = "hold" /\ token \in {a, Nobody} /\ token' = a
     /\ q[2] \in Mutating /\ reserved # Nobody => ownsCoreUpdate(a, q[2])

\* It does not enter the part of an update its reservation covers, and leaves it
\* only for good, with nobody left who works for it.
KeepsStage(a, q) ==
  /\ q \in UpdatePlaces => pc[a] \in UpdatePlaces
  /\ pc[a] \in UpdatePlaces \cup {At("leave")} => q \in UpdatePlaces \cup {At("leave")}
  /\ job' = job \/ job'.what # "update"
       \/ (job'.who = a /\ a \in Callers /\ q = <<"sent", "update">>)
  /\ pc[a] = <<"sent", "update">> => worker # "loop" /\ job'.what # "update"

KeepsGate(a, q, r) ==
  /\ gate' = gate \/ (a = "loop" /\ gate \notin Callers)
  /\ a = "loop" /\ worker # "loop" /\ LoopStarts(q) => gate' = "loop"
  /\ a = "loop" /\ worker # "loop" /\ q \in InMaintain /\ r = At("unstarted") => gate' = "loop"

KeepsMonitor(a) ==
  /\ a = "mon" => pc'["loop"] \in Watching
  /\ pc'["loop"] \notin Watching
       => pc["loop"] \notin Watching \/ pc["mon"] \in {At("gone"), At("sick")}

KeepsInputs ==
  \A c \in Callers : InStage(c) /\ <<c, "update">> \in stale' => <<c, "update">> \in stale

KeepsRecovery(a, q, r) ==
  recovery
    => /\ q \in {Hold("prep2"), Hold("start")} => a = worker /\ kind[client] = "reinstall"
       /\ a \in Callers /\ kind[a] = "update" => q # Hold("reserve")
       /\ a = worker /\ kind[client] = "update" /\ HasReported(a) => Reports(Landing(q, r))

\* Goroutine a goes to q, with r as the place to go on at, and disturbs nothing ...
Walks(a, q, r) ==
  /\ Moves(a, q, r)
  /\ worker' = worker /\ client' = client /\ kind' = kind /\ reserved' = reserved
  /\ Legal(a, q, r) /\ TakesTurn(a, q)
  /\ KeepsStage(a, q) /\ KeepsGate(a, q, r) /\ KeepsMonitor(a) /\ KeepsInputs

\* ... nor does it require recovery.
Goes(a, q, r) == Walks(a, q, r) /\ (recovery' => recovery) /\ KeepsRecovery(a, q, r)

-----------------------------------------------------------------------------
\* Such a step keeps each part of the invariant.

LEMMA Names ==
  /\ Nobody \notin Actors /\ Nobody # "loop" /\ "loop" # "mon"
  /\ "loop" \in Actors /\ "mon" \in Actors /\ Callers \subseteq Actors
  /\ "loop" \notin Callers /\ "mon" \notin Callers
  BY Zenon, NobodyAssumption, CallersAssumption DEF Actors

\* Who does not hold the token stands at none of the places of its holder.
LEMMA Apart ==
  /\ \A p, t : p[1] # "hold" => p # Hold(t)
  /\ \A k, t : k # "hold" => At(k) # Hold(t)
  /\ \A k, s, t : k # "hold" => <<k, s>> # Hold(t)
  /\ \A k : At(k)[1] = k
  /\ \A k, t : <<k, t>>[1] = k
BY DEF At, Hold

LEMMA WalksPlaces ==
  ASSUME Inv, NEW a \in Actors, NEW q, NEW r, Walks(a, q, r)
  PROVE  PlacesOK'
<1>1. worker' = worker /\ kind' = kind
  BY Zenon DEF Walks, Moves
<1>2. Legal(a, pc[a], ret[a])'
  BY Zenon, <1>1 DEF Walks, Moves, Legal, StandsAt, AfterMaintain, AfterObserve
<1>3. ASSUME NEW x \in Actors, x # a, pc'[x] = pc[x]
      PROVE  Legal(x, pc[x], ret[x])'
  <2>1. Legal(x, pc[x], ret[x]) /\ ret'[x] = ret[x]
    BY Zenon, <1>3 DEF Inv, PlacesOK, Walks, Moves, Still
  <2> QED
    BY Zenon, <1>1, <1>3, <2>1 DEF Legal, StandsAt, AfterMaintain, AfterObserve
<1>4. ASSUME "loop" # a, pc["loop"] \in Rests, pc'["loop"] \in Rests
      PROVE  Legal("loop", pc["loop"], ret["loop"])'
  <2>1. worker # "loop"
    BY <1>4, Names DEF Inv, PlacesOK, Legal, StandsAt, WorkAt, Rests, InMaintain, At, Hold
  <2>2. pc'["loop"] \notin InMaintain /\ pc'["loop"] \notin Observing
    BY <1>4 DEF Rests, InMaintain, Observing, At, Want, Hold
  <2> QED
    BY Zenon, <1>1, <1>4, <2>1, <2>2 DEF Legal, StandsAt, LoopAt
<1> QED
  BY Zenon, <1>2, <1>3, <1>4 DEF PlacesOK, Walks, Moves, Still

LEMMA WalksToken ==
  ASSUME Inv, NEW a \in Actors, NEW q, NEW r, Walks(a, q, r)
  PROVE  TokenOK' /\ UpdateExclusive'
<1>1. \A x \in Actors : x # a => (pc'[x][1] = "hold" <=> token = x)
  BY DEF Inv, TokenOK, Walks, Moves, Still, Rests, At
<1>2. \A x \in Actors : x # a /\ pc[x][1] = "hold" => pc'[x] = pc[x]
  BY DEF Walks, Moves, Still, Rests, At
<1>3. pc'[a] = q /\ (pc[a][1] = "hold" <=> token = a)
  BY Zenon DEF Inv, TokenOK, Walks, Moves
<1>4. worker' = worker /\ client' = client /\ reserved' = reserved
  BY Zenon DEF Walks, Moves
<1>5. token \in Actors \cup {Nobody}
  BY Zenon DEF Inv, TypeOK
<1>6. TokenOK'
  BY Zenon, <1>1, <1>3, Names DEF Walks, Moves, TakesTurn, TokenOK
<1>7. CASE token' = token /\ token # a
  BY Zenon, <1>1, <1>2, <1>4, <1>5, <1>6, <1>7 DEF Inv, TokenOK, UpdateExclusive,
     ownsCoreUpdate
<1>8. CASE token' = a
  BY Zenon, <1>3, <1>4, <1>6, <1>8, Names DEF TokenOK, Walks, Moves, TakesTurn,
     UpdateExclusive, ownsCoreUpdate
<1>9. CASE token' = Nobody
  BY Zenon, <1>6, <1>9 DEF UpdateExclusive
<1> QED
  BY Zenon, <1>3, <1>6, <1>7, <1>8, <1>9 DEF Walks, Moves, TakesTurn

LEMMA WalksStage ==
  ASSUME Inv, NEW a \in Actors, NEW q, NEW r, Walks(a, q, r)
  PROVE  /\ \A x \in Actors : pc'[x] \in UpdatePlaces => pc[x] \in UpdatePlaces
         /\ \A x \in Actors : x # a /\ pc[x] \in UpdatePlaces \cup {At("leave")} => pc'[x] = pc[x]
         /\ \A c \in Callers : InStage(c)' => InStage(c)
<1>1. pc'[a] = q /\ KeepsStage(a, q) /\ client' = client
  BY Zenon DEF Walks, Moves
<1>2. \A x \in Actors : x # a => Still(x)
  BY Zenon DEF Walks, Moves
<1>3. \A x \in Actors : pc'[x] \in UpdatePlaces => pc[x] \in UpdatePlaces
  BY <1>1, <1>2 DEF KeepsStage, Still, Rests, UpdatePlaces, At
<1>4. \A x \in Actors : x # a /\ pc[x] \in UpdatePlaces \cup {At("leave")} => pc'[x] = pc[x]
  BY <1>2 DEF Still, Rests, UpdatePlaces, At
<1> QED
  BY Zenon, <1>1, <1>3, <1>4, Names DEF InStage

LEMMA WalksOwners ==
  ASSUME Inv, NEW a \in Actors, NEW q, NEW r, Walks(a, q, r)
  PROVE  OwnersOK' /\ UpdateInputsCurrent'
<1>1. /\ worker' = worker /\ client' = client /\ kind' = kind /\ reserved' = reserved
      /\ pc'[a] = q /\ KeepsStage(a, q) /\ KeepsInputs
  BY Zenon DEF Walks, Moves
<1>2. \A c \in Callers : InStage(c)' => InStage(c)
  BY Zenon, WalksStage
<1>3. \A x \in Actors : x # a /\ pc[x] \in UpdatePlaces \cup {At("leave")} => pc'[x] = pc[x]
  BY Zenon, WalksStage
<1>4. worker \in Callers => gate' = gate
  BY Zenon, Names DEF Walks, Moves, KeepsGate, Inv, OwnersOK
<1>5. UpdateInputsCurrent'
  BY Zenon, <1>1, <1>2 DEF Inv, UpdateInputsCurrent, KeepsInputs, InStage, UpdatePlaces
<1>6. worker = "loop" => pc'[client] = <<"sent", "update">>
  <2>1. worker = "loop" => client \in Actors /\ pc[client] = <<"sent", "update">>
    BY Zenon, Names DEF Inv, OwnersOK, TypeOK
  <2> QED
    BY <1>1, <1>3, <2>1 DEF KeepsStage, UpdatePlaces
<1>7. job'.what = "update" => job'.who \in Callers /\ pc'[job'.who] = <<"sent", "update">>
  <2>1. CASE job' = job /\ job.what = "update"
    BY Zenon, <1>1, <1>3, <2>1, Names DEF KeepsStage, UpdatePlaces, Inv, OwnersOK
  <2> QED
    BY Zenon, <1>1, <2>1 DEF KeepsStage
<1>8. ASSUME NEW c \in Callers, reserved = c, kind[c] = "update", worker # c
      PROVE  pc'[c] \in UpdatePlaces \cup {At("leave")}
  <2>1. pc[c] \in UpdatePlaces \cup {At("leave")}
    BY Zenon, <1>8 DEF Inv, OwnersOK
  <2> QED
    BY Zenon, <1>1, <1>3, <2>1, Names DEF KeepsStage
<1>9. \A c \in Callers : (InStage(c) => reserved = c) /\ (reserved = c => Updating(kind[c]))
  BY Zenon DEF Inv, OwnersOK
<1>10. /\ worker = Nobody <=> client = Nobody
       /\ worker \in Callers => client = worker /\ gate = worker
  BY Zenon DEF Inv, OwnersOK
<1> QED
  BY Zenon, <1>1, <1>2, <1>4, <1>5, <1>6, <1>7, <1>8, <1>9, <1>10 DEF OwnersOK, Updating

LEMMA WalksGate ==
  ASSUME Inv, NEW a \in Actors, NEW q, NEW r, Walks(a, q, r)
  PROVE  GateOK' /\ MonitorOK'
<1>1. worker' = worker /\ pc'[a] = q /\ ret'[a] = r /\ KeepsGate(a, q, r) /\ KeepsMonitor(a)
  BY Zenon DEF Walks, Moves
<1>2. \A x \in Actors : x # a => Still(x)
  BY Zenon DEF Walks, Moves
<1>3. GateOK'
  <2>1. CASE a = "loop"
    BY Zenon, <1>1, <2>1 DEF GateOK, KeepsGate
  <2>2. CASE a # "loop"
    <3>1. ret'["loop"] = ret["loop"] /\ gate' = gate
      BY Zenon, <1>1, <1>2, <2>2, Names DEF Still, KeepsGate
    <3>2. pc'["loop"] = pc["loop"] \/ pc'["loop"] \in Rests
      BY Zenon, <1>2, <2>2, Names DEF Still
    <3>3. pc'["loop"] \in Rests => pc'["loop"] \notin InMaintain /\ ~LoopStarts(pc'["loop"])
      BY DEF Rests, InMaintain, LoopStarts, Locks, At, Hold
    <3> QED
      BY Zenon, <1>1, <3>1, <3>2, <3>3 DEF GateOK, Inv, LoopStarts
  <2> QED
    BY Zenon, <2>1, <2>2
<1>4. MonitorOK'
  <2>1. a # "mon" => pc'["mon"] = pc["mon"]
    BY Zenon, <1>2, Names DEF Still
  <2> QED
    BY Zenon, <1>1, <2>1 DEF MonitorOK, KeepsMonitor, Inv
<1> QED
  BY Zenon, <1>3, <1>4

LEMMA GoesRecovery ==
  ASSUME Inv, NEW a \in Actors, NEW q, NEW r, Goes(a, q, r)
  PROVE  RecoveryOK'
<1> SUFFICES ASSUME recovery' PROVE RecoveryOK'
  BY Zenon DEF RecoveryOK
<1>1. /\ worker' = worker /\ client' = client /\ kind' = kind /\ recovery
      /\ pc'[a] = q /\ ret'[a] = r /\ KeepsRecovery(a, q, r)
  BY Zenon DEF Goes, Walks, Moves
<1>2. \A x \in Actors : x # a => Still(x)
  BY Zenon DEF Goes, Walks, Moves
<1>3. \A x \in Actors : pc'[x] \in {Hold("prep2"), Hold("start")}
         => x = worker /\ kind[client] = "reinstall"
  BY <1>1, <1>2 DEF KeepsRecovery, Still, Rests, At, Hold, Inv, RecoveryOK
<1>4. \A c \in Callers : kind[c] = "update" => pc'[c] # Hold("reserve")
  BY Zenon, <1>1, <1>2, Names DEF KeepsRecovery, Still, Inv, RecoveryOK
<1>5. ASSUME NEW c \in Callers, kind[c] = "update", InStage(c)
      PROVE  worker # Nobody /\ HasReported(worker)'
  <2>1. worker # Nobody /\ HasReported(worker) /\ client = c
    BY Zenon, <1>1, <1>5, Names DEF Inv, RecoveryOK, OwnersOK, TypeOK, InStage
  <2>2. worker \in Actors
    BY Zenon, <2>1, Names DEF Inv, TypeOK
  <2>3. CASE worker = a
    BY Zenon, <1>1, <1>5, <2>1, <2>3 DEF KeepsRecovery, HasReported
  <2>4. CASE worker # a
    <3>1. pc[worker] \notin Rests
      BY <2>2, Names DEF Inv, PlacesOK, Legal, StandsAt, WorkAt, Rests, Locks, InMaintain, At, Hold
    <3>2. pc'[worker] = pc[worker] /\ ret'[worker] = ret[worker]
      BY Zenon, <1>2, <2>2, <2>4, <3>1 DEF Still
    <3> QED
      BY Zenon, <1>1, <2>1, <3>2 DEF HasReported, Reports, Landing
  <2> QED
    BY Zenon, <2>1, <2>3, <2>4
<1>6. \A c \in Callers : InStage(c)' => InStage(c)
  BY Zenon, WalksStage DEF Goes
<1> QED
  BY Zenon, <1>1, <1>3, <1>4, <1>5, <1>6 DEF RecoveryOK

LEMMA GoesInv ==
  ASSUME Inv, TypeOK', NEW a \in Actors, NEW q, NEW r, Goes(a, q, r)
  PROVE  Inv'
  BY Zenon, WalksPlaces, WalksToken, WalksOwners, WalksGate, GoesRecovery DEF Inv, Goes

-----------------------------------------------------------------------------
\* The ways a goroutine moves.

LEMMA OnlyMoves ==
  ASSUME NEW a \in Actors, NEW q, NEW r, Only(a, q, r)
  PROVE  Moves(a, q, r)
  BY Zenon DEF Only, Moves, Still

LEMMA MonitorKept ==
  ASSUME Inv, NEW a \in Actors, NEW q, NEW r, Only(a, q, r),
         pc[a] \notin {At("gone"), At("sick")} \cup Watching
  PROVE  KeepsMonitor(a)
<1>1. CASE a = "loop"
  BY Zenon, <1>1, Names DEF KeepsMonitor
<1>2. CASE a # "loop"
  BY Zenon, <1>2, Names DEF Only, KeepsMonitor, Inv, MonitorOK
<1> QED
  BY Zenon, <1>1, <1>2

LEMMA GotoGoes ==
  ASSUME TypeOK, NEW a \in Actors, NEW p, Goto(a, p)
  PROVE  Only(a, p, ret[a])
  BY Zenon DEF TypeOK, Goto, Move, Only

LEMMA ObserveGoes ==
  ASSUME TypeOK, NEW a \in Actors, NEW p, ObserveThen(a, p)
  PROVE  Only(a, Observe, p)
  BY Zenon DEF TypeOK, ObserveThen, Move, Only

\* unlock goes on, or calls Maintain first.
Resumes(a, p) == Only(a, p, ret[a]) \/ Only(a, At("halt"), p)

LEMMA UnlockGoes ==
  ASSUME TypeOK, NEW a \in Actors, NEW p, unlock(a, p)
  PROVE  Resumes(a, p) /\ token' = Nobody
<1>1. CASE stop
  BY Zenon, <1>1 DEF TypeOK, unlock, Move, Only, Resumes
<1>2. CASE ~stop
  BY Zenon, <1>2, GotoGoes DEF unlock, Resumes
<1> QED
  BY Zenon, <1>1, <1>2

LEMMA ReleaseGoes ==
  ASSUME TypeOK, NEW a \in Actors, NEW p, releaseMutation(a, p)
  PROVE  Only(a, p, ret[a]) /\ token' = Nobody
  BY Zenon, GotoGoes DEF releaseMutation

\* What most steps leave alone.
Frame ==
  /\ worker' = worker /\ client' = client /\ kind' = kind
  /\ reserved' = reserved /\ (recovery' => recovery)

\* a keeps away from the token, or gives it back.
LetsGo(a) == \/ token' = token /\ pc[a][1] # "hold"
             \/ token' = Nobody /\ token = a

\* A step outside the covered part of an update that does not take the token.
LEMMA PlainInv ==
  ASSUME Inv, TypeOK', NEW a \in Actors, NEW q, NEW r, Only(a, q, r), Frame, LetsGo(a),
         pc[a] \notin UpdatePlaces \cup {At("leave")}, q[1] # "hold", q \notin UpdatePlaces,
         Legal(a, q, r), KeepsGate(a, q, r), KeepsMonitor(a), KeepsInputs,
         job' = job \/ job'.what # "update",
         a = worker /\ HasReported(a) => Reports(Landing(q, r))
  PROVE  Inv'
<1>1. TakesTurn(a, q)
  BY Zenon DEF TakesTurn, LetsGo
<1>2. KeepsStage(a, q)
  BY Zenon DEF KeepsStage, UpdatePlaces
<1>3. KeepsRecovery(a, q, r)
  BY DEF KeepsRecovery, Hold
<1>4. Goes(a, q, r)
  BY Zenon, <1>1, <1>2, <1>3, OnlyMoves DEF Goes, Walks, Frame
<1> QED
  BY Zenon, <1>4, GoesInv

LEMMA BackFits ==
  ASSUME NEW a \in Actors, NEW p, AfterMaintain(a, p)
  PROVE  /\ StandsAt(a, p) /\ p[1] # "hold"
         /\ p \notin InMaintain /\ p \notin Observing /\ p \notin UpdatePlaces
         /\ a = "loop" /\ worker # "loop" /\ LoopStarts(p) => p = At("unstarted")
<1>1. CASE a = worker
  BY <1>1 DEF AfterMaintain, StandsAt, WorkAt, Locks, InMaintain, Observing, UpdatePlaces, At, Ask, Want, Hold
<1>2. CASE a # worker /\ a = "loop"
  BY <1>2, Names DEF AfterMaintain, StandsAt, LoopAt, LoopStarts, Rests, Locks, InMaintain, Observing,
                     UpdatePlaces, At, Want, Hold
<1>3. CASE a # worker /\ a = "mon"
  BY <1>3, Names DEF AfterMaintain, StandsAt, MonAt, InMaintain, Observing, UpdatePlaces, At, Want, Hold
<1>4. CASE a # worker /\ a \in Callers
  BY <1>4, Names DEF AfterMaintain, StandsAt, CallerAt, Suits, Updating, Locks, InMaintain, Observing,
                     UpdatePlaces, Home, At, Ask, Want, Hold
<1> QED
  BY Zenon, <1>1, <1>2, <1>3, <1>4 DEF Actors

\* A goroutine is done with a lock, or did not get it, and goes on at p.
LEMMA ResumeInv ==
  ASSUME Inv, TypeOK', NEW a \in Actors, NEW p, Resumes(a, p), Frame, LetsGo(a),
         job' = job, gate' = gate, KeepsInputs,
         pc[a][1] \in Locks, AfterMaintain(a, p),
         a = "loop" /\ worker # "loop" /\ p = At("unstarted") => gate = "loop",
         a = worker /\ Reports(pc[a]) => Reports(p)
  PROVE  Inv'
<1>1. /\ StandsAt(a, p) /\ p[1] # "hold"
      /\ p \notin InMaintain /\ p \notin Observing /\ p \notin UpdatePlaces
      /\ a = "loop" /\ worker # "loop" /\ LoopStarts(p) => p = At("unstarted")
  BY Zenon, BackFits
<1>2. /\ pc[a] \notin UpdatePlaces \cup {At("leave")} /\ pc[a] \notin InMaintain
      /\ pc[a] \notin {At("gone"), At("sick")} /\ pc[a] \notin Watching
  BY DEF Locks, UpdatePlaces, InMaintain, Watching, At
<1>3. a = worker /\ HasReported(a) => Reports(p)
  BY Zenon, <1>2 DEF HasReported, Landing
<1>4. At("halt")[1] # "hold" /\ At("halt") \notin UpdatePlaces \cup Observing /\ At("halt") \in InMaintain
      /\ ~LoopStarts(At("halt"))
  BY Zenon DEF At, UpdatePlaces, Observing, InMaintain, LoopStarts, Locks, Want, Hold
<1>6. CASE Only(a, p, ret[a])
  <2>1. Legal(a, p, ret[a]) /\ Landing(p, ret[a]) = p
    BY Zenon, <1>1 DEF Legal, Landing
  <2>2. KeepsGate(a, p, ret[a])
    BY Zenon, <1>1 DEF KeepsGate
  <2>3. KeepsMonitor(a)
    BY Zenon, <1>2, <1>6, MonitorKept
  <2> QED
    BY Zenon, <1>1, <1>2, <1>3, <1>6, <2>1, <2>2, <2>3, PlainInv
<1>7. CASE Only(a, At("halt"), p)
  <2>1. Legal(a, At("halt"), p) /\ Landing(At("halt"), p) = p
    BY Zenon, <1>4 DEF Legal, Landing
  <2>2. KeepsGate(a, At("halt"), p)
    BY Zenon, <1>4 DEF KeepsGate
  <2>3. KeepsMonitor(a)
    BY Zenon, <1>2, <1>7, MonitorKept
  <2> QED
    BY Zenon, <1>2, <1>3, <1>4, <1>7, <2>1, <2>2, <2>3, PlainInv
<1> QED
  BY Zenon, <1>6, <1>7 DEF Resumes

\* The failure of a lock, or of what it guards, leads to a place of the same role.
LEMMA FailedFits ==
  ASSUME Inv, NEW a \in Actors, pc[a][1] \in Locks, NEW t,
         t = pc[a][2] \/ (t \in {"prep1", "prep2"} /\ pc[a][2] \in {"prep1", "prep2", "start"})
  PROVE  /\ AfterMaintain(a, Failed(a, t))
         /\ a = "loop" /\ worker # "loop" /\ Failed(a, t) = At("unstarted") => gate = "loop"
         /\ a = worker /\ Reports(pc[a]) => Reports(Failed(a, t))
<1>1. Legal(a, pc[a], ret[a]) /\ pc[a] \notin InMaintain /\ pc[a] = <<pc[a][1], pc[a][2]>>
  BY DEF Inv, PlacesOK, TypeOK, Places, Locks, InMaintain, At
<1>2. StandsAt(a, pc[a])
  BY Zenon, <1>1 DEF Legal
<1>3. CASE pc[a][2] = "observe"
  <2>1. pc[a] \in Observing /\ t = "observe" /\ Failed(a, t) = ret[a]
    BY <1>1, <1>2, <1>3, Names DEF StandsAt, WorkAt, LoopAt, LoopStarts, MonAt, CallerAt, Suits, Updating, Locks,
          Observing, Rests, UpdatePlaces, Home, At, Want, Hold, Failed
  <2>2. AfterObserve(a, ret[a])
    BY Zenon, <1>1, <2>1 DEF Legal
  <2> QED
    BY <2>1, <2>2 DEF AfterObserve, AfterMaintain, Reports, At
<1>4. CASE pc[a][2] # "observe" /\ a = worker
  <2>1. t \in {"prep1", "prep2", "start", "restore", "save", "publish", "apply", "block"}
    BY <1>1, <1>2, <1>4 DEF StandsAt, WorkAt, Locks, At, Hold
  <2>0. a # "mon"
    BY Zenon, <1>4, Names DEF Inv, TypeOK
  <2>2. Failed(a, t) \in {At("fault"), At("finish"), At("block"), At("unsound")}
    BY Zenon, <1>4, <2>0, <2>1 DEF Failed
  <2>3. Reports(pc[a]) => Failed(a, t) = At("unsound")
    BY <1>1, <1>4, <2>0, <2>1 DEF Reports, Observing, Failed, Locks, At, Want, Hold
  <2> QED
    BY Zenon, <1>4, <2>2, <2>3 DEF AfterMaintain, Reports
<1>5. CASE pc[a][2] # "observe" /\ a # worker /\ a = "loop"
  <2>1. t \in {"prep1", "prep2", "start"} /\ LoopStarts(pc[a])
    BY <1>1, <1>2, <1>5, Names DEF StandsAt, LoopAt, LoopStarts, Locks, Observing, Rests, At, Want, Hold
  <2>2. Failed(a, t) = At("unstarted")
    BY Zenon, <1>5, <2>1 DEF Failed
  <2> QED
    BY Zenon, <1>5, <2>1, <2>2 DEF AfterMaintain, Inv, GateOK
<1>6. CASE pc[a][2] # "observe" /\ a # worker /\ a = "mon"
  <2>1. t = "restore"
    BY <1>1, <1>2, <1>6, Names DEF StandsAt, MonAt, Locks, Observing, At, Want, Hold
  <2>2. Failed(a, t) = At("unwell")
    BY Zenon, <1>6, <2>1, Names DEF Failed
  <2> QED
    BY Zenon, <1>6, <2>2, Names DEF AfterMaintain
<1>7. CASE pc[a][2] # "observe" /\ a # worker /\ a \in Callers
  <2>1. t \notin {"observe", "block", "publish", "apply"} /\ kind[a] # "none"
    BY <1>1, <1>2, <1>7, Names DEF StandsAt, CallerAt, Suits, Updating, Locks, UpdatePlaces, Home, At
  <2>2. Failed(a, t) = At("leave")
    BY Zenon, <1>7, <2>1, Names DEF Failed
  <2> QED
    BY Zenon, <1>7, <2>1, <2>2, Names DEF AfterMaintain
<1> QED
  BY Zenon, <1>3, <1>4, <1>5, <1>6, <1>7 DEF Actors

\* A goroutine that asks for the token may wait for it, and one that waits may take it.
LEMMA AskFits ==
  ASSUME NEW t
  PROVE  /\ WorkAt(Ask(t)) => WorkAt(Want(t)) /\ t # "observe"
         /\ LoopAt(Ask(t)) => LoopStarts(Ask(t)) /\ LoopStarts(Want(t)) /\ t # "observe"
         /\ MonAt(Ask(t)) => MonAt(Want(t)) /\ t # "observe"
         /\ \A k : CallerAt(k, Ask(t)) => CallerAt(k, Want(t)) /\ t # "observe"
<1>1. WorkAt(Ask(t)) => WorkAt(Want(t)) /\ t # "observe"
  BY DEF WorkAt, Locks, At, Ask, Want, Hold
<1>2. LoopAt(Ask(t)) => LoopStarts(Ask(t)) /\ LoopStarts(Want(t)) /\ t # "observe"
  BY DEF LoopAt, LoopStarts, Rests, Observing, Locks, At, Ask, Want, Hold
<1>3. MonAt(Ask(t)) => MonAt(Want(t)) /\ t # "observe"
  BY DEF MonAt, Observing, Locks, At, Ask, Want, Hold
<1>4. ASSUME NEW k, CallerAt(k, Ask(t)) PROVE CallerAt(k, Want(t)) /\ t # "observe"
  BY <1>4 DEF CallerAt, Suits, UpdatePlaces, Locks, Home, At, Ask, Want
<1> QED
  BY Zenon, <1>1, <1>2, <1>3, <1>4

LEMMA WantFits ==
  ASSUME NEW t
  PROVE  /\ WorkAt(Want(t)) => WorkAt(Hold(t)) /\ t \notin {"start", "reserve"}
         /\ LoopAt(Want(t)) => /\ LoopAt(Hold(t)) /\ t # "start"
                               /\ LoopStarts(Hold(t)) => LoopStarts(Want(t))
         /\ MonAt(Want(t)) => MonAt(Hold(t)) /\ t \notin {"start", "reserve", "prep2"}
         /\ \A k : CallerAt(k, Want(t)) => CallerAt(k, Hold(t)) /\ t \notin {"start", "prep2"}
<1>1. WorkAt(Want(t)) => WorkAt(Hold(t)) /\ t \notin {"start", "reserve"}
  BY DEF WorkAt, Locks, At, Want, Hold
<1>2. LoopAt(Want(t)) => /\ LoopAt(Hold(t)) /\ t # "start"
                         /\ LoopStarts(Hold(t)) => LoopStarts(Want(t))
  BY DEF LoopAt, LoopStarts, Rests, Observing, Locks, At, Want, Hold
<1>3. MonAt(Want(t)) => MonAt(Hold(t)) /\ t \notin {"start", "reserve", "prep2"}
  BY DEF MonAt, Observing, Locks, At, Want, Hold
<1>4. ASSUME NEW k, CallerAt(k, Want(t)) PROVE CallerAt(k, Hold(t)) /\ t \notin {"start", "prep2"}
  BY <1>4 DEF CallerAt, Suits, UpdatePlaces, Locks, Home, At, Want, Hold
<1> QED
  BY Zenon, <1>1, <1>2, <1>3, <1>4

LEMMA LockAskStep ==
  ASSUME Inv, TypeOK', NEW a \in Actors, LockAsk(a)
  PROVE  Inv'
<1> DEFINE t == pc[a][2]
<1>1. /\ Frame /\ LetsGo(a) /\ job' = job /\ gate' = gate /\ KeepsInputs
      /\ pc[a][1] = "ask" /\ pc[a] = Ask(t)
  BY DEF LockAsk, Frame, LetsGo, KeepsInputs, flags, super, work, owning, ops, Inv, TypeOK, Places, Ask
<1>2. CASE Goto(a, Failed(a, t))
  <2>1. Only(a, Failed(a, t), ret[a])
    BY Zenon, <1>2, GotoGoes DEF Inv
  <2> QED
    BY Zenon, <1>1, <2>1, FailedFits, ResumeInv DEF Resumes, Locks
<1>3. CASE Goto(a, Want(t))
  <2>1. Only(a, Want(t), ret[a])
    BY Zenon, <1>3, GotoGoes DEF Inv
  <2>2. StandsAt(a, pc[a])
    BY <1>1 DEF Inv, PlacesOK, Legal, InMaintain, At, Ask
  <2>3. /\ StandsAt(a, Want(t)) /\ t # "observe"
        /\ a = "loop" /\ worker # "loop" => LoopStarts(pc[a])
    BY Zenon, <1>1, <2>2, AskFits, Names DEF StandsAt, LoopAt
  <2>4. Legal(a, Want(t), ret[a])
    BY Zenon, <2>3 DEF Legal, InMaintain, Observing, At, Want, Hold
  <2>5. KeepsGate(a, Want(t), ret[a])
    BY Zenon, <1>1, <2>3 DEF KeepsGate, InMaintain, At, Want, Inv, GateOK
  <2>6. KeepsMonitor(a)
    BY <1>1, <2>1, MonitorKept DEF Watching, At, Ask
  <2>7. ~HasReported(a)
    BY <1>1, <2>3 DEF HasReported, Landing, InMaintain, Reports, Observing, At, Ask, Want, Hold
  <2> QED
    BY <1>1, <2>1, <2>4, <2>5, <2>6, <2>7, PlainInv DEF UpdatePlaces, At, Ask, Want
<1> QED
  BY Zenon, <1>2, <1>3 DEF LockAsk

LEMMA LockStep ==
  ASSUME Inv, TypeOK', NEW a \in Actors, lockMaintenance(a)
  PROVE  Inv'
<1> DEFINE t == pc[a][2]
<1>1. /\ Frame /\ job' = job /\ gate' = gate /\ KeepsInputs
      /\ pc[a][1] = "want" /\ pc[a] = Want(t) /\ token = Nobody
  BY DEF lockMaintenance, Frame, KeepsInputs, super, work, ops, Inv, TypeOK, Places, Want
<1>2. CASE Refuses(a, t)
  <2>1. unlock(a, Failed(a, t))
    BY Zenon, <1>2 DEF lockMaintenance
  <2>2. Resumes(a, Failed(a, t)) /\ LetsGo(a)
    BY Zenon, <1>1, <2>1, UnlockGoes DEF Inv, LetsGo
  <2> QED
    BY Zenon, <1>1, <2>2, FailedFits, ResumeInv DEF Locks
<1>3. CASE ~Refuses(a, t)
  <2>1. Only(a, Hold(t), ret[a]) /\ token' = a
    BY Zenon, <1>3, GotoGoes DEF lockMaintenance, Inv
  <2>2. Legal(a, pc[a], ret[a]) /\ StandsAt(a, pc[a])
    BY <1>1 DEF Inv, PlacesOK, Legal, InMaintain, At, Want
  <2>3. /\ StandsAt(a, Hold(t)) /\ t # "start"
        /\ a = "loop" /\ worker # "loop" /\ LoopStarts(Hold(t)) => LoopStarts(pc[a])
        /\ t \in {"prep2", "reserve"} => (a = worker <=> t = "prep2") \/ a = "loop"
    BY Zenon, <1>1, <2>2, WantFits, Names DEF StandsAt
  <2>4. Legal(a, Hold(t), ret[a])
    BY Zenon, <1>1, <2>2, <2>3 DEF Legal, InMaintain, Observing, At, Want, Hold
  <2>5. TakesTurn(a, Hold(t))
    BY Zenon, <1>1, <1>3, <2>1 DEF TakesTurn, Hold, Refuses, Reserved
  <2>6. KeepsStage(a, Hold(t))
    BY <1>1 DEF KeepsStage, UpdatePlaces, At, Want, Hold
  <2>7. KeepsGate(a, Hold(t), ret[a])
    BY Zenon, <1>1, <2>3 DEF KeepsGate, InMaintain, At, Hold, Inv, GateOK
  <2>8. KeepsMonitor(a)
    BY <1>1, <2>1, MonitorKept DEF Watching, At, Want
  <2>9. KeepsRecovery(a, Hold(t), ret[a])
    <3> SUFFICES ASSUME recovery PROVE KeepsRecovery(a, Hold(t), ret[a])
      BY Zenon DEF KeepsRecovery
    <3>1. ASSUME t \in {"prep2", "reserve"} PROVE ownsCoreUpdate(a, t)
      BY Zenon, <1>3, <3>1 DEF Refuses, Reserved, Mutating
    <3>2. Landing(pc[a], ret[a]) = pc[a] /\ Landing(Hold(t), ret[a]) = Hold(t)
      BY <1>1 DEF Landing, InMaintain, At, Want, Hold
    <3>3. ASSUME t = "prep2" PROVE a = worker /\ kind[client] = "reinstall"
      <4>1. a = worker /\ client = reserved /\ client \in Callers
        BY <2>3, <3>1, <3>3, Names DEF ownsCoreUpdate, Inv, OwnersOK, TypeOK
      <4>2. ~HasReported(worker)
        BY <1>1, <3>2, <3>3, <4>1 DEF HasReported, Reports, Observing, At, Want, Hold
      <4>3. kind[client] # "update"
        BY Zenon, <4>1, <4>2 DEF Inv, RecoveryOK, InStage
      <4> QED
        BY Zenon, <4>1, <4>3 DEF Inv, OwnersOK, Updating
    <3>4. ASSUME t = "reserve", a \in Callers PROVE kind[a] # "update"
      <4>1. a # worker /\ reserved = a
        BY Zenon, <2>3, <3>1, <3>4, Names DEF ownsCoreUpdate
      <4> QED
        BY <1>1, <3>4, <4>1 DEF Inv, OwnersOK, UpdatePlaces, At, Want
    <3>5. HasReported(a) => Reports(Landing(Hold(t), ret[a]))
      BY <1>1, <3>2 DEF HasReported, Reports, Observing, At, Want, Hold
    <3> QED
      BY Zenon, <2>3, <3>3, <3>4, <3>5 DEF KeepsRecovery, Hold
  <2>10. Goes(a, Hold(t), ret[a])
    BY Zenon, <1>1, <2>1, <2>4, <2>5, <2>6, <2>7, <2>8, <2>9, OnlyMoves DEF Goes, Walks,
       Frame
  <2> QED
    BY Zenon, <2>10, GoesInv
<1> QED
  BY Zenon, <1>2, <1>3

LEMMA GiveUpStep ==
  ASSUME Inv, TypeOK', NEW a \in Actors, LockGiveUp(a)
  PROVE  Inv'
<1> DEFINE t == pc[a][2]
<1>1. /\ Frame /\ job' = job /\ gate' = gate /\ KeepsInputs /\ LetsGo(a)
      /\ pc[a][1] = "want" /\ Goto(a, Failed(a, t))
  BY Zenon DEF LockGiveUp, Frame, KeepsInputs, LetsGo, flags, super, work, owning, ops
<1>2. Resumes(a, Failed(a, t))
  BY Zenon, <1>1, GotoGoes DEF Resumes, Inv
<1> QED
  BY Zenon, <1>1, <1>2, FailedFits, ResumeInv DEF Locks

-----------------------------------------------------------------------------
\* Steps of a goroutine that holds the token.

LEMMA Holder ==
  ASSUME Inv, NEW a \in Actors, NEW t, Holds(a, t)
  PROVE  /\ pc[a] = Hold(t) /\ pc[a][1] = "hold" /\ pc[a][1] \in Locks /\ pc[a][2] = t
         /\ token = a /\ StandsAt(a, Hold(t))
         /\ pc[a] \notin {At("gone"), At("sick")} \cup Watching
         /\ pc[a] \notin UpdatePlaces \cup {At("leave")} /\ pc[a] \notin InMaintain
  BY DEF Holds, Inv, PlacesOK, Legal, InMaintain, Locks, Watching, UpdatePlaces, At, Hold

\* It gives the token back and goes on at p.
LEMMA HolderResumes ==
  ASSUME Inv, TypeOK', NEW a \in Actors, NEW t, NEW p, Holds(a, t),
         unlock(a, p) \/ releaseMutation(a, p),
         Frame, job' = job, gate' = gate, KeepsInputs, AfterMaintain(a, p),
         a = "loop" /\ worker # "loop" /\ p = At("unstarted") => gate = "loop",
         a = worker /\ Reports(Hold(t)) => Reports(p)
  PROVE  Inv'
<1>1. Resumes(a, p) /\ token' = Nobody
  BY Zenon, UnlockGoes, ReleaseGoes DEF Inv, Resumes
<1> QED
  BY Zenon, <1>1, Holder, ResumeInv DEF LetsGo

\* The tasks of the control API.
CallerTasks == {"mutate", "add", "settings", "status", "restart", "capture", "reserve",
                "seize", "broken"}

LEMMA CallerHolds ==
  ASSUME Inv, NEW c \in Callers, NEW t \in CallerTasks, Holds(c, t)
  PROVE  c # worker /\ Suits(kind[c], t)
<1>1. StandsAt(c, Hold(t))
  BY Zenon, Holder, Names
<1>2. ~WorkAt(Hold(t))
  BY Zenon DEF WorkAt, CallerTasks, At, Hold
<1> QED
  BY Zenon, <1>1, <1>2, Names DEF StandsAt, CallerAt, UpdatePlaces, Home, At, Hold

LEMMA CallerUnlocks ==
  ASSUME Inv, TypeOK', NEW c \in Callers, NEW t \in CallerTasks, NEW p, Holds(c, t),
         unlock(c, p) \/ releaseMutation(c, p),
         Frame, job' = job, gate' = gate, KeepsInputs,
         \/ p = At("leave")
         \/ p = At("mark") /\ kind[c] = "add"
         \/ p = <<"call", "restart">> /\ t = "restart"
         \/ p = Ask("reserve") /\ t = "capture"
  PROVE  Inv'
<1>1. c # worker /\ Suits(kind[c], t)
  BY Zenon, CallerHolds
<1>2. AfterMaintain(c, p)
  BY Zenon, <1>1, Names DEF AfterMaintain, Suits, Updating
<1> QED
  BY Zenon, <1>1, <1>2, HolderResumes, Names

-----------------------------------------------------------------------------
\* Inputs go stale only through the update itself while it is covered.

LEMMA OwnMoves ==
  ASSUME Inv, NEW a \in Actors, reserved = Nobody \/ worker = a, configGenerationMoves(a)
  PROVE  KeepsInputs
<1> SUFFICES ASSUME NEW c \in Callers, InStage(c), <<c, "update">> \in stale'
             PROVE  <<c, "update">> \in stale
  BY Zenon DEF KeepsInputs
<1>1. reserved = c /\ worker = a
  BY Zenon, Names DEF Inv, OwnersOK, TypeOK
<1>2. client \in Callers
  BY Zenon, <1>1, Names DEF Inv, OwnersOK, TypeOK
<1>3. client = c
  BY Zenon, <1>1, <1>2 DEF Inv, OwnersOK, InStage
<1> QED
  BY Zenon, <1>1, <1>3 DEF configGenerationMoves, Mine

LEMMA HolderOwns ==
  ASSUME Inv, NEW a \in Actors, NEW t, Holds(a, t),
         t \in {"mutate", "add", "settings", "prep2", "restore"} \/ a = worker
  PROVE  reserved = Nobody \/ worker = a
<1>1. CASE a # worker /\ reserved # Nobody
  <2>1. ownsCoreUpdate(a, t) /\ a = reserved /\ a \in Callers
    BY <1>1, Holder, Names DEF Inv, UpdateExclusive, Mutating, ownsCoreUpdate, TypeOK
  <2>2. CallerAt(kind[a], Hold(t)) /\ Updating(kind[a])
    BY <1>1, <2>1, Holder, Names DEF StandsAt, Inv, OwnersOK
  <2> QED
    BY Zenon, <1>1, <2>2 DEF CallerAt, Suits, Updating, UpdatePlaces, Home, At, Hold
<1> QED
  BY Zenon, <1>1

LEMMA EpochMoves ==
  ASSUME NEW S, S \subseteq Starts, stale' \subseteq stale \cup S
  PROVE  KeepsInputs
  BY Zenon DEF KeepsInputs, Starts

-----------------------------------------------------------------------------
\* Operations of the control API.

LEMMA CallerStep1 ==
  ASSUME Inv, TypeOK', NEW c \in Callers,
         \/ MutationSettles(c) \/ SubscriptionBreaks(c) \/ UnlockBroken(c)
         \/ enterMutationDegraded(c) \/ Status(c) \/ Restart(c) \/ captureCoreUpdateInputs(c)
  PROVE  Inv'
<1> USE DEF CallerTasks
<1>1. CASE MutationSettles(c)
  <2>1. PICK t \in {"mutate", "add", "settings"} : Holds(c, t)
    BY Zenon, <1>1 DEF MutationSettles
  <2>2. KeepsInputs
    BY Zenon, <1>1, <2>1, HolderOwns, OwnMoves, Names DEF MutationSettles, KeepsInputs
  <2> QED
    BY Zenon, <1>1, <2>1, <2>2, CallerUnlocks DEF MutationSettles, Frame, super, work
<1>2. CASE SubscriptionBreaks(c)
  <2>1. Holds(c, "add") /\ unlock(c, At("mark")) /\ kind[c] = "add"
    BY Zenon, <1>2, CallerHolds DEF SubscriptionBreaks, Suits, Updating
  <2> QED
    BY Zenon, <1>2, <2>1, CallerUnlocks DEF SubscriptionBreaks, Frame, super, work, ops,
       KeepsInputs
<1>3. CASE UnlockBroken(c)
  BY Zenon, <1>3, CallerUnlocks DEF UnlockBroken, Frame, super, work, ops, KeepsInputs
<1>4. CASE enterMutationDegraded(c)
  BY Zenon, <1>4, CallerUnlocks DEF enterMutationDegraded, Frame, super, work, ops,
     KeepsInputs
<1>5. CASE Status(c)
  BY Zenon, <1>5, CallerUnlocks DEF Status, Frame, super, work, ops, KeepsInputs
<1>6. CASE Restart(c)
  BY Zenon, <1>6, CallerUnlocks DEF Restart, Frame, super, work, ops, KeepsInputs
<1>7. CASE captureCoreUpdateInputs(c)
  BY Zenon, <1>7, CallerUnlocks DEF captureCoreUpdateInputs, Frame, super, work,
     KeepsInputs
<1> QED
  BY Zenon, <1>1, <1>2, <1>3, <1>4, <1>5, <1>6, <1>7

\* A caller outside the work of an update moves without the token.
LEMMA CallerMoves ==
  ASSUME Inv, TypeOK', NEW c \in Callers, NEW q, Moves(c, q, ret[c]), Frame, KeepsMonitor(c),
         token' = token, gate' = gate, stale' = stale, c # worker,
         pc[c][1] # "hold", q[1] # "hold", CallerAt(kind[c], q), q \notin InMaintain,
         q \notin Observing, KeepsStage(c, q)
  PROVE  Inv'
<1>1. Legal(c, q, ret[c])
  BY Zenon DEF Legal, StandsAt
<1>2. TakesTurn(c, q)
  BY Zenon DEF TakesTurn
<1>3. KeepsGate(c, q, ret[c])
  BY Zenon, Names DEF KeepsGate
<1>4. KeepsRecovery(c, q, ret[c])
  BY DEF KeepsRecovery, Hold
<1>5. Goes(c, q, ret[c])
  BY Zenon, <1>1, <1>2, <1>3, <1>4 DEF Goes, Walks, Frame, KeepsInputs
<1> QED
  BY Zenon, <1>5, GoesInv, Names

LEMMA CallerStands ==
  ASSUME Inv, NEW c \in Callers, ~WorkAt(pc[c]), pc[c] \notin InMaintain
  PROVE  c # worker /\ CallerAt(kind[c], pc[c])
  BY Zenon, Names DEF Inv, PlacesOK, Legal, StandsAt

LEMMA CallerStep2 ==
  ASSUME Inv, TypeOK', NEW c \in Callers,
         markConfigDegraded(c) \/ SupervisorRestart(c) \/ SendCancelled(c)
  PROVE  Inv'
<1>1. /\ Frame /\ token' = token /\ gate' = gate /\ stale' = stale /\ job' = job
      /\ pc[c] \in {At("mark"), <<"call", "restart">>, <<"send", "restart">>,
                    <<"send", "update">>, <<"sent", "restart">>}
  <2>1. CASE markConfigDegraded(c)
    BY Zenon, <2>1 DEF markConfigDegraded, Frame, flags, super, work, owning, ops
  <2>2. CASE SupervisorRestart(c)
    BY Zenon, <2>2 DEF SupervisorRestart, Frame, flags, super, work, owning, ops
  <2>3. CASE SendCancelled(c)
    BY Zenon, <2>3 DEF SendCancelled, Frame, flags, super, work, owning, ops
  <2> QED
    BY Zenon, <2>1, <2>2, <2>3
<1> USE DEF UpdatePlaces, InMaintain, Observing, Home, At, Ask, Want, Hold
<1>2. pc[c] \notin {At("gone"), At("sick")} \cup Watching
  BY <1>1 DEF Watching
<1>3. c # worker /\ CallerAt(kind[c], pc[c])
  BY <1>1, CallerStands DEF WorkAt, Locks
<1>4. kind[c] # "none" /\ (pc[c][2] = "restart" => kind[c] = "restart")
  BY <1>1, <1>3 DEF CallerAt, Updating, Locks, Suits
<1>5. CASE Goto(c, At("leave"))
  <2>1. Only(c, At("leave"), ret[c])
    BY Zenon, <1>5, GotoGoes, Names DEF Inv
  <2>2. KeepsMonitor(c) /\ Moves(c, At("leave"), ret[c])
    BY Zenon, <1>2, <2>1, MonitorKept, OnlyMoves, Names
  <2>3. KeepsStage(c, At("leave"))
    BY <1>1 DEF KeepsStage
  <2>4. CallerAt(kind[c], At("leave"))
    BY Zenon, <1>4 DEF CallerAt
  <2> QED
    <3>1. /\ pc[c][1] # "hold" /\ At("leave")[1] # "hold"
          /\ At("leave") \notin InMaintain /\ At("leave") \notin Observing
      BY <1>1
    <3> HIDE DEF UpdatePlaces, InMaintain, Observing, Home, At, Ask, Want, Hold
    <3> QED
      BY Zenon, <1>1, <1>3, <2>2, <2>3, <2>4, <3>1, CallerMoves
<1>6. CASE pc[c] = <<"call", "restart">> /\ Goto(c, <<"send", "restart">>)
  <2>1. Only(c, <<"send", "restart">>, ret[c])
    BY Zenon, <1>6, GotoGoes, Names DEF Inv
  <2>2. KeepsMonitor(c) /\ Moves(c, <<"send", "restart">>, ret[c])
    BY Zenon, <1>2, <2>1, MonitorKept, OnlyMoves, Names
  <2>3. KeepsStage(c, <<"send", "restart">>)
    BY <1>1, <1>6 DEF KeepsStage
  <2>4. CallerAt(kind[c], <<"send", "restart">>)
    BY <1>4, <1>6 DEF CallerAt
  <2> QED
    BY <1>1, <1>3, <2>2, <2>3, <2>4, CallerMoves
<1> QED
  BY Zenon, <1>5, <1>6 DEF markConfigDegraded, SupervisorRestart, SendCancelled

LEMMA MutationBreaksStep ==
  ASSUME Inv, TypeOK', NEW c \in Callers, MutationBreaks(c)
  PROVE  Inv'
<1> DEFINE q == Hold("broken")
<1>1. PICK t \in {"mutate", "add"} : Holds(c, t)
  BY Zenon DEF MutationBreaks
<1>2. c # worker /\ kind[c] = t
  BY Zenon, <1>1, CallerHolds DEF CallerTasks, Suits, Updating
<1>3. Only(c, q, ret[c]) /\ token' = token /\ Frame /\ gate' = gate /\ job' = job /\ KeepsInputs
  BY Zenon, GotoGoes, Names DEF MutationBreaks, Inv, Frame, super, work, owning, ops,
     KeepsInputs
<1>4. Legal(c, q, ret[c])
  BY Zenon, <1>2, Names DEF Legal, StandsAt, CallerAt, Suits, Locks, InMaintain, Observing,
     At, Want, Hold
<1>5. TakesTurn(c, q)
  BY Zenon, <1>1, <1>3, Holder, Names DEF TakesTurn, Hold, Mutating
<1>6. KeepsStage(c, q)
  BY Zenon, <1>1, <1>3, Holder, Names DEF KeepsStage, UpdatePlaces, Hold
<1>7. KeepsGate(c, q, ret[c])
  BY Zenon, <1>3, Names DEF KeepsGate
<1>8. KeepsMonitor(c)
  BY Zenon, <1>1, <1>3, Holder, MonitorKept, Names
<1>9. KeepsRecovery(c, q, ret[c])
  BY Zenon, <1>2 DEF KeepsRecovery, Hold
<1>10. Goes(c, q, ret[c])
  BY Zenon, <1>3, <1>4, <1>5, <1>6, <1>7, <1>8, <1>9, OnlyMoves, Names DEF Goes, Walks,
     Frame
<1> QED
  BY Zenon, <1>10, GoesInv, Names

-----------------------------------------------------------------------------
\* Maintain, called by unlock.

LEMMA MaintainMoves ==
  ASSUME Inv, TypeOK', NEW a \in Actors, NEW q, Moves(a, q, ret[a]), Frame,
         pc[a] \in InMaintain, q \in InMaintain \/ q = ret[a], KeepsMonitor(a),
         token' = token, gate' = gate, stale' = stale, job' = job \/ job'.what # "update"
  PROVE  Inv'
<1>1. AfterMaintain(a, ret[a])
  BY Zenon DEF Inv, PlacesOK, Legal
<1>2. /\ StandsAt(a, ret[a]) /\ ret[a][1] # "hold"
      /\ ret[a] \notin InMaintain /\ ret[a] \notin Observing /\ ret[a] \notin UpdatePlaces
      /\ a = "loop" /\ worker # "loop" /\ LoopStarts(ret[a]) => ret[a] = At("unstarted")
  BY Zenon, <1>1, BackFits
<1>3. \A p \in InMaintain : p \notin Observing /\ p \notin UpdatePlaces /\ p[1] # "hold"
                              /\ ~LoopStarts(p) /\ p # At("leave")
  BY DEF InMaintain, Observing, UpdatePlaces, LoopStarts, Locks, At, Want, Hold
<1>4. Legal(a, q, ret[a]) /\ Landing(q, ret[a]) = ret[a]
  BY Zenon, <1>1, <1>2, <1>3 DEF Legal, Landing
<1>5. TakesTurn(a, q)
  BY Zenon, <1>2, <1>3 DEF TakesTurn
<1>6. KeepsStage(a, q)
  BY Zenon, <1>2, <1>3 DEF KeepsStage, UpdatePlaces
<1>7. KeepsGate(a, q, ret[a])
  BY Zenon, <1>2, <1>3 DEF KeepsGate, Inv, GateOK
<1>8. KeepsRecovery(a, q, ret[a])
  BY <1>2, <1>3, <1>4 DEF KeepsRecovery, HasReported, Landing, Hold
<1>9. Goes(a, q, ret[a])
  BY Zenon, <1>4, <1>5, <1>6, <1>7, <1>8 DEF Goes, Walks, Frame, KeepsInputs
<1> QED
  BY Zenon, <1>9, GoesInv

LEMMA MaintainStep ==
  ASSUME Inv, TypeOK', NEW a \in Actors, Maintain(a)
  PROVE  Inv'
<1>1. /\ Frame /\ token' = token /\ gate' = gate /\ stale' = stale /\ job' = job
      /\ pc[a] = At("halt")
  BY Zenon DEF Maintain, Frame, flags, work, owning, ops
<1>2. PICK q \in {ret[a], <<"send", "halt">>} : Goto(a, q)
  BY Zenon DEF Maintain
<1>3. Only(a, q, ret[a])
  BY Zenon, <1>2, GotoGoes DEF Inv
<1>4. KeepsMonitor(a) /\ Moves(a, q, ret[a])
  BY <1>1, <1>3, MonitorKept, OnlyMoves DEF Watching, At
<1> QED
  BY Zenon, <1>1, <1>2, <1>4, MaintainMoves DEF InMaintain

LEMMA SendClosedStep ==
  ASSUME Inv, TypeOK', NEW a \in Actors, SendClosed(a)
  PROVE  Inv'
<1>1. /\ Frame /\ token' = token /\ gate' = gate /\ stale' = stale /\ job' = job
  BY Zenon DEF SendClosed, Frame, flags, super, work, owning, ops
<1>2. CASE pc[a] = <<"send", "halt">>
  <2>1. Only(a, ret[a], ret[a])
    BY <1>2, GotoGoes DEF SendClosed, Inv
  <2>2. KeepsMonitor(a) /\ Moves(a, ret[a], ret[a])
    BY <1>2, <2>1, MonitorKept, OnlyMoves DEF Watching, At
  <2> QED
    BY Zenon, <1>1, <1>2, <2>2, MaintainMoves DEF InMaintain
<1>3. CASE pc[a] = <<"send", "update">>
  <2>1. Only(a, At("leave"), ret[a])
    BY <1>3, GotoGoes DEF SendClosed, Inv
  <2>2. KeepsMonitor(a) /\ Moves(a, At("leave"), ret[a])
    BY <1>3, <2>1, MonitorKept, OnlyMoves DEF Watching, At
  <2>3. StandsAt(a, pc[a])
    BY <1>3 DEF Inv, PlacesOK, Legal, InMaintain, At
  <2>4. a \in Callers /\ a # worker /\ kind[a] # "none"
    BY <1>3, <2>3, Names DEF StandsAt, WorkAt, LoopAt, LoopStarts, MonAt, CallerAt, Rests, Observing, Updating,
          Locks, Home, At, Want, Hold, Actors
  <2>5. KeepsStage(a, At("leave"))
    BY <1>1, <1>3 DEF KeepsStage, UpdatePlaces, At
  <2>6. CallerAt(kind[a], At("leave"))
    BY Zenon, <2>4 DEF CallerAt
  <2>7. At("leave") \notin InMaintain /\ At("leave") \notin Observing /\ At("leave")[1] # "hold"
    BY Zenon DEF InMaintain, Observing, At, Want, Hold
  <2> QED
    BY <1>1, <1>3, <2>2, <2>4, <2>5, <2>6, <2>7, CallerMoves
<1> QED
  BY Zenon, <1>2, <1>3 DEF SendClosed

-----------------------------------------------------------------------------
\* The loop and its monitor.

\* The loop, not at work for an update, goes to rest or to Observe.
LEMMA LoopMoves ==
  ASSUME Inv, TypeOK', NEW q, NEW r, Only("loop", q, r), Frame, LetsGo("loop"),
         pc["loop"] \in Rests \/ (LoopStarts(pc["loop"]) /\ worker # "loop"),
         q \in Rests \/ (q = Observe /\ r \in {At("top"), At("spawn"), At("backoff"), At("end")}),
         gate' \in {gate, Nobody}, gate' = gate \/ gate \notin Callers, stale' = stale,
         pc["loop"] \in Watching => q \in Watching \/ pc["mon"] \in {At("gone"), At("sick")},
         job' = job \/ job'.what # "update"
  PROVE  Inv'
<1>1. worker # "loop"
  BY Names DEF Inv, PlacesOK, Legal, StandsAt, WorkAt, Rests, Locks, InMaintain, At, Hold
<1>2. pc["loop"] \notin UpdatePlaces \cup {At("leave")}
  BY DEF Rests, LoopStarts, Locks, UpdatePlaces, At, Hold
<1>3. /\ q[1] # "hold" /\ q \notin UpdatePlaces /\ q \notin InMaintain /\ ~LoopStarts(q)
      /\ q \in Rests => q \notin Observing
      /\ LoopAt(q)
  BY DEF Rests, Observe, Observing, UpdatePlaces, InMaintain, LoopStarts, LoopAt, Locks, At, Want, Hold
<1>4. Legal("loop", q, r)
  BY Zenon, <1>1, <1>3 DEF Legal, StandsAt, AfterObserve
<1>5. KeepsGate("loop", q, r)
  BY Zenon, <1>3 DEF KeepsGate
<1>6. KeepsMonitor("loop")
  BY Zenon, Names DEF KeepsMonitor, Only
<1> QED
  BY Zenon, <1>1, <1>2, <1>3, <1>4, <1>5, <1>6, PlainInv, Names DEF KeepsInputs

LEMMA LoopStep ==
  ASSUME Inv, TypeOK',
         RunBegins \/ LoopTop \/ LoopLeaves \/ RunEnds \/ \E w \in {"ctx", "sick", "exit"} : OwnEnds(w)
  PROVE  Inv'
<1>1. /\ Frame /\ token' = token /\ gate' = gate /\ stale' = stale
      /\ job' = job \/ job'.what # "update"
  <2>1. CASE RunBegins \/ LoopTop \/ LoopLeaves
    <3>1. UNCHANGED <<flags, super, work, owning, ops, run>>
      BY Zenon, <2>1 DEF RunBegins, LoopTop, LoopLeaves
    <3> QED
      BY Zenon, <3>1 DEF Frame, flags, super, work, owning, ops
  <2>2. ASSUME NEW w \in {"ctx", "sick", "exit"}, OwnEnds(w)
        PROVE  /\ Frame /\ token' = token /\ gate' = gate /\ stale' = stale
               /\ job' = job \/ job'.what # "update"
    <3>1. Frame /\ token' = token /\ gate' = gate /\ stale' = stale
      BY Zenon, <2>2 DEF OwnEnds, Frame, flags, super, work, owning, ops
    <3>2. job'.what = w
      BY <2>2 DEF OwnEnds, StopsChild
    <3> QED
      BY <3>1, <3>2
  <2>3. CASE RunEnds
    BY Zenon, <2>3 DEF RunEnds, Frame, flags, super, work, owning, ops
  <2> QED
    BY Zenon, <2>1, <2>2, <2>3
<1>2. pc["loop"] \in Rests /\ LetsGo("loop")
  BY <1>1 DEF RunBegins, LoopTop, LoopLeaves, RunEnds, OwnEnds, Loop, Rests, LetsGo, At
<1>3. \/ \E q \in Rests : Goto("loop", q) /\ (pc["loop"] \in Watching => q \in Watching)
      \/ ObserveThen("loop", At("end")) /\ pc["loop"] \notin Watching
  BY DEF RunBegins, LoopTop, LoopLeaves, RunEnds, OwnEnds, Loop, Rests, Watching, At
<1>4. CASE \E q \in Rests : Goto("loop", q) /\ (pc["loop"] \in Watching => q \in Watching)
  <2>1. PICK q \in Rests : Goto("loop", q) /\ (pc["loop"] \in Watching => q \in Watching)
    BY Zenon, <1>4
  <2>2. Only("loop", q, ret["loop"])
    BY Zenon, <2>1, GotoGoes, Names DEF Inv
  <2> QED
    BY Zenon, <1>1, <1>2, <2>1, <2>2, LoopMoves
<1>5. CASE ObserveThen("loop", At("end")) /\ pc["loop"] \notin Watching
  <2>1. Only("loop", Observe, At("end"))
    BY Zenon, <1>5, ObserveGoes, Names DEF Inv
  <2> QED
    BY Zenon, <1>1, <1>2, <1>5, <2>1, LoopMoves
<1> QED
  BY Zenon, <1>3, <1>4, <1>5

LEMMA LoopUnstartedStep ==
  ASSUME Inv, TypeOK', LoopUnstarted
  PROVE  Inv'
<1>1. /\ Frame /\ token' = token /\ gate' = Nobody /\ stale' = stale /\ job' = job
      /\ pc["loop"] \in {At("unstarted"), At("unsafe")}
  BY Zenon DEF LoopUnstarted, Loop, Frame, flags, work, ops
<1>2. worker # "loop"
  BY <1>1, Names DEF Inv, PlacesOK, Legal, StandsAt, WorkAt, Locks, InMaintain, At, Hold
<1>3. LoopStarts(pc["loop"]) /\ gate \notin Callers /\ pc["loop"] \notin Watching /\ LetsGo("loop")
  BY <1>1, <1>2, Names DEF LoopStarts, Inv, GateOK, Watching, LetsGo, At
<1>4. \/ Goto("loop", At("top"))
      \/ \E p \in {At("top"), At("backoff")} : ObserveThen("loop", p)
  BY Zenon DEF LoopUnstarted
<1>5. CASE Goto("loop", At("top"))
  <2>1. Only("loop", At("top"), ret["loop"])
    BY Zenon, <1>5, GotoGoes, Names DEF Inv
  <2> QED
    BY Zenon, <1>1, <1>2, <1>3, <2>1, LoopMoves DEF Rests
<1>6. CASE \E p \in {At("top"), At("backoff")} : ObserveThen("loop", p)
  <2>1. PICK p \in {At("top"), At("backoff")} : Only("loop", Observe, p)
    BY Zenon, <1>6, ObserveGoes, Names DEF Inv
  <2> QED
    BY Zenon, <1>1, <1>2, <1>3, <2>1, LoopMoves
<1> QED
  BY Zenon, <1>4, <1>5, <1>6

LEMMA LoopGateStep ==
  ASSUME Inv, TypeOK', LoopGate
  PROVE  Inv'
<1>1. /\ Frame /\ token' = token /\ stale' = stale /\ job' = job
      /\ pc["loop"] = At("gate") /\ gate = Nobody
  BY Zenon DEF LoopGate, Loop, Frame, flags, work, ops
<1>2. pc["loop"] \in Rests /\ pc["loop"] \notin Watching /\ LetsGo("loop")
  BY <1>1 DEF Rests, Watching, LetsGo, At
<1>3. CASE gate' = gate /\ Goto("loop", At("top"))
  <2>1. Only("loop", At("top"), ret["loop"])
    BY Zenon, <1>3, GotoGoes, Names DEF Inv
  <2> QED
    BY Zenon, <1>1, <1>2, <1>3, <2>1, LoopMoves DEF Rests
<1>4. CASE gate' = gate /\ ObserveThen("loop", At("spawn"))
  <2>1. Only("loop", Observe, At("spawn"))
    BY Zenon, <1>4, ObserveGoes, Names DEF Inv
  <2> QED
    BY Zenon, <1>1, <1>2, <1>4, <2>1, LoopMoves
<1>5. CASE gate' = "loop" /\ Goto("loop", Ask("prep1"))
  <2> DEFINE q == Ask("prep1")
  <2>1. Only("loop", q, ret["loop"])
    BY Zenon, <1>5, GotoGoes, Names DEF Inv
  <2>2. worker # "loop"
    BY <1>1, Names DEF Inv, PlacesOK, Legal, StandsAt, WorkAt, Locks, InMaintain, At, Hold
  <2>3. /\ q[1] # "hold" /\ q \notin UpdatePlaces /\ q \notin InMaintain /\ q \notin Observing
        /\ LoopAt(q)
    BY Zenon DEF UpdatePlaces, InMaintain, Observing, LoopAt, LoopStarts, Locks, At, Ask,
       Want, Hold
  <2>4. Legal("loop", q, ret["loop"])
    BY Zenon, <2>2, <2>3 DEF Legal, StandsAt
  <2>5. KeepsGate("loop", q, ret["loop"])
    BY Zenon, <1>1, <1>5, Names DEF KeepsGate, Inv, TypeOK
  <2>6. KeepsMonitor("loop")
    BY <1>1, <2>1, MonitorKept, Names DEF Watching, At
  <2>7. pc["loop"] \notin UpdatePlaces \cup {At("leave")}
    BY <1>1 DEF UpdatePlaces, At
  <2> QED
    BY Zenon, <1>1, <1>2, <2>1, <2>2, <2>3, <2>4, <2>5, <2>6, <2>7, PlainInv, Names DEF
       KeepsInputs
<1> QED
  BY Zenon, <1>3, <1>4, <1>5 DEF LoopGate

LEMMA MonitorMoves ==
  ASSUME Inv, TypeOK', NEW q, NEW r, Only("mon", q, r), Frame, MonAt(q), q \notin InMaintain,
         q \in Observing => r = At("health"), token' = token, gate' = gate, job' = job, stale' = stale,
         pc["mon"] \in {At("health"), At("healthy"), At("unwell")}, q[1] # "hold", q \notin UpdatePlaces
  PROVE  Inv'
<1>1. worker # "mon"
  BY Zenon, NobodyAssumption, CallersAssumption DEF Inv, TypeOK
<1>2. Legal("mon", q, r)
  BY Zenon, <1>1 DEF Legal, StandsAt, AfterObserve
<1>3. KeepsGate("mon", q, r)
  BY Zenon, Names DEF KeepsGate
<1>4. KeepsMonitor("mon") /\ LetsGo("mon") /\ pc["mon"] \notin UpdatePlaces \cup {At("leave")}
  BY Names, MonitorKept DEF Watching, LetsGo, UpdatePlaces, At
<1> QED
  BY Zenon, <1>1, <1>2, <1>3, <1>4, PlainInv, Names DEF KeepsInputs

LEMMA MonitorStep ==
  ASSUME Inv, TypeOK', MonitorChecks \/ MonitorSettles
  PROVE  Inv'
<1>1. /\ Frame /\ token' = token /\ gate' = gate /\ job' = job /\ stale' = stale
      /\ pc["mon"] \in {At("health"), At("healthy"), At("unwell")}
  BY DEF MonitorChecks, MonitorSettles, Frame, flags, super, work, owning, ops
<1>2. \/ \E q \in {At("gone"), Ask("restore"), At("unwell"), At("health"), At("sick")} : Goto("mon", q)
      \/ ObserveThen("mon", At("health"))
  BY Zenon DEF MonitorChecks, MonitorSettles
<1>3. CASE \E q \in {At("gone"), Ask("restore"), At("unwell"), At("health"), At("sick")} : Goto("mon", q)
  <2>1. PICK q \in {At("gone"), Ask("restore"), At("unwell"), At("health"), At("sick")} : Goto("mon", q)
    BY Zenon, <1>3
  <2>2. /\ MonAt(q) /\ q[1] # "hold" /\ q \notin UpdatePlaces /\ q \notin InMaintain
        /\ q \notin Observing
    BY DEF MonAt, UpdatePlaces, InMaintain, Observing, Locks, At, Ask, Want, Hold
  <2>3. Only("mon", q, ret["mon"])
    BY Zenon, <2>1, GotoGoes, Names DEF Inv
  <2> QED
    BY Zenon, <1>1, <2>2, <2>3, MonitorMoves
<1>4. CASE ObserveThen("mon", At("health"))
  <2>1. Only("mon", Observe, At("health"))
    BY Zenon, <1>4, ObserveGoes, Names DEF Inv
  <2>2. MonAt(Observe) /\ Observe[1] # "hold" /\ Observe \notin UpdatePlaces /\ Observe \notin InMaintain
    BY Zenon DEF MonAt, Observe, UpdatePlaces, InMaintain, Observing, At, Want
  <2> QED
    BY Zenon, <1>1, <2>1, <2>2, MonitorMoves
<1> QED
  BY Zenon, <1>2, <1>3, <1>4

LEMMA SpawnMonitorStep ==
  ASSUME Inv, TypeOK', SpawnMonitor
  PROVE  Inv'
<1> DEFINE q == At("health")
<1>1. /\ Frame /\ token' = token /\ gate' = gate /\ job' = job /\ stale' = stale
      /\ pc["loop"] = At("spawn")
  BY Zenon DEF SpawnMonitor, Loop, Frame, flags, work, owning, ops
<1>2. /\ pc'["loop"] = At("own") /\ pc'["mon"] = q /\ ret' = ret
      /\ \A x \in Actors : x \notin {"loop", "mon"} => pc'[x] = pc[x]
  BY Zenon, Names DEF SpawnMonitor, Inv, TypeOK
<1>3. Moves("mon", q, ret["mon"])
  BY Zenon, <1>1, <1>2 DEF Moves, Still, Rests
<1>4. pc["mon"] \in {At("gone"), At("sick")}
  BY <1>1 DEF Inv, MonitorOK, Watching, At
<1>5. worker # "mon"
  BY Zenon, NobodyAssumption, CallersAssumption DEF Inv, TypeOK
<1>6. Legal("mon", q, ret["mon"])
  BY Zenon, <1>5 DEF Legal, StandsAt, MonAt, InMaintain, Observing, At, Want, Hold
<1>7. TakesTurn("mon", q)
  BY <1>1, <1>4 DEF TakesTurn, At
<1>8. KeepsStage("mon", q)
  BY <1>1, <1>4 DEF KeepsStage, UpdatePlaces, At
<1>9. KeepsGate("mon", q, ret["mon"]) /\ KeepsMonitor("mon")
  BY Zenon, <1>1, <1>2, Names DEF KeepsGate, KeepsMonitor, Watching
<1>10. KeepsRecovery("mon", q, ret["mon"])
  BY Zenon, <1>5, Names DEF KeepsRecovery, At, Hold
<1>11. Goes("mon", q, ret["mon"])
  BY Zenon, <1>1, <1>3, <1>6, <1>7, <1>8, <1>9, <1>10 DEF Goes, Walks, Frame, KeepsInputs
<1> QED
  BY Zenon, <1>11, GoesInv, Names

-----------------------------------------------------------------------------
\* What the invariant says of senders, starters and clients.

LEMMA SenderStands ==
  ASSUME Inv, NEW a \in Actors, pc[a][1] \in {"send", "sent"}
  PROVE  \/ pc[a] \in InMaintain /\ pc[a][2] = "halt"
         \/ /\ a \in Callers /\ a # worker /\ pc[a][2] \in {"restart", "update"}
            /\ pc[a] = <<pc[a][1], pc[a][2]>> /\ CallerAt(kind[a], pc[a]) /\ kind[a] # "none"
            /\ pc[a][2] = "restart" => kind[a] = "restart"
            /\ pc[a][2] = "update" => Updating(kind[a])
<1>1. CASE pc[a] \in InMaintain
  BY <1>1 DEF InMaintain, At
<1>2. CASE pc[a] \notin InMaintain
  <2>1. StandsAt(a, pc[a])
    BY Zenon, <1>2 DEF Inv, PlacesOK, Legal
  <2>2. a \in Callers /\ a # worker /\ CallerAt(kind[a], pc[a])
    BY <2>1, Names DEF StandsAt, WorkAt, LoopAt, LoopStarts, MonAt, Rests, Observing, Locks, At, Want, Hold, Actors
  <2> QED
    BY <2>2 DEF CallerAt, UpdatePlaces, Updating, Locks, Home, At
<1> QED
  BY Zenon, <1>1, <1>2

LEMMA StarterIs ==
  ASSUME Inv, NEW a \in Actors, pc[a][1] \in Locks, pc[a][2] \in {"prep1", "prep2", "start"}
  PROVE  /\ a = worker \/ (a = "loop" /\ worker # "loop" /\ LoopStarts(pc[a]) /\ gate = "loop")
         /\ pc[a] = <<pc[a][1], pc[a][2]>> /\ ~HasReported(a)
         /\ pc[a] \notin UpdatePlaces \cup {At("leave")}
         /\ pc[a] \notin {At("gone"), At("sick")} \cup Watching
<1>1. pc[a] = <<pc[a][1], pc[a][2]>> /\ pc[a] \notin InMaintain
  BY DEF Inv, TypeOK, Places, InMaintain, Locks, At
<1>2. StandsAt(a, pc[a])
  BY Zenon, <1>1 DEF Inv, PlacesOK, Legal
<1>3. a = worker \/ (a = "loop" /\ worker # "loop" /\ LoopStarts(pc[a]))
  BY <1>1, <1>2, Names DEF StandsAt, LoopAt, LoopStarts, MonAt, CallerAt, Suits, Rests, Observing, UpdatePlaces,
        Locks, Home, At, Want, Hold, Actors
<1>4. ~HasReported(a)
  BY <1>1 DEF HasReported, Landing, Reports, Observing, At, Want, Hold
<1>5. /\ pc[a] \notin UpdatePlaces \cup {At("leave")}
      /\ pc[a] \notin {At("gone"), At("sick")} \cup Watching
  BY DEF UpdatePlaces, Watching, At, Locks
<1> QED
  BY Zenon, <1>1, <1>3, <1>4, <1>5 DEF Inv, GateOK

LEMMA LegalKept ==
  ASSUME NEW x \in Actors, Legal(x, pc[x], ret[x]), pc'[x] = pc[x], ret'[x] = ret[x],
         x = worker <=> x = worker', x \in Callers => kind'[x] = kind[x]
  PROVE  Legal(x, pc[x], ret[x])'
  BY Zenon DEF Legal, StandsAt, AfterMaintain, AfterObserve

\* The client of an update is a caller, and the reservation is its.
LEMMA ClientOwns ==
  ASSUME Inv, worker # Nobody
  PROVE  worker \in Actors /\ client \in Callers /\ reserved = client /\ client # Nobody
  BY Zenon, Names DEF Inv, TypeOK, OwnersOK, InStage

LEMMA EntryPlace ==
  ASSUME NEW u \in BOOLEAN, NEW v \in BOOLEAN, NEW e \in WorkEntry(u, v)
  PROVE  e.place \in {Ask("prep1"), At("block"), Ask("save"), At("finish")} /\ e.stage \in {"trial", "back"}
  BY DEF WorkEntry

-----------------------------------------------------------------------------
\* Places.

LEMMA PlaceFacts ==
  /\ \A t \in Tasks : /\ Ask(t) \in Places /\ Want(t) \in Places /\ Hold(t) \in Places
                       /\ <<"send", t>> \in Places /\ <<"sent", t>> \in Places /\ <<"call", t>> \in Places
  /\ {At("home"), At("leave"), At("mark"), At("halt"), At("fault"), At("saving"), At("block"),
      At("unsound"), At("finish"), At("answer"), At("unstarted"), At("unsafe"), At("unwell"),
      At("healthy"), At("health"), At("sick"), At("gone"), At("off"), At("top"), At("idle"),
      At("gate"), At("spawn"), At("own"), At("join"), At("backoff"), At("end"), At("done")}
       \subseteq Places
  /\ {"mutate", "add", "settings", "status", "restart", "capture", "reserve", "seize", "broken",
      "update", "halt", "prep1", "prep2", "start", "restore", "save", "publish", "apply", "block",
      "observe"} \subseteq Tasks
  /\ \A x \in Places : x[2] \in Tasks
<1>1. \A t \in Tasks : /\ Ask(t) \in Places /\ Want(t) \in Places /\ Hold(t) \in Places
                        /\ <<"send", t>> \in Places /\ <<"sent", t>> \in Places /\ <<"call", t>> \in Places
  BY DEF Places, Ask, Want, Hold
<1>2. {At("home"), At("leave"), At("mark"), At("halt"), At("fault"), At("saving"), At("block"),
       At("unsound"), At("finish"), At("answer"), At("unstarted"), At("unsafe"), At("unwell"),
       At("healthy"), At("health"), At("sick"), At("gone"), At("off"), At("top"), At("idle"),
       At("gate"), At("spawn"), At("own"), At("join"), At("backoff"), At("end"), At("done")}
        \subseteq Places
  <2>1. "none" \in Tasks
    BY Zenon DEF Tasks
  <2> QED
    BY <2>1 DEF Places, At
<1>3. {"mutate", "add", "settings", "status", "restart", "capture", "reserve", "seize", "broken",
       "update", "halt", "prep1", "prep2", "start", "restore", "save", "publish", "apply", "block",
       "observe"} \subseteq Tasks
  BY Zenon DEF Tasks
<1>4. \A x \in Places : x[2] \in Tasks
  BY DEF Places
<1> QED
  BY Zenon, <1>1, <1>2, <1>3, <1>4

PlacesTyped == pc \in [Actors -> Places] /\ ret \in [Actors -> Places]

LEMMA FailedTyped ==
  ASSUME TypeOK, NEW a \in Actors, NEW t
  PROVE  Failed(a, t) \in Places /\ ret[a] \in Places /\ pc[a][2] \in Tasks
<1>1. ret[a] \in Places /\ pc[a] \in Places
  BY Zenon DEF TypeOK
<1> QED
  BY Zenon, <1>1, PlaceFacts DEF Failed

==============================================================================
