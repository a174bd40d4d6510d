-------------------------- MODULE ProviderRecovery --------------------------
(***************************************************************************)
(* Recovery of the provider store (subscription/provider_journal.go,       *)
(* resource_activation.go, provider_store_unix.go): an older version may   *)
(* have stopped anywhere in an activation of several files or in the       *)
(* replacement of one; recovery runs before anything else, is stopped      *)
(* itself at any point, and the machine may reboot, which makes inode      *)
(* identities meaningless.                                                 *)
(***************************************************************************)
EXTENDS Naturals, FiniteSets

CONSTANTS
  NEntries,      \* files of an activation
  NoOlds,       \* sets of transactions without an old file to look at
  MaxRvStops,    \* bound on crashes and failing calls
  MaxRvBoots,    \* bound on boots
  MaxAliens      \* bound on changes by other programs

ASSUME RecoveryAssumption ==
  /\ NEntries \in Nat \ {0} /\ \A S \in NoOlds : S \subseteq 0 .. NEntries
  /\ {MaxRvStops, MaxRvBoots, MaxAliens} \subseteq Nat

VARIABLES
  prov,      \* transaction -> role -> file; 0 is the single replacement
  dirs,      \* the transactions with a staging directory
  act,       \* activation.json, or NoJournal
  cmt,       \* commit.json, or NoJournal
  rv,        \* Recover: [at, tx]
  rvBoot,
  left,     \* what the older version left: see Worlds
  alien,     \* <<transaction, role>> changed by another program
  rvStops

rvVars == <<prov, dirs, act, cmt, rv, rvBoot, left, alien, rvStops>>

Entries == 1 .. NEntries
Txs == 0 .. NEntries
FileRoles == {"target", "backup", "cand", "source", "marker"}

NoJournal == [none |-> TRUE]
Gone == [c |-> "gone", id |-> 0]
NoObject == [c |-> "gone", id |-> 0, boot |-> 0]
NoTx == NEntries + 1

Recorded(f, b) == IF f = Gone THEN NoObject ELSE [c |-> f.c, id |-> f.id, boot |-> b]

\* inspect: presence, identity, digest and the boot they were read in
Inspect(t, r) == Recorded(prov[t][r], rvBoot)
There(t, r) == prov[t][r] # Gone

\* sameProviderObject: across boots only the digest counts.
SameProvider(a, b) ==
  IF NoObject \in {a, b} THEN a = b ELSE a.c = b.c /\ (a.boot # b.boot \/ a.id = b.id)

-----------------------------------------------------------------------------
(* What the older version left *)

OldBytes == "old"
NewBytes(w) == IF w.same THEN OldBytes ELSE "new"
OldFile(t, w) == IF t \in w.absent THEN Gone ELSE [c |-> OldBytes, id |-> 10 * t + 1]
NewFile(t, w) == [c |-> NewBytes(w), id |-> 10 * t + 2]
MarkerFile(t) == [c |-> "tx", id |-> 10 * t + 3]
CopyFile(t, w) == IF t \in w.absent THEN Gone ELSE [c |-> OldBytes, id |-> 10 * t + 4]

Finished == 6 * NEntries + 1
Phases == {"none", "abandoned", "empty", "prepared", "copied", "intent", "swapped", "done"}

\* front: how many steps of the activation were done (six for each file), Finished when
\* it was decided, Finished + 1 when there was none.
\* A replacement begins only once no activation is pending, and the other way round.
Worlds ==
  {w \in [absent : NoOlds, same : BOOLEAN, front : 0 .. Finished + 1, phase : Phases] :
     w.front > Finished \/ w.phase \in {"none", "abandoned"}}

Front(e, w) == IF w.front = Finished THEN 6 ELSE IF w.front < 6 * (e - 1) THEN 0 ELSE w.front - 6 * (e - 1)

Roles5(target, backup, cand, source, marker) ==
  [target |-> target, backup |-> backup, cand |-> cand, source |-> source, marker |-> marker]

LeftEntry(e, w) ==
  IF w.front > Finished THEN Roles5(OldFile(e, w), Gone, Gone, Gone, Gone)
  ELSE Roles5(IF Front(e, w) >= 5 THEN NewFile(e, w) ELSE IF Front(e, w) >= 2 THEN Gone ELSE OldFile(e, w),
              IF Front(e, w) >= 2 THEN OldFile(e, w) ELSE Gone,
              IF Front(e, w) >= 5 THEN Gone ELSE NewFile(e, w), Gone, MarkerFile(e))

LeftSingle(w) ==
  CASE w.phase \in {"none", "empty"} -> Roles5(OldFile(0, w), Gone, Gone, Gone, Gone)
    [] w.phase = "abandoned" -> Roles5(OldFile(0, w), Gone, NewFile(0, w), NewFile(0, w), MarkerFile(0))
    [] w.phase = "prepared" -> Roles5(OldFile(0, w), Gone, NewFile(0, w), Gone, MarkerFile(0))
    [] w.phase \in {"copied", "intent"} -> Roles5(OldFile(0, w), CopyFile(0, w), NewFile(0, w), Gone, MarkerFile(0))
    [] w.phase \in {"swapped", "done"} -> Roles5(NewFile(0, w), CopyFile(0, w), Gone, Gone, MarkerFile(0))

ActJournal(w) ==
  IF w.front > Finished THEN NoJournal
  ELSE [done |-> w.front = Finished,
        entries |-> [e \in Entries |->
          [old |-> Recorded(OldFile(e, w), 1), new |-> Recorded(NewFile(e, w), 1),
           marker |-> Recorded(MarkerFile(e), 1),
           backupIntent |-> Front(e, w) >= 1, backupDone |-> Front(e, w) >= 3,
           swapIntent |-> Front(e, w) >= 4, swapDone |-> Front(e, w) >= 6,
           restoreIntent |-> FALSE, restoreDone |-> FALSE]]]

CommitJournal(w) ==
  IF w.phase \in {"none", "abandoned", "empty"} THEN NoJournal
  ELSE [phase |-> CASE w.phase \in {"prepared", "copied"} -> "prepared"
                    [] w.phase \in {"intent", "swapped"} -> "intent"
                    [] OTHER -> "done",
        old |-> Recorded(OldFile(0, w), 1), new |-> Recorded(NewFile(0, w), 1),
        backup |-> IF w.phase \in {"prepared", "copied"} THEN NoObject ELSE Recorded(CopyFile(0, w), 1),
        marker |-> Recorded(MarkerFile(0), 1), recoveryIntent |-> FALSE, recoveryDone |-> FALSE]

NothingLeft == [absent |-> {}, same |-> FALSE, front |-> Finished + 1, phase |-> "none"]

RvInit ==
  /\ left \in Worlds
  /\ prov = [t \in Txs |-> IF t = 0 THEN LeftSingle(left) ELSE LeftEntry(t, left)]
  /\ dirs = (IF left.phase = "none" THEN {} ELSE {0}) \cup (IF left.front > Finished THEN {} ELSE Entries)
  /\ act = ActJournal(left) /\ cmt = CommitJournal(left)
  /\ rv = [at |-> "idle", tx |-> NoTx]
  /\ rvBoot = 1 /\ alien = <<NoTx, "none">> /\ rvStops = 0

-----------------------------------------------------------------------------
(* Recover *)

Turns(at) == rv' = [at |-> at, tx |-> NoTx]
TurnsTo(at, t) == rv' = [at |-> at, tx |-> t]
Refuses == Turns("refused") /\ UNCHANGED <<prov, dirs, act, cmt>>

Removes(t, r) == prov' = [prov EXCEPT ![t][r] = Gone]
MovesBack(t) == prov' = [prov EXCEPT ![t].target = prov[t].backup, ![t].backup = Gone]

\* Recover: the activation first, then the single replacement, then the staging.
RvBegin ==
  /\ rv.at \in {"idle", "ok", "refused"}
  /\ Turns("load")
  /\ UNCHANGED <<prov, dirs, act, cmt>>

\* Two places of a journal (f : place -> object) naming one object of one boot
Aliased(f) ==
  \E p, q \in DOMAIN f :
    p # q /\ NoObject \notin {f[p], f[q]} /\ f[p].boot = f[q].boot /\ f[p].id = f[q].id

EntryValid(e) ==
  /\ e.new # NoObject /\ e.marker # NoObject /\ e.marker.c = "tx"
  /\ e.backupDone => e.backupIntent
  /\ e.swapIntent => e.backupDone
  /\ e.swapDone => e.swapIntent
  /\ e.restoreDone => e.restoreIntent
  /\ act.done => e.swapDone /\ ~e.restoreIntent
  /\ \A o \in {e.old, e.new, e.marker} : o = NoObject \/ o.boot = e.marker.boot

\* loadResourceJournal
ActValid ==
  /\ \A i \in Entries : EntryValid(act.entries[i])
  /\ ~Aliased([p \in Entries \X {"old", "new", "marker"} |-> act.entries[p[1]][p[2]]])

RvLoad ==
  /\ rv.at = "load"
  /\ IF act # NoJournal /\ ~ActValid THEN Refuses
     ELSE /\ IF act = NoJournal THEN Turns("commit") ELSE TurnsTo("entry", NEntries)
          /\ UNCHANGED <<prov, dirs, act, cmt>>

\* As if a target that is neither old nor new were no obstacle
EntryFitsLoosely(i) == SameProvider(Inspect(i, "marker"), act.entries[i].marker)

\* recoverResources: what must hold of an entry's files before it is touched
EntryFits(i) ==
  LET e == act.entries[i]
      actual == Inspect(i, "target")
      backup == Inspect(i, "backup")
  IN /\ SameProvider(Inspect(i, "marker"), e.marker)
     /\ There(i, "backup") => SameProvider(backup, e.old)
     /\ There(i, "cand") => SameProvider(Inspect(i, "cand"), e.new)
     /\ IF act.done THEN SameProvider(actual, e.new)
        ELSE /\ ~e.backupIntent => SameProvider(actual, e.old)
             /\ ~e.swapIntent => ~SameProvider(actual, e.new)
             /\ e.restoreDone => SameProvider(actual, e.old)
             /\ There(i, "target") => SameProvider(actual, e.old) \/ SameProvider(actual, e.new)
             /\ e.old # NoObject => SameProvider(actual, e.old) \/ SameProvider(backup, e.old)
             /\ ~(There(i, "target") /\ SameProvider(actual, e.old) /\ There(i, "backup"))

NextEntry == IF rv.tx = 1 THEN Turns("clean") ELSE TurnsTo("entry", rv.tx - 1)

\* An undecided entry is marked before it is restored.
EntryIntent ==
  /\ rv.at = "entry"
  /\ IF ~EntryFits(rv.tx) THEN Refuses
     ELSE /\ IF act.done THEN NextEntry /\ UNCHANGED act
             ELSE TurnsTo("restore", rv.tx) /\ act' = [act EXCEPT !.entries[rv.tx].restoreIntent = TRUE]
          /\ UNCHANGED <<prov, dirs, cmt>>

EntryRestore ==
  /\ rv.at = "restore"
  /\ IF There(rv.tx, "backup") THEN MovesBack(rv.tx)
     ELSE IF act.entries[rv.tx].old = NoObject THEN Removes(rv.tx, "target")
     ELSE UNCHANGED prov
  /\ TurnsTo("mark", rv.tx)
  /\ UNCHANGED <<dirs, act, cmt>>

EntryDone ==
  /\ rv.at = "mark"
  /\ act' = [act EXCEPT !.entries[rv.tx].restoreDone = TRUE]
  /\ NextEntry
  /\ UNCHANGED <<prov, dirs, cmt>>

\* What the staging of an entry may hold when it is removed
EntryLeft(i, r) == IF r = "backup" THEN act.entries[i].old ELSE act.entries[i].new

Cleanable(i) == {r \in {"backup", "cand"} : There(i, r)}

\* The entries in order, the two files of each in any order; then the journal.
ActClean ==
  /\ rv.at = "clean"
  /\ \/ \E i \in Entries : \E r \in Cleanable(i) :
          /\ \A k \in 1 .. i - 1 : Cleanable(k) = {}
          /\ IF SameProvider(Inspect(i, r), EntryLeft(i, r))
             THEN Removes(i, r) /\ UNCHANGED <<rv, dirs, act, cmt>>
             ELSE Refuses
     \/ /\ \A i \in Entries : Cleanable(i) = {}
        /\ act' = NoJournal /\ Turns("commit")
        /\ UNCHANGED <<prov, dirs, cmt>>

\* As if an adopted backup had to be there still
PreparedStrict(actual, backup) ==
  /\ SameProvider(actual, cmt.old)
  /\ backup # NoObject => cmt.old # NoObject /\ backup.c = cmt.old.c
  /\ cmt.backup # NoObject => SameProvider(backup, cmt.backup)

\* recover: the journal's own rules
CommitValid ==
  /\ cmt.new # NoObject /\ cmt.marker # NoObject /\ cmt.marker.c = "tx"
  /\ cmt.recoveryDone => cmt.recoveryIntent
  /\ cmt.phase = "done" => ~cmt.recoveryIntent
  /\ \A o \in {cmt.old, cmt.new, cmt.backup, cmt.marker} :
       \/ o = NoObject \/ o.boot = cmt.marker.boot
       \/ cmt.phase = "prepared" /\ cmt.recoveryDone /\ o = cmt.backup
  /\ ~Aliased([p \in {"old", "new", "backup", "marker"} |-> cmt[p]])
  /\ cmt.phase # "prepared" =>
       /\ (cmt.old = NoObject) <=> (cmt.backup = NoObject)
       /\ cmt.old # NoObject => cmt.old.c = cmt.backup.c

PreparedFits(actual, backup) ==
  /\ SameProvider(actual, cmt.old)
  /\ backup # NoObject => cmt.old # NoObject /\ backup.c = cmt.old.c
  /\ cmt.backup # NoObject /\ ~SameProvider(backup, cmt.backup) => backup = NoObject /\ cmt.recoveryDone

IntentFits(actual) ==
  /\ cmt.recoveryDone => SameProvider(actual, cmt.old) \/ SameProvider(actual, cmt.backup)
  /\ \E o \in {cmt.old, cmt.new, cmt.backup} : SameProvider(actual, o)

\* recover: what must hold of the files before they are touched
CommitFits ==
  /\ SameProvider(Inspect(0, "marker"), cmt.marker)
  /\ CASE cmt.phase = "prepared" -> PreparedFits(Inspect(0, "target"), Inspect(0, "backup"))
       [] cmt.phase = "intent" -> IntentFits(Inspect(0, "target"))
       [] cmt.phase = "done" -> SameProvider(Inspect(0, "target"), cmt.new)

\* A prepared replacement adopts the backup it finds; an intended one is marked before
\* it is undone.
CommitIntent ==
  /\ rv.at = "commit"
  /\ IF cmt = NoJournal THEN Turns("sweep") /\ UNCHANGED <<prov, dirs, act, cmt>>
     ELSE IF ~CommitValid \/ ~CommitFits THEN Refuses
     ELSE /\ cmt' = CASE cmt.phase = "prepared" /\ ~cmt.recoveryDone ->
                           [cmt EXCEPT !.backup = Inspect(0, "backup"), !.recoveryIntent = TRUE, !.recoveryDone = TRUE]
                      [] cmt.phase = "intent" -> [cmt EXCEPT !.recoveryIntent = TRUE]
                      [] OTHER -> cmt
          /\ Turns(IF cmt.phase = "intent" THEN "undo" ELSE "drop")
          /\ UNCHANGED <<prov, dirs, act>>

RestoredAlready == \E o \in {cmt.old, cmt.backup} : SameProvider(Inspect(0, "target"), o)

CommitRestore ==
  /\ rv.at = "undo"
  /\ \/ /\ cmt.old # NoObject /\ ~RestoredAlready
        /\ IF SameProvider(Inspect(0, "backup"), cmt.backup)
           THEN MovesBack(0) /\ Turns("undone") /\ UNCHANGED <<dirs, act, cmt>>
           ELSE Refuses
     \/ /\ cmt.old # NoObject => RestoredAlready
        /\ IF cmt.old = NoObject THEN Removes(0, "target") ELSE UNCHANGED prov
        /\ Turns("undone") /\ UNCHANGED <<dirs, act, cmt>>

CommitDone ==
  /\ rv.at = "undone"
  /\ cmt' = [cmt EXCEPT !.recoveryDone = TRUE]
  /\ Turns("drop")
  /\ UNCHANGED <<prov, dirs, act>>

\* The backup, then the candidate, then the journal.
CommitClean ==
  /\ rv.at = "drop"
  /\ LET r == IF There(0, "backup") THEN "backup" ELSE "cand"
         expected == IF r = "backup" THEN cmt.backup ELSE cmt.new
     IN IF There(0, r)
        THEN IF SameProvider(Inspect(0, r), expected)
             THEN Removes(0, r) /\ UNCHANGED <<rv, dirs, act, cmt>>
             ELSE Refuses
        ELSE /\ cmt' = NoJournal /\ Turns("sweep")
             /\ UNCHANGED <<prov, dirs, act>>

\* Recover's last loop lists the transactions,
SweepNext ==
  /\ rv.at = "sweep"
  /\ \/ \E t \in dirs : TurnsTo("tx", t)
     \/ dirs = {} /\ Turns("ok")
  /\ UNCHANGED <<prov, dirs, act, cmt>>

MarkerGood(t) == prov[t].marker.c = "tx"
Staged(t) == {r \in {"cand", "source", "marker"} : There(t, r)}

\* and cleanupTransaction removes candidate, source, marker and directory, in this order.
CleanupTransaction ==
  /\ rv.at = "tx"
  /\ LET t == rv.tx
         r == IF There(t, "cand") THEN "cand" ELSE IF There(t, "source") THEN "source" ELSE "marker"
     IN IF Staged(t) = {}
        THEN dirs' = dirs \ {t} /\ Turns("sweep") /\ UNCHANGED <<prov, act, cmt>>
        ELSE IF There(t, "marker") /\ MarkerGood(t)
             THEN Removes(t, r) /\ UNCHANGED <<rv, dirs, act, cmt>>
             ELSE Refuses

RecoverStep ==
  RvLoad \/ EntryIntent \/ EntryRestore \/ EntryDone \/ ActClean \/ CommitIntent
    \/ CommitRestore \/ CommitDone \/ CommitClean \/ SweepNext \/ CleanupTransaction

RecoverRuns == (RvBegin \/ RecoverStep) /\ UNCHANGED <<rvBoot, left, alien, rvStops>>

-----------------------------------------------------------------------------
(* The environment *)

\* A call fails, before or after its effect, or the process is killed.
RvStop ==
  /\ rv.at \notin {"idle", "ok", "refused"} /\ rvStops < MaxRvStops
  /\ Turns("idle") /\ rvStops' = rvStops + 1
  /\ UNCHANGED <<prov, dirs, act, cmt, rvBoot, left, alien>>

RvReboot ==
  /\ rvBoot < MaxRvBoots
  /\ rvBoot' = rvBoot + 1 /\ Turns("idle")
  /\ UNCHANGED <<prov, dirs, act, cmt, left, alien, rvStops>>

\* Another program replaces a file while no recovery runs.
RvAlien ==
  /\ rv.at = "idle" /\ alien[1] = NoTx /\ MaxAliens > 0
  /\ \E t \in Txs, r \in FileRoles :
       /\ r \in {"cand", "source", "marker"} => t \in dirs
       /\ alien' = <<t, r>>
       /\ prov' = [prov EXCEPT ![t][r] = [c |-> "alien", id |-> 10 * t + 5]]
  /\ UNCHANGED <<dirs, act, cmt, rv, rvBoot, left, rvStops>>

RvNext == RecoverRuns \/ RvStop \/ RvReboot \/ RvAlien

-----------------------------------------------------------------------------
(* Properties *)

RvTypeOK ==
  /\ prov \in [Txs -> [FileRoles -> [c : {"gone", "old", "new", "tx", "alien"}, id : Nat]]]
  /\ dirs \subseteq Txs /\ left \in Worlds /\ rvBoot \in 1 .. MaxRvBoots /\ rvStops \in 0 .. MaxRvStops
  /\ rv.at \in {"idle", "load", "entry", "restore", "mark", "clean", "commit", "undo", "undone",
                "drop", "sweep", "tx", "ok", "refused"}

Untouched == alien[1] = NoTx

\* What must be at a target in the end: the new file if it was decided, else the old one.
Wanted(t) ==
  IF t = 0 THEN IF left.phase = "done" THEN NewFile(0, left).c ELSE OldFile(0, left).c
  ELSE IF left.front = Finished THEN NewFile(t, left).c ELSE OldFile(t, left).c

\* Recover restores all files of an unfinished activation or keeps all of a decided one,
\* and leaves no journal, backup or staging behind, wherever the older version stopped
\* and however often recovery was stopped.
SettlesAll ==
  rv.at = "ok" /\ Untouched =>
    /\ act = NoJournal /\ cmt = NoJournal /\ dirs = {}
    /\ \A t \in Txs : prov[t].target.c = Wanted(t) /\ \A r \in FileRoles \ {"target"} : ~There(t, r)

\* The bytes that must be there in the end are never lost on the way.
WantedKept ==
  Untouched =>
    \A t \in Txs : Wanted(t) = "gone" \/ Wanted(t) \in {prov[t].target.c, prov[t].backup.c}

\* Recovery accepts everything the older version and its own earlier runs left. After a
\* reboot only digests are compared: then the two contents must differ.
NeverRefuses == rv.at = "refused" => ~Untouched \/ (left.same /\ rvBoot > 1)

\* A target that is right stays right: repeating recovery changes nothing.
RightStaysRight ==
  Untouched' => \A t \in Txs : prov[t].target.c = Wanted(t) => prov'[t].target.c = Wanted(t)

\* What another program put in place of a file is refused and kept; only abandoned
\* candidates are removed whatever they hold.
AlienKept ==
  \A t \in Txs : \A r \in FileRoles :
    alien = <<t, r>> /\ prov[t][r].c = "alien" =>
      prov'[t][r].c = "alien" \/ (rv.at = "tx" /\ r \in {"cand", "source"})

RvSafe == RvTypeOK /\ SettlesAll /\ WantedKept /\ NeverRefuses

RvStepOK == RightStaysRight /\ AlienKept
=============================================================================
