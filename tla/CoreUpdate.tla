----------------------------- MODULE CoreUpdate -----------------------------
(***************************************************************************)
(* The journaled replacement of the mihomo binary: the transaction of      *)
(* internal/core (beginUpdate, Publish, Commit, Rollback, CompleteRollback,*)
(* RequireRecovery, DeferCleanup, CleanupCompletedUpdates), driven by      *)
(* Manager.installCoreUpdate and Manager.Reinstall of internal/runtime.    *)
(*                                                                         *)
(* Every write to the disk is one step.  A write may fail before it takes  *)
(* effect or after it did (the rename succeeded, the directory sync did    *)
(* not), and the daemon may crash between any two steps.  Objects are told *)
(* apart as sameObject does: by contents and by file identity, which a     *)
(* rename preserves.  The legacy provenance journal is absent throughout,  *)
(* and the records on disk are never corrupted.  Stopping and starting the *)
(* child are single steps here; Supervisor.tla models what they do.        *)
(***************************************************************************)
EXTENDS Naturals, Sequences

CONSTANTS
  Channels,     \* release channels
  None,         \* no object, no record
  Unset,        \* executionGate.admitted is false
  Foreign,      \* the contents of a binary the daemon did not install
  MaxTx,        \* transactions ever staged
  MaxUpdates,   \* how many of them are not repairs the manager asks for
  MaxFaults,    \* failing disk operations
  MaxCrashes,   \* daemon crashes
  MaxReplaced   \* replacements of the binary by somebody else

ASSUME Bounds == {MaxTx, MaxUpdates, MaxFaults, MaxCrashes, MaxReplaced} \subseteq Nat

VARIABLES
  journal,      \* update-journal.json: a record, or None
  installed,    \* bin/mihomo: an object, or None
  files,        \* per transaction, which of its files exist
  cleanup,      \* per transaction, pending-cleanup.json or None
  interrupted,  \* per transaction, interrupted-update.json or None
  settings,     \* the channel in settings.json
  pc,           \* what the daemon does next; "down" when it is not running
  u,            \* the transaction in memory (UpdateTransaction.journal), or None
  uncertain,    \* UpdateTransaction.uncertain
  wasRunning,   \* UpdateSession.wasRunning
  mem,          \* the channel in the manager's settings
  recovery,     \* Manager.coreRecovery
  admitted,     \* executionGate.installed, or Unset
  running,      \* the object the supervised process was started from, or None
  sweep,        \* CleanupCompletedUpdates: active, and the transactions to do
  next,         \* the next transaction identifier
  updates, faults, crashes, replaced   \* what the bounds count

disk == <<journal, installed, files, cleanup, interrupted, settings>>
memory == <<u, uncertain, wasRunning, mem, recovery, admitted, running, sweep>>
counts == <<next, updates, faults, crashes, replaced>>
vars == <<disk, pc, memory, counts>>

-----------------------------------------------------------------------------
(* Objects and records *)

Txs == 1 .. MaxTx

\* What a released core contains: the build staged by a transaction, or the
\* one found at the start (build 0).
Cores == [build : 0 .. MaxTx, channel : Channels]

Objects == [core : Cores \cup {Foreign},
            file : {"initial", "foreign", "candidate", "restore"} \X (0 .. MaxTx)]

Roles == {"candidate", "backup", "restore", "marker"}

Phases == {"prepared", "publishing", "verifying", "committing", "committed",
           "rolling_back", "rolled_back", "recovery_required"}

Records == [tx : Txs, phase : Phases \cup {""}, prev : Channels, next : Channels,
            startNew : BOOLEAN, reinstall : BOOLEAN, old : Objects \cup {None}]

ForeignObject == [core |-> Foreign, file |-> <<"foreign", 0>>]

\* The object a transaction publishes, and the copy it restores.
New(j) == [core |-> [build |-> j.tx, channel |-> j.next], file |-> <<"candidate", j.tx>>]
RestoreAlways(j) == [core |-> IF j.old = None THEN None ELSE j.old.core,
                     file |-> <<"restore", j.tx>>]
Restore(j) == IF j.old = None THEN None
              ELSE [core |-> j.old.core, file |-> <<"restore", j.tx>>]

Decided(j) == j # None /\ j.phase \in {"committed", "rolled_back"}
InFlight(j) == j # None /\ ~Decided(j)

\* verifyFinalCore: the binary in place is the one the decision names.
VerifyFinal(j) == IF j.phase = "committed" THEN installed = New(j)
                                           ELSE installed \in {j.old, Restore(j)}

VerifyMarker(j) == "marker" \in files[j.tx]

\* OpenUpdate succeeds, or there is nothing to open.
Readable == journal # None => VerifyMarker(journal)

\* authorizePendingUpdate: a decided transaction admits exactly its final
\* object; an undecided one only its own lifecycle work, and the new or the old
\* core according to the phase.
NewPhases == {"verifying", "committing", "committed"}
OldPhases == {"rolling_back", "rolled_back"}
AuthorizePending(owner) ==
  \/ journal = None
  \/ /\ journal # None
     /\ VerifyMarker(journal)
     /\ \/ Decided(journal) /\ VerifyFinal(journal)
        \/ /\ InFlight(journal)
           /\ owner /\ u.tx = journal.tx
           /\ \/ u.phase \in NewPhases /\ journal.phase \in NewPhases
              \/ u.phase \notin NewPhases /\ journal.phase \in OldPhases

\* OpenInstalledCore: authorised, present, and the object admitted before.
MayExecute(owner) == /\ AuthorizePending(owner)
                     /\ installed # None
                     /\ admitted \in {Unset, installed}

-----------------------------------------------------------------------------
(* Writes that may fail *)

\* "before": an error and no effect; "after": an error although the effect took
\* place, as when the directory cannot be synced after the rename.
Results == {"ok", "before", "after"}

Try(r) == \/ r = "ok" /\ UNCHANGED faults
          \/ r # "ok" /\ faults < MaxFaults /\ faults' = faults + 1

Done(r, x, y) == IF r = "before" THEN y ELSE x
Goto(r, ok, fail) == pc' = IF r = "ok" THEN ok ELSE fail

\* session.Start: the core runs and is healthy; or it runs and is not; or it is
\* refused or cannot be started.
Starts(owner) == /\ MayExecute(owner)
                 /\ running' = installed /\ admitted' = installed
                 /\ UNCHANGED faults

StartFails(owner) ==
  \/ /\ MayExecute(owner)
     /\ faults < MaxFaults /\ faults' = faults + 1
     /\ running' \in {None, installed} /\ admitted' = installed
  \/ ~MayExecute(owner) /\ UNCHANGED <<running, admitted, faults>>

\* writePhase: save the journal; on an error read it back.  Finding the new
\* record is success, finding the one held in memory is a plain failure, and
\* anything else leaves the transaction uncertain for good.
Known == journal = u \/ (u.phase = "" /\ journal = None)

WritePhase(phase, ok, fail) ==
  /\ UNCHANGED <<installed, files, cleanup, interrupted, settings>>
  /\ UNCHANGED <<wasRunning, mem, recovery, admitted, running, sweep>>
  /\ UNCHANGED <<next, updates, crashes, replaced>>
  /\ \/ /\ uncertain
        /\ pc' = fail
        /\ UNCHANGED <<journal, u, uncertain, faults>>
     \/ /\ ~uncertain
        /\ \E r \in Results, readable \in BOOLEAN :
             LET record == [u EXCEPT !.phase = phase] IN
             /\ Try(r)
             /\ journal' = Done(r, record, journal)
             /\ \/ /\ r = "ok" \/ (r = "after" /\ readable)
                   /\ u' = record
                   /\ pc' = ok
                   /\ UNCHANGED uncertain
                \/ /\ r = "before" /\ readable /\ Known
                   /\ pc' = fail
                   /\ UNCHANGED <<u, uncertain>>
                \/ /\ IF r = "before" THEN ~(readable /\ Known) ELSE r = "after" /\ ~readable
                   /\ uncertain' = TRUE
                   /\ pc' = fail
                   /\ UNCHANGED u

-----------------------------------------------------------------------------
(* deferCleanupLocked: the journal of a decided transaction is released    *)
(* only after its cleanup record is on disk.                               *)

Defer(ok, fail) ==
  /\ UNCHANGED <<journal, installed, files, interrupted, settings, memory>>
  /\ UNCHANGED <<next, updates, crashes, replaced>>
  /\ LET j == journal
         fit == Decided(j) /\ VerifyMarker(j) /\ VerifyFinal(j)
     IN \/ /\ ~fit \/ (fit /\ cleanup[j.tx] \notin {None, j})
           /\ pc' = fail
           /\ UNCHANGED <<cleanup, faults>>
        \/ /\ fit
           /\ cleanup[j.tx] \in {None, j}
           /\ \E r \in Results :
                /\ Try(r)
                /\ cleanup' = [cleanup EXCEPT ![j.tx] = Done(r, j, @)]
                /\ Goto(r, ok, fail)

ReleaseJournal(r, ok, fail) ==
  /\ Try(r)
  /\ journal' = Done(r, None, journal)
  /\ Goto(r, ok, fail)
  /\ UNCHANGED <<installed, files, cleanup, interrupted, settings>>
  /\ UNCHANGED <<next, updates, crashes, replaced>>

-----------------------------------------------------------------------------
(* Staging and beginUpdate *)

\* Reinstall and the ordinary update: resolve the channel, stage marker and
\* candidate, stop the child and enter the session.  A reinstallation takes the
\* channel of the pending record (ReinstallSelection), an ordinary update the
\* one in memory, and it needs a manager that is not in recovery.
SelectionSaved == IF journal = None THEN mem ELSE settings
Selection == IF journal = None THEN mem
             ELSE IF journal.phase = "committed" THEN journal.next ELSE journal.prev

Stage(reinstall, target) ==
  /\ pc = "idle"
  /\ next <= MaxTx
  /\ recovery => reinstall
  /\ ~recovery => updates < MaxUpdates
  /\ reinstall => target = Selection /\ Readable
  /\ updates' = IF recovery THEN updates ELSE updates + 1
  /\ next' = next + 1
  /\ files' = [files EXCEPT ![next] = {"marker", "candidate"}]
  /\ u' = [tx |-> next, phase |-> "", prev |-> IF reinstall THEN Selection ELSE mem,
           next |-> target, startNew |-> running # None, reinstall |-> reinstall,
           old |-> None]
  /\ uncertain' = FALSE
  /\ wasRunning' = (running # None)
  /\ running' = None
  /\ pc' = "begin"
  /\ UNCHANGED <<journal, installed, cleanup, interrupted, settings>>
  /\ UNCHANGED <<mem, recovery, admitted, sweep, faults, crashes, replaced>>

Archived == journal

\* An ordinary update refuses a pending record unless it is decided and can be
\* set aside; a reinstallation keeps the pending record beside its backups.
BeginPending ==
  /\ pc = "begin"
  /\ \/ /\ ~u.reinstall /\ journal # None
        /\ Defer("release", "failed")
     \/ /\ u.reinstall /\ journal # None
        /\ \/ /\ interrupted[journal.tx] = None
              /\ \E r \in Results :
                   /\ Try(r)
                   /\ interrupted' = [interrupted EXCEPT ![journal.tx] = Done(r, Archived, None)]
                   /\ Goto(r, "snapshot", "failed")
           \/ /\ interrupted[journal.tx] # None
              /\ pc' = IF interrupted[journal.tx] = journal THEN "snapshot" ELSE "failed"
              /\ UNCHANGED <<interrupted, faults>>
        /\ u' = [u EXCEPT !.startNew = journal.startNew]
        /\ UNCHANGED <<journal, installed, files, cleanup, settings, uncertain, wasRunning>>
        /\ UNCHANGED <<mem, recovery, admitted, running, sweep>>
        /\ UNCHANGED <<next, updates, crashes, replaced>>
     \/ /\ journal = None
        /\ pc' = "snapshot"
        /\ UNCHANGED <<disk, memory, counts>>

BeginRelease == /\ pc = "release"
                /\ \E r \in Results : ReleaseJournal(r, "snapshot", "failed")
                /\ UNCHANGED memory

\* admitInstalled refuses a binary other than the one admitted before; a
\* reinstallation goes on regardless.
AdmitsKnown == admitted \in {Unset, installed}
Admits == u.reinstall \/ admitted \in {Unset, installed}

Copies == <<"backup", "restore">>

\* The old core is observed, admitted and copied.
BeginSnapshot ==
  /\ pc = "snapshot"
  /\ \/ /\ ~Admits
        /\ pc' = "failed"
        /\ UNCHANGED <<files, u, admitted, faults>>
     \/ /\ Admits
        /\ admitted' = IF admitted = Unset THEN installed ELSE admitted
        /\ u' = [u EXCEPT !.old = installed,
                          !.startNew = IF u.reinstall /\ journal # None THEN @
                                       ELSE wasRunning \/ installed = None]
        /\ IF installed = None
           THEN pc' = "prepare" /\ UNCHANGED <<files, faults>>
           ELSE \E n \in 0 .. Len(Copies), r \in {"ok", "before"} :
                  /\ Try(r)
                  /\ r = "ok" => n = Len(Copies)
                  /\ files' = [files EXCEPT ![u.tx] = @ \cup {Copies[i] : i \in 1 .. n}]
                  /\ Goto(r, "prepare", "failed")
  /\ UNCHANGED <<journal, installed, cleanup, interrupted, settings>>
  /\ UNCHANGED <<uncertain, wasRunning, mem, recovery, running, sweep>>
  /\ UNCHANGED <<next, updates, crashes, replaced>>

BeginPrepare == pc = "prepare" /\ WritePhase("prepared", "publish", "failed")

\* begin failed: a reinstallation and an uncertain record block the core; else
\* the old core is started again, without any authority, if it was running.
BeginFailed ==
  /\ pc = "failed"
  /\ \/ /\ u.reinstall \/ uncertain
        /\ pc' = "block"
        /\ UNCHANGED <<admitted, running, faults>>
     \/ /\ ~u.reinstall /\ ~uncertain
        /\ \/ ~wasRunning /\ pc' = "cleanup" /\ UNCHANGED <<admitted, running, faults>>
           \/ wasRunning /\ Starts(FALSE) /\ pc' = "cleanup"
           \/ wasRunning /\ StartFails(FALSE) /\ pc' = "block"
  /\ UNCHANGED <<disk, u, uncertain, wasRunning, mem, recovery, sweep>>
  /\ UNCHANGED <<next, updates, crashes, replaced>>

-----------------------------------------------------------------------------
(* Publish, the trial and Commit *)

Publishing == /\ pc = "publish"
              /\ IF VerifyMarker(u) THEN WritePhase("publishing", "move", "stop")
                 ELSE pc' = "stop" /\ UNCHANGED <<disk, memory, counts>>

\* move: Apply checks both identities, then renames; on an error the binary in
\* place decides whether the rename happened.
Move(from, expected, to, ok, fail) ==
  /\ \/ /\ installed = expected /\ from \subseteq files[u.tx]
        /\ \E r \in Results, readable \in BOOLEAN :
             /\ Try(r)
             /\ installed' = Done(r, to, installed)
             /\ files' = [files EXCEPT ![u.tx] = Done(r, @ \ from, @)]
             /\ pc' = IF r = "ok" \/ (r = "after" /\ readable) THEN ok ELSE fail
     \/ /\ ~(installed = expected /\ from \subseteq files[u.tx])
        /\ pc' = fail
        /\ UNCHANGED <<installed, files, faults>>
  /\ UNCHANGED <<journal, cleanup, interrupted, settings>>
  /\ UNCHANGED <<u, uncertain, wasRunning, mem, recovery, running, sweep>>
  /\ UNCHANGED <<next, updates, crashes, replaced>>

MovePublish ==
  /\ pc = "move"
  /\ Move({"candidate"}, u.old, New(u), "verify", "stop")
  /\ admitted' = IF pc' = "verify" THEN New(u) ELSE admitted

Verifying == pc = "verify" /\ WritePhase("verifying", "trial", "stop")

\* The new core is tried under the transaction's authority.
Trial ==
  /\ pc = "trial"
  /\ \/ ~u.startNew /\ pc' = "check" /\ UNCHANGED <<admitted, running, faults>>
     \/ u.startNew /\ Starts(TRUE) /\ pc' = "check"
     \/ u.startNew /\ StartFails(TRUE) /\ pc' = "stop"
  /\ UNCHANGED <<disk, u, uncertain, wasRunning, mem, recovery, sweep>>
  /\ UNCHANGED <<next, updates, crashes, replaced>>

CommitCheck ==
  /\ pc = "check"
  /\ pc' = IF VerifyMarker(u) /\ installed = New(u) THEN "committing" ELSE "stop"
  /\ UNCHANGED <<disk, memory, counts>>

Committing == pc = "committing" /\ WritePhase("committing", "save", "stop")

\* saveCoreSelection: the settings on disk, never the ones in memory.
SaveSelection(channel, ok, fail) ==
  /\ \E r \in {"ok", "before"} :
       /\ Try(r)
       /\ settings' = Done(r, channel, settings)
       /\ Goto(r, ok, fail)
  /\ UNCHANGED <<journal, installed, files, cleanup, interrupted>>
  /\ UNCHANGED <<next, updates, crashes, replaced>>

CommitSave == pc = "save" /\ SaveSelection(u.next, "committed", "stop") /\ UNCHANGED memory

CommitDecide == pc = "committed" /\ WritePhase("committed", "announce", "stop")

-----------------------------------------------------------------------------
(* Rollback, and giving up *)

StopTrial ==
  /\ pc = "stop"
  /\ \/ /\ running' = None
        /\ pc' = IF u.reinstall THEN "require" ELSE "rollback"
     \/ running # None /\ pc' = "require" /\ UNCHANGED running
  /\ UNCHANGED <<disk, u, uncertain, wasRunning, mem, recovery, admitted, sweep, counts>>

\* RequireRecovery (recoveryFailure): an uncertain or a committed transaction
\* keeps its record.
RequireRecoveryAlways ==
  pc = "require" /\ WritePhase("recovery_required", "block", "block")
RequireRecovery ==
  /\ pc = "require"
  /\ IF uncertain \/ u.phase = "committed"
     THEN pc' = "block" /\ UNCHANGED <<disk, memory, counts>>
     ELSE WritePhase("recovery_required", "block", "block")

RollBack ==
  /\ pc = "rollback"
  /\ IF uncertain THEN pc' = "block" /\ UNCHANGED <<disk, memory, counts>>
     ELSE IF ~VerifyMarker(u) THEN pc' = "require" /\ UNCHANGED <<disk, memory, counts>>
     ELSE WritePhase("rolling_back", "restore", "require")

\* The old binary, or its absence, comes back only in place of the new one.
RestoreOld ==
  /\ pc = "restore"
  /\ \/ /\ installed \in {u.old, Restore(u)}
        /\ pc' = "resave"
        /\ UNCHANGED <<disk, memory, counts>>
     \/ /\ installed \notin {u.old, Restore(u)}
        /\ Move(IF u.old = None THEN {} ELSE {"restore"}, New(u), Restore(u),
                "resave", "require")
        /\ UNCHANGED admitted

\* restore(Previous); then whatever is installed is admitted.
RestoreSettingsSkipped ==
  /\ pc = "resave"
  /\ pc' = "restart"
  /\ admitted' = IF installed = None THEN Unset ELSE installed
  /\ UNCHANGED <<disk, u, uncertain, wasRunning, mem, recovery, running, sweep, counts>>
RestoreSettings ==
  /\ pc = "resave"
  /\ SaveSelection(u.prev, "restart", "require")
  /\ admitted' = IF pc' # "restart" THEN admitted
                 ELSE IF installed = None THEN Unset ELSE installed
  /\ UNCHANGED <<u, uncertain, wasRunning, mem, recovery, running, sweep>>

RestartOld ==
  /\ pc = "restart"
  /\ \/ ~wasRunning /\ pc' = "complete" /\ UNCHANGED <<admitted, running, faults>>
     \/ wasRunning /\ Starts(TRUE) /\ pc' = "complete"
     \/ wasRunning /\ StartFails(TRUE) /\ pc' = "require"
  /\ UNCHANGED <<disk, u, uncertain, wasRunning, mem, recovery, sweep>>
  /\ UNCHANGED <<next, updates, crashes, replaced>>

CompleteRollback ==
  /\ pc = "complete"
  /\ IF VerifyMarker(u) /\ installed \in {u.old, Restore(u)}
     THEN WritePhase("rolled_back", "announce", "block")
     ELSE pc' = "require" /\ UNCHANGED <<disk, memory, counts>>

\* blockCoreUpdate; the degraded error makes the supervisor stop what runs.
Block ==
  /\ pc = "block"
  /\ recovery' = TRUE
  /\ running' = None
  /\ pc' = "cleanup"
  /\ UNCHANGED <<disk, u, uncertain, wasRunning, mem, admitted, sweep, counts>>

-----------------------------------------------------------------------------
(* The end of a session *)

\* publishCoreSelection: memory follows the decision.
Announce ==
  /\ pc = "announce"
  /\ \E r \in Results :
       /\ Try(r)
       /\ mem' = Done(r, IF u.phase = "committed" THEN u.next ELSE u.prev, mem)
       /\ Goto(r, "defer", IF u.phase = "committed" THEN "require" ELSE "block")
  /\ UNCHANGED <<disk, u, uncertain, wasRunning, recovery, admitted, running, sweep>>
  /\ UNCHANGED <<next, updates, crashes, replaced>>

DeferSave == pc = "defer" /\ Defer("drop", "finish")

DeferDrop == /\ pc = "drop"
             /\ \E r \in Results : ReleaseJournal(r, "finish", "finish")
             /\ UNCHANGED memory

\* A committed reinstallation ends the recovery.
Finish ==
  /\ pc = "finish"
  /\ recovery' = (recovery /\ ~(u.reinstall /\ u.phase = "committed"))
  /\ pc' = "cleanup"
  /\ UNCHANGED <<disk, u, uncertain, wasRunning, mem, admitted, running, sweep, counts>>

Unclaimed == journal = None /\ cleanup[u.tx] = None /\ interrupted[u.tx] = None

CleanupCandidate ==
  /\ pc = "cleanup"
  /\ IF Unclaimed
     THEN \E gone \in SUBSET {"candidate", "marker"}, r \in {"ok", "before"} :
            /\ Try(r)
            /\ r = "ok" => gone = {"candidate", "marker"}
            /\ files' = [files EXCEPT ![u.tx] = @ \ gone]
     ELSE UNCHANGED <<files, faults>>
  /\ pc' = "idle"
  /\ u' = None /\ uncertain' = FALSE /\ wasRunning' = FALSE
  /\ UNCHANGED <<journal, installed, cleanup, interrupted, settings>>
  /\ UNCHANGED <<mem, recovery, admitted, running, sweep>>
  /\ UNCHANGED <<next, updates, crashes, replaced>>

-----------------------------------------------------------------------------
(* The daemon outside a session *)

\* Supervision starts the core without any authority, unless in recovery.
StartCore ==
  /\ pc = "idle" /\ ~recovery /\ running = None
  /\ MayExecute(FALSE)
  /\ running' = installed /\ admitted' = installed
  /\ UNCHANGED <<disk, pc, u, uncertain, wasRunning, mem, recovery, sweep, counts>>

CoreExits ==
  /\ running # None
  /\ running' = None
  /\ UNCHANGED <<disk, pc, u, uncertain, wasRunning, mem, recovery, admitted, sweep, counts>>

\* The child dies with its parent (Pdeathsig, the Windows job object).
Crash ==
  /\ pc # "down"
  /\ crashes < MaxCrashes /\ crashes' = crashes + 1
  /\ pc' = "down"
  /\ u' = None /\ uncertain' = FALSE /\ wasRunning' = FALSE
  /\ running' = None /\ admitted' = Unset
  /\ recovery' = FALSE /\ mem' = settings
  /\ sweep' = [active |-> 0, todo |-> {}]
  /\ UNCHANGED <<disk, next, updates, faults, replaced>>

InterruptedUpdate == journal # None /\ ~(Decided(journal) /\ VerifyFinal(journal))

Assemble ==
  /\ pc = "down"
  /\ Readable
  /\ mem' = settings
  /\ recovery' = InterruptedUpdate
  /\ sweep' = [active |-> IF journal = None THEN 0 ELSE journal.tx, todo |-> {}]
  /\ pc' = IF Decided(journal) THEN "startdefer" ELSE "list"
  /\ UNCHANGED <<disk, u, uncertain, wasRunning, admitted, running, counts>>

\* CleanupCompletedUpdates: set a decided journal aside ...
StartDefer == pc = "startdefer" /\ Defer("startdrop", "list")

StartDrop ==
  /\ pc = "startdrop"
  /\ \E r \in Results :
       /\ ReleaseJournal(r, "list", "list")
       /\ sweep' = [sweep EXCEPT !.active = IF r = "ok" THEN 0 ELSE @]
  /\ UNCHANGED <<u, uncertain, wasRunning, mem, recovery, admitted, running>>

\* ... and remove the files of every archived transaction but the active one.
List ==
  /\ pc = "list"
  /\ sweep' = [sweep EXCEPT !.todo = {tx \in Txs : cleanup[tx] # None} \ {sweep.active}]
  /\ pc' = "sweep"
  /\ UNCHANGED <<disk, u, uncertain, wasRunning, mem, recovery, admitted, running, counts>>

\* cleanupArchivedUpdate removes in this order; the marker outlives what it
\* vouches for, the record outlives everything.  An error leaves the rest.
Order == <<"candidate", "backup", "restore", "marker">>
Present(tx) == {i \in 1 .. 4 : Order[i] \in files[tx]}
First(S) == CHOOSE i \in S : \A k \in S : i <= k

SweepFile(tx) ==
  /\ pc = "sweep" /\ tx \in sweep.todo
  /\ Present(tx) # {}
  /\ \/ /\ "marker" \in files[tx]
        /\ \E r \in Results :
             /\ Try(r)
             /\ files' = [files EXCEPT ![tx] = Done(r, @ \ {Order[First(Present(tx))]}, @)]
             /\ sweep' = [sweep EXCEPT !.todo = IF r = "ok" THEN @ ELSE @ \ {tx}]
     \/ /\ "marker" \notin files[tx]
        /\ sweep' = [sweep EXCEPT !.todo = @ \ {tx}]
        /\ UNCHANGED <<files, faults>>
  /\ UNCHANGED <<journal, installed, cleanup, interrupted, settings, pc>>
  /\ UNCHANGED <<u, uncertain, wasRunning, mem, recovery, admitted, running>>
  /\ UNCHANGED <<next, updates, crashes, replaced>>

SweepRecord(tx) ==
  /\ pc = "sweep" /\ tx \in sweep.todo
  /\ Present(tx) = {}
  /\ \E r \in Results :
       /\ Try(r)
       /\ cleanup' = [cleanup EXCEPT ![tx] = Done(r, None, @)]
  /\ sweep' = [sweep EXCEPT !.todo = @ \ {tx}]
  /\ UNCHANGED <<journal, installed, files, interrupted, settings, pc>>
  /\ UNCHANGED <<u, uncertain, wasRunning, mem, recovery, admitted, running>>
  /\ UNCHANGED <<next, updates, crashes, replaced>>

Ready ==
  /\ pc = "sweep" /\ sweep.todo = {}
  /\ pc' = "idle"
  /\ sweep' = [active |-> 0, todo |-> {}]
  /\ UNCHANGED <<disk, u, uncertain, wasRunning, mem, recovery, admitted, running, counts>>

\* Somebody else replaces the binary; the daemon does not notice.
ReplaceBinary ==
  /\ replaced < MaxReplaced /\ replaced' = replaced + 1
  /\ installed' = ForeignObject
  /\ UNCHANGED <<journal, files, cleanup, interrupted, settings, pc, memory>>
  /\ UNCHANGED <<next, updates, faults, crashes>>

-----------------------------------------------------------------------------
Init ==
  /\ journal = None
  /\ settings \in Channels
  /\ installed \in {None, [core |-> [build |-> 0, channel |-> settings], file |-> <<"initial", 0>>]}
  /\ files = [tx \in Txs |-> {}]
  /\ cleanup = [tx \in Txs |-> None] /\ interrupted = [tx \in Txs |-> None]
  /\ pc = "idle"
  /\ u = None /\ uncertain = FALSE /\ wasRunning = FALSE
  /\ mem = settings /\ recovery = FALSE /\ admitted = Unset /\ running = None
  /\ sweep = [active |-> 0, todo |-> {}]
  /\ next = 1 /\ updates = 0 /\ faults = 0 /\ crashes = 0 /\ replaced = 0

Session == \/ BeginPending \/ BeginRelease \/ BeginSnapshot \/ BeginPrepare \/ BeginFailed
           \/ Publishing \/ MovePublish \/ Verifying \/ Trial
           \/ CommitCheck \/ Committing \/ CommitSave \/ CommitDecide
           \/ StopTrial \/ RequireRecovery \/ RollBack \/ RestoreOld \/ RestoreSettings
           \/ RestartOld \/ CompleteRollback \/ Block
           \/ Announce \/ DeferSave \/ DeferDrop \/ Finish \/ CleanupCandidate

Startup == \/ Assemble \/ StartDefer \/ StartDrop \/ List \/ Ready
           \/ \E tx \in Txs : SweepFile(tx) \/ SweepRecord(tx)

Next == \/ Session \/ Startup
        \/ \E reinstall \in BOOLEAN, target \in Channels : Stage(reinstall, target)
        \/ StartCore \/ CoreExits \/ Crash \/ ReplaceBinary

Spec == Init /\ [][Next]_vars

-----------------------------------------------------------------------------
(* Properties *)

States == {"down", "idle", "begin", "release", "snapshot", "prepare", "failed",
           "publish", "move", "verify", "trial", "check", "committing", "save",
           "committed", "stop", "require", "rollback", "restore", "resave", "restart",
           "complete", "block", "announce", "defer", "drop", "finish", "cleanup",
           "startdefer", "startdrop", "list", "sweep"}

\* Type invariant: records, objects and counters are ones the code can produce.
TypeOK ==
  /\ journal \in Records \cup {None} /\ u \in Records \cup {None}
  /\ {installed, running} \subseteq Objects \cup {None}
  /\ admitted \in Objects \cup {None, Unset}
  /\ files \in [Txs -> SUBSET Roles]
  /\ {cleanup, interrupted} \subseteq [Txs -> Records \cup {None}]
  /\ {settings, mem} \subseteq Channels
  /\ pc \in States
  /\ {uncertain, wasRunning, recovery} \subseteq BOOLEAN
  /\ sweep \in [active : 0 .. MaxTx, todo : SUBSET Txs]
  /\ next \in 1 .. MaxTx + 1 /\ updates \in 0 .. MaxUpdates
  /\ faults \in 0 .. MaxFaults /\ crashes \in 0 .. MaxCrashes /\ replaced \in 0 .. MaxReplaced

\* The supervised process is the one an undecided transaction tries out.
OnTrial == u # None /\ u.phase \in {"verifying", "committing", "recovery_required"}

\* A core that runs belongs to the channel in the settings on disk, unless it is
\* the trial of an undecided transaction or somebody else put it there: whatever
\* failed or crashed, supervision never runs the half of an update
\* (authorizePendingUpdate, Rollback).
RunsAccepted ==
  running # None /\ ~OnTrial =>
    running.core = Foreign \/ running.core.channel = settings

\* While a transaction is undecided its recovery material is on disk: the backup,
\* and the restoration copy unless it has been put back ("keeps recovery objects
\* until the whole update is accepted", UpdateTransaction).
RecoveryKept ==
  InFlight(journal) /\ journal.old # None =>
    /\ "backup" \in files[journal.tx]
    /\ "restore" \in files[journal.tx] \/ installed \in {Restore(journal), ForeignObject}

\* A durable decision and the settings agree: a committed record means the new
\* channel is saved, a rolled back one that the previous channel is.
DecisionHonoured ==
  Decided(journal) =>
    settings = IF journal.phase = "committed" THEN journal.next ELSE journal.prev

\* A daemon that accepts ordinary work has no undecided transaction, and its
\* settings in memory are those on disk (saveCoreSelection writes the disk ahead
\* of memory, publishCoreSelection or the recovery flag closes the gap).
ReadyMeansSettled ==
  pc = "idle" /\ ~recovery => ~InFlight(journal) /\ mem = settings

\* A repeated reinstallation or cleanup finds the record it archived before: it
\* is never refused because the record changed.
ArchivesAgree ==
  journal # None => /\ interrupted[journal.tx] \in {None, journal}
                    /\ cleanup[journal.tx] \in {None, journal}

\* A daemon can always be assembled and can always open the pending transaction:
\* no cleanup takes away the marker of the record in the journal.
MarkerKept == Readable

\* A decision is final: its record only disappears or is superseded, and the
\* settings it stands for do not change beside it.
DecisionFinal ==
  Decided(journal) => /\ journal' = journal \/ journal' = None \/ journal'.tx # journal.tx
                      /\ settings' = settings

\* The daemon never replaces the binary under a process it supervises.
NoSwapUnderRunning ==
  installed' # installed /\ replaced' = replaced => running = None

\* The journal goes only when its cleanup record is on disk, and the cleanup
\* record only when no file of the transaction is left.
AuthorityKept ==
  /\ journal # None /\ journal' = None => cleanup[journal.tx] = journal
  /\ \A tx \in Txs : cleanup[tx] # None /\ cleanup'[tx] = None => files[tx] = {}

\* The journal, the settings and the archives agree in every state.
JournalSafe == TypeOK /\ ReadyMeansSettled /\ ArchivesAgree /\ MarkerKept /\ DecisionHonoured

\* No step takes back a decision, swaps a running binary or removes what authorises cleanup.
JournalSteps == [][DecisionFinal /\ NoSwapUnderRunning /\ AuthorityKept]_vars

\* Half an update never runs, and what undoes it is kept.
NeverHalf == RunsAccepted /\ RecoveryKept

-----------------------------------------------------------------------------
(* The transaction implements the atomic installation *)

CONSTANT Unknown   \* no core is accepted

\* The transaction that owns the journal can still decide it.
Owned == u # None /\ u.tx = journal.tx /\ ~recovery /\ ~u.reinstall

CoreOf(object) == IF object = None THEN None ELSE object.core

AcceptedCore == CASE journal = None -> CoreOf(installed)
                  [] journal # None /\ journal.phase = "committed" -> New(journal).core
                  [] journal # None /\ journal.phase # "committed"
                       /\ (Decided(journal) \/ Owned) -> CoreOf(journal.old)
                  [] OTHER -> Unknown

AcceptedChannel == CASE journal = None -> settings
                     [] journal # None /\ journal.phase = "committed" -> journal.next
                     [] OTHER -> journal.prev

Installs == INSTANCE AtomicInstall WITH channel <- AcceptedChannel, core <- AcceptedCore,
                                        NoCore <- None

\* Accepted core and channel change together, at the write of the committed record
\* and at no other step; after an interruption only a reinstallation in the
\* recorded channel accepts a core again.
Atomic == Installs!Spec

-----------------------------------------------------------------------------
(* Liveness *)

\* A session and a startup go on as long as the daemon runs; the daemon is
\* started again; the user repairs when the manager asks for it.
Fairness == /\ WF_vars(Session) /\ WF_vars(Startup)
            /\ WF_vars(recovery /\ \E target \in Channels : Stage(TRUE, target))

FairSpec == Spec /\ Fairness

\* Repair never wedges: once failures stop, a manager in recovery accepts a core
\* again, wherever the interrupted transaction was left.
Repairable == recovery ~> ~recovery /\ pc = "idle"
=============================================================================
