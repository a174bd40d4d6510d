---------------------------- MODULE WindowsControl ----------------------------
(***************************************************************************)
(* The installation-control directory on Windows                           *)
(* (internal/platform/install_control_windows.go, install_control.go,      *)
(* windows_runtime_control_windows.go and boot_session_windows.go).        *)
(* Processes race to initialise the directory, lock it, publish the        *)
(* installation state and the runtime record by compare and rename, and    *)
(* create the machine's one volatile boot-session key.  They die between   *)
(* any two steps, a flush fails, and the machine reboots.                  *)
(***************************************************************************)
EXTENDS Integers, FiniteSets

CONSTANTS Procs, MaxDocs, MaxReboots

VARIABLES dir,    \* files under the published directory: name -> document
          disk,   \* what a reboot leaves of them
          locks,  \* operation and startup: the process holding each
          proc,   \* what each process is doing
          held,   \* the record files each process's controller holds open
          boot,   \* children of the volatile BootSessions key
          told,   \* boot ids that calls returned during this boot
          made    \* documents and reboots so far

wcVars == <<dir, disk, locks, proc, held, boot, told, made>>

LockFiles == {"operation.lock", "startup.lock"}
Records == {"state.json", "runtime.json"}
FileNames == LockFiles \cup Records
Blank == 0
LockFor == [r \in Records |-> IF r = "state.json" THEN "operation.lock" ELSE "startup.lock"]
NoCall == [at |-> "idle", on |-> "none", prev |-> Blank, next |-> Blank,
           temp |-> {}, durable |-> FALSE]

Unopened == [r \in Records |-> Blank]

(* K is the published directory; it is absent, not empty, at first.        *)
Absent0 == [n \in {} |-> Blank]
K == DOMAIN dir

WcInit ==
  /\ dir = Absent0 /\ disk = Absent0
  /\ locks = [l \in LockFiles |-> "free"]
  /\ proc = [p \in Procs |-> NoCall]
  /\ held = [p \in Procs |-> Unopened]
  /\ boot = {} /\ told = {}
  /\ made = [docs |-> 0, reboots |-> 0]

Call(p, call) == proc' = [proc EXCEPT ![p] = call]
Now(p, pc) == proc[p].at = pc
Return(p) == Call(p, NoCall)
ReturnDurable(p) == Call(p, [NoCall EXCEPT !.durable = TRUE])
Onward(p, pc) == Call(p, [proc[p] EXCEPT !.at = pc])
NewDoc == made.docs + 1
CanWrite == made.docs < MaxDocs
Opened(p) == held[p]["state.json"] # Blank
Named(r) == IF r \in K THEN dir[r] ELSE Blank
Hold(p, handles) == held' = [held EXCEPT ![p] = handles]

-----------------------------------------------------------------------------
(* openWindowsInstallControl and OpenWindowsRuntimeControl: the files are  *)
(* opened and held; later calls compare them with what is named.           *)
OpenControlFiles(p) == Hold(p, [r \in Records |-> Named(r)])

OpenInstallControl(p) ==
  /\ Now(p, "idle") /\ ~Opened(p) /\ K # {} /\ OpenControlFiles(p)
  /\ UNCHANGED <<dir, disk, locks, proc, boot, told, made>>

(* initializeWindowsInstallControl: an existing directory is opened; else  *)
(* a private one is filled, file by file ...                               *)
BeginInitialize(p) ==
  /\ Now(p, "idle") /\ ~Opened(p) /\ K = {} /\ CanWrite
  /\ Call(p, [NoCall EXCEPT !.at = "filling", !.next = NewDoc])
  /\ made' = [made EXCEPT !.docs = NewDoc]
  /\ UNCHANGED <<dir, disk, locks, held, boot, told>>

(* ... the operation lock, the startup lock, then the first state ...      *)
CreateControlFile(p) ==
  /\ Now(p, "filling")
  /\ LET have == proc[p].temp
         fresh == IF "operation.lock" \notin have THEN "operation.lock"
                 ELSE IF "startup.lock" \notin have THEN "startup.lock" ELSE "state.json"
     IN  /\ fresh \notin have
         /\ Call(p, [proc[p] EXCEPT !.temp = @ \cup {fresh}])
  /\ UNCHANGED <<dir, disk, locks, held, boot, told, made>>

Filled(p) ==
  [n \in proc[p].temp |-> IF n = "state.json" THEN proc[p].next ELSE Blank]

AnyFiles(p) == proc[p].temp # {}
AllFiles(p) == proc[p].temp = LockFiles \cup {"state.json"}
RenameReplacing(p) == dir' = Filled(p) /\ Onward(p, "syncing") /\ UNCHANGED held
(* ... and renamed into place; the rename never replaces, and the loser of *)
(* the race opens the winner's directory.                                  *)
RenameDirectory(p) ==
  \/ K = {} /\ dir' = Filled(p) /\ Onward(p, "syncing") /\ UNCHANGED held
  \/ K # {} /\ dir' = dir /\ Return(p) /\ OpenControlFiles(p)

PublishDirectory(p) ==
  /\ Now(p, "filling") /\ AllFiles(p) /\ RenameDirectory(p)
  /\ UNCHANGED <<disk, locks, boot, told, made>>

(* syncVolume, reopening and reading back: durable only then.              *)
ConfirmDirectory(p) ==
  /\ Now(p, "syncing")
  /\ \/ disk' = disk /\ Return(p) /\ UNCHANGED held
     \/ /\ disk' = dir /\ Named("state.json") = proc[p].next
        /\ ReturnDurable(p) /\ OpenControlFiles(p)
     \/ /\ disk' = dir /\ Named("state.json") # proc[p].next
        /\ Return(p) /\ UNCHANGED held
  /\ UNCHANGED <<dir, locks, boot, told, made>>

-----------------------------------------------------------------------------
(* acquireLock and close: LockFileEx without waiting.                      *)
TakeLock(p) ==
  /\ Now(p, "idle") /\ Opened(p)
  /\ \E l \in LockFiles : locks[l] = "free" /\ locks' = [locks EXCEPT ![l] = p]
  /\ UNCHANGED <<dir, disk, proc, held, boot, told, made>>

(* A lock is not closed while a publication uses it (the session mutex and *)
(* withStartupGate); Ensure only looks at the gate now and then.           *)
InUse(p, l) == proc[p].on \in Records /\ LockFor[proc[p].on] = l
DropLock(p) ==
  /\ \E l \in LockFiles : locks[l] = p /\ ~InUse(p, l) /\ locks' = [locks EXCEPT ![l] = "free"]
  /\ UNCHANGED <<dir, disk, proc, held, boot, told, made>>

(* beginMutation and withStartupGate: the record's own lock is held.       *)
MayPublish(p, r) == locks[LockFor[r]] = p

(* readCurrent and openFixedFile: the held file is still the named one; a  *)
(* runtime record that was not there at opening is discovered.             *)
Current(p, r) ==
  \/ held[p][r] = Named(r)
  \/ r = "runtime.json" /\ held[p][r] = Blank

(* publishState and publishHeld: the predecessor is the file that is held, *)
(* a candidate is written beside it and flushed ...                        *)
BeginPublish(p) ==
  /\ Now(p, "idle") /\ Opened(p) /\ CanWrite
  /\ \E r \in Records :
       /\ MayPublish(p, r)
       /\ IF Current(p, r)
          THEN /\ Call(p, [NoCall EXCEPT !.at = "written", !.on = r,
                                         !.prev = Named(r), !.next = NewDoc])
               /\ made' = [made EXCEPT !.docs = NewDoc]
          ELSE Return(p) /\ UNCHANGED made
  /\ UNCHANGED <<dir, disk, locks, held, boot, told>>

(* confirmState and Confirm: still current, then the volume is synced.     *)
ConfirmRecord(p) ==
  /\ Now(p, "idle") /\ Opened(p)
  /\ \E r \in Records \cap K :
       IF Current(p, r) THEN disk' = dir /\ Return(p)
                        ELSE disk' = disk /\ Return(p)
  /\ UNCHANGED <<dir, locks, held, boot, told, made>>

(* ... the predecessor is looked at again (recheckPredecessor) ...         *)
RecheckPredecessor(p) ==
  /\ Now(p, "written")
  /\ IF Named(proc[p].on) = proc[p].prev THEN Onward(p, "checked") ELSE Return(p)
  /\ UNCHANGED <<dir, disk, locks, held, boot, told, made>>

(* ... and replaced by a rename.                                           *)
RenameRecord(p) ==
  /\ Now(p, "checked")
  /\ LET r == proc[p].on IN
     dir' = [n \in K \cup {r} |-> IF n = r THEN proc[p].next ELSE dir[n]]
  /\ Hold(p, [held[p] EXCEPT ![proc[p].on] = proc[p].next]) /\ Onward(p, "renamed")
  /\ UNCHANGED <<disk, locks, boot, told, made>>

(* Flush, volume sync and read-back; a failure is published, not durable.  *)
SyncRecord(p) ==
  \/ disk' = dir /\ ReturnDurable(p)
  \/ disk' = disk /\ Return(p)

FinishPublish(p) ==
  /\ Now(p, "renamed") /\ SyncRecord(p)
  /\ UNCHANGED <<dir, locks, held, boot, told, made>>

-----------------------------------------------------------------------------
(* validateWindowsBootSessionChildren *)
OneSession == Cardinality(boot) = 1
TheSession == CHOOSE id \in boot : TRUE
Tell0(ids) == told' = told \cup ids

(* Ensure: the gate is checked, the children listed; one child is the id.  *)
EnsureList(p) ==
  /\ Now(p, "idle") /\ locks["startup.lock"] = p
  /\ IF boot = {} THEN Onward(p, "creating") /\ UNCHANGED told
     ELSE /\ Return(p)
          /\ Tell0(IF OneSession THEN boot ELSE {})
  /\ UNCHANGED <<dir, disk, locks, held, boot, made>>

(* The gate is checked again and a child of a random name is created; the  *)
(* gate may be closed, and taken by another process, in between.           *)
EnsureRecheck(p) ==
  /\ Now(p, "creating")
  /\ IF locks["startup.lock"] = p THEN Onward(p, "random") ELSE Return(p)
  /\ UNCHANGED <<dir, disk, locks, held, boot, told, made>>

EnsureCreate(p) ==
  /\ Now(p, "random")
  /\ boot' = boot \cup {p} /\ Onward(p, "relisting")
  /\ UNCHANGED <<dir, disk, locks, held, told, made>>

(* Listed again: exactly the child just created, or an error.              *)
EnsureVerify(p) ==
  IF boot = {p} THEN Tell0({p}) /\ Return(p)
  ELSE UNCHANGED told /\ Return(p)

EnsureFinish(p) ==
  /\ Now(p, "relisting") /\ EnsureVerify(p)
  /\ UNCHANGED <<dir, disk, locks, held, boot, made>>

ReadSession(p) ==
  /\ Now(p, "idle")
  /\ Return(p)
  /\ Tell0(IF OneSession THEN boot ELSE {})
  /\ UNCHANGED <<dir, disk, locks, held, boot, made>>

-----------------------------------------------------------------------------
(* The control is closed, or the process dies in the middle of a call: its *)
(* locks are released and a candidate is left over.                        *)
CloseControl(p) ==
  /\ ~Now(p, "idle") \/ Opened(p)
  /\ proc' = [proc EXCEPT ![p] = NoCall]
  /\ locks' = [l \in LockFiles |-> IF locks[l] = p THEN "free" ELSE locks[l]]
  /\ Hold(p, Unopened)
  /\ UNCHANGED <<dir, disk, boot, told, made>>

Reboot ==
  /\ made.reboots < MaxReboots
  /\ made' = [made EXCEPT !.reboots = @ + 1]
  /\ dir' = disk /\ boot' = {} /\ told' = {}
  /\ locks' = [l \in LockFiles |-> "free"]
  /\ proc' = [p \in Procs |-> NoCall] /\ held' = [p \in Procs |-> Unopened]
  /\ UNCHANGED disk

WcNext ==
  \/ \E p \in Procs :
       \/ OpenInstallControl(p) \/ CloseControl(p) \/ ConfirmRecord(p)
       \/ BeginInitialize(p) \/ CreateControlFile(p) \/ PublishDirectory(p)
       \/ ConfirmDirectory(p) \/ TakeLock(p) \/ DropLock(p) \/ BeginPublish(p)
       \/ RecheckPredecessor(p) \/ RenameRecord(p) \/ FinishPublish(p)
       \/ EnsureList(p) \/ EnsureRecheck(p) \/ EnsureCreate(p) \/ EnsureFinish(p)
       \/ ReadSession(p)
  \/ Reboot

WcSpec == WcInit /\ [][WcNext]_wcVars

-----------------------------------------------------------------------------
(* The variables keep their shape, and the directory is never seen without *)
(* both lock files and the state: a process that finds it can lock it.     *)
WcTypeOK ==
  /\ K \subseteq FileNames /\ DOMAIN disk \subseteq FileNames
  /\ \A l \in LockFiles : locks[l] \in Procs \cup {"free"}
  /\ \A p \in Procs : proc[p].next \in 0..MaxDocs
  /\ K = {} \/ LockFiles \cup {"state.json"} \subseteq K

(* A publication replaces exactly the document its caller named, although  *)
(* looking and renaming are separate steps: nobody else may write it.      *)
ReplacesNamed ==
  \A p \in Procs, r \in Records :
    Now(p, "checked") /\ proc'[p].at = "renamed" /\ proc[p].on = r
      => Named(r) = proc[p].prev

(* The directory is initialised once: the state a first process published  *)
(* is not lost to a second one that began before it was there.             *)
InitialisedOnce ==
  \A p \in Procs : Now(p, "filling") /\ proc'[p].at = "syncing" => K = {}

(* A publication reported durable survives a reboot.                       *)
DurableSurvives ==
  \A p \in Procs :
    proc[p].next # Blank /\ proc'[p].durable
      => \E r \in Records \cap DOMAIN disk' : disk'[r] = proc[p].next

(* However starters race, two calls of one boot never return different     *)
(* boot ids, not even when the startup gate is closed in the middle.       *)
OneBootId == Cardinality(told) <= 1

\* Everything above that a reachable state promises.
WcSafe ==
  /\ WcTypeOK /\ OneBootId

\* Everything above that a step promises.
WcStepOK ==
  /\ ReplacesNamed /\ InitialisedOnce /\ DurableSurvives
=============================================================================
