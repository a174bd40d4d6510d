----------------------------- MODULE SystemdUnit -----------------------------
(***************************************************************************)
(* The systemd adapter of the service package (service/definition*.go):    *)
(* what an installer reads of the unit, how it takes the unit down behind  *)
(* a mask and waits for its control group, and how it publishes or         *)
(* restores the definition. The manager, an administrator, the kernel and  *)
(* crashes act between any two of its steps. The manager is external.      *)
(***************************************************************************)
EXTENDS Naturals, Sequences
LOCAL INSTANCE SequencesExt

CONSTANTS UnitTexts,      \* the lines an installed unit may have
          DropTexts,      \* the lines a drop-in may have; << >>: there is none
          MaxUnitEvents,  \* bound on what the manager, the kernel and the administrator do
          MaxUnitFaults   \* bound on failing calls and crashes

VARIABLES unitDisk,       \* [unit, wants, drop]: unit file, enabling link, drop-in
          loaded,     \* [unit, drop]: what the manager read last
          active,     \* the manager's ActiveState, with the SubState auto-restart apart
          tree,       \* the processes in the unit's control group
          runsUnit,   \* the unit file the main process was started from
          text,       \* [unit, drop]: the lines of the unit found installed
          sj,         \* the installer and its adapter
          behind,     \* the mask is in place and verified
          unitEvents, unitFaults

unitVars == <<unitDisk, loaded, active, tree, runsUnit, text, sj, behind, unitEvents, unitFaults>>

-----------------------------------------------------------------------------
(* The text of a unit *)

UnitStart == [section |-> "none", bad |-> FALSE, execs |-> <<>>, keys |-> 0, files |-> {}]

\* splitExecStart: no prefix, no expansion, balanced quotes, at least one word.
SplitsExec(v) == v \notin {"prefixed", "expands", "unbalanced", "empty"}

\* rejectStrangeExec: an absolute program other than a shell, with "daemon" and perhaps "--system".
DaemonExec(v) == v \in {"daemon", "daemon --system"}

\* One logical line; keys count only in the Service section.
UnitLine(u, l) ==
  CASE l.key = "comment" -> u
    [] l.key = "section" -> [u EXCEPT !.section = l.v]
    [] l.key = "broken" -> [u EXCEPT !.bad = TRUE]
    [] OTHER -> IF u.section # "Service" THEN u
                ELSE CASE l.key = "ExecStart" -> [u EXCEPT !.execs = Append(@, l.v), !.keys = @ + 1]
                       [] l.key = "ExecOther" -> [u EXCEPT !.keys = @ + 1]
                       [] l.key = "Environment" -> [u EXCEPT !.bad = @ \/ l.v = "expands"]
                       [] l.key = "EnvironmentFile" -> [u EXCEPT !.files = @ \cup {l.v}]
                       [] OTHER -> u

ParseUnit(lines) == FoldLeft(UnitLine, UnitStart, lines)
ParsesUnit(lines) ==
  LET u == ParseUnit(lines)
  IN  /\ ~u.bad /\ u.keys <= 1
      /\ \A n \in 1..Len(u.execs) : SplitsExec(u.execs[n]) /\ DaemonExec(u.execs[n])

\* checkEnvFile: only an optional file that is not there.
EnvFilesMissing(u) == \A f \in u.files : f = "optional missing"

UnitAccepted(lines) == ParsesUnit(lines) /\ Len(ParseUnit(lines).execs) = 1 /\ EnvFilesMissing(ParseUnit(lines))
DropAccepted(lines) == ParsesUnit(lines) /\ ParseUnit(lines).keys = 0

-----------------------------------------------------------------------------
(* What the adapter reads *)

NoShow == [load |-> "none", act |-> "inactive", pid |-> FALSE, group |-> FALSE, drop |-> FALSE, wants |-> FALSE]
LoadState(u) == CASE u = "none" -> "not-found" [] u = "mask" -> "masked" [] OTHER -> "loaded"

\* systemctl show: the manager's memory; the enabling link it looks up.
Shown == [load |-> LoadState(loaded.unit), act |-> active, pid |-> "main" \in tree,
          group |-> tree # {} \/ active \in {"active", "starting", "stopping"},
          drop |-> loaded.drop, wants |-> unitDisk.wants /\ unitDisk.unit # "mask"]

NoUnitDef == [kind |-> "absent", masked |-> FALSE, running |-> FALSE, enabled |-> FALSE, unit |-> "none",
              maskLink |-> FALSE, drop |-> FALSE, wants |-> FALSE, group |-> FALSE]

StateKnown(p) == p.act \in {"active", "inactive", "failed"} \/ (p.act = "auto-restart" /\ ~p.pid)

\* definitionFromShow: the manager's answer p against the files as they are now.
DefinitionFromShow(p) ==
  LET masked == p.load = "masked" \/ unitDisk.unit = "mask"
      running == p.act = "active"
  IN  CASE p.load = "not-found" /\ unitDisk.unit = "none" -> NoUnitDef
        [] p.load = "not-found" \/ ~StateKnown(p) -> [NoUnitDef EXCEPT !.kind = "unknown"]
        [] p.drop # unitDisk.drop -> [NoUnitDef EXCEPT !.kind = "unsupported"]
        [] unitDisk.unit = "old" /\ ~UnitAccepted(text.unit) -> [NoUnitDef EXCEPT !.kind = "unsupported"]
        [] unitDisk.drop /\ ~DropAccepted(text.drop) -> [NoUnitDef EXCEPT !.kind = "unsupported"]
        [] running /\ ~(p.pid /\ p.group) -> [NoUnitDef EXCEPT !.kind = "unknown"]
        [] p.pid /\ "main" \notin tree -> [NoUnitDef EXCEPT !.kind = "unknown"]
        [] OTHER -> [kind |-> "known", masked |-> masked, running |-> running,
                     enabled |-> ~masked /\ (p.wants \/ unitDisk.wants),
                     unit |-> IF unitDisk.unit = "mask" THEN "none" ELSE unitDisk.unit,
                     maskLink |-> unitDisk.unit = "mask", drop |-> unitDisk.drop, wants |-> unitDisk.wants, group |-> p.group]

-----------------------------------------------------------------------------

OffUnit == [at |-> "idle", props |-> NoShow, for |-> "save", saved |-> NoUnitDef, last |-> NoUnitDef,
            was |-> [unit |-> "none", wants |-> FALSE, drop |-> FALSE], touched |-> FALSE, activated |-> FALSE,
            back |-> FALSE, want |-> "run", ended |-> "none"]

UnitInit ==
  /\ text \in [unit : UnitTexts, drop : DropTexts]
  /\ unitDisk \in [unit : {"none", "mask", "old"}, wants : BOOLEAN, drop : BOOLEAN]
  /\ unitDisk.drop = (text.drop # <<>>) /\ (unitDisk.unit = "none" => ~unitDisk.wants /\ ~unitDisk.drop)
  /\ loaded = [unit |-> unitDisk.unit, drop |-> unitDisk.drop]
  /\ \/ active \in {"inactive", "failed", "auto-restart"} /\ tree = {}
     \/ active = "active" /\ unitDisk.unit = "old" /\ tree = {"main"}
  /\ unitDisk.unit # "old" => active = "inactive"
  /\ runsUnit = "old" /\ sj = OffUnit /\ behind = FALSE /\ unitEvents = 0 /\ unitFaults = 0

OSame == UNCHANGED <<unitDisk, loaded, active, tree, runsUnit, text, behind, unitEvents>>

\* What a failed step leads to: an operation that changed something is rolled back once.
UnitFailed(j) ==
  IF j.activated \/ j.back \/ ~j.touched THEN [j EXCEPT !.at = "done", !.ended = "failed"]
  ELSE [j EXCEPT !.at = "show", !.for = "stop", !.back = TRUE]

UnitFault ==
  /\ sj.at \notin {"idle", "done", "crashed"} /\ unitFaults < MaxUnitFaults
  /\ unitFaults' = unitFaults + 1
  /\ sj' = UnitFailed(sj) /\ OSame

Operate ==
  /\ sj.at = "idle"
  /\ \E w \in {"run", "disabled", "remove"} : sj' = [sj EXCEPT !.at = "show", !.want = w]
  /\ OSame /\ UNCHANGED unitFaults

-----------------------------------------------------------------------------
(* InspectDefinition: first the manager, then the files *)

InspectShow ==
  /\ sj.at = "show"
  /\ sj' = [sj EXCEPT !.at = "read", !.props = Shown]
  /\ OSame /\ UNCHANGED unitFaults

\* A definition that is not installed needs no stopping.
AfterRead(d) ==
  CASE d.kind \notin {"absent", "known"} -> UnitFailed(sj)
    [] d.kind \in {"absent", "known"} /\ sj.for = "save" -> [sj EXCEPT !.at = "show", !.for = "stop", !.saved = d, !.last = d]
    [] d.kind = "absent" /\ sj.for = "stop" -> [sj EXCEPT !.at = "wait", !.last = d, !.was = IF sj.touched THEN @ ELSE unitDisk]
    [] d.kind = "absent" /\ sj.for = "start" -> UnitFailed(sj)
    [] d.kind = "known" /\ sj.for = "stop" -> [sj EXCEPT !.at = "unlink", !.last = d, !.was = IF sj.touched THEN @ ELSE unitDisk]
    [] d.kind = "known" /\ sj.for = "start" -> IF d.running THEN [sj EXCEPT !.at = "done", !.ended = "ok", !.last = d]
                                               ELSE UnitFailed([sj EXCEPT !.last = d])

InspectRead ==
  /\ sj.at = "read"
  /\ sj' = [AfterRead(DefinitionFromShow(sj.props)) EXCEPT !.props = NoShow]
  /\ OSame /\ UNCHANGED unitFaults

-----------------------------------------------------------------------------
(* DisableAutostartAndStop *)

\* The links but the mask are removed; then the mask replaces the unit file.
Unlink ==
  /\ sj.at = "unlink"
  /\ unitDisk' = [unitDisk EXCEPT !.wants = @ /\ ~sj.last.wants]
  /\ sj' = [sj EXCEPT !.at = "mask", !.touched = TRUE]
  /\ UNCHANGED <<loaded, active, tree, runsUnit, text, behind, unitEvents, unitFaults>>

MaskUnit ==
  /\ sj.at = "mask"
  /\ unitDisk' = [unitDisk EXCEPT !.unit = "mask"]
  /\ sj' = [sj EXCEPT !.at = "reload"]
  /\ UNCHANGED <<loaded, active, tree, runsUnit, text, behind, unitEvents, unitFaults>>

\* daemon-reload, and a look that the manager knows the mask.
ReloadMasked ==
  /\ sj.at = "reload"
  /\ loaded' = [unit |-> unitDisk.unit, drop |-> unitDisk.drop]
  /\ behind' = (unitDisk.unit = "mask")
  /\ sj' = IF unitDisk.unit = "mask" THEN [sj EXCEPT !.at = "stop"] ELSE UnitFailed(sj)
  /\ UNCHANGED <<unitDisk, active, tree, runsUnit, text, unitEvents, unitFaults>>

\* systemctl stop takes the main process down; what else is in the group may take longer.
StopUnit ==
  /\ sj.at = "stop"
  /\ \/ tree' = {} /\ UNCHANGED unitEvents
     \/ "child" \in tree /\ tree' = {"child"} /\ unitEvents < MaxUnitEvents /\ unitEvents' = unitEvents + 1
  /\ active' = IF active \in {"active", "starting", "auto-restart"} THEN "inactive" ELSE active
  /\ sj' = [sj EXCEPT !.at = "stopped"]
  /\ UNCHANGED <<unitDisk, loaded, runsUnit, text, behind, unitFaults>>

\* It is stopped when the manager says so and names no main process.
StopSeen ==
  /\ sj.at = "stopped"
  /\ sj' = IF active \in {"inactive", "failed"} /\ "main" \notin tree THEN [sj EXCEPT !.at = "wait"] ELSE UnitFailed(sj)
  /\ OSame /\ UNCHANGED unitFaults

-----------------------------------------------------------------------------
(* WaitOwnedTreeExit: the group is polled for a while, then signalled, twice *)

\* A wait that trusts the manager's word.
WaitBlind(j) == ~j.last.running

\* Nothing to wait for when no group was seen.
WaitUnknown(j) == ~j.last.group

Quiet(j) == [j EXCEPT !.at = "quiet"]

WaitTree ==
  /\ sj.at \in {"wait", "wait term", "wait kill"}
  /\ \/ /\ WaitUnknown(sj)
        /\ sj' = IF sj.last.running THEN UnitFailed(sj) ELSE Quiet(sj)
     \/ /\ ~WaitUnknown(sj) /\ tree = {}
        /\ sj' = Quiet(sj)
     \/ /\ ~WaitUnknown(sj) /\ tree # {}
        /\ sj' \in {UnitFailed(sj)} \cup                          \* cgroup.events cannot be understood
                   {CASE sj.at = "wait" -> [sj EXCEPT !.at = "TERM"]
                      [] sj.at = "wait term" -> [sj EXCEPT !.at = "KILL"]
                      [] OTHER -> UnitFailed(sj)}
  /\ OSame /\ UNCHANGED unitFaults

\* Every process listed in the group, as long as it is still listed.
SignalGroup ==
  /\ sj.at \in {"TERM", "KILL"}
  /\ tree' \in SUBSET tree
  /\ sj' = [sj EXCEPT !.at = IF sj.at = "TERM" THEN "wait term" ELSE "wait kill"]
  /\ UNCHANGED <<unitDisk, loaded, active, runsUnit, text, behind, unitEvents, unitFaults>>

-----------------------------------------------------------------------------
(* The files are replaced, target authority is made durable, the definition follows *)

Replaced ==
  /\ sj.at = "quiet"
  /\ sj' = IF sj.back THEN [sj EXCEPT !.at = "reverse"] ELSE [sj EXCEPT !.at = "obsolete", !.activated = TRUE]
  /\ OSame /\ UNCHANGED unitFaults

\* removeObsoleteDefinitions: what the old definition had and the target has not.
Obsolete ==
  /\ sj.at = "obsolete"
  /\ unitDisk' = [unit |-> IF sj.want = "remove" /\ (sj.saved.unit # "none" \/ sj.saved.maskLink) THEN "none" ELSE unitDisk.unit,
              drop |-> unitDisk.drop /\ ~sj.saved.drop,
              wants |-> unitDisk.wants /\ (sj.want = "run" \/ ~sj.saved.wants)]
  /\ behind' = (behind /\ unitDisk'.unit = "mask")
  /\ sj' = [sj EXCEPT !.at = IF sj.want = "remove" THEN "publish" ELSE "write", !.touched = TRUE]
  /\ UNCHANGED <<loaded, active, tree, runsUnit, text, unitEvents, unitFaults>>

\* WriteDefinition: the unit, then the enabling link.
WriteUnit ==
  /\ sj.at = "write"
  /\ unitDisk' = [unitDisk EXCEPT !.unit = "new"]
  /\ behind' = FALSE
  /\ sj' = [sj EXCEPT !.at = IF sj.want = "run" THEN "enable" ELSE "publish"]
  /\ UNCHANGED <<loaded, active, tree, runsUnit, text, unitEvents, unitFaults>>

EnableUnit ==
  /\ sj.at = "enable"
  /\ unitDisk' = [unitDisk EXCEPT !.wants = TRUE]
  /\ sj' = [sj EXCEPT !.at = "publish"]
  /\ UNCHANGED <<loaded, active, tree, runsUnit, text, behind, unitEvents, unitFaults>>

\* A definition that ran is started again.
Starts == IF sj.back THEN sj.saved.running ELSE sj.want = "run"

\* The reload that ends WriteDefinition and RestoreDefinition.
PublishUnit ==
  /\ sj.at = "publish"
  /\ loaded' = [unit |-> unitDisk.unit, drop |-> unitDisk.drop]
  /\ sj' = IF Starts THEN [sj EXCEPT !.at = "start"] ELSE [sj EXCEPT !.at = "done", !.ended = "ok"]
  /\ UNCHANGED <<unitDisk, active, tree, runsUnit, text, behind, unitEvents, unitFaults>>

\* The journal's definition actions are undone, path by path ...
ReverseUnit ==
  /\ sj.at = "reverse"
  /\ unitDisk' = sj.was
  /\ behind' = (behind /\ unitDisk'.unit = "mask")
  /\ sj' = [sj EXCEPT !.at = "restore"]
  /\ UNCHANGED <<loaded, active, tree, runsUnit, text, unitEvents, unitFaults>>

\* ... and RestoreDefinition publishes the saved definition: a mask, or the files; then the links.
RestoreUnit ==
  /\ sj.at = "restore"
  /\ unitDisk' = [unit |-> IF sj.saved.masked THEN "mask" ELSE IF sj.saved.unit # "none" THEN sj.saved.unit ELSE unitDisk.unit,
              drop |-> unitDisk.drop \/ (~sj.saved.masked /\ sj.saved.drop), wants |-> unitDisk.wants \/ sj.saved.wants]
  /\ behind' = (behind /\ unitDisk'.unit = "mask")
  /\ sj' = [sj EXCEPT !.at = "publish"]
  /\ UNCHANGED <<loaded, active, tree, runsUnit, text, unitEvents, unitFaults>>

\* systemctl start, then a probe that must find it running.
StartUnit ==
  /\ sj.at = "start"
  /\ IF loaded.unit \in {"old", "new"}
     THEN /\ active' = IF active = "active" THEN active ELSE "starting"
          /\ tree' = tree \cup {"main"}
          /\ runsUnit' = IF "main" \in tree THEN runsUnit ELSE loaded.unit
          /\ sj' = [sj EXCEPT !.at = "show", !.for = "start"]
     ELSE sj' = UnitFailed(sj) /\ UNCHANGED <<active, tree, runsUnit>>
  /\ UNCHANGED <<unitDisk, loaded, text, behind, unitEvents, unitFaults>>

-----------------------------------------------------------------------------
(* Crashes and reboots; the journal says on which side of the activation *)

CrashUnit ==
  /\ sj.at \notin {"idle", "done", "crashed"} /\ unitFaults < MaxUnitFaults
  /\ unitFaults' = unitFaults + 1
  /\ sj' = [sj EXCEPT !.at = "crashed", !.props = NoShow, !.last = NoUnitDef]
  /\ \/ OSame
     \/ /\ loaded' = [unit |-> unitDisk.unit, drop |-> unitDisk.drop]
        /\ IF unitDisk.wants /\ unitDisk.unit \in {"old", "new"}
           THEN tree' = {"main"} /\ active' = "starting" /\ runsUnit' = unitDisk.unit
           ELSE tree' = {} /\ active' = "inactive" /\ UNCHANGED runsUnit
        /\ UNCHANGED <<unitDisk, text, behind, unitEvents>>

\* Back behind the barrier before the activation, forward to the target after it.
RecoverUnit ==
  /\ sj.at = "crashed"
  /\ sj' = IF sj.activated THEN [sj EXCEPT !.at = "obsolete"]
           ELSE IF sj.touched THEN [sj EXCEPT !.at = "show", !.for = "stop", !.back = TRUE]
           ELSE [sj EXCEPT !.at = "done", !.ended = "failed"]
  /\ OSame /\ UNCHANGED unitFaults

-----------------------------------------------------------------------------
(* The manager, the kernel and the administrator *)

ManagerSame == UNCHANGED <<unitDisk, loaded, text, sj, behind, unitFaults>>
UnitEvent == unitEvents < MaxUnitEvents /\ unitEvents' = unitEvents + 1
Startable == loaded.unit \in {"old", "new"}

MainStarted == active = "starting" /\ active' = "active" /\ UNCHANGED <<tree, runsUnit, unitEvents>> /\ ManagerSame
MainForks ==
  /\ active = "active" /\ "main" \in tree /\ "child" \notin tree /\ UnitEvent
  /\ tree' = tree \cup {"child"} /\ UNCHANGED <<active, runsUnit>> /\ ManagerSame
MainFails ==
  /\ active \in {"active", "starting"} /\ UnitEvent
  /\ tree' = {} /\ active' \in {"auto-restart", "failed", "inactive"} /\ UNCHANGED runsUnit /\ ManagerSame
ManagerStarts ==
  /\ active \in {"auto-restart", "inactive", "failed"} /\ Startable /\ UnitEvent
  /\ active' = "starting" /\ tree' = tree \cup {"main"} /\ runsUnit' = loaded.unit /\ ManagerSame
ChildExits ==
  /\ "child" \in tree /\ tree' = tree \ {"child"} /\ UNCHANGED <<active, runsUnit, unitEvents>> /\ ManagerSame
\* A unit that is not active may be read again at any time.
ManagerRereads ==
  /\ active \in {"inactive", "failed"} /\ loaded # [unit |-> unitDisk.unit, drop |-> unitDisk.drop]
  /\ loaded' = [unit |-> unitDisk.unit, drop |-> unitDisk.drop]
  /\ UNCHANGED <<unitDisk, active, tree, runsUnit, text, sj, behind, unitEvents, unitFaults>>

UnitOver == sj.at = "done" /\ UNCHANGED unitVars

UnitNext ==
  \/ Operate \/ UnitFault \/ InspectShow \/ InspectRead \/ Unlink \/ MaskUnit \/ ReloadMasked \/ StopUnit \/ StopSeen
  \/ WaitTree \/ SignalGroup \/ Replaced \/ Obsolete \/ WriteUnit \/ EnableUnit \/ PublishUnit \/ ReverseUnit
  \/ RestoreUnit \/ StartUnit \/ CrashUnit \/ RecoverUnit
  \/ MainStarted \/ MainForks \/ MainFails \/ ManagerStarts \/ ChildExits \/ ManagerRereads \/ UnitOver

UnitSpec == UnitInit /\ [][UnitNext]_unitVars

-----------------------------------------------------------------------------

UnitTypeOK ==
  /\ unitDisk.unit \in {"none", "mask", "old", "new"} /\ loaded.unit \in {"none", "mask", "old", "new"}
  /\ active \in {"inactive", "failed", "auto-restart", "starting", "active", "stopping"}
  /\ tree \subseteq {"main", "child"} /\ behind \in BOOLEAN
  /\ unitEvents \in 0..MaxUnitEvents /\ unitFaults \in 0..MaxUnitFaults

\* While files are replaced the service's main process is gone and cannot start, and a control group that was seen
\* is empty (WaitOwnedTreeExit), whatever the manager did since the unit was inspected.
QuietTree ==
  sj.at = "quiet" => /\ "main" \notin tree /\ active \notin {"active", "starting"}
                     /\ sj.last.group => tree = {}

\* A verified mask is on the disk and known to the manager (reload, verifyMasked), also after a reboot.
MaskKnown == behind => unitDisk.unit = "mask" /\ loaded.unit = "mask"

\* A rollback that succeeds leaves the definition that was saved, with its links and drop-ins, and the manager has read it
\* (RestoreDefinition).
RestoredAsSaved ==
  sj.at = "done" /\ sj.ended = "ok" /\ sj.back =>
    /\ unitDisk.wants = sj.saved.wants /\ unitDisk.drop = sj.saved.drop
    /\ unitDisk.unit = IF sj.saved.masked THEN "mask" ELSE sj.saved.unit
    /\ loaded = [unit |-> unitDisk.unit, drop |-> unitDisk.drop]

\* An operation that starts the target reports success only when the main process runs the target's unit (Start, Probe).
TargetRuns == sj.at = "done" /\ sj.ended = "ok" /\ ~sj.back /\ sj.want = "run" /\ "main" \in tree => runsUnit = "new"

\* Lines of the Service section, told without the parser.
ServiceLines(lines) ==
  {n \in 1..Len(lines) : \E k \in 1..(n - 1) :
     /\ lines[k] = [key |-> "section", v |-> "Service"]
     /\ \A i \in (k + 1)..(n - 1) : lines[i].key # "section"}

\* Only a unit that runs the daemon, and nothing else, is taken down (parseSystemdUnitFile, rejectStrangeExec): the
\* definition is left alone otherwise.
OnlyDaemonTouched ==
  sj.touched /\ sj.saved.unit = "old" =>
    LET in == ServiceLines(text.unit)
        keys == {n \in in : text.unit[n].key \in {"ExecStart", "ExecOther"}}
    IN  \E n \in in : keys = {n} /\ text.unit[n] \in {[key |-> "ExecStart", v |-> v] : v \in {"daemon", "daemon --system"}}

UnitSafe == UnitTypeOK /\ QuietTree /\ MaskKnown /\ RestoredAsSaved /\ TargetRuns /\ OnlyDaemonTouched

\* Behind the verified mask no main process starts (Mask, reload).
NoStartBehind == behind /\ behind' /\ "main" \in tree' => "main" \in tree

\* The adapter never takes a unit whose main process runs for stopped.
ReadsHonestly ==
  sj.at = "read" /\ sj'.last # sj.last /\ sj'.last.kind = "known" /\ ~sj'.last.running => ~sj.props.pid

UnitStepOK == NoStartBehind /\ ReadsHonestly
=============================================================================
