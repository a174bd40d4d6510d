----------------------------- MODULE Uninstall -----------------------------
(***************************************************************************)
(* The complete uninstall (internal/app/uninstall*.go): the PATH command   *)
(* file, the service, and the directories of the installation. Every       *)
(* decision is taken from the file system, which others go on changing     *)
(* while the uninstaller scans it, waits for the daemon and deletes.       *)
(*                                                                         *)
(* A root holds kinds of entry; Foreign is an entry no Mihari component    *)
(* writes. The command file is described by what it is compared with the   *)
(* installed program.                                                      *)
(***************************************************************************)
EXTENDS Naturals, FiniteSets, Sequences

CONSTANTS
  RootKinds,    \* the directories of the installation
  Leftovers,    \* what earlier operations may have left in the data root
  MaxMeddling   \* bound on the changes made by others

ASSUME UninstallAssumption == RootKinds \subseteq {"data", "logs", "program", "base", "control"}
                              /\ MaxMeddling \in Nat

VARIABLES
  command,   \* the PATH command: "absent", "dir", "link", "dangling", "match", "other"
  inside,    \* the directory of the PATH command is the program root
  estate,    \* what every root is: "absent", "link", "dir", and its entries
  osService, \* "absent", "stopped", "running", "unknown"
  daemonUp,  \* a daemon answers the control probe
  removal,   \* the run: where it is, its options and its decisions
  meddling,  \* changes made by others so far
  judged,    \* history: the command as last classified, and whether it may go
  scanned    \* history: foreign entries that were there at the second check

unVars == <<command, inside, estate, osService, daemonUp, removal, meddling, judged, scanned>>

-----------------------------------------------------------------------------
(* The recognised names, as the code tests them: the parts of a relative   *)
(* path. Hex stands for a 32-digit identifier, Hash for a 64-digit one, N  *)
(* for a number the code requires in canonical form.                       *)

Hex == "<32 hex>"
Hash == "<64 hex>.yaml"
N == "<n>"

AllowedControlEntry(p) == p \in {<<"state.json">>, <<"previous-state.json">>, <<"operation.lock">>, <<"startup.lock">>}

AllowedInstallJournalEntry(p) ==
  /\ p[1] = Hex
  /\ \/ Len(p) = 1
     \/ Len(p) = 2 /\ p[2] \in {"transaction-id", "unit", "unit-bootstrap", "ready.json", "validation-launch.json"}

AllowedDataRootEntry(name) ==
  name \in {"bin", "runtime", "subscriptions", "geoip", "preferences", "providers", "web", "logs", "logs-export",
            "staging", "locks", "install-control", "ruleset", "mihari.yaml", "onboarding.json", "control.token",
            "daemon.lock", "mihari.yaml.lock", "control.sock", "mihari-channel", "install.lock", "cache.db"}

AllowedBinEntry(p) == p \in {<<"mihomo">>, <<"mihomo.exe">>, <<"mihomo.provenance.json">>, <<"core-channel">>,
                             <<"mihomo.exe.old-", N>>}

AllowedCoreHomeEntry(p) ==
  \/ Len(p) = 1 /\ p[1] \in {"providers", "ruleset", "tmp", "Country.mmdb", "GeoSite.dat", "cache.db"}
  \/ Len(p) = 2 /\ p[1] = "providers" /\ p[2] = Hash

AllowedRuntimeEntry(p) ==
  \/ p \in {<<"core-home">>, <<"config.yaml">>}
  \/ Len(p) > 1 /\ p[1] = "core-home" /\ AllowedCoreHomeEntry(Tail(p))

AllowedSubscriptionsEntry(p) == p \in {<<"cache">>, <<"catalog.yaml">>, <<"cache", Hex>>}

AllowedLogsEntry(p) ==
  p \in {<<"logs">>, <<"logs-export">>, <<"logs", "mihari-daemon.log">>, <<"logs", "mihomo.log">>,
         <<"logs", "mihari-tui.log">>, <<"logs-export", "mihari-logs.zip">>}

AllowedCoreStaging(p) ==
  \/ p \in {<<"provenance-commit.json">>, <<Hex>>}
  \/ /\ Len(p) = 2 /\ p[1] = Hex
     /\ p[2] \in {"candidate-binary", "candidate-receipt.json", "backup-binary", "backup-receipt.json",
                   "restore-binary", "restore-receipt.json", "quarantine-binary", "quarantine-receipt.json",
                   "transaction-id"}

AllowedProviderStaging(p) ==
  \/ p \in {<<"commit.json">>, <<"activation.json">>, <<Hex>>}
  \/ Len(p) = 2 /\ p[1] = Hex /\ p[2] \in {"candidate", "source", "transaction-id"}

AllowedStagingEntry(p) ==
  IF Len(p) = 1 THEN p[1] \in {"core", "providers", "geoip", "panels", "subscriptions"}
  ELSE CASE p[1] = "core" -> AllowedCoreStaging(Tail(p))
         [] p[1] = "providers" -> AllowedProviderStaging(Tail(p))
         [] p[1] = "geoip" -> p = <<"geoip", ".candidate-", N>>
         [] p[1] = "subscriptions" -> p = <<"subscriptions", "config-", N>>
         [] OTHER -> FALSE

AllowedDataEntry(p) ==
  IF Len(p) = 1 THEN AllowedDataRootEntry(p[1])
  ELSE CASE p[1] = "bin" -> AllowedBinEntry(Tail(p))
         [] p[1] = "runtime" -> AllowedRuntimeEntry(Tail(p))
         [] p[1] = "subscriptions" -> AllowedSubscriptionsEntry(Tail(p))
         [] p[1] \in {"logs", "logs-export"} -> AllowedLogsEntry(p)
         [] p[1] = "staging" -> AllowedStagingEntry(Tail(p))
         [] p[1] = "install-control" -> AllowedControlEntry(Tail(p))
         [] OTHER -> p \in {<<"locks", "install-data-id">>, <<"preferences", "tui.json">>, <<"providers", Hash>>}

AllowedBaseEntry(p) ==
  CASE p[1] = "transactions" -> Len(p) = 1 \/ AllowedInstallJournalEntry(Tail(p))
    [] p[1] = "data" -> Len(p) = 1 \/ AllowedDataEntry(Tail(p))
    [] p[1] = "install-control" -> Len(p) = 1 \/ AllowedControlEntry(Tail(p))
    [] OTHER -> p \in {<<"install-transaction.json">>, <<"control.sock">>, <<"control.token">>,
                       <<"mihari-channel">>, <<"install.lock">>}

AllowedUninstallEntry(kind, p) ==
  CASE kind = "data" -> AllowedDataEntry(p)
    [] kind = "base" -> AllowedBaseEntry(p)
    [] kind = "logs" -> AllowedLogsEntry(p)
    [] kind = "program" -> p \in {<<"mihari">>, <<"mihari.exe">>, <<".mihari-binary.lock">>}
    [] kind = "control" -> AllowedControlEntry(p)

(* What the daemon leaves below staging: the records of a provenance       *)
(* commit, of a provider commit and of a core update.                      *)

RolePath == {<<"staging", "core", "provenance-commit.json">>, <<"staging", "core", Hex, "candidate-binary">>,
             <<"staging", "core", Hex, "backup-receipt.json">>, <<"bin", "mihomo">>}
ProviderPath == {<<"staging", "providers", "commit.json">>, <<"staging", "providers", Hex, "candidate">>}
UpdateRolePath == {<<"staging", "core", "update-journal.json">>, <<"staging", "core", "update">>}

Foreign == <<"notes">>
Plain(kind) == CASE kind = "program" -> <<"mihari">> [] kind = "control" -> <<"state.json">>
                 [] kind = "logs" -> <<"logs">> [] OTHER -> <<"control.token">>

-----------------------------------------------------------------------------
Gone == [kind |-> "absent", has |-> {}]
NoPlan == [remove |-> FALSE, confirm |-> FALSE, regularOnly |-> FALSE, leave |-> FALSE]

UnInit ==
  /\ command \in {"absent", "dir", "link", "dangling", "match", "other"}
  /\ inside \in BOOLEAN
  /\ \E more \in {{}, {Foreign}, RolePath \cup ProviderPath} \cup Leftovers :
       estate = [r \in RootKinds |-> [kind |-> "dir", has |-> IF r = "data" THEN {Plain(r)} \cup more ELSE {Plain(r)}]]
  /\ osService \in {"absent", "stopped", "running", "unknown"}
  /\ daemonUp = (osService = "running")
  /\ \E force, consent \in BOOLEAN :
       removal = [at |-> "preview", force |-> force, consent |-> consent, plan |-> NoPlan,
                  kept |-> FALSE, todo |-> {}, result |-> "none"]
  /\ meddling = 0
  /\ judged = [is |-> "absent", ok |-> FALSE] /\ scanned = {}

-----------------------------------------------------------------------------
(* Others: a command file is replaced, entries and links appear, a daemon  *)
(* is started by hand or goes away.                                        *)

Meddle ==
  /\ meddling < MaxMeddling
  /\ meddling' = meddling + 1
  /\ UNCHANGED <<inside, osService, removal, judged, scanned>>

ReplaceCommand ==
  /\ Meddle
  /\ command' \in {"absent", "dir", "link", "match", "other"} \ {command}
  /\ UNCHANGED <<estate, daemonUp>>

AddForeign ==
  /\ Meddle
  /\ \E r \in RootKinds :
       /\ estate[r].kind = "dir"
       /\ estate' = [estate EXCEPT ![r].has = @ \cup {Foreign}]
  /\ UNCHANGED <<command, daemonUp>>

LinkRoot ==
  /\ Meddle
  /\ \E r \in RootKinds : estate[r].kind = "dir" /\ estate' = [estate EXCEPT ![r].kind = "link"]
  /\ UNCHANGED <<command, daemonUp>>

DaemonChanges ==
  /\ Meddle
  /\ daemonUp' = ~daemonUp
  /\ UNCHANGED <<command, estate>>

-----------------------------------------------------------------------------
(* Decisions.                                                              *)

\* classifyUninstallCommandFile: a link is judged by what it points to (the
\* model's link matches), and only a regular file may be deleted by consent.
Classify(c) ==
  LET installed == estate["program"].kind = "dir" /\ Plain("program") \in estate["program"].has
  IN CASE c = "absent" -> NoPlan
       [] c \in {"dir", "dangling"} -> [NoPlan EXCEPT !.leave = TRUE]
       [] c \in {"match", "link"} /\ installed -> [NoPlan EXCEPT !.remove = TRUE]
       [] OTHER -> [NoPlan EXCEPT !.leave = TRUE, !.confirm = (c # "link")]

\* applyUnmatchedCommandConsent
WithConsent(plan) ==
  IF plan.confirm /\ removal.consent
  THEN [remove |-> TRUE, confirm |-> FALSE, regularOnly |-> TRUE, leave |-> FALSE]
  ELSE plan

Judge == [is |-> command, ok |-> WithConsent(Classify(command)).remove]

\* inspectUninstallRoots: a root that is a link, or no directory, refuses.
RootsRefused == \E r \in RootKinds : estate[r].kind = "link"

\* checkUninstallFiles: every entry must have a recognised name.
FilesRefused == \E r \in RootKinds : estate[r].kind = "dir" /\ \E p \in estate[r].has : ~AllowedUninstallEntry(r, p)

\* uninstallTargetPhase: data and logs, then the program, then the rest.
UninstallTargetPhase(r) ==
  CASE r \in {"data", "logs"} -> 0 [] r = "program" -> 1 [] OTHER -> 2

StopSilently(result) == removal' = [removal EXCEPT !.at = "done"]

Stop(result) == removal' = [removal EXCEPT !.at = "done", !.result = result]

-----------------------------------------------------------------------------
(* run                                                                     *)

Preview ==
  /\ removal.at = "preview"
  /\ IF RootsRefused THEN Stop("refused")
     ELSE removal' = [removal EXCEPT !.at = "check"]
  /\ UNCHANGED <<command, inside, estate, osService, daemonUp, meddling, judged, scanned>>

\* The first classification only decides which command file the scan may
\* pass over, so the model need not keep it.
CheckFiles ==
  /\ removal.at = "check"
  /\ IF ~removal.force /\ FilesRefused THEN Stop("unrecognised")
     ELSE \E elevated \in BOOLEAN :
            IF elevated THEN removal' = [removal EXCEPT !.at = "classify", !.plan = WithConsent(Classify(command))]
                        ELSE Stop("refused")
  /\ judged' = Judge
  /\ UNCHANGED <<command, inside, estate, osService, daemonUp, meddling, scanned>>

ClassifyOnce ==
  /\ removal.at = "classify"
  /\ removal' = [removal EXCEPT !.at = "command"]
  /\ judged' = Judge
  /\ UNCHANGED <<command, inside, estate, osService, daemonUp, meddling, scanned>>

\* The captured path is classified again after the scan.
Reclassify ==
  /\ removal.at = "classify"
  /\ removal' = [removal EXCEPT !.at = "command", !.plan = WithConsent(Classify(command))]
  /\ judged' = Judge
  /\ UNCHANGED <<command, inside, estate, osService, daemonUp, meddling, scanned>>

Leave(keeps) ==
  /\ removal' = [removal EXCEPT !.at = "service", !.kept = keeps]
  /\ UNCHANGED command

\* removeClassifiedUninstallCommand: os.Remove removes a file or a link. A
\* failure is fatal on Unix; elsewhere the file is left and reported.
RemoveCommand ==
  /\ removal.at = "command"
  /\ IF ~removal.plan.remove THEN Leave(removal.plan.leave)
     ELSE IF removal.plan.regularOnly /\ command \in {"dir", "link", "dangling"}
     THEN Stop("failed") /\ UNCHANGED command
     ELSE \/ /\ command # "dir"
             /\ command' = "absent"
             /\ removal' = [removal EXCEPT !.at = "service"]
          \/ Stop("failed") /\ UNCHANGED command
          \/ Leave(TRUE)
  /\ UNCHANGED <<inside, estate, osService, daemonUp, meddling, judged, scanned>>

Partial == IF removal.kept THEN "partial" ELSE "failed"

\* uninstallService: an unknown status refuses; the service's own uninstall
\* stops it first, and may fail.
UninstallService ==
  /\ removal.at = "service"
  /\ \/ /\ osService = "unknown"
        /\ Stop(Partial) /\ UNCHANGED <<osService, daemonUp>>
     \/ /\ osService = "absent"
        /\ removal' = [removal EXCEPT !.at = "wait"] /\ UNCHANGED <<osService, daemonUp>>
     \/ /\ osService \in {"stopped", "running"}
        /\ \/ /\ osService' = "absent"
              /\ daemonUp' \in {daemonUp, FALSE}
              /\ removal' = [removal EXCEPT !.at = "wait"]
           \/ Stop(Partial) /\ UNCHANGED <<osService, daemonUp>>
  /\ UNCHANGED <<command, inside, estate, meddling, judged, scanned>>

\* One poll of waitForDaemonStop; the time allowed for it may run out.
WaitForDaemonStop ==
  /\ removal.at = "wait"
  /\ \/ osService \in {"stopped", "absent"} /\ ~daemonUp /\ removal' = [removal EXCEPT !.at = "recheck"]
     \/ daemonUp /\ Stop(Partial)
  /\ UNCHANGED <<command, inside, estate, osService, daemonUp, meddling, judged, scanned>>

\* Roots and names are checked again once nothing runs any more.
Recheck ==
  /\ removal.at = "recheck"
  /\ IF RootsRefused \/ (~removal.force /\ FilesRefused) THEN Stop(Partial)
     ELSE removal' = [removal EXCEPT !.at = "clean", !.todo = {r \in RootKinds : estate[r].kind # "absent"}]
  /\ scanned' = {r \in RootKinds : Foreign \in estate[r].has}
  /\ UNCHANGED <<command, inside, estate, osService, daemonUp, meddling, judged>>

Next1 == CHOOSE r \in removal.todo :
           \A o \in removal.todo : UninstallTargetPhase(r) <= UninstallTargetPhase(o)

Retains(r) == removal.kept /\ inside /\ r = "program"

\* cleanUninstallTarget: the root and everything in it, or everything but
\* the retained command. A root that has become a link fails, as may any
\* removal; with a command retained the other roots are cleaned all the same.
Clean ==
  /\ removal.at = "clean" /\ removal.todo # {}
  /\ LET r == Next1
         rest == removal.todo \ {r}
     IN \/ /\ estate[r].kind # "link"
           /\ estate' = [estate EXCEPT ![r] = IF Retains(r) THEN [kind |-> "dir", has |-> {}] ELSE Gone]
           /\ command' = IF r = "program" /\ inside /\ ~Retains(r) THEN "absent" ELSE command
           /\ removal' = [removal EXCEPT !.todo = rest]
        \/ /\ IF removal.kept THEN removal' = [removal EXCEPT !.todo = rest] ELSE Stop("failed")
           /\ UNCHANGED <<estate, command>>
  /\ UNCHANGED <<inside, osService, daemonUp, meddling, judged, scanned>>

Finished ==
  /\ removal.at = "clean" /\ removal.todo = {}
  /\ Stop(IF removal.kept THEN "partial" ELSE "complete")
  /\ UNCHANGED <<command, inside, estate, osService, daemonUp, meddling, judged, scanned>>

UnNext ==
  \/ ReplaceCommand \/ AddForeign \/ LinkRoot \/ DaemonChanges
  \/ Preview \/ CheckFiles \/ Reclassify \/ RemoveCommand \/ UninstallService
  \/ WaitForDaemonStop \/ Recheck \/ Clean \/ Finished

UnSpec == UnInit /\ [][UnNext]_unVars

-----------------------------------------------------------------------------
\* Type correctness, and that a run which ended has said how.
UnTypeOK ==
  /\ command \in {"absent", "dir", "link", "dangling", "match", "other"}
  /\ \A r \in RootKinds : estate[r].kind \in {"absent", "link", "dir"} /\ (estate[r].kind = "absent" => estate[r].has = {})
  /\ osService \in {"absent", "stopped", "running", "unknown"}
  /\ daemonUp \in BOOLEAN /\ inside \in BOOLEAN
  /\ meddling \in 0 .. MaxMeddling
  /\ (removal.at = "done") = (removal.result # "none")

\* A command file that is still what it was when last compared with the
\* installed program is only deleted if it matched then, or the user agreed;
\* in particular not along with a directory that holds it.
CommandKept ==
  (removal' # removal /\ command # "absent" /\ command' = "absent" /\ command = judged.is) => judged.ok

\* Without force, no directory is removed in which an unknown entry was there
\* when the service had stopped, however late it had appeared.
ForeignKept == ~removal.force => \A r \in scanned : estate'[r] # Gone

\* Nothing is deleted under a daemon: one that answers after the first
\* removal was started by someone else meanwhile.
QuietRoots == (\E r \in RootKinds : estate[r] = Gone) => (~daemonUp \/ meddling > 0)

\* An uninstall that failed can be run again: the program is not gone while
\* data is left.
ProgramLast ==
  (removal.result = "failed" /\ estate["data"].kind = "dir") => estate["program"].kind # "absent"

\* Success is reported only if nothing of the installation is left.
CompleteIsComplete ==
  removal.result = "complete" =>
    /\ \A r \in RootKinds : estate[r] = Gone
    /\ osService \in {"absent", "stopped"}
    /\ command # "absent" => meddling > 0

\* The design derives the list of recognised names from the code that writes
\* the files: a run refuses no directory that only Mihari has written to.
GeneratedRecognised ==
  removal.result = "unrecognised" => \E r \in RootKinds : Foreign \in estate[r].has

\* Everything above that a reachable state promises.
UnSafe ==
  /\ UnTypeOK /\ GeneratedRecognised /\ QuietRoots /\ ProgramLast /\ CompleteIsComplete

\* Everything above that a step promises.
UnStepOK ==
  /\ CommandKept /\ ForeignKept
=============================================================================
