----------------------------- MODULE Migration -----------------------------
(***************************************************************************)
(* Importing the data of an older installation (internal/app,              *)
(* install_migration*.go, install_bootstrap_source.go and the data half of *)
(* the native installer). The source is read while its daemon still runs:  *)
(* every file is observed, copied into a private stage and observed again; *)
(* the copy is validated and completed; the old service is stopped; the    *)
(* source is compared once more with the observations; and the staged      *)
(* objects are moved into the data root, each under a journal intent, so   *)
(* that a crash can be undone object by object.                            *)
(*                                                                         *)
(* A file is its kind and a version: a rewrite gives it a new version,     *)
(* which stands for its content, identity, size and times together.        *)
(***************************************************************************)
EXTENDS Naturals, FiniteSets

CONSTANTS
  SourceFiles,  \* the kinds of file the source may hold
  MaxWrites,    \* bound on rewrites of the source
  MaxCrashes,   \* bound on crashes of the installer
  NParts        \* top-level objects of the stage, moved one by one

ASSUME MigrationAssumption == MaxWrites \in Nat /\ MaxCrashes \in Nat /\ NParts \in Nat \ {0}

VARIABLES
  source,    \* version of every file, 0 when it does not exist
  updating,  \* the source holds the journal of an unfinished core update
  service,   \* the old daemon: "running" or "stopped"
  writes,    \* rewrites so far
  copy,      \* preparedMigration: where it is and what it has seen
  staged,    \* the private stage: version of every file copied, 0 when none
  rekeyed,   \* the staged settings carry a new controller secret
  parts,     \* where every top-level object is: "stage", "data", "isolated"
  intents, dones,  \* journal: publications announced and completed
  touched,   \* a published object was changed by someone else
  crashes,
  atCheck    \* history: the source when the last comparison with it began

mgVars == <<source, updating, service, writes, copy, staged, rekeyed, parts, intents, dones,
            touched, crashes, atCheck>>
scene == <<source, updating, service, writes>>
target == <<parts, intents, dones, touched, crashes>>

Unseen == [stat |-> 0, hash |-> 0]
NoFile == "none"

-----------------------------------------------------------------------------
(* What becomes of each kind of file, directory by directory. A file is    *)
(* copied, observed only, ignored, or makes the source unsupported.        *)

CopyTop == {"settings", "onboarding"}
CopySubscriptions == {"catalog", "cache"}
CopyRuntime == {"config"}
CopyProviders == {"provider"}
CopyPreferences == {"prefs"}
CopyBin == {"core", "core-channel", "provenance"}
CopyGeoIP == {"geoip"}
CopyWeb == {"credential", "active"}
ObserveTop == {"token", "channel"}
MigrationIgnoreTop == {"logs"}

Directories == {CopyTop \cap {"settings"}, CopyTop \cap {"onboarding"}, CopySubscriptions,
                CopyRuntime \cup CopyProviders, CopyPreferences, CopyBin, CopyGeoIP, CopyWeb,
                ObserveTop \cap {"token"}, ObserveTop \cap {"channel"}}
Supported == UNION Directories
ObserveOnly == ObserveTop \cup {"config", "provenance", "credential"}

\* The versions of databases and panels that the installer's trust list names.
Trusted(f, v) == f \in {"geoip", "active"} => v = 1

Present == {f \in SourceFiles : source[f] > 0}
Bootstrap == Present # {} /\ Present \subseteq {"channel"}

MgInit ==
  /\ source \in [SourceFiles -> 0 .. 1]
  /\ updating = FALSE /\ service = "running" /\ writes = 0
  /\ copy = [at |-> "start", boot |-> FALSE, dirs |-> {}, files |-> {}, cur |-> NoFile,
             obs |-> [f \in SourceFiles |-> Unseen]]
  /\ staged = [f \in SourceFiles |-> 0]
  /\ rekeyed = FALSE
  /\ parts = [p \in 1 .. NParts |-> "stage"]
  /\ intents = 0 /\ dones = 0 /\ touched = {} /\ crashes = 0
  /\ atCheck = source

-----------------------------------------------------------------------------
(* The source's own writers. The daemon writes any of its files until it   *)
(* is stopped; an old interface may save its preferences at any time.      *)

Rewrite ==
  /\ writes < MaxWrites
  /\ \E f \in SourceFiles :
       /\ service = "running" \/ f = "prefs"
       /\ source' = [source EXCEPT ![f] = @ + 1]
  /\ writes' = writes + 1
  /\ UNCHANGED <<updating, service, copy, staged, rekeyed, target, atCheck>>

\* A core update of the old daemon leaves its journal while it is uncertain.
UpdateCore ==
  /\ service = "running" /\ writes < MaxWrites /\ "core" \in SourceFiles
  /\ writes' = writes + 1
  /\ updating' = ~updating
  /\ source' = [source EXCEPT !["core"] = IF updating THEN @ + 1 ELSE @]
  /\ UNCHANGED <<service, copy, staged, rekeyed, target, atCheck>>

-----------------------------------------------------------------------------
(* prepareMigration                                                        *)

Cleanup ==
  /\ copy' = [copy EXCEPT !.at = "failed", !.cur = NoFile, !.files = {}, !.dirs = {}]
  /\ staged' = [f \in SourceFiles |-> 0]
  /\ rekeyed' = FALSE
  /\ UNCHANGED <<scene, target, atCheck>>

Preparing == copy.at \in {"start", "copy", "validate", "bundle"}

CleanupKeepsStage ==
  /\ Preparing
  /\ copy' = [copy EXCEPT !.at = "failed", !.cur = NoFile, !.files = {}, !.dirs = {}]
  /\ UNCHANGED <<scene, staged, rekeyed, target, atCheck>>

\* Any step of the preparation may fail: an object of an unsafe kind, a file
\* or size limit, an I/O error, cancellation.
PrepareFails == Preparing /\ Cleanup

Listed == {d \in Directories : d \cap Present # {}}

List ==
  /\ copy.at = "start"
  /\ IF Present \ (Supported \cup MigrationIgnoreTop) # {} \/ Present = {} THEN Cleanup
     ELSE /\ copy' = [copy EXCEPT !.at = "copy", !.boot = Bootstrap,
                        !.dirs = IF Bootstrap THEN {} ELSE Listed,
                        !.obs = [f \in SourceFiles |->
                                  IF Bootstrap /\ f \in Present
                                  THEN [stat |-> source[f], hash |-> source[f]] ELSE @[f]]]
          /\ UNCHANGED <<scene, staged, rekeyed, target, atCheck>>

ListDirectory ==
  /\ copy.at = "copy" /\ copy.cur = NoFile /\ copy.files = {}
  /\ \E d \in copy.dirs :
       copy' = [copy EXCEPT !.dirs = @ \ {d}, !.files = d \cap Present]
  /\ UNCHANGED <<scene, staged, rekeyed, target, atCheck>>

\* A read of the source fails when the file changes underneath it, so what it
\* returns is one version of the file.
ReadSource(f) == source[f]

\* The first half of copyObserved.
Stat ==
  /\ copy.at = "copy" /\ copy.cur = NoFile
  /\ \E f \in copy.files :
       copy' = [copy EXCEPT !.files = @ \ {f}, !.cur = f, !.obs[f].stat = ReadSource(f)]
  /\ UNCHANGED <<scene, staged, rekeyed, target, atCheck>>

\* The second half: the bytes, with their own hash. A kind that is only
\* observed is not read again; a database or panel must be a trusted one.
CopyObserved ==
  /\ copy.at = "copy" /\ copy.cur # NoFile
  /\ LET f == copy.cur IN
     IF ~Trusted(f, source[f]) THEN Cleanup
     ELSE /\ copy' = [copy EXCEPT !.cur = NoFile,
                        !.obs[f].hash = IF f \in ObserveOnly THEN copy.obs[f].stat ELSE ReadSource(f)]
          /\ staged' = [staged EXCEPT ![f] = IF f \in ObserveOnly THEN 0 ELSE ReadSource(f)]
          /\ UNCHANGED <<scene, rekeyed, target, atCheck>>

Seen == {f \in SourceFiles : copy.obs[f] # Unseen}
Copied == Seen \ ObserveOnly

CopyDone ==
  /\ copy.at = "copy" /\ copy.cur = NoFile /\ copy.files = {} /\ copy.dirs = {}
  /\ copy' = [copy EXCEPT !.at = "verifySource"]
  /\ UNCHANGED <<scene, staged, rekeyed, target, atCheck>>

-----------------------------------------------------------------------------
(* verifySource, once at the end of the preparation and once after the old *)
(* service has stopped.                                                    *)

Again == service = "stopped"

\* A conflict found by the preparation removes the stage; one found after
\* the stop is the transaction's to undo.
Conflict ==
  IF Again THEN /\ copy' = [copy EXCEPT !.at = "undo", !.files = {}]
                /\ UNCHANGED <<scene, staged, rekeyed, target, atCheck>>
           ELSE Cleanup

Compare ==
  /\ atCheck' = source
  /\ copy' = [copy EXCEPT !.at = "verify", !.files = Seen]
  /\ UNCHANGED <<scene, staged, rekeyed, target>>

\* An unfinished core update of the source blocks the migration.
VerifySource == copy.at = "verifySource" /\ (IF updating THEN Conflict ELSE Compare)

\* One observed file: its hash is compared with the bytes copied, its
\* identity, size and times with what was seen before they were copied.
VerifyStationary ==
  /\ copy.at = "verify"
  /\ \E f \in copy.files :
       IF {source[f]} # {copy.obs[f].stat, copy.obs[f].hash} THEN Conflict
       ELSE /\ copy' = [copy EXCEPT !.files = @ \ {f}]
            /\ UNCHANGED <<scene, staged, rekeyed, target, atCheck>>

\* The top level is listed again for names that are not supported; a source
\* without business data must hold exactly what it held.
Relist ==
  /\ copy.at = "verify" /\ copy.files = {}
  /\ IF \/ Present \ (Supported \cup MigrationIgnoreTop) # {}
        \/ copy.boot /\ Present # Seen
     THEN Conflict
     ELSE /\ copy' = [copy EXCEPT !.at = IF Again THEN "publish" ELSE "validate"]
          /\ UNCHANGED <<scene, staged, rekeyed, target, atCheck>>

-----------------------------------------------------------------------------
(* The staged copy is validated and completed, then the transaction stops  *)
(* the old service.                                                        *)

\* Settings and catalogue must be there, the active profile must have its
\* cached document; the settings get a new secret and the configuration is
\* generated from them.
ValidateStagedBusiness ==
  /\ copy.at = "validate"
  /\ IF ~copy.boot /\ \E f \in {"settings", "catalog", "cache"} \cap SourceFiles : staged[f] = 0
     THEN Cleanup
     ELSE /\ copy' = [copy EXCEPT !.at = "bundle"]
          /\ rekeyed' = ~copy.boot
          /\ UNCHANGED <<scene, staged, target, atCheck>>

\* prepareData: a core of the source is kept over the one of the release.
PrepareData ==
  /\ copy.at = "bundle"
  /\ copy' = [copy EXCEPT !.at = "prepared"]
  /\ UNCHANGED <<scene, staged, rekeyed, target, atCheck>>

StopSource ==
  /\ copy.at = "prepared"
  /\ service' = "stopped"
  /\ copy' = [copy EXCEPT !.at = "verifySource"]
  /\ UNCHANGED <<source, updating, writes, staged, rekeyed, target, atCheck>>

-----------------------------------------------------------------------------
(* PublishDataLocked: every object of the stage is moved under an intent.  *)

PartAt(p) == IF p \in touched THEN "unknown" ELSE parts[p]

PublishIntent ==
  /\ copy.at = "publish" /\ intents = dones /\ intents < NParts
  /\ intents' = intents + 1
  /\ UNCHANGED <<scene, copy, staged, rekeyed, parts, dones, touched, crashes, atCheck>>

ApplyDataPart ==
  /\ copy.at = "publish" /\ dones < intents /\ parts[intents] = "stage"
  /\ parts' = [parts EXCEPT ![intents] = "data"]
  /\ UNCHANGED <<scene, copy, staged, rekeyed, intents, dones, touched, crashes, atCheck>>

PublishDone ==
  /\ copy.at = "publish" /\ dones < intents /\ parts[intents] = "data"
  /\ dones' = intents
  /\ UNCHANGED <<scene, copy, staged, rekeyed, parts, intents, touched, crashes, atCheck>>

\* The journal's authority passes to the target once all are published; the
\* transaction may also fail before that.
Commit ==
  /\ copy.at = "publish" /\ dones = NParts
  /\ copy' = [copy EXCEPT !.at = "complete"]
  /\ UNCHANGED <<scene, staged, rekeyed, target, atCheck>>

PublishFails ==
  /\ copy.at = "publish"
  /\ copy' = [copy EXCEPT !.at = "undo"]
  /\ UNCHANGED <<scene, staged, rekeyed, target, atCheck>>

Crash ==
  /\ copy.at \in {"publish", "undo"} /\ crashes < MaxCrashes
  /\ crashes' = crashes + 1
  /\ copy' = [copy EXCEPT !.at = "crashed"]
  /\ UNCHANGED <<scene, staged, rekeyed, parts, intents, dones, touched, atCheck>>

Recovery ==
  /\ copy.at = "crashed"
  /\ copy' = [copy EXCEPT !.at = "undo"]
  /\ UNCHANGED <<scene, staged, rekeyed, target, atCheck>>

\* Someone changes a published object while no installer runs.
TouchPart ==
  /\ copy.at = "crashed"
  /\ \E p \in {q \in 1 .. NParts : parts[q] = "data"} : touched' = touched \cup {p}
  /\ UNCHANGED <<scene, copy, staged, rekeyed, parts, intents, dones, crashes, atCheck>>

Undone == copy.at = "undo" /\ \A p \in 1 .. intents : parts[p] # "data"

UndoPartBlindly ==
  /\ copy.at = "undo" /\ ~Undone
  /\ LET p == CHOOSE q \in 1 .. intents : parts[q] = "data" /\ \A r \in q + 1 .. intents : parts[r] # "data"
     IN parts' = [parts EXCEPT ![p] = "isolated"]
  /\ UNCHANGED <<scene, copy, staged, rekeyed, intents, dones, touched, crashes, atCheck>>

\* Rollback goes from the last intent to the first, whether or not it was
\* recorded as done; an object that is not what was published stops it.
UndoPart ==
  /\ copy.at = "undo" /\ ~Undone
  /\ LET p == CHOOSE q \in 1 .. intents : parts[q] = "data" /\ \A r \in q + 1 .. intents : parts[r] # "data"
     IN IF PartAt(p) = "unknown"
        THEN copy' = [copy EXCEPT !.at = "unknown"] /\ UNCHANGED target
        ELSE /\ parts' = [parts EXCEPT ![p] = "isolated"]
             /\ UNCHANGED <<copy, intents, dones, touched, crashes>>
  /\ UNCHANGED <<scene, staged, rekeyed, atCheck>>

\* The old service runs again once nothing of the target is left.
RestoreService ==
  /\ Undone
  /\ service' = "running"
  /\ copy' = [copy EXCEPT !.at = "restored"]
  /\ UNCHANGED <<source, updating, writes, staged, rekeyed, target, atCheck>>

MgNext ==
  \/ Rewrite \/ UpdateCore
  \/ PrepareFails \/ List \/ ListDirectory \/ Stat \/ CopyObserved \/ CopyDone
  \/ VerifySource \/ VerifyStationary \/ Relist
  \/ ValidateStagedBusiness \/ PrepareData \/ StopSource
  \/ PublishIntent \/ ApplyDataPart \/ PublishDone \/ Commit \/ PublishFails
  \/ Crash \/ Recovery \/ TouchPart \/ UndoPart \/ RestoreService

MgSpec == MgInit /\ [][MgNext]_mgVars

-----------------------------------------------------------------------------
Publishing == copy.at \in {"publish", "complete"}

\* Type correctness, with the stage's discipline: a preparation that failed
\* has removed its private copy, and files that are only observed (tokens,
\* credentials, the generated configuration) are never in it.
MgTypeOK ==
  /\ source \in [SourceFiles -> Nat] /\ staged \in [SourceFiles -> Nat]
  /\ updating \in BOOLEAN /\ rekeyed \in BOOLEAN
  /\ service \in {"running", "stopped"}
  /\ writes \in 0 .. MaxWrites /\ crashes \in 0 .. MaxCrashes
  /\ dones <= intents /\ intents <= NParts
  /\ parts \in [1 .. NParts -> {"stage", "data", "isolated"}]
  /\ copy.at = "failed" => staged = [f \in SourceFiles |-> 0]
  /\ \A f \in SourceFiles \cap ObserveOnly : staged[f] = 0

\* What is published is the source as it was at one moment, after the old
\* service had stopped: every file copied has the version it had when the
\* last comparison began, whatever was written while the files were copied
\* and compared one by one.
OneMoment ==
  Publishing => /\ service = "stopped"
                /\ \A f \in Copied : staged[f] = atCheck[f]
                /\ \A f \in Seen : copy.obs[f].hash = atCheck[f]

\* A core whose update was never confirmed is not imported: the journal that
\* keeps the old installation from running it stays behind with it.
CertainCore == Publishing => ~updating

\* The new installation never shares the old one's controller secret, and it
\* has the documents its configuration was generated from.
OwnSecret ==
  (Publishing /\ ~copy.boot) =>
     /\ rekeyed
     /\ \A f \in {"settings", "catalog", "cache"} \cap SourceFiles : staged[f] > 0

\* The old daemon runs beside no published object: the import is complete or
\* undone to the last intent, crashes included.
AllOrNothing ==
  /\ service = "running" => \A p \in 1 .. NParts : parts[p] # "data"
  /\ copy.at = "complete" => \A p \in 1 .. NParts : parts[p] = "data"

\* A published object that somebody changed afterwards is never moved away.
TouchedStays == \A p \in touched : parts'[p] = parts[p]

\* The design says that the business files are listed again before the copy
\* is accepted: a file the source has gained meanwhile is noticed.
NothingMissed == Publishing => \A f \in (SourceFiles \cap Supported) : atCheck[f] > 0 => f \in Seen

\* Everything above that a reachable state promises.
MgSafe ==
  /\ MgTypeOK /\ OneMoment /\ CertainCore /\ OwnSecret /\ AllOrNothing

\* Everything above that a step promises.
MgStepOK ==
  /\ TouchedStays
=============================================================================
