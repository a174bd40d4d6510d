------------------------------- MODULE GeoIP -------------------------------
(***************************************************************************)
(* The Country and ASN databases of internal/geoip: prepared outside the   *)
(* Manager's token, committed as a pair under it by renames that keep the  *)
(* replaced file as ".previous", rolled back when a step fails, and        *)
(* refetched by the scheduler when one of them is missing or old.          *)
(* A version is the number of the preparation that downloaded it.          *)
(***************************************************************************)
EXTENDS Integers, FiniteSets

CONSTANTS
  Updaters,       \* goroutines that update: the scheduler and clients
  MaxVersion,     \* bound: preparations
  MaxGeoFaults,   \* bound: failing file operations
  MaxGeoCrashes   \* bound: crashes of the daemon

VARIABLES
  dest, prev,     \* the database files and what is retained beside them
  reader,         \* Service.country and Service.asn: the version open, or None
  geoGen,         \* Service.generation
  upd,            \* where each updater stands
  geoToken,       \* who commits (Manager.maintenance)
  prepared,       \* preparations so far
  geoFaults, geoCrashes,
  opened,         \* history: the version of the pair opened last
  spoiled         \* history: a compensation or a close failed, or a crash tore the pair

geoVars == <<dest, prev, reader, geoGen, upd, geoToken, prepared, geoFaults, geoCrashes, opened, spoiled>>

Databases == {"country", "asn"}
NoFile == 0
Nobody2 == "nobody"
AtRest == [at |-> "rest", version |-> 0, base |-> 0, db |-> "country", had |-> FALSE]

GeoInit ==
  /\ dest = [d \in Databases |-> NoFile] /\ prev = dest /\ reader = dest
  /\ geoGen = 0
  /\ upd = [u \in Updaters |-> AtRest]
  /\ geoToken = Nobody2
  /\ prepared = 0 /\ opened = 0 /\ geoFaults = 0 /\ geoCrashes = 0
  /\ spoiled = FALSE

MayFail == geoFaults < MaxGeoFaults /\ geoFaults' = geoFaults + 1
UpdTo(u, p) == upd' = [upd EXCEPT ![u].at = p]
GeoEnd(u) == upd' = [upd EXCEPT ![u] = AtRest] /\ geoToken' = IF geoToken = u THEN Nobody2 ELSE geoToken
\* reopenLocked: each reader follows its file.
Reopen == reader' = dest'

\* PrepareUpdate: the generation is captured, both files are downloaded and
\* checked against their digests; a failed download leaves nothing behind.
PrepareUpdate(u) ==
  /\ upd[u].at = "rest" /\ prepared < MaxVersion
  /\ prepared' = prepared + 1
  /\ upd' = [upd EXCEPT ![u] = [AtRest EXCEPT !.at = "token", !.version = prepared + 1, !.base = geoGen]]
  /\ UNCHANGED <<dest, prev, reader, geoGen, geoToken, geoFaults, geoCrashes, spoiled, opened>>

PrepareUpdateFails(u) ==
  /\ upd[u].at = "rest" /\ prepared < MaxVersion /\ MayFail
  /\ prepared' = prepared + 1
  /\ UNCHANGED <<dest, prev, reader, geoGen, upd, geoToken, geoCrashes, spoiled, opened>>

\* Mutant: the generation captured by PrepareUpdate is not compared.
CommitStalePair(u) ==
  /\ upd[u].at = "token" /\ geoToken = Nobody2
  /\ UpdTo(u, "retain") /\ geoToken' = u
  /\ reader' = [d \in Databases |-> NoFile]
  /\ UNCHANGED <<dest, prev, geoGen, prepared, geoFaults, geoCrashes, spoiled, opened>>

\* PreparedUpdate.Commit: a pair committed since the preparation makes the
\* candidate stale; otherwise both readers are closed first.
CommitPair(u) ==
  /\ upd[u].at = "token" /\ geoToken = Nobody2
  /\ \/ upd[u].base # geoGen /\ GeoEnd(u) /\ UNCHANGED <<reader, geoFaults, spoiled>>
     \/ /\ upd[u].base = geoGen
        /\ UpdTo(u, "retain") /\ geoToken' = u
        /\ reader' = [d \in Databases |-> NoFile]
        /\ UNCHANGED <<geoFaults, spoiled>>
     \/ /\ upd[u].base = geoGen /\ reader # [d \in Databases |-> NoFile] /\ MayFail
        /\ reader' = [d \in Databases |-> NoFile]
        /\ GeoEnd(u) /\ spoiled' = TRUE
  /\ UNCHANGED <<dest, prev, geoGen, prepared, geoCrashes, opened>>

\* FileCandidate.Commit, first half: the old ".previous" is removed and the
\* database is renamed to it.
Retain(u) ==
  LET d == upd[u].db IN
  /\ upd[u].at = "retain"
  /\ \/ /\ prev' = [prev EXCEPT ![d] = dest[d]] /\ dest' = [dest EXCEPT ![d] = NoFile]
        /\ upd' = [upd EXCEPT ![u].at = "activate", ![u].had = dest[d] # NoFile]
        /\ UNCHANGED geoFaults
     \/ MayFail /\ UpdTo(u, "undo") /\ UNCHANGED <<dest, prev>>
  /\ UNCHANGED <<reader, geoGen, geoToken, prepared, geoCrashes, spoiled, opened>>

\* Second half: the candidate takes the name and the directory is synced. Where
\* the rename or the sync fails, the retained file gets its name back.
Activate(u) ==
  LET d == upd[u].db IN
  /\ upd[u].at = "activate"
  /\ \/ /\ dest' = [dest EXCEPT ![d] = upd[u].version]
        /\ upd' = [upd EXCEPT ![u].at = IF d = "country" THEN "retain" ELSE "open", ![u].db = "asn"]
        /\ UNCHANGED <<prev, geoFaults, spoiled>>
     \/ /\ MayFail
        /\ dest' = [dest EXCEPT ![d] = prev[d]] /\ prev' = [prev EXCEPT ![d] = NoFile]
        /\ UpdTo(u, "undo") /\ UNCHANGED spoiled
     \/ /\ geoFaults + 2 <= MaxGeoFaults /\ geoFaults' = geoFaults + 2
        /\ UpdTo(u, "undo") /\ spoiled' = TRUE /\ UNCHANGED <<dest, prev>>
  /\ UNCHANGED <<reader, geoGen, geoToken, prepared, geoCrashes, opened>>

\* Mutant: the new pair is activated and the token kept.
OpenPairLocked(u) ==
  /\ upd[u].at = "open"
  /\ reader' = dest /\ geoGen' = geoGen + 1 /\ opened' = upd[u].version
  /\ upd' = [upd EXCEPT ![u] = AtRest]
  /\ UNCHANGED <<dest, prev, geoToken, prepared, geoFaults, geoCrashes, spoiled>>

\* Both files open and verify: they become the pair.
OpenPair(u) ==
  /\ upd[u].at = "open"
  /\ reader' = dest /\ geoGen' = geoGen + 1 /\ opened' = upd[u].version
  /\ GeoEnd(u)
  /\ UNCHANGED <<dest, prev, prepared, geoFaults, geoCrashes, spoiled>>

OpenFails(u) ==
  /\ upd[u].at = "open" /\ MayFail
  /\ upd' = [upd EXCEPT ![u].at = "undo", ![u].db = "both"]
  /\ UNCHANGED <<dest, prev, reader, geoGen, geoToken, prepared, geoCrashes, spoiled, opened>>

\* Rollback of the files committed so far (asn, then country), then the readers
\* are reopened on whatever the files are.
UndoPair(u) ==
  LET done == CASE upd[u].db = "both" -> Databases [] upd[u].db = "asn" -> {"country"} [] OTHER -> {}
  IN
  /\ upd[u].at = "undo"
  /\ \/ /\ dest' = [d \in Databases |-> IF d \in done THEN prev[d] ELSE dest[d]]
        /\ prev' = [d \in Databases |-> IF d \in done THEN NoFile ELSE prev[d]]
        /\ UNCHANGED <<geoFaults, spoiled>>
     \/ /\ \E d \in done : dest' = [dest EXCEPT ![d] = NoFile]
        /\ MayFail /\ spoiled' = TRUE /\ UNCHANGED prev
  /\ Reopen /\ GeoEnd(u)
  /\ UNCHANGED <<geoGen, prepared, geoCrashes, opened>>

\* The daemon dies; the next one opens what it finds (geoip.New).
GeoCrash ==
  /\ geoCrashes < MaxGeoCrashes /\ geoCrashes' = geoCrashes + 1
  /\ reader' = dest /\ geoGen' = 0
  /\ upd' = [u \in Updaters |-> AtRest] /\ geoToken' = Nobody2
  /\ spoiled' = (spoiled \/ geoToken # Nobody2)
  /\ UNCHANGED <<dest, prev, prepared, geoFaults, opened>>

GeoStep(u) == \/ CommitPair(u) \/ Retain(u) \/ Activate(u) \/ OpenPair(u) \/ OpenFails(u) \/ UndoPair(u)

GeoNext ==
  \/ \E u \in Updaters : PrepareUpdate(u) \/ PrepareUpdateFails(u) \/ GeoStep(u)
  \/ GeoCrash

GeoSpec == GeoInit /\ [][GeoNext]_geoVars
-----------------------------------------------------------------------------
GeoTypeOK ==
  /\ \A f \in {dest, prev, reader} : f \in [Databases -> 0..MaxVersion]
  /\ geoGen \in Nat /\ prepared \in 0..MaxVersion
  /\ geoToken # Nobody2 => upd[geoToken].at \in {"retain", "activate", "open", "undo"}
  /\ geoToken \in Updaters \cup {Nobody2} /\ spoiled \in BOOLEAN

\* Lookups never mix two updates: outside a commit both readers are open on the
\* files of the pair opened last, whatever step of a later commit failed, unless
\* its compensation failed too or a crash tore the renames apart
\* (PreparedUpdate.Commit).
GeoPaired ==
  geoToken = Nobody2 /\ ~spoiled =>
    \A d \in Databases : reader[d] = opened /\ dest[d] = opened

\* A pair whose download began earlier never replaces a newer one, however the
\* scheduler and clients overlap (baseGeneration).
GeoNoRegress == opened' >= opened

\* Everything above that a reachable state promises.
GeoSafe ==
  /\ GeoTypeOK /\ GeoPaired

\* Everything above that a step promises.
GeoStepOK ==
  /\ GeoNoRegress
=============================================================================
