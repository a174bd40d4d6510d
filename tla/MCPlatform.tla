------------------------------ MODULE MCPlatform ------------------------------
(***************************************************************************)
(* The core's files and the operating-system layer, checked side by side:  *)
(* a behaviour takes one part, whose module is the specification, and the  *)
(* others rest.                                                            *)
(***************************************************************************)
EXTENDS WindowsControl, WindowsJob, CorePair, TrustedConfig, CoreFetch, SystemdUnit,
        ProviderRecovery, TLC

CONSTANT Parts      \* the parts a run explores

\* One thread verifies and kills, the other one asks and closes.
MCDoes == [t \in Threads |-> IF t = "t1" THEN {"verify", "terminate", "exited", "term"}
                                         ELSE {"active", "job", "process", "term"}]

MCPairCasts == {[old |-> "none", new |-> "new"], [old |-> "old", new |-> "new"]}

MCAsset(i, score, digest, bytes) ==
  [id |-> i, score |-> score, size |-> 2, digest |-> digest, uploaded |-> TRUE, bytes |-> bytes, at |-> 1]
MCScored == {MCAsset(i, <<-1, 5, 10>>[i], "none", "good") : i \in 1..3}

\* With and without a digest, of another version, not a single executable, and two equally good.
MCFetchCasts ==
  {[kind |-> k, windows |-> w, assets |-> a] :
     k \in {"file", "protected", "plain", "pinned"}, w \in {TRUE},
     a \in {<<MCAsset(1, 5, "good", "good"), MCAsset(2, -1, "none", "good")>>, <<MCAsset(1, 10, "none", "good")>>,
            <<MCAsset(1, 10, "odd", "odd")>>, <<MCAsset(1, 10, "two", "two")>>,
            <<MCAsset(1, 10, "good", "good"), MCAsset(2, 10, "good", "good")>>}}

MCLine(k, x) == [key |-> k, v |-> x]

\* Units found installed: the daemon's, and ones that are not, or not only, the daemon's.
MCUnitTexts ==
  {<<MCLine("section", "Unit"), MCLine("section", "Service"), MCLine("ExecStart", "daemon --system")>>,
   <<MCLine("section", "Install"), MCLine("ExecStart", "daemon"), MCLine("section", "Service"), MCLine("Environment", "plain")>>,
   <<MCLine("section", "Service"), MCLine("ExecStart", "daemon"), MCLine("ExecOther", "stop")>>,
   <<MCLine("section", "Service"), MCLine("ExecStart", "shell"), MCLine("EnvironmentFile", "optional missing")>>}
MCDropTexts == {<<>>, <<MCLine("section", "Service"), MCLine("Environment", "plain")>>,
                <<MCLine("section", "Service"), MCLine("ExecStart", "daemon")>>}

VARIABLE part

vars == <<part, wcVars, wjVars, pairVars, configVars, fetchVars, unitVars, rvVars>>

\* A part that rests starts in one state only.
Init ==
  /\ part \in Parts
  /\ WcInit
  /\ WjInit
  /\ PairInit /\ (part # "corepair" => cast = CHOOSE c \in PairCasts : TRUE)
  /\ ConfigInit /\ (part # "trustedconfig" => coreThere /\ config = "none")
  /\ FetchInit /\ (part # "corefetch" => \E c \in {CHOOSE x \in FetchCasts : TRUE} : world = c.assets /\ way = [kind |-> c.kind, windows |-> c.windows])
  /\ UnitInit /\ (part # "unit" => unitDisk.unit = "none" /\ text.unit = CHOOSE t \in UnitTexts : TRUE)
  /\ RvInit /\ (part # "providers" => left = NothingLeft)

WcPart ==
  /\ part = "control" /\ WcNext
  /\ UNCHANGED <<part, wjVars, pairVars, configVars, fetchVars, unitVars, rvVars>>

WjPart ==
  /\ part = "job" /\ WjNext
  /\ UNCHANGED <<part, wcVars, pairVars, configVars, fetchVars, unitVars, rvVars>>

PairPart ==
  /\ part = "corepair" /\ PairNext
  /\ UNCHANGED <<part, wcVars, wjVars, configVars, fetchVars, unitVars, rvVars>>

ConfigPart ==
  /\ part = "trustedconfig" /\ ConfigNext
  /\ UNCHANGED <<part, wcVars, wjVars, pairVars, fetchVars, unitVars, rvVars>>

FetchPart ==
  /\ part = "corefetch" /\ FetchNext
  /\ UNCHANGED <<part, wcVars, wjVars, pairVars, configVars, unitVars, rvVars>>

UnitPart ==
  /\ part = "unit" /\ UnitNext
  /\ UNCHANGED <<part, wcVars, wjVars, pairVars, configVars, fetchVars, rvVars>>

RvPart ==
  /\ part = "providers" /\ RvNext
  /\ UNCHANGED <<part, wcVars, wjVars, pairVars, configVars, fetchVars, unitVars>>

Next == WcPart \/ WjPart \/ PairPart \/ ConfigPart \/ FetchPart \/ UnitPart \/ RvPart

-----------------------------------------------------------------------------
\* One boot identifier per boot, and native calls only on handles that are open.
PlatformSafe ==
  /\ part = "control" => WcSafe
  /\ part = "job" => WjSafe

\* The core's files: an interrupted activation is settled completely and nothing of it is
\* lost, binary and receipt belong together, what runs was checked and published whole,
\* the right release is fetched, and nothing staged is left or handed on unchecked.
CoreFilesSafe ==
  /\ part = "corepair" => PairSafe
  /\ part = "trustedconfig" => ConfigSafe
  /\ part = "corefetch" => FetchSafe
  /\ part = "providers" => RvSafe

\* The systemd unit: only the daemon's own is touched, its processes are gone before
\* files are replaced, a verified mask holds, and a rollback restores what was saved.
UnitManaged ==
  /\ part = "unit" => UnitSafe

\* A step replaces the record it named, initialises once and keeps what it called durable
\* and what others wrote; closing waits for users, killing takes one tree, and an empty
\* Job means its tree is gone.
PlatformSteps ==
  [][/\ part = "control" => WcStepOK
     /\ part = "job" => WjStepOK
     /\ part = "corepair" => PairStepOK
     /\ part = "trustedconfig" => ConfigStepOK
     /\ part = "unit" => UnitStepOK
     /\ part = "providers" => RvStepOK]_vars
=============================================================================
