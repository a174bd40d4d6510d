------------------------------ MODULE CoreFetch ------------------------------
(***************************************************************************)
(* Fetching a core (core/install.go, release*.go, protected_prepare.go,    *)
(* prepare_files.go, migration.go): one release and one asset are chosen,  *)
(* the asset is downloaded between two looks at its description, unpacked, *)
(* staged, asked for its version and given the configuration to check. The *)
(* publisher replaces assets meanwhile, downloads are torn, and another    *)
(* program changes the staged file.                                        *)
(***************************************************************************)
EXTENDS Integers, Sequences, FiniteSets

CONSTANTS FetchCasts,      \* initial worlds: [kind, windows, assets]
          Scored,          \* assets whose selection is compared with its reference definition
          MaxList,         \* the longest list of them
          MaxFetchFaults   \* bound on failing calls and on what others do

VARIABLES world,       \* the publisher: [assets: sequence of assets]
          way,         \* [kind: "file", "protected", "plain" or "pinned"; windows]
          ft,          \* the preparation
          slot,        \* the staged candidate: the bytes there, or "none"
          token,       \* the transaction's marker is there
          fetchFaults

fetchVars == <<world, way, ft, slot, token, fetchFaults>>

AssetsOf(s) == {s[i] : i \in DOMAIN s}

\* An asset: id, score of its name (below 0: not this platform), size, digest ("none" when not
\* given), state, the bytes it serves and when it was last changed.
NoAsset == [id |-> 0, score |-> -1, size |-> 0, digest |-> "none", uploaded |-> FALSE, bytes |-> "none", at |-> 0]
Missing == [NoAsset EXCEPT !.id = -1]

\* What is in an archive: the version its executable reports, "none" when there is no single one.
Holds(bytes) == CASE bytes \in {"good", "renewed", "foreign"} -> "tag" [] bytes = "odd" -> "other" [] OTHER -> "none"
SizeOf(bytes) == IF bytes = "short" THEN 1 ELSE 2

FirstBest(best, a) == IF a.score > best.asset.score THEN [asset |-> a, twice |-> FALSE] ELSE best

\* SelectAsset: the best score so far, and whether it was met twice.
Better(best, a) ==
  IF a.score < 0 THEN best
  ELSE IF a.score > best.asset.score THEN [asset |-> a, twice |-> FALSE]
  ELSE IF a.score = best.asset.score THEN [best EXCEPT !.twice = TRUE] ELSE best

SelectAsset(list) ==
  LET Scan[i \in 0..Len(list)] ==
        IF i = 0 THEN [asset |-> NoAsset, twice |-> FALSE] ELSE Better(Scan[i - 1], list[i])
      best == Scan[Len(list)]
  IN  IF best.twice THEN NoAsset ELSE best.asset

\* validateTargetAsset
Usable(a) == a.id > 0 /\ a.uploaded /\ a.size > 0

Off == [at |-> "off", want |-> NoAsset, got |-> "none", seen |-> "none", ran |-> "none", checked |-> "none",
        marked |-> FALSE, warned |-> FALSE, answer |-> "none"]

FetchInit ==
  /\ \E c \in FetchCasts : world = c.assets /\ way = [kind |-> c.kind, windows |-> c.windows]
  /\ ft = Off /\ slot = "none" /\ token = FALSE /\ fetchFaults = 0

Same == UNCHANGED <<world, way>>
Goes(next) == ft' = next /\ UNCHANGED fetchFaults
\* A preparation that fails removes what it staged.
Fails == Goes([ft EXCEPT !.at = "cleanup", !.answer = "failed"])
FetchBreaks ==
  /\ fetchFaults < MaxFetchFaults /\ fetchFaults' = fetchFaults + 1
  /\ ft' = [ft EXCEPT !.at = "cleanup", !.answer = "failed"]

-----------------------------------------------------------------------------
(* The release and its asset *)

ResolveTarget ==
  /\ ft.at = "off" /\ way.kind # "pinned"
  /\ LET a == SelectAsset(world)
     IN  \/ a # NoAsset /\ Usable(a) /\ Goes([Off EXCEPT !.at = "before", !.want = a])
         \/ ~(a # NoAsset /\ Usable(a)) /\ Fails
         \/ FetchBreaks
  /\ UNCHANGED <<slot, token>> /\ Same

\* A migration fetches the asset whose digest is compiled in, which was the first of the world.
PinnedTarget ==
  /\ ft.at = "off" /\ way.kind = "pinned"
  /\ Goes([Off EXCEPT !.at = "download", !.want = [world[1] EXCEPT !.digest = "good", !.size = SizeOf("good")]])
  /\ UNCHANGED <<slot, token>> /\ Same

AssetNamed(id) == IF \E a \in AssetsOf(world) : a.id = id THEN CHOOSE a \in AssetsOf(world) : a.id = id ELSE Missing

\* recheckTarget: the description is still the one that was chosen.
Unchanged(a) == a = [ft.want EXCEPT !.bytes = a.bytes]

Recheck(at, next) ==
  /\ ft.at = at
  /\ \/ Unchanged(AssetNamed(ft.want.id)) /\ Goes([ft EXCEPT !.at = next])
     \/ ~Unchanged(AssetNamed(ft.want.id)) /\ Fails
     \/ FetchBreaks
  /\ UNCHANGED <<slot, token>> /\ Same

\* The size must be the announced one, and the digest when there is one.
DigestRight(b) == ft.want.digest \in {"none", b}
SizeRight(b) == SizeOf(b) = ft.want.size

Download ==
  /\ ft.at = "download"
  /\ \/ \E b \in {AssetNamed(ft.want.id).bytes} \cup (IF fetchFaults < MaxFetchFaults THEN {"short", "torn"} ELSE {}) :
          /\ fetchFaults' = IF b = AssetNamed(ft.want.id).bytes THEN fetchFaults ELSE fetchFaults + 1
          /\ ft' = IF b # "none" /\ SizeRight(b) /\ DigestRight(b)
                   THEN [ft EXCEPT !.got = b, !.at = IF way.kind = "pinned" THEN "extract" ELSE "after"]
                   ELSE [ft EXCEPT !.at = "cleanup", !.answer = "failed"]
     \/ FetchBreaks
  /\ UNCHANGED <<slot, token>> /\ Same

-----------------------------------------------------------------------------
(* The candidate *)

\* Exactly one executable; the temporary file's way takes the first of a zip archive.
Unpacks(b) == Holds(b) # "none" \/ (b = "two" /\ way.kind = "plain" /\ way.windows)

Extract ==
  /\ ft.at = "extract"
  /\ IF ~Unpacks(ft.got) THEN Fails
     ELSE Goes([ft EXCEPT !.at = CASE way.kind = "pinned" -> "ready" [] way.kind = "plain" -> "version" [] OTHER -> "mark",
                          !.warned = ft.want.digest = "none",
                          !.seen = IF way.kind = "plain" THEN ft.got ELSE "none",
                          !.answer = IF way.kind = "pinned" THEN "ready" ELSE @])
  /\ slot' = IF way.kind = "plain" /\ Unpacks(ft.got) THEN ft.got ELSE slot
  /\ UNCHANGED token /\ Same

\* stageUpdateCandidate: the marker, then the bytes, each looked at again.
StageMarker ==
  /\ ft.at = "mark"
  /\ \/ token' = TRUE /\ Goes([ft EXCEPT !.at = "stage", !.marked = TRUE])
     \/ token' \in BOOLEAN /\ FetchBreaks
  /\ UNCHANGED slot /\ Same

StageBytes ==
  /\ ft.at = "stage"
  /\ \/ slot' = ft.got /\ Goes([ft EXCEPT !.at = "look"])
     \/ slot' \in {slot, ft.got} /\ FetchBreaks
  /\ UNCHANGED token /\ Same

LookStaged ==
  /\ ft.at = "look"
  /\ IF slot = ft.got THEN Goes([ft EXCEPT !.at = "version", !.seen = slot]) ELSE Fails
  /\ UNCHANGED <<slot, token>> /\ Same

\* check, verifiedProtected: the candidate is still the file that was staged.
StillStaged == way.kind = "plain" \/ slot = ft.seen

RunVersion ==
  /\ ft.at = "version"
  /\ \/ /\ StillStaged /\ Holds(slot) = "tag"
        /\ Goes([ft EXCEPT !.at = "validate", !.ran = slot])
     \/ ~(StillStaged /\ Holds(slot) = "tag") /\ Fails
     \/ FetchBreaks
  /\ UNCHANGED <<slot, token>> /\ Same

\* Checked again before the configuration is given to it ...
ValidateConfig ==
  /\ ft.at = "validate"
  /\ \/ StillStaged /\ Goes([ft EXCEPT !.at = "last", !.checked = slot])
     \/ ~StillStaged /\ Fails
     \/ FetchBreaks
  /\ UNCHANGED <<slot, token>> /\ Same

\* ... and afterwards; a protected candidate is bound to its open file instead, and the
\* temporary file's hash is taken only now.
LastCheck ==
  /\ ft.at = "last"
  /\ IF way.kind = "file" => StillStaged
     THEN Goes([ft EXCEPT !.at = "ready", !.answer = "ready", !.seen = IF way.kind = "plain" THEN slot ELSE @])
     ELSE Fails
  /\ UNCHANGED <<slot, token>> /\ Same

\* Revalidate: the same bytes before and after.
Revalidate ==
  /\ ft.at = "ready" /\ way.kind \in {"file", "plain"}
  /\ IF slot = ft.seen THEN Goes([ft EXCEPT !.checked = slot])
     ELSE Goes([ft EXCEPT !.at = "cleanup", !.answer = "failed"])
  /\ UNCHANGED <<slot, token>> /\ Same

\* BeginUpdate binds the transaction to the bytes that were seen; a plain commit renames.
Use ==
  /\ ft.at = "ready" /\ way.kind # "pinned"
  /\ IF way.kind = "plain" \/ slot = ft.seen
     THEN Goes([ft EXCEPT !.at = "used", !.answer = "used", !.got = slot])
     ELSE Goes([ft EXCEPT !.at = "cleanup", !.answer = "failed"])
  /\ UNCHANGED <<slot, token>> /\ Same

Drop ==
  /\ ft.at = "ready"
  /\ Goes([ft EXCEPT !.at = "cleanup", !.answer = "dropped"])
  /\ UNCHANGED <<slot, token>> /\ Same

\* Only the file that was seen is removed; a temporary file always is.
Removable == IF way.kind = "plain" THEN {slot} ELSE {ft.seen}

Cleanup ==
  /\ ft.at = "cleanup"
  /\ slot' = IF slot \in Removable THEN "none" ELSE slot
  /\ token' = (token /\ ~ft.marked)
  /\ Goes([Off EXCEPT !.at = "end", !.answer = ft.answer, !.got = slot])
  /\ Same

-----------------------------------------------------------------------------
(* The world *)

\* The publisher uploads an asset again: another identity, or the same with other bytes.
Republish(i) ==
  /\ fetchFaults < MaxFetchFaults /\ fetchFaults' = fetchFaults + 1
  /\ ft.at \notin {"off", "end", "used"}
  /\ \/ world' = [world EXCEPT ![i].id = @ + 10, ![i].bytes = "renewed", ![i].at = @ + 1,
                               ![i].digest = IF @ = "none" THEN @ ELSE "renewed"]
     \/ world' = [world EXCEPT ![i].bytes = "renewed", ![i].at = @ + 1,
                               ![i].digest = IF @ = "none" THEN @ ELSE "renewed"]
  /\ UNCHANGED <<way, ft, slot, token>>

\* Another program changes the staged file.
MeddleStaged ==
  /\ fetchFaults < MaxFetchFaults /\ fetchFaults' = fetchFaults + 1
  /\ slot \notin {"none", "foreign"} /\ ft.at \notin {"used", "end"}
  /\ slot' = "foreign"
  /\ UNCHANGED <<world, way, ft, token>>

FetchNext ==
  \/ ResolveTarget \/ PinnedTarget \/ Recheck("before", "download") \/ Download \/ Recheck("after", "extract")
  \/ Extract \/ StageMarker \/ StageBytes \/ LookStaged \/ RunVersion \/ ValidateConfig \/ LastCheck
  \/ Revalidate \/ Use \/ Drop \/ Cleanup
  \/ \E i \in DOMAIN world : Republish(i)
  \/ MeddleStaged

FetchSpec == FetchInit /\ [][FetchNext]_fetchVars

-----------------------------------------------------------------------------
(* Properties *)

\* The staged bytes are nothing or bytes that are known, and a preparation ends with an answer.
FetchTypeOK ==
  /\ slot \in {"none", "good", "renewed", "odd", "torn", "two", "foreign"} /\ token \in BOOLEAN
  /\ ft.at = "end" => ft.answer \in {"failed", "dropped"}
  /\ fetchFaults \in 0..MaxFetchFaults

\* SelectAsset returns the asset with the highest score when there is exactly one, for every
\* order of the list.
SelectionRight ==
  ft.at = "off" =>
    \A n \in 0..MaxList : \A list \in [1..n -> Scored] :
      LET top == {i \in 1..n : list[i].score >= 0 /\ \A j \in 1..n : list[j].score <= list[i].score}
      IN  SelectAsset(list) = IF Cardinality(top) = 1 THEN list[CHOOSE i \in top : TRUE] ELSE NoAsset

\* What is prepared are the bytes the chosen asset had when it was chosen; only without a
\* published digest may a torn download of the right size pass, and then a warning says so.
FetchesChosen ==
  ft.at \in {"mark", "stage", "look", "version", "validate", "last", "ready"} =>
    /\ ft.want.digest # "none" => ft.got = ft.want.digest
    /\ ft.want.digest = "none" => ft.got \in {ft.want.bytes, "torn"} /\ ft.warned

\* The bytes that reported the version and accepted the configuration are the ones that were
\* downloaded and the ones that are handed on, although they lie on disk in between.
HandsOnChecked ==
  /\ ft.at = "ready" /\ way.kind \in {"file", "protected"} => {ft.ran, ft.checked, ft.seen} = {ft.got}
  /\ ft.at = "used" /\ way.kind # "plain" => ft.got = ft.seen /\ ft.ran = ft.got /\ Holds(ft.got) = "tag"

\* A preparation that ends without its candidate leaves nothing of its own behind, and never
\* removes what another program put there.
LeavesNothing ==
  ft.at = "end" =>
    /\ fetchFaults = 0 => slot = "none" /\ ~token
    /\ ft.got = "foreign" /\ way.kind # "plain" => slot = "foreign"

FetchSafe == FetchTypeOK /\ SelectionRight /\ FetchesChosen /\ HandsOnChecked /\ LeavesNothing
=============================================================================
