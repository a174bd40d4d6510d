----------------------------- MODULE SelfUpdate -----------------------------
(***************************************************************************)
(* Updating the Mihari binary itself (update, platform/replacement_target, *)
(* cli/self.go): the release is chosen while others publish, its bytes are *)
(* downloaded and checked, the target is observed and confirmed, and then  *)
(* replaced, on Windows by two renames that a crash may part. Other        *)
(* programs replace the target, and a starting Mihari removes old copies.  *)
(***************************************************************************)
EXTENDS Integers, Sequences, FiniteSets

CONSTANTS UpdateCasts,   \* initial worlds: [list, target, channel, yes, windows]
          NewTags,       \* tags that may be published meanwhile
          ForeignCopy,       \* versions another program may put in place
          PageSize,      \* releases on a page of the list
          MaxPages,      \* maxDevReleasePages
          MaxSuFaults,   \* bound on failing calls and other programs' changes
          MaxSuRuns      \* bound on calls of the command

VARIABLES pub,      \* [list: releases, newest first; gen: how often assets were replaced]
          setting,  \* [channel, yes, windows]
          su,       \* the command
          goal,   \* the installed file: [id, ver, content], or NoCopy
          stash,    \* retired copies beside it
          work,     \* the downloaded candidate: content, or NoBytes
          stage,    \* the copy beside the target: content, or NoBytes
          cleaner,  \* "off" or "holding": CleanupReplacedBinary of a starting Mihari
          late,     \* the target changed after the last look at it
          suFaults, suRuns

suVars == <<pub, setting, su, goal, stash, work, stage, cleaner, late, suFaults, suRuns>>

\* A canonical tag: its three numbers, and the number of a dev build (0: stable).
Stable(n) == [num |-> n, dev |-> 0]
Dev(n, d) == [num |-> n, dev |-> d]
OddTag == [num |-> <<>>, dev |-> 0]
Canonical(t) == t # OddTag
IsDev(t) == t.dev > 0

\* The bytes of a release's asset, of a torn copy, or none
Content(t, g) == <<t, g>>
NoBytes == <<OddTag, 0>>
Torn == <<OddTag, 1>>
NoCopy == [id |-> 0, ver |-> OddTag, content |-> NoBytes]
NoLook == [NoCopy EXCEPT !.id = -1]

Before(a, b) == \E i \in 1..3 : a[i] < b[i] /\ \A j \in 1..(i - 1) : a[j] = b[j]

\* compareCanonicalTags, as "is older than"
Older(a, b) ==
  IF a.num # b.num THEN Before(a.num, b.num)
  ELSE IF IsDev(a) # IsDev(b) THEN IsDev(a) ELSE a.dev < b.dev

\* A dev build is offered the stable release although it may be older.
ClassifyUpdate(current, latest) ==
  [available |-> /\ current # latest
                 /\ \/ ~Canonical(current) \/ ~Canonical(latest)
                    \/ IsDev(current) /\ ~IsDev(latest)
                    \/ Older(current, latest),
   ahead |-> /\ Canonical(current) /\ Canonical(latest) /\ Older(latest, current)
             /\ ~(IsDev(current) /\ ~IsDev(latest))]

Risk(current, candidate) ==
  IF ~Canonical(current) \/ ~Canonical(candidate) THEN "unknown"
  ELSE IF Older(candidate, current) THEN "downgrade" ELSE "none"

Idle == [at |-> "idle", page |-> 0, best |-> OddTag, tag |-> OddTag, digest |-> NoBytes,
         seen |-> NoCopy, look |-> NoLook, run |-> OddTag, was |-> {}, answer |-> "none"]

\* A call that fails uses up the budget, and the command cleans up.
Fails(answer) ==
  /\ su' = [su EXCEPT !.at = "close", !.answer = answer]
  /\ UNCHANGED <<pub, setting, goal, stash, work, stage, cleaner, late, suRuns>>
Breaks == suFaults < MaxSuFaults /\ suFaults' = suFaults + 1 /\ Fails("error")
Proceed(at) == su' = [su EXCEPT !.at = at]
Quiet == UNCHANGED <<setting, cleaner, suFaults, suRuns>>
Disk == <<goal, stash, work, stage>>

-----------------------------------------------------------------------------
(* The releases *)

Visible(list) == SelectSeq(list, LAMBDA r : ~r.draft)
Published == {r.tag : r \in {pub.list[i] : i \in DOMAIN pub.list}}

Publish(t) ==
  /\ suFaults < MaxSuFaults /\ suFaults' = suFaults + 1
  /\ su.at # "idle" /\ t \notin Published
  /\ pub' = [pub EXCEPT !.list = <<[tag |-> t, draft |-> FALSE]>> \o @]
  /\ UNCHANGED <<setting, su, goal, stash, work, stage, cleaner, late, suRuns>>

\* The publisher withdraws a release, or replaces its assets and their checksums.
Withdraw(i) ==
  /\ suFaults < MaxSuFaults /\ suFaults' = suFaults + 1
  /\ su.at # "idle" /\ ~pub.list[i].draft
  /\ \/ pub' = [pub EXCEPT !.list[i].draft = TRUE]
     \/ pub' = [pub EXCEPT !.gen = @ + 1]
  /\ UNCHANGED <<setting, su, goal, stash, work, stage, cleaner, late, suRuns>>

Start ==
  /\ su.at = "idle" /\ suRuns < MaxSuRuns /\ goal # NoCopy
  /\ suRuns' = suRuns + 1 /\ late' = FALSE
  /\ su' = [Idle EXCEPT !.at = IF setting.channel = "dev" THEN "list" ELSE "latest",
                        !.run = goal.ver,
                        !.was = {r.tag : r \in {q \in {pub.list[i] : i \in DOMAIN pub.list} : ~q.draft}}]
  /\ UNCHANGED <<pub, setting, goal, stash, work, stage, cleaner, suFaults>>

\* The newest of what is kept and what the page lists.
Best(best, page) ==
  LET all == page \cup ({best} \ {OddTag})
  IN  IF all = {} THEN best ELSE CHOOSE t \in all : \A o \in all : ~Older(t, o)

\* fetchReleaseListPage: the list is cut into pages when each is asked for.
ListPage ==
  /\ su.at = "list"
  /\ LET first == su.page * PageSize + 1
         last == first + PageSize - 1
         onPage == {pub.list[i] : i \in first..last \cap DOMAIN pub.list}
         tags == {r.tag : r \in {q \in onPage : ~q.draft /\ Canonical(q.tag) /\ IsDev(q.tag)}}
         more == last < Len(pub.list) /\ su.page + 1 < MaxPages
         best == Best(su.best, tags)
     IN  \/ /\ su' = IF more THEN [su EXCEPT !.page = @ + 1, !.best = best]
                     ELSE IF best = OddTag THEN [su EXCEPT !.at = "close", !.answer = "error"]
                     ELSE [su EXCEPT !.at = "fixed", !.best = best, !.tag = best]
            /\ Quiet /\ UNCHANGED <<pub, Disk, late>>
         \/ Breaks

\* releases/latest: the newest stable release that is not a draft.
LatestMain ==
  /\ su.at = "latest"
  /\ LET shown == SelectSeq(Visible(pub.list), LAMBDA r : ~IsDev(r.tag))
     IN  \/ /\ shown # <<>>
            /\ su' = [su EXCEPT !.at = "fixed", !.tag = shown[1].tag] /\ Quiet
            /\ UNCHANGED <<pub, Disk, late>>
         \/ shown = <<>> /\ Fails("error") /\ UNCHANGED suFaults
         \/ Breaks

ReleaseByTag(t) == {r \in {pub.list[i] : i \in DOMAIN pub.list} : r.tag = t}

\* Prepare: nothing to do, or the release is asked for again by its tag.
FixRelease ==
  /\ su.at = "fixed"
  /\ LET c == ClassifyUpdate(su.run, su.tag)
         named == ReleaseByTag(su.tag)
     IN  \/ ~c.available /\ Fails(IF c.ahead THEN "ahead" ELSE "current") /\ UNCHANGED suFaults
         \/ /\ c.available /\ (~Canonical(su.tag) \/ \A r \in named : r.draft)
            /\ Fails("error") /\ UNCHANGED suFaults
         \/ /\ c.available /\ Canonical(su.tag) /\ \E r \in named : ~r.draft
            /\ Proceed("manifest") /\ Quiet /\ UNCHANGED <<pub, Disk, late>>
         \/ c.available /\ Breaks

-----------------------------------------------------------------------------
(* Preparing: bytes, checksums and the preview *)

\* selectChecksumAsset, fetchExpectedChecksum: what the manifest says now.
FetchManifest ==
  /\ su.at = "manifest"
  /\ \/ /\ su' = [su EXCEPT !.at = "download", !.digest = Content(su.tag, pub.gen)]
        /\ Quiet /\ UNCHANGED <<pub, Disk, late>>
     \/ Breaks

\* download: a candidate whose digest is not the manifest's is removed.
DownloadAccepted(c) == c = su.digest

Download ==
  /\ su.at = "download" /\ work = NoBytes
  /\ \/ \E c \in {Content(su.tag, pub.gen)} \cup (IF suFaults < MaxSuFaults THEN {Torn} ELSE {}) :
          /\ suFaults' = IF c = Torn THEN suFaults + 1 ELSE suFaults
          /\ IF DownloadAccepted(c) THEN work' = c /\ Proceed("observe")
             ELSE work' = NoBytes /\ su' = [su EXCEPT !.at = "close", !.answer = "error"]
          /\ UNCHANGED <<pub, setting, goal, stash, stage, cleaner, late, suRuns>>
     \/ Breaks

\* A file is run only if nobody else may write it or a directory above it; which of
\* the targets that is so for is open.
MayExecute == BOOLEAN

\* What a run prints within the limits of time and size: one strict envelope, or not.
Prints(f) == [strict : BOOLEAN, version : {f.ver}]

\* decodeVersionLabel, normalizedReplacementVersion
Understood(out) == IF out.strict THEN out.version ELSE OddTag

Answers(f) == UNION {IF x THEN {Understood(o) : o \in Prints(f)} ELSE {OddTag} : x \in MayExecute}

\* The file that was asked is the one that was looked at before.
SameLook(f) == f = su.look

\* observeReplacementTarget looks at the file,
Look ==
  /\ su.at \in {"observe", "recheck", "last"} /\ su.look = NoLook
  /\ \/ su' = [su EXCEPT !.look = goal] /\ Quiet /\ UNCHANGED <<pub, Disk, late>>
     \/ Breaks

\* asks it, and looks again: the previews it may return, none if the file changed.
LookAgain == IF SameLook(goal) THEN {[goal EXCEPT !.ver = v] : v \in Answers(goal)} ELSE {}

SeenChanged == [su EXCEPT !.at = "close", !.answer = "changed"]

ObserveCopy ==
  /\ su.at = "observe" /\ su.look # NoLook
  /\ \/ LookAgain = {} /\ su' = SeenChanged
     \/ \E o \in LookAgain : su' = [su EXCEPT !.at = "consent", !.seen = o, !.look = NoLook]
  /\ Quiet /\ UNCHANGED <<pub, Disk, late>>

\* The risk of a preview: only an existing file can be lost.
PreviewRisk(f) == IF f = NoCopy THEN "none" ELSE Risk(f.ver, su.tag)

YesUnneeded == TRUE

\* ValidateReplacementConsent
Consented == PreviewRisk(su.seen) # "none" => setting.yes

Consent ==
  /\ su.at = "consent"
  /\ IF Consented THEN Proceed("verify") /\ Quiet /\ UNCHANGED <<pub, Disk, late>>
     ELSE Fails("confirm") /\ UNCHANGED suFaults

-----------------------------------------------------------------------------
(* Applying *)

\* verifyPreparedCandidate of the bytes at a place
Verified(c) == c = su.digest

VerifyCandidate ==
  /\ su.at = "verify"
  /\ IF Verified(work) THEN Proceed("recheck") /\ Quiet /\ UNCHANGED <<pub, Disk, late>>
     ELSE Fails("error") /\ UNCHANGED suFaults

\* RecheckReplacement: a preview of what is there now must be the confirmed one.
Rechecked(f) == f = su.seen

RecheckRelease(at, next) ==
  /\ su.at = at /\ su.look # NoLook
  /\ \/ LookAgain = {} /\ su' = SeenChanged
     \/ \E o \in LookAgain :
          su' = IF Rechecked(o) THEN [su EXCEPT !.at = next, !.look = NoLook] ELSE SeenChanged
  /\ late' = FALSE
  /\ Quiet /\ UNCHANGED <<pub, Disk>>

\* The candidate is copied beside the target, checked while it is copied and once more
\* where it lies.
StageCopy ==
  IF Verified(work) THEN Proceed("last") /\ stage' = work
  ELSE su' = [su EXCEPT !.at = "close", !.answer = "error"] /\ stage' = Torn

Stage ==
  /\ su.at = "stage"
  /\ \/ StageCopy /\ Quiet /\ UNCHANGED <<pub, goal, stash, work, late>>
     \/ Breaks

Replacement(f) == [id |-> f.id + 1, ver |-> su.tag, content |-> stage]

\* replaceBinary: one rename on Unix; on Windows the target is put aside first, which
\* fails while a cleaner holds it.
Replace ==
  /\ su.at = "replace"
  /\ \/ /\ ~setting.windows
        /\ goal' = Replacement(goal) /\ stage' = NoBytes
        /\ Proceed("after") /\ UNCHANGED <<stash, suFaults>>
     \/ /\ setting.windows /\ cleaner = "off" /\ goal # NoCopy
        /\ stash' = stash \cup {goal} /\ goal' = NoCopy
        /\ Proceed("swap") /\ UNCHANGED <<stage, suFaults>>
     \/ /\ \/ setting.windows /\ cleaner = "holding" /\ UNCHANGED suFaults
           \/ suFaults < MaxSuFaults /\ suFaults' = suFaults + 1
        /\ su' = [su EXCEPT !.at = "close", !.answer = "error"]
        /\ UNCHANGED <<goal, stash, stage>>
  /\ UNCHANGED <<pub, setting, work, cleaner, late, suRuns>>

\* The stashed file is the newest one there.
Newest == CHOOSE f \in stash : \A g \in stash : g.id <= f.id

Rollback == goal' = Newest /\ stash' = stash \ {Newest}

Swap ==
  /\ su.at = "swap"
  /\ \/ /\ goal' = Replacement(Newest) /\ stage' = NoBytes
        /\ Proceed("after") /\ UNCHANGED <<stash, suFaults>>
     \/ /\ suFaults < MaxSuFaults /\ suFaults' = suFaults + 1
        /\ Rollback
        /\ su' = [su EXCEPT !.at = "close", !.answer = "error"] /\ UNCHANGED stage
     \/ /\ suFaults + 1 < MaxSuFaults /\ suFaults' = suFaults + 2
        /\ su' = [su EXCEPT !.at = "close", !.answer = "error"]
        /\ UNCHANGED <<goal, stash, stage>>
  /\ UNCHANGED <<pub, setting, work, cleaner, late, suRuns>>

\* AfterReplace restarts the service; its failure does not take the update back.
AfterReplace ==
  /\ su.at = "after"
  /\ \/ su' = [su EXCEPT !.at = "close", !.answer = "updated"] /\ Quiet /\ UNCHANGED <<pub, Disk, late>>
     \/ Breaks

\* PreparedUpdate.Close and the deferred removal of the stage
RemoveWork == work' = NoBytes /\ stage' = NoBytes

Close ==
  /\ su.at = "close"
  /\ RemoveWork
  /\ su' = [Idle EXCEPT !.answer = su.answer]
  /\ UNCHANGED <<pub, setting, goal, stash, cleaner, late, suFaults, suRuns>>

-----------------------------------------------------------------------------
(* Everybody else *)

Spends == suFaults < MaxSuFaults /\ suFaults' = suFaults + 1

\* The command dies and leaves its files.
CrashUpdate ==
  /\ su.at # "idle" /\ Spends
  /\ su' = [Idle EXCEPT !.answer = "crashed"]
  /\ work' = NoBytes /\ stage' = NoBytes  \* names of their own, which nobody reads again
  /\ UNCHANGED <<pub, setting, goal, stash, cleaner, late, suRuns>>

\* Another installation replaces the target, in one rename.
Outsider(v) ==
  /\ su.at # "idle" /\ goal # NoCopy /\ cleaner = "off" /\ Spends
  /\ goal' = [id |-> goal.id + 1, ver |-> v, content |-> Content(v, 0)]
  /\ late' = TRUE
  /\ UNCHANGED <<pub, setting, su, stash, work, stage, cleaner, suRuns>>

\* A cleaner of temporary files truncates or removes the candidate.
Spoil ==
  /\ work # NoBytes /\ Spends
  /\ work' \in {NoBytes, Torn} \ {work}
  /\ UNCHANGED <<pub, setting, su, goal, stash, stage, cleaner, late, suRuns>>

CleansAnyway == TRUE

\* CleanupReplacedBinary holds the target against renames, and does nothing without one.
CleanerMayHold == goal # NoCopy

CleanupBegin ==
  /\ setting.windows /\ cleaner = "off" /\ stash # {} /\ CleanerMayHold
  /\ cleaner' = "holding"
  /\ UNCHANGED <<pub, setting, su, goal, stash, work, stage, late, suFaults, suRuns>>

\* Each retired copy goes, unless it still runs.
CleanupEnd ==
  /\ cleaner = "holding"
  /\ cleaner' = "off"
  /\ stash' \in SUBSET stash
  /\ UNCHANGED <<pub, setting, su, goal, work, stage, late, suFaults, suRuns>>

SuInit ==
  \E c \in UpdateCasts :
    /\ pub = [list |-> c.list, gen |-> 0]
    /\ setting = [channel |-> c.channel, yes |-> c.yes, windows |-> c.windows]
    /\ goal = [id |-> 1, ver |-> c.target, content |-> Content(c.target, 0)]
    /\ su = Idle /\ stash = {} /\ work = NoBytes /\ stage = NoBytes /\ cleaner = "off"
    /\ late = FALSE /\ suFaults = 0 /\ suRuns = 0

SuNext ==
  \/ Start \/ ListPage \/ LatestMain \/ FixRelease \/ FetchManifest \/ Download \/ Look \/ ObserveCopy
  \/ Consent
  \/ VerifyCandidate \/ RecheckRelease("recheck", "stage") \/ Stage \/ RecheckRelease("last", "replace")
  \/ Replace \/ Swap \/ AfterReplace \/ Close \/ CrashUpdate \/ Spoil \/ CleanupBegin \/ CleanupEnd
  \/ \E t \in NewTags : Publish(t)
  \/ \E i \in DOMAIN pub.list : Withdraw(i)
  \/ \E v \in ForeignCopy : Outsider(v)

-----------------------------------------------------------------------------
(* Properties *)

\* A command that is over, and did not die, has removed its files: the download and
\* the copy beside the target (PreparedUpdate.Close, apply_prepared.go:59).
SuTypeOK ==
  /\ su.at = "idle" => work = NoBytes /\ stage = NoBytes
  /\ late \in BOOLEAN /\ suFaults \in 0..MaxSuFaults /\ suRuns \in 0..MaxSuRuns

\* Whatever was published, withdrawn or replaced between the questions, the dev release
\* that is chosen is at least as new as every one that was there when the command began,
\* unless the list is longer than the pages it reads (self.go latestDevRelease).
NewestChosen ==
  su.at = "fixed" /\ setting.channel = "dev" =>
    \A t \in su.was : Canonical(t) /\ IsDev(t) /\ PageSize * MaxPages >= Len(pub.list) =>
      ~Older(su.tag, t) \/ \E i \in DOMAIN pub.list : pub.list[i].tag = t /\ pub.list[i].draft

\* Only bytes whose digest the manifest of the fixed release names are installed, however
\* the download went and whatever became of the candidate in between.
InstalledVerified ==
  /\ goal # NoCopy => goal.content # Torn /\ goal.content # NoBytes
  /\ su.at = "after" /\ ~late => goal.content = su.digest

\* A binary is never lost: between the renames of Windows, after a crash there, after
\* failed renames and beside a cleaner there is the target, or a copy to restore.
NoBinaryLost == goal = NoCopy => stash # {}

\* A newer binary, or one of unknown version, is replaced only with consent, except one
\* that another program put there after the last look (apply_prepared.go:82-93).
NoSilentDowngrade ==
  su'.at \in {"after", "swap"} /\ su.at = "replace" /\ ~late
    => (Risk(goal.ver, su.tag) = "downgrade" => setting.yes)

\* The command touches the target only as it was confirmed: it renames nothing else.
ReplacesConfirmed ==
  su'.at \in {"after", "swap"} /\ su.at = "replace" /\ ~late =>
    goal.id = su.seen.id /\ goal.content = su.seen.content

\* Everything above that a reachable state promises.
SuSafe == SuTypeOK /\ NewestChosen /\ InstalledVerified /\ NoBinaryLost

\* Everything above that a step promises.
SuStepOK == NoSilentDowngrade /\ ReplacesConfirmed
=============================================================================
