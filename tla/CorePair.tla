------------------------------ MODULE CorePair ------------------------------
(***************************************************************************)
(* The core's binary and its provenance receipt, published as a pair       *)
(* (core/provenance*.go, verified_command.go): a candidate is staged,      *)
(* published member by member under a journal, and a crash, a reboot or a  *)
(* failing call is recovered before anything runs. Another program may     *)
(* change the installed binary.                                            *)
(***************************************************************************)
EXTENDS Naturals

CONSTANTS PairCasts,       \* initial worlds: [old, new], contents; "none": nothing installed
          MaxPairFaults,   \* bound on failing calls, crashes and foreign changes
          MaxBoots         \* bound on boots of the machine

VARIABLES bootNo,      \* which boot of the machine this is
          files,     \* role -> member -> object
          marker,    \* the transaction's marker is there
          journal,   \* provenance-commit.json, or NoPair
          pj,        \* the process that stages, commits and recovers
          gate,      \* the execution gate: "free", "job" or "runner"
          admitted,  \* executionGate.installed, or Nothing when not admitted
          ran,       \* the object a runner executes, or Nothing
          opener,    \* OpenInstalledCore outside the gate: [at, saw]
          cast,      \* [old, new], the contents before and after
          foreign,   \* another program changed the installed binary
          pairFaults

pairVars == <<bootNo, files, marker, journal, pj, gate, admitted, ran, opener, cast, foreign, pairFaults>>

PairMembers == 1..2      \* the binary, then the receipt
Roles == {"installed", "cand", "backup", "restore", "quarantine"}
Nothing == [c |-> "none", id |-> "none"]
Present(o) == o # Nothing
Obj(c, id) == [c |-> c, id |-> id]

\* sameObject: the identity counts only within one boot.
SameObject(a, b, otherBoot) ==
  IF ~Present(a) \/ ~Present(b) THEN Present(a) = Present(b)
  ELSE a.c = b.c /\ (otherBoot \/ a.id = b.id)

NewMember == [old |-> Nothing, new |-> Nothing, restore |-> Nothing,
              intent |-> FALSE, done |-> FALSE, rIntent |-> FALSE, rDone |-> FALSE]
NoPair == [phase |-> "none", boot |-> 0, m |-> [n \in PairMembers |-> NewMember]]
OffJob == [at |-> "off", n |-> 1, j |-> NoPair, for |-> "start", failed |-> FALSE,
           committed |-> FALSE, retires |-> FALSE, seen |-> FALSE, cur |-> Nothing, was |-> "none", answer |-> "none"]
NoOpener == [at |-> "none", saw |-> Nothing]

PairInit ==
  /\ bootNo = 1 /\ marker = FALSE /\ journal = NoPair /\ gate = "free" /\ pairFaults = 0
  /\ cast \in PairCasts /\ foreign = FALSE /\ admitted = Nothing /\ ran = Nothing /\ opener = NoOpener
  /\ files = [r \in Roles |-> [n \in PairMembers |->
       IF r = "installed" /\ cast.old # "none" THEN Obj(cast.old, "old") ELSE Nothing]]
  /\ pj = OffJob

Stays == UNCHANGED <<bootNo, cast, foreign, ran, opener>>

\* A call that may fail before or after it took effect; failing ends in failAt.
Calls(effect, rest, next, failed) ==
  \/ effect /\ pj' = next /\ UNCHANGED pairFaults
  \/ /\ pairFaults < MaxPairFaults /\ pairFaults' = pairFaults + 1
     /\ (effect \/ UNCHANGED rest) /\ pj' = failed

-----------------------------------------------------------------------------
(* Staging *)

\* The model follows one published commit: it begins with the files of the cast.
Begin ==
  /\ \A n \in PairMembers : files["installed"][n].id \notin {"cand", "restore"}
  /\ pj.at = "idle" /\ pj.answer = "none" /\ ~marker
  /\ pj' = [OffJob EXCEPT !.at = "stage", !.was = files["installed"][1].c]
  /\ UNCHANGED <<files, marker, journal, gate, admitted, pairFaults>> /\ Stays

\* Marker, binary, receipt; Save never replaces one that exists.
StagePair ==
  /\ pj.at = "stage"
  /\ LET last == pj.n = 3
     IN  Calls(IF pj.n = 1 THEN marker' = TRUE /\ UNCHANGED files
               ELSE files' = [files EXCEPT !["cand"][pj.n - 1] = Obj(cast.new, "cand")] /\ UNCHANGED marker,
               <<files, marker>>,
               [pj EXCEPT !.n = IF last THEN 1 ELSE @ + 1, !.at = IF last THEN "proof" ELSE @, !.seen = last],
               [pj EXCEPT !.at = "cleanup", !.answer = "failed"])
  /\ UNCHANGED <<journal, gate, admitted>> /\ Stays

\* The candidate is opened, asked for its version and given the configuration to check.
Prove ==
  /\ pj.at = "proof" /\ gate = "free"
  /\ Calls(TRUE, <<>>, [pj EXCEPT !.at = "prepared"], [pj EXCEPT !.at = "cleanup", !.answer = "failed"])
  /\ UNCHANGED <<files, marker, journal, gate, admitted>> /\ Stays

Discard ==
  /\ pj.at = "prepared"
  /\ pj' = [pj EXCEPT !.at = "cleanup", !.answer = "discarded"]
  /\ UNCHANGED <<files, marker, journal, gate, admitted, pairFaults>> /\ Stays

-----------------------------------------------------------------------------
(* commitProvenance *)

Fall == [pj EXCEPT !.at = "converge", !.failed = TRUE]

CommitUngated ==
  /\ pj.at = "prepared"
  /\ pj' = [pj EXCEPT !.at = "old", !.n = 1, !.for = "commit",
                      !.j = [NoPair EXCEPT !.phase = "prepared", !.boot = bootNo]]
  /\ UNCHANGED <<files, marker, journal, gate, admitted, pairFaults>> /\ Stays

\* commitTrusted: under the gate; an earlier journal would have to be recovered first.
Commit ==
  /\ pj.at = "prepared" /\ gate = "free"
  /\ gate' = "job"
  /\ pj' = IF journal # NoPair THEN [Fall EXCEPT !.for = "commit"]
           ELSE [pj EXCEPT !.at = "old", !.n = 1, !.for = "commit",
                           !.j = [NoPair EXCEPT !.phase = "prepared", !.boot = bootNo]]
  /\ UNCHANGED <<files, marker, journal, admitted, pairFaults>> /\ Stays

\* The member as it is and as it will be; an old one is copied to a backup ...
SaveBackup ==
  /\ pj.at = "old"
  /\ LET n == pj.n
         old == files["installed"][n]
         whole == n = 1 \/ Present(old) = Present(pj.j.m[1].old)
         known == [pj EXCEPT !.j.m[n] = [NewMember EXCEPT !.old = old, !.new = files["cand"][n]]]
     IN  IF ~whole THEN pj' = Fall /\ UNCHANGED <<files, pairFaults>>
         ELSE IF Present(old)
         THEN Calls(files' = [files EXCEPT !["backup"][n] = Obj(old.c, "backup")], files,
                    [known EXCEPT !.at = "restore"], Fall)
         ELSE /\ pj' = [known EXCEPT !.n = 3 - n, !.at = IF n = 2 THEN "prepare" ELSE @]
              /\ UNCHANGED <<files, pairFaults>>
  /\ UNCHANGED <<marker, journal, gate, admitted>> /\ Stays

\* ... and to a file that can be moved back as it is.
SaveRestore ==
  /\ pj.at = "restore"
  /\ LET n == pj.n
         copy == Obj(pj.j.m[n].old.c, "restore")
     IN  Calls(files' = [files EXCEPT !["restore"][n] = copy], files,
               [pj EXCEPT !.j.m[n].restore = copy, !.n = 3 - n, !.at = IF n = 2 THEN "prepare" ELSE "old"], Fall)
  /\ UNCHANGED <<marker, journal, gate, admitted>> /\ Stays

\* savePair of the record in memory
SavePair(next, failed) == Calls(journal' = pj.j, journal, next, failed)
Touched(n, f) == [pj EXCEPT !.j.phase = "publishing", !.j.m[n][f] = TRUE]

Prepare ==
  /\ pj.at = "prepare"
  /\ SavePair([Touched(1, "intent") EXCEPT !.at = "intent", !.n = 1], Fall)
  /\ UNCHANGED <<files, marker, gate, admitted>> /\ Stays

Intend ==
  /\ pj.at = "intent"
  /\ SavePair([pj EXCEPT !.at = "apply"], Fall)
  /\ UNCHANGED <<files, marker, gate, admitted>> /\ Stays

ApplyBlind(role, n, expected, source, sourceExpected, otherBoot) == SameObject(files[source][n], sourceExpected, otherBoot)

\* Apply moves the source to the place when both are what the caller saw.
MayApply(role, n, expected, source, sourceExpected, otherBoot) ==
  files[role][n] = expected /\ SameObject(files[source][n], sourceExpected, otherBoot)
Moved(role, n, source) == [files EXCEPT ![role][n] = files[source][n], ![source][n] = Nothing]

PublishMember ==
  /\ pj.at = "apply"
  /\ LET n == pj.n
         m == pj.j.m[n]
     IN  IF MayApply("installed", n, m.old, "cand", m.new, FALSE)
         THEN Calls(files' = Moved("installed", n, "cand"), files, [Touched(n, "done") EXCEPT !.at = "done"], Fall)
         ELSE pj' = Fall /\ UNCHANGED <<files, pairFaults>>
  /\ UNCHANGED <<marker, journal, gate, admitted>> /\ Stays

SaveDone ==
  /\ pj.at = "done"
  /\ LET n == pj.n
     IN  SavePair(IF n = 1 THEN [Touched(2, "intent") EXCEPT !.at = "intent", !.n = 2]
                  ELSE [pj EXCEPT !.at = "look"], Fall)
  /\ UNCHANGED <<files, marker, gate, admitted>> /\ Stays

LookAtPair ==
  /\ pj.at = "look"
  /\ pj' = IF \A n \in PairMembers : SameObject(files["installed"][n], pj.j.m[n].new, FALSE)
           THEN [pj EXCEPT !.at = "seal", !.j.phase = "committed"] ELSE Fall
  /\ UNCHANGED <<files, marker, journal, gate, admitted, pairFaults>> /\ Stays

Seal ==
  /\ pj.at = "seal"
  /\ SavePair([pj EXCEPT !.at = "converge"], Fall)
  /\ UNCHANGED <<files, marker, gate, admitted>> /\ Stays

-----------------------------------------------------------------------------
(* recoverProvenance: after every commit, and before a daemon runs anything *)

\* loadPair: the record is read, its marker must be the transaction's.
Readable == journal # NoPair /\ marker
Stuck == [pj EXCEPT !.at = "stuck"]

Converge ==
  /\ pj.at = "converge"
  /\ pj' = IF journal = NoPair THEN [pj EXCEPT !.at = "finish"]
           ELSE IF ~Readable THEN Stuck
           ELSE [pj EXCEPT !.at = "recover", !.n = 1, !.j = journal, !.retires = TRUE,
                           !.committed = journal.phase = "committed"]
  /\ UNCHANGED <<files, marker, journal, gate, admitted, pairFaults>> /\ Stays

\* RecoverProvenance of a starting daemon
StartDaemon ==
  /\ pj.at = "off" /\ gate = "free"
  /\ pj' = [OffJob EXCEPT !.at = "converge"] /\ gate' = "job"
  /\ UNCHANGED <<files, marker, journal, admitted, pairFaults>> /\ Stays

NextMember(job) == [job EXCEPT !.n = 3 - @, !.at = IF pj.n = 2 THEN "erase" ELSE "recover"]

\* Where a member must come to rest
Desired(m) == IF m.rIntent /\ Present(m.old) THEN m.restore ELSE m.old

Recover ==
  /\ pj.at = "recover"
  /\ LET n == pj.n
         m == pj.j.m[n]
         other == bootNo # pj.j.boot
         current == files["installed"][n]
         known == \/ SameObject(current, m.old, other) \/ SameObject(current, m.new, other)
                  \/ m.rIntent /\ SameObject(current, m.restore, other)
         marked == [pj EXCEPT !.j.m[n].rIntent = TRUE]
     IN  pj' = IF ~known THEN Stuck
               ELSE IF pj.committed
               THEN IF SameObject(current, m.new, other) THEN NextMember(pj) ELSE Stuck
               ELSE IF SameObject(current, Desired(m), other)
               THEN [marked EXCEPT !.at = "recdone", !.j.m[n].rDone = TRUE]
               ELSE [marked EXCEPT !.at = "recintent", !.cur = current]
  /\ UNCHANGED <<files, marker, journal, gate, admitted, pairFaults>> /\ Stays

RecoverIntend ==
  /\ pj.at = "recintent"
  /\ SavePair([pj EXCEPT !.at = "recapply"], Stuck)
  /\ UNCHANGED <<files, marker, gate, admitted>> /\ Stays

\* An old member is moved back; a member that was not there before is put aside.
RecoverApply ==
  /\ pj.at = "recapply"
  /\ LET n == pj.n
         m == pj.j.m[n]
         other == bootNo # pj.j.boot
         ok == IF Present(m.old) THEN MayApply("installed", n, pj.cur, "restore", m.restore, other)
               ELSE MayApply("quarantine", n, Nothing, "installed", pj.cur, FALSE)
         moved == IF Present(m.old) THEN Moved("installed", n, "restore") ELSE Moved("quarantine", n, "installed")
     IN  IF ok THEN Calls(files' = moved, files, [pj EXCEPT !.at = "recdone", !.j.m[n].rDone = TRUE], Stuck)
         ELSE pj' = Stuck /\ UNCHANGED <<files, pairFaults>>
  /\ UNCHANGED <<marker, journal, gate, admitted>> /\ Stays

RecoverDone ==
  /\ pj.at = "recdone"
  /\ SavePair(NextMember(pj), Stuck)
  /\ UNCHANGED <<files, marker, gate, admitted>> /\ Stays

\* The converged record is removed last.
Erase ==
  /\ pj.at = "erase"
  /\ Calls(journal' = NoPair, journal, [pj EXCEPT !.at = "finish"], Stuck)
  /\ UNCHANGED <<files, marker, gate, admitted>> /\ Stays

Admission == files["installed"][1]

\* The commit's answer, and the binary that may run from now on.
Finish ==
  /\ pj.at = "finish" /\ gate' = "free"
  /\ IF pj.for = "start" THEN pj' = [OffJob EXCEPT !.at = "idle"] /\ UNCHANGED admitted
     ELSE /\ admitted' = Admission
          /\ pj' = [pj EXCEPT !.at = "cleanup", !.j = NoPair, !.n = 1, !.cur = Nothing,
                              !.answer = IF pj.failed /\ ~pj.committed THEN "failed" ELSE "updated"]
  /\ UNCHANGED <<files, marker, journal, pairFaults>> /\ Stays

\* A recovery that fails keeps everything; a daemon that cannot recover does not start.
PairGivesUp ==
  /\ pj.at = "stuck" /\ gate' = "free"
  /\ pj' = IF pj.for = "start" THEN OffJob
           ELSE [pj EXCEPT !.at = "cleanup", !.j = NoPair, !.n = 1, !.cur = Nothing, !.answer = "stuck"]
  /\ UNCHANGED <<files, marker, journal, admitted, pairFaults>> /\ Stays

\* CleanupPair keeps everything while there is a record.
MayClean == journal = NoPair

\* cleanupTrusted: each file only when it is the one that was seen.
CleanupPair ==
  /\ pj.at = "cleanup" /\ gate = "free"
  /\ LET gone == (IF pj.retires THEN {"backup", "restore", "quarantine"} ELSE {})
                 \cup (IF pj.seen THEN {"cand"} ELSE {})
         done == [OffJob EXCEPT !.at = "idle", !.was = pj.was, !.answer = pj.answer]
     IN  IF MayClean
         THEN Calls(/\ files' = [r \in Roles |-> IF r \in gone THEN [n \in PairMembers |-> Nothing] ELSE files[r]]
                    /\ marker' = (marker /\ ~pj.seen), <<files, marker>>, done, done)
         ELSE pj' = done /\ UNCHANGED <<files, marker, pairFaults>>
  /\ UNCHANGED <<journal, gate, admitted>> /\ Stays

-----------------------------------------------------------------------------
(* Running the core *)

PairUp == pj.at # "off" /\ (pj.for = "start" => pj.at \in {"idle", "stage", "proof", "prepared", "cleanup"})

\* admitInstalled: what was admitted once must still be there.
MayAdmit(o) == admitted = Nothing \/ SameObject(admitted, o, FALSE)

\* RunCommand and executeVerified hold the gate from the checks until the process has started.
Run ==
  /\ PairUp /\ gate = "free" /\ journal = NoPair
  /\ LET o == files["installed"][1]
     IN  Present(o) /\ MayAdmit(o) /\ ran' = o /\ admitted' = o
  /\ gate' = "runner"
  /\ UNCHANGED <<bootNo, files, marker, journal, pj, opener, cast, foreign, pairFaults>>

RunDone ==
  /\ gate = "runner"
  /\ gate' = "free" /\ ran' = Nothing
  /\ UNCHANGED <<bootNo, files, marker, journal, pj, admitted, opener, cast, foreign, pairFaults>>

\* OpenInstalledCore is also called without the gate, so its three looks may lie apart.
Open ==
  /\ PairUp
  /\ \/ opener.at = "none" /\ journal = NoPair /\ opener' = [NoOpener EXCEPT !.at = "checked"]
     \/ /\ opener.at = "checked"
        /\ LET o == files["installed"][1]
           IN  opener' = IF Present(o) THEN [at |-> "seen", saw |-> o] ELSE NoOpener
     \/ /\ opener.at = "seen"
        /\ opener' = IF SameObject(files["installed"][1], opener.saw, FALSE)
                     THEN [opener EXCEPT !.at = "again"] ELSE NoOpener
  /\ UNCHANGED <<bootNo, files, marker, journal, pj, gate, admitted, ran, cast, foreign, pairFaults>>

AdmitOpened ==
  /\ opener.at = "again"
  /\ opener' = NoOpener
  /\ admitted' = IF MayAdmit(opener.saw) THEN opener.saw ELSE admitted
  /\ UNCHANGED <<bootNo, files, marker, journal, pj, gate, ran, cast, foreign, pairFaults>>

-----------------------------------------------------------------------------
(* The world *)

CrashPair ==
  /\ pj.at # "off" /\ pairFaults < MaxPairFaults /\ pairFaults' = pairFaults + 1
  /\ bootNo' \in {bootNo} \cup (IF bootNo < MaxBoots THEN {bootNo + 1} ELSE {})
  /\ pj' = OffJob /\ gate' = "free" /\ admitted' = Nothing /\ ran' = Nothing /\ opener' = NoOpener
  /\ UNCHANGED <<files, marker, journal, cast, foreign>>

\* Another program replaces the installed binary.
Tamper ==
  /\ ~foreign /\ pairFaults < MaxPairFaults /\ pairFaults' = pairFaults + 1
  /\ foreign' = TRUE
  /\ files' = [files EXCEPT !["installed"][1] = Obj("foreign", "foreign")]
  /\ UNCHANGED <<bootNo, marker, journal, pj, gate, admitted, ran, opener, cast>>

PairNext ==
  \/ Begin \/ StagePair \/ Prove \/ Discard
  \/ Commit \/ SaveBackup \/ SaveRestore \/ Prepare \/ Intend \/ PublishMember \/ SaveDone \/ LookAtPair \/ Seal
  \/ Converge \/ StartDaemon \/ Recover \/ RecoverIntend \/ RecoverApply \/ RecoverDone \/ Erase
  \/ Finish \/ PairGivesUp \/ CleanupPair
  \/ Run \/ RunDone \/ Open \/ AdmitOpened \/ CrashPair \/ Tamper

PairSpec == PairInit /\ [][PairNext]_pairVars

-----------------------------------------------------------------------------
(* Properties *)

\* Every file is nothing or one of the objects the code or another program makes, and the gate
\* has one holder.
PairTypeOK ==
  /\ bootNo \in 1..MaxBoots /\ gate \in {"free", "job", "runner"} /\ pairFaults \in 0..MaxPairFaults
  /\ \A r \in Roles, n \in PairMembers : files[r][n].id \in {"none", "old", "cand", "backup", "restore", "foreign"}

Contents == [n \in PairMembers |-> files["installed"][n].c]
Both(c) == [n \in PairMembers |-> c]

\* Whenever there is no record of a commit, binary and receipt are both the old ones or
\* both the new ones, whatever crashed or failed before (commitProvenance, recoverProvenance).
PairWhole == journal = NoPair /\ ~foreign => Contents \in {Both(cast.old), Both(cast.new)}

\* A sealed commit is never taken back, and the answer of a commit tells what is installed.
AnswerTrue ==
  ~foreign =>
    /\ journal.phase = "committed" => Contents = Both(cast.new)
    /\ pj.answer = "updated" => Contents = Both(cast.new)
    /\ pj.answer \in {"failed", "discarded"} => Contents = Both(pj.was)

\* As long as there is an unsealed record, the old bytes of every member are installed or
\* can still be moved back, and recovery never meets a file it does not know.
OldKept ==
  /\ journal # NoPair => marker
  /\ journal # NoPair /\ journal.phase # "committed" /\ ~foreign =>
       \A n \in PairMembers : Present(journal.m[n].old) =>
         \E r \in {"installed", "restore"} : files[r][n].c = journal.m[n].old.c
  /\ pj.at = "stuck" => foreign \/ pairFaults > 0
  /\ pj.at = "recover" /\ ~foreign =>
       LET m == pj.j.m[pj.n]
       IN  \E o \in {m.old, m.new, m.restore} : SameObject(files["installed"][pj.n], o, bootNo # pj.j.boot)

\* What executes is the whole installed pair of no unfinished commit, and nothing is
\* published under it (executionGate).
RunsWhole == ran # Nothing /\ ~foreign => journal = NoPair /\ ran = files["installed"][1]

\* Outside a commit, the admitted binary is the installed one: a look at the old binary that
\* ends late does not admit it again (admitInstalled, acceptPublished). After a recovery that
\* failed execution is prohibited, and what was admitted no longer matters.
AdmissionCurrent ==
  PairUp /\ pj.answer # "stuck" /\ gate # "job" /\ journal = NoPair /\ ~foreign /\ admitted # Nothing /\ Present(files["installed"][1])
    => admitted = files["installed"][1]

\* A commit or a recovery replaces a member only when it is one the transaction saw: what
\* another program put there meanwhile stays (Apply's expected objects).
ReplacesKnown ==
  foreign' = foreign =>
    \A n \in PairMembers : files'["installed"][n] # files["installed"][n] =>
      LET m == pj.j.m[n]
      IN  \E o \in {m.old, m.new, m.restore} : SameObject(files["installed"][n], o, bootNo # pj.j.boot)

PairSafe == PairTypeOK /\ PairWhole /\ AnswerTrue /\ OldKept /\ RunsWhole /\ AdmissionCurrent
PairStepOK == ReplacesKnown
=============================================================================
