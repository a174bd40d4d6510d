------------------------------- MODULE LogFiles -------------------------------
(***************************************************************************)
(* A rotated log (logging/rotator.go): the active file, suffix 0, and its  *)
(* archives, written by several processes that share the file under an     *)
(* advisory lock (terminals of one user), each with limits of its own that *)
(* change while it runs (logging/runtime.go), and read by a snapshot that  *)
(* keeps the files open after it gave the lock back (logging/snapshot.go). *)
(* A large record is written as several fragments (record_writer.go).      *)
(***************************************************************************)
EXTENDS Integers, Sequences, SequencesExt, FiniteSets

CONSTANTS LogWriters,     \* the processes
          Limits,         \* the MaxFiles values in use
          FirstLimit,     \* each process's MaxFiles at its start
          Fragments,      \* record -> number of fragments it is written in
          MaxSizeRecords, \* MaxSizeBytes, counted in fragments
          MaxLogFaults,   \* bound on failures, timeouts, crashes, foreign files
          Reconfigured,   \* the processes whose limit changes while they run
          MaxApplies      \* bound on configuration changes

VARIABLES names,     \* suffix -> inode, 0 when absent, Foreign when not a regular file
          content,   \* inode -> lines, oldest first
          accepted,  \* ghost: the lines whose Write succeeded, in order
          advisory,  \* [ex, sh]: the holder of the exclusive lock; whether it is shared
          pens,      \* process -> [at, why, i, rec, part]
          limit,     \* process -> MaxFiles in force (the atomic cfg pointer)
          least,     \* ghost: the lowest limit ever in force
          shot,      \* the snapshot: [at, handles, cut]
          nextRec, logFaults, applies

lfVars == <<names, content, accepted, advisory, pens, limit, least, shot, nextRec, logFaults, applies>>
lfFiles == <<names, content, accepted>>
lfConfig == <<limit, least, applies>>

Top == Max(Limits)
Slots == 0..Top
Foreign == -1
Regular(s) == names[s] > 0
Inodes == 1..(2 * Top + 2)
NoShot == [at |-> "none", handles |-> <<>>, cut |-> <<>>]
Resting == [at |-> "idle", why |-> "none", i |-> 0, rec |-> 0, part |-> 0]

LogFault == logFaults < MaxLogFaults /\ logFaults' = logFaults + 1

\* An inode that no name and no open snapshot refers to.
FreshInode == CHOOSE k \in Inodes : /\ \A s \in Slots : names[s] # k
                                    /\ \A h \in DOMAIN shot.handles : shot.handles[h].ino # k

\* A file without a name lives on while a snapshot has it open.
Freed == [k \in Inodes |-> IF \/ \E s \in Slots : names'[s] = k
                              \/ \E h \in DOMAIN shot.handles : shot.handles[h].ino = k
                           THEN content[k] ELSE <<>>]

Ascending == [k \in 1..(Top + 1) |-> k - 1]

\* The lines of the files, oldest archive first (snapshotOrder).
OldestFirst == SelectSeq(Reverse(Ascending), Regular)
Lines == FlattenSeq([k \in DOMAIN OldestFirst |-> content[names[OldestFirst[k]]]])

PenTo(w, at) == pens' = [pens EXCEPT ![w].at = at]

(***************************************************************************)
(* Waiting for the lock.  pens[w].at = "idle" is the free record mutex:    *)
(* writes and maintenance of one process exclude each other.               *)
(***************************************************************************)

OpenRotatingWriter(w) ==
  /\ pens[w].at = "closed"
  /\ pens' = [pens EXCEPT ![w] = [Resting EXCEPT !.at = "wait", !.why = "open"]]
  /\ UNCHANGED <<lfFiles, lfConfig, advisory, shot, nextRec, logFaults>>

\* recordWriter.Write: a record begins with its first fragment.
WriteRecord(w) ==
  /\ pens[w].at = "idle" /\ nextRec \in DOMAIN Fragments
  /\ pens' = [pens EXCEPT ![w] = [at |-> "wait", why |-> "write", i |-> 0, rec |-> nextRec, part |-> 1]]
  /\ nextRec' = nextRec + 1
  /\ UNCHANGED <<lfFiles, lfConfig, advisory, shot, logFaults>>

\* Runtime.Apply: the swap is at once and stays, whatever becomes of the
\* maintenance; that waits for the record mutex, then for the lock.
Apply(w) ==
  /\ w \in Reconfigured
  /\ applies < MaxApplies /\ applies' = applies + 1
  /\ \E l \in Limits \ {limit[w]} :
       /\ limit' = [limit EXCEPT ![w] = l]
       /\ least' = IF l < least THEN l ELSE least
  /\ IF pens[w].at = "idle"
     THEN pens' = [pens EXCEPT ![w] = [Resting EXCEPT !.at = "wait", !.why = "apply"]]
     ELSE pens' = pens
  /\ UNCHANGED <<lfFiles, advisory, shot, nextRec, logFaults>>

LockIgnoringReaders == advisory.ex = "none"
LockShared == advisory.ex = "none"
LockExclusive == advisory.ex = "none" /\ ~advisory.sh

LockAcquired(w) ==
  /\ pens[w].at = "wait" /\ LockExclusive
  /\ advisory' = [advisory EXCEPT !.ex = w]
  /\ PenTo(w, IF pens[w].why = "write" THEN "base" ELSE "converge")
  /\ UNCHANGED <<lfFiles, lfConfig, shot, nextRec, logFaults>>

\* A fragment that could not be written ends its record.
FragmentFailed(w) == Resting

\* The wait is bounded: a record is dropped, maintenance skipped, an open fails.
LockTimesOut(w) ==
  /\ pens[w].at = "wait" /\ LogFault
  /\ pens' = [pens EXCEPT ![w] = CASE pens[w].why = "open" -> [Resting EXCEPT !.at = "closed"]
                                   [] pens[w].why = "write" -> FragmentFailed(w)
                                   [] OTHER -> Resting]
  /\ UNCHANGED <<lfFiles, lfConfig, advisory, shot, nextRec>>

FileUnlocked(w) == [advisory EXCEPT !.ex = "none"]

(***************************************************************************)
(* Under the lock                                                          *)
(***************************************************************************)

\* Archives past the limit that converging removes, in no particular order.
Excess(w) == {s \in Slots : s > 0 /\ s >= limit[w] /\ Regular(s)}

ConvergeLocked(w) ==
  /\ pens[w].at = "converge"
  /\ \E s \in Excess(w) : names' = [names EXCEPT ![s] = 0]
  /\ content' = Freed
  /\ UNCHANGED <<accepted, lfConfig, advisory, pens, shot, nextRec, logFaults>>

\* All removed; a failing remove is reported and its archive left.
Converged(w) ==
  /\ pens[w].at = "converge"
  /\ IF Excess(w) = {} THEN UNCHANGED logFaults ELSE LogFault
  /\ CASE pens[w].why = "apply" -> pens' = [pens EXCEPT ![w] = Resting] /\ advisory' = FileUnlocked(w)
       [] pens[w].why = "open" -> PenTo(w, "create") /\ UNCHANGED advisory
       [] OTHER -> /\ pens' = [pens EXCEPT ![w].at = "rotate", ![w].i = limit[w] - 1]
                   /\ UNCHANGED advisory
  /\ UNCHANGED <<lfFiles, lfConfig, shot, nextRec>>

\* OpenAppend creates the active file when there is none.
OpenAppend ==
  IF names[0] # 0 THEN UNCHANGED <<names, content>>
  ELSE /\ names' = [names EXCEPT ![0] = FreshInode]
       /\ content' = [content EXCEPT ![FreshInode] = <<>>]

CreateBase(w) ==
  /\ pens[w].at = "create"
  /\ OpenAppend
  /\ pens' = [pens EXCEPT ![w] = Resting] /\ advisory' = FileUnlocked(w)
  /\ UNCHANGED <<accepted, lfConfig, shot, nextRec, logFaults>>

NeedRotate == names[0] > 0 /\ Len(content[names[0]]) + 1 > MaxSizeRecords

OpenBaseLocked(w) ==
  /\ pens[w].at = "base"
  /\ OpenAppend
  /\ PenTo(w, IF NeedRotate THEN "converge" ELSE "append")
  /\ UNCHANGED <<accepted, lfConfig, advisory, shot, nextRec, logFaults>>

\* PrivateFS.ReplaceEmpty puts a new file in the old one's place: an open
\* handle keeps the old data.
ReplaceEmpty ==
  /\ names' = [names EXCEPT ![0] = FreshInode]
  /\ content' = [Freed EXCEPT ![FreshInode] = <<>>]

ReplaceSingle(w) ==
  /\ pens[w].at = "rotate" /\ pens[w].i = 0
  /\ ReplaceEmpty
  /\ PenTo(w, "reopen")
  /\ UNCHANGED <<accepted, lfConfig, advisory, shot, nextRec, logFaults>>

\* removeIfRegular and renameIfRegular skip what is not a regular file.
RemoveIfRegular(s) == IF Regular(s) THEN [names EXCEPT ![s] = 0] ELSE names
RenameIfRegular(s, t) == IF ~Regular(s) \/ names[t] = Foreign THEN names
                         ELSE [names EXCEPT ![t] = names[s], ![s] = 0]

\* shiftLocked works down from the oldest archive: i is the suffix to free.
ShiftNext(w) == pens[w].i - 1

RemoveOldest(w) ==
  /\ pens[w].at = "rotate" /\ pens[w].i > 0
  /\ names' = RemoveIfRegular(pens[w].i)
  /\ content' = Freed
  /\ PenTo(w, "shift")
  /\ UNCHANGED <<accepted, lfConfig, advisory, shot, nextRec, logFaults>>

ShiftLocked(w) ==
  /\ pens[w].at = "shift"
  /\ names' = RenameIfRegular(pens[w].i - 1, pens[w].i)
  /\ pens' = [pens EXCEPT ![w].at = IF pens[w].i = 1 THEN "reopen" ELSE "shift",
                          ![w].i = ShiftNext(w)]
  /\ content' = Freed
  /\ UNCHANGED <<accepted, lfConfig, advisory, shot, nextRec, logFaults>>

\* A failing step ends the rotation: the record still goes to the active file.
RotateFails(w) ==
  /\ pens[w].at \in {"converge", "rotate", "shift"} /\ pens[w].why = "write" /\ LogFault
  /\ PenTo(w, "reopen")
  /\ UNCHANGED <<lfFiles, lfConfig, advisory, shot, nextRec>>

ReopenBase(w) ==
  /\ pens[w].at = "reopen"
  /\ OpenAppend
  /\ PenTo(w, "append")
  /\ UNCHANGED <<accepted, lfConfig, advisory, shot, nextRec, logFaults>>

\* A line, numbered in the order of writing.
Line(w) == [rec |-> pens[w].rec, part |-> pens[w].part, no |-> Len(accepted) + 1]

\* The line is written, the file closed, the lock given back; the next
\* fragment asks for the lock again.
AppendLine(w) ==
  /\ pens[w].at = "append" /\ Regular(0)
  /\ content' = [content EXCEPT ![names[0]] = Append(@, Line(w))]
  /\ accepted' = Append(accepted, Line(w))
  /\ pens' = [pens EXCEPT ![w] = IF pens[w].part < Fragments[pens[w].rec]
                                 THEN [pens[w] EXCEPT !.at = "wait", !.part = @ + 1, !.i = 0]
                                 ELSE Resting]
  /\ advisory' = FileUnlocked(w)
  /\ UNCHANGED <<names, lfConfig, shot, nextRec, logFaults>>

\* The open, the stat or the write failed: the line is reported lost.
AppendFails(w) ==
  /\ pens[w].at \in {"base", "append"} /\ LogFault
  /\ pens' = [pens EXCEPT ![w] = FragmentFailed(w)] /\ advisory' = FileUnlocked(w)
  /\ UNCHANGED <<lfFiles, lfConfig, shot, nextRec>>

\* The operating system releases the lock of a process that dies.
LogProcessDies(w) ==
  /\ pens[w].at \notin {"closed", "idle"} /\ LogFault
  /\ pens' = [pens EXCEPT ![w] = [Resting EXCEPT !.at = "closed"]]
  /\ advisory' = IF advisory.ex = w THEN FileUnlocked(w) ELSE advisory
  /\ UNCHANGED <<lfFiles, lfConfig, shot, nextRec>>

\* Close waits for the record mutex.
CloseWriter(w) ==
  /\ pens[w].at = "idle" /\ nextRec \notin DOMAIN Fragments
  /\ pens' = [pens EXCEPT ![w].at = "done"]
  /\ UNCHANGED <<lfFiles, lfConfig, advisory, shot, nextRec, logFaults>>

\* Something that is not a regular file takes an archive's name.
ForeignArchive ==
  /\ LogFault
  /\ \E s \in Slots \ {0} : names[s] = 0 /\ names' = [names EXCEPT ![s] = Foreign]
  /\ UNCHANGED <<content, accepted, lfConfig, advisory, pens, shot, nextRec>>

(***************************************************************************)
(* Snapshots                                                               *)
(***************************************************************************)

SnapshotLock ==
  /\ shot.at = "none" /\ LockShared
  /\ shot' = [shot EXCEPT !.at = "list"]
  /\ advisory' = [advisory EXCEPT !.sh = TRUE]
  /\ UNCHANGED <<lfFiles, lfConfig, pens, nextRec, logFaults>>

\* snapshotOrder: oldest archive first, every file with its size
Handles == [k \in DOMAIN OldestFirst |-> [ino |-> names[OldestFirst[k]],
                                          size |-> Len(content[names[OldestFirst[k]]])]]

\* The files are listed and opened under the lock; one that is not regular
\* fails the snapshot.  The lock is given back before anything is read.
SnapshotSource ==
  /\ shot.at = "list"
  /\ shot' = IF \E s \in Slots : names[s] = Foreign THEN [NoShot EXCEPT !.at = "closed"]
             ELSE [at |-> "open", handles |-> Handles, cut |-> Lines]
  /\ advisory' = [advisory EXCEPT !.sh = FALSE]
  /\ UNCHANGED <<lfFiles, lfConfig, pens, nextRec, logFaults>>

CloseSnapshots ==
  /\ shot.at = "open"
  /\ shot' = [NoShot EXCEPT !.at = "closed"]
  /\ UNCHANGED <<lfFiles, lfConfig, advisory, pens, nextRec, logFaults>>

\* What reading the open files up to their recorded sizes gives now.
ReadNow == FlattenSeq([k \in DOMAIN shot.handles |->
             LET now == content[shot.handles[k].ino]
             IN SubSeq(now, 1, Min({Len(now), shot.handles[k].size}))])

\* Every process has opened the log; one that dies opens it again.
LfInit ==
  /\ names = [s \in Slots |-> IF s = 0 THEN 1 ELSE 0]
  /\ content = [k \in Inodes |-> <<>>]
  /\ accepted = <<>> /\ nextRec = 1 /\ logFaults = 0 /\ applies = 0
  /\ advisory = [ex |-> "none", sh |-> FALSE]
  /\ pens = [w \in LogWriters |-> Resting]
  /\ limit = FirstLimit
  /\ least = Min({FirstLimit[w] : w \in LogWriters})
  /\ shot = NoShot

LfNext ==
  \/ \E w \in LogWriters :
       \/ OpenRotatingWriter(w) \/ WriteRecord(w) \/ Apply(w) \/ LockAcquired(w) \/ LockTimesOut(w)
       \/ ConvergeLocked(w) \/ Converged(w) \/ CreateBase(w) \/ OpenBaseLocked(w)
       \/ ReplaceSingle(w) \/ RemoveOldest(w) \/ ShiftLocked(w) \/ RotateFails(w) \/ ReopenBase(w)
       \/ AppendLine(w) \/ AppendFails(w) \/ LogProcessDies(w) \/ CloseWriter(w)
  \/ ForeignArchive
  \/ SnapshotLock \/ SnapshotSource \/ CloseSnapshots

LfSpec == LfInit /\ [][LfNext]_lfVars

(***************************************************************************)
(* Properties                                                              *)
(***************************************************************************)

\* Types.  The exclusive lock is held by the process that works on the files
\* and by no other, never together with a shared one.
LfTypeOK ==
  /\ names \in [Slots -> Inodes \cup {0, Foreign}]
  /\ \A s, t \in Slots : Regular(s) /\ names[s] = names[t] => s = t
  /\ least \in Limits /\ limit \in [LogWriters -> Limits]
  /\ advisory.sh => advisory.ex = "none"
  /\ \A w \in LogWriters :
       advisory.ex = w <=> pens[w].at \in {"converge", "create", "base", "rotate", "shift", "reopen", "append"}

\* Whatever fails, whoever dies and whatever the limits become, the files read
\* from the oldest archive to the active file give accepted lines, each once
\* and in the order in which they were written.
InOrder ==
  accepted # <<>> =>
    LET read == Lines
    IN \A k \in DOMAIN read : /\ read[k] = accepted[read[k].no]
                              /\ k > 1 => read[k - 1].no < read[k].no

Working(w) == pens[w].at \in {"converge", "rotate", "shift", "reopen", "append"}

\* Without a fault, rotation loses only the oldest lines, and no more than the
\* limits ask for: the files hold the newest lines, the archives of the lowest
\* limit ever in force full and the newest line in the active file.
NewestKept ==
  logFaults = 0 /\ accepted # <<>> /\ (\A w \in LogWriters : ~Working(w)) =>
    LET read == Lines
    IN /\ IsSuffix(read, accepted)
       /\ Len(read) >= Min({Len(accepted), (least - 1) * MaxSizeRecords + 1})

\* Without a fault no file outgrows the size limit.
SizeKept == logFaults = 0 /\ accepted # <<>> => \A s \in Slots : Regular(s) => Len(content[names[s]]) <= MaxSizeRecords

\* A snapshot read after its lock was given back, at any time and whatever is
\* rotated meanwhile, gives exactly the lines that were there under the lock.
SnapshotCut == shot.at = "open" => ReadNow = shot.cut

\* A record's fragments reach the log in order and without a gap, whatever other
\* processes write between them: nothing follows a fragment that failed.
FragmentsPrefix ==
  \A k \in DOMAIN accepted : accepted[k].part > 1 =>
    \E j \in 1..(k - 1) : /\ accepted[j].rec = accepted[k].rec
                           /\ accepted[j].part = accepted[k].part - 1

\* Everything above that a reachable state promises.
LfSafe ==
  /\ LfTypeOK /\ InOrder /\ NewestKept /\ SizeKept /\ SnapshotCut /\ FragmentsPrefix
=============================================================================
