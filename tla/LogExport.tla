------------------------------ MODULE LogExport ------------------------------
(***************************************************************************)
(* Exporting the logs (internal/control/server/logging_snapshot.go,        *)
(* internal/control/client/logging_snapshot.go, internal/logging/          *)
(* assemble.go and export*.go, internal/tui/ui/exportlogs.go,              *)
(* cmd/mihari/main.go).  The daemon streams a snapshot of its own and the  *)
(* core's log as frames; the terminal reads them, adds its own log and     *)
(* publishes one archive.  The connection breaks or carries a foreign      *)
(* frame, reads and writes fail, the user cancels, the daemon shuts down,  *)
(* and other programs create files in the export folder.                   *)
(***************************************************************************)
EXTENDS Integers, Sequences, FiniteSets

CONSTANTS Snapshots,      \* what the three logs may hold: functions from Logs to numbers of records
          ExportChoices,        \* what the user may choose: [scope, auto], auto for the default path
          MaxSuffix,      \* file names the exporter may try
          MaxConcurrentSnapshots, MaxAdmits, MaxExports, MaxTroubles

VARIABLES logs,     \* number of records in each log
          snap,     \* the server: admission gate, handler, producer
          wire,     \* frames written and not yet read; the connection's fate
          job,      \* the export worker
          dlg,      \* the dialog
          folder,   \* archives and foreign files, by number
          troubles  \* faults so far

lxVars == <<logs, snap, wire, job, dlg, folder, troubles>>

Machine == <<"daemon", "mihomo">>
Logs == {"daemon", "mihomo", "tui"}
(* "private" is the export of a portable layout, whose logs are all local. *)
Scopes == {"machine_and_current_user", "current_user_only", "private"}
Frame(t, s, n) == [type |-> t, source |-> s, count |-> n]
Entry(kind, scope, got, g) == [kind |-> kind, scope |-> scope, got |-> got, generation |-> g]
Nothing == [s \in Logs |-> 0]
NoHandler == [producer |-> "none", turn |-> 1, sent |-> 0, buffer |-> <<>>,
              set |-> "closed", at |-> "none", started |-> FALSE, live |-> TRUE]
NoJob == [at |-> "idle", scope |-> "none", generation |-> 0, got |-> Nothing,
          turn |-> 1, whole |-> FALSE, live |-> TRUE, name |-> 0, auto |-> TRUE,
          temp |-> FALSE, error |-> FALSE, warned |-> FALSE]

LxInit ==
  /\ logs \in Snapshots
  /\ snap = [inflight |-> 0, admits |-> 0, others |-> 0, closing |-> FALSE, returned |-> FALSE, h |-> NoHandler]
  /\ wire = [frames |-> <<>>, state |-> "none"]
  /\ job = NoJob
  /\ dlg = [open |-> FALSE, pending |-> FALSE, generation |-> 0, path |-> 0, cancelled |-> FALSE,
            scope |-> "machine_and_current_user", auto |-> TRUE, inbox |-> <<>>]
  /\ folder = [n \in 0..MaxSuffix |-> Entry("free", "none", Nothing, 0)]
  /\ troubles = 0

Trouble == troubles < MaxTroubles /\ troubles' = troubles + 1
Handler(h) == snap' = [snap EXCEPT !.h = h]
To(stage) == job' = [job EXCEPT !.at = stage]
Source == Machine[job.turn]

-----------------------------------------------------------------------------
(* The server.  tryAdmit and release: at most so many at once and a minute *)
(* (the window matters only once it is full).                              *)
Admits == snap.inflight < MaxConcurrentSnapshots /\ snap.admits < MaxAdmits
MinutePasses ==
  /\ snap.admits = MaxAdmits /\ snap' = [snap EXCEPT !.admits = 0]
  /\ UNCHANGED <<logs, wire, job, dlg, folder, troubles>>

OtherRequest ==
  /\ \/ /\ ~snap.closing /\ Admits /\ snap.others = 0 /\ Trouble
        /\ snap' = [snap EXCEPT !.inflight = @ + 1, !.admits = @ + 1, !.others = 1]
     \/ /\ snap.others > 0
        /\ snap' = [snap EXCEPT !.inflight = @ - 1, !.others = @ - 1] /\ UNCHANGED troubles
  /\ UNCHANGED <<logs, wire, job, dlg, folder>>

(* writeSnapshotPrestreamError *)
Refused == wire' = [wire EXCEPT !.state = "refused"]
(* Open: the readers of both sources, bounded by what is on disk now.      *)
OpenSet == [NoHandler EXCEPT !.producer = "header", !.set = "open", !.at = "writes"]
(* loggingSnapshot: refused while closing or full, else the set is opened  *)
(* and its producer started.  The handler of a connection this client gave *)
(* up earlier is from now on one of the others.                            *)
LoggingSnapshot ==
  /\ job.at = "request" /\ wire.state = "asked"
  /\ \/ /\ snap.closing \/ ~Admits
        /\ Refused /\ UNCHANGED <<snap, troubles>>
     \/ /\ ~snap.closing /\ Admits /\ Trouble
        /\ Refused /\ snap' = [snap EXCEPT !.admits = @ + 1]
     \/ /\ ~snap.closing /\ Admits /\ UNCHANGED troubles
        /\ wire' = [wire EXCEPT !.state = "open"]
        /\ snap' = [snap EXCEPT !.inflight = @ + 1, !.admits = @ + 1,
                                !.others = IF snap.h.at = "none" THEN @ ELSE @ + 1,
                                !.h = OpenSet]
  /\ UNCHANGED <<logs, job, dlg, folder>>

(* produceMachineSnapshot: header, the records of each source and its end  *)
(* with their number, then complete; each through a channel of one slot.   *)
Produced(h) ==
  LET s == Machine[h.turn] IN
  CASE h.producer = "header"  -> [frame |-> Frame("header", "none", 2), h |-> [h EXCEPT !.producer = "records"]]
    [] h.producer = "records" ->
         IF h.sent < logs[s]
         THEN [frame |-> Frame("record", s, 1), h |-> [h EXCEPT !.sent = @ + 1]]
         ELSE [frame |-> Frame("source_end", s, logs[s]),
               h |-> [h EXCEPT !.sent = 0, !.turn = IF @ = 1 THEN 2 ELSE 1,
                               !.producer = IF h.turn = 1 THEN "records" ELSE "complete"]]
    [] OTHER -> [frame |-> Frame("complete", "none", logs["daemon"] + logs["mihomo"]),
                 h |-> [h EXCEPT !.producer = "done"]]

ProduceMachineSnapshot ==
  /\ snap.h.producer \in {"header", "records", "complete"} /\ snap.h.live /\ snap.h.buffer = <<>>
  /\ LET p == Produced(snap.h) IN Handler([p.h EXCEPT !.buffer = <<p.frame>>])
  /\ UNCHANGED <<logs, wire, job, dlg, folder, troubles>>

(* The producer stops: a read failed, or the context is cancelled.         *)
ProducerFails ==
  /\ snap.h.producer \in {"header", "records", "complete"}
  /\ \/ ~snap.h.live /\ UNCHANGED troubles
     \/ snap.h.live /\ Trouble
  /\ Handler([snap.h EXCEPT !.producer = "failed"])
  /\ UNCHANGED <<logs, wire, job, dlg, folder>>

(* The handler writes what the producer sent, and at the end an error.     *)
WriteSnapshotFrame ==
  /\ snap.h.at = "writes" /\ snap.h.buffer # <<>>
  /\ IF wire.state = "open"
     THEN /\ Len(wire.frames) < 2
          /\ wire' = [wire EXCEPT !.frames = @ \o snap.h.buffer]
          /\ Handler([snap.h EXCEPT !.buffer = <<>>, !.started = TRUE])
     ELSE Handler([snap.h EXCEPT !.buffer = <<>>, !.at = "drains", !.live = FALSE]) /\ UNCHANGED wire
  /\ UNCHANGED <<logs, job, dlg, folder, troubles>>

EndStream ==
  /\ snap.h.at = "writes" /\ snap.h.buffer = <<>> /\ snap.h.producer \in {"done", "failed"}
  /\ wire.state = "open" => Len(wire.frames) < 2
  /\ wire' = CASE wire.state # "open" -> wire
               [] snap.h.producer = "done" -> [wire EXCEPT !.state = "ended"]
               [] ~snap.h.started -> [wire EXCEPT !.state = "refused"]
               [] OTHER -> [frames |-> Append(wire.frames, Frame("error", "none", 0)), state |-> "ended"]
  /\ Handler([snap.h EXCEPT !.at = "drains", !.live = FALSE])
  /\ UNCHANGED <<logs, job, dlg, folder, troubles>>

(* The handler drains the channel until the producer has closed it, and    *)
(* only then closes the set and leaves the gate.                           *)
ProducerJoined == snap.h.at = "drains" /\ snap.h.producer \in {"done", "failed"}

DrainFrames ==
  /\ snap.h.at = "drains" /\ snap.h.buffer # <<>>
  /\ Handler([snap.h EXCEPT !.buffer = <<>>])
  /\ UNCHANGED <<logs, wire, job, dlg, folder, troubles>>

ReleaseSnapshot ==
  /\ ProducerJoined
  /\ snap' = [snap EXCEPT !.inflight = @ - 1,
                          !.h = [NoHandler EXCEPT !.producer = IF snap.h.producer \in {"done", "failed"}
                                                             THEN "none" ELSE snap.h.producer]]
  /\ UNCHANGED <<logs, wire, job, dlg, folder, troubles>>

(* The client's disconnection, and the server's shutdown, cancel it.       *)
Disconnected ==
  /\ snap.h.at # "none" /\ snap.h.live /\ wire.state \in {"cut", "left"}
  /\ Handler([snap.h EXCEPT !.live = FALSE])
  /\ UNCHANGED <<logs, wire, job, dlg, folder, troubles>>

CancelSnapshots ==
  /\ ~snap.closing
  /\ snap' = [snap EXCEPT !.closing = TRUE, !.h.live = FALSE]
  /\ UNCHANGED <<logs, wire, job, dlg, folder, troubles>>

(* Serve returns when every handler and every producer is done.            *)
AllJoined == snap.closing /\ snap.h.at = "none" /\ snap.h.producer = "none" /\ snap.others = 0
ServeReturns ==
  /\ AllJoined /\ ~snap.returned
  /\ snap' = [snap EXCEPT !.returned = TRUE]
  /\ wire' = [wire EXCEPT !.state = IF @ = "asked" THEN "cut" ELSE @]
  /\ UNCHANGED <<logs, job, dlg, folder, troubles>>

-----------------------------------------------------------------------------
(* The connection breaks, or a frame is not what this protocol sends.      *)
ConnectionBreaks ==
  /\ wire.state \in {"asked", "open", "ended"} /\ Trouble
  /\ wire' = [frames |-> <<>>, state |-> "cut"]
  /\ UNCHANGED <<logs, snap, job, dlg, folder>>

ForeignFrame ==
  /\ wire.frames # <<>> /\ Trouble
  /\ \E f \in {Frame("junk", "none", 0), Frame("record", "mihomo", 1), Frame("source_end", "daemon", 0)} :
       wire' = [wire EXCEPT !.frames[1] = f]
  /\ UNCHANGED <<logs, snap, job, dlg, folder>>

-----------------------------------------------------------------------------
(* The client.  Any failure of the worker goes through the same cleanup.   *)
Fail == job' = [job EXCEPT !.at = "cleanup", !.error = TRUE]
Head1 == wire.frames[1]
Shift == wire' = [wire EXCEPT !.frames = Tail(@)]
IsHeader(f) == f = Frame("header", "none", 2)
IsRecord(f) == f.type = "record" /\ f.source = Source
IsSourceEnd(f) == f = Frame("source_end", Source, job.got[Source])
IsComplete(f) == f = Frame("complete", "none", job.got["daemon"] + job.got["mihomo"])
Silent == wire.frames = <<>> /\ wire.state # "open"   \* refused, cut, or ended

OpenMachineSnapshot ==
  /\ job.at = "open"
  /\ IF job.scope # "machine_and_current_user" THEN To("target") /\ UNCHANGED wire
     ELSE To("request") /\ wire' = [frames |-> <<>>, state |-> IF snap.returned THEN "cut" ELSE "asked"]
  /\ UNCHANGED <<logs, snap, dlg, folder, troubles>>

(* readHeader and decodeMachineHeader *)
ReadHeader ==
  /\ job.at = "request" /\ wire.frames # <<>> /\ Shift
  /\ IF IsHeader(Head1) THEN To("target") ELSE Fail
  /\ UNCHANGED <<logs, snap, dlg, folder, troubles>>

(* nextFrame: no frame will come.  The end of the stream is one only where *)
(* Finish awaits it.                                                       *)
StreamEnds ==
  /\ job.at \in {"request", "source", "finish"} /\ Silent /\ wire.state # "asked"
  /\ ~(job.at = "finish" /\ job.whole /\ wire.state = "ended")
  /\ Fail
  /\ UNCHANGED <<logs, snap, wire, dlg, folder, troubles>>

(* The idle body's timer, or the total one, fires first.                   *)
IdleTimeout ==
  /\ job.at \in {"request", "source", "finish"} /\ wire.frames = <<>> /\ Trouble
  /\ Fail
  /\ UNCHANGED <<logs, snap, wire, dlg, folder>>

ReadCancelled ==
  /\ job.at \in {"request", "source", "finish"} /\ ~job.live
  /\ Fail
  /\ UNCHANGED <<logs, snap, wire, dlg, folder, troubles>>

(* Next: a record of this source is spooled; its end, which must tell the  *)
(* number that was read (Finish), moves on; anything else is an error.     *)
NextRecord ==
  /\ job.at = "source" /\ wire.frames # <<>> /\ job.live /\ Shift
  /\ \/ IsRecord(Head1) /\ job' = [job EXCEPT !.got[Source] = @ + 1]
     \/ /\ IsSourceEnd(Head1)
        /\ job' = [job EXCEPT !.turn = IF @ = 1 THEN 2 ELSE 1,
                              !.at = IF job.turn = 1 THEN "source" ELSE "local"]
     \/ ~IsRecord(Head1) /\ ~IsSourceEnd(Head1) /\ Fail
  /\ UNCHANGED <<logs, snap, dlg, folder, troubles>>

(* Finish: complete with the total, then the end of the stream.            *)
FinishSnapshot ==
  /\ job.at = "finish" /\ job.live
  /\ \/ /\ wire.frames # <<>> /\ Shift
        /\ IF ~job.whole /\ IsComplete(Head1)
           THEN job' = [job EXCEPT !.whole = TRUE] ELSE Fail
     \/ job.whole /\ wire.frames = <<>> /\ wire.state = "ended" /\ To("zip") /\ UNCHANGED wire
  /\ UNCHANGED <<logs, snap, dlg, folder, troubles>>

-----------------------------------------------------------------------------
(* Assemble.  resolveExportTarget: the first free name; a chosen one must  *)
(* be free.                                                                *)
Free == {n \in 0..MaxSuffix : folder[n].kind = "free"}
FirstSource(scope) ==
  CASE scope = "machine_and_current_user" -> "source" [] scope = "private" -> "private" [] OTHER -> "local"
ResolveExportTarget ==
  /\ job.at = "target"
  /\ IF job.live /\ Free # {} /\ (job.auto \/ folder[0].kind = "free")
     THEN job' = [job EXCEPT !.at = FirstSource(job.scope),
                             !.name = CHOOSE n \in Free : \A k \in Free : n <= k, !.temp = TRUE]
     ELSE Fail
  /\ UNCHANGED <<logs, snap, wire, dlg, folder, troubles>>

(* The terminal's own log, read in place.                                  *)
LocalSource ==
  /\ job.at = "local"
  /\ IF job.live
     THEN job' = [job EXCEPT !.got["tui"] = logs["tui"],
                             !.at = IF job.scope = "current_user_only" THEN "zip" ELSE "finish"]
     ELSE Fail
  /\ UNCHANGED <<logs, snap, wire, dlg, folder, troubles>>

(* Export: all three logs from their files.                                *)
ExportPrivate ==
  /\ job.at = "private"
  /\ IF job.live THEN job' = [job EXCEPT !.got = logs, !.at = "zip"] ELSE Fail
  /\ UNCHANGED <<logs, snap, wire, dlg, folder, troubles>>

(* The archive is written and synced in the private workspace, unless no   *)
(* source had a line.                                                      *)
WriteArchive ==
  /\ job.at = "zip"
  /\ IF job.live /\ job.got # Nothing THEN To("publish") ELSE Fail
  /\ UNCHANGED <<logs, snap, wire, dlg, folder, troubles>>

AssembleFails ==
  /\ job.at \in {"target", "local", "private", "zip", "publish"} /\ Trouble /\ Fail
  /\ UNCHANGED <<logs, snap, wire, dlg, folder>>

Archive == Entry("archive", job.scope, job.got, job.generation)
PublishReplacing == TRUE
PublishNoReplace == folder[job.name].kind = "free"
(* Published under its name unless that exists by now: then the next       *)
(* number is tried, or the export fails.                                   *)
PublishArchive ==
  /\ job.at = "publish"
  /\ \/ ~job.live /\ Fail /\ UNCHANGED folder
     \/ /\ job.live /\ PublishNoReplace
        /\ folder' = [folder EXCEPT ![job.name] = Archive]
        /\ job' = [job EXCEPT !.at = "cleanup"]
     \/ /\ job.live /\ ~PublishNoReplace /\ UNCHANGED folder
        /\ IF job.auto /\ job.name < MaxSuffix THEN job' = [job EXCEPT !.name = @ + 1] ELSE Fail
  /\ UNCHANGED <<logs, snap, wire, dlg, troubles>>

(* The deferred cleanup removes the spools and the workspace, and closes   *)
(* the stream; then the result is delivered, before the runner is free.    *)
SilentResidue == [job EXCEPT !.at = "report"]
WarnResidue == [job EXCEPT !.at = "report", !.warned = TRUE]
(* snapshotResponse.Close, and the set's own Close *)
LeaveStream == wire' = [frames |-> <<>>, state |-> IF wire.state \in {"open", "ended"} THEN "left" ELSE wire.state]
CleanupExport ==
  /\ job.at = "cleanup"
  /\ \/ job' = [job EXCEPT !.temp = FALSE, !.at = "report"] /\ UNCHANGED troubles
     \/ job.temp /\ job' = WarnResidue /\ Trouble
  /\ LeaveStream
  /\ UNCHANGED <<logs, snap, dlg, folder>>

NormalCancellation == job.error /\ ~job.live
DeliverResult ==
  /\ job.at = "report"
  /\ dlg' = [dlg EXCEPT !.inbox = Append(@, [generation |-> job.generation, error |-> job.error,
                cancelled |-> NormalCancellation, path |-> job.name])]
  /\ To("leaving")
  /\ UNCHANGED <<logs, snap, wire, folder, troubles>>

RunnerFree ==
  /\ job.at = "leaving" /\ job' = NoJob
  /\ UNCHANGED <<logs, snap, wire, dlg, folder, troubles>>

-----------------------------------------------------------------------------
(* The dialog.                                                             *)
OpenDialog ==
  /\ ~dlg.pending /\ ~dlg.open
  /\ \E c \in ExportChoices :
       dlg' = [dlg EXCEPT !.open = TRUE, !.path = 0, !.cancelled = FALSE, !.scope = c.scope, !.auto = c.auto]
  /\ UNCHANGED <<logs, snap, wire, job, folder, troubles>>

(* startExport: one worker at a time.                                      *)
StartExport(generation) ==
  job' = [NoJob EXCEPT !.at = "open", !.scope = dlg.scope, !.auto = dlg.auto, !.generation = generation]
(* submit: a worker of a new generation, unless one is still running.      *)
SubmitExport ==
  /\ dlg.open /\ ~dlg.pending /\ dlg.path = 0 /\ dlg.generation < MaxExports
  /\ IF job.at # "idle" THEN dlg' = [dlg EXCEPT !.generation = @ + 1] /\ UNCHANGED job
     ELSE /\ dlg' = [dlg EXCEPT !.generation = @ + 1, !.pending = TRUE, !.cancelled = FALSE]
          /\ StartExport(dlg.generation + 1)
  /\ UNCHANGED <<logs, snap, wire, folder, troubles>>

(* Esc while pending cancels the worker's context; otherwise it closes.    *)
EscExport ==
  /\ dlg.open
  /\ IF dlg.pending
     THEN job.at # "idle" /\ job.live /\ job' = [job EXCEPT !.live = FALSE] /\ UNCHANGED dlg
     ELSE dlg' = [dlg EXCEPT !.open = FALSE] /\ UNCHANGED job
  /\ UNCHANGED <<logs, snap, wire, folder, troubles>>

ThisGeneration(r) == dlg.pending /\ r.generation = dlg.generation
ExportResult ==
  /\ dlg.inbox # <<>>
  /\ LET r == Head(dlg.inbox)  rest == [dlg EXCEPT !.inbox = Tail(@)] IN
     dlg' = IF ~dlg.open \/ ~ThisGeneration(r) THEN rest
            ELSE [rest EXCEPT !.pending = FALSE, !.cancelled = r.cancelled,
                              !.path = IF r.error THEN 0 ELSE r.path + 1]
  /\ UNCHANGED <<logs, snap, wire, job, folder, troubles>>

(* Another program creates a file.                                         *)
ForeignFile ==
  /\ Trouble
  /\ \E n \in Free : folder' = [folder EXCEPT ![n] = Entry("foreign", "none", Nothing, 0)]
  /\ UNCHANGED <<logs, snap, wire, job, dlg>>

LxNext ==
  \/ MinutePasses \/ OtherRequest \/ LoggingSnapshot \/ ProduceMachineSnapshot \/ ProducerFails
  \/ WriteSnapshotFrame \/ EndStream \/ DrainFrames \/ ReleaseSnapshot \/ Disconnected
  \/ CancelSnapshots \/ ServeReturns \/ ConnectionBreaks \/ ForeignFrame
  \/ OpenMachineSnapshot \/ ReadHeader \/ StreamEnds \/ IdleTimeout \/ ReadCancelled \/ NextRecord \/ FinishSnapshot
  \/ ResolveExportTarget \/ LocalSource \/ ExportPrivate \/ WriteArchive \/ AssembleFails \/ PublishArchive
  \/ CleanupExport \/ DeliverResult \/ RunnerFree
  \/ OpenDialog \/ SubmitExport \/ EscExport \/ ExportResult \/ ForeignFile

LxSpec == LxInit /\ [][LxNext]_lxVars

-----------------------------------------------------------------------------
IsArchive(n) == folder[n].kind = "archive"

(* The variables keep their shape; the gate counts exactly the handlers    *)
(* that are inside, and the worker leaves no private workspace behind      *)
(* without a warning.                                                      *)
LxTypeOK ==
  /\ snap.inflight \in 0..MaxConcurrentSnapshots /\ snap.admits \in 0..MaxAdmits
  /\ job.scope \in Scopes \cup {"none"} /\ Len(wire.frames) <= 3 /\ dlg.generation \in 0..MaxExports
  /\ snap.inflight = snap.others + (IF snap.h.at = "none" THEN 0 ELSE 1)
  /\ job.at \in {"idle", "report", "leaving"} => ~job.temp \/ job.warned

(* A published archive holds every record of the logs its scope names: no  *)
(* broken, foreign or unfinished stream is published as if it were whole.  *)
PublishedWhole ==
  \A n \in 0..MaxSuffix : IsArchive(n) =>
    /\ folder[n].got["tui"] = logs["tui"]
    /\ folder[n].scope # "current_user_only" => folder[n].got = logs

(* The producer never reads a snapshot set that was closed under it.       *)
SetOutlivesProducer ==
  snap.h.producer \in {"header", "records", "complete"} => snap.h.set = "open"

(* When Serve has returned, nothing of the server still runs.              *)
ServeJoinsAll == snap.returned => snap.inflight = 0 /\ snap.h.producer = "none"

(* The path that the dialog shows is the archive of the export that was    *)
(* submitted last, and a cancelled export has published nothing.           *)
ShownIsPublished ==
  /\ dlg.path > 0 => /\ IsArchive(dlg.path - 1)
                     /\ folder[dlg.path - 1].generation = dlg.generation
  /\ dlg.cancelled => ~\E n \in 0..MaxSuffix : IsArchive(n) /\ folder[n].generation = dlg.generation

(* An existing file of the export folder is never replaced.                *)
NeverReplaces == \A n \in 0..MaxSuffix : folder[n].kind # "free" => folder'[n] = folder[n]

\* Everything above that a reachable state promises.
LxSafe ==
  /\ LxTypeOK /\ PublishedWhole /\ SetOutlivesProducer /\ ServeJoinsAll
  /\ ShownIsPublished

\* Everything above that a step promises.
LxStepOK ==
  /\ NeverReplaces
=============================================================================
