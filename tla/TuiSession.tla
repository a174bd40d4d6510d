----------------------------- MODULE TuiSession -----------------------------
(***************************************************************************)
(* The terminal interface's session with the daemon (internal/tui/session) *)
(* and the state it keeps in step: the root shell's view of status and     *)
(* logging settings (internal/tui/model.go), the System page's logging     *)
(* rows, and the goroutine that applies those settings to the interface's  *)
(* own log file (internal/tui/logging_applier.go).                         *)
(*                                                                         *)
(* The session polls the daemon from one goroutine and hands the snapshots *)
(* over in order; the answers to the user's own changes come back past     *)
(* that queue. An epoch, raised whenever the connection or a capability is *)
(* lost, and the daemon's revision decide which of two answers counts.     *)
(* A logging configuration is named by the revision that introduced it.    *)
(***************************************************************************)
EXTENDS Naturals, Integers, Sequences, FiniteSets

CONSTANTS
  MaxRevision,  \* bound on the daemon's revision
  MaxLosses,    \* bound on restarts and lost connections together
  MaxEdits,     \* bound on logging changes the user submits
  MaxEpoch,     \* bound on the session's epoch, which every failed attempt raises
  QueueSize     \* control channel and events buffer, together

ASSUME TuiSessionAssumption ==
  {MaxRevision, MaxLosses, MaxEdits, MaxEpoch, QueueSize - 1} \subseteq Nat

VARIABLES
  daemon,   \* what the daemon would answer now
  link,     \* the session's goroutine: where it is, and its epoch and revision
  feed,     \* control and events channels: snapshots on their way to the shell
  streaming, \* the push streams' producers run
  view,     \* the root shell
  knob,     \* the System page's logging rows
  calls,    \* logging requests of the page and their answers
  writer,   \* ownedLoggingApplier
  losses, edits

tsVars == <<daemon, link, feed, streaming, view, knob, calls, writer, losses, edits>>

None == -1        \* no revision known, and the bootstrap configuration
LogRows == {"level", "size"}
NoLogRow == "none"

TsInit ==
  /\ daemon = [up |-> TRUE, has |-> TRUE, starting |-> FALSE, rev |-> 0, cfg |-> 0]
  /\ link = [at |-> "status", next |-> "connected", epoch |-> 1, rev |-> None, cap |-> FALSE,
             seen |-> 0, applying |-> FALSE]
  /\ feed = <<>>
  /\ streaming = FALSE
  /\ view = [live |-> FALSE, has |-> FALSE, known |-> FALSE, status |-> 0, statusEpoch |-> 0,
             epoch |-> 0, rev |-> None, loaded |-> FALSE, cfg |-> None]
  /\ knob = [epoch |-> 0, available |-> FALSE, rev |-> None, cfg |-> None, pending |-> NoLogRow,
             pendingEpoch |-> 0, reloading |-> FALSE]
  /\ calls = {}
  /\ writer = [at |-> "idle", latest |-> None, changed |-> FALSE, wake |-> FALSE, cfg |-> None]
  /\ losses = 0 /\ edits = 0

-----------------------------------------------------------------------------
(* The daemon, as its clients see it: other clients change its settings,   *)
(* it restarts with or without the logging capability, it cannot be        *)
(* reached for a while. Revisions survive a restart.                       *)

Change ==
  /\ daemon.up /\ daemon.rev < MaxRevision
  /\ \E logs \in BOOLEAN :
       daemon' = [daemon EXCEPT !.rev = @ + 1, !.cfg = IF logs THEN daemon.rev + 1 ELSE @]
  /\ UNCHANGED <<link, feed, streaming, view, knob, calls, writer, losses, edits>>

Lose ==
  /\ daemon.up /\ losses < MaxLosses
  /\ losses' = losses + 1
  /\ \E has, stays \in BOOLEAN :
       daemon' = [daemon EXCEPT !.up = stays, !.has = has, !.starting = TRUE]
  /\ UNCHANGED <<link, feed, streaming, view, knob, calls, writer, edits>>

Return ==
  /\ ~daemon.up \/ daemon.starting
  /\ daemon' = [daemon EXCEPT !.up = TRUE, !.starting = IF daemon.up THEN FALSE ELSE @]
  /\ UNCHANGED <<link, feed, streaming, view, knob, calls, writer, losses, edits>>

-----------------------------------------------------------------------------
(* The session's goroutine.                                                *)

Event(kind, epoch, rev, cfg, ok) == [kind |-> kind, epoch |-> epoch, rev |-> rev, cfg |-> cfg, ok |-> ok]
Put(e) == Len(feed) < QueueSize /\ feed' = Append(feed, e)

\* observeLoggingCapability: losing the capability starts a new epoch.
ObserveLoggingCapability ==
  LET lost == link.cap /\ ~daemon.has IN
  [link EXCEPT !.epoch = IF lost THEN @ + 1 ELSE @, !.rev = IF lost THEN None ELSE @,
               !.cap = daemon.has, !.seen = daemon.rev, !.applying = daemon.starting]

\* putReconnecting: what was known belongs to the lost connection. The
\* deferred cleanup of superviseStreams has joined the producers.
PutReconnecting ==
  /\ link.epoch < MaxEpoch /\ Put(Event("reconnecting", link.epoch + 1, 0, 0, TRUE))
  /\ link' = [link EXCEPT !.epoch = @ + 1, !.rev = None, !.cap = FALSE, !.at = "status",
                          !.next = "connected"]
  /\ streaming' = FALSE

\* supervise, waitStartupNetwork and superviseStreams probe the daemon first.
\* After a stream failure the streams are opened again before the snapshots.
Status ==
  /\ link.at \in {"status", "probe"}
  /\ IF daemon.up
     THEN LET seen == ObserveLoggingCapability IN
          /\ Put(Event("status", seen.epoch, daemon.rev, 0, daemon.has))
          /\ link' = [seen EXCEPT !.at = "logging"]
          /\ streaming' = (streaming \/ link.at = "probe")
     ELSE PutReconnecting
  /\ UNCHANGED <<daemon, view, knob, calls, writer, losses, edits>>

\* poll: nothing is read while startup still applies the network settings;
\* pollLogging reads the settings when the revision moved on.
PollLogging ==
  /\ link.at = "logging"
  /\ IF link.applying \/ ~link.cap \/ link.rev >= link.seen
     THEN link' = [link EXCEPT !.at = link.next] /\ UNCHANGED feed
     ELSE \E ok \in {daemon.up /\ daemon.has, FALSE} :
            /\ Put(Event("logging", link.epoch, daemon.rev, daemon.cfg, ok))
            /\ link' = [link EXCEPT !.at = link.next, !.rev = IF ok THEN daemon.rev ELSE @]
  /\ UNCHANGED <<daemon, streaming, view, knob, calls, writer, losses, edits>>

\* EventConnected, then the wait for the startup network or the streams.
Connected ==
  /\ link.at = "connected"
  /\ Put(Event("connected", 0, 0, 0, TRUE))
  /\ link' = [link EXCEPT !.at = "wait", !.next = "wait"]
  /\ UNCHANGED <<daemon, streaming, view, knob, calls, writer, losses, edits>>

\* waitStartupNetwork polls until the status says the startup is over, then
\* the streams run; the ticker polls beside them, their end probes the daemon.
SuperviseStreams ==
  /\ link.at = "wait"
  /\ \/ ~link.applying /\ ~streaming
        /\ streaming' = TRUE /\ UNCHANGED link
     \/ (link.applying \/ streaming)
        /\ link' = [link EXCEPT !.at = "status"] /\ UNCHANGED streaming
     \/ ~link.applying /\ streaming
        /\ link' = [link EXCEPT !.at = "probe"] /\ streaming' = FALSE
  /\ UNCHANGED <<daemon, feed, view, knob, calls, writer, losses, edits>>

-----------------------------------------------------------------------------
(* The root shell.                                                         *)

\* Submit: the newest configuration replaces one not yet taken.
Submit(cfg) ==
  [writer EXCEPT !.latest = cfg, !.changed = TRUE, !.wake = TRUE]

\* resetLogging: an older epoch is ignored; a newer one forgets the revision.
ResetLogging(v, epoch) ==
  IF epoch < v.epoch THEN v
  ELSE [v EXCEPT !.rev = IF epoch > v.epoch THEN None ELSE @, !.epoch = epoch,
                 !.loaded = FALSE, !.cfg = None]

\* LoggingSyncMsg: the page shows what the shell has; without it a pending
\* logging row is given up, its request still on the way.
LoggingSync(v) ==
  LET shown == [knob EXCEPT !.epoch = v.epoch, !.available = v.loaded, !.cfg = v.cfg,
                            !.rev = IF v.loaded THEN v.rev ELSE None] IN
  IF v.loaded THEN shown
  ELSE [shown EXCEPT !.pending = NoLogRow, !.pendingEpoch = 0, !.reloading = FALSE]

SettleForgetsPage(v, told) ==
  /\ view' = v
  /\ UNCHANGED knob
  /\ writer' = IF told THEN Submit(v.cfg) ELSE writer

\* The shell's state after a message, with the page and the applier told when
\* the logging settings were reset or observed.
Settle(v, told) ==
  /\ view' = v
  /\ knob' = IF told THEN LoggingSync(v) ELSE knob
  /\ writer' = IF told THEN Submit(v.cfg) ELSE writer

\* EventStatus: an older epoch, or an older revision of the same one, is
\* dropped; a newer revision makes the loaded settings doubtful.
StatusEvent(e) ==
  LET advanced == ~view.known \/ e.epoch > view.statusEpoch
      newer == e.epoch > view.epoch
      lost == e.epoch = view.epoch /\ ~e.ok /\ view.loaded
      moved == e.epoch = view.epoch /\ e.ok /\ view.rev # None /\ e.rev > view.rev
      seen == [view EXCEPT !.known = TRUE, !.status = e.rev, !.statusEpoch = e.epoch,
                           !.has = e.ok]
      reset == newer \/ lost \/ (moved /\ view.loaded)
      after == IF reset THEN ResetLogging(seen, e.epoch) ELSE seen
  IN  IF view.known /\ (e.epoch < view.statusEpoch \/ (~advanced /\ e.rev < view.status))
      THEN Settle(view, FALSE)
      ELSE Settle(IF moved THEN [after EXCEPT !.rev = e.rev] ELSE after, reset)

ObservesAnyRevision(epoch, rev) == epoch = view.epoch

\* observeLogging: the epoch must be the current one and the revision no
\* older than the one known.
Observes(epoch, rev) == epoch = view.epoch /\ (view.rev = None \/ rev >= view.rev)

Observed(rev, cfg) ==
  [view EXCEPT !.rev = rev, !.loaded = TRUE, !.cfg = cfg, !.status = IF rev > @ THEN rev ELSE @]

\* applySessionEvent, one snapshot at a time in the order they were taken.
ApplySessionEvent ==
  /\ feed # <<>>
  /\ feed' = Tail(feed)
  /\ LET e == Head(feed) IN
     CASE e.kind = "status" -> StatusEvent(e)
       [] e.kind = "logging" -> IF e.ok /\ Observes(e.epoch, e.rev)
                                THEN Settle(Observed(e.rev, e.cfg), TRUE) ELSE Settle(view, FALSE)
       [] e.kind = "connected" -> Settle([view EXCEPT !.live = TRUE], FALSE)
       [] OTHER -> LET gone == [view EXCEPT !.live = FALSE] IN
                   IF e.epoch > view.epoch THEN Settle(ResetLogging(gone, e.epoch), TRUE)
                   ELSE Settle(gone, FALSE)
  /\ UNCHANGED <<daemon, link, streaming, calls, losses, edits>>

-----------------------------------------------------------------------------
(* The System page's logging rows.                                         *)

LoggingMutationAvailable == view.live /\ knob.available /\ view.has

\* startLoggingUpdate, from either editor: the request carries the revision
\* on display, and a second one waits for the first row's answer.
StartLoggingUpdate(row) ==
  /\ LoggingMutationAvailable /\ knob.pending = NoLogRow /\ edits < MaxEdits
  /\ edits' = edits + 1
  /\ knob' = [knob EXCEPT !.pending = row, !.pendingEpoch = knob.epoch]
  /\ calls' = calls \cup {[n |-> edits + 1, row |-> row, epoch |-> knob.epoch, at |-> "update",
                           rev |-> knob.rev, cfg |-> knob.cfg]}
  /\ UNCHANGED <<daemon, link, feed, streaming, view, writer, losses>>

\* The daemon's answer to UpdateLogging and to the reload after a conflict.
Answer(c) ==
  /\ c.at \in {"update", "reload"}
  /\ \/ /\ c.at = "update" /\ daemon.up /\ c.rev = daemon.rev /\ daemon.rev < MaxRevision
        /\ daemon' = [daemon EXCEPT !.rev = @ + 1, !.cfg = daemon.rev + 1]
        /\ calls' = (calls \ {c}) \cup {[c EXCEPT !.at = "observed", !.rev = daemon.rev + 1, !.cfg = daemon.rev + 1]}
     \/ /\ c.at = "update" /\ daemon.up /\ c.rev # daemon.rev
        /\ calls' = (calls \ {c}) \cup {[c EXCEPT !.at = "conflict"]} /\ UNCHANGED daemon
     \/ /\ c.at = "reload" /\ daemon.up
        /\ calls' = (calls \ {c}) \cup {[c EXCEPT !.at = "observed", !.rev = daemon.rev, !.cfg = daemon.cfg]}
        /\ UNCHANGED daemon
     \/ /\ calls' = (calls \ {c}) \cup {[c EXCEPT !.at = IF c.at = "update" THEN "failed" ELSE "unread"]}
        /\ UNCHANGED daemon
  /\ UNCHANGED <<link, feed, streaming, view, knob, writer, losses, edits>>

Cleared(k) == [k EXCEPT !.pending = NoLogRow, !.pendingEpoch = 0, !.reloading = FALSE]

\* LoggingObservedMsg: the shell's gate first, then the page, which takes the
\* answer for its pending row when the epoch is the one it waits for.
LoggingObserved(c) ==
  LET taken == Observes(c.epoch, c.rev)
      v == IF taken THEN Observed(c.rev, c.cfg) ELSE view
      k == IF taken THEN LoggingSync(v) ELSE knob
  IN /\ c.at = "observed"
     /\ calls' = calls \ {c}
     /\ view' = v
     /\ writer' = IF taken THEN Submit(v.cfg) ELSE writer
     /\ knob' = IF k.pending # NoLogRow /\ k.pendingEpoch = c.epoch THEN Cleared(k) ELSE k
     /\ UNCHANGED <<daemon, link, feed, streaming, losses, edits>>

\* loggingUpdateResultMsg and loggingReloadResultMsg: only the pending row of
\* the same epoch is answered; a conflict reads the settings again.
LoggingFailed(c) ==
  LET mine == knob.pending = c.row /\ knob.pendingEpoch = c.epoch IN
  /\ c.at \in {"conflict", "failed", "unread"}
  /\ IF c.at = "conflict" /\ mine /\ c.epoch = knob.epoch
     THEN /\ knob' = [knob EXCEPT !.reloading = TRUE]
          /\ calls' = (calls \ {c}) \cup {[c EXCEPT !.at = "reload"]}
     ELSE /\ calls' = calls \ {c}
          /\ knob' = IF mine THEN Cleared(knob) ELSE knob
  /\ UNCHANGED <<daemon, link, feed, streaming, view, writer, losses, edits>>

-----------------------------------------------------------------------------
(* The applier's goroutine. generation is compared for equality only, so   *)
(* it is kept as: has it changed since the configuration was taken. At     *)
(* rest the configuration taken last is the one in force.                  *)

\* run: the wake signal is drained before the newest configuration is taken.
Taken == [writer EXCEPT !.at = "apply", !.wake = FALSE, !.cfg = writer.latest, !.changed = FALSE]

ApplierTakes ==
  /\ writer.at = "idle" /\ writer.wake
  /\ writer' = Taken
  /\ UNCHANGED <<daemon, link, feed, streaming, view, knob, calls, losses, edits>>

\* A configuration submitted meanwhile is taken without another signal: the
\* generation is compared again after every application.
ApplierApplies ==
  /\ writer.at = "apply"
  /\ writer' = IF writer.changed THEN Taken ELSE [writer EXCEPT !.at = "idle"]
  /\ UNCHANGED <<daemon, link, feed, streaming, view, knob, calls, losses, edits>>

TsNext ==
  \/ Change \/ Lose \/ Return
  \/ Status \/ PollLogging \/ Connected \/ SuperviseStreams
  \/ ApplySessionEvent
  \/ \E row \in LogRows : StartLoggingUpdate(row)
  \/ \E c \in calls : Answer(c) \/ LoggingObserved(c) \/ LoggingFailed(c)
  \/ ApplierTakes \/ ApplierApplies

TsSpec == TsInit /\ [][TsNext]_tsVars

-----------------------------------------------------------------------------
(* What the session promises.                                              *)

Revisions == None..MaxRevision

\* Every part keeps its shape, and the shell and its page always agree: the
\* page's epoch, availability and configuration are the shell's, which never
\* runs ahead of the session's epoch.
TsTypeOK ==
  /\ daemon.rev \in 0..MaxRevision /\ daemon.cfg \in 0..daemon.rev
  /\ link.at \in {"status", "probe", "logging", "connected", "wait"}
  /\ link.rev \in Revisions /\ Len(feed) <= QueueSize
  /\ view.rev \in Revisions /\ view.epoch <= link.epoch /\ view.statusEpoch <= link.epoch
  /\ knob.epoch = view.epoch /\ knob.available = view.loaded /\ knob.cfg = view.cfg
  /\ knob.pending \in LogRows \cup {NoLogRow}

\* Once the session has polled the daemon's current revision and the shell
\* has taken every snapshot, the shell shows the daemon's logging settings:
\* no mixture of dropped, overtaken and repeated answers leaves it behind.
LoggingSettles ==
  (/\ link.at = "wait" /\ ~link.applying /\ feed = <<>> /\ link.cap
   /\ link.seen = daemon.rev /\ link.rev >= link.seen)
     => view.loaded /\ view.cfg = daemon.cfg

\* A logging row that shows progress waits for an answer still to come, so
\* it never stays pending: startLoggingUpdate, reloadLogging and every
\* handler that drops an answer keep row and request together.
PendingAnswered ==
  knob.pending # NoLogRow => \E c \in calls : c.epoch = knob.pendingEpoch

\* Whenever the applier rests, the interface's own log file runs with the
\* configuration the shell shows, or the bootstrap one when it shows none.
WriterFollows ==
  (writer.at = "idle" /\ ~writer.wake) => writer.cfg = view.cfg

\* Streams run only within one connection: their producers are joined before
\* the session reconnects or its owner closes the logger.
StreamsJoined == streaming => link.next = "wait"

\* Within an epoch the shell never goes back to an older revision of the
\* logging settings, whichever way the answer came.
LoggingNeverOlder ==
  view'.epoch >= view.epoch /\ (view'.epoch = view.epoch => view'.rev >= view.rev)

\* Everything above that a reachable state promises.
TsSafe ==
  /\ TsTypeOK /\ LoggingSettles /\ PendingAnswered /\ WriterFollows /\ StreamsJoined

\* Everything above that a step promises.
TsStepOK ==
  /\ LoggingNeverOlder
=============================================================================
