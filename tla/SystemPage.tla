----------------------------- MODULE SystemPage -----------------------------
(***************************************************************************)
(* The System page of the terminal interface and the part of the root      *)
(* shell it works with (internal/tui/model.go, prepared_update.go, run.go  *)
(* and pages/system): a row asks for an action, the shell confirms it in   *)
(* its one dialog and runs it, the page shows progress and outcome, a      *)
(* prepared self update is confirmed, handed to Run and applied after the  *)
(* interface has closed.                                                   *)
(*                                                                         *)
(* Every command of the event loop runs in its own goroutine and answers   *)
(* with one message, so mail is a set: messages arrive in any order, and   *)
(* between any two of them the user may press a key.                       *)
(***************************************************************************)
EXTENDS Naturals, FiniteSets

CONSTANTS
  Rows,        \* the rows the user works with, a subset of ActionRows
  MaxPresses   \* bound on the Enter keys pressed on rows, and on leaving the page

ActionRows == {"service", "core", "proxy", "channel", "uninstall", "update"}

ASSUME PressesAssumption == Rows \subseteq ActionRows /\ MaxPresses \in Nat

VARIABLES
  page,       \* the System page's model
  shell,      \* the root model: active page, dialog, actions in flight, quit decision
  mail,       \* messages and running commands of the event loop
  presses,    \* keys counted so far; the number identifies what an Enter started
  candidates, \* runPreparedUpdater: candidates a Prepare brought, and those closed
  consent,    \* intents the user confirmed, as <<action, press>>
  stage       \* Run: "loop", then "joined", "applied" and "done"

spVars == <<page, shell, mail, presses, candidates, consent, stage>>

NoRow == "none"
NoIntent == [act |-> "none", n |-> 0]

\* Actions of the page's rows: the row an outcome goes to, and whether the
\* shell lets the action pass only with a live control session.
Acts == ActionRows \cup {"force", "uninstall2", "command"}
RowOf(act) ==
  CASE act = "force" -> "proxy" [] act \in {"uninstall2", "command"} -> "uninstall" [] OTHER -> act
RequiresDaemon(act) == act \in {"core", "proxy", "force"}

\* rowProgressForAction: complete uninstallation has no progress row.
ProgressRow(act) == IF RowOf(act) = "uninstall" THEN NoRow ELSE RowOf(act)

\* pendingActions key: a prepared update's key carries its generation.
KeyOf(i) == IF i.act = "update" THEN <<"update", i.n>> ELSE <<i.act, 0>>

Msg(t, i) == [t |-> t, act |-> i.act, n |-> i.n]
Stamp(t, gen) == [t |-> t, act |-> "none", n |-> gen]

\* The rail has just landed on the page: its first version check is running.
SpInit ==
  /\ page = [pending |-> FALSE, row |-> NoRow, outcome |-> NoRow, ok |-> FALSE,
             spinning |-> TRUE, spinGen |-> 1, prep |-> 0, prepared |-> 0,
             checking |-> 1, checks |-> 1, available |-> FALSE]
  /\ shell = [active |-> TRUE, modal |-> NoIntent, keys |-> {}, enabled |-> TRUE,
              handed |-> 0, erase |-> 0]
  /\ mail = {Stamp("check", 1), Stamp("tick", 1)}
  /\ presses = 0
  /\ candidates = [made |-> {}, closed |-> {}]
  /\ consent = {}
  /\ stage = "loop"

-----------------------------------------------------------------------------
(* The page's helpers. *)

HasRowProgress(p) == (p.pending /\ p.row # NoRow) \/ p.checking # 0

RowSpinCmdIfNeeded(p) ==
  IF ~HasRowProgress(p) THEN [p EXCEPT !.spinning = FALSE]
  ELSE IF p.spinning THEN p
  ELSE [p EXCEPT !.spinning = TRUE, !.spinGen = @ + 1]

\* The animation command a handler returns: one tick of the generation it started.
Animated(p) == IF p.spinGen # page.spinGen THEN {Stamp("tick", p.spinGen)} ELSE {}

\* Mutant: the spinner's row is left behind.
ClearRowPendingKeepsRow(p) == [p EXCEPT !.pending = FALSE]
ClearRowPending(p) == [p EXCEPT !.pending = FALSE, !.row = NoRow]
MarkRowOutcome(p, row, ok) == [p EXCEPT !.outcome = row, !.ok = ok]

BeginRowPending(p, act) ==
  IF ProgressRow(act) = NoRow THEN p
  ELSE [p EXCEPT !.pending = TRUE, !.row = ProgressRow(act), !.outcome = NoRow, !.ok = FALSE]

InvalidateMihariCheck(p) == [p EXCEPT !.checks = @ + 1, !.checking = 0, !.available = FALSE]

CheckMihariVersion(p) ==
  IF p.pending \/ p.prepared # 0 \/ p.checking # 0 THEN p
  ELSE [p EXCEPT !.checks = @ + 1, !.checking = p.checks + 1,
                 !.outcome = IF @ = "update" THEN NoRow ELSE @]

\* The check command itself, when the guard let it start.
Checked(p) == IF p.checking # 0 /\ p.checking # page.checking THEN {Stamp("check", p.checking)} ELSE {}

CancelMihariPreparation(p) ==
  LET cleared == [p EXCEPT !.prep = @ + 1, !.prepared = 0] IN
  IF p.prepared # 0 \/ p.row = "update" THEN MarkRowOutcome(ClearRowPending(cleared), "update", FALSE)
  ELSE cleared

Discard(gens) == {Stamp("discard", g) : g \in gens \ {0}}

AcceptsMihariPreparation(i) == page.prepared # 0 /\ i.n = page.prep

CancelCommand(i) ==
  CASE i.act = "update" -> {Stamp("canceled", i.n)}
    [] i.act = "command" -> {Stamp("erase", i.n)}
    [] OTHER -> {}

Stale(i) == i.act = "update" /\ ~(shell.active /\ AcceptsMihariPreparation(i))

-----------------------------------------------------------------------------
(* What the user does. *)

Looking == stage = "loop" /\ shell.active /\ shell.modal = NoIntent

\* startMihariPreparation: an owned download, behind the row's progress.
StartMihariPreparation ==
  /\ page.prepared = 0
  /\ LET p == RowSpinCmdIfNeeded(BeginRowPending(InvalidateMihariCheck([page EXCEPT !.prep = @ + 1]), "update"))
     IN page' = p /\ mail' = mail \cup {Stamp("prepare", p.prep)} \cup Animated(p)

UpdateRow ==
  \/ page.available /\ StartMihariPreparation
  \/ /\ ~page.available
     /\ LET p == CheckMihariVersion(page)
            q == RowSpinCmdIfNeeded(p)
        IN page' = q /\ mail' = mail \cup Checked(p) \cup Animated(q)

\* The other rows only ask the shell; what they ask with is captured here.
AskShell(row) ==
  /\ mail' = mail \cup {Msg("intent", [act |-> row, n |-> presses + 1])}
  /\ UNCHANGED page

ConfirmServiceAction == AskShell("service")
ConfirmCoreAction == shell.enabled /\ AskShell("core")
ConfirmNetworkToggle == shell.enabled /\ AskShell("proxy")
ConfirmSwitchMihariChannel == AskShell("channel")

\* Uninstallation looks first, and does not make the page pending meanwhile.
PreviewCompleteUninstall ==
  /\ mail' = mail \cup {Msg("preview", [act |-> "uninstall", n |-> presses + 1])}
  /\ UNCHANGED page

Enter(row) ==
  /\ Looking /\ ~page.pending /\ presses < MaxPresses
  /\ presses' = presses + 1
  /\ CASE row = "update" -> UpdateRow
       [] row = "service" -> ConfirmServiceAction
       [] row = "core" -> ConfirmCoreAction
       [] row = "proxy" -> ConfirmNetworkToggle
       [] row = "channel" -> ConfirmSwitchMihariChannel
       [] row = "uninstall" -> PreviewCompleteUninstall
  /\ UNCHANGED <<shell, candidates, consent, stage>>

Esc ==
  /\ Looking
  /\ page.prepared # 0 \/ page.row = "update"
  /\ page' = CancelMihariPreparation(page)
  /\ mail' = mail \cup Discard({page.prepared})
  /\ UNCHANGED <<shell, presses, candidates, consent, stage>>

Confirm ==
  /\ stage = "loop" /\ shell.modal # NoIntent
  /\ shell' = [shell EXCEPT !.modal = NoIntent]
  /\ mail' = mail \cup {Msg("execute", shell.modal)}
  /\ consent' = consent \cup {<<shell.modal.act, shell.modal.n>>}
  /\ UNCHANGED <<page, presses, candidates, stage>>

CloseModal ==
  /\ stage = "loop" /\ shell.modal # NoIntent
  /\ shell' = [shell EXCEPT !.modal = NoIntent]
  /\ mail' = mail \cup CancelCommand(shell.modal)
  /\ UNCHANGED <<page, presses, candidates, consent, stage>>

\* A rail key without a dialog, or a daemon that requires setup at any time:
\* clearSystemDoneIfLeaving drops the badges, the dialog and the preparation.
Leave ==
  /\ stage = "loop" /\ shell.active /\ presses < MaxPresses
  /\ presses' = presses + 1
  /\ shell' = [shell EXCEPT !.active = FALSE, !.modal = NoIntent]
  /\ page' = CancelMihariPreparation([page EXCEPT !.outcome = NoRow, !.ok = FALSE])
  /\ mail' = mail \cup Discard({page.prepared})
  /\ UNCHANGED <<candidates, consent, stage>>

\* landRailPage on System loads it, version checks included.
Land ==
  /\ stage = "loop" /\ ~shell.active /\ shell.modal = NoIntent
  /\ shell' = [shell EXCEPT !.active = TRUE]
  /\ LET p == CheckMihariVersion(page)
         q == RowSpinCmdIfNeeded(p)
     IN page' = q /\ mail' = mail \cup Checked(p) \cup Animated(q)
  /\ UNCHANGED <<presses, candidates, consent, stage>>

\* The control session drops.
Disconnect ==
  /\ stage = "loop" /\ shell.enabled
  /\ shell' = [shell EXCEPT !.enabled = FALSE]
  /\ UNCHANGED <<page, mail, presses, candidates, consent, stage>>

Quit ==
  /\ stage = "loop" /\ shell.modal = NoIntent
  /\ mail' = mail \cup {Stamp("quit", 0)}
  /\ UNCHANGED <<page, shell, presses, candidates, consent, stage>>

-----------------------------------------------------------------------------
(* What the shell does with a message. *)

Take(m) == stage = "loop" /\ m \in mail

\* handleActionIntent on a shell state s: the one dialog is simply replaced.
HandleActionIntent(s, i, rest) ==
  IF Stale(i) THEN shell' = s /\ mail' = rest \cup CancelCommand(i)
  ELSE IF (RequiresDaemon(i.act) /\ ~s.enabled) \/ KeyOf(i) \in s.keys
  THEN shell' = s /\ mail' = rest
  ELSE shell' = [s EXCEPT !.modal = i] /\ mail' = rest

Intent(i) ==
  /\ Take(Msg("intent", i))
  /\ HandleActionIntent(shell, i, mail \ {Msg("intent", i)})
  /\ UNCHANGED <<page, presses, candidates, consent, stage>>

\* executeAction: the row's progress is armed before the work starts.
Execute(i) ==
  /\ Take(Msg("execute", i))
  /\ LET rest == mail \ {Msg("execute", i)}
         armed == IF i.act = "channel" THEN InvalidateMihariCheck(page) ELSE page
         p == RowSpinCmdIfNeeded(BeginRowPending(armed, i.act))
     IN IF Stale(i) THEN mail' = rest \cup CancelCommand(i) /\ UNCHANGED <<page, shell>>
        ELSE /\ shell' = [shell EXCEPT !.keys = @ \cup {KeyOf(i)}]
             /\ page' = p
             /\ mail' = rest \cup {Msg("run", i)} \cup Animated(p)
  /\ UNCHANGED <<presses, candidates, consent, stage>>

Released(i) == [shell EXCEPT !.keys = @ \ {KeyOf(i)}]

\* A confirmed preparation of the current generation asks Run to take over.
UpdateCompleted(i, rest) ==
  /\ shell' = Released(i)
  /\ IF Stale(i) THEN mail' = rest \cup CancelCommand(i) /\ UNCHANGED page
     ELSE page' = ClearRowPending(page) /\ mail' = rest \cup {Stamp("relaunch", i.n)}

\* Complete uninstallation asks twice, and once more for an unmatched command file.
UninstallCompleted(i, rest) ==
  \/ /\ i.act = "uninstall" \/ i.act = "uninstall2"
     /\ HandleActionIntent(Released(i), [i EXCEPT !.act = IF @ = "uninstall" THEN "uninstall2" ELSE "command"], rest)
     /\ UNCHANGED page
  \/ /\ i.act # "uninstall"
     /\ shell' = [Released(i) EXCEPT !.erase = i.n]
     /\ mail' = rest \cup {Stamp("quit", 0)}
     /\ UNCHANGED page
  \/ /\ i.act = "uninstall2"
     /\ shell' = Released(i)
     /\ page' = RowSpinCmdIfNeeded(MarkRowOutcome(page, "uninstall", FALSE))
     /\ mail' = rest

\* The page's result handlers show an outcome, on the row they find pending.
Shown(i, p, rest) ==
  LET q == RowSpinCmdIfNeeded(p) IN
  shell' = Released(i) /\ page' = q /\ mail' = rest \cup Animated(q)

OutcomeRowID(i) == IF page.row # NoRow THEN page.row ELSE RowOf(i.act)

\* actionResultMsg and serviceResultMsg: done, failed, or refused by revision.
ActionResult(i, rest) ==
  \E ok \in BOOLEAN : Shown(i, MarkRowOutcome(ClearRowPending(page), OutcomeRowID(i), ok), rest)

\* System proxy and TUN: a conflict asks again, with force.
NetworkActionResult(i, rest) ==
  \/ ActionResult(i, rest)
  \/ i.act = "proxy" /\ Shown(i, ClearRowPending(page), rest \cup {Msg("intent", [i EXCEPT !.act = "force"])})

\* mihariChannelResultMsg: the error path keeps the discarded candidate for Run.
MihariChannelResult(i, rest) ==
  LET p == ClearRowPending(CancelMihariPreparation(InvalidateMihariCheck(page)))
      c == CheckMihariVersion(MarkRowOutcome(p, "channel", TRUE))
  IN \/ Shown(i, MarkRowOutcome(p, "channel", FALSE), rest)
     \/ Shown(i, c, rest \cup Discard({page.prepared}) \cup Checked(c))

Completed(i) ==
  /\ Take(Msg("run", i))
  /\ LET rest == mail \ {Msg("run", i)} IN
     CASE i.act = "update" -> UpdateCompleted(i, rest)
       [] RowOf(i.act) = "uninstall" -> UninstallCompleted(i, rest)
       [] RowOf(i.act) = "proxy" -> NetworkActionResult(i, rest)
       [] i.act = "channel" -> MihariChannelResult(i, rest)
       [] OTHER -> ActionResult(i, rest)
  /\ UNCHANGED <<presses, candidates, consent, stage>>

\* The preview answers the active page: after leaving System it is lost.
Preview(i) ==
  /\ Take(Msg("preview", i))
  /\ LET rest == mail \ {Msg("preview", i)} IN
     \/ shell.active /\ mail' = rest \cup {Msg("intent", i)} /\ UNCHANGED page
     \/ shell.active /\ mail' = rest /\ page' = RowSpinCmdIfNeeded(MarkRowOutcome(page, "uninstall", FALSE))
     \/ ~shell.active /\ mail' = rest /\ UNCHANGED page
  /\ UNCHANGED <<shell, presses, candidates, consent, stage>>

\* A tick of the current generation goes on while there is progress to show.
Tick(m) ==
  /\ m.t = "tick"
  /\ IF m.n = page.spinGen /\ HasRowProgress(page) THEN UNCHANGED <<page, mail>>
     ELSE /\ page' = IF m.n = page.spinGen THEN [page EXCEPT !.spinning = FALSE] ELSE page
          /\ mail' = mail \ {m}
  /\ UNCHANGED <<shell, candidates>>

CheckResult(m) ==
  /\ m.t = "check"
  /\ IF m.n # page.checks THEN UNCHANGED page
     ELSE \/ page' = RowSpinCmdIfNeeded(MarkRowOutcome([page EXCEPT !.checking = 0, !.available = FALSE], "update", FALSE))
          \/ \E found \in BOOLEAN :
               page' = RowSpinCmdIfNeeded([page EXCEPT !.checking = 0, !.available = found,
                                                       !.outcome = IF @ = "update" THEN NoRow ELSE @])
  /\ mail' = mail \ {m}
  /\ UNCHANGED <<shell, candidates>>

\* Prepare ends: what it brought belongs to runPreparedUpdater from then on.
Prepared(m) ==
  /\ m.t = "prepare"
  /\ \/ /\ candidates' = [candidates EXCEPT !.made = @ \cup {m.n}]
        /\ mail' = (mail \ {m}) \cup {Stamp("prepared", m.n)}
     \/ /\ mail' = (mail \ {m}) \cup {Stamp("unprepared", m.n)}
        /\ UNCHANGED candidates
  /\ UNCHANGED <<page, shell>>

HandlePreparedMihariResult(m) ==
  /\ m.t \in {"prepared", "unprepared"}
  /\ LET rest == mail \ {m} IN
     CASE m.n # page.prep -> mail' = rest \cup Discard({m.n} \cap candidates.made) /\ UNCHANGED page
       [] m.n = page.prep /\ m.t = "prepared" ->
            /\ page' = [ClearRowPending(page) EXCEPT !.prepared = m.n]
            /\ mail' = rest \cup {Msg("intent", [act |-> "update", n |-> m.n])}
       [] OTHER -> /\ \/ page' = MarkRowOutcome(ClearRowPending(page), "update", FALSE)
                      \/ page' = ClearRowPending(page)      \* nothing newer
                   /\ mail' = rest
  /\ UNCHANGED <<shell, candidates>>

PreparedCanceled(m) ==
  /\ m.t = "canceled"
  /\ IF m.n # page.prep THEN mail' = (mail \ {m}) \cup Discard({m.n}) /\ UNCHANGED page
     ELSE /\ page' = CancelMihariPreparation(page)
          /\ mail' = (mail \ {m}) \cup Discard({page.prepared})
  /\ UNCHANGED <<shell, candidates>>

\* RelaunchRequestMsg: asked once more before Run may apply the candidate.
Relaunch(m) ==
  /\ m.t = "relaunch"
  /\ IF Stale([act |-> "update", n |-> m.n])
     THEN mail' = (mail \ {m}) \cup Discard({m.n}) /\ UNCHANGED shell
     ELSE /\ shell' = [shell EXCEPT !.handed = m.n]
          /\ mail' = (mail \ {m}) \cup {Stamp("quit", 0)}
  /\ UNCHANGED <<page, candidates>>

DiscardPrepared(m) ==
  /\ m.t = "discard"
  /\ candidates' = [candidates EXCEPT !.closed = @ \cup {m.n}]
  /\ mail' = mail \ {m}
  /\ UNCHANGED <<page, shell>>

\* CompleteUninstallConfirmedMsg sent by a dialog that was closed.
EraseConfirmed(m) ==
  /\ m.t = "erase"
  /\ shell' = [shell EXCEPT !.erase = m.n]
  /\ mail' = (mail \ {m}) \cup {Stamp("quit", 0)}
  /\ UNCHANGED <<page, candidates>>

Deliver(m) ==
  /\ Take(m)
  /\ \/ Tick(m) \/ CheckResult(m) \/ Prepared(m) \/ HandlePreparedMihariResult(m)
     \/ PreparedCanceled(m) \/ Relaunch(m) \/ DiscardPrepared(m) \/ EraseConfirmed(m)
  /\ UNCHANGED <<presses, consent, stage>>

-----------------------------------------------------------------------------
(* Run, after the event loop. *)

\* The quit message ends the loop; shutdown joins the workers, whose results
\* stay with runPreparedUpdater.
Shutdown ==
  /\ Take(Stamp("quit", 0))
  /\ stage' = "joined"
  /\ \E late \in SUBSET {m \in mail : m.t = "prepare"} :
       candidates' = [candidates EXCEPT !.made = @ \cup {m.n : m \in late}]
  /\ mail' = {}
  /\ UNCHANGED <<page, shell, presses, consent>>

\* finishCompleteUninstallRun comes first; a handed candidate is applied and
\* closed, and close() releases every candidate Prepare ever brought.
FinishRun ==
  /\ stage = "joined"
  /\ stage' = IF shell.erase = 0 /\ shell.handed # 0 THEN "applied" ELSE "done"
  /\ candidates' = IF stage' = "done" THEN [candidates EXCEPT !.closed = @ \cup candidates.made] ELSE candidates
  /\ UNCHANGED <<page, shell, mail, presses, consent>>

CloseCandidates ==
  /\ stage = "applied"
  /\ stage' = "done"
  /\ candidates' = [candidates EXCEPT !.closed = @ \cup candidates.made]
  /\ UNCHANGED <<page, shell, mail, presses, consent>>

ShellStep(i) == Intent(i) \/ Execute(i) \/ Completed(i) \/ Preview(i)

SpNext ==
  \/ \E row \in Rows : Enter(row)
  \/ Esc \/ Confirm \/ CloseModal \/ Leave \/ Land \/ Disconnect \/ Quit
  \/ \E m \in mail : ShellStep([act |-> m.act, n |-> m.n])
  \/ \E m \in mail : Deliver(m)
  \/ Shutdown \/ FinishRun \/ CloseCandidates

SpSpec == SpInit /\ [][SpNext]_spVars

-----------------------------------------------------------------------------
(* Properties. *)

\* Types, and the row discipline: a progress row is shown only while the page
\* is pending, and an update row with a candidate to confirm is not pending
\* on its preparation any more.
SpTypeOK ==
  /\ page.pending \in BOOLEAN /\ page.row \in ActionRows \cup {NoRow}
  /\ page.outcome \in ActionRows \cup {NoRow} /\ page.ok \in BOOLEAN
  /\ page.pending = (page.row # NoRow)
  /\ page.prepared \in {0, page.prep} \cap (candidates.made \cup {0})
  /\ page.checking \in {0, page.checks}
  /\ shell.modal.act \in Acts \cup {"none"} /\ shell.handed \in candidates.made \cup {0}
  /\ stage \in {"loop", "joined", "applied", "done"}

\* Progress is always animated and the animation is really running: whenever a
\* row shows progress, rowSpinning is set and a tick of the current generation
\* is on its way, whatever handlers cleared or replaced the progress before.
SpinnerAlive ==
  stage = "loop" =>
    /\ HasRowProgress(page) => page.spinning
    /\ page.spinning => Stamp("tick", page.spinGen) \in mail

\* pendingActions never leaks a key: while a key blocks new intents, the action
\* that holds it is still running and will release it.
KeysHeld ==
  stage = "loop" =>
    \A k \in shell.keys : \E m \in mail : m.t = "run" /\ KeyOf([act |-> m.act, n |-> m.n]) = k

\* Run is handed a prepared update only when the user confirmed exactly that
\* candidate, however often the dialog was replaced or the page left between.
UpdateConsented == shell.handed # 0 => <<"update", shell.handed>> \in consent

\* Complete uninstallation starts only after both confirmations of one request.
EraseConsented ==
  shell.erase # 0 => {<<"uninstall", shell.erase>>, <<"uninstall2", shell.erase>>} \subseteq consent

\* No candidate outlives the interface: once Run returns, everything a Prepare
\* brought has been closed, late preparations and lost results included.
CandidatesReleased == stage = "done" => candidates.made \subseteq candidates.closed

\* A candidate Run is about to apply has not been closed under it.
AppliedOpen == stage = "applied" => shell.handed \notin candidates.closed

\* Everything above that a reachable state promises.
SpSafe ==
  /\ SpTypeOK /\ SpinnerAlive /\ KeysHeld /\ UpdateConsented /\ EraseConsented
  /\ CandidatesReleased
=============================================================================
