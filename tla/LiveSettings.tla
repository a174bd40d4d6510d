---------------------------- MODULE LiveSettings ----------------------------
(***************************************************************************)
(* Changes of what the core or the operating system runs right now, in     *)
(* internal/runtime: TUN, routing mode, outbound interface, logging level  *)
(* and system proxy. Each one keeps four things together: the settings     *)
(* file, the settings in memory, the core's configuration file and the     *)
(* live state, which it confirms by reading it back; when a step fails it  *)
(* puts the others back, or sets the degraded latch. A field has two       *)
(* values; "mode" is TRUE for global routing, which falls back to rule     *)
(* when a reload finds no exit for it.                                     *)
(***************************************************************************)
EXTENDS Integers, FiniteSets

CONSTANTS
  Setters,       \* goroutines serving a change, each serves one
  SetterKinds,   \* the fields each of them may change
  MaxLvFaults,   \* bound: failing writes, reloads, patches and readings
  MaxLvEvents    \* bound: core exits, daemon crashes, drifts, lost exits

VARIABLES
  sDisk, sMem,   \* the settings file and Manager.settings
  confFile,      \* the core's configuration file
  live,          \* what the core and the system report
  exitOK,        \* GLOBAL has a selectable exit
  settingsGen,   \* Manager.configGeneration
  coreRun, coreEpoch,
  chg,           \* where each change stands
  keeper,        \* who holds Manager.maintenance
  brokenLatch,   \* Manager.mutationDegraded
  unsaved,       \* Manager.loggingUnsaved
  trustedTun,    \* Manager.trustedCore is set
  lvFaults, lvEvents

lvVars == <<sDisk, sMem, confFile, live, exitOK, settingsGen, coreRun, coreEpoch, chg, keeper,
            brokenLatch, unsaved, trustedTun, lvFaults, lvEvents>>
lvFixed == <<exitOK, coreRun, coreEpoch, trustedTun, lvEvents>>

CoreFields == {"tun", "mode", "level", "egress"}
Fields     == CoreFields \cup {"proxy"}
Unheld     == "unheld"

OnCore(s) == [f \in CoreFields |-> s[f]]
\* The live state once the core runs configuration c.
Running(c, l) == [f \in Fields |-> IF f \in CoreFields THEN c[f] ELSE l[f]]
Off == [f \in Fields |-> FALSE]

NoChange == [at |-> "rest", field |-> "mode", val |-> FALSE, gen |-> 0, epoch |-> 0,
             before |-> Off, after |-> Off, old |-> Off, prev |-> OnCore(Off),
             touched |-> FALSE, reloaded |-> FALSE, staged |-> FALSE, result |-> "none"]

LvInit ==
  /\ sDisk = [Off EXCEPT !["mode"] = TRUE] /\ sMem = sDisk
  /\ confFile = OnCore(sDisk) /\ live = sDisk
  /\ exitOK = TRUE /\ settingsGen = 0
  /\ coreRun = TRUE /\ coreEpoch = 0
  /\ chg = [w \in Setters |-> NoChange]
  /\ keeper = Unheld
  /\ brokenLatch = FALSE /\ unsaved = FALSE
  /\ trustedTun \in BOOLEAN
  /\ lvFaults = 0 /\ lvEvents = 0

LvFault(n) == lvFaults + n <= MaxLvFaults /\ lvFaults' = lvFaults + n
LvOK == UNCHANGED lvFaults
ChgTo(w, p) == chg' = [chg EXCEPT ![w].at = p]
LvEndKeeps(w, res) ==
  /\ chg' = [chg EXCEPT ![w] = [NoChange EXCEPT !.at = "over", !.result = res]]
  /\ keeper' = IF keeper = w /\ res = "ok" THEN Unheld ELSE keeper
\* The change ends with a result, and its deferred unlock returns the token.
LvEnd(w, res) ==
  /\ chg' = [chg EXCEPT ![w] = [NoChange EXCEPT !.at = "over", !.result = res]]
  /\ keeper' = IF keeper = w THEN Unheld ELSE keeper
\* The settings the change wants, over the ones in memory now.
Wanted(w) == [sMem EXCEPT ![chg[w].field] = chg[w].val]
\* publishSettings: the generation moves only with the settings.
PublishSettings(s) == sMem' = s /\ settingsGen' = IF s = sMem THEN settingsGen ELSE settingsGen + 1

Trusted(w) == chg[w].field = "tun" /\ trustedTun
Prepared(w) == chg[w].field \in {"level", "egress"} \/ Trusted(w)
\* The first step under the token.
FirstStep(w) == CASE chg[w].field \in {"tun", "proxy"} -> "stage"
                  [] chg[w].field \in {"mode", "level"} -> IF coreRun THEN "patch" ELSE "save"
                  [] OTHER -> "apply"
-----------------------------------------------------------------------------
(* Before the token.                                                       *)

Ask(w, f, v) ==
  /\ chg[w].at = "rest"
  /\ chg' = [chg EXCEPT ![w].field = f, ![w].val = v, ![w].at =
               IF f \in {"level", "egress"} \/ (f = "tun" /\ trustedTun) THEN "prepare" ELSE "lock"]
  /\ UNCHANGED <<sDisk, sMem, confFile, live, settingsGen, keeper, brokenLatch, unsaved, lvFaults, lvFixed>>

Hold(w, p) ==
  /\ keeper' = w
  /\ chg' = [chg EXCEPT ![w].before = sMem, ![w].old = live, ![w].prev = confFile, ![w].at = p,
                       ![w].after = IF Prepared(w) /\ coreRun THEN @ ELSE Wanted(w)]

\* prepareLoggingUpdate, prepareEgress and mutateTrustedTun: the inputs are
\* captured under the token, which is returned while mihomo validates the
\* candidate; with a stopped core there is no candidate and the token is kept.
PrepareChange(w) ==
  /\ chg[w].at = "prepare" /\ keeper = Unheld
  /\ \/ brokenLatch /\ LvEnd(w, "refused") /\ LvOK
     \/ /\ ~brokenLatch /\ Trusted(w) /\ LvFault(1) /\ LvEnd(w, "failed")
     \/ /\ ~brokenLatch /\ chg[w].field = "egress" /\ Wanted(w) = sMem /\ LvEnd(w, "ok") /\ LvOK
     \/ /\ ~brokenLatch /\ coreRun /\ LvOK
        /\ Trusted(w) => ~unsaved /\ sMem["level"] = live["level"]    \* SyncLogging went first
        /\ ~(chg[w].field = "egress" /\ Wanted(w) = sMem)
        /\ chg' = [chg EXCEPT ![w].gen = settingsGen, ![w].epoch = coreEpoch,
                             ![w].after = Wanted(w), ![w].at = "lock"]
        /\ UNCHANGED keeper
     \/ /\ ~brokenLatch /\ ~coreRun /\ LvOK
        /\ ~(chg[w].field = "egress" /\ Wanted(w) = sMem)
        /\ IF Trusted(w) THEN LvEnd(w, "failed") ELSE Hold(w, "save")
  /\ UNCHANGED <<sDisk, sMem, confFile, live, settingsGen, brokenLatch, unsaved, lvFixed>>

\* lockMutation, and the captured inputs are compared again.
LockChange(w) ==
  LET stale == Prepared(w) /\ \/ chg[w].gen # settingsGen
                              \/ ~Trusted(w) /\ (chg[w].epoch # coreEpoch \/ ~coreRun)
  IN
  /\ chg[w].at = "lock" /\ keeper = Unheld
  /\ \/ brokenLatch /\ LvEnd(w, "refused")
     \/ ~brokenLatch /\ stale /\ LvEnd(w, "conflict")
     \/ ~brokenLatch /\ ~stale /\ Hold(w, FirstStep(w))
  /\ UNCHANGED <<sDisk, sMem, confFile, live, settingsGen, brokenLatch, unsaved, lvFaults, lvFixed>>
-----------------------------------------------------------------------------
(* Under the token.                                                        *)

\* TUN and system proxy save first; the request may be cancelled right after.
\* A trusted TUN change stages the file only and publishes in memory at its end.
StageSettings(w) ==
  /\ chg[w].at = "stage"
  /\ \/ /\ sDisk' = chg[w].after
        /\ IF Trusted(w) THEN UNCHANGED <<sMem, settingsGen>> ELSE PublishSettings(chg[w].after)
        /\ \/ LvOK /\ chg' = [chg EXCEPT ![w].staged = chg[w].after # sMem, ![w].at = "apply"]
           \/ ~Trusted(w) /\ LvFault(1) /\ ChgTo(w, "undo")
        /\ UNCHANGED keeper
     \/ LvFault(1) /\ LvEnd(w, "failed") /\ UNCHANGED <<sDisk, sMem, settingsGen>>
  /\ UNCHANGED <<confFile, live, brokenLatch, unsaved, lvFixed>>

\* The core does not answer the reading that comes before the first effect.
ObserveFails(w) ==
  /\ chg[w].at = "patch" \/ (chg[w].at = "apply" /\ chg[w].field = "egress")
  /\ IF coreRun /\ ~(unsaved /\ chg[w].field = "egress") THEN LvFault(1) ELSE LvOK
  /\ LvEnd(w, "failed")
  /\ UNCHANGED <<sDisk, sMem, confFile, live, settingsGen, brokenLatch, unsaved, lvFixed>>

\* changeRoutingLocked and commitLoggingCore: a patch may fail with or without
\* its effect, so that only reading it back decides. Global routing without an
\* exit becomes rule routing.
PatchLive(w) ==
  LET f == chg[w].field
      v == chg[w].val /\ (f = "mode" => exitOK)
  IN
  /\ chg[w].at = "patch" /\ coreRun
  /\ \/ /\ live' = [live EXCEPT ![f] = v] /\ LvOK
        /\ chg' = [chg EXCEPT ![w].val = v, ![w].touched = TRUE,
                             ![w].at = IF f = "level" THEN "apply" ELSE "save"]
     \/ /\ live' \in {live, [live EXCEPT ![f] = v]} /\ LvFault(1)
        /\ chg' = [chg EXCEPT ![w].touched = TRUE, ![w].at = "undo"]
  /\ UNCHANGED <<sDisk, sMem, confFile, settingsGen, keeper, brokenLatch, unsaved, lvFixed>>

\* commitRuntimeConfig: the file is replaced and reloaded, and the saved routing
\* is restored; without an exit for it rule routing is saved instead, from the
\* settings in memory.
Reload(w, c) ==
  LET s == [sMem EXCEPT !["mode"] = @ /\ exitOK] IN
  /\ coreRun /\ (unsaved => chg[w].field = "level")
  /\ confFile' = c
  /\ live' = [Running(c, live) EXCEPT !["mode"] = s["mode"]]
  /\ PublishSettings(s)
  /\ sDisk' = IF s = sMem THEN sDisk ELSE s

\* The reload fails and the previous file runs again, with the level written in
\* it, or that cannot be confirmed either.
ReloadFails(c) ==
  \/ /\ IF coreRun /\ ~unsaved THEN LvFault(1) ELSE LvOK
     /\ live' \in {live} \cup (IF coreRun THEN {[live EXCEPT !["level"] = confFile["level"]]} ELSE {})
     /\ UNCHANGED <<confFile, brokenLatch>>
  \/ /\ coreRun /\ LvFault(2) /\ brokenLatch' = TRUE
     /\ live' \in {live, Running(c, live)} /\ confFile' \in {confFile, c}

ApplyConfig(w) ==
  LET f == chg[w].field
      c == OnCore(chg[w].after)
      did == chg' = [chg EXCEPT ![w].at = "confirm", ![w].reloaded = TRUE, ![w].touched = TRUE]
  IN
  /\ chg[w].at = "apply" /\ f # "proxy"
  /\ \/ Reload(w, c) /\ did /\ LvOK /\ UNCHANGED brokenLatch
     \/ /\ f = "egress" => coreRun /\ ~unsaved    \* else ObserveFails
        /\ ReloadFails(c)
        /\ chg' = [chg EXCEPT ![w].touched = @ \/ (coreRun /\ ~Trusted(w)), ![w].at = "undo"]
        /\ UNCHANGED <<sDisk, sMem, settingsGen>>
     \/ \* the core accepts the configuration but cannot open the device
        /\ f = "tun" /\ Reload(w, [c EXCEPT !["tun"] = live["tun"]]) /\ did
        /\ LvFault(1) /\ UNCHANGED brokenLatch
     \/ \* without a trusted core a patch alone will do
        /\ f = "tun" /\ ~trustedTun /\ coreRun /\ LvFault(1)
        /\ live' = [live EXCEPT !["tun"] = chg[w].val]
        /\ chg' = [chg EXCEPT ![w].touched = TRUE, ![w].at = "confirm"]
        /\ UNCHANGED <<sDisk, sMem, confFile, settingsGen, brokenLatch>>
  /\ UNCHANGED <<keeper, unsaved, lvFixed>>

\* The operating system's proxy is switched.
ApplyProxy(w) ==
  /\ chg[w].at = "apply" /\ chg[w].field = "proxy"
  /\ \/ /\ live' = [live EXCEPT !["proxy"] = chg[w].val] /\ LvOK
        /\ chg' = [chg EXCEPT ![w].touched = TRUE, ![w].at = "confirm"]
     \/ /\ live' \in {live, [live EXCEPT !["proxy"] = chg[w].val]} /\ LvFault(1)
        /\ chg' = [chg EXCEPT ![w].touched = TRUE, ![w].at = "undo"]
  /\ UNCHANGED <<sDisk, sMem, confFile, settingsGen, keeper, brokenLatch, unsaved, lvFixed>>

\* The live state is read back (for an interface, connections are closed too).
Confirm(w) ==
  LET good == live[chg[w].field] = chg[w].val /\ (coreRun \/ chg[w].field = "proxy") IN
  /\ chg[w].at = "confirm"
  /\ \/ /\ good /\ LvOK
        /\ CASE chg[w].field \in {"level", "egress"} -> ChgTo(w, "save") /\ UNCHANGED keeper
             [] Trusted(w) -> ChgTo(w, "settle") /\ UNCHANGED keeper
             [] OTHER -> LvEnd(w, "ok")
     \/ ~good /\ LvOK /\ ChgTo(w, "undo") /\ UNCHANGED keeper
     \/ good /\ LvFault(1) /\ ChgTo(w, "undo") /\ UNCHANGED keeper
  /\ UNCHANGED <<sDisk, sMem, confFile, live, settingsGen, brokenLatch, unsaved, lvFixed>>

\* Routing, interface and level save last, over whatever the reload left.
SaveSettings(w) ==
  /\ chg[w].at = "save"
  /\ \/ /\ sDisk' = Wanted(w) /\ PublishSettings(Wanted(w)) /\ LvOK
        /\ unsaved' = (unsaved /\ ~(chg[w].field = "level" /\ chg[w].reloaded))
        /\ LvEnd(w, "ok")
     \/ /\ LvFault(1) /\ UNCHANGED <<sDisk, sMem, settingsGen, unsaved>>
        /\ IF chg[w].touched /\ (chg[w].reloaded \/ live # chg[w].old)
           THEN ChgTo(w, "undo") /\ UNCHANGED keeper ELSE LvEnd(w, "failed")
  /\ UNCHANGED <<confFile, live, brokenLatch, lvFixed>>

\* settleRoutingSettings: a fallback saved during the reload replaced the staged
\* file, so both are saved together before they are published.
SettleRouting(w) ==
  LET s == [chg[w].after EXCEPT !["mode"] = sMem["mode"]] IN
  /\ chg[w].at = "settle"
  /\ \/ /\ sDisk' = IF s = chg[w].after THEN sDisk ELSE s
        /\ PublishSettings(s) /\ LvOK /\ LvEnd(w, "ok")
     \/ /\ s # chg[w].after /\ LvFault(1)
        /\ chg' = [chg EXCEPT ![w].staged = TRUE, ![w].at = "undo"]
        /\ UNCHANGED <<sDisk, sMem, settingsGen, keeper>>
  /\ UNCHANGED <<confFile, live, brokenLatch, unsaved, lvFixed>>
-----------------------------------------------------------------------------
(* Compensation.                                                           *)

\* restoreSettings writes only what differs from memory. A trusted change
\* writes back the file it staged, and nothing when it staged nothing.
RestoreSettings(w) ==
  LET b == chg[w].before IN
  IF (IF Trusted(w) THEN chg[w].staged ELSE b # sMem)
  THEN sDisk' = b /\ PublishSettings(b)
  ELSE UNCHANGED <<sDisk, sMem, settingsGen>>

RestoreLiveNoLevel(w) ==
  /\ live' = IF ~chg[w].touched THEN live ELSE [chg[w].old EXCEPT !["level"] = live["level"]]
  /\ confFile' = IF chg[w].reloaded THEN chg[w].prev ELSE confFile
\* The previous configuration or value runs again; a reload brings its level.
RestoreLive(w) ==
  /\ live' = IF ~chg[w].touched THEN live
             ELSE IF chg[w].field = "egress" \/ (chg[w].reloaded /\ chg[w].field = "tun")
             THEN [chg[w].old EXCEPT !["level"] = chg[w].prev["level"]] ELSE chg[w].old
  /\ confFile' = IF chg[w].reloaded THEN chg[w].prev ELSE confFile

\* Without a trusted core, TUN is restored by generating the configuration of
\* the restored settings once more, which may fall back to rule routing again.
RegenerateTun(w) ==
  LET b == chg[w].before
      s == [b EXCEPT !["mode"] = @ /\ exitOK]
      c == [OnCore(b) EXCEPT !["tun"] = chg[w].old["tun"]]
  IN
  /\ ~unsaved
  /\ sDisk' = IF s = sMem THEN sDisk ELSE s
  /\ PublishSettings(s)
  /\ confFile' = c /\ live' = [Running(c, live) EXCEPT !["mode"] = s["mode"]]

\* Whether the previous state can be shown to run again: a disabled proxy never
\* is, a core that is gone is not, and a trusted change must also select the
\* saved exit of global routing.
Provable(w) ==
  LET o == chg[w] IN
  \/ ~o.touched
  \/ IF o.field = "proxy" THEN o.old["proxy"]
     ELSE coreRun /\ (Trusted(w) /\ o.before["mode"] => exitOK)

\* compensateTun, compensateSystemProxy, compensateRouting, rollbackTrustedTun
\* and the compensations of commitEgress and commitLoggingCore: settings and
\* live state, either of which may fail and set the latch. A trusted core is
\* then stopped with the return of the token.
UndoChange(w) ==
  /\ chg[w].at = "undo"
  /\ \/ /\ Provable(w) /\ LvOK /\ UNCHANGED brokenLatch
        /\ \/ (chg[w].field # "tun" \/ Trusted(w) \/ ~chg[w].touched \/ unsaved)
              /\ RestoreSettings(w) /\ RestoreLive(w)
           \/ chg[w].field = "tun" /\ ~Trusted(w) /\ chg[w].touched /\ RegenerateTun(w)
     \/ /\ brokenLatch' = TRUE /\ (IF Provable(w) THEN LvFault(1) ELSE LvOK)
        /\ RestoreSettings(w) /\ live' \in {live, chg[w].old} /\ UNCHANGED confFile
     \/ /\ brokenLatch' = TRUE /\ LvFault(1)
        /\ UNCHANGED <<sDisk, sMem, settingsGen>> /\ RestoreLive(w)
  /\ LvEnd(w, "failed")
  /\ coreRun' = (coreRun /\ ~(brokenLatch' /\ trustedTun /\ chg[w].field \in {"tun", "egress", "level"}))
  /\ UNCHANGED <<exitOK, coreEpoch, trustedTun, lvEvents, unsaved>>
-----------------------------------------------------------------------------
(* The core, the daemon and other clients of the core.                     *)

LvEvent == lvEvents < MaxLvEvents /\ lvEvents' = lvEvents + 1

CoreExit ==
  /\ coreRun /\ LvEvent /\ coreRun' = FALSE
  /\ UNCHANGED <<sDisk, sMem, confFile, live, exitOK, settingsGen, coreEpoch, chg, keeper,
                 brokenLatch, unsaved, trustedTun, lvFaults>>

\* PrepareCoreStart publishes the configuration of the settings in memory, and
\* RestoreRouting reconciles the routing before the core is called healthy.
CoreStart ==
  LET s == [sMem EXCEPT !["mode"] = @ /\ exitOK] IN
  /\ ~coreRun /\ keeper = Unheld /\ ~brokenLatch
  /\ coreRun' = TRUE /\ coreEpoch' = coreEpoch + 1
  /\ confFile' = OnCore(sMem) /\ live' = Running(s, live)
  /\ sMem' = s /\ sDisk' = IF s = sMem THEN sDisk ELSE s
  /\ settingsGen' = settingsGen + 1 /\ unsaved' = FALSE
  /\ UNCHANGED <<exitOK, chg, keeper, brokenLatch, trustedTun, lvFaults, lvEvents>>

\* Another client of the core changes its level.
Drift ==
  /\ coreRun /\ keeper = Unheld /\ LvEvent
  /\ live' = [live EXCEPT !["level"] = ~@]
  /\ UNCHANGED <<sDisk, sMem, confFile, exitOK, settingsGen, coreRun, coreEpoch, chg, keeper,
                 brokenLatch, unsaved, trustedTun, lvFaults>>

\* SyncLogging adopts it, or remembers that it could not be saved.
SyncLogging ==
  LET s == [sMem EXCEPT !["level"] = live["level"]] IN
  /\ coreRun /\ keeper = Unheld /\ ~brokenLatch
  /\ s # sMem \/ unsaved
  /\ \/ sDisk' = s /\ PublishSettings(s) /\ unsaved' = FALSE /\ LvOK
     \/ s # sMem /\ LvFault(1) /\ unsaved' = TRUE /\ UNCHANGED <<sDisk, sMem, settingsGen>>
  /\ UNCHANGED <<confFile, live, chg, keeper, brokenLatch, lvFixed>>

\* A provider or a selection of the subscription gains or loses the exit.
ExitsChange ==
  /\ keeper = Unheld /\ LvEvent /\ exitOK' = ~exitOK
  /\ UNCHANGED <<sDisk, sMem, confFile, live, settingsGen, coreRun, coreEpoch, chg, keeper,
                 brokenLatch, unsaved, trustedTun, lvFaults>>

\* The daemon dies with its core; the settings file is what remains.
DaemonCrash ==
  /\ LvEvent
  /\ sMem' = sDisk /\ settingsGen' = 0
  /\ coreRun' = FALSE /\ coreEpoch' = 0 /\ keeper' = Unheld
  /\ brokenLatch' = FALSE /\ unsaved' = FALSE
  /\ chg' = [w \in Setters |-> [chg[w] EXCEPT !.at = "over"]]
  /\ live' = [live EXCEPT !["proxy"] = sDisk["proxy"]]   \* ApplyDesiredSystemProxy
  /\ UNCHANGED <<sDisk, confFile, exitOK, trustedTun, lvFaults>>

LvStep(w) ==
  \/ PrepareChange(w) \/ LockChange(w) \/ StageSettings(w) \/ ObserveFails(w) \/ PatchLive(w) \/ ApplyConfig(w)
  \/ ApplyProxy(w) \/ Confirm(w) \/ SaveSettings(w) \/ SettleRouting(w) \/ UndoChange(w)

LvNext ==
  \/ \E w \in Setters : LvStep(w) \/ \E f \in SetterKinds[w], v \in BOOLEAN : Ask(w, f, v)
  \/ CoreExit \/ CoreStart \/ Drift \/ SyncLogging \/ ExitsChange \/ DaemonCrash

LvSpec == LvInit /\ [][LvNext]_lvVars
-----------------------------------------------------------------------------
LvTypeOK ==
  /\ \A s \in {sDisk, sMem, live} : s \in [Fields -> BOOLEAN]
  /\ confFile \in [CoreFields -> BOOLEAN]
  /\ keeper \in Setters \cup {Unheld}
  /\ keeper # Unheld => chg[keeper].at \in {"stage", "patch", "apply", "confirm", "save", "settle", "undo"}
  /\ settingsGen \in Nat /\ coreEpoch \in Nat

\* Between changes the settings file holds the settings in memory, whatever was
\* staged, rolled back or written by a routing fallback in the middle of one.
SettingsAgree == keeper = Unheld /\ ~brokenLatch => sDisk = sMem

\* Between changes a running core and the system run what the settings say; only
\* a level that another client has just set may wait to be adopted.
LiveAgrees ==
  keeper = Unheld /\ ~brokenLatch /\ coreRun =>
    \A f \in Fields \ {"level"} : live[f] = sMem[f]

\* A change that reports failure without setting the latch has put back the
\* settings, in memory and on disk, and what runs; only the fallback of a TUN
\* change's reload may stay, and the level is that of the file it reloaded.
FailureUndone ==
  \A w \in Setters : chg[w].result # "failed" /\ chg'[w].result = "failed" /\ ~brokenLatch'
     /\ keeper = w =>
     LET kept == {f \in Fields : /\ f = "mode" => chg[w].field # "tun" \/ exitOK
                                 /\ f = "level" => chg[w].field = f} IN
     /\ sDisk' = sMem' /\ \A f \in kept \cup {"level"} : sMem'[f] = chg[w].before[f]
     /\ coreRun' => \A f \in kept : live'[f] = chg[w].old[f]

\* A change that fails without setting the latch leaves a core that ran the saved
\* level at that level: what was adopted is not taken back by a reload.
AdoptedLevelKept ==
  [][\A w \in Setters : chg[w].result # "failed" /\ chg'[w].result = "failed" /\ ~brokenLatch'
        /\ keeper = w /\ coreRun' /\ chg[w].old["level"] = chg[w].before["level"] =>
        live'["level"] = chg[w].before["level"]]_lvVars

\* A change that reports success is on disk, in memory and, with a running core,
\* live, and has taken back no other setting that was saved while it prepared.
SuccessHolds ==
  \A w \in Setters : chg[w].result # "ok" /\ chg'[w].result = "ok" =>
     LET f == chg[w].field IN
     /\ sMem'[f] = chg[w].val /\ sDisk' = sMem'
     /\ coreRun => live'[f] = sMem'[f]
     /\ keeper = w => \A g \in Fields \ {f, "mode"} : sMem'[g] = chg[w].before[g]

\* Everything above that a reachable state promises.
LvSafe ==
  /\ LvTypeOK /\ SettingsAgree /\ LiveAgrees

\* Everything above that a step promises.
LvStepOK ==
  /\ FailureUndone /\ SuccessHolds
=============================================================================
