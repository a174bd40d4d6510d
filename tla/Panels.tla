-------------------------------- MODULE Panels --------------------------------
(***************************************************************************)
(* Web panels: the build trees under web/ and the pointer active.json      *)
(* (panel/service.go), changed by operations of the runtime manager        *)
(* (runtime/panel.go) that download outside the mutation lock and commit   *)
(* inside it, step by step, with failures and the daemon's death between   *)
(* the steps.                                                              *)
(***************************************************************************)
EXTENDS Integers, Sequences, FiniteSets, FiniteSetsExt, Functions

CONSTANTS PanelIds,      \* the panels of the catalog
          Rank,          \* build (numbered in release order) -> place of its name in the
                         \* lexicographic order
          Clients,       \* requests that may be under way together
          Tasks,         \* client -> [kind, panel, conditional] it may ask for
          Estates,       \* initial [web, active] states
          MaxPanelOps,   \* bound on operations
          MaxPanelFaults \* bound on failing steps and deaths of the daemon

VARIABLES web,      \* panel -> set of builds installed and complete
          active,   \* active.json: [panel, build, previous]
          staging,  \* directories under the staging root: client -> set of names
          latest,   \* panel -> newest build published upstream
          ops,      \* client -> [at, kind, panel, build, base, dir, aside, old]
          lock,     \* holder of the mutation lock
          panelRev, panelFaults, panelOps, died

pnVars == <<web, active, staging, latest, ops, lock, panelRev, panelFaults, panelOps, died>>

Builds == DOMAIN Rank
NoBuild == 0
NoPanel == "none"
NoOperation == [at |-> "idle", kind |-> "none", panel |-> NoPanel, build |-> NoBuild, base |-> -1,
         dir |-> FALSE, aside |-> {}, old |-> [web |-> {}, active |-> NoPanel], failed |-> FALSE]
NoActive == [panel |-> NoPanel, build |-> NoBuild, previous |-> [p \in PanelIds |-> NoBuild]]

PanelFault == panelFaults < MaxPanelFaults /\ panelFaults' = panelFaults + 1
Op(c, at) == ops' = [ops EXCEPT ![c].at = at]
Calm == UNCHANGED panelFaults

\* buildReadyLocked
BuildReady(p, b) == b \in web[p]

\* listBuildsLocked sorts by name, the last one first.
Newest(p) == CHOOSE b \in web[p] : \A x \in web[p] : Rank[x] <= Rank[b]

\* Candidates, downloads and trees moved aside all live in the staging directory.
Stage(c, name) == staging' = [staging EXCEPT ![c] = @ \cup {name}]
Unstage(c, set) == staging' = [staging EXCEPT ![c] = @ \ set]

(***************************************************************************)
(* Preparing, outside the lock                                             *)
(***************************************************************************)

Downloads == {"install", "update", "reinstall"}

\* preflightPanelMutation: a conditional request names the revision it saw.
Request(c) ==
  /\ ops[c].at = "idle" /\ panelOps < MaxPanelOps
  /\ \E t \in Tasks[c] :
       ops' = [ops EXCEPT ![c] = [NoOperation EXCEPT !.at = IF t.kind \in Downloads THEN "resolve" ELSE "wait",
                                              !.kind = t.kind, !.panel = t.panel,
                                              !.base = IF t.conditional THEN panelRev ELSE -1]]
  /\ panelOps' = panelOps + 1
  /\ Calm /\ UNCHANGED <<web, active, staging, latest, lock, panelRev, died>>

\* Adapter.ResolveLatest; an update that has the newest build already commits nothing.
ResolveLatest(c) ==
  LET o == ops[c]  b == latest[o.panel] IN
  /\ o.at = "resolve"
  /\ ops' = [ops EXCEPT ![c].build = b,
               ![c].at = IF o.kind = "update" /\ web[o.panel] # {} /\ Newest(o.panel) = b
                         THEN "wait" ELSE "download"]
  /\ Calm /\ UNCHANGED <<web, active, staging, latest, lock, panelRev, panelOps, died>>

\* download, then prepareInstallCandidate: extracted, hoisted, the archive removed.
Download(c) ==
  /\ ops[c].at = "download"
  /\ Stage(c, "zip") /\ Op(c, "extract")
  /\ Calm /\ UNCHANGED <<web, active, latest, lock, panelRev, panelOps, died>>

\* extractZipFiles refuses unsafe names, links, devices, duplicates, too much
\* of anything, and an archive without index.html: the tree is removed again.
ExtractZip(c) ==
  /\ ops[c].at = "extract"
  /\ staging' = [staging EXCEPT ![c] = {"candidate"}]
  /\ ops' = [ops EXCEPT ![c].at = "wait", ![c].dir = TRUE]
  /\ Calm /\ UNCHANGED <<web, active, latest, lock, panelRev, panelOps, died>>

PrepareFails(c) ==
  /\ ops[c].at \in {"resolve", "download", "extract"} /\ PanelFault
  /\ staging' = [staging EXCEPT ![c] = {}]
  /\ ops' = [ops EXCEPT ![c] = NoOperation]
  /\ UNCHANGED <<web, active, latest, lock, panelRev, panelOps, died>>

(***************************************************************************)
(* Committing, under the mutation lock                                     *)
(***************************************************************************)

\* checkIfRevision, again once the lock is held
RevisionHolds(c) == ops[c].base = -1 \/ ops[c].base = panelRev

LeavePanelHolding(c, failed) ==
  /\ ops' = [ops EXCEPT ![c].at = "cleanup", ![c].failed = failed]
  /\ lock' = IF failed THEN lock ELSE NoPanel

LeavePanel(c, failed) ==
  /\ ops' = [ops EXCEPT ![c].at = "cleanup", ![c].failed = failed]
  /\ lock' = NoPanel

FinishPanel(c) == LeavePanel(c, FALSE) /\ panelRev' = panelRev + 1

\* Nothing to do: an update without news, a build installed meanwhile.
NoOp(o) == \/ ~o.dir
           \/ o.kind # "reinstall" /\ BuildReady(o.panel, o.build)

LockPanels(c) ==
  LET o == ops[c] IN
  /\ o.at = "wait" /\ lock = NoPanel
  /\ \/ /\ ~RevisionHolds(c)
        /\ LeavePanel(c, TRUE) /\ UNCHANGED panelRev
     \/ /\ RevisionHolds(c) /\ o.kind \in Downloads /\ NoOp(o)
        /\ FinishPanel(c)
     \/ /\ RevisionHolds(c) /\ (o.kind \in Downloads => ~NoOp(o))
        /\ lock' = c
        /\ ops' = [ops EXCEPT ![c].at = IF o.kind \in Downloads THEN "aside" ELSE o.kind,
                              ![c].old = [web |-> web, active |-> active]]
        /\ UNCHANGED panelRev
  /\ Calm /\ UNCHANGED <<web, active, staging, latest, panelOps, died>>

\* moveAside: a reinstallation moves the whole panel, another one at most an
\* incomplete tree of the same build (not told apart here from none).
MoveAside(c) ==
  LET o == ops[c] IN
  /\ o.at = "aside"
  /\ IF o.kind = "reinstall" /\ web[o.panel] # {}
     THEN /\ Stage(c, "previous")
          /\ web' = [web EXCEPT ![o.panel] = {}]
          /\ ops' = [ops EXCEPT ![c].at = "promote", ![c].aside = web[o.panel]]
     ELSE Op(c, "promote") /\ UNCHANGED <<web, staging>>
  /\ Calm /\ UNCHANGED <<active, latest, lock, panelRev, panelOps, died>>

\* promoteInstallCandidate: one rename
Promote(c) ==
  LET o == ops[c] IN
  /\ o.at = "promote"
  /\ web' = [web EXCEPT ![o.panel] = @ \cup {o.build}]
  /\ Unstage(c, {"candidate"})
  /\ ops' = [ops EXCEPT ![c].at = IF o.kind = "reinstall" THEN "point" ELSE "bump", ![c].dir = FALSE]
  /\ Calm /\ UNCHANGED <<active, latest, lock, panelRev, panelOps, died>>

RestoreBeside(c) ==
  /\ web' = [web EXCEPT ![ops[c].panel] = @ \cup ops[c].aside]
  /\ Unstage(c, {"previous"})

\* The tree moved aside comes back, whatever was put in its place goes.
RestorePrevious(c) ==
  LET o == ops[c] IN
  /\ web' = [web EXCEPT ![o.panel] = IF o.kind = "reinstall" /\ o.at # "aside" THEN o.aside ELSE @]
  /\ Unstage(c, {"previous"})

CommitFails(c) ==
  /\ ops[c].at \in {"aside", "promote", "point"} /\ PanelFault
  /\ RestorePrevious(c)
  /\ LeavePanel(c, TRUE)
  /\ UNCHANGED <<active, latest, panelRev, panelOps, died>>

\* commitReinstallLocked: the pointer follows its panel, the rollback build is gone.
PointAtReinstalled(c) ==
  LET o == ops[c] IN
  /\ o.at = "point"
  /\ active' = [active EXCEPT !.build = IF active.panel = o.panel THEN o.build ELSE @,
                              !.previous[o.panel] = NoBuild]
  /\ Op(c, "bump")
  /\ Calm /\ UNCHANGED <<web, staging, latest, lock, panelRev, panelOps, died>>

BumpRevision(c) ==
  /\ ops[c].at = "bump"
  /\ FinishPanel(c)
  /\ Calm /\ UNCHANGED <<web, active, staging, latest, panelOps, died>>

\* Cleanup runs after the lock is released.
CleanupPanel(c) ==
  /\ ops[c].at = "cleanup"
  /\ staging' = [staging EXCEPT ![c] = {}]
  /\ ops' = [ops EXCEPT ![c] = NoOperation]
  /\ Calm /\ UNCHANGED <<web, active, latest, lock, panelRev, panelOps, died>>

(***************************************************************************)
(* Changes of the pointer                                                  *)
(***************************************************************************)

\* Activate records a rollback build: its own panel's build that it replaces, or
\* the build of the panel it takes over from, unless that one has one.
ActivatedPrevious(p, b) ==
  IF active.panel = p /\ active.build # b
  THEN [active.previous EXCEPT ![p] = active.build]
  ELSE IF active.panel \notin {NoPanel, p} /\ active.previous[active.panel] = NoBuild
  THEN [active.previous EXCEPT ![active.panel] = active.build]
  ELSE active.previous

ActivatePanel(c) ==
  LET p == ops[c].panel IN
  /\ ops[c].at = "activate"
  /\ IF web[p] = {}
     THEN LeavePanel(c, TRUE) /\ UNCHANGED active
     ELSE /\ active' = [panel |-> p, build |-> Newest(p), previous |-> ActivatedPrevious(p, Newest(p))]
          /\ Op(c, "prune") /\ UNCHANGED lock
  /\ Calm /\ UNCHANGED <<web, staging, latest, panelRev, panelOps, died>>

\* pruneBuildsLocked keeps the active build and the rollback build.
Kept(p) == {active.build, active.previous[p]}

PruneBuilds(c) ==
  LET p == ops[c].panel IN
  /\ ops[c].at = "prune"
  /\ web' = [web EXCEPT ![p] = @ \cap Kept(p)]
  /\ Op(c, "bump")
  /\ Calm /\ UNCHANGED <<active, staging, latest, lock, panelRev, panelOps, died>>

RollbackPanel(c) ==
  LET p == ops[c].panel  b == active.previous[p] IN
  /\ ops[c].at = "rollback"
  /\ IF b = NoBuild \/ ~BuildReady(p, b)
     THEN LeavePanel(c, TRUE) /\ UNCHANGED active
     ELSE /\ active' = [panel |-> p, build |-> b,
                        previous |-> [active.previous EXCEPT
                                        ![p] = IF active.panel = p THEN active.build ELSE NoBuild]]
          /\ Op(c, "bump") /\ UNCHANGED lock
  /\ Calm /\ UNCHANGED <<web, staging, latest, panelRev, panelOps, died>>

\* Uninstall clears the pointers before it removes the trees.
ForgetPanel(c) ==
  LET p == ops[c].panel IN
  /\ ops[c].at = "uninstall"
  /\ active' = [(IF active.panel = p THEN [active EXCEPT !.panel = NoPanel, !.build = NoBuild] ELSE active)
                EXCEPT !.previous[p] = NoBuild]
  /\ Op(c, "remove")
  /\ Calm /\ UNCHANGED <<web, staging, latest, lock, panelRev, panelOps, died>>

RemovePanel(c) ==
  /\ ops[c].at = "remove"
  /\ web' = [web EXCEPT ![ops[c].panel] = {}]
  /\ Op(c, "bump")
  /\ Calm /\ UNCHANGED <<active, staging, latest, lock, panelRev, panelOps, died>>

\* SaveActive fails, or the trees cannot be removed.
PointerFails(c) ==
  /\ ops[c].at \in {"activate", "rollback", "uninstall", "remove"} /\ PanelFault
  /\ LeavePanel(c, TRUE)
  /\ UNCHANGED <<web, active, staging, latest, panelRev, panelOps, died>>

(***************************************************************************)
(* The world                                                               *)
(***************************************************************************)

PublishBuild(p) ==
  /\ latest[p] + 1 \in Builds
  /\ latest' = [latest EXCEPT ![p] = @ + 1]
  /\ Calm /\ UNCHANGED <<web, active, staging, ops, lock, panelRev, panelOps, died>>

\* The daemon dies in a commit and starts again; nothing looks after the staging directory.
DaemonDies ==
  /\ lock # NoPanel /\ PanelFault
  /\ died' = (died \/ \E c \in Clients : ops[c].at \in {"promote", "point"} /\ ops[c].kind = "reinstall")
  /\ ops' = [c \in Clients |-> NoOperation] /\ lock' = NoPanel
  /\ UNCHANGED <<web, active, staging, latest, panelRev, panelOps>>

PnInit ==
  /\ \E e \in Estates : web = e.web /\ active = e.active
  /\ staging = [c \in Clients |-> {}]
  /\ latest = [p \in PanelIds |-> Max(web[p] \cup {1})]
  /\ ops = [c \in Clients |-> NoOperation]
  /\ lock = NoPanel /\ panelRev = 0 /\ panelFaults = 0 /\ panelOps = 0 /\ died = FALSE

PnNext ==
  \/ \E c \in Clients :
       \/ Request(c) \/ ResolveLatest(c) \/ Download(c) \/ ExtractZip(c) \/ PrepareFails(c)
       \/ LockPanels(c) \/ MoveAside(c) \/ Promote(c) \/ CommitFails(c) \/ PointAtReinstalled(c)
       \/ BumpRevision(c) \/ CleanupPanel(c) \/ ActivatePanel(c) \/ PruneBuilds(c)
       \/ RollbackPanel(c) \/ ForgetPanel(c) \/ RemovePanel(c) \/ PointerFails(c)
  \/ \E p \in PanelIds : PublishBuild(p)
  \/ DaemonDies

PnSpec == PnInit /\ [][PnNext]_pnVars

(***************************************************************************)
(* Properties                                                              *)
(***************************************************************************)

Committing == {"aside", "promote", "point", "bump", "activate", "prune", "rollback", "uninstall", "remove"}

\* Types.  One operation at a time is in its commit, the holder of the lock, and
\* what a client has staged is what its operation still needs.
PnTypeOK ==
  /\ web \in [PanelIds -> SUBSET Builds]
  /\ active.panel = NoPanel <=> active.build = NoBuild
  /\ \A c \in Clients : ops[c].at \in Committing <=> lock = c
  /\ \A c \in Clients : ops[c].dir => "candidate" \in staging[c]

\* The build served and every build kept for a rollback are installed, complete,
\* at every moment outside a reinstallation of that very panel, whatever failed
\* in between; only a daemon that dies inside a reinstallation leaves a pointer
\* without its tree.
PointersLive ==
  \A p \in PanelIds :
    died \/ (\E c \in Clients : ops[c].kind = "reinstall" /\ ops[c].panel = p /\ ops[c].at \in {"promote", "point"})
    \/ /\ active.panel = p => BuildReady(p, active.build)
       /\ active.previous[p] # NoBuild => BuildReady(p, active.previous[p])

\* An operation that fails leaves the trees and the pointer as it found them; only
\* an uninstallation that could not remove the trees has cleared the pointers.
FailureRestores ==
  \A c \in Clients :
    lock = c /\ lock' # c /\ ops'[c].failed /\ ops[c].at # "remove" =>
      web' = ops[c].old.web /\ active' = ops[c].old.active

\* A conditional request changes nothing once the state has another revision than
\* the requester saw, however long its download took.
NoStaleCommit ==
  \A c \in Clients : lock' = c /\ lock # c => ops[c].base \in {-1, panelRev}

\* Nothing stays behind in the staging directory while the daemon lives.
StagingEmpties ==
  panelFaults = 0 => \A c \in Clients : ops[c].at = "idle" => staging[c] = {}

\* Activating a panel serves the newest complete installed build.
ActivatesNewest ==
  [][\A c \in Clients : ops[c].at = "activate" /\ active' # active => active'.build = Max(web[active'.panel])]_pnVars

\* Everything above that a reachable state promises.
PnSafe ==
  /\ PnTypeOK /\ PointersLive /\ StagingEmpties

\* Everything above that a step promises.
PnStepOK ==
  /\ FailureRestores /\ NoStaleCommit
=============================================================================
