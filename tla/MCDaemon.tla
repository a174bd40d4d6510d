------------------------------ MODULE MCDaemon ------------------------------
(***************************************************************************)
(* The daemon's operations and background work, checked side by side: a    *)
(* behaviour takes one part, whose module is the specification, and the    *)
(* others rest.                                                            *)
(***************************************************************************)
EXTENDS Operations, Subscriptions, GeoIP, Scheduler, LiveSettings, DaemonRun, Panels,
        WebGateway, TLC

CONSTANT Parts      \* the parts a run explores

CONSTANTS w1, w2

\* One worker brings documents in, the other one uses, edits and refreshes.
MCWorkers == {w1, w2}
MCServes == (w1 :> Creates \cup Refreshes) @@ (w2 :> Edits \cup {"refresh", "use"})

\* One setter reconfigures the core's file, the other one patches the live core.
MCSetters == {w1, w2}
MCSetterKinds == (w1 :> {"tun", "proxy", "egress"}) @@ (w2 :> {"mode", "level"})

Cast(m, ph, b, c, px, mx, d, pd) ==
  [mode |-> m, phase |-> ph, busy |-> b, core |-> c, proxy |-> px, mixed |-> mx, desired |-> d, pending |-> pd]

\* Starts of the daemon: with and without an interrupted installation, a
\* damaged or a missing core, a taken port, a proxy of its own or another's.
MCRunCasts == {Cast("normal", "complete", "off", "ok", "off", "a1", TRUE, TRUE),
               Cast("normal", "none", "off", "repair", "a1", "a1", TRUE, FALSE),
               Cast("normal", "committed", "a1", "ok", "off", "a1", FALSE, TRUE),
               Cast("normal", "complete", "off", "missing", "foreign", "a2", FALSE, FALSE),
               Cast("validation", "recovering", "off", "ok", "off", "a1", TRUE, TRUE)}

\* The third build sorts before the first two, as v3.10 does before v3.9.
MCRank == <<2, 3, 1>>

Task(k, p, w) == [kind |-> k, panel |-> p, conditional |-> w]

\* One client downloads, the other one moves the pointer and removes.
MCTasks ==
  [c \in Clients |->
     IF c = "c1"
     THEN {Task("install", "pb", FALSE), Task("update", "pa", TRUE), Task("reinstall", "pa", FALSE)}
     ELSE {Task("activate", "pa", FALSE), Task("activate", "pb", FALSE), Task("rollback", "pa", FALSE),
           Task("uninstall", "pa", TRUE)}]

MCEstates ==
  {[web |-> [p \in PanelIds |-> {1}], active |-> [NoActive EXCEPT !.panel = "pa", !.build = 1]],
   [web |-> [p \in PanelIds |-> IF p = "pa" THEN {1, 2} ELSE {}],
    active |-> [NoActive EXCEPT !.panel = "pa", !.build = 2, !.previous["pa"] = 1]]}

\* Every path class with every method under a session, every way to present a
\* credential on a few paths, and the bodies of a configuration change.
GwPaths == {"mount", "storage", "traffic", "connections", "conn", "group", "delay", "upgrade",
            "restart", "configs", "meta", "asset", "view", "root", "auth", "setup"}
GwBody(j, f, ok) == [json |-> j, fields |-> f, fit |-> ok]
GwHit(p, m, u, b, c, t, body) ==
  [path |-> p, method |-> m, upgrade |-> u, bearer |-> b, cookie |-> c, token |-> t, body |-> body]
GwMarks == {"none", "good", "bad"}
MCGatewayRequests ==
  {GwHit(p, m, FALSE, "none", "good", "none", GwBody("one", {}, TRUE)) :
      p \in GwPaths, m \in {"GET", "PUT", "POST", "PATCH", "DELETE"}}
  \cup {GwHit(p, m, u, b, c, t, GwBody("none", {}, FALSE)) :
      p \in {"traffic", "view"}, m \in {"GET", "PUT"}, u \in {FALSE}, b \in GwMarks, c \in GwMarks, t \in GwMarks}
  \cup {GwHit("traffic", "GET", TRUE, "none", c, "none", GwBody("none", {}, FALSE)) : c \in GwMarks}
  \cup {GwHit("configs", m, FALSE, "good", "none", "none", GwBody(j, f, ok)) :
      m \in {"PATCH", "PUT"}, j \in {"one", "many"}, ok \in BOOLEAN,
      f \in SUBSET {"managed", "level", "mode", "tun", "other"}}

VARIABLE part

vars == <<part, opsVars, subVars, geoVars, schVars, lvVars, drVars, pnVars, gwVars>>

\* A part that rests starts in one state only.
Init ==
  /\ part \in Parts
  /\ OpsInit /\ (part # "operations" => ~repair)
  /\ SubInit /\ (part # "subscriptions" => ~trusted)
  /\ GeoInit
  /\ SchInit
  /\ LvInit /\ (part # "live" => ~trustedTun)
  /\ DrInit /\ (part # "run" => main.mode = "validation")
  /\ PnInit /\ (part # "panels" => web["pb"] = {})
  /\ GwInit /\ (part # "web" => tree = 1)

OpsPart ==
  /\ part = "operations" /\ OpsNext
  /\ UNCHANGED <<part, subVars, geoVars, schVars, lvVars, drVars, pnVars, gwVars>>

SubPart ==
  /\ part = "subscriptions" /\ SubNext
  /\ UNCHANGED <<part, opsVars, geoVars, schVars, lvVars, drVars, pnVars, gwVars>>

GeoPart ==
  /\ part = "geoip" /\ GeoNext
  /\ UNCHANGED <<part, opsVars, subVars, schVars, lvVars, drVars, pnVars, gwVars>>

SchPart ==
  /\ part = "scheduler" /\ SchNext
  /\ UNCHANGED <<part, opsVars, subVars, geoVars, lvVars, drVars, pnVars, gwVars>>

LvPart ==
  /\ part = "live" /\ LvNext
  /\ UNCHANGED <<part, opsVars, subVars, geoVars, schVars, drVars, pnVars, gwVars>>

DrPart ==
  /\ part = "run" /\ DrNext
  /\ UNCHANGED <<part, opsVars, subVars, geoVars, schVars, lvVars, pnVars, gwVars>>

PnPart ==
  /\ part = "panels" /\ PnNext
  /\ UNCHANGED <<part, opsVars, subVars, geoVars, schVars, lvVars, drVars, gwVars>>

GwPart ==
  /\ part = "web" /\ GwNext
  /\ UNCHANGED <<part, opsVars, subVars, geoVars, schVars, lvVars, drVars, pnVars>>

Next == OpsPart \/ SubPart \/ GeoPart \/ SchPart \/ LvPart \/ DrPart \/ PnPart \/ GwPart

-----------------------------------------------------------------------------
\* What a mutation leaves behind: settings, files and the live core in agreement, panel
\* pointers that name complete builds.
MutationsSafe ==
  /\ part = "live" => LvSafe
  /\ part = "panels" => PnSafe

\* What background refreshes leave behind: cache and catalog in pairs, the configuration
\* of the active profile, databases of one generation, and a scheduler that neither
\* oversleeps nor ignores a backoff.
RefreshesSafe ==
  /\ part = "subscriptions" => SubSafe
  /\ part = "geoip" => GeoSafe
  /\ part = "scheduler" => SchSafe

\* What a daemon's life promises: it runs only what is activated, repairs before it
\* serves, and joins and closes everything in order before it releases its lease.
DaemonLifeSafe ==
  /\ part = "run" => DrSafe

\* What the Web gateway promises: only sessions' reads reach the controller, managed
\* fields stay, the count of sessions is balanced, and a relay reports its real fault and
\* nothing else.
GatewaySafe ==
  /\ part = "web" => GwSafe

\* What a step of the daemon never does: go back to older databases, report a failure
\* without undoing it or a success that does not hold, commit a panel prepared for an
\* earlier state.
DaemonSteps ==
  [][/\ part = "geoip" => GeoStepOK
     /\ part = "live" => LvStepOK
     /\ part = "panels" => PnStepOK]_vars
=============================================================================
