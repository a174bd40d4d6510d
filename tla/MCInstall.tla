------------------------------ MODULE MCInstall ------------------------------
(***************************************************************************)
(* Installing, migrating and removing, checked side by side: a behaviour   *)
(* takes one part, whose module is the specification, and the others rest. *)
(***************************************************************************)
EXTENDS Install, Migration, Uninstall, InstallationManager, SelfUpdate, TLC

CONSTANT Parts      \* the parts a run explores

\* One user repairs with the older binary, the other one installs the newer afresh.
MCRequests ==
  [e \in Executors |-> IF e = "e1" THEN {[mode |-> "repair", binary |-> "b1"]}
                                   ELSE {[mode |-> "fresh", binary |-> "b2"]}]

V1 == Stable(<<1, 0, 0>>)
V2d1 == Dev(<<1, 1, 0>>, 1)
V2d2 == Dev(<<1, 1, 0>>, 2)
V2 == Stable(<<1, 1, 0>>)
ListedReleases(tags) == [i \in DOMAIN tags |-> [tag |-> tags[i], draft |-> FALSE]]

\* A dev list that is not in order, and a stable release older than the dev build.
MCUpdateCasts ==
  {[list |-> ListedReleases(<<V2d1, V2d2, V1>>), target |-> V2d1, channel |-> "dev", yes |-> FALSE, windows |-> TRUE],
   [list |-> ListedReleases(<<V2d1, V1>>), target |-> V2d2, channel |-> "main", yes |-> FALSE, windows |-> FALSE],
   [list |-> ListedReleases(<<V1>>), target |-> V2d1, channel |-> "main", yes |-> TRUE, windows |-> TRUE]}
MCNewTags == {V2}
MCForeign == {V2d2, V2}

VARIABLE part

vars == <<part, inVars, mgVars, unVars, imVars, suVars>>

\* A part that rests starts in one state only.
Init ==
  /\ part \in Parts
  /\ InInit /\ (part # "install" => ~used)
  /\ MgInit /\ (part # "migration" => \A f \in SourceFiles : source[f] = 0)
  /\ UnInit /\ (part # "uninstall" => command = "absent" /\ ~inside /\ osService = "absent" /\ ~removal.force /\ ~removal.consent /\ estate["data"].has = {Plain("data")})
  /\ ImInit /\ (part # "manager" => starter = Down /\ "shared" \in DOMAIN plans)
  /\ SuInit /\ (part # "selfupdate" => setting.yes)

InPart ==
  /\ part = "install" /\ InNext
  /\ UNCHANGED <<part, mgVars, unVars, imVars, suVars>>

MgPart ==
  /\ part = "migration" /\ MgNext
  /\ UNCHANGED <<part, inVars, unVars, imVars, suVars>>

UnPart ==
  /\ part = "uninstall" /\ UnNext
  /\ UNCHANGED <<part, inVars, mgVars, imVars, suVars>>

ImPart ==
  /\ part = "manager" /\ ImNext
  /\ UNCHANGED <<part, inVars, mgVars, unVars, suVars>>

SuPart ==
  /\ part = "selfupdate" /\ SuNext
  /\ UNCHANGED <<part, inVars, mgVars, unVars, imVars>>

Next == InPart \/ MgPart \/ UnPart \/ ImPart \/ SuPart

-----------------------------------------------------------------------------
\* A completed installation is whole, what is served is whole, and recovery can tell from
\* the disk what happened.
InstallSafe ==
  /\ part = "install" => InSafe

\* Imported data is of one moment of the source, with a certain core and its own secret,
\* all of it or nothing.
MigrationSafe ==
  /\ part = "migration" => MgSafe

\* Uninstalling recognises what it generated, works on quiet roots, removes the program
\* last and says complete only when it is.
UninstallSafe ==
  /\ part = "uninstall" => UnSafe

\* The installation record: the deployment is whole or marked, its base is the last
\* complete target, and what runs was confirmed.
RecordSafe ==
  /\ part = "manager" => ImSafe

\* Updating the binary itself: the newest release is chosen, only verified bytes are
\* installed, and no crash, failed rename or cleaner leaves the machine without a binary.
UpdateSafe ==
  /\ part = "selfupdate" => SuSafe

\* What a step of an installer never does: replace files under a running service, change
\* data that served, take back an activation, touch what somebody else changed, remove
\* what is not Mihari's, or depart from the plan that was confirmed.
InstallSteps ==
  [][/\ part = "install" => InStepOK
     /\ part = "migration" => MgStepOK
     /\ part = "uninstall" => UnStepOK
     /\ part = "manager" => ImStepOK
     /\ part = "selfupdate" => SuStepOK]_vars
=============================================================================
