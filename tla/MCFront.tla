------------------------------ MODULE MCFront ------------------------------
(***************************************************************************)
(* The terminal interface, the log export and the log files, checked side  *)
(* by side: a behaviour takes one part, whose module is the specification, *)
(* and the others rest.                                                    *)
(***************************************************************************)
EXTENDS SystemPage, TuiSession, SubscriptionPage, LogExport, LogFiles, LogLines, TLC

CONSTANT Parts      \* the parts a run explores

MCPlan(keys, forms, posts_, dialogs, checks, others, breaks) ==
  [keys |-> keys, forms |-> forms, posts |-> posts_, dialogs |-> dialogs, checks |-> checks, theirs |-> others, drops |-> breaks]

\* Adding, twice if need be; editing, one subscription after another, and with a lost
\* connection; the list's own actions, alone and next to a dialog.
MCPlans ==
  {MCPlan({}, {"add"}, 3, 1, 2, 0, 1), MCPlan({}, {"add"}, 2, 1, 2, 1, 0), MCPlan({"focus"}, {"edit"}, 1, 2, 1, 0, 0),
   MCPlan({}, {"edit"}, 1, 1, 2, 0, 1), MCPlan({"toggle", "remove"}, {"edit"}, 2, 1, 1, 0, 0),
   MCPlan({"use", "refresh", "all"}, {}, 2, 1, 1, 1, 0), MCPlan({"use", "update"}, {"add"}, 2, 1, 1, 0, 0)}

\* Every log holds a record, or none does.
MCSnapshots == {[s \in Logs |-> n] : n \in 0 .. 1}
MCChoices == {[scope |-> "machine_and_current_user", auto |-> TRUE],
              [scope |-> "private", auto |-> FALSE]}

\* Two processes that disagree on the number of archives; a record in three pieces.
MCFirstLimit == [w \in LogWriters |-> IF w = "w1" THEN 3 ELSE 2]
MCFragments == <<2, 1, 1>>

VARIABLE part

vars == <<part, spVars, tsVars, subVars, lxVars, lfVars, llVars>>

\* A part that rests starts in one state only.
Init ==
  /\ part \in Parts
  /\ SpInit
  /\ TsInit
  /\ SubInit /\ (part # "subscription_page" => plan = MCPlan({}, {"add"}, 2, 1, 2, 1, 0))
  /\ LxInit /\ (part # "export" => \A s \in Logs : logs[s] = 0)
  /\ LfInit
  /\ LlInit

SpPart ==
  /\ part = "system" /\ SpNext
  /\ UNCHANGED <<part, tsVars, subVars, lxVars, lfVars, llVars>>

TsPart ==
  /\ part = "session" /\ TsNext
  /\ UNCHANGED <<part, spVars, subVars, lxVars, lfVars, llVars>>

SubPart ==
  /\ part = "subscription_page" /\ SubNext
  /\ UNCHANGED <<part, spVars, tsVars, lxVars, lfVars, llVars>>

LxPart ==
  /\ part = "export" /\ LxNext
  /\ UNCHANGED <<part, spVars, tsVars, subVars, lfVars, llVars>>

LfPart ==
  /\ part = "files" /\ LfNext
  /\ UNCHANGED <<part, spVars, tsVars, subVars, lxVars, llVars>>

LlPart ==
  /\ part = "loglines" /\ LlNext
  /\ UNCHANGED <<part, spVars, tsVars, subVars, lxVars, lfVars>>

Next == SpPart \/ TsPart \/ SubPart \/ LxPart \/ LfPart \/ LlPart

-----------------------------------------------------------------------------
\* What the terminal shows and does: what was consented to, with every candidate
\* released, every pending row answered, and settings that settle on the daemon's.
InterfaceSafe ==
  /\ part = "system" => SpSafe
  /\ part = "session" => TsSafe
  /\ part = "subscription_page" => SubSafe

\* Log files in order and within their limits, snapshots that are a cut, and an export
\* that is published whole or not at all.
LogsSafe ==
  /\ part = "export" => LxSafe
  /\ part = "files" => LfSafe
  /\ part = "loglines" => LlSafe

\* A step of the interface never shows older settings than it showed, and an export never
\* replaces a file.
FrontSteps ==
  [][/\ part = "session" => TsStepOK
     /\ part = "subscription_page" => SubStepOK
     /\ part = "export" => LxStepOK]_vars
=============================================================================
