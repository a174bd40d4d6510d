---------------------------- MODULE TrustedConfig ----------------------------
(***************************************************************************)
(* The generated configuration the core runs with (core/trusted_runtime*,  *)
(* verified_command*, setup_config): a candidate is staged, checked by the *)
(* core, published over the fixed file and bound by its hash, while cores  *)
(* are started from it and another program may change the files. A write   *)
(* may fail after it took effect; what is bound in memory dies with the    *)
(* daemon.                                                                 *)
(***************************************************************************)
EXTENDS Naturals, FiniteSets

CONSTANTS ConfigBytes,     \* contents the manager may generate
          ValidBytes,      \* the ones the core accepts
          MaxConfigFaults, \* bound on failing calls, crashes and changes by others
          MaxChanges       \* bound on mutations

VARIABLES coreThere,   \* a core is installed
          config,      \* runtime/config.yaml: its bytes, or "none"
          staged,      \* candidates under staging/: [for, bytes]
          bound,       \* TrustedExecution.committed, or "none" while not ready
          mut,         \* the manager's mutation
          boots,       \* the daemon's start: "off", "init", ..., "up"
          cgate,       \* the execution gate: "free", "mut", "boot" or "run"
          running,     \* the bytes a core was started with, or "none"
          checked,     \* history: the bytes a core accepted
          strange,     \* another program changed a file
          configFaults, changes

configVars == <<coreThere, config, staged, bound, mut, boots, cgate, running, checked, strange, configFaults, changes>>

Other == "other"
NoBoot == [at |-> "off", new |-> "none"]
NoMut == [at |-> "none", new |-> "none", old |-> "none", answer |-> "none"]

ConfigInit ==
  /\ coreThere \in BOOLEAN /\ config \in ValidBytes \cup {"none"}
  /\ staged = {} /\ bound = "none" /\ mut = NoMut /\ boots = NoBoot
  /\ cgate = "free" /\ running = "none" /\ strange = FALSE /\ configFaults = 0 /\ changes = 0
  /\ checked = {}

Fault == configFaults < MaxConfigFaults /\ configFaults' = configFaults + 1
NoFault == UNCHANGED configFaults
Up == boots.at = "up"
Still == UNCHANGED <<coreThere, strange>>

\* files.prepare: a file that was published but not bound is taken away again.
Stages(who, b) ==
  \/ staged' = staged \cup {[for |-> who, bytes |-> b]} /\ NoFault
  \/ staged' = staged /\ Fault

StagedAs(who, b) == [for |-> who, bytes |-> b] \in staged

\* files.remove: a candidate that somebody changed is left where it is.
Removed(who, b) == staged \ {[for |-> who, bytes |-> b]}

\* ValidateVerifiedConfig: under the gate, the core reads the staged file that was bound.
Accepts(who, b) == coreThere /\ StagedAs(who, b) /\ b \in ValidBytes

-----------------------------------------------------------------------------
(* The daemon starts *)

\* After an interrupted update, or a start that failed, the configuration that is there is
\* kept for a repair; no core has seen it.
BindRepair ==
  /\ boots.at \in {"off", "failed"}
  /\ boots' = IF config = "none" THEN NoBoot ELSE [boots EXCEPT !.at = "repair"]
  /\ bound' = IF config = "none" THEN bound ELSE config
  /\ UNCHANGED <<config, staged, mut, cgate, running, checked, configFaults, changes>> /\ Still

InitializeConfig(b) ==
  /\ boots.at = "off"
  /\ Stages("boot", b)
  /\ boots' = IF staged' = staged THEN [NoBoot EXCEPT !.at = "failed"] ELSE [at |-> "staged", new |-> b]
  /\ UNCHANGED <<config, bound, mut, cgate, running, checked, changes>> /\ Still

\* Without a core the bootstrap is accepted as it is.
InitialCheck ==
  /\ boots.at = "staged" /\ cgate = "free"
  /\ \/ /\ ~coreThere \/ Accepts("boot", boots.new)
        /\ checked' = IF coreThere THEN checked \cup {boots.new} ELSE checked
        /\ boots' = [boots EXCEPT !.at = "write"] /\ cgate' = "boot" /\ UNCHANGED staged
     \/ /\ coreThere /\ ~Accepts("boot", boots.new)
        /\ boots' = [NoBoot EXCEPT !.at = "failed"] /\ staged' = Removed("boot", boots.new)
        /\ UNCHANGED <<checked, cgate>>
  /\ UNCHANGED <<config, bound, mut, running, configFaults, changes>> /\ Still

\* publishContent: the file is replaced, bound again by its hash, and only then taken over.
PublishContent(b, ok, failed) ==
  \/ config' = b /\ bound' = b /\ ok /\ NoFault
  \/ config' \in {config, b} /\ bound' = bound /\ failed /\ Fault

InitialWrite ==
  /\ boots.at = "write"
  /\ cgate' = "free" /\ staged' = Removed("boot", boots.new)
  /\ PublishContent(boots.new, boots' = [NoBoot EXCEPT !.at = "up"], boots' = [NoBoot EXCEPT !.at = "failed"])
  /\ UNCHANGED <<mut, running, checked, changes>> /\ Still

InstallUnchecked == TRUE
\* prepareProtected: a new core must accept the configuration that is bound.
CandidateAccepts == bound \in ValidBytes

\* A core is installed, or reinstalled to end a repair.
InstallCore ==
  /\ (Up /\ ~coreThere) \/ boots.at = "repair"
  /\ cgate = "free" /\ bound # "none" /\ config = bound /\ CandidateAccepts
  /\ coreThere' = TRUE /\ boots' = [NoBoot EXCEPT !.at = "up"] /\ checked' = checked \cup {bound}
  /\ UNCHANGED <<config, staged, bound, mut, cgate, running, strange, configFaults, changes>>

-----------------------------------------------------------------------------
(* A mutation of the running daemon *)

PrepareGenerated(b) ==
  /\ Up /\ mut.at = "none" /\ changes < MaxChanges /\ changes' = changes + 1
  /\ Stages("mut", b)
  /\ mut' = IF staged' = staged THEN [NoMut EXCEPT !.answer = "refused"] ELSE [NoMut EXCEPT !.at = "staged", !.new = b]
  /\ UNCHANGED <<config, bound, boots, cgate, running, checked>> /\ Still

PrepareCheck ==
  /\ mut.at = "staged" /\ cgate = "free"
  /\ IF Accepts("mut", mut.new)
     THEN mut' = [mut EXCEPT !.at = "generated"] /\ checked' = checked \cup {mut.new} /\ UNCHANGED staged
     ELSE mut' = [NoMut EXCEPT !.answer = "refused"] /\ staged' = Removed("mut", mut.new) /\ UNCHANGED checked
  /\ UNCHANGED <<config, bound, boots, cgate, running, configFaults, changes>> /\ Still

Ends(answer) ==
  /\ mut' = [NoMut EXCEPT !.answer = answer, !.old = IF answer = "published" THEN mut.old ELSE "none"]
 
  /\ cgate' = "free" /\ staged' = Removed("mut", mut.new)

\* PreviousConfig: the file as it was bound; a changed one stops the mutation.
Previous == IF config = bound THEN {config} ELSE {}

PublishBegin ==
  /\ mut.at = "generated" /\ cgate = "free"
  /\ \/ /\ StagedAs("mut", mut.new) /\ Previous # {} /\ cgate' = "mut"
        /\ mut' = [mut EXCEPT !.at = "publish", !.old = config] /\ UNCHANGED staged
     \/ (~StagedAs("mut", mut.new) \/ Previous = {}) /\ Ends("refused")
  /\ UNCHANGED <<config, bound, boots, running, checked, configFaults, changes>> /\ Still

Publish ==
  /\ mut.at = "publish"
  /\ PublishContent(mut.new, Ends("published"), mut' = [mut EXCEPT !.at = "undo"] /\ UNCHANGED <<cgate, staged>>)
  /\ UNCHANGED <<boots, running, checked, changes>> /\ Still

UndoBlind == TRUE
\* Only the new bytes or the previous ones are taken back.
MayUndo == config \in {mut.new, mut.old}

Undo ==
  /\ mut.at = "undo"
  /\ IF MayUndo THEN PublishContent(mut.old, Ends("failed"), Ends("unrecovered"))
     ELSE Ends("unrecovered") /\ NoFault /\ UNCHANGED <<config, bound>>
  /\ UNCHANGED <<boots, running, checked, changes>> /\ Still

\* The mutation fails later, at the reload: RestoreConfig of what PreviousConfig read.
RestoreConfig ==
  /\ Up /\ mut.at = "none" /\ mut.answer = "published" /\ cgate = "free"
  /\ PublishContent(mut.old, mut' = [NoMut EXCEPT !.answer = "failed"], mut' = [NoMut EXCEPT !.answer = "unrecovered"])
  /\ UNCHANGED <<staged, boots, cgate, running, checked, changes>> /\ Still

-----------------------------------------------------------------------------
(* Cores are started *)

\* RunCommand binds the file by the hash that was published.
Bindable == bound # "none" /\ config = bound

RunCommand ==
  /\ Up /\ cgate = "free" /\ coreThere /\ Bindable
  /\ cgate' = "run" /\ running' = config
  /\ UNCHANGED <<config, staged, bound, mut, boots, checked, configFaults, changes>> /\ Still

Started ==
  /\ cgate = "run" /\ cgate' = "free" /\ running' = "none"
  /\ UNCHANGED <<config, staged, bound, mut, boots, checked, configFaults, changes>> /\ Still

-----------------------------------------------------------------------------
(* The world *)

Crash ==
  /\ boots.at # "off" /\ Fault
  /\ boots' = NoBoot /\ mut' = NoMut /\ bound' = "none" /\ cgate' = "free" /\ running' = "none"
  /\ UNCHANGED <<coreThere, config, staged, checked, strange, changes>>

\* Another program writes the configuration, or a candidate.
Meddle ==
  /\ Fault /\ boots.at # "off"
  /\ \/ config' = Other /\ strange' = TRUE /\ UNCHANGED <<staged, coreThere>>
     \/ /\ \E c \in staged : staged' = (staged \ {c}) \cup {[c EXCEPT !.bytes = Other]}
        /\ strange' = TRUE /\ UNCHANGED <<config, coreThere>>
  /\ UNCHANGED <<bound, mut, boots, cgate, running, checked, changes>>

ConfigNext ==
  \/ BindRepair \/ \E b \in ConfigBytes : InitializeConfig(b)
  \/ InitialCheck \/ InitialWrite \/ InstallCore
  \/ \E b \in ConfigBytes : PrepareGenerated(b)
  \/ PrepareCheck \/ PublishBegin \/ Publish \/ Undo \/ RestoreConfig
  \/ RunCommand \/ Started \/ Crash \/ Meddle

ConfigSpec == ConfigInit /\ [][ConfigNext]_configVars

-----------------------------------------------------------------------------
(* Properties *)

\* The gate has a holder that is at work, and there is at most one candidate of each owner.
ConfigTypeOK ==
  /\ config \in ConfigBytes \cup {"none", Other} /\ bound \in ConfigBytes \cup {"none", Other}
  /\ cgate \in {"free", "mut", "boot", "run"}
  /\ cgate = "mut" => mut.at \in {"publish", "undo"}
  /\ changes \in 0..MaxChanges /\ configFaults \in 0..MaxConfigFaults

\* A core starts only with bytes that a core accepted and that are the ones bound: never with
\* what another program wrote, nor with a start-up configuration no core has seen
\* (RunCommand, BindGeneratedConfig, prepareProtected).
RunsChecked == running # "none" => running \in checked \cap ValidBytes /\ running = bound

\* A mutation that was published or failed cleanly left the file and what is bound in
\* agreement (Publish, RestoreConfig).
BoundPublished == mut.at = "none" /\ mut.answer \in {"published", "failed"} /\ ~strange => config = bound

\* The bytes that are published are the ones that were checked, although the candidate lies
\* on disk between the check and the publication.
PublishesChecked == mut.at \in {"generated", "publish", "undo"} => mut.new \in checked

\* While the gate is held by a start, nothing of this program changes the configuration or
\* what is bound; a failed publication never overwrites what another program wrote.
StartUndisturbed ==
  /\ cgate = "run" /\ cgate' = "run" => bound' = bound
  /\ mut.at = "undo" /\ config = Other => config' = Other

ConfigSafe == ConfigTypeOK /\ RunsChecked /\ BoundPublished /\ PublishesChecked
ConfigStepOK == StartUndisturbed
=============================================================================
