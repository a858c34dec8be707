------------------------------ MODULE Installer ------------------------------
(***************************************************************************)
(* gentle-ai install and sync on one machine: snapshot, apply, rollback,   *)
(* verification and the install state (internal/cli/{run,sync}.go,         *)
(* internal/pipeline, internal/backup, internal/state), with the backups   *)
(* that upgrades take and the user restores, pins and deletes.  The agents *)
(* are one whose prompt file the persona replaces (StrategyFileReplace)    *)
(* and Pi.  Commands run one at a time; the user edits files meanwhile, a  *)
(* step may fail after some of its writes, and a command may be killed.    *)
(***************************************************************************)
EXTENDS InstallPlan

CONSTANTS
  Command,     \* install and sync requests: see CommandAssumption
  SyncDefault, \* the components BuildSyncSelection plans, in its order
  Files,       \* the files of the agents that a component writes
  Paths,       \* those that componentPaths lists of them
  Prompt,      \* the prompt file, which persona, engram and SDD share
  Overlay,     \* what Pi CodeGraph owns
  None,        \* nothing recorded
  MaxRuns, MaxEdits, MaxFaults  \* bounds of the checked instance

File == (UNION {Files[c] : c \in Component}) \cup {Prompt, Overlay}

ASSUME CommandAssumption ==
  /\ Files \in [Component -> SUBSET (File \ {Overlay})]
  /\ Paths \in [Component -> SUBSET File]
  /\ SyncDefault \in Seq(Component)
  /\ \A cmd \in Command :
       /\ cmd.kind \in {"install", "add", "tui", "sync"}
       /\ cmd.components \in Seq(Component)
       /\ cmd.persona \in {"gentleman", "neutral", "custom"}
       /\ cmd.codegraph \in BOOLEAN  \* the community tool is selected
       /\ cmd.explicit \in BOOLEAN   \* --component and --persona were given
\* The other steps are no components.
ASSUME StepAssumption == Component \cap {"codegraph", "guidance", "pi"} = {}
\* Who writes a file that the persona writes comes after it when both are planned.
ASSUME SharingAssumption ==
  \A c \in Component \ {"persona"} :
    "persona" \in Component /\ Files[c] \cap Files["persona"] # {} =>
      <<"persona", c>> \in ToSet(SoftPairs)
ASSUME BoundAssumption == {MaxRuns, MaxEdits, MaxFaults} \subseteq Nat

VARIABLES
  disk,    \* the text of each file and the managed sections in it
  backups, \* oldest first; id is the number of the command that took it
  saved,   \* state.json: the selection of the last recorded install
  run,     \* the running command, or how the last one ended
  before,  \* what the targets of the last command were, until the newest
           \* backup is deleted
  edited,  \* the files the user has edited since that snapshot, or since the
           \* restore began
  used     \* how far the bounds are used up

vars == <<disk, backups, saved, run, before, edited, used>>

Part == Component \cup {"codegraph", "pi"}
Text == [text : {"none", "user", "persona"}, parts : SUBSET Part]
Content == Text \cup {Absent}
ASSUME AbsentAssumption == Absent \notin Text

Step == Component \cup {"codegraph", "guidance", "pi"}
Ends == {"done", "failed", "killed", "rolledback"}
Ended == run.pc \in Ends

TypeOK ==
  /\ disk \in [File -> Content]
  /\ \A i \in DOMAIN backups :
       /\ backups[i].pinned \in BOOLEAN
       /\ backups[i].id \in 1 .. MaxRuns
       /\ \A f \in DOMAIN backups[i].files : f \in File /\ backups[i].files[f] \in Content
  /\ saved = None \/ saved.components \in Seq(Component)
  /\ run.pc \in {"prepare", "apply", "rollback", "restore", "verify", "persist"} \cup Ends
  /\ run.plan \in Seq(Step) /\ run.next \in 1 .. Len(run.plan) + 1
  /\ run.rest \subseteq File /\ edited \subseteq File
  /\ before # None => \A f \in DOMAIN before : before[f] \in Content
  /\ used \in [runs : 0 .. MaxRuns, edits : 0 .. MaxEdits, faults : 0 .. MaxFaults]

Idle ==
  [pc |-> "done", kind |-> "none", cmd |-> None, persona |-> "custom", codegraph |-> FALSE,
   plan |-> <<>>, next |-> 1, failed |-> FALSE, targets |-> {}, manifest |-> None,
   undo |-> <<>>, stash |-> None, rest |-> {}, undoFailed |-> FALSE]

Init ==
  /\ disk \in [File -> {Absent, [text |-> "user", parts |-> {}]}]
  /\ disk[Overlay] = Absent
  /\ backups = <<>> /\ saved = None /\ run = Idle
  /\ before = None /\ edited = {}
  /\ used = [runs |-> 0, edits |-> 0, faults |-> 0]

-----------------------------------------------------------------------------
(* What a step writes.                                                      *)

Owns(part, f) == disk[f] # Absent /\ part \in disk[f].parts

\* InjectMarkdownSection and the merges of settings: the rest of the file stays.
Section(part, f) ==
  IF disk[f] = Absent THEN [text |-> "none", parts |-> {part}]
  ELSE [disk[f] EXCEPT !.parts = @ \cup {part}]

\* persona.Inject: the gentleman persona becomes the whole file, another one
\* replaces what is before the first managed section.
Personalised(persona, f) ==
  [text |-> "persona",
   parts |-> IF persona = "gentleman" \/ disk[f] = Absent THEN {} ELSE disk[f].parts]

\* ReconcilePiCodeGraph; sync refreshes only what is there.
PiReconciled(r) ==
  IF ~r.codegraph THEN Absent
  ELSE IF r.kind = "sync" /\ ~Owns("pi", Overlay) THEN disk[Overlay]
  ELSE Section("pi", Overlay)

ComponentFiles(c, persona) ==
  IF c = "persona" /\ persona = "custom" THEN {} ELSE Files[c]

\* Of Engram's files, the prompt is listed for agents with marked sections only,
\* and written for this one, too.
ComponentPaths(c, persona) == ComponentFiles(c, persona) \cap Paths[c]

StepFiles(r, step) ==
  CASE step \in Component  -> ComponentFiles(step, r.persona)
    [] step = "codegraph"  -> {Prompt, Overlay}
    [] step = "guidance"   -> {Prompt}
    [] step = "pi"         -> {Overlay}

Written(r, step, f) ==
  CASE step = "persona" -> Personalised(r.persona, f)
    [] step \in Component \ {"persona"} -> Section(step, f)
    [] OTHER -> IF f = Overlay THEN PiReconciled(r) ELSE Section("codegraph", f)

DiskAfter(r, step, W) == [f \in File |-> IF f \in W THEN Written(r, step, f) ELSE disk[f]]

-----------------------------------------------------------------------------
(* Commands.                                                                *)

\* backupTargets, syncBackupTargets: what is listed of the components, what Pi
\* CodeGraph owns, and CodeGraphManagedPaths if the tool is selected.
BackupTargets(components, persona, codegraph) ==
  (UNION {ComponentPaths(c, persona) : c \in ToSet(components)})
    \cup {Overlay} \cup (IF codegraph THEN {Prompt} ELSE {})

\* RunInstall, RunInstallTUI: the planner's order, which
\* installRuntime.stagePlan completes: the tool, the components, Pi CodeGraph at last.
InstallRun(cmd) ==
  LET plan == Planned(ToSet(cmd.components))
  IN  [Idle EXCEPT
         !.pc = "prepare", !.kind = cmd.kind, !.cmd = cmd, !.persona = cmd.persona,
         !.codegraph = cmd.codegraph,
         !.plan = (IF cmd.codegraph THEN <<"codegraph">> ELSE <<>>) \o plan \o <<"pi">>,
         !.targets = BackupTargets(plan, cmd.persona, cmd.codegraph)]

\* What an install of the tool has left, if none was ever recorded:
\* HasManagedCodeGraphGuidance, hasManagedPiCodeGraphManifest.
CodeGraphLeftovers == Owns("codegraph", Prompt) \/ Owns("pi", Overlay)

\* RunSync: RestorePersistedSelection, restorePersistedCommunityTools,
\* applyResolvedPersona and syncRuntime.stagePlan; the components in the order
\* they are recorded in.
SyncRun(cmd) ==
  LET selection == IF saved = None THEN SyncDefault ELSE saved.components
      persona == IF saved = None THEN "neutral" ELSE saved.persona
      tool == IF saved = None THEN CodeGraphLeftovers ELSE saved.codegraph
  IN  [Idle EXCEPT
         !.pc = "prepare", !.kind = "sync", !.cmd = cmd, !.persona = persona,
         !.codegraph = tool,
         !.plan = selection \o (IF tool THEN <<"guidance", "pi">> ELSE <<>>),
         !.targets = BackupTargets(selection, persona, tool)]

Start(cmd) ==
  /\ Ended /\ used.runs < MaxRuns
  /\ run' = IF cmd.kind = "sync" THEN SyncRun(cmd) ELSE InstallRun(cmd)
  /\ used' = [used EXCEPT !.runs = @ + 1]
  /\ UNCHANGED <<disk, backups, saved, before, edited>>

-----------------------------------------------------------------------------
(* prepareBackupStep.                                                       *)

Targets == [f \in run.targets |-> disk[f]]
Backup(files) == [id |-> used.runs, files |-> files, pinned |-> FALSE]

\* Nothing is done on a machine that is already in the latest backup: there is
\* then nothing to roll back to.
SkipBackup ==
  /\ run.pc = "prepare" /\ IsDuplicate(backups, Targets)
  /\ run' = [run EXCEPT !.pc = "apply"]
  /\ before' = Targets /\ edited' = {}
  /\ UNCHANGED <<disk, backups, saved, used>>

\* Prune may fail to delete some of what it should.
TakeBackup ==
  /\ run.pc = "prepare" /\ ~IsDuplicate(backups, Targets)
  /\ LET all == Append(backups, Backup(Targets))
     IN  \E kept \in SUBSET Prunable(all) :
           /\ used.faults + Cardinality(kept) <= MaxFaults
           /\ used' = [used EXCEPT !.faults = @ + Cardinality(kept)]
           /\ backups' = WithoutBackups(all, Prunable(all) \ kept)
  /\ run' = [run EXCEPT !.pc = "apply", !.manifest = Targets]
  /\ before' = Targets /\ edited' = {}
  /\ UNCHANGED <<disk, saved>>

BackupFails ==
  /\ run.pc = "prepare" /\ ~IsDuplicate(backups, Targets) /\ used.faults < MaxFaults
  /\ run' = [run EXCEPT !.pc = "failed"]
  /\ used' = [used EXCEPT !.faults = @ + 1]
  /\ UNCHANGED <<disk, backups, saved, before, edited>>

-----------------------------------------------------------------------------
(* Runner.Run on the apply stage, then Orchestrator.Execute.                *)

Applying == run.pc = "apply" /\ run.next <= Len(run.plan)
Current == run.plan[run.next]

\* piCodeGraphReconcileStep and codeGraphGuidanceSyncStep can be rolled back.
Undoable == (Current = "pi" /\ run.kind # "sync") \/ Current = "guidance"

StepSucceeds ==
  /\ Applying
  /\ disk' = DiskAfter(run, Current, StepFiles(run, Current))
  /\ run' = [run EXCEPT !.next = @ + 1,
                        !.undo = IF Undoable THEN Append(@, Current) ELSE @,
                        !.stash = IF Current = "guidance" THEN disk[Prompt] ELSE @]
  /\ UNCHANGED <<backups, saved, before, edited, used>>

\* Mutant: one step too far.
AfterFailurePastEnd(r) ==
  [r EXCEPT !.failed = TRUE, !.next = IF r.kind = "tui" THEN @ + 1 ELSE Len(r.plan) + 2]

\* ContinueOnError in the terminal UI, StopOnError elsewhere.
AfterFailure(r) ==
  [r EXCEPT !.failed = TRUE, !.next = IF r.kind = "tui" THEN @ + 1 ELSE Len(r.plan) + 1]

\* What a step that fails may leave written: a component any of its files, the
\* install of CodeGraph the overlay, which its snapshot does not hold; the other
\* steps of the tools put back theirs.
LeftWritten(r, step) ==
  CASE step \in Component -> StepFiles(r, step)
    [] step = "codegraph" -> {Overlay}
    [] step \in {"guidance", "pi"} -> {}

StepFails ==
  /\ Applying /\ used.faults < MaxFaults
  /\ \E W \in SUBSET LeftWritten(run, Current) : disk' = DiskAfter(run, Current, W)
  /\ run' = AfterFailure(run)
  /\ used' = [used EXCEPT !.faults = @ + 1]
  /\ UNCHANGED <<backups, saved, before, edited>>

\* Mutant: the steps are undone in the order they were made in.
FirstUndone(undo) == <<"restore">> \o undo

\* ExecuteRollback goes backwards; the restore step was the first to be made.
UndoOrder(undo) == Reverse(<<"restore">> \o undo)

\* The terminal UI does not verify.
EndApply ==
  /\ run.pc = "apply" /\ run.next > Len(run.plan)
  /\ run' = IF run.failed THEN [run EXCEPT !.pc = "rollback", !.undo = UndoOrder(run.undo)]
            ELSE [run EXCEPT !.pc = IF run.kind = "tui" THEN "persist" ELSE "verify"]
  /\ UNCHANGED <<disk, backups, saved, before, edited, used>>

-----------------------------------------------------------------------------
(* ExecuteRollback: every step is tried, whatever happened to the others.   *)

Undoing(step) == run.pc = "rollback" /\ run.undo # <<>> /\ Head(run.undo) = step

\* piCodeGraphReconcileStep.Rollback: UninstallPiCodeGraph
UndoPi ==
  /\ Undoing("pi")
  /\ disk' = [disk EXCEPT ![Overlay] = Absent]
  /\ run' = [run EXCEPT !.undo = Tail(@)]
  /\ UNCHANGED <<backups, saved, before, edited, used>>

\* codeGraphGuidanceSyncStep.Rollback: the files as the step has found them.
UndoGuidance ==
  /\ Undoing("guidance")
  /\ disk' = [disk EXCEPT ![Prompt] = run.stash]
  /\ run' = [run EXCEPT !.undo = Tail(@)]
  /\ UNCHANGED <<backups, saved, before, edited, used>>

UndoFails ==
  /\ Undoing("pi") \/ Undoing("guidance")
  /\ used.faults < MaxFaults
  /\ run' = [run EXCEPT !.undo = Tail(@), !.undoFailed = TRUE]
  /\ used' = [used EXCEPT !.faults = @ + 1]
  /\ UNCHANGED <<disk, backups, saved, before, edited>>

\* rollbackRestoreStep.Rollback: nothing if this run has no manifest.
BeginRestore ==
  /\ Undoing("restore")
  /\ run' = IF run.manifest = None THEN [run EXCEPT !.undo = Tail(@)]
            ELSE [run EXCEPT !.pc = "restore", !.rest = DOMAIN run.manifest]
  /\ UNCHANGED <<disk, backups, saved, before, edited, used>>

\* RestoreService.Restore: the entries in the order of a map's keys; what did
\* not exist is removed.
RestoreEntry(f) ==
  /\ run.pc = "restore" /\ f \in run.rest
  /\ disk' = [disk EXCEPT ![f] = run.manifest[f]]
  /\ run' = [run EXCEPT !.rest = @ \ {f}]
  /\ UNCHANGED <<backups, saved, before, edited, used>>

\* The first entry that fails ends it, as the last one does.
EndRestore ==
  /\ run.pc = "restore"
  /\ run.rest = {} \/ used.faults < MaxFaults
  /\ run' = [run EXCEPT !.pc = "rollback", !.undo = Tail(@), !.rest = {},
                        !.undoFailed = @ \/ run.rest # {}]
  /\ used' = [used EXCEPT !.faults = IF run.rest = {} THEN @ ELSE @ + 1]
  /\ UNCHANGED <<disk, backups, saved, before, edited>>

EndRollback ==
  /\ run.pc = "rollback" /\ run.undo = <<>>
  /\ run' = [run EXCEPT !.pc = "rolledback"]
  /\ UNCHANGED <<disk, backups, saved, before, edited, used>>

-----------------------------------------------------------------------------
(* Verification and state.json.                                             *)

PlannedComponents == ToSet(run.plan) \cap Component

\* runPostApplyVerification, runPostSyncVerification: every file that is listed
\* of a component is there.
FilesExist ==
  \A c \in PlannedComponents : \A f \in ComponentPaths(c, run.persona) : disk[f] # Absent

\* Other checks (binaries on the path, health of servers) may fail, too; what
\* failed to verify is left as it is.
Verify ==
  /\ run.pc = "verify"
  /\ \/ /\ FilesExist
        /\ run' = [run EXCEPT !.pc = IF run.kind = "sync" THEN "done" ELSE "persist"]
        /\ UNCHANGED used
     \/ /\ used.faults < MaxFaults \/ ~FilesExist
        /\ run' = [run EXCEPT !.pc = "failed"]
        /\ used' = [used EXCEPT !.faults = IF FilesExist THEN @ + 1 ELSE @]
  /\ UNCHANGED <<disk, backups, saved, before, edited>>

\* mergeExplicitAgentInstallState: --agent adds to what is recorded.
SavedAfter(cmd) ==
  IF cmd.kind = "add" /\ saved # None
  THEN IF cmd.explicit
       THEN [saved EXCEPT !.components = cmd.components, !.persona = cmd.persona]
       ELSE saved
  ELSE [components |-> cmd.components, persona |-> cmd.persona, codegraph |-> cmd.codegraph]

Persist ==
  /\ run.pc = "persist"
  /\ saved' = SavedAfter(run.cmd)
  /\ run' = [run EXCEPT !.pc = "done"]
  /\ UNCHANGED <<disk, backups, before, edited, used>>

PersistFails ==
  /\ run.pc = "persist" /\ used.faults < MaxFaults
  /\ run' = [run EXCEPT !.pc = "failed"]
  /\ used' = [used EXCEPT !.faults = @ + 1]
  /\ UNCHANGED <<disk, backups, saved, before, edited>>

Kill ==
  /\ ~Ended /\ used.faults < MaxFaults
  /\ run' = [run EXCEPT !.pc = "killed"]
  /\ used' = [used EXCEPT !.faults = @ + 1]
  /\ UNCHANGED <<disk, backups, saved, before, edited>>

-----------------------------------------------------------------------------
(* The backups between the commands, and the user.                          *)

\* upgrade: a snapshot of every file, if it can be taken, and in any case Prune.
Upgrade ==
  /\ Ended /\ used.runs < MaxRuns
  /\ \E taken \in BOOLEAN :
       LET next == used.runs + 1
           all == IF taken THEN Append(backups, [Backup(disk) EXCEPT !.id = next]) ELSE backups
       IN  /\ taken \/ used.faults < MaxFaults
           /\ backups' = WithoutBackups(all, Prunable(all))
           /\ before' = IF taken THEN disk ELSE before
           /\ edited' = IF taken THEN {} ELSE edited
           /\ used' = [used EXCEPT !.runs = next, !.faults = IF taken THEN @ ELSE @ + 1]
  /\ run' = [Idle EXCEPT !.kind = "upgrade"]
  /\ UNCHANGED <<disk, saved>>

\* gentle-ai restore <id>
RestoreBackup(i) ==
  /\ Ended /\ used.runs < MaxRuns /\ i \in DOMAIN backups
  /\ run' = [Idle EXCEPT !.pc = "restore", !.kind = "restore", !.undo = <<"restore">>,
                         !.manifest = backups[i].files, !.rest = DOMAIN backups[i].files]
  /\ edited' = {}
  /\ used' = [used EXCEPT !.runs = @ + 1]
  /\ UNCHANGED <<disk, backups, saved, before>>

TogglePin(i) ==
  /\ Ended /\ used.edits < MaxEdits /\ i \in DOMAIN backups
  /\ backups' = [backups EXCEPT ![i].pinned = ~@]
  /\ used' = [used EXCEPT !.edits = @ + 1]
  /\ UNCHANGED <<disk, saved, run, before, edited>>

DeleteBackup(i) ==
  /\ Ended /\ used.edits < MaxEdits /\ i \in DOMAIN backups
  /\ backups' = WithoutBackups(backups, {i})
  /\ before' = IF i = Len(backups) THEN None ELSE before
  /\ used' = [used EXCEPT !.edits = @ + 1]
  /\ UNCHANGED <<disk, saved, run, edited>>

UserEdit(f) ==
  /\ used.edits < MaxEdits
  /\ \/ disk' = [disk EXCEPT ![f] = [text |-> "user", parts |-> IF @ = Absent THEN {} ELSE @.parts]]
     \/ disk' = [disk EXCEPT ![f] = Absent]
  /\ disk' # disk
  /\ edited' = edited \cup {f}
  /\ used' = [used EXCEPT !.edits = @ + 1]
  /\ UNCHANGED <<backups, saved, run, before>>

Next ==
  \/ \E cmd \in Command : Start(cmd)
  \/ SkipBackup \/ TakeBackup \/ BackupFails
  \/ StepSucceeds \/ StepFails \/ EndApply
  \/ UndoPi \/ UndoGuidance \/ UndoFails
  \/ BeginRestore \/ \E f \in File : RestoreEntry(f)
  \/ EndRestore \/ EndRollback
  \/ Verify \/ Persist \/ PersistFails \/ Kill \/ Upgrade
  \/ \E i \in DOMAIN backups : RestoreBackup(i) \/ TogglePin(i) \/ DeleteBackup(i)
  \/ \E f \in File \ {Overlay} : UserEdit(f)

Spec == Init /\ [][Next]_vars

-----------------------------------------------------------------------------
(* Properties.                                                              *)

Installing == run.kind \in {"install", "add", "tui"}

\* Every section a component of the run has written is still there.
SectionsKept ==
  \A c \in PlannedComponents \ {"persona"} :
    \A f \in ComponentFiles(c, run.persona) \ edited : Owns(c, f)

\* A rollback that reports no error, of a run that took a backup, leaves every
\* target as it was before the run, but for what the user edited meanwhile:
\* whatever step had failed, half-done or not, and in which order the others
\* are undone (pipeline/rollback.go, rollbackRestoreStep, restore.go).
RollbackRestores ==
  run.pc = "rolledback" /\ run.manifest # None /\ ~run.undoFailed =>
    \A f \in DOMAIN run.manifest \ edited : disk[f] = run.manifest[f]

\* When the selection of an install is recorded, all components are applied and
\* none has destroyed what another one wrote, although the gentleman persona
\* replaces the whole prompt file (planner/graph.go softOrderingPairs).
RecordedInstallIsThere ==
  Installing /\ run.pc = "persist" => ~run.failed /\ SectionsKept

\* A plan has what its components need, each before the one that needs it, and
\* the first of a soft pair before the second if it has both (order.go: the
\* contract of applySoftOrdering).
PlanSound ==
  Installing =>
    /\ \A c \in PlannedComponents : \A d \in Dependencies[c] :
         d \in PlannedComponents /\ Position(run.plan, d) < Position(run.plan, c)
    /\ \A pair \in ToSet(SoftPairs) :
         {pair[1], pair[2]} \subseteq PlannedComponents =>
           Position(run.plan, pair[1]) < Position(run.plan, pair[2])

\* `gentle-ai restore latest` finds what each target was before the last command
\* that had a snapshot taken or skipped: whatever was taken, skipped as a
\* duplicate or pruned before (retention.go IsDuplicate and Prune).
NewestHoldsPrior ==
  before # None =>
    /\ backups # <<>>
    /\ \A f \in Existing(before) :
         f \in DOMAIN Latest(backups).files /\ Latest(backups).files[f] = before[f]

\* No command deletes a pinned backup, and none leaves fewer than Retention of
\* the others when it deletes one; only the user does (retention.go Prune).
PruneSpares ==
  [][used'.edits = used.edits =>
       LET lost == ToSet(backups) \ ToSet(backups')
       IN  /\ \A backup \in lost : ~backup.pinned
           /\ lost # {} => Cardinality(Unpinned(backups')) >= Retention]_vars

\* What BuildSyncSelection (sync.go:300) says of its order, "Persona must run
\* BEFORE SDD/Engram/MCP", and docs/codebase/mental-model.md:49, "Planner owns
\* ordering", are there for: a sync that succeeds leaves the sections it wrote.
SyncKeepsSections == run.kind = "sync" /\ run.pc = "done" => SectionsKept

=============================================================================
