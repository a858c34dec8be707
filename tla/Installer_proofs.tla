-------------------------- MODULE Installer_proofs --------------------------
(***************************************************************************)
(* For any components and their files, any requests, any number of         *)
(* commands, faults and edits: the types; that a rollback restores; that   *)
(* the newest backup is what the last command found, and pruning spares    *)
(* the pinned and the newest; that a plan is in order; and that a recorded *)
(* install is there.                                                       *)
(*                                                                         *)
(* For the rollback, what has to be seen is that the restore of the        *)
(* snapshot is the last thing a rollback does (nothing that is undone      *)
(* after it could disturb what it restored), and that a restore which      *)
(* leaves an entry out says so.  For the recorded install, that the        *)
(* persona, alone in destroying what others wrote, is placed before all    *)
(* those it shares a file with.                                            *)
(***************************************************************************)
EXTENDS Installer, InstallPlan_proofs, SequenceTheorems, FiniteSetTheorems, TLAPS

\* The run has the fields of Idle, whatever is in them.
Shaped(r) ==
  r = [pc |-> r.pc, kind |-> r.kind, cmd |-> r.cmd, persona |-> r.persona,
       codegraph |-> r.codegraph, plan |-> r.plan, next |-> r.next, failed |-> r.failed,
       targets |-> r.targets, manifest |-> r.manifest, undo |-> r.undo, stash |-> r.stash,
       rest |-> r.rest, undoFailed |-> r.undoFailed]

OnDisk == disk = [f \in File |-> disk[f]]

Tool == {"pi", "guidance"}

\* The restore step is the last one to be undone.
RestoreLast(undo) ==
  /\ undo \in Seq(Tool \cup {"restore"})
  /\ \A i \in 1 .. Len(undo) : undo[i] = "restore" <=> i = Len(undo)

RestoredBut(S) ==
  \A f \in DOMAIN run.manifest \ (edited \cup S) : f \in File /\ disk[f] = run.manifest[f]

Reported == run.manifest # None /\ ~run.undoFailed => RestoredBut({})

IInv ==
  /\ Shaped(run) /\ OnDisk
  /\ run.pc \in {"prepare", "apply"} => run.undo \in Seq(Tool)
  /\ run.pc = "rollback" => RestoreLast(run.undo)
  /\ run.pc = "restore" => run.undo = <<"restore">> /\ RestoredBut(run.rest)
  /\ run.pc = "rollback" /\ run.undo = <<>> => Reported
  /\ run.pc = "rolledback" => Reported

-----------------------------------------------------------------------------

\* The order in which the steps are undone ends with the restore.
LEMMA UndoRestoresLast ==
  ASSUME NEW undo \in Seq(Tool)
  PROVE  RestoreLast(UndoOrder(undo)) /\ UndoOrder(undo) # <<>>
<1> DEFINE all == <<"restore">> \o undo
<1>1. /\ all \in Seq(Tool \cup {"restore"}) /\ Len(all) = Len(undo) + 1 /\ Len(undo) \in Nat
      /\ all[1] = "restore" /\ \A i \in 2 .. Len(all) : all[i] \in Tool
  OBVIOUS
<1> HIDE DEF all
<1>2. UndoOrder(undo) = [i \in 1 .. Len(all) |-> all[Len(all) - i + 1]]
  BY DEF UndoOrder, Reverse, all
<1>3. UndoOrder(undo) \in Seq(Tool \cup {"restore"}) /\ Len(UndoOrder(undo)) = Len(all)
  BY <1>1, <1>2
<1>4. \A i \in 1 .. Len(all) : all[Len(all) - i + 1] = "restore" <=> i = Len(all)
  BY <1>1, SMTT(30) DEF Tool
<1> QED
  BY <1>1, <1>2, <1>3, <1>4 DEF RestoreLast

\* When the restore is next it is the last, and nothing is left after any step
\* but the rest, which still ends with it.
LEMMA UndoneOne ==
  ASSUME NEW undo, RestoreLast(undo), undo # <<>>
  PROVE  /\ Head(undo) = "restore" => undo = <<"restore">> /\ Tail(undo) = <<>>
         /\ RestoreLast(Tail(undo))
         /\ Head(undo) # "restore" => Tail(undo) # <<>>
<1>1. undo \in Seq(Tool \cup {"restore"}) /\ Len(undo) \in Nat \ {0} /\ Head(undo) = undo[1]
  BY DEF RestoreLast
<1>2. undo[1] = "restore" <=> 1 = Len(undo)
  <2>1. 1 \in 1 .. Len(undo)
    BY <1>1
  <2> QED
    BY <2>1 DEF RestoreLast
<1>3. /\ Tail(undo) \in Seq(Tool \cup {"restore"}) /\ Len(Tail(undo)) = Len(undo) - 1
      /\ \A i \in 1 .. Len(Tail(undo)) : Tail(undo)[i] = undo[i + 1]
  BY <1>1, HeadTailProperties
<1>4. RestoreLast(Tail(undo))
  <2>1. \A i \in 1 .. Len(Tail(undo)) : i + 1 \in 1 .. Len(undo)
    BY <1>1, <1>3
  <2>2. \A i \in 1 .. Len(Tail(undo)) : i + 1 = Len(undo) <=> i = Len(Tail(undo))
    BY <1>1, <1>3
  <2> QED
    BY <1>3, <2>1, <2>2 DEF RestoreLast
<1>5. CASE Len(undo) = 1
  <2>1. Len(Tail(undo)) = 0
    BY <1>3, <1>5
  <2>2. Tail(undo) = <<>>
    BY <1>3, <2>1, EmptySeq
  <2>3. undo = <<"restore">>
    BY <1>1, <1>2, <1>5
  <2> QED
    BY <1>1, <1>2, <1>4, <1>5, <2>2, <2>3
<1>6. CASE Len(undo) # 1
  <2>1. Len(Tail(undo)) # 0
    BY <1>1, <1>3, <1>6
  <2>2. Tail(undo) # <<>>
    BY <1>3, <2>1, EmptySeq
  <2> QED
    BY <1>1, <1>2, <1>4, <1>6, <2>2
<1> QED
  BY <1>5, <1>6

\* Nothing is undone after the restore.
LEMMA NothingAfterRestore == Tail(<<"restore">>) = <<>>
<1> DEFINE undo == <<"restore">>
<1>1. undo \in Seq({"restore"}) /\ Len(undo) = 1 /\ undo # <<>>
  OBVIOUS
<1> HIDE DEF undo
<1>2. Tail(undo) \in Seq({"restore"}) /\ Len(Tail(undo)) = 0
  BY <1>1, HeadTailProperties
<1>3. Tail(undo) = <<>>
  BY <1>2, EmptySeq
<1> QED
  BY <1>3 DEF undo

\* A command starts with nothing to undo.
LEMMA Started ==
  ASSUME NEW cmd, NEW r \in {SyncRun(cmd), InstallRun(cmd)}
  PROVE  Shaped(r) /\ r.pc = "prepare" /\ r.undo = <<>>
  BY DEF SyncRun, InstallRun, Idle, Shaped

\* Every step keeps what a rollback will restore.
LEMMA StepKeeps ==
  ASSUME IInv, [Next]_vars
  PROVE  IInv'
<1>1. ASSUME NEW cmd \in Command, Start(cmd)
      PROVE  IInv'
  <2>1. Shaped(run') /\ run'.pc = "prepare" /\ run'.undo = <<>> /\ disk' = disk
    BY <1>1, Started DEF Start
  <2> QED
    BY <2>1 DEF IInv, Shaped, OnDisk
<1>2. CASE SkipBackup
  BY <1>2 DEF SkipBackup, IInv, Shaped, OnDisk
<1>3. CASE TakeBackup
  BY <1>3 DEF TakeBackup, IInv, Shaped, OnDisk
<1>4. CASE BackupFails
  BY <1>4 DEF BackupFails, IInv, Shaped, OnDisk
<1>5. CASE StepSucceeds
  <2>1. Undoable => Append(run.undo, Current) \in Seq(Tool)
    BY <1>5 DEF StepSucceeds, Applying, Undoable, Tool, IInv
  <2>2. /\ Shaped(run') /\ run'.pc = run.pc
        /\ run'.undo = IF Undoable THEN Append(run.undo, Current) ELSE run.undo
    BY <1>5 DEF StepSucceeds, IInv, Shaped
  <2>3. OnDisk'
    BY <1>5 DEF StepSucceeds, DiskAfter, OnDisk
  <2> QED
    BY <1>5, <2>1, <2>2, <2>3 DEF StepSucceeds, Applying, IInv
<1>6. CASE StepFails
  <2>1. Shaped(run') /\ run'.pc = run.pc /\ run'.undo = run.undo
    BY <1>6 DEF StepFails, AfterFailure, IInv, Shaped
  <2>2. OnDisk'
    BY <1>6 DEF StepFails, DiskAfter, OnDisk
  <2> QED
    BY <1>6, <2>1, <2>2 DEF StepFails, Applying, IInv
<1>7. CASE EndApply
  <2>1. run.undo \in Seq(Tool)
    BY <1>7 DEF EndApply, IInv
  <2>2. /\ Shaped(run') /\ disk' = disk
        /\ \/ run'.pc = "rollback" /\ run'.undo = UndoOrder(run.undo)
           \/ run'.pc \in {"persist", "verify"}
    BY <1>7 DEF EndApply, IInv, Shaped
  <2> QED
    BY <2>1, <2>2, UndoRestoresLast DEF IInv, OnDisk
<1>8. ASSUME run.pc = "rollback", run.undo # <<>>, Head(run.undo) # "restore",
             Shaped(run'), run'.pc = "rollback", run'.undo = Tail(run.undo), OnDisk'
      PROVE  IInv'
  BY <1>8, UndoneOne DEF IInv
<1>9. CASE UndoPi
  BY <1>8, <1>9 DEF UndoPi, Undoing, IInv, Shaped, OnDisk
<1>10. CASE UndoGuidance
  BY <1>8, <1>10 DEF UndoGuidance, Undoing, IInv, Shaped, OnDisk
<1>11. CASE UndoFails
  BY <1>8, <1>11 DEF UndoFails, Undoing, IInv, Shaped, OnDisk
<1>12. CASE BeginRestore
  <2>1. run.undo = <<"restore">> /\ Tail(run.undo) = <<>> /\ RestoreLast(Tail(run.undo))
    BY <1>12, UndoneOne DEF BeginRestore, Undoing, IInv
  <2>2. CASE run.manifest = None
    BY <1>12, <2>1, <2>2 DEF BeginRestore, Undoing, IInv, Shaped, OnDisk, Reported
  <2>3. CASE run.manifest # None
    BY <1>12, <2>1, <2>3 DEF BeginRestore, Undoing, IInv, Shaped, OnDisk, RestoredBut
  <2> QED
    BY <2>2, <2>3
<1>13. ASSUME NEW f \in File, RestoreEntry(f)
       PROVE  IInv'
  <2>1. Shaped(run') /\ run' = [run EXCEPT !.rest = run.rest \ {f}] /\ OnDisk'
    BY <1>13 DEF RestoreEntry, IInv, Shaped, OnDisk
  <2>2. /\ run'.pc = "restore" /\ run'.undo = <<"restore">> /\ run'.manifest = run.manifest
        /\ run'.rest = run.rest \ {f}
    BY <1>13, <2>1 DEF RestoreEntry, IInv, Shaped
  <2>3. \A g \in File : disk'[g] = IF g = f THEN run.manifest[f] ELSE disk[g]
    BY <1>13 DEF RestoreEntry, IInv, OnDisk
  <2> QED
    BY <1>13, <2>1, <2>2, <2>3 DEF RestoreEntry, IInv, RestoredBut
<1>14. CASE EndRestore
  <2>1. /\ Shaped(run') /\ run'.pc = "rollback" /\ run'.undo = <<>> /\ OnDisk'
        /\ run'.manifest = run.manifest
        /\ ~run'.undoFailed => run.rest = {}
    <3>1. Tail(run.undo) = <<>>
      BY <1>14, NothingAfterRestore DEF EndRestore, IInv
    <3>2. Shaped(run') /\ OnDisk'
      BY <1>14 DEF EndRestore, IInv, Shaped, OnDisk
    <3>3. /\ run'.pc = "rollback" /\ run'.undo = Tail(run.undo)
          /\ run'.manifest = run.manifest
          /\ run'.undoFailed = (run.undoFailed \/ run.rest # {})
      BY <1>14 DEF EndRestore, IInv, Shaped
    <3> QED
      BY <3>1, <3>2, <3>3
  <2>2. RestoreLast(<<>>)
    BY DEF RestoreLast
  <2> QED
    BY <1>14, <2>1, <2>2 DEF EndRestore, IInv, Reported, RestoredBut
<1>15. CASE EndRollback
  BY <1>15 DEF EndRollback, IInv, Shaped, OnDisk, Reported, RestoredBut
<1>16. CASE Verify
  BY <1>16 DEF Verify, IInv, Shaped, OnDisk
<1>17. CASE Persist \/ PersistFails
  BY <1>17 DEF Persist, PersistFails, IInv, Shaped, OnDisk
<1>18. CASE Kill
  BY <1>18 DEF Kill, Ended, Ends, IInv, Shaped, OnDisk
<1>19. CASE Upgrade
  BY <1>19 DEF Upgrade, Idle, IInv, Shaped, OnDisk
<1>20. ASSUME NEW i \in DOMAIN backups, RestoreBackup(i)
       PROVE  IInv'
  BY <1>20 DEF RestoreBackup, Idle, IInv, Shaped, OnDisk, RestoredBut
<1>21. ASSUME NEW i \in DOMAIN backups, TogglePin(i) \/ DeleteBackup(i)
       PROVE  IInv'
  BY <1>21 DEF TogglePin, DeleteBackup, IInv, Shaped, OnDisk, Reported, RestoredBut
<1>22. ASSUME NEW f \in File \ {Overlay}, UserEdit(f)
       PROVE  IInv'
  <2>1. OnDisk' /\ \A g \in File \ {f} : disk'[g] = disk[g]
    BY <1>22 DEF UserEdit, IInv, OnDisk
  <2> QED
    BY <1>22, <2>1 DEF UserEdit, IInv, Shaped, OnDisk, Reported, RestoredBut
<1>23. CASE UNCHANGED vars
  BY <1>23 DEF vars, IInv, Shaped, OnDisk, Reported, RestoredBut
<1> QED
  BY <1>1, <1>2, <1>3, <1>4, <1>5, <1>6, <1>7, <1>9, <1>10, <1>11, <1>12, <1>13, <1>14,
     <1>15, <1>16, <1>17, <1>18, <1>19, <1>20, <1>21, <1>22, <1>23 DEF Next

\* A rollback that reports no error leaves every target as it was, but for
\* what the user edited meanwhile.
THEOREM RollbacksRestore == Spec => []RollbackRestores
<1>1. Init => IInv
  BY DEF Init, Idle, IInv, Shaped, OnDisk
<1>2. IInv => RollbackRestores
  BY DEF IInv, Reported, RestoredBut, RollbackRestores
<1> QED
  BY <1>1, <1>2, StepKeeps, PTL DEF Spec

-----------------------------------------------------------------------------
(* Types.                                                                   *)

FileMap == UNION {[S -> Content] : S \in SUBSET File}
Archive == [id : 1 .. MaxRuns, files : FileMap, pinned : BOOLEAN]
Selection ==
  [components : Seq(Component), persona : {"gentleman", "neutral", "custom"},
   codegraph : BOOLEAN]

Active == {"prepare", "apply", "verify", "persist"}

\* A restore has what it restores, the step that is undone what it has found.
RunTyped(r) ==
  /\ r.pc \in Active \cup {"rollback", "restore"} \cup Ends
  /\ r.plan \in Seq(Step) /\ r.next \in 1 .. Len(r.plan) + 1
  /\ r.targets \subseteq File /\ r.rest \subseteq File
  /\ r.manifest # None => r.manifest \in FileMap
  /\ r.pc = "restore" => r.manifest \in FileMap /\ r.rest \subseteq DOMAIN r.manifest
  /\ "guidance" \in ToSet(r.undo) => r.stash \in Content
  /\ r.pc \in Active => r.cmd \in Command

Typed ==
  /\ disk \in [File -> Content]
  /\ backups \in Seq(Archive)
  /\ saved # None => saved \in Selection
  /\ RunTyped(run)
  /\ run.pc = "prepare" => used.runs >= 1
  /\ edited \subseteq File
  /\ before # None => before \in FileMap
  /\ used \in [runs : 0 .. MaxRuns, edits : 0 .. MaxEdits, faults : 0 .. MaxFaults]

\* What a snapshot of some files is.
LEMMA SnapshotFacts ==
  ASSUME NEW m \in FileMap
  PROVE  DOMAIN m \subseteq File /\ \A f \in DOMAIN m : m[f] \in Content
  BY DEF FileMap

\* A section or a persona leaves a file a file.
LEMMA SectionTyped ==
  ASSUME NEW part \in Part, NEW f, disk[f] \in Content
  PROVE  Section(part, f) \in Content
  BY DEF Section, Content, Text

\* So does whatever a step writes.
LEMMA WrittenTyped ==
  ASSUME disk \in [File -> Content], NEW r, NEW step \in Step, NEW f \in File
  PROVE  Written(r, step, f) \in Content
<1>1. disk[f] \in Content /\ disk[Overlay] \in Content
  <2>1. Overlay \in File
    BY DEF File
  <2> QED
    BY <2>1
<1>2. Absent \in Content
  BY DEF Content, Text
<1>3. Personalised(r.persona, f) \in Content
  BY <1>1 DEF Personalised, Content, Text
<1>4. PiReconciled(r) \in Content
  BY <1>1, <1>2, SectionTyped DEF PiReconciled, Part
<1>5. step \in Component => Section(step, f) \in Content
  BY <1>1, SectionTyped DEF Part
<1>6. Section("codegraph", f) \in Content
  BY <1>1, SectionTyped DEF Part
<1>7. CASE step = "persona"
  BY <1>3, <1>7 DEF Written
<1>8. CASE step # "persona" /\ step \in Component
  BY <1>5, <1>8 DEF Written
<1>9. CASE step # "persona" /\ step \notin Component
  BY <1>4, <1>6, <1>9 DEF Written
<1> QED
  BY <1>7, <1>8, <1>9

\* A step leaves the disk one of files.
LEMMA DiskTyped ==
  ASSUME disk \in [File -> Content], NEW r, NEW step \in Step, NEW W
  PROVE  DiskAfter(r, step, W) \in [File -> Content]
  BY WrittenTyped DEF DiskAfter

\* A component writes files of the agents, and never the overlay.
LEMMA TargetFiles ==
  ASSUME NEW c \in Component, NEW persona
  PROVE  ComponentFiles(c, persona) \subseteq File \ {Overlay}
  BY CommandAssumption DEF ComponentFiles

\* What a run lists to be backed up are files.
LEMMA TargetsAreFiles ==
  ASSUME NEW components \in Seq(Component), NEW persona, NEW codegraph
  PROVE  BackupTargets(components, persona, codegraph) \subseteq File
<1>1. Prompt \in File /\ Overlay \in File
  BY DEF File
<1>2. \A c \in ToSet(components) : ComponentPaths(c, persona) \subseteq File
  BY TargetFiles DEF ToSet, ComponentPaths
<1> QED
  BY <1>1, <1>2 DEF BackupTargets

\* What an install plans: between the tool and Pi, the components.
LEMMA InstallPlanned ==
  ASSUME NEW cmd \in Command
  PROVE  /\ ToSet(cmd.components) \in SUBSET Component
         /\ Arranged(Expanded(ToSet(cmd.components)), Planned(ToSet(cmd.components)),
                     Len(SoftPairs))
         /\ Planned(ToSet(cmd.components)) \in Seq(Component)
<1>1. PICK S : S = ToSet(cmd.components)
  OBVIOUS
<1>2. S \in SUBSET Component
  BY <1>1, CommandAssumption DEF ToSet
<1>3. Arranged(Expanded(S), Planned(S), Len(SoftPairs)) /\ Expanded(S) \in SUBSET Component
  BY <1>2, PlannedFacts, ExpandedFacts
<1>4. Planned(S) \in Seq(Component)
  BY <1>3 DEF Arranged
<1> QED
  BY <1>1, <1>2, <1>3, <1>4


\* The steps to be undone are the ones that were made.
LEMMA UndoOrderOf ==
  ASSUME NEW undo \in Seq(Tool), "guidance" \in ToSet(UndoOrder(undo))
  PROVE  "guidance" \in ToSet(undo)
<1> DEFINE all == <<"restore">> \o undo
<1>1. /\ all \in Seq(Tool \cup {"restore"}) /\ Len(all) = Len(undo) + 1 /\ Len(undo) \in Nat
      /\ all[1] = "restore" /\ \A i \in 2 .. Len(all) : all[i] = undo[i - 1]
  OBVIOUS
<1> HIDE DEF all
<1>2. UndoOrder(undo) = [i \in 1 .. Len(all) |-> all[Len(all) - i + 1]]
  BY DEF UndoOrder, Reverse, all
<1>3. PICK i \in 1 .. Len(all) : all[Len(all) - i + 1] = "guidance"
  BY <1>1, <1>2 DEF ToSet
<1>4. PICK k \in 1 .. Len(all) : all[k] = "guidance"
  BY <1>1, <1>3
<1>5. k - 1 \in 1 .. Len(undo) /\ undo[k - 1] = "guidance"
  BY <1>1, <1>4
<1> QED
  BY <1>5 DEF ToSet

\* What is undone later was to be undone.
LEMMA TailOf ==
  ASSUME NEW T, NEW s \in Seq(T), s # <<>>
  PROVE  Tail(s) \in Seq(T) /\ ToSet(Tail(s)) \subseteq ToSet(s)
<1>1. PICK n \in Nat : n = Len(s)
  OBVIOUS
<1>2. PICK t : t = Tail(s)
  OBVIOUS
<1>3. t \in Seq(T) /\ Len(t) = n - 1 /\ \A i \in 1 .. Len(t) : t[i] = s[i + 1]
  BY <1>1, <1>2, HeadTailProperties
<1>4. ASSUME NEW x \in ToSet(t)
      PROVE  x \in ToSet(s)
  <2>1. PICK i \in 1 .. Len(t) : t[i] = x
    BY <1>3, <1>4 DEF ToSet
  <2>2. i + 1 \in 1 .. n /\ s[i + 1] = x
    BY <1>1, <1>3, <2>1
  <2> QED
    BY <1>1, <2>2 DEF ToSet
<1> QED
  BY <1>2, <1>3, <1>4

\* A run of an install and one of a sync are what they should be.
LEMMA StartTyped ==
  ASSUME Typed, NEW cmd \in Command, NEW r,
         r = IF cmd.kind = "sync" THEN SyncRun(cmd) ELSE InstallRun(cmd)
  PROVE  RunTyped(r) /\ r.pc = "prepare"
<1>1. CASE cmd.kind = "sync"
  <2> DEFINE selection == IF saved = None THEN SyncDefault ELSE saved.components
             persona == IF saved = None THEN "neutral" ELSE saved.persona
             tool == IF saved = None THEN CodeGraphLeftovers ELSE saved.codegraph
             plan == selection \o (IF tool THEN <<"guidance", "pi">> ELSE <<>>)
             targets == BackupTargets(selection, persona, tool)
  <2>1. r = [Idle EXCEPT !.pc = "prepare", !.kind = "sync", !.cmd = cmd,
                         !.persona = persona, !.codegraph = tool,
                         !.plan = plan, !.targets = targets]
    BY <1>1 DEF SyncRun
  <2>2. selection \in Seq(Component)
    BY CommandAssumption DEF Typed, Selection
  <2>3. targets \subseteq File
    <3> HIDE DEF selection, persona, tool
    <3> QED
      BY <2>2, TargetsAreFiles
  <2>4. plan \in Seq(Step)
    <3>1. selection \in Seq(Step)
      <4> HIDE DEF selection
      <4> QED
        BY <2>2 DEF Step
    <3>2. "guidance" \in Step /\ "pi" \in Step
      BY DEF Step
    <3>3. <<"guidance", "pi">> \in Seq(Step) /\ <<>> \in Seq(Step)
      BY <3>2
    <3> HIDE DEF selection, tool
    <3> QED
      BY <3>1, <3>3
  <2> HIDE DEF selection, persona, tool, plan, targets
  <2>5. /\ r.pc = "prepare" /\ r.cmd = cmd /\ r.plan = plan /\ r.next = 1
        /\ r.targets = targets /\ r.rest = {} /\ r.manifest = None /\ r.undo = <<>>
    BY <2>1 DEF Idle
  <2>6. r.next \in 1 .. Len(r.plan) + 1
    BY <2>4, <2>5
  <2>7. "guidance" \notin ToSet(<<>>)
    BY DEF ToSet
  <2> QED
    BY <2>3, <2>4, <2>5, <2>6, <2>7 DEF RunTyped, Active
<1>2. CASE cmd.kind # "sync"
  <2>1. PICK planned : planned = Planned(ToSet(cmd.components))
    OBVIOUS
  <2>2. planned \in Seq(Component)
    BY <2>1, InstallPlanned
  <2>3. PICK plan : plan = (IF cmd.codegraph THEN <<"codegraph">> ELSE <<>>) \o planned \o <<"pi">>
    OBVIOUS
  <2>4. PICK targets : targets = BackupTargets(planned, cmd.persona, cmd.codegraph)
    OBVIOUS
  <2>5. targets \subseteq File
    BY <2>2, <2>4, TargetsAreFiles
  <2>6. plan \in Seq(Step)
    <3>1. planned \in Seq(Step) /\ <<"pi">> \in Seq(Step)
      BY <2>2 DEF Step
    <3>2. "codegraph" \in Step
      BY DEF Step
    <3>3. <<"codegraph">> \in Seq(Step) /\ <<>> \in Seq(Step)
      BY <3>2
    <3> QED
      BY <2>3, <3>1, <3>3
  <2>7. r = [Idle EXCEPT !.pc = "prepare", !.kind = cmd.kind, !.cmd = cmd,
                         !.persona = cmd.persona, !.codegraph = cmd.codegraph,
                         !.plan = plan, !.targets = targets]
    BY <1>2, <2>1, <2>3, <2>4 DEF InstallRun
  <2>8. /\ r.pc = "prepare" /\ r.cmd = cmd /\ r.plan = plan /\ r.next = 1
        /\ r.targets = targets /\ r.rest = {} /\ r.manifest = None /\ r.undo = <<>>
    BY <2>7 DEF Idle
  <2>9. r.next \in 1 .. Len(r.plan) + 1
    BY <2>6, <2>8
  <2>10. "guidance" \notin ToSet(<<>>)
    BY DEF ToSet
  <2> QED
    BY <2>5, <2>6, <2>8, <2>9, <2>10 DEF RunTyped, Active
<1> QED
  BY <1>1, <1>2


\* A snapshot of the targets is one of files, and makes a backup.
LEMMA SnapshotTyped ==
  ASSUME Typed
  PROVE  Targets \in FileMap /\ disk \in FileMap
<1>1. run.targets \in SUBSET File /\ Targets \in [run.targets -> Content]
  BY DEF Typed, RunTyped, Targets
<1>2. disk \in [File -> Content]
  BY DEF Typed
<1> QED
  BY <1>1, <1>2 DEF FileMap

\* The numbers are in their bounds, each by itself.
LEMMA Bounds ==
  ASSUME Typed
  PROVE  /\ MaxRuns \in Nat /\ MaxEdits \in Nat /\ MaxFaults \in Nat
         /\ used.runs \in 0 .. MaxRuns /\ used.edits \in 0 .. MaxEdits
         /\ used.faults \in 0 .. MaxFaults
         /\ used = [runs |-> used.runs, edits |-> used.edits, faults |-> used.faults]
  BY BoundAssumption DEF Typed

\* The steps that write a file: a component, a tool, the undo of one, a restore.
LEMMA WriteTyped ==
  ASSUME IInv, Typed, \/ StepSucceeds \/ StepFails \/ UndoPi \/ UndoGuidance
                      \/ \E f \in File : RestoreEntry(f)
                      \/ \E f \in File \ {Overlay} : UserEdit(f)
  PROVE  disk' \in [File -> Content]
<1>1. disk \in [File -> Content] /\ RunTyped(run)
  BY DEF Typed
<1>2. Absent \in Content
  BY DEF Content, Text
<1>3. CASE StepSucceeds \/ StepFails
  <2>1. Applying /\ \E W : disk' = DiskAfter(run, Current, W)
    BY <1>3 DEF StepSucceeds, StepFails
  <2>2. Current \in Step
    BY <1>1, <2>1 DEF Applying, Current, RunTyped
  <2> QED
    BY <1>1, <2>1, <2>2, DiskTyped
<1>4. CASE UndoPi
  BY <1>1, <1>2, <1>4 DEF UndoPi
<1>5. CASE UndoGuidance
  <2>1. run.pc = "rollback" /\ run.undo # <<>> /\ Head(run.undo) = "guidance"
    BY <1>5 DEF UndoGuidance, Undoing
  <2>2. run.undo \in Seq(Tool \cup {"restore"})
    BY <2>1 DEF IInv, RestoreLast
  <2>3. 1 \in 1 .. Len(run.undo) /\ run.undo[1] = "guidance"
    BY <2>1, <2>2
  <2>4. "guidance" \in ToSet(run.undo)
    BY <2>2, <2>3 DEF ToSet
  <2>5. run.stash \in Content
    BY <1>1, <2>4 DEF RunTyped
  <2> QED
    BY <1>1, <1>5, <2>5 DEF UndoGuidance
<1>6. ASSUME NEW f \in File, RestoreEntry(f)
      PROVE  disk' \in [File -> Content]
  <2>1. run.manifest \in FileMap /\ f \in DOMAIN run.manifest
    BY <1>1, <1>6 DEF RestoreEntry, RunTyped
  <2>2. run.manifest[f] \in Content
    BY <2>1, SnapshotFacts
  <2> QED
    BY <1>1, <1>6, <2>2 DEF RestoreEntry
<1>7. ASSUME NEW f \in File, UserEdit(f)
      PROVE  disk' \in [File -> Content]
  <2>1. disk[f] \in Content
    BY <1>1
  <2>2. [text |-> "user", parts |-> IF disk[f] = Absent THEN {} ELSE disk[f].parts] \in Content
    BY <2>1 DEF Content, Text
  <2> QED
    BY <1>1, <1>2, <1>7, <2>2 DEF UserEdit
<1> QED
  BY <1>3, <1>4, <1>5, <1>6, <1>7

\* A backup that is taken is one more, and what is pruned are backups.
LEMMA TakeTyped ==
  ASSUME IInv, Typed, TakeBackup
  PROVE  backups' \in Seq(Archive) /\ before' \in FileMap /\ used'.faults \in 0 .. MaxFaults
<1>1. Backup(Targets) \in Archive
  <2>1. used.runs \in 1 .. MaxRuns
    BY Bounds DEF TakeBackup, Typed
  <2> QED
    BY <2>1, SnapshotTyped DEF Backup, Archive
<1>2. PICK all : all = Append(backups, Backup(Targets))
  OBVIOUS
<1>3. all \in Seq(Archive)
  BY <1>1, <1>2 DEF Typed
<1>4. PICK kept \in SUBSET Prunable(all) :
        /\ used.faults + Cardinality(kept) <= MaxFaults
        /\ used' = [used EXCEPT !.faults = used.faults + Cardinality(kept)]
        /\ backups' = WithoutBackups(all, Prunable(all) \ kept)
  BY <1>2 DEF TakeBackup
<1>5. backups' \in Seq(Archive)
  BY <1>3, <1>4, WithoutFacts
<1>6. Cardinality(kept) \in Nat
  <2>1. Prunable(all) \subseteq 1 .. Len(all) /\ Len(all) \in Nat
    BY <1>3 DEF Prunable, Unpinned
  <2>2. PICK n \in Nat : n = Len(all)
    BY <2>1
  <2>3. IsFiniteSet(1 .. n) /\ kept \subseteq 1 .. n
    BY <1>4, <2>1, <2>2, FS_Interval
  <2>4. IsFiniteSet(kept)
    BY <2>3, FS_Subset
  <2> QED
    BY <2>4, FS_CardinalityType
<1>7. used'.faults = used.faults + Cardinality(kept)
  BY <1>4, Bounds
<1> QED
  BY <1>4, <1>5, <1>6, <1>7, Bounds, SnapshotTyped DEF TakeBackup

\* The backups after an upgrade.
LEMMA UpgradeTyped ==
  ASSUME IInv, Typed, Upgrade
  PROVE  backups' \in Seq(Archive) /\ (before' # None => before' \in FileMap) /\ edited' \subseteq File
<1>1. PICK taken, next, all :
        /\ taken \in BOOLEAN /\ next = used.runs + 1
        /\ all = IF taken THEN Append(backups, [Backup(disk) EXCEPT !.id = next]) ELSE backups
        /\ backups' = WithoutBackups(all, Prunable(all))
        /\ before' = IF taken THEN disk ELSE before
        /\ edited' = IF taken THEN {} ELSE edited
  BY DEF Upgrade
<1>2. [Backup(disk) EXCEPT !.id = next] \in Archive
  <2>1. next \in 1 .. MaxRuns
    BY <1>1, Bounds DEF Upgrade
  <2> QED
    BY <2>1, SnapshotTyped DEF Backup, Archive
<1>3. all \in Seq(Archive)
  BY <1>1, <1>2 DEF Typed
<1>4. backups' \in Seq(Archive)
  BY <1>1, <1>3, WithoutFacts
<1> QED
  BY <1>1, <1>4, SnapshotTyped DEF Typed


\* The run stays a run.
LEMMA RunStaysTyped ==
  ASSUME IInv, Typed, [Next]_vars
  PROVE  RunTyped(run') /\ (run'.pc = "prepare" => used'.runs >= 1)
<1>1. Shaped(run) /\ RunTyped(run) /\ (run.pc = "prepare" => used.runs >= 1)
  BY DEF Typed, IInv
<1>2. ASSUME NEW cmd \in Command, Start(cmd)
      PROVE  RunTyped(run') /\ used'.runs >= 1
  <2>1. used'.runs >= 1
    BY <1>2, Bounds DEF Start
  <2> QED
    BY <1>2, <2>1, StartTyped DEF Start
<1>3. CASE SkipBackup
  BY <1>1, <1>3 DEF SkipBackup, RunTyped, Shaped, Active
<1>4. CASE TakeBackup
  BY <1>1, <1>4, SnapshotTyped DEF TakeBackup, RunTyped, Shaped, Active
<1>5. ASSUME run'.pc \in Ends, run' = [run EXCEPT !.pc = run'.pc]
      PROVE  RunTyped(run') /\ run'.pc # "prepare"
  BY <1>1, <1>5 DEF RunTyped, Shaped, Active, Ends
<1>6. ASSUME BackupFails \/ EndRollback \/ PersistFails \/ Persist \/ Kill
      PROVE  RunTyped(run') /\ run'.pc # "prepare"
  <2>1. run'.pc \in Ends /\ run' = [run EXCEPT !.pc = run'.pc]
    BY <1>1, <1>6 DEF BackupFails, EndRollback, PersistFails, Persist, Kill, Shaped, Ends
  <2> QED
    BY <1>5, <2>1
<1>7. CASE StepSucceeds
  <2>1. PICK n \in Nat : n = Len(run.plan)
    BY <1>1 DEF RunTyped
  <2>2. run.next \in 1 .. n /\ run.pc = "apply" /\ run.undo \in Seq(Tool)
    BY <1>1, <1>7, <2>1 DEF StepSucceeds, Applying, RunTyped, IInv
  <2>3. PICK undo, stash :
          /\ undo = IF Undoable THEN Append(run.undo, Current) ELSE run.undo
          /\ stash = IF Current = "guidance" THEN disk[Prompt] ELSE run.stash
    OBVIOUS
  <2>4. run' = [run EXCEPT !.next = run.next + 1, !.undo = undo, !.stash = stash]
    BY <1>7, <2>3 DEF StepSucceeds
  <2>5. /\ run'.pc = "apply" /\ run'.plan = run.plan /\ run'.next = run.next + 1
        /\ run'.targets = run.targets /\ run'.rest = run.rest
        /\ run'.manifest = run.manifest /\ run'.undo = undo /\ run'.stash = stash
        /\ run'.cmd = run.cmd
    BY <1>1, <2>2, <2>4 DEF Shaped
  <2>6. "guidance" \in ToSet(undo) => stash \in Content
    <3>1. disk[Prompt] \in Content
      <4>1. Prompt \in File
        BY DEF File
      <4> QED
        BY <4>1 DEF Typed
    <3>2. CASE Current = "guidance"
      BY <2>3, <3>1, <3>2
    <3>3. CASE Current # "guidance"
      <4>1. "guidance" \in ToSet(undo) => "guidance" \in ToSet(run.undo)
        BY <2>2, <2>3, <3>3 DEF ToSet
      <4> QED
        BY <1>1, <2>3, <3>3, <4>1 DEF RunTyped
    <3> QED
      BY <3>2, <3>3
  <2>7. run'.next \in 1 .. Len(run'.plan) + 1
    BY <2>1, <2>2, <2>5
  <2> QED
    BY <1>1, <2>2, <2>5, <2>6, <2>7 DEF RunTyped, Active
<1>8. CASE StepFails
  <2>1. PICK n \in Nat : n = Len(run.plan)
    BY <1>1 DEF RunTyped
  <2>2. run.next \in 1 .. n /\ run.pc = "apply"
    BY <1>1, <1>8, <2>1 DEF StepFails, Applying, RunTyped
  <2>3. PICK next : next = IF run.kind = "tui" THEN run.next + 1 ELSE n + 1
    OBVIOUS
  <2>4. run' = [run EXCEPT !.failed = TRUE, !.next = next]
    BY <1>8, <2>1, <2>3 DEF StepFails, AfterFailure
  <2>5. next \in 1 .. n + 1
    BY <2>2, <2>3
  <2> QED
    BY <1>1, <2>1, <2>2, <2>4, <2>5 DEF RunTyped, Shaped, Active
<1>9. CASE EndApply
  <2>1. run.pc = "apply" /\ run.undo \in Seq(Tool)
    BY <1>9 DEF EndApply, IInv
  <2>2. CASE run.failed
    <3>1. run' = [run EXCEPT !.pc = "rollback", !.undo = UndoOrder(run.undo)]
      BY <1>9, <2>2 DEF EndApply
    <3> QED
      BY <1>1, <2>1, <3>1, UndoOrderOf DEF RunTyped, Shaped, Active
  <2>3. CASE ~run.failed
    <3>1. run'.pc \in {"persist", "verify"} /\ run' = [run EXCEPT !.pc = run'.pc]
      BY <1>1, <1>9, <2>3 DEF EndApply, Shaped
    <3> QED
      BY <1>1, <2>1, <3>1 DEF RunTyped, Shaped, Active
  <2> QED
    BY <2>2, <2>3
<1>10. CASE UndoPi \/ UndoGuidance \/ UndoFails \/ BeginRestore
  <2>1. run.pc = "rollback" /\ run.undo # <<>> /\ run.undo \in Seq(Tool \cup {"restore"})
    BY <1>10 DEF UndoPi, UndoGuidance, UndoFails, BeginRestore, Undoing, IInv, RestoreLast
  <2>2. PICK undo : undo = Tail(run.undo)
    OBVIOUS
  <2>3. "guidance" \in ToSet(undo) => "guidance" \in ToSet(run.undo)
    BY <2>1, <2>2, TailOf
  <2>4. \/ run' = [run EXCEPT !.undo = undo]
        \/ run' = [run EXCEPT !.undo = undo, !.undoFailed = TRUE]
        \/ run.manifest # None /\ run' = [run EXCEPT !.pc = "restore", !.rest = DOMAIN run.manifest]
    BY <1>10, <2>2 DEF UndoPi, UndoGuidance, UndoFails, BeginRestore
  <2>5. run.manifest # None => DOMAIN run.manifest \subseteq File
    BY <1>1, SnapshotFacts DEF RunTyped
  <2> QED
    BY <1>1, <2>1, <2>3, <2>4, <2>5 DEF RunTyped, Shaped, Active
<1>11. ASSUME NEW f \in File, RestoreEntry(f)
       PROVE  RunTyped(run') /\ run'.pc # "prepare"
  BY <1>1, <1>11 DEF RestoreEntry, RunTyped, Shaped, Active
<1>12. CASE EndRestore
  <2>1. Tail(run.undo) = <<>> /\ run.pc = "restore"
    BY <1>12, NothingAfterRestore DEF EndRestore, IInv
  <2>2. PICK fault : fault = (run.undoFailed \/ run.rest # {})
    OBVIOUS
  <2>3. run' = [run EXCEPT !.pc = "rollback", !.undo = <<>>, !.rest = {}, !.undoFailed = fault]
    BY <1>12, <2>1, <2>2 DEF EndRestore
  <2>4. "guidance" \notin ToSet(<<>>)
    BY DEF ToSet
  <2> QED
    BY <1>1, <2>1, <2>3, <2>4 DEF RunTyped, Shaped, Active
<1>13. CASE Verify
  <2>1. run'.pc \in {"done", "persist", "failed"} /\ run' = [run EXCEPT !.pc = run'.pc]
    BY <1>1, <1>13 DEF Verify, Shaped
  <2> QED
    BY <1>1, <1>13, <2>1 DEF Verify, RunTyped, Shaped, Active, Ends
<1>14. CASE Upgrade
  <2>1. "guidance" \notin ToSet(<<>>) /\ <<>> \in Seq(Step) /\ Len(<<>>) = 0
    BY DEF ToSet
  <2> QED
    BY <1>14, <2>1 DEF Upgrade, Idle, RunTyped, Active, Ends
<1>15. ASSUME NEW i \in DOMAIN backups, RestoreBackup(i)
       PROVE  RunTyped(run') /\ run'.pc # "prepare"
  <2>1. "guidance" \notin ToSet(<<"restore">>) /\ <<>> \in Seq(Step) /\ Len(<<>>) = 0
    BY DEF ToSet
  <2>2. PICK files : files = backups[i].files
    OBVIOUS
  <2>3. files \in FileMap
    <3>1. backups[i] \in Archive
      BY <1>15 DEF Typed
    <3> QED
      BY <2>2, <3>1 DEF Archive
  <2>4. DOMAIN files \subseteq File
    BY <2>3, SnapshotFacts
  <2>5. run' = [Idle EXCEPT !.pc = "restore", !.kind = "restore", !.undo = <<"restore">>,
                            !.manifest = files, !.rest = DOMAIN files]
    BY <1>15, <2>2 DEF RestoreBackup
  <2> QED
    BY <2>1, <2>3, <2>4, <2>5 DEF Idle, RunTyped, Active
<1>16. ASSUME run' = run, used'.runs = used.runs
       PROVE  RunTyped(run') /\ (run'.pc = "prepare" => used'.runs >= 1)
  BY <1>1, <1>16
<1>17. ASSUME NEW i \in DOMAIN backups, TogglePin(i) \/ DeleteBackup(i)
       PROVE  RunTyped(run') /\ (run'.pc = "prepare" => used'.runs >= 1)
  <2>1. run' = run /\ used'.runs = used.runs
    BY <1>17, Bounds DEF TogglePin, DeleteBackup
  <2> QED
    BY <1>16, <2>1
<1>18. ASSUME NEW f \in File, UserEdit(f)
       PROVE  RunTyped(run') /\ (run'.pc = "prepare" => used'.runs >= 1)
  <2>1. run' = run /\ used'.runs = used.runs
    BY <1>18, Bounds DEF UserEdit
  <2> QED
    BY <1>16, <2>1
<1>19. CASE UNCHANGED vars
  BY <1>16, <1>19 DEF vars
<1>20. (SkipBackup \/ TakeBackup \/ StepSucceeds \/ StepFails \/ EndApply
        \/ UndoPi \/ UndoGuidance \/ UndoFails \/ BeginRestore \/ EndRestore
        \/ Verify \/ Upgrade) => run'.pc # "prepare"
  BY <1>1 DEF SkipBackup, TakeBackup, StepSucceeds, Applying, StepFails, AfterFailure, EndApply,
     UndoPi, UndoGuidance, UndoFails, BeginRestore, Undoing, EndRestore, Verify, Upgrade,
     Idle, Shaped
<1> QED
  BY <1>2, <1>3, <1>4, <1>6, <1>7, <1>8, <1>9, <1>10, <1>11, <1>12, <1>13, <1>14, <1>15,
     <1>17, <1>18, <1>19, <1>20 DEF Next


\* The commands, the user and the faults keep the types.
LEMMA StaysTyped ==
  ASSUME IInv, Typed, [Next]_vars
  PROVE  Typed'
<1>1. RunTyped(run') /\ (run'.pc = "prepare" => used'.runs >= 1)
  BY RunStaysTyped
<1>2. disk' \in [File -> Content]
  <2>1. CASE disk' = disk
    BY <2>1 DEF Typed
  <2>2. CASE disk' # disk
    <3>1. StepSucceeds \/ StepFails \/ UndoPi \/ UndoGuidance
          \/ (\E f \in File : RestoreEntry(f)) \/ \E f \in File \ {Overlay} : UserEdit(f)
      BY <2>2 DEF Next, vars, Start, SkipBackup, TakeBackup, BackupFails, EndApply, UndoFails,
         BeginRestore, EndRestore, EndRollback, Verify, Persist, PersistFails, Kill, Upgrade,
         RestoreBackup, TogglePin, DeleteBackup
    <3> QED
      BY <3>1, WriteTyped
  <2> QED
    BY <2>1, <2>2
<1>3. backups' \in Seq(Archive) /\ (before' # None => before' \in FileMap) /\ edited' \subseteq File
  <2>1. CASE TakeBackup
    BY <2>1, TakeTyped DEF TakeBackup
  <2>2. CASE Upgrade
    BY <2>2, UpgradeTyped
  <2>3. ASSUME NEW i \in DOMAIN backups, TogglePin(i)
        PROVE  backups' \in Seq(Archive)
    <3>1. backups \in Seq(Archive) /\ backups[i] \in Archive
      BY <2>3 DEF Typed
    <3>2. PICK b : b = [backups[i] EXCEPT !.pinned = ~backups[i].pinned]
      OBVIOUS
    <3>3. b \in Archive
      BY <3>1, <3>2 DEF Archive
    <3>4. backups' = [backups EXCEPT ![i] = b]
      BY <2>3, <3>2 DEF TogglePin
    <3> QED
      BY <3>1, <3>3, <3>4
  <2>4. ASSUME NEW i \in DOMAIN backups, DeleteBackup(i)
        PROVE  backups' \in Seq(Archive) /\ (before' = None \/ before' = before)
    <3>1. backups \in Seq(Archive)
      BY DEF Typed
    <3> QED
      BY <2>4, <3>1, WithoutFacts DEF DeleteBackup
  <2>5. ASSUME NEW f \in File, UserEdit(f)
        PROVE  edited' \subseteq File
    BY <2>5 DEF UserEdit, Typed
  <2>6. CASE SkipBackup
    BY <2>6, SnapshotTyped DEF SkipBackup, Typed
  <2>7. CASE backups' = backups /\ before' = before /\ edited' \in {edited, {}}
    BY <2>7 DEF Typed
  <2> QED
    BY <2>1, <2>2, <2>3, <2>4, <2>5, <2>6, <2>7 DEF Next, vars, Start, BackupFails, StepSucceeds,
       StepFails, EndApply, UndoPi, UndoGuidance, UndoFails, BeginRestore, RestoreEntry,
       EndRestore, EndRollback, Verify, Persist, PersistFails, Kill, RestoreBackup, TogglePin,
       DeleteBackup, UserEdit, Typed
<1>4. saved' # None => saved' \in Selection
  <2>1. CASE Persist
    <3>1. saved' = SavedAfter(run.cmd) /\ run.cmd \in Command
      BY <2>1 DEF Persist, Typed, RunTyped, Active
    <3>2. saved # None => saved \in Selection
      BY DEF Typed
    <3>3. PICK cmd \in Command : cmd = run.cmd
      BY <3>1
    <3>4. /\ cmd.components \in Seq(Component) /\ cmd.codegraph \in BOOLEAN
          /\ cmd.persona \in {"gentleman", "neutral", "custom"}
      BY CommandAssumption
    <3>5. CASE cmd.kind = "add" /\ saved # None
      BY <3>1, <3>2, <3>3, <3>4, <3>5 DEF SavedAfter, Selection
    <3>6. CASE ~(cmd.kind = "add" /\ saved # None)
      BY <3>1, <3>3, <3>4, <3>6 DEF SavedAfter, Selection
    <3> QED
      BY <3>5, <3>6
  <2>2. CASE saved' = saved
    BY <2>2 DEF Typed
  <2> QED
    BY <2>1, <2>2 DEF Next, vars, Start, SkipBackup, TakeBackup, BackupFails, StepSucceeds,
       StepFails, EndApply, UndoPi, UndoGuidance, UndoFails, BeginRestore, RestoreEntry,
       EndRestore, EndRollback, Verify, PersistFails, Kill, Upgrade, RestoreBackup, TogglePin,
       DeleteBackup, UserEdit
<1>5. used' \in [runs : 0 .. MaxRuns, edits : 0 .. MaxEdits, faults : 0 .. MaxFaults]
  <2>1. CASE TakeBackup
    <3>1. used' = [used EXCEPT !.faults = used'.faults]
      BY <2>1, Bounds DEF TakeBackup
    <3> QED
      BY <2>1, <3>1, TakeTyped, Bounds
  <2>2. ASSUME used.runs < MaxRuns,
               NEW faults \in 0 .. MaxFaults,
               used' = [used EXCEPT !.runs = used.runs + 1, !.faults = faults]
        PROVE  used' \in [runs : 0 .. MaxRuns, edits : 0 .. MaxEdits, faults : 0 .. MaxFaults]
    <3>1. PICK next : next = used.runs + 1
      OBVIOUS
    <3>2. next \in 0 .. MaxRuns
      BY <2>2, <3>1, Bounds
    <3> QED
      BY <2>2, <3>1, <3>2, Bounds
  <2>3. CASE Upgrade
    <3>1. PICK faults : faults = used'.faults
      OBVIOUS
    <3>2. /\ used' = [used EXCEPT !.runs = used.runs + 1, !.faults = faults]
          /\ faults \in {used.faults, used.faults + 1}
          /\ used.runs < MaxRuns /\ (faults # used.faults => used.faults < MaxFaults)
      BY <2>3, <3>1, Bounds DEF Upgrade
    <3>3. faults \in 0 .. MaxFaults
      BY <3>2, Bounds
    <3> QED
      BY <2>2, <3>2, <3>3
  <2>4. CASE (\E cmd \in Command : Start(cmd)) \/ \E i \in DOMAIN backups : RestoreBackup(i)
    <3>1. used' = [used EXCEPT !.runs = used.runs + 1] /\ used.runs < MaxRuns
      BY <2>4 DEF Start, RestoreBackup
    <3>2. PICK faults \in 0 .. MaxFaults : faults = used.faults
      BY Bounds
    <3>3. used' = [used EXCEPT !.runs = used.runs + 1, !.faults = faults]
      BY <3>1, <3>2, Bounds
    <3> QED
      BY <2>2, <3>1, <3>3
  <2>5. CASE BackupFails \/ StepFails \/ UndoFails \/ EndRestore \/ PersistFails \/ Kill
    BY <2>5, Bounds DEF BackupFails, StepFails, UndoFails, EndRestore, PersistFails, Kill
  <2>6. CASE Verify
    BY <2>6, Bounds DEF Verify
  <2>7. CASE (\E i \in DOMAIN backups : TogglePin(i) \/ DeleteBackup(i)) \/ \E f \in File : UserEdit(f)
    <3>1. used' = [used EXCEPT !.edits = used.edits + 1] /\ used.edits < MaxEdits
      BY <2>7 DEF TogglePin, DeleteBackup, UserEdit
    <3>2. PICK next : next = used.edits + 1
      OBVIOUS
    <3>3. next \in 0 .. MaxEdits
      BY <3>1, <3>2, Bounds
    <3> QED
      BY <3>1, <3>2, <3>3, Bounds
  <2>8. CASE used' = used
    BY <2>8 DEF Typed
  <2> QED
    BY <2>1, <2>3, <2>4, <2>5, <2>6, <2>7, <2>8 DEF Next, vars, SkipBackup, StepSucceeds,
       EndApply, UndoPi, UndoGuidance, BeginRestore, RestoreEntry, EndRollback, Persist
<1> QED
  BY <1>1, <1>2, <1>3, <1>4, <1>5 DEF Typed

\* The model starts typed.
LEMMA InitTyped == Init => IInv /\ Typed
<1> SUFFICES ASSUME Init PROVE IInv /\ Typed
  OBVIOUS
<1>1. IInv
  BY DEF Init, Idle, IInv, Shaped, OnDisk
<1>2. disk \in [File -> Content]
  BY DEF Init, Content, Text
<1>3. RunTyped(run) /\ run.pc # "prepare"
  <2>1. "guidance" \notin ToSet(<<>>) /\ <<>> \in Seq(Step) /\ Len(<<>>) = 0
    BY DEF ToSet
  <2> QED
    BY <2>1 DEF Init, Idle, RunTyped, Active, Ends
<1> QED
  BY <1>1, <1>2, <1>3, BoundAssumption DEF Init, Typed

\* The types of the installer: what is on the disk and in the backups, what is
\* recorded, and the command that runs.
THEOREM TypesHold == Spec => []TypeOK
<1>1. IInv /\ Typed => TypeOK
  <2> SUFFICES ASSUME Typed PROVE TypeOK
    OBVIOUS
  <2>1. ASSUME NEW i \in DOMAIN backups
        PROVE  /\ backups[i].pinned \in BOOLEAN /\ backups[i].id \in 1 .. MaxRuns
               /\ \A f \in DOMAIN backups[i].files : f \in File /\ backups[i].files[f] \in Content
    <3>1. PICK b \in Archive : b = backups[i]
      BY DEF Typed
    <3>2. b.pinned \in BOOLEAN /\ b.id \in 1 .. MaxRuns /\ b.files \in FileMap
      BY DEF Archive
    <3> QED
      BY <3>1, <3>2, SnapshotFacts
  <2>2. before # None => \A f \in DOMAIN before : before[f] \in Content
    BY SnapshotFacts DEF Typed
  <2>3. saved = None \/ saved.components \in Seq(Component)
    BY DEF Typed, Selection
  <2> QED
    BY <2>1, <2>2, <2>3 DEF Typed, RunTyped, Active, TypeOK
<1>2. IInv /\ Typed /\ [Next]_vars => (IInv /\ Typed)'
  BY StepKeeps, StaysTyped
<1> QED
  BY <1>1, <1>2, InitTyped, PTL DEF Spec


-----------------------------------------------------------------------------
(* The backups.                                                             *)

\* What `restore latest` finds, if b is what the targets were.
Held(all, b) ==
  all # <<>> /\ \A f \in Existing(b) : f \in DOMAIN Latest(all).files /\ Latest(all).files[f] = b[f]

\* Each command that has a snapshot taken, or skipped, leaves it the newest;
\* each that prunes leaves the newest.
LEMMA NewestStep ==
  ASSUME IInv, Typed, NewestHoldsPrior, [Next]_vars
  PROVE  NewestHoldsPrior'
<1>1. backups \in Seq(Archive) /\ (before # None => Held(backups, before))
  BY DEF Typed, NewestHoldsPrior, Held
<1>2. SUFFICES before' # None => Held(backups', before')
  BY DEF NewestHoldsPrior, Held
<1>3. ASSUME NEW all \in Seq(Archive), all # <<>>, NEW S \in SUBSET Prunable(all),
             NEW left, left = WithoutBackups(all, S)
      PROVE  left # <<>> /\ Latest(left) = Latest(all)
  <2>1. Len(all) \notin S
    BY <1>3, NewestStays
  <2> QED
    BY <1>3, <2>1, LatestStays
<1>4. ASSUME NEW all, NEW old \in Seq(Archive), NEW files, NEW b \in Archive, b.files = files,
             all = Append(old, b), NEW S \in SUBSET Prunable(all),
             NEW left, left = WithoutBackups(all, S)
      PROVE  Held(left, files)
  <2>1. all \in Seq(Archive) /\ all # <<>> /\ all[Len(all)] = b
    <3>1. all \in Seq(Archive) /\ Len(all) = Len(old) + 1 /\ Len(old) \in Nat
          /\ all[Len(old) + 1] = b
      BY <1>4
    <3> QED
      BY <3>1
  <2>2. left # <<>> /\ Latest(left) = b
    BY <1>3, <1>4, <2>1 DEF Latest
  <2>3. Existing(files) \subseteq DOMAIN files
    BY DEF Existing
  <2> QED
    BY <1>4, <2>2, <2>3 DEF Held
<1>5. CASE SkipBackup
  <2>1. PICK m, n : m = Latest(backups).files /\ n = Targets
    OBVIOUS
  <2>2. Checksum(m) = Checksum(n) /\ backups # <<>>
    BY <1>5, <2>1 DEF SkipBackup, IsDuplicate
  <2>3. [f \in Existing(m) |-> m[f]] = [f \in Existing(n) |-> n[f]]
    BY <2>2 DEF Checksum
  <2>4. Existing(m) = Existing(n) /\ \A f \in Existing(n) : m[f] = n[f]
    BY <2>3
  <2>5. Existing(m) \subseteq DOMAIN m
    BY DEF Existing
  <2>6. before' = n /\ backups' = backups
    BY <1>5, <2>1 DEF SkipBackup
  <2> QED
    BY <2>1, <2>2, <2>4, <2>5, <2>6 DEF Held
<1>6. CASE TakeBackup
  <2>1. Backup(Targets) \in Archive /\ Backup(Targets).files = Targets
    <3>1. used.runs \in 1 .. MaxRuns
      BY <1>6, Bounds DEF TakeBackup, Typed
    <3> QED
      BY <3>1, SnapshotTyped DEF Backup, Archive
  <2>2. PICK all, S : /\ all = Append(backups, Backup(Targets)) /\ S \in SUBSET Prunable(all)
                      /\ backups' = WithoutBackups(all, S)
    BY <1>6 DEF TakeBackup
  <2>3. PICK b : b = Backup(Targets)
    OBVIOUS
  <2>4. Held(backups', Targets)
    BY <1>1, <1>4, <2>1, <2>2, <2>3
  <2> QED
    BY <1>6, <2>4 DEF TakeBackup
<1>7. CASE Upgrade
  <2>1. PICK taken, next, all :
          /\ taken \in BOOLEAN /\ next = used.runs + 1
          /\ all = IF taken THEN Append(backups, [Backup(disk) EXCEPT !.id = next]) ELSE backups
          /\ backups' = WithoutBackups(all, Prunable(all))
          /\ before' = IF taken THEN disk ELSE before
    BY <1>7 DEF Upgrade
  <2>2. PICK b : b = [Backup(disk) EXCEPT !.id = next]
    OBVIOUS
  <2>3. CASE taken
    <3>1. b \in Archive /\ b.files = disk
      <4>1. next \in 1 .. MaxRuns
        BY <1>7, <2>1, Bounds DEF Upgrade
      <4> QED
        BY <2>2, <4>1, SnapshotTyped DEF Backup, Archive
    <3>2. all = Append(backups, b)
      BY <2>1, <2>2, <2>3
    <3>3. Held(backups', disk)
      BY <1>1, <1>4, <2>1, <3>1, <3>2
    <3> QED
      BY <2>1, <2>3, <3>3
  <2>4. CASE ~taken
    <3>1. all = backups /\ before' = before
      BY <2>1, <2>4
    <3>2. CASE before # None
      <4>1. backups # <<>>
        BY <1>1, <3>2 DEF Held
      <4>2. backups' # <<>> /\ Latest(backups') = Latest(backups)
        BY <1>1, <1>3, <2>1, <3>1, <4>1
      <4> QED
        BY <1>1, <3>1, <3>2, <4>2 DEF Held
    <3> QED
      BY <3>1, <3>2
  <2> QED
    BY <2>3, <2>4
<1>8. ASSUME NEW i \in DOMAIN backups, TogglePin(i)
      PROVE  before' # None => Held(backups', before')
  <2>1. PICK n \in Nat : n = Len(backups)
    BY <1>1
  <2>2. i \in 1 .. n /\ DOMAIN backups = 1 .. n
    BY <1>1, <1>8, <2>1
  <2>3. PICK b : b = [backups[i] EXCEPT !.pinned = ~backups[i].pinned]
    OBVIOUS
  <2>4. backups[i] \in Archive
    BY <1>1, <1>8
  <2>5. b \in Archive /\ b.files = backups[i].files
    BY <2>3, <2>4 DEF Archive
  <2>6. backups' = [backups EXCEPT ![i] = b]
    BY <1>8, <2>3 DEF TogglePin
  <2>7. backups' \in Seq(Archive) /\ Len(backups') = n
    BY <1>1, <2>1, <2>5, <2>6
  <2>8. n \in 1 .. n /\ backups' # <<>>
    BY <2>2, <2>7
  <2>9. backups'[n].files = backups[n].files
    BY <2>2, <2>5, <2>6, <2>8
  <2>10. Latest(backups').files = Latest(backups).files
    BY <2>1, <2>7, <2>9 DEF Latest
  <2> QED
    BY <1>1, <1>8, <2>8, <2>10 DEF TogglePin, Held
<1>9. ASSUME NEW i \in DOMAIN backups, DeleteBackup(i)
      PROVE  before' # None => Held(backups', before')
  <2>1. CASE i = Len(backups)
    BY <1>9, <2>1 DEF DeleteBackup
  <2>2. CASE i # Len(backups)
    <3>1. before' = before /\ backups' = WithoutBackups(backups, {i})
      BY <1>9, <2>2 DEF DeleteBackup
    <3>2. backups # <<>> /\ Len(backups) \notin {i}
      BY <1>1, <1>9, <2>2
    <3>3. backups' # <<>> /\ Latest(backups') = Latest(backups)
      BY <1>1, <3>1, <3>2, LatestStays
    <3> QED
      BY <1>1, <3>1, <3>3 DEF Held
  <2> QED
    BY <2>1, <2>2
<1>10. CASE backups' = backups /\ before' = before
  BY <1>1, <1>10
<1> QED
  BY <1>5, <1>6, <1>7, <1>8, <1>9, <1>10 DEF Next, vars, Start, BackupFails, StepSucceeds,
     StepFails, EndApply, UndoPi, UndoGuidance, UndoFails, BeginRestore, RestoreEntry,
     EndRestore, EndRollback, Verify, Persist, PersistFails, Kill, RestoreBackup, UserEdit

\* What the last command found is in the newest backup.
THEOREM NewestHolds == Spec => []NewestHoldsPrior
<1>1. Init => NewestHoldsPrior
  BY DEF Init, NewestHoldsPrior
<1>2. IInv /\ Typed /\ NewestHoldsPrior /\ [Next]_vars => (IInv /\ Typed /\ NewestHoldsPrior)'
  BY StepKeeps, StaysTyped, NewestStep
<1> QED
  BY <1>1, <1>2, InitTyped, PTL DEF Spec

\* What a step may delete: nothing that is pinned, and only what has enough
\* younger ones.
Spared ==
  used'.edits = used.edits =>
    LET lost == ToSet(backups) \ ToSet(backups')
    IN  /\ \A backup \in lost : ~backup.pinned
        /\ lost # {} => Cardinality(Unpinned(backups')) >= Retention

\* Every step keeps to it.
LEMMA StepSpares ==
  ASSUME IInv, Typed, [Next]_vars
  PROVE  Spared
<1>1. backups \in Seq(Archive)
  BY DEF Typed
<1>2. ASSUME NEW all \in Seq(Archive), ToSet(backups) \subseteq ToSet(all),
             NEW S \in SUBSET Prunable(all), backups' = WithoutBackups(all, S)
      PROVE  Spared
  <2>1. PICK left : left = backups'
    OBVIOUS
  <2>2. ASSUME NEW b \in ToSet(backups) \ ToSet(backups')
        PROVE  ~b.pinned /\ Cardinality(Unpinned(backups')) >= Retention
    <3>1. b \in ToSet(all) /\ b \notin ToSet(left) /\ left = WithoutBackups(all, S)
      BY <1>2, <2>1, <2>2
    <3> QED
      BY <2>1, <3>1, PruneLoses
  <2> QED
    BY <2>2 DEF Spared
<1>3. ASSUME NEW b
      PROVE  ToSet(backups) \subseteq ToSet(Append(backups, b))
  <2>1. PICK n \in Nat : n = Len(backups)
    BY <1>1
  <2>2. PICK all : all = Append(backups, b)
    OBVIOUS
  <2>3. DOMAIN backups = 1 .. n /\ DOMAIN all = 1 .. n + 1 /\ \A i \in 1 .. n : all[i] = backups[i]
    BY <1>1, <2>1, <2>2
  <2>4. 1 .. n \subseteq 1 .. n + 1
    OBVIOUS
  <2> QED
    BY <2>2, <2>3, <2>4 DEF ToSet
<1>4. CASE TakeBackup
  <2>1. Backup(Targets) \in Archive
    <3>1. used.runs \in 1 .. MaxRuns
      BY <1>4, Bounds DEF TakeBackup, Typed
    <3> QED
      BY <3>1, SnapshotTyped DEF Backup, Archive
  <2>2. PICK all, S : /\ all = Append(backups, Backup(Targets)) /\ S \in SUBSET Prunable(all)
                      /\ backups' = WithoutBackups(all, S)
    BY <1>4 DEF TakeBackup
  <2>3. all \in Seq(Archive) /\ ToSet(backups) \subseteq ToSet(all)
    BY <1>1, <1>3, <2>1, <2>2
  <2> QED
    BY <1>2, <2>2, <2>3
<1>5. CASE Upgrade
  <2>1. PICK taken, next, all :
          /\ taken \in BOOLEAN /\ next = used.runs + 1
          /\ all = IF taken THEN Append(backups, [Backup(disk) EXCEPT !.id = next]) ELSE backups
          /\ backups' = WithoutBackups(all, Prunable(all))
    BY <1>5 DEF Upgrade
  <2>2. [Backup(disk) EXCEPT !.id = next] \in Archive
    <3>1. next \in 1 .. MaxRuns
      BY <1>5, <2>1, Bounds DEF Upgrade
    <3> QED
      BY <3>1, SnapshotTyped DEF Backup, Archive
  <2>3. all \in Seq(Archive) /\ ToSet(backups) \subseteq ToSet(all)
    BY <1>1, <1>3, <2>1, <2>2
  <2> QED
    BY <1>2, <2>1, <2>3
<1>6. CASE used'.edits # used.edits
  BY <1>6 DEF Spared
<1>7. ASSUME NEW i \in DOMAIN backups, TogglePin(i) \/ DeleteBackup(i)
      PROVE  used'.edits # used.edits
  BY <1>7, Bounds DEF TogglePin, DeleteBackup
<1>8. CASE backups' = backups
  BY <1>8 DEF Spared
<1> QED
  BY <1>4, <1>5, <1>6, <1>7, <1>8 DEF Next, vars, Start, SkipBackup, BackupFails, StepSucceeds,
     StepFails, EndApply, UndoPi, UndoGuidance, UndoFails, BeginRestore, RestoreEntry,
     EndRestore, EndRollback, Verify, Persist, PersistFails, Kill, RestoreBackup, UserEdit

\* No command deletes a pinned backup, or one that is needed to keep enough.
THEOREM PruneSparesThem == Spec => PruneSpares
<1>1. IInv /\ Typed /\ [Next]_vars => (IInv /\ Typed)'
  BY StepKeeps, StaysTyped
<1>2. IInv /\ Typed /\ [Next]_vars => [Spared]_vars
  BY StepSpares
<1> QED
  BY <1>1, <1>2, InitTyped, PTL DEF Spec, PruneSpares, Spared


-----------------------------------------------------------------------------
(* The plan, and what a recorded install leaves.                            *)

InstallKind == {"install", "add", "tui"}

\* What a component needs is planned before it, and so is the persona before
\* those it has a pair with.
PlanOrdered(plan) ==
  /\ \A c \in ToSet(plan) \cap Component : \A d \in Dependencies[c] :
       d \in ToSet(plan) /\ Before(plan, d, c)
  /\ \A pair \in ToSet(SoftPairs) : Before(plan, pair[1], pair[2])

\* One element more at the end of a sequence of length m.
Longer(T, q, x, m, t) ==
  t \in Seq(T) /\ Len(t) = m + 1 /\ t[m + 1] = x /\ \A i \in 1 .. m : t[i] = q[i]

\* That is what a concatenation gives.
LEMMA Followed ==
  ASSUME NEW T, NEW q \in Seq(T), NEW x \in T, NEW m \in Nat, m = Len(q),
         NEW t, t = q \o <<x>>
  PROVE  Longer(T, q, x, m, t)
<1>1. PICK one : one = <<x>>
  OBVIOUS
<1>2. one \in Seq(T) /\ Len(one) = 1 /\ one[1] = x
  BY <1>1
<1>3. /\ t = q \o one /\ t \in Seq(T) /\ Len(t) = m + 1
      /\ \A i \in 1 .. m + 1 : t[i] = IF i <= m THEN q[i] ELSE one[i - m]
  BY <1>1, <1>2, ConcatProperties
<1>4. m + 1 \in 1 .. m + 1 /\ (m + 1) - m = 1 /\ ~(m + 1 <= m)
  OBVIOUS
<1> QED
  BY <1>2, <1>3, <1>4 DEF Longer

\* The tool and Pi around the components change nothing of their order.
LEMMA WrapFacts ==
  ASSUME NEW p \in Seq(Component), NEW tool \in BOOLEAN, NEW plan,
         plan = (IF tool THEN <<"codegraph">> ELSE <<>>) \o p \o <<"pi">>
  PROVE  /\ ToSet(plan) \cap Component = ToSet(p)
         /\ \A x, y \in Component : Before(p, x, y) => Before(plan, x, y)
<1>1. PICK n \in Nat : n = Len(p)
  OBVIOUS
<1>2. PICK k \in {0, 1} : k = IF tool THEN 1 ELSE 0
  OBVIOUS
<1>3. "codegraph" \notin Component /\ "pi" \notin Component
  BY StepAssumption
<1> DEFINE T == Component \cup {"codegraph", "pi"}
<1>4. p \in Seq(T) /\ "pi" \in T /\ "codegraph" \in T
  OBVIOUS
<1> HIDE DEF T
<1>5. /\ Len(plan) = n + k + 1
      /\ \A i \in 1 .. n : plan[i + k] = p[i]
      /\ plan[n + k + 1] = "pi" /\ (k = 1 => plan[1] = "codegraph")
      /\ plan \in Seq(T)
  <2>1. CASE tool
    <3>1. PICK q : q = <<"codegraph">> \o p
      OBVIOUS
    <3>2. PICK m \in Nat : m = n + 1
      OBVIOUS
    <3>3. /\ q \in Seq(T) /\ Len(q) = m /\ q[1] = "codegraph"
          /\ \A i \in 1 .. n : q[i + 1] = p[i]
      BY <1>1, <1>4, <3>1, <3>2
    <3>4. plan = q \o <<"pi">>
      BY <2>1, <3>1
    <3>5. /\ plan \in Seq(T) /\ Len(plan) = m + 1 /\ plan[m + 1] = "pi"
          /\ \A i \in 1 .. m : plan[i] = q[i]
      <4>1. Longer(T, q, "pi", m, plan)
        BY <1>4, <3>2, <3>3, <3>4, Followed
      <4> QED
        BY <4>1 DEF Longer
    <3>6. ASSUME NEW i \in 1 .. n
          PROVE  plan[i + 1] = p[i]
      <4>1. i + 1 \in 1 .. m
        BY <3>2
      <4> QED
        BY <3>3, <3>5, <4>1
    <3>7. k = 1 /\ 1 \in 1 .. m /\ m + 1 = n + k + 1
      BY <1>2, <2>1, <3>2
    <3> QED
      BY <3>3, <3>5, <3>6, <3>7
  <2>2. CASE ~tool
    <3>1. PICK none : none = IF tool THEN <<"codegraph">> ELSE <<>>
      OBVIOUS
    <3>2. none = <<>> /\ plan = none \o p \o <<"pi">>
      BY <2>2, <3>1
    <3>3. none \o p = p
      BY <1>4, <3>2
    <3>4. plan = p \o <<"pi">>
      BY <3>2, <3>3
    <3>5. /\ plan \in Seq(T) /\ Len(plan) = n + 1 /\ plan[n + 1] = "pi"
          /\ \A i \in 1 .. n : plan[i] = p[i]
      <4>1. Longer(T, p, "pi", n, plan)
        BY <1>1, <1>4, <3>4, Followed
      <4> QED
        BY <4>1 DEF Longer
    <3>6. k = 0 /\ n + k + 1 = n + 1
      BY <1>2, <2>2
    <3>7. ASSUME NEW i \in 1 .. n
          PROVE  plan[i + k] = p[i]
      <4>1. i + k = i
        BY <3>6
      <4> QED
        BY <3>5, <4>1
    <3>8. PICK m : m = n + k + 1
      OBVIOUS
    <3>9. m = n + 1 /\ k # 1
      BY <3>6, <3>8
    <3>10. Len(plan) = m /\ plan[m] = "pi"
      BY <3>5, <3>9
    <3> QED
      BY <3>5, <3>7, <3>8, <3>9, <3>10
  <2> QED
    BY <2>1, <2>2
<1>6. plan \in Seq(T)
  BY <1>5
<1>7. ASSUME NEW j \in 1 .. n + k + 1, plan[j] \in Component
      PROVE  \E i \in 1 .. n : j = i + k
  <2>1. j # n + k + 1 /\ ~(k = 1 /\ j = 1)
    BY <1>3, <1>5, <1>7
  <2>2. j - k \in 1 .. n /\ j = (j - k) + k
    BY <2>1
  <2> QED
    BY <2>2
<1>8. ASSUME NEW x
      PROVE  x \in ToSet(plan) \cap Component <=> x \in ToSet(p)
  <2>1. /\ x \in ToSet(plan) <=> \E j \in 1 .. n + k + 1 : plan[j] = x
        /\ x \in ToSet(p) <=> \E i \in 1 .. n : p[i] = x
    <3>1. DOMAIN plan = 1 .. n + k + 1 /\ DOMAIN p = 1 .. n
      BY <1>1, <1>5, <1>6
    <3> QED
      BY <3>1 DEF ToSet
  <2>2. ASSUME NEW j \in 1 .. n + k + 1, plan[j] = x, x \in Component
        PROVE  \E i \in 1 .. n : p[i] = x
    BY <1>5, <1>7, <2>2
  <2>3. ASSUME NEW i \in 1 .. n, p[i] = x
        PROVE  x \in Component /\ \E j \in 1 .. n + k + 1 : plan[j] = x
    <3>1. plan[i + k] = x
      BY <1>5, <2>3
    <3>2. i + k \in 1 .. n + k + 1
      OBVIOUS
    <3> QED
      BY <1>1, <2>3, <3>1, <3>2
  <2> QED
    BY <2>1, <2>2, <2>3
<1>9. ASSUME NEW x \in Component, NEW y \in Component, Before(p, x, y)
      PROVE  Before(plan, x, y)
  <2>1. SUFFICES ASSUME NEW u \in 1 .. n + k + 1, NEW v \in 1 .. n + k + 1, plan[u] = x, plan[v] = y
                 PROVE  u < v
    BY <1>5 DEF Before
  <2>2. PICK i \in 1 .. n, j \in 1 .. n : u = i + k /\ v = j + k
    BY <1>7, <2>1
  <2>3. p[i] = x /\ p[j] = y
    BY <1>5, <2>1, <2>2
  <2>4. i < j
    BY <1>1, <1>9, <2>3 DEF Before
  <2> QED
    BY <2>2, <2>4
<1> QED
  BY <1>8, <1>9

\* An install plans in order.
LEMMA InstallOrdered ==
  ASSUME NEW cmd \in Command
  PROVE  PlanOrdered(InstallRun(cmd).plan)
<1>1. PICK p : p = Planned(ToSet(cmd.components))
  OBVIOUS
<1>2. PICK E : E = Expanded(ToSet(cmd.components))
  OBVIOUS
<1>3. /\ p \in Seq(Component) /\ Arranged(E, p, Len(SoftPairs))
      /\ E \in SUBSET Component /\ \A c \in E : Dependencies[c] \subseteq E
  BY <1>1, <1>2, InstallPlanned, ExpandedFacts
<1>4. PICK plan : plan = InstallRun(cmd).plan
  OBVIOUS
<1>5. PICK tool \in BOOLEAN : tool = cmd.codegraph
  BY CommandAssumption
<1>6. plan = (IF tool THEN <<"codegraph">> ELSE <<>>) \o p \o <<"pi">>
  BY <1>1, <1>4, <1>5 DEF InstallRun, Idle
<1>7. /\ ToSet(plan) \cap Component = ToSet(p)
      /\ \A x, y \in Component : Before(p, x, y) => Before(plan, x, y)
  BY <1>3, <1>6, WrapFacts
<1>8. ToSet(p) = E /\ \A c \in E : \A d \in Dependencies[c] \cap E : Before(p, d, c)
  BY <1>3 DEF Arranged
<1>9. ASSUME NEW c \in ToSet(plan) \cap Component, NEW d \in Dependencies[c]
      PROVE  d \in ToSet(plan) /\ Before(plan, d, c)
  <2>1. c \in E /\ d \in E
    BY <1>3, <1>7, <1>8, <1>9
  <2> QED
    BY <1>3, <1>7, <1>8, <1>9, <2>1
<1>10. ASSUME NEW pair \in ToSet(SoftPairs)
       PROVE  Before(plan, pair[1], pair[2])
  <2>1. PICK k \in 1 .. Len(SoftPairs) : SoftPairs[k] = pair
    BY <1>10, PairsAssumption DEF ToSet
  <2>2. Before(p, pair[1], pair[2])
    BY <1>3, <2>1 DEF Arranged
  <2>3. pair[1] \in Component /\ pair[2] \in Component
    <3>1. SoftPairs[k] \in Component \X Component
      BY PairsAssumption
    <3> QED
      BY <2>1, <3>1
  <2> QED
    BY <1>7, <2>2, <2>3
<1> QED
  BY <1>4, <1>9, <1>10 DEF PlanOrdered


\* Every section that a placed component has written is there, if no step has
\* failed; at the end all are placed.
Laid ==
  run.kind \in InstallKind =>
    /\ PlanOrdered(run.plan)
    /\ run.pc = "prepare" => run.next = 1
    /\ run.pc \in {"apply", "verify", "persist"} /\ ~run.failed =>
         \A i \in 1 .. run.next - 1 : run.plan[i] \in Component \ {"persona"} =>
           \A f \in Files[run.plan[i]] \ edited : Owns(run.plan[i], f)
    /\ run.pc \in {"verify", "persist"} => ~run.failed /\ run.next = Len(run.plan) + 1

\* Nothing that a later step writes takes a section away: only the persona
\* could, and it is placed before whatever shares a file with it.
LEMMA StepKeepsSections ==
  ASSUME IInv, Typed, Laid, run.kind \in InstallKind, StepSucceeds,
         NEW i \in 1 .. run.next - 1, NEW c \in Component \ {"persona"}, run.plan[i] = c,
         NEW f \in Files[c], Owns(c, f)
  PROVE  Owns(c, f)'
<1>1. PICK n \in Nat : n = Len(run.plan)
  BY DEF Typed, RunTyped
<1>2. PICK j : j = run.next
  OBVIOUS
<1>3. j \in 1 .. n /\ i \in 1 .. n /\ i < j
  BY <1>1, <1>2 DEF Typed, RunTyped, StepSucceeds, Applying
<1>4. PICK step : step = Current
  OBVIOUS
<1>5. step = run.plan[j] /\ step \in Step
  BY <1>1, <1>2, <1>3, <1>4 DEF Current, Typed, RunTyped
<1>6. f \in File /\ f # Overlay
  BY CommandAssumption
<1>7. disk' = DiskAfter(run, step, StepFiles(run, step))
  BY <1>4 DEF StepSucceeds
<1>8. disk[f] # Absent /\ c \in disk[f].parts /\ disk[f] \in Content
  BY <1>6 DEF Owns, Typed
<1>9. ASSUME NEW part \in Part
      PROVE  Section(part, f) # Absent /\ c \in Section(part, f).parts
  <2>1. Section(part, f) = [disk[f] EXCEPT !.parts = disk[f].parts \cup {part}]
    BY <1>8 DEF Section
  <2> QED
    BY <1>8, <2>1, AbsentAssumption DEF Content, Text
<1>10. CASE f \notin StepFiles(run, step)
  <2>1. disk'[f] = disk[f]
    BY <1>6, <1>7, <1>10 DEF DiskAfter
  <2> QED
    BY <1>8, <2>1 DEF Owns
<1>11. CASE f \in StepFiles(run, step)
  <2>1. disk'[f] = Written(run, step, f)
    BY <1>6, <1>7, <1>11 DEF DiskAfter
  <2>2. step # "persona"
    <3>1. SUFFICES ASSUME step = "persona" PROVE FALSE
      OBVIOUS
    <3>2. "persona" \in Component
      BY <1>5, <3>1 DEF Step
    <3>3. f \in Files["persona"]
      BY <1>11, <3>1, <3>2 DEF StepFiles, ComponentFiles
    <3>4. <<"persona", c>> \in ToSet(SoftPairs)
      BY <3>2, <3>3, SharingAssumption
    <3>5. Before(run.plan, "persona", c)
      BY <3>4 DEF Laid, PlanOrdered
    <3>6. run.plan[j] = "persona" /\ run.plan[i] = c /\ j \in 1 .. Len(run.plan) /\ i \in 1 .. Len(run.plan)
      BY <1>1, <1>3, <1>5, <3>1
    <3>7. j < i
      BY <3>5, <3>6 DEF Before
    <3> QED
      BY <1>3, <3>7
  <2>3. PICK part \in Part : Written(run, step, f) = Section(part, f)
    <3>1. CASE step \in Component
      BY <2>2, <3>1 DEF Written, Part
    <3>2. CASE step \notin Component
      BY <1>6, <2>2, <3>2 DEF Written, Part
    <3> QED
      BY <3>1, <3>2
  <2> QED
    BY <1>9, <2>1, <2>3 DEF Owns
<1> QED
  BY <1>10, <1>11

\* An install that has not failed keeps the sections of what it has placed.
LEMMA LaidStep ==
  ASSUME IInv, Typed, Laid, [Next]_vars
  PROVE  Laid'
<1>1. Shaped(run) /\ RunTyped(run) /\ disk \in [File -> Content]
  BY DEF IInv, Typed
<1>2. ASSUME NEW cmd \in Command, Start(cmd)
      PROVE  Laid'
  <2>1. CASE cmd.kind = "sync"
    <3>1. run'.kind = "sync"
      BY <1>2, <2>1 DEF Start, SyncRun, Idle
    <3> QED
      BY <3>1 DEF Laid, InstallKind
  <2>2. CASE cmd.kind # "sync"
    <3>1. run' = InstallRun(cmd)
      BY <1>2, <2>2 DEF Start
    <3>2. run'.pc = "prepare" /\ run'.next = 1
      BY <3>1 DEF InstallRun, Idle
    <3>3. PlanOrdered(run'.plan)
      BY <3>1, InstallOrdered
    <3> QED
      BY <3>2, <3>3 DEF Laid
  <2> QED
    BY <2>1, <2>2
<1>3. CASE SkipBackup \/ TakeBackup
  <2>1. /\ run.pc = "prepare" /\ run'.pc = "apply" /\ run'.kind = run.kind
        /\ run'.plan = run.plan /\ run'.next = run.next
    BY <1>1, <1>3 DEF SkipBackup, TakeBackup, Shaped
  <2>2. run'.kind \in InstallKind => ~ \E i \in 1 .. run'.next - 1 : TRUE
    BY <2>1 DEF Laid
  <2> QED
    BY <2>1, <2>2 DEF Laid
<1>4. CASE StepSucceeds
  <2> SUFFICES ASSUME run.kind \in InstallKind, run'.kind \in InstallKind PROVE Laid'
    BY <1>1, <1>4 DEF StepSucceeds, Shaped, Laid
  <2>1. /\ run'.pc = "apply" /\ run.pc = "apply" /\ run'.plan = run.plan
        /\ run'.next = run.next + 1 /\ run'.failed = run.failed /\ edited' = edited
    BY <1>1, <1>4 DEF StepSucceeds, Applying, Shaped
  <2>2. PICK j : j = run.next
    OBVIOUS
  <2>3. j \in 1 .. Len(run.plan) /\ j \in Nat
    BY <1>1, <1>4, <2>2 DEF RunTyped, StepSucceeds, Applying
  <2>4. ASSUME ~run.failed, NEW i \in 1 .. j, NEW c \in Component \ {"persona"}, run.plan[i] = c,
               NEW f \in Files[c] \ edited
        PROVE  disk'[f] # Absent /\ c \in disk'[f].parts
    <3>1. CASE i = j
      <4>1. Current = c
        BY <2>2, <2>4, <3>1 DEF Current
      <4>2. f \in StepFiles(run, c) /\ f \in File
        <5>1. StepFiles(run, c) = ComponentFiles(c, run.persona)
          BY StepAssumption DEF StepFiles
        <5>2. ComponentFiles(c, run.persona) = Files[c] /\ Files[c] \subseteq File
          BY CommandAssumption DEF ComponentFiles
        <5> QED
          BY <2>4, <5>1, <5>2
      <4>3. disk'[f] = Written(run, c, f)
        BY <1>4, <4>1, <4>2 DEF StepSucceeds, DiskAfter
      <4>4. disk'[f] = Section(c, f)
        BY <2>4, <4>3 DEF Written
      <4>5. Section(c, f) # Absent /\ c \in Section(c, f).parts
        <5>1. disk[f] \in Content
          BY <1>1, <4>2
        <5>2. CASE disk[f] = Absent
          <6>1. Section(c, f) = [text |-> "none", parts |-> {c}]
            BY <5>2 DEF Section
          <6>2. c \in Part
            BY DEF Part
          <6> QED
            BY <6>1, <6>2, AbsentAssumption DEF Text
        <5>3. CASE disk[f] # Absent
          <6>1. Section(c, f) = [disk[f] EXCEPT !.parts = disk[f].parts \cup {c}] /\ disk[f] \in Text
            BY <5>1, <5>3 DEF Section, Content
          <6>2. c \in Part
            BY DEF Part
          <6> QED
            BY <6>1, <6>2, AbsentAssumption DEF Text
        <5> QED
          BY <5>2, <5>3
      <4> QED
        BY <4>4, <4>5
    <3>2. CASE i # j
      <4>1. i \in 1 .. run.next - 1
        BY <2>2, <2>3, <2>4, <3>2
      <4>2. Owns(c, f)
        BY <2>1, <2>4, <4>1 DEF Laid
      <4>3. Owns(c, f)'
        BY <1>4, <2>4, <4>1, <4>2, StepKeepsSections
      <4> QED
        BY <4>3 DEF Owns
    <3> QED
      BY <3>1, <3>2
  <2>5. run'.next - 1 = j
    BY <2>1, <2>2, <2>3
  <2>6. PlanOrdered(run'.plan)
    BY <2>1 DEF Laid
  <2>7. ASSUME ~run.failed, NEW i \in 1 .. run'.next - 1, run.plan[i] \in Component \ {"persona"},
               NEW f \in Files[run.plan[i]] \ edited
        PROVE  disk'[f] # Absent /\ run.plan[i] \in disk'[f].parts
    <3>1. PICK c : c = run.plan[i]
      OBVIOUS
    <3>2. i \in 1 .. j
      BY <2>5
    <3> QED
      BY <2>4, <2>7, <3>1, <3>2
  <2> QED
    BY <2>1, <2>6, <2>7 DEF Laid, Owns
<1>5. CASE StepFails
  <2>1. run'.pc = "apply" /\ run'.failed /\ run'.plan = run.plan /\ run'.kind = run.kind
    BY <1>1, <1>5 DEF StepFails, Applying, AfterFailure, Shaped
  <2> QED
    BY <2>1 DEF Laid
<1>6. CASE EndApply
  <2>1. /\ run.pc = "apply" /\ run'.plan = run.plan /\ run'.kind = run.kind
        /\ run'.next = run.next /\ run'.failed = run.failed /\ disk' = disk /\ edited' = edited
        /\ run'.pc \in {"rollback", "persist", "verify"}
        /\ run'.pc # "rollback" => ~run.failed
    BY <1>1, <1>6 DEF EndApply, Shaped
  <2>2. run.next = Len(run.plan) + 1
    <3>1. PICK n \in Nat : n = Len(run.plan)
      BY <1>1 DEF RunTyped
    <3> QED
      BY <1>1, <1>6, <3>1 DEF EndApply, RunTyped
  <2> QED
    BY <2>1, <2>2 DEF Laid, Owns
<1>7. ASSUME run'.kind = run.kind, run'.plan = run.plan,
             run'.pc \notin {"prepare", "apply", "verify", "persist"}
      PROVE  Laid'
  BY <1>7 DEF Laid
<1>8. CASE BackupFails \/ UndoPi \/ UndoGuidance \/ UndoFails \/ BeginRestore \/ EndRestore
           \/ EndRollback \/ Persist \/ PersistFails \/ Kill
  <2>1. /\ run'.kind = run.kind /\ run'.plan = run.plan
        /\ run'.pc \notin {"prepare", "apply", "verify", "persist"}
    BY <1>1, <1>8 DEF BackupFails, UndoPi, UndoGuidance, UndoFails, Undoing, BeginRestore,
       EndRestore, EndRollback, Persist, PersistFails, Kill, Shaped
  <2> QED
    BY <1>7, <2>1
<1>9. ASSUME NEW f \in File, RestoreEntry(f)
      PROVE  Laid'
  <2>1. /\ run'.kind = run.kind /\ run'.plan = run.plan /\ run'.pc = "restore"
    BY <1>1, <1>9 DEF RestoreEntry, Shaped
  <2> QED
    BY <1>7, <2>1
<1>10. CASE Verify
  <2>1. /\ run.pc = "verify" /\ run'.plan = run.plan /\ run'.kind = run.kind
        /\ run'.next = run.next /\ run'.failed = run.failed /\ disk' = disk /\ edited' = edited
        /\ run'.pc \in {"done", "persist", "failed"}
    BY <1>1, <1>10 DEF Verify, Shaped
  <2> QED
    BY <2>1 DEF Laid, Owns
<1>11. CASE Upgrade \/ \E i \in DOMAIN backups : RestoreBackup(i)
  <2>1. run'.kind \in {"upgrade", "restore"}
    BY <1>11 DEF Upgrade, RestoreBackup, Idle
  <2> QED
    BY <2>1 DEF Laid, InstallKind
<1>12. CASE UNCHANGED <<run, disk, edited>>
  BY <1>12 DEF Laid, Owns
<1>13. ASSUME NEW f \in File \ {Overlay}, UserEdit(f)
       PROVE  Laid'
  <2>1. run' = run /\ edited' = edited \cup {f} /\ \A g \in File : g # f => disk'[g] = disk[g]
    BY <1>1, <1>13 DEF UserEdit
  <2>2. \A c \in Component : Files[c] \subseteq File
    BY CommandAssumption
  <2> QED
    BY <2>1, <2>2 DEF Laid, Owns
<1> QED
  BY <1>2, <1>3, <1>4, <1>5, <1>6, <1>8, <1>9, <1>10, <1>11, <1>12, <1>13
     DEF Next, vars, TogglePin, DeleteBackup


\* The order is there when the installer starts: nothing is installed yet.
LEMMA InitLaid == Init => Laid
  BY DEF Init, Idle, Laid, InstallKind

\* A plan has what its components need, each before the one that needs it, and the
\* first of a soft pair before the second.
THEOREM PlansAreSound == Spec => []PlanSound
<1>1. Typed /\ Laid => PlanSound
  <2> SUFFICES ASSUME Typed, Laid, Installing
               PROVE  PlanSound
    BY DEF PlanSound
  <2>1. PICK plan : plan = run.plan
    OBVIOUS
  <2>2. plan \in Seq(Step) /\ PlanOrdered(plan)
    BY <2>1 DEF Typed, RunTyped, Laid, Installing, InstallKind
  <2>3. ToSet(plan) \cap Component = PlannedComponents
    BY <2>1 DEF PlannedComponents
  <2>4. ASSUME NEW x \in ToSet(plan)
        PROVE  Position(plan, x) \in 1 .. Len(plan) /\ plan[Position(plan, x)] = x
    <3>1. \E i \in 1 .. Len(plan) : plan[i] = x
      BY <2>2, <2>4 DEF ToSet
    <3> QED
      BY <3>1 DEF Position
  <2>5. ASSUME NEW x \in ToSet(plan), NEW y \in ToSet(plan), Before(plan, x, y)
        PROVE  Position(plan, x) < Position(plan, y)
    BY <2>4, <2>5 DEF Before
  <2>6. ASSUME NEW c \in PlannedComponents, NEW d \in Dependencies[c]
        PROVE  d \in PlannedComponents /\ Position(plan, d) < Position(plan, c)
    <3>1. c \in ToSet(plan) \cap Component
      BY <2>3, <2>6
    <3>2. d \in ToSet(plan) /\ Before(plan, d, c) /\ d \in Component
      BY <2>2, <2>6, <3>1, GraphAssumption DEF PlanOrdered
    <3> QED
      BY <2>3, <2>5, <3>1, <3>2
  <2>7. ASSUME NEW pair \in ToSet(SoftPairs), {pair[1], pair[2]} \subseteq PlannedComponents
        PROVE  Position(plan, pair[1]) < Position(plan, pair[2])
    <3>1. Before(plan, pair[1], pair[2])
      BY <2>2 DEF PlanOrdered
    <3> QED
      BY <2>3, <2>5, <2>7, <3>1
  <2> QED
    BY <2>1, <2>6, <2>7 DEF PlanSound
<1>2. IInv /\ Typed /\ Laid /\ [Next]_vars => (IInv /\ Typed /\ Laid)'
  BY StepKeeps, StaysTyped, LaidStep
<1> QED
  BY <1>1, <1>2, InitTyped, InitLaid, PTL DEF Spec

\* What an install has recorded is on the disk, but for what the user edited
\* meanwhile.
THEOREM RecordedIsThere == Spec => []RecordedInstallIsThere
<1>1. Typed /\ Laid => RecordedInstallIsThere
  <2> SUFFICES ASSUME Typed, Laid, Installing, run.pc = "persist"
               PROVE  ~run.failed /\ SectionsKept
    BY DEF RecordedInstallIsThere
  <2>1. ~run.failed /\ run.next = Len(run.plan) + 1
    BY DEF Laid, Installing, InstallKind
  <2>2. PICK n \in Nat : n = Len(run.plan)
    BY DEF Typed, RunTyped
  <2>3. ASSUME NEW c \in PlannedComponents \ {"persona"},
               NEW f \in ComponentFiles(c, run.persona) \ edited
        PROVE  Owns(c, f)
    <3>1. c \in Component \ {"persona"} /\ f \in Files[c] \ edited
      BY <2>3 DEF PlannedComponents, ComponentFiles
    <3>2. PICK i \in 1 .. n : run.plan[i] = c
      BY <2>2, <2>3 DEF PlannedComponents, ToSet, Typed, RunTyped
    <3>3. i \in 1 .. run.next - 1
      BY <2>1, <2>2
    <3> QED
      BY <2>1, <3>1, <3>2, <3>3 DEF Laid, Installing, InstallKind
  <2> QED
    BY <2>1, <2>3 DEF SectionsKept
<1>2. IInv /\ Typed /\ Laid /\ [Next]_vars => (IInv /\ Typed /\ Laid)'
  BY StepKeeps, StaysTyped, LaidStep
<1> QED
  BY <1>1, <1>2, InitTyped, InitLaid, PTL DEF Spec

=============================================================================
