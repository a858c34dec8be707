# gentle-ai: a TLA+ development of its review authority, runtime ledger and installer

`gentle-ai` installs and configures coding agents, and it keeps, next to the git
repository it runs in, an *authority* over code reviews (which change was
reviewed, what was found, whether it was corrected within its budget, which
receipt a delivery gate may accept) and a *ledger* of the attempts at a planned
change. Authority and ledger are files that many short-lived processes read and
write, with agents that retry whatever fails; the installer changes files that
the user also edits, and promises to put them back when it fails. This directory
models these three, checks them with TLC, and proves what matters most about
them with TLAPS.

## The system

| Part (`internal/`) | State it keeps | Operations | What is hard |
| --- | --- | --- | --- |
| compact review record (`reviewtransaction/compact.go` and the files that add a transition) | one record per lineage | start, complete-review, begin-fix, complete-fix, complete-verification, invalidate, dispose-result, reopen-results, recover, import of evidence, retry | the operations and the validator are two descriptions of the same life and must agree; recovery edges are judged again on every read |
| compact authority store (`compact_store.go`, `compact_abandon.go`, `compact_approved_invalidation.go`, `final_verification_retry.go`) | `v2/<lineage>/`: record, receipt, finalize journal, reviewer results; one version `LOCK` | the same, by concurrent processes; abandon; capture; withdraw an approval; transport | reads without the lock, writes under a compare-and-swap of one entry, a graph that spans entries, an operation of two writes |
| finalize (`cli/review_facade.go`, `finalize_attempt_journal.go`) | the attempt journal of a lineage | load, prepare a plan, reconcile the attempt, plan, commit, publish the receipt, close | crashes between any two, two finalizers, maintainer commands that do not see the journal |
| reviewer results (`cli/review_artifact.go`, `artifact_admission.go`, `compact_result_*.go`) | captured artifacts per lens, preserved and quarantined ones | capture, preserve, dispose, reopen | captures do not change the revision |
| locks, batch reconciliation, reclaim (`store_lock.go`, `compact_batch_reconcile_*.go`, `compact_reconcile.go`, `compact_reclaim.go`) | maintenance lock, version lock, prepared marker, audit journals, quarantine | acquire with a bounded wait, plan, mark, audit, move, commit, replay, clear | crashes between any two, a marker that outlives its holder, readers without a lock |
| gates and target status (`compact_gate.go`, `target_status*.go`, `gate.go`, `prepr.go`) | none | derive a decision | agreement with what the store would do |
| legacy v1 store (`store.go`, `transaction.go`, repairs) | an event chain | read, repair, quarantine | read-only for new work |
| SDD runtime ledger (`sddstatus/runtime_ledger.go`, `review_binding.go`) | immutable records, `HEAD`, `LOCK`, a legacy binding file | begin, finish, reset, bind | two writes and two syncs per commit, exact replay of requests, reviews and a workspace that move meanwhile |
| SDD status (`sddstatus`) | none | derive phase and next action | agreement with the ledger |
| pipeline, planner, backup, install state (`pipeline`, `planner`, `backup`, `cli/run.go`, `cli/sync.go`, `state`) | plan, snapshots and their manifests, the recorded selection | plan, snapshot, apply, roll back, verify, record; restore, pin, delete, prune | steps that fail halfway, rollbacks that fail, a kill, user edits, backups that look alike |
| mutation journal (`components/mutationjournal`) | before-images of one uninstall | record, restore | conflicts with edits |
| component installers, uninstall, agents, catalog, agent builder, skills | configuration files | merge, write, remove | text editing, one process |
| update, upgrade, command line, terminal UI, system checks, release tooling | little | network, rendering, tables | outside the reach of a model |

How they interact: an agent calls `review start`, gets lenses to run, passes
their results to `review finalize` (perhaps several times: results, forecast,
targeted validation, evidence), and a gate compares the receipt with the live
tree before a commit, a push or a release. `finalize` drives the record through
`ReplaceContext` of the store and writes its own journal ahead of it. Maintainer
commands (`invalidate`, `dispose-result`, `reopen-results`, `abandon`, `recover`,
`retry-final-verification`) act on the same record and entries from other
processes; `start`, `recover` and every transition hold the maintenance lock shared,
batch reconciliation holds it exclusively. The runtime ledger binds an attempt to an
approved review by lineage and candidate tree. The installer runs its steps through
the pipeline, in the order of the planner, between a snapshot and a record of what
was selected; a sync starts from that record.

`PROJECT.json` lists every part with its source files, and every hazard with the
line where it bites.

## Modules

| Module | What it models |
| --- | --- |
| `CompactLifecycle` | the record in full, its validator (`Validate`) as a predicate of its own, every operation, the recovery edges, on a chain of lineages; sequential |
| `ReviewAuthority` | the promise: the life of a lineage and of its receipt |
| `CompactAuthority` | the entries of one store, the version lock, and commands of concurrent processes; implements `ReviewAuthority` |
| `FinalizeAttempt` | the steps of one `review finalize`, the attempt journal, crashes, concurrent finalizers and maintainer commands |
| `AuthorityGraph` | the promise: the graph of reviews that readers may see loses entries only by a quarantine, whole and readable |
| `AuthorityMaintenance` | readers, writers, single quarantines and prepared batches under the two locks and the marker, with kills and failed steps; implements `AuthorityGraph` |
| `RuntimeLog` | the promise: requests take effect in one sequence, each at most once, and what was answered stays |
| `RuntimeLedger` | the record chain, `HEAD`, `LOCK` and the mutations of concurrent clients, with the world that moves under them, crashes, failed syncs and power losses; implements `RuntimeLog` |
| `InstallPlan` | pure: closure and order of components, duplicates and pruning of backups |
| `Installer` | installs, syncs, upgrades and restores of one machine, step by step, with failures, kills and user edits |
| `CompactLifecycle_proofs`, `CompactAuthority_proofs`, `FinalizeAttempt_proofs`, `AuthorityMaintenance_proofs`, `RuntimeLedger_proofs`, `RuntimeReplay_proofs` (on top of it), `InstallPlan_proofs`, `Installer_proofs` (on top of it) | theorems |
| `MC...` | values of the constants, symmetry and state constraints for TLC |

Correspondence to the code, common to all: whatever the code does inside one hold of
a lock with one file replacement (an atomic rename), and without reading anything
that others may change meanwhile, is one action. A revision is a checksum of
content, so it is modelled by the content or by a name that is unique to it. A
process that dies loses its command and its locks, and leaves the files.

### Reviews

- *Record.* `CompactLifecycle!CompactState` has one field per field of the Go
  record that a transition reads. A snapshot is `"initial"` or `"fix"`, a hash is
  present or absent, `-1` (`NoLines`) is a nil line count. A follow-up is a finding
  that the review found to be of no consequence for this change, or an `Observation` that a targeted
  validator reports; `Malformed` are the ones without what a follow-up must have. The five causal
  dispositions are the three that the code tells apart. Lens results are there or
  not: no operation stores a part of them.
- *Operations.* Each operation is a pair of a guard (`Can...`, or the state test in
  its action) and a result; `Commit` is `replaceContextGuarded`, which writes
  nothing that does not validate, and `Succeed` publishes a recovery next to an
  intact graph. That a result validates is therefore a question, asked by
  `RefusesOnlyMalformed`, and not an assumption. There is one answer "no": the guard of
  `CompleteCorrection` only asks for a list of follow-ups (`compact.go:1114`), which is appended to the
  review (`:1129`) and checked by the validator (`:595`), so a malformed one discards the correction.
- *Revisions.* `CompactAuthority` and `FinalizeAttempt` use the content itself. Equal
  content means equal revision there as in the code, also for a lineage that is
  abandoned and started again.
- *Atomicity.* Two things are split: what is read before the lock is taken
  (`FinalizeRead`, `MaintainRead`, `Load`, `Prepare`), and an operation of two writes
  (`InvalidateApproved` then `RemoveReceipt`, with the lock held; `FinalizeAttempt`
  merges the two, because no step of it looks between them). In `Prepare` several
  unlocked reads of one command are one step.
- *Reviewer results.* `results` are the slots of a lineage (one per selected lens) that hold a
  captured artifact. A capture moves no revision, so the compare-and-swap does not see it;
  `Disposable` and `Reopenable` are the second looks at the slots under the lock.
- *Finalize.* `stage` is the position in `runReviewFacadeFinalize`, `held` the loaded
  record, `todo` what is left of the plan. `Step` is one transition of
  `prepareFacadeFinalizePlan`; a plan has at most two. `Resume` serves an attempt that was pending when
  the command looked; if it has been closed since, a new one is opened, which the command reconciles
  again for the candidate of its plan (`Renew`), and this may be refused as a mismatch. A payload is the kind of each
  input (its digest decides only whether two requests are equal), and the candidate
  digest tells the fix from the initial snapshot.

### Maintenance

- *Graph.* An entry has a revision (a number that each written record gets anew), a
  predecessor and the revision of it that was named, and a kind of edge: valid,
  anomalous in a way that the batch knows how to take apart, or corrupt. An entry may
  also hold files without a review (`Residue`), the temporary of a START that was killed before its
  rename, which may be a review (`Scraps`), or nothing but an empty directory or other temporaries
  (`Hollow`). Readers skip the last two; a reclaim takes the first and the last.
- *Writers.* `StartCompactAuthority` and `RecoverCompactAuthority` look at the whole graph under the
  lock. `ReplaceContext` looks at its own entry only, as in the code: what its callers saw of successors,
  they saw before it took the lock, so it may advance a review that has been continued in between (the
  behaviour of the run `stale_correction`). The successor then names a revision that is gone, no reader
  and no batch gets through, and the properties have to hold beside that.
- *Locks.* `Enter` takes the maintenance lock shared and then the version lock, and looks
  for the marker after that; `Admit` takes both exclusively and sets the marker or finds
  its own. The polling wait is the guard: a process that never gets through simply does
  not move. `proc[p]` is the stage of one of four commands: writer, single
  quarantine, reader, batch.
- *Batch.* `PrepareCompactBatchReconciliation` derives and authorizes a plan under one hold
  of the locks; `Admit` checks it again under another (`PlanCurrent`) and writes the marker;
  then `PersistAudit` or `BeginReplay`, `MoveEntry` once per entry, `CommitBatch` after all
  moves and retained revisions are verified, `ClearMarker`. `Refuse` is a
  writer whose checks, or a batch whose verification, refuses; `Stop` is a kill or a failed step.
- *Reclaim and reconcile* of one entry: `PrepareQuarantine`, `QuarantineEntry`, `SettleQuarantine`.
- *Readers* (`DiscoverCompactStores`, `Load`) list the directory without a lock and then load one
  entry at a time, each under the shared lock and refused while a batch is prepared (`LoadFails`).

### Runtime ledger

- *Chain.* `head` is the sequence of records that `HEAD` names. `heads` are the values that
  `HEAD` may have after a power loss: from the rename (`ReplaceHead`) to the sync of its
  directory (`SyncHead`, `Resync`) there are two. `records` and `durable` are the files that
  are in `records/` and those that a power loss leaves there.
- *Replay.* `Follows` and `Applied` translate `replayRuntimeRecord`; `Replay` is a recursive
  function. What the four callbacks let through (`CanBegin`, `CanFinish`, `CanReset`,
  `BuildBind`) is a predicate of its own, as in the code, and `HeadReplays` asks whether
  the two agree.
- *Mutation.* `Issue` is a client that has read the status; `Enter` takes `LOCK`, replays the
  chain, looks for the request and runs the callback; `Authorize` is the second look at the review
  and the legacy file that a passing finish and a binding take; then `PublishRecord`, `ReplaceHead`,
  `SyncHead`. `Resync` is the answer to a known request, which makes durable what is there.
  `PublishFails`, `SyncFails`, `Kill`, `PowerLoss` are the faults; a client without an answer may
  repeat its request (`Retry`).
- *World.* Between these steps the workspace changes (`Edit`), reviews are recovered, approved or
  withdrawn, and an older version may write `binding.json`.
- Two requests that the code identifies with each other are so here too: the identifier of
  a binding request is a hash of change, lineage and expected revision
  (`review_binding.go:64`). A binding that *returns* to an earlier pair (bind A, bind B
  in its place, bind A in the place of none or of what it first replaced) is therefore taken for
  a replay: it is answered with success (`runtime_ledger.go:583`) and not made. The model has
  this behaviour; it is recorded as a hazard and not as a finding, because no text of the
  repository says what `expected_binding_revision` promises in that case.

### Installer

- *Files.* A file has a base text (none, the user's, the persona's) and a set of managed
  sections. A component adds its section, the gentleman persona replaces the whole prompt
  file of an agent with `StrategyFileReplace`, and CodeGraph writes guidance into the prompt and
  an overlay of Pi.
- *Three sets of files*, which are not the same in the code. What a component writes is
  `ComponentFiles`. What is listed of it (`componentPaths`), and so snapshot and looked for by the
  verification, is `ComponentPaths`: the prompt that Engram writes is listed only for agents with marked
  sections (`cli/run.go:1447`). What is snapshot besides (`BackupTargets`) is what Pi CodeGraph owns,
  always, and the files of the tool, if it is selected. A sync that finds no recorded choice of tools
  selects CodeGraph if an earlier install has left its guidance or manifest (`CodeGraphLeftovers`).
- *Command.* `Start` resolves a request to a plan (`InstallRun`: the planner; `SyncRun`: the
  recorded selection, else the default one), `TakeBackup` or `SkipBackup` is the prepare stage,
  `StepSucceeds` and `StepFails` the apply stage: a failing component may have made any part of its
  writes; a failing install of CodeGraph puts its managed files back but not the overlay of Pi
  (`LeftWritten`, `communitytool/tool.go:138`); the two other steps of the tool put back theirs. The terminal UI goes on after a failed step (`ContinueOnError`, `cli/run.go:1254`), the
  other commands stop at it. The rollback undoes
  the steps that succeeded in reverse (`UndoPi`, `UndoGuidance`, `RestoreEntry` once per entry of
  the manifest), the restore of the snapshot last. `Verify` looks whether files exist;
  `Persist` merges the selection into the state.
- *Around it*: upgrades take a backup and prune; the user restores, pins, deletes backups and
  edits files between any two steps; a command may be killed at any step.
- Four things of the code that the model shows and no property forbids. A snapshot that would
  duplicate the newest backup is skipped *together with the rollback* of that run
  (`cli/run.go:634`), so a failed install that is retried and fails again stays half applied, and
  what it created is recorded nowhere; `docs/codebase/mental-model.md:46` asks for a preserved
  rollback path, which in the sense of `NewestHoldsPrior` there is. CodeGraph's guidance is
  written before the components on install, so the gentleman persona wipes it there and only the
  next sync adds it again. A selection of Engram alone writes a section into a prompt that is not in
  its snapshot, so a rollback leaves it there. A snapshot of no existing file has an empty checksum and is never taken
  for a duplicate.

## Runs

| Run | Expected | What it shows |
| --- | --- | --- |
| `lifecycle` | pass | the validator accepts what the operations admit, and refuses a correction for a malformed follow-up only; fixes stay in scope; corrections stay in budget; recovery edges stay valid while the successor moves (with the exception the next run shows); history is not rewritten |
| `retried_approval` | violation | an approved retry makes its own edge invalid |
| `authority` | pass | recoveries form a forest; settled history is frozen; a receipt is bound to its record; a captured result is never disposed of; every lineage refines `ReviewAuthority` |
| `stale_correction` | violation | a superseded correction still advances |
| `resurrected_entry` | violation | an abandoned entry comes back with a journal and no record |
| `finalize` | pass | write-ahead; one open request; receipts and their flag; convergence of accepted replays; every settled record gets its receipt |
| `journal_wedge` | violation | a maintainer command under a pending attempt makes its replay a mismatch |
| `premature_close` | violation | an attempt is closed while its transition is uncommitted |
| `maintenance` | pass | a batch happens as a whole whoever dies in it; while it is prepared its exact replay stays possible; an entry leaves only under an audit that names it; no review continues one that is gone, although a continued one may advance; a reader that finishes saw all of a batch or none |
| `runtime_ledger` | pass | what is committed replays; `HEAD` never dangles; attempts and changed lines stay within the budgets of their objective; a completed bound objective was reviewed; the ledger implements `RuntimeLog` |
| `installer` | pass | a rollback that reports no error restored every file of the snapshot; after an install that was recorded every component's section is there; plans are closed and ordered, by needs and by pairs; the newest backup holds what the last command found; pruning spares what is pinned |
| `sync_order` | violation | a sync of a recorded preset runs the persona last and destroys the sections written before |

The six violations are disagreements between the code and what its documents or
comments say; `PROJECT.json` quotes both sides under `findings`.

### Bounds

- `lifecycle`: two severe findings, one inside and one outside the frozen paths
  (severity and location are all that a transition looks at; a third finding adds no
  combination of two outcomes); candidates of 0 and 3 changed lines with a cap of
  1, so that a budget is zero, rounded and capped; line counts up to 2, so that
  forecast and correction fall below, on and above the budget; chains of two
  lineages (an edge relates two); one reopen.
  One observation of a validator, and one malformed one.
- `authority`: two concurrent commands on two lineages, and one command on three
  (`Bounded`): a fork needs a predecessor and two successors, a stale writer needs
  one process that read and another that moves on. Two lenses, so
  that one slot may be captured while the other one is disposed of, and both be reopened; one
  entry holds any artifacts, or two hold two between them. Lineages, processes and slots are
  symmetric.
- `finalize`: two finalizers, one crash, one reopen, four payloads, one of them
  empty, which take a review along two paths: approved at once, and corrected and then failed. A review that
  escalates at once (an unclear result), or a correction over its budget, is left to the theorems: both
  settle like a review that a maintainer escalates, which the run has.
  No symmetry, because the run checks liveness.
- `maintenance`: two processes (a holder and one that comes in between), four entries, four
  histories: an invalid recovery with a descendant, so that a batch moves two entries; two
  invalid recoveries apart; an invalid recovery beside an entry without a review; a readable graph with a
  continued review, which a late writer may advance, and an empty entry. Two requests,
  so that one may meet the marker of the other; one record written after the history; two
  faults, so that a replay may die as well.
- `runtime_ledger`: two clients, one objective of two attempts and one changed line, two trees,
  two lineages, four requests, two faults, two edits. `Bounded` keeps two requests apart in
  time except among the first three and before a second lineage and a legacy binding appear, and
  lets requests, faults and edits together be six: enough for a begin, a failing finish, a
  second begin and a passing finish, and for a finish, binding or reset that dies, is repeated
  and meets another client's commit in between.
- `installer`: four components of `MVPGraph` with both kinds of edges, three files, four commands
  (full preset, part of it, Engram added, sync), three runs with one edit and two faults:
  an install, a second one that fails and a third that meets what is left. Retention is 1 so
  that two backups make one prunable.
- The violation runs use the smallest instance that shows the behaviour; `sync_order` needs
  neither fault nor edit.

`CHECK_DEADLOCK FALSE` is set in all runs but `maintenance`: a settled chain, a full set of
lineages, a settled record with its receipt, a client whose requests are used up
and a machine whose commands are used up are places where the system stops. In
`maintenance` the absence of deadlock is checked: whoever died where, some command can go on, and
under a marker that is its replay.

### Fairness

`FinalizeAttempt!FairSpec` assumes that a running command proceeds (`WF` of `Load`
and of `Work`: a process that is neither killed nor blocked reaches its end, and
lock waits are bounded) and that callers follow the status they are given (`SF` of
`Replay`): `review status` answers a pending attempt with `reconcile_finalize` and a
settled record without receipt with the exact replay to execute, and the caller is
an agent that acts on it. Fairness is strong because other commands may take the
process in between. The number of crashes is bounded: a command that dies every
time converges nowhere. Convergence is claimed while the replay is *accepted*;
`journal_wedge` shows how it can stop being so.

The other specifications state no fairness and claim no liveness. The waits for locks are
bounded and end in a refusal, so the code promises no progress there, only that it
stays safe to try again.

## Proofs

### The record

`CompactLifecycle_proofs` proves, for every set of findings, every subset of
severe and in-scope ones, every cap and every bound:

- `RecordsStayGood`: `Spec => []IInv`;
- `TypeCorrect`: `Spec => []TypeOK`;
- `ValidatorJudges`: `Spec => []RefusesOnlyMalformed`;
- `FixesInScope`: `Spec => []FixesStayInGenesis`;
- `CorrectionsWithinBudget`: `Spec => []AcceptedCorrectionWithinBudget`;
- `HistoryStaysFrozen`: `Spec => FrozenHistory`, the action property;
- `EdgesNeverBreak`: `Spec => []EdgesStayValid`.

Assumptions: `FindingAssumption` and `BoundAssumption` of `CompactLifecycle`, which TLC
evaluates on the constants of `lifecycle`.

The argument. None of the properties is inductive: that `CompleteCorrection` gives a
record which validates depends on what the record already satisfies. `IInv` says
that every record of the chain is `Good`: it has its type, at most one correction
attempt, it *validates*, its fixes are in scope, and it is `Pristine`. The last part
is needed because the validator alone is too weak to be inductive: it accepts a
reviewing record that already holds lens results or follow-ups, which no operation
produces and from which the next one would fail. One lemma per operation
(`ReviewGood`, `ForecastGood`, `CorrectionGood` with `MalformedRefused`, `VerificationGood`, `InvalidationGood`,
`ApprovedInvalidationGood`, `DispositionGood`, `ReopenGood`, `ImportGood`, `RetryGood`) shows
that it keeps a record `Good`; `BudgetType` is the arithmetic of the budget; `CommitGood`
and `AppendGood` lift them to the chain; `StepGood` has one step per action. The
first properties then follow from `Good` of the leaf, or of each record.
`HistoryStaysFrozen` compares the two states of each step under `IInv`
(`CommitFrozen`, `SucceedFrozen`): the review of the leaf changes by a completed or a reopened review, and
otherwise only by the follow-ups that a recorded correction adds (`OnlyFollowUpsAdded`). `EdgesNeverBreak` needs more than `IInv`, because an edge is
judged on its current successor: `EdgeInv` adds that a retry is only ever
validating, approved, escalated or invalidated, so it never re-enters a review or a
correction; and `Continues` says what an operation on the leaf must keep for the edge to
survive: generation, disposition, imported evidence and, where evidence was imported,
the review it binds. The proof shows why it holds: a record with imported evidence has
fixes (`validateCompactRecoveredCorrection`), and only one without may be reopened.

### The authority store

`CompactAuthority_proofs` proves, for any lineages, lenses, concurrent commands and bound on
reopens:

- `TypesHold`, `ForestHolds`, `HistoryStaysFrozen`, `ReceiptsBind`, `CapturesSurvive`: `Spec => []P` for
  `TypeOK` and the four safety properties of the run `authority`;
- `LivesArePromised`: `Spec => PromiseKept`, the refinement of `ReviewAuthority`.

Assumptions: `NoneAssumption`, `BoundAssumption` and `RecordsAssumption` (`None` is not a content, a
record or a recovery).

The argument. The four properties hold each other up and are proved together (`StoreInv`): a
receipt binds its record because a settled record has no further step but a withdrawal, and the
same makes the history of a recovery frozen; a receipt is only published of what is in the entry
when the lock is held. What had to be added: `ContentsSound` (a disposition escalates a review
that has seen no evidence, so a reviewer result that is still missing was missing then),
`RecoveredStates` (what a recovery names had come to a halt or needed a correction), `ReceiptsSettled`, and
`WithdrawalsLocked`: a command between its two writes (the record is invalidated, the receipt not
yet removed) is alone in the store, so that the receipt it removes is still the one it saw. A step
of the store makes an entry, moves the content of one, removes one, or leaves all of them alone:
there is one group of lemmas for each of these changes, and every action is shown to be one. What a
command read before it took the lock enters only through the guard that compares it again.
The refinement follows from `IInv`: each action is a step of one lineage's life.

### The finalize command

`FinalizeAttempt_proofs` proves, for any number of commands, payloads, reopens and crashes:
`Invariance` (`[]IInv`), `TypesHold` (`[]TypeOK`), `CommittedIsJournaled` (`[]CommittedWasPlanned`),
`OneRequestIsOpen` (`[]OneOpenAttempt`) and `PublicationIsFact` (`[]PublishedMeansReceipt`). Assumptions:
`PayloadAssumption`, `BoundAssumption` and `NoneAssumption` (`None` is not a content, a request or an
attempt).

The argument. `JournalSound`: no two attempts answer one request, and no two are open.
`CommandSound` says what a command may rely on at its stage, without the lock: before it commits,
all it is about to commit is journaled (`Committing`); a plan leads on from a record in progress
and only its last state is settled (`PlanSound`); before it marks the attempt as published the
receipt is there or was withdrawn (`Publishing`, `Sealed`). Nothing others do undoes these: the journal
only grows (`JournalKept`, `AttemptGrows`), and a settled record loses its receipt only when it is
withdrawn. A crash drops the command and keeps the files, and so keeps all of `IInv` that is about
files.

### Maintenance

`AuthorityMaintenance_proofs` proves, for every set of processes, entries and requests, every
set of histories and any number of faults: `TypeCorrect` (`[]TypeOK`, with the locks),
`BatchesKeepPromises` (`[]IInv`), `PreparedStaysIntact`, `UnfinishedStaysMarked`,
`AuthorityStaysLinked`, `EntriesLeaveAudited`, `CommitsAreWhole`, `ReadsStayAtomic`
(`[]ReadsAtomic`) and `QuarantineIsAtomic`, the refinement of `AuthorityGraph`. Assumptions: `NamesAssumption`, `BoundAssumption`,
`RecordsAssumption` (`None` is neither a record, a request nor a mark) and `HistoryAssumption`
(whatever older versions left, every recovery continues a review that is there; the numbers that
stand for revisions begin with theirs).

`TypeInv` says who holds which lock at which stage. The properties themselves are not
inductive, because a process in the middle of a command relies on what it saw
earlier. `IInv` adds these promises (`Promise`, one per stage): a single quarantine that is
recorded may still be taken; a batch works for the request that is in the marker, and
what it is about to commit has been moved. `BatchInv` says of the marker that each of its
entries is where the plan found it, or in quarantine under the audit that names it. It
survives a kill because it speaks of the files and not of the process. `Linked(Visible)`
is the property for what readers may see, where a prepared batch counts as not begun
(`Visible` undoes the moves of the marker): what is continued is there, at the revision named or a later
one. More (`Closed`: at exactly that one) does not hold, because a late writer may advance it. Each step is then shown to be a step of
`AuthorityGraph` on `Visible` or to leave it alone: committing is invisible, and so is moving an entry;
clearing the marker is the step at which a batch happens.

A read of the whole graph lists the directory and then holds the shared lock for one entry at a time,
so that batches may begin and end between any two of its loads. `ReadInv` says what it has at each
moment of each batch that has begun (`ReadsCover`): either every entry that the batch takes, loaded or
still to be loaded (`Covers`; if the batch takes them first, the read fails), or only
records that were written after the batch took theirs (`Later`). The first holds for a batch that begins during the
read, because between two batches nothing adds to what the next one would take, as long as there can be a
next one (`Closed`; a batch requires it). Whoever writes a new entry requires a readable graph. Whoever advances one that is
continued leaves its successor on a revision that is gone, and nothing but the quarantine of that successor,
which no command grants, would make a batch possible again; whoever advances one that is not adds
nothing (`Suffixes`, `WriterShrinks`). The second holds for a batch that is over when the read begins, by
`Numbered`: what a committed batch took is there again only with a higher number. That a batch in
between cannot exist is `UnfinishedIsMarked`: no read begins or loads beside a marker.

### Runtime ledger

`RuntimeLedger_proofs` proves `HeadIsThere` (`[]NothingDangles`) and `RequestsOnceAndKept`
(`[]OnceAndKept`: in no chain that `HEAD` may name after a power loss is a request twice, and every
such chain continues the last one a client was told of), for any clients, requests, scopes,
faults and edits. Assumption: `NoneAssumption`.

The argument does not look into the records. `Writing` says what a client inside the lock knows: it
alone holds the lock; from the lookup of its request to the rename that request is not in the
chain; before the rename its record is durable. `Chains` says that what `HEAD` may be is a
set of chains of durable records which contains the one it is. That `told` is set only
after a sync, when only one value is left, gives the rest.

`RuntimeReplay_proofs` looks into them. It proves, for chains of any length, `TypesHold` (`[]TypeOK`),
`ChainsReplay` (`[]HeadReplays`), `BudgetsHold` (`[]BudgetHeld`), `CompletionsReviewed`
(`Spec => CompletionReviewed`) and `PromisesKept` (`Spec => PromiseKept`, the refinement of `RuntimeLog`).
Assumptions: `NoneAssumption`, `StartAssumption`, `BudgetAssumption` and `BoundAssumption`.

A status is `Legible` when it has its type, is valid, its lines are the sum of those of the attempts it is
charged with, these are the last ones and all of their generation (`Charged`), and every attempt was
within the budget of its objective when it began (`Budgeted`). The first half of the proof shows
that a record which `Follows` leads from a legible status to a legible one. The second half
is the invariant `RInv`: `IInv`; every value that `HEAD` may have is a legible beginning of
what it is now (`Heads`); and what the client inside the lock relies on (`ClientsOk`): after
the callback, what it read still fits the request (`Ready`); after the second look at the
world, replay accepts the record, a completion in it carries a review of the candidate
(`Publishable`) and a remediation continues the bound review (`Recovers`). No other client
disturbs this, because only the holder of `LOCK` moves `HEAD`; the world does move, and reviews
are recovered or withdrawn, but a recovery chain keeps its members (`ScopesKept`).

What a recursive function computes along a chain (that appending a record applies it, that more
attempts have more lines, where an objective begins) is proved without an induction
theorem: `SmallestExists` gives the smallest element of a non-empty set of numbers, so a chain on which the
claim fails would have a first record at which it fails.

### Installer

`InstallPlan_proofs` proves what the pure operators return; `Installer_proofs` builds on it and
proves, for any components, files, requests, faults, edits and number of commands: `TypesHold`
(`[]TypeOK`), `RollbacksRestore` (`[]RollbackRestores`), `NewestHolds` (`[]NewestHoldsPrior`),
`PruneSparesThem` (`Spec => PruneSpares`), `PlansAreSound` (`[]PlanSound`) and `RecordedIsThere`
(`[]RecordedInstallIsThere`).

Assumptions, all of them true of the tables in the code and evaluated by TLC on the ones of the run.
On the planner: the graph of components has no cycle (`AcyclicAssumption`); the first of an ordered
pair needs nothing, and is second of no pair (`PairsAssumption`: `persona` is the only
first in `softOrderingPairs`); `Alphabetical` lists the components. Pruning keeps at least one backup
(`RetentionAssumption`). On the machine: the steps that are not components have other names
(`StepAssumption`); a component that writes to a file the persona replaces is the second of a pair with it
(`SharingAssumption`, and what `softOrderingPairs` is there for: without it `RecordedInstallIsThere`
is false); `Absent` is no text (`AbsentAssumption`).

The arguments.

- *Rollback.* `RestoreLast` says that the restore of the snapshot is the last step to be
  undone, so that no later one disturbs it (`UndoRestoresLast`, on the reversal of the list), and
  `RestoredBut(S)` that during the restore all but the remaining entries are as the manifest says; an
  entry that fails sets `undoFailed`, which is the error that the rollback reports.
- *Pruning.* What is left is the list in its order but for some places (`InOrder`); each of these held
  an unpinned backup and at least `Retention` younger unpinned ones stay (`PruneKeeps`). The proof looks at the
  youngest that is deleted: the code has counted those younger than it, and none of them goes.
  Since `Retention` is at least one, the youngest backup is never among them (`NewestStays`,
  `LatestStays`), and a skipped snapshot is one that the youngest already holds: so it holds
  what the last command found.
- *The plan.* `PlannedFacts`: taking a component whose needs are all placed, while there is one, places all
  of an acyclic graph, each after what it needs. Moving the first of a pair forward loses no component, breaks
  no need (it has none, and what moves back a place keeps its distance from what it needs), and undoes
  no earlier pair (`MovedFacts`, for each of the prefixes of `SoftPairs`; the invariant is `Arranged`).
- *The recorded install.* `Laid`, during the apply stage: each file of each component that was already
  applied has its section. Only the persona destroys sections, and in the order of the plan it comes before all that it
  shares a file with. With no failure all of the plan has been applied when the selection is recorded.

Reading overlapping guards of a `CASE` as an arbitrary choice, which the semantics of TLA+ is, the
prover refused the first form of `Written`, where TLC takes the first that holds; its guards are
disjoint now.

### Only model-checked

Every invariant and every action property of the passing runs is a theorem, and so are the refinements. TLC
alone checks:

- the liveness properties (`OpenAttemptsConverge`, `SettledGetsReceipt`), which are out of this
  prover's reach;
- the counterexamples: a run that expects a violation shows one behaviour, and there is nothing to prove.

## Not modelled

- Git: trees, diffs, live-target checks and gates. A live target that moved is a
  choice that the environment makes (a gate may deny an approval at any time).
- Admission and quarantine of reviewer artifacts (their slots are in `CompactAuthority`);
  authorisation texts.
- Transport import and export; the repair tools of the v1 store.
- Records of the older correction policy with three attempts, which are read-only.
- FINALIZE's supersession check in `FinalizeAttempt` (one lineage only; it is in
  `CompactAuthority`), and its native low-risk path, which generates the evidence that
  otherwise comes as an input.
- In `AuthorityMaintenance`: a loss of power (its hazard is listed), the names of residues and of
  quarantine directories, and the time that a wait takes.
- In `RuntimeLedger`: reasons, evidence texts and harness classes, and the OpenSpec file that a
  binding is compared with. Replay of a chain of 10 000 records, which `load` refuses (listed
  as a hazard).
- In `Installer`: more than one `gentle-ai` at a time (nothing in the code excludes it, and
  nothing is promised for it), edits of the user on Pi's overlay, agents' own installation and
  plugin steps, which write outside the targets (as do the profile files of Codex), a CodeGraph that is not on
  the path or not wired before, a tool that fails to put back what it changed, the flags of `sync`, other agents than one of
  `StrategyFileReplace` and Pi, what the individual components merge into their files, the archive
  format, model assignments.
- Uninstall and the mutation journal, the agent builder, updates but for their backup,
  command line and screens: sequences of one process around text, network and
  rendering. `PROJECT.json` lists each part with the reason.

## Plan

What is left, in the order of importance:

1. `ReviewerResults`: the artifacts in the slots with their two files, capture, archive of
   what was reopened, re-admission by revision or retention, with crashes; a result that was
   quarantined is never admitted again; the proof a retry requires of the
   attempt journal (the lost flag in the hazards).
2. Transport import as an action of `CompactAuthority`, and its forks.
3. The v1 store and its repairs as far as the v2 store reads them.
4. The uninstall of one plugin with its mutation journal: what a restore leaves when
   one file conflicts.
5. Gates and target status as pure decisions, compared with what the store would do.

## Running it

    tlc -config MCAuthorityMaintenance.cfg MCAuthorityMaintenance.tla
    tlapm AuthorityMaintenance_proofs.tla

and so for the other modules; the runs `sync_order`, `retried_approval`, `stale_correction`,
`resurrected_entry`, `journal_wedge` and `premature_close` use the module of their neighbour with the `.cfg`
of their own name. The longest run takes about two and a half minutes with two workers.
