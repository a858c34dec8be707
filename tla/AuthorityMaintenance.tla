------------------------ MODULE AuthorityMaintenance ------------------------
(***************************************************************************)
(* The maintenance of the compact-v2 authority of one repository           *)
(* (internal/reviewtransaction: store_lock.go, compact_store.go,           *)
(* compact_batch_reconcile_{guard,plan,journal}.go, compact_reconcile.go,  *)
(* compact_reclaim.go).                                                    *)
(*                                                                         *)
(* REVIEW-MAINTENANCE.lock is held shared by readers and writers and       *)
(* exclusively by a batch, v2/LOCK by writers and batches; the kernel      *)
(* releases both when their holder dies.  A batch moves the entries of     *)
(* every invalid recovery into quarantine one by one, under a marker file  *)
(* that outlives its holder: while it is there, only the replay of the     *)
(* very same request may take the locks and keep them.                     *)
(*                                                                         *)
(* A revision is a checksum of a record: a number of its own for each      *)
(* record ever written.  Digests and authorization texts are the requests  *)
(* they bind.  A hold of a lock in which nothing else can change what is   *)
(* read or written, and in which one file is replaced, is one action.      *)
(***************************************************************************)
EXTENDS Integers, FiniteSets

CONSTANTS
  Process,        \* commands that run on the repository
  Lineage,        \* names of entries
  Authorization,  \* who asks for a batch and why
  None,           \* no entry, lineage, process or request
  Residue,        \* an entry that holds files but no review
  Scraps,         \* an entry with a temporary that may hold a review
  Hollow,         \* an empty entry, or one with other temporaries only
  History,        \* graphs that older versions may have left
  MaxChanges,     \* bound: records written after the history
  MaxFaults       \* bound: kills and failed steps

ASSUME NamesAssumption ==
  /\ None \notin Process
  /\ None \notin Lineage
ASSUME BoundAssumption == MaxChanges \in Nat /\ MaxFaults \in Nat

VARIABLES
  v2,         \* the entries under v2/
  marker,     \* the request in the marker file, or None
  audited,    \* the requests with an audit journal in quarantine/
  committed,  \* those whose journal is committed
  reclaims,   \* entries that a single quarantine has recorded as prepared
  settled,    \* those it has recorded as committed
  moved,      \* what is in quarantine, and under which audit
  shared,     \* the holders of REVIEW-MAINTENANCE.lock
  exclusive,  \* its exclusive holder, or None
  lock,       \* the holder of v2/LOCK, or None
  proc,       \* per process: how far its command is
  orders,     \* the batch requests that maintainers hold
  changes,    \* records written so far
  faults      \* faults so far

disk == <<v2, marker, audited, committed, reclaims, settled, moved>>
locks == <<shared, exclusive, lock>>
vars == <<disk, locks, proc, orders, changes, faults>>

-----------------------------------------------------------------------------
(* Entries and graphs.                                                      *)

\* The edge to a predecessor is valid, or anomalous in one of the two
\* historical ways that can be reconciled, or corrupt.
Record ==
  [rev : 0 .. MaxChanges, pred : Lineage \cup {None}, predRev : 0 .. MaxChanges,
   edge : {"valid", "anomalous", "corrupt"}]

Entry == Record \cup {None, Residue, Scraps, Hollow}
Graph == [Lineage -> Entry]

\* What a reader sees: while a batch is prepared nobody may read, and until
\* it is over it may as well not have begun.
Visible ==
  IF marker = None THEN v2
  ELSE [l \in Lineage |-> IF marker.move[l] # None THEN marker.move[l] ELSE marker.keep[l]]

Authority == INSTANCE AuthorityGraph WITH graph <- Visible

Loaded(g) == Authority!Loaded(g)
Listed(g) == Authority!Listed(g)
Successors(g, l) == Authority!Successors(g, l)
Readable(g) == Authority!Readable(g)
Without(g, S) == Authority!Without(g, S)

-----------------------------------------------------------------------------
(* The plan of a batch.                                                     *)

InvalidSuccessors(g) == {m \in Loaded(g) : ~Authority!EdgeValid(g, m)}

\* validateSupportedCompactBatchEdge
Supported(g, m) ==
  /\ Authority!Anchored(g, m)
  /\ g[m].edge = "anomalous"
  /\ Successors(g, g[m].pred) = {m}

\* Mutant: the descendants of an invalid successor stay behind.
InvalidOnly(g) == InvalidSuccessors(g)

\* Every invalid successor and all that continues it.
Suffixes(g) ==
  {l \in Loaded(g) :
     \A S \in SUBSET Loaded(g) :
       /\ InvalidSuccessors(g) \subseteq S
       /\ \A m \in Loaded(g) : g[m].pred \in S => m \in S
       => l \in S}

\* PlanCompactBatchReconciliation, for a complete declaration of the invalid
\* edges: it refuses entries that do not load, unsupported edges, an invalid
\* edge below a valid one that moves, and a retained graph that is invalid.
Plannable(g) ==
  /\ \A l \in Lineage : g[l] \notin {Residue, Scraps, Hollow}
  /\ InvalidSuccessors(g) # {}
  /\ \A m \in InvalidSuccessors(g) :
       /\ Supported(g, m)
       /\ g[m].pred \in Suffixes(g) => g[m].pred \in InvalidSuccessors(g)
  /\ Authority!Valid(Without(g, Suffixes(g)))

\* The plan lists what is retained and what is quarantined, by revision.
Planned(g, by) ==
  [keep |-> Without(g, Suffixes(g)), move |-> Authority!Only(g, Suffixes(g)), by |-> by]

Request == [keep : Graph, move : Graph, by : Authorization]

ASSUME RecordsAssumption ==
  /\ Record \cap {None, Residue, Scraps, Hollow} = {} /\ None \notin Request
  /\ None \notin {Residue, Scraps, Hollow} /\ Residue \notin {Scraps, Hollow}
  /\ Scraps # Hollow

\* Whatever older versions have left, they quarantined nothing that was
\* continued; the records they wrote have number zero.
ASSUME HistoryAssumption ==
  \A g \in History :
    /\ g \in Graph /\ Authority!Closed(g)
    /\ \A l \in Loaded(g) : g[l].rev = 0

Batch(r) == {l \in Lineage : r.move[l] # None}

\* verifyCompactBatchMovesAndRetainedGraphLocked
Verified(r) ==
  /\ \A l \in Batch(r) : <<r, l, r.move[l]>> \in moved
  /\ v2 = r.keep
  /\ Readable(v2)

-----------------------------------------------------------------------------
(* Locks.                                                                   *)

Idle == [at |-> "idle"]

\* A command that is over, or was a read whose result is still looked at.
Free(p) ==
  \/ proc[p].at = "idle"
  \/ proc[p].at = "reading" /\ proc[p].todo = {}

Step(p, state) == proc' = [proc EXCEPT ![p] = state]
At(p, stage) == proc[p].at = stage

\* Mutant: the marker is not looked for once the lock is held.
MarkerNotSought == TRUE

\* ensureNoPreparedCompactBatchReconciliation, repeated under the lock.
NoPreparedBatch == marker = None

\* acquireMaintenanceLock in its shared mode is granted and kept.
SharedAdmitted == exclusive = None /\ NoPreparedBatch

\* acquireStoreLock: shared maintenance, then v2/LOCK or nothing.
Enter(p) ==
  /\ Free(p)
  /\ SharedAdmitted /\ lock = None
  /\ shared' = shared \cup {p}
  /\ lock' = p
  /\ Step(p, [at |-> "holding"])
  /\ UNCHANGED <<disk, exclusive, orders, changes, faults>>

\* Mutant: only other batches are excluded.
NoOtherBatch == exclusive = None

ExclusiveFree == shared = {} /\ exclusive = None /\ lock = None

\* A command returns, or its process dies: all its locks are free.
Release(p) ==
  /\ shared' = shared \ {p}
  /\ exclusive' = IF exclusive = p THEN None ELSE exclusive
  /\ lock' = IF lock = p THEN None ELSE lock
  /\ Step(p, Idle)

-----------------------------------------------------------------------------
(* Writers of one entry, under LOCK.                                        *)

\* A writer publishes a new record of l by an atomic rename and returns.
Publish(p, l, pred) ==
  /\ changes < MaxChanges
  /\ changes' = changes + 1
  /\ v2' = [v2 EXCEPT ![l] =
       [rev |-> changes + 1, pred |-> pred,
        predRev |-> IF pred = None THEN 0 ELSE v2[pred].rev,
        edge |-> "valid"]]
  /\ Release(p)
  /\ UNCHANGED <<marker, audited, committed, reclaims, settled, moved, orders, faults>>

Unused(l) == v2[l] \in {None, Scraps, Hollow}

StartCompactAuthority(p, l) ==
  /\ At(p, "holding") /\ Unused(l) /\ Readable(v2)
  /\ Publish(p, l, None)

RecoverCompactAuthority(p, l, m) ==
  /\ At(p, "holding") /\ l \in Loaded(v2) /\ Unused(m)
  /\ Readable(v2) /\ Successors(v2, l) = {}
  /\ Publish(p, m, l)

\* ReplaceContext looks at one entry only.  Its callers look for successors
\* before it takes the lock, so the record of a review that has been continued
\* in between advances too, and so does that of an invalid successor.
ReplaceContext(p, l) ==
  /\ At(p, "holding") /\ l \in Loaded(v2)
  /\ changes < MaxChanges
  /\ changes' = changes + 1
  /\ v2' = [v2 EXCEPT ![l].rev = changes + 1]
  /\ Release(p)
  /\ UNCHANGED <<marker, audited, committed, reclaims, settled, moved, orders, faults>>

\* A START (or a recovery) is killed before its rename: it has made the
\* directory, and perhaps the temporary with the record in it.
KilledStart(p, l) ==
  /\ At(p, "holding") /\ v2[l] \in {None, Hollow} /\ Readable(v2)
  /\ faults < MaxFaults /\ faults' = faults + 1
  /\ \E left \in {Hollow, Scraps} \ {v2[l]} : v2' = [v2 EXCEPT ![l] = left]
  /\ Release(p)
  /\ UNCHANGED <<marker, audited, committed, reclaims, settled, moved, orders, changes>>

\* Mutant: a successor of the entry is not looked for.
EdgeReconcilable(l) ==
  /\ l \in Loaded(v2) /\ v2[l].pred # None
  /\ Supported(v2, l)
  /\ Listed(v2) = Loaded(v2)

\* The checks of ReconcileInvalidRecoveryEdge.
Reconcilable(l) ==
  /\ EdgeReconcilable(l)
  /\ Successors(v2, l) = {}
  /\ Authority!Valid(Without(v2, {l}))

\* ReclaimIncompleteCompactStore takes nothing that may hold authority.
Reclaimable(l) == v2[l] \in {Residue, Hollow}

\* quarantineCompactStoreEntry: a prepared record, the move, the committed
\* record.
PrepareQuarantine(p, l) ==
  /\ At(p, "holding")
  /\ Reconcilable(l) \/ Reclaimable(l)
  /\ reclaims' = reclaims \cup {<<l, v2[l]>>}
  /\ Step(p, [at |-> "recorded", lineage |-> l])
  /\ UNCHANGED <<v2, marker, audited, committed, settled, moved, locks, orders, changes, faults>>

QuarantineEntry(p) ==
  /\ At(p, "recorded")
  /\ LET l == proc[p].lineage
     IN  /\ moved' = moved \cup {<<None, l, v2[l]>>}
         /\ v2' = Without(v2, {l})
         /\ Step(p, [at |-> "taken", lineage |-> l, entry |-> v2[l]])
  /\ UNCHANGED <<marker, audited, committed, reclaims, settled, locks, orders, changes, faults>>

SettleQuarantine(p) ==
  /\ At(p, "taken")
  /\ settled' = settled \cup {<<proc[p].lineage, proc[p].entry>>}
  /\ Release(p)
  /\ UNCHANGED <<v2, marker, audited, committed, reclaims, moved, orders, changes, faults>>

-----------------------------------------------------------------------------
(* Readers of the whole graph.                                              *)

\* DiscoverCompactStores reads the directory without a lock.
DiscoverCompactStores(p) ==
  /\ Free(p) /\ NoPreparedBatch
  /\ Step(p, [at |-> "reading", todo |-> Listed(v2), seen |-> [l \in Lineage |-> None]])
  /\ UNCHANGED <<disk, locks, orders, changes, faults>>

\* LoadContext holds the shared lock for one entry at a time.
Load(p, l) ==
  /\ At(p, "reading") /\ l \in proc[p].todo
  /\ SharedAdmitted
  /\ l \in Loaded(v2)
  /\ Step(p, [proc[p] EXCEPT !.todo = @ \ {l}, !.seen[l] = v2[l]])
  /\ UNCHANGED <<disk, locks, orders, changes, faults>>

\* An entry that does not load, or a batch in the way, fails the read.
LoadFails(p) ==
  /\ At(p, "reading")
  /\ \E l \in proc[p].todo : ~SharedAdmitted \/ l \notin Loaded(v2)
  /\ Step(p, Idle)
  /\ UNCHANGED <<disk, locks, orders, changes, faults>>

-----------------------------------------------------------------------------
(* Batches.                                                                 *)

\* PrepareCompactBatchReconciliation only reads, under the exclusive lock.
PrepareCompactBatchReconciliation(p, by) ==
  /\ Free(p)
  /\ ExclusiveFree /\ NoPreparedBatch
  /\ Plannable(v2)
  /\ orders' = orders \cup {Planned(v2, by)}
  /\ UNCHANGED <<disk, locks, proc, changes, faults>>

\* Mutant: the plan is executed as it was authorized.
PlanAuthorized(r) == Plannable(v2)

\* validateCompactBatchReconcileRequestLocked: the plan is derived again.
PlanCurrent(r) == Plannable(v2) /\ Planned(v2, r.by) = r

\* ReconcileInvalidRecoveryEdges, to where the marker is on disk.  It may
\* take the lock over a marker, but only to replay what the marker asks for;
\* a prepared audit without a marker is marked again, and a new request is
\* revalidated.  In every other case the command returns as it came.
Admit(p, r) ==
  /\ Free(p) /\ r \in orders
  /\ ExclusiveFree
  /\ \/ marker = r
     \/ marker = None /\ r \in audited \ committed
     \/ marker = None /\ r \notin audited /\ PlanCurrent(r)
  /\ marker' = r
  /\ exclusive' = p /\ lock' = p
  /\ Step(p, [at |-> "replaying", request |-> r])
  /\ UNCHANGED <<v2, audited, committed, reclaims, settled, moved, shared, orders,
                 changes, faults>>

\* Mutant: the audit is left for when there is something to report.
NoAudit(r) == UNCHANGED audited

PersistAudit(r) == audited' = audited \cup {r}

\* replayCompactBatchReconcileJournalLocked begins with its audit.
BeginReplay(p) ==
  LET r == proc[p].request
  IN  /\ At(p, "replaying") /\ r \notin committed
      /\ PersistAudit(r)
      /\ Step(p, [at |-> "moving", request |-> r])
      /\ UNCHANGED <<v2, marker, committed, reclaims, settled, moved, locks, orders,
                     changes, faults>>

ReplayCommitted(p) ==
  LET r == proc[p].request
  IN  /\ At(p, "replaying") /\ r \in committed
      /\ Verified(r)
      /\ Step(p, [at |-> "committed", request |-> r])
      /\ UNCHANGED <<disk, locks, orders, changes, faults>>

\* executeCompactBatchReconcileMove, along each chain from its first invalid
\* successor on.  An entry already in quarantine is verified and passed over.
MoveEntry(p, l) ==
  LET r == proc[p].request
  IN  /\ At(p, "moving") /\ l \in Batch(r)
      /\ <<r, l, r.move[l]>> \notin moved
      /\ v2[l] = r.move[l]
      /\ \A m \in Batch(r) : r.move[l].pred = m => <<r, m, r.move[m]>> \in moved
      /\ v2' = Without(v2, {l})
      /\ moved' = moved \cup {<<r, l, r.move[l]>>}
      /\ UNCHANGED <<marker, audited, committed, reclaims, settled, locks, proc, orders,
                     changes, faults>>

\* Mutant: the moves are not verified.
MovesTried(r) == \E l \in Batch(r) : <<r, l, r.move[l]>> \in moved

MovesVerified(r) == Verified(r)

CommitBatch(p) ==
  LET r == proc[p].request
  IN  /\ At(p, "moving") /\ MovesVerified(r)
      /\ committed' = committed \cup {r}
      /\ Step(p, [at |-> "committed", request |-> r])
      /\ UNCHANGED <<v2, marker, audited, reclaims, settled, moved, locks, orders,
                     changes, faults>>

\* Mutant: the marker goes before the moves are made.
ReadyToClear(p) == At(p, "moving")

Committed(p) == At(p, "committed")

\* clearCompactBatchReconcileMarker, and the command returns.
ClearMarker(p) ==
  /\ Committed(p)
  /\ marker' = None
  /\ Release(p)
  /\ UNCHANGED <<v2, audited, committed, reclaims, settled, moved, orders, changes, faults>>

\* A step fails or the process is killed: what is on disk stays there.
Stop(p) ==
  /\ At(p, "holding") \/ At(p, "recorded") \/ At(p, "taken")
     \/ At(p, "replaying") \/ At(p, "moving") \/ At(p, "committed")
  /\ faults < MaxFaults /\ faults' = faults + 1
  /\ Release(p)
  /\ UNCHANGED <<disk, orders, changes>>

\* What the disk holds is not what the journal says.
Stuck(p) ==
  LET r == proc[p].request
  IN  \/ At(p, "replaying") /\ r \in committed /\ ~Verified(r)
      \/ /\ At(p, "moving") /\ ~MovesVerified(r)
         /\ \A l \in Batch(r) : <<r, l, r.move[l]>> \in moved \/ v2[l] # r.move[l]

\* A writer whose checks refuse, and a batch whose verification does.
Refuse(p) ==
  /\ At(p, "holding") \/ Stuck(p)
  /\ Release(p)
  /\ UNCHANGED <<disk, orders, changes, faults>>

-----------------------------------------------------------------------------
Init ==
  /\ v2 \in History
  /\ marker = None
  /\ audited = {} /\ committed = {}
  /\ reclaims = {} /\ settled = {} /\ moved = {}
  /\ shared = {} /\ exclusive = None /\ lock = None
  /\ proc = [p \in Process |-> Idle]
  /\ orders = {}
  /\ changes = 0 /\ faults = 0

WriterNext(p) ==
  \/ Enter(p) \/ QuarantineEntry(p) \/ SettleQuarantine(p) \/ Refuse(p)
  \/ \E l \in Lineage :
       \/ StartCompactAuthority(p, l)
       \/ \E m \in Lineage : RecoverCompactAuthority(p, l, m)
       \/ ReplaceContext(p, l) \/ KilledStart(p, l)
       \/ PrepareQuarantine(p, l)

ReaderNext(p) ==
  \/ DiscoverCompactStores(p) \/ LoadFails(p)
  \/ \E l \in Lineage : Load(p, l)

BatchNext(p) ==
  \/ \E by \in Authorization : PrepareCompactBatchReconciliation(p, by)
  \/ \E r \in orders : Admit(p, r)
  \/ BeginReplay(p) \/ ReplayCommitted(p) \/ CommitBatch(p) \/ ClearMarker(p)
  \/ \E l \in Lineage : MoveEntry(p, l)

Next == \E p \in Process : WriterNext(p) \/ ReaderNext(p) \/ BatchNext(p) \/ Stop(p)

Spec == Init /\ [][Next]_vars

-----------------------------------------------------------------------------
(* Properties.                                                              *)

Proc ==
  [at : {"idle", "holding"}]
  \cup [at : {"recorded"}, lineage : Lineage]
  \cup [at : {"taken"}, lineage : Lineage, entry : Entry \ {None}]
  \cup [at : {"reading"}, todo : SUBSET Lineage, seen : Graph]
  \cup [at : {"replaying", "moving", "committed"}, request : orders]

\* Every variable has its type, and locks are held as the stages of the
\* commands need them: a batch alone, a writer never beside a batch or
\* another writer (acquireStoreLock, acquireCompactBatchReconcileLocks).
TypeOK ==
  /\ v2 \in Graph
  /\ marker \in orders \cup {None}
  /\ committed \subseteq audited /\ audited \subseteq orders
  /\ settled \subseteq reclaims
  /\ \A p \in Process : proc[p] \in Proc
  /\ \A p \in Process :
       /\ p \in shared <=> proc[p].at \in {"holding", "recorded", "taken"}
       /\ exclusive = p <=> proc[p].at \in {"replaying", "moving", "committed"}
  /\ lock # None <=> shared # {} \/ exclusive # None
  /\ shared = {} \/ (shared = {lock} /\ exclusive = None)

\* No review continues one that is not there: neither a quarantine of one
\* entry nor the quarantine of a batch leaves the successor of what it takes
\* (ReconcileInvalidRecoveryEdge, PlanCompactBatchReconciliation).  The review
\* it continues is at the revision it names, or at one that a late writer gave
\* it after the recovery (ReplaceContext), and never at an older one.
AuthorityLinked == marker = None => Authority!Linked(v2)

\* A read that loads all it listed was not in the middle of a batch: of the
\* entries a batch takes it saw all or none, at whatever moments it loaded
\* them (acquireReadMaintenance "prevents a stale CompactStore handle from
\* observing a partially applied authority-maintenance transaction"), unless
\* one of their names was given to a new review before the read was over.
ReadsAtomic ==
  \A p \in Process : \A r \in audited :
    At(p, "reading") /\ proc[p].todo = {} =>
      LET seen == {l \in Batch(r) : proc[p].seen[l] # None}
          reused == {l \in seen : proc[p].seen[l].rev > r.move[l].rev}
      IN  reused = {} => seen \in {{}, Batch(r)}

\* While a batch is prepared nothing it depends on changes, whoever dies in
\* between: each of its entries is where the plan found it or where the plan
\* puts it, and the rest is what it retains, so that the exact replay that is
\* required is never refused (ErrCompactBatchReconcilePrepared).
PreparedBatchIntact ==
  marker # None =>
    \A l \in Lineage :
      IF l \in Batch(marker)
        THEN IF <<marker, l, marker.move[l]>> \in moved THEN v2[l] = None
             ELSE v2[l] = marker.move[l]
        ELSE v2[l] = marker.keep[l]

\* A batch that has begun to move entries and has not committed is marked, so
\* nobody can work on half of it (replayCompactBatchReconcileJournalLocked
\* removes the marker last).
UnfinishedIsMarked == \A r \in audited \ committed : marker = r

\* An entry leaves v2 only under an audit that is on disk already and names
\* it (quarantineCompactStoreEntry, executeCompactBatchReconcileMove).
Audited(l) == <<l, v2[l]>> \in reclaims \/ \E r \in audited : r.move[l] = v2[l]
AuditedLeave == \A l \in Lineage : v2[l] # None /\ v2'[l] = None => Audited(l)
MovedUnderAudit == [][AuditedLeave]_vars

\* When a batch commits, all it announced is in quarantine, all it retains is
\* as it was authorized, and the authority can be read again
\* (verifyCompactBatchMovesAndRetainedGraphLocked).
WholeCommit ==
  \A r \in committed' \ committed :
    /\ v2' = r.keep /\ Readable(v2')
    /\ \A l \in Batch(r) : <<r, l, r.move[l]>> \in moved'
CommitIsWhole == [][WholeCommit]_vars

\* Readers may think of a batch as one step: it never shows, and when its
\* marker goes the whole of it has happened (AuthorityGraph).
AtomicQuarantine == Authority!Spec

=============================================================================
