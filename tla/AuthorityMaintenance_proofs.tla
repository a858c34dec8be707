--------------------- MODULE AuthorityMaintenance_proofs ---------------------
(***************************************************************************)
(* What AuthorityMaintenance promises, for any number of processes,        *)
(* entries and requests, any histories and any number of faults.           *)
(*                                                                         *)
(* TypeInv says who may hold which lock and what the commands know of      *)
(* their entries.  IInv adds what the commands in the middle of something  *)
(* rely on: the single quarantine that its entry may still be taken, the   *)
(* batch that its request is the one in the marker and that nothing it     *)
(* depends on has moved.  Each step keeps IInv, and is a step of the graph *)
(* that readers see or leaves it alone.                                    *)
(* ReadInv says what a read has, while it goes on, of each batch: all that *)
(* it takes, or nothing but what came after it.                            *)
(***************************************************************************)
EXTENDS AuthorityMaintenance, TLAPS

-----------------------------------------------------------------------------
(* The inductive invariant of the locks.                                    *)

WriterStage == {"holding", "recorded", "taken"}
BatchStage == {"replaying", "moving", "committed"}

Ordered == {r \in Request : Batch(r) # {}}

Entries == v2 \in Graph /\ changes \in 0 .. MaxChanges

Audits ==
  /\ orders \subseteq Ordered
  /\ marker \in orders \cup {None}
  /\ audited \subseteq orders /\ committed \subseteq audited
  /\ settled \subseteq reclaims

Locks ==
  /\ shared \subseteq Process
  /\ exclusive \in Process \cup {None}
  /\ \A p \in Process :
       /\ p \in shared <=> proc[p].at \in WriterStage
       /\ exclusive = p <=> proc[p].at \in BatchStage
  /\ lock # None <=> shared # {} \/ exclusive # None
  /\ shared = {} \/ (shared = {lock} /\ exclusive = None)
  /\ exclusive # None => lock = exclusive

Journalled(p) ==
  /\ At(p, "recorded") =>
       /\ <<proc[p].lineage, v2[proc[p].lineage]>> \in reclaims
       /\ v2[proc[p].lineage] # None
  /\ At(p, "taken") => <<proc[p].lineage, proc[p].entry>> \in reclaims
  /\ At(p, "moving") \/ At(p, "committed") => proc[p].request \in audited

TypeInv ==
  /\ Entries
  /\ Audits
  /\ proc \in [Process -> Proc]
  /\ Locks
  /\ \A p \in Process : Journalled(p)

-----------------------------------------------------------------------------

\* A writer is the only one that holds a lock.
LEMMA WriterAlone ==
  ASSUME Locks, NEW p \in Process, proc[p].at \in WriterStage
  PROVE  /\ shared = {p} /\ lock = p /\ exclusive = None
         /\ \A q \in Process : q # p => proc[q].at \notin WriterStage \cup BatchStage
  BY NamesAssumption DEF Locks

\* A batch is the only one that holds a lock.
LEMMA BatchAlone ==
  ASSUME Locks, NEW p \in Process, proc[p].at \in BatchStage
  PROVE  /\ shared = {} /\ lock = p /\ exclusive = p
         /\ \A q \in Process : q # p => proc[q].at \notin WriterStage \cup BatchStage
  BY NamesAssumption DEF Locks

\* When every lock is free no command is in the middle of anything.
LEMMA NoneHolds ==
  ASSUME Locks, ExclusiveFree
  PROVE  \A q \in Process : proc[q].at \notin WriterStage \cup BatchStage
  BY NamesAssumption DEF Locks, ExclusiveFree

\* The fields that a stage has.
LEMMA Fields ==
  ASSUME NEW s \in Proc
  PROVE  /\ s.at \in {"idle", "holding", "recorded", "taken", "reading"} \cup BatchStage
         /\ s.at \in {"recorded", "taken"} => s.lineage \in Lineage
         /\ s.at = "taken" => s.entry \in Entry \ {None}
         /\ s.at = "reading" => s.todo \in SUBSET Lineage /\ s.seen \in Graph
         /\ s.at \in BatchStage => s.request \in orders
  BY DEF Proc, BatchStage

\* A command that is well typed stays so when another request is made.
LEMMA ProcGrows ==
  ASSUME orders \subseteq orders', NEW s \in Proc
  PROVE  s \in Proc'
  BY DEF Proc

\* A release leaves the locks free.
LEMMA ReleaseLocks ==
  ASSUME proc \in [Process -> Proc], Locks, NEW p \in Process, Release(p),
         proc[p].at \in WriterStage \cup BatchStage
  PROVE  /\ shared' = {} /\ exclusive' = None /\ lock' = None
         /\ proc' = [proc EXCEPT ![p] = Idle]
         /\ Locks'
<1>1. shared' = {} /\ exclusive' = None /\ lock' = None
  BY WriterAlone, BatchAlone, NamesAssumption DEF Release
<1>2. proc' = [proc EXCEPT ![p] = Idle]
  BY DEF Release, Step
<1>3. \A q \in Process : proc'[q].at \notin WriterStage \cup BatchStage
  BY <1>2, WriterAlone, BatchAlone DEF Idle, WriterStage, BatchStage
<1> QED
  BY <1>1, <1>2, <1>3, NamesAssumption DEF Locks

\* A command that releases its locks and was the only one to hold any.
LEMMA ReleaseTypes ==
  ASSUME TypeInv, NEW p \in Process, Release(p),
         proc[p].at \in WriterStage \cup BatchStage,
         Entries', Audits', orders \subseteq orders'
  PROVE  TypeInv'
<1>1. /\ proc' = [proc EXCEPT ![p] = Idle] /\ Locks'
  BY ReleaseLocks DEF TypeInv
<1>2. proc' \in [Process -> Proc']
  BY <1>1, ProcGrows DEF TypeInv, Idle, Proc
<1>3. \A q \in Process : proc'[q].at \notin WriterStage \cup BatchStage
  BY <1>1, WriterAlone, BatchAlone DEF TypeInv, Idle, WriterStage, BatchStage
<1> QED
  BY <1>1, <1>2, <1>3 DEF TypeInv, Journalled, At, WriterStage, BatchStage

\* Taking entries out of a graph leaves a graph.
LEMMA WithoutType ==
  ASSUME NEW g \in Graph, NEW S
  PROVE  Without(g, S) \in Graph
  BY DEF Without, Authority!Without, Graph, Entry

\* An entry that loads holds a record.
LEMMA LoadedRecord ==
  ASSUME NEW g \in Graph, NEW l \in Loaded(g)
  PROVE  l \in Lineage /\ g[l] \in Record
  BY DEF Loaded, Authority!Loaded, Graph, Entry

\* A part of a graph is a graph.
LEMMA OnlyType ==
  ASSUME NEW g \in Graph, NEW S
  PROVE  Authority!Only(g, S) \in Graph
  BY DEF Authority!Only, Graph, Entry

\* An authorized plan takes something away: there was an invalid recovery.
LEMMA PlannedOrdered ==
  ASSUME NEW g \in Graph, Plannable(g), NEW by \in Authorization
  PROVE  Planned(g, by) \in Ordered
<1>1. Planned(g, by) \in Request
  BY WithoutType, OnlyType DEF Planned, Request
<1>2. PICK m \in InvalidSuccessors(g) : TRUE
  BY DEF Plannable
<1>3. m \in Loaded(g)
  BY DEF InvalidSuccessors
<1>4. m \in Suffixes(g)
  BY <1>3 DEF Suffixes
<1>5. Planned(g, by).move[m] # None
  BY <1>3, <1>4, LoadedRecord DEF Planned, Authority!Only, Loaded, Authority!Loaded
<1> QED
  BY <1>1, <1>3, <1>5, LoadedRecord DEF Ordered, Batch

\* A new record keeps the types.
LEMMA PublishTypes ==
  ASSUME TypeInv, NEW p \in Process, At(p, "holding"), NEW l \in Lineage,
         NEW pred \in Loaded(v2) \cup {None}, Publish(p, l, pred)
  PROVE  TypeInv'
<1>1. changes' \in 0 .. MaxChanges
  BY BoundAssumption DEF Publish, TypeInv, Entries
<1>2. pred # None => v2[pred].rev \in 0 .. MaxChanges /\ pred \in Lineage
  BY LoadedRecord DEF TypeInv, Entries, Record
<1>3. [rev |-> changes + 1, pred |-> pred, predRev |-> IF pred = None THEN 0 ELSE v2[pred].rev,
       edge |-> "valid"] \in Record
  BY <1>1, <1>2, BoundAssumption DEF Publish, Record
<1>4. v2' \in Graph
  BY <1>3 DEF Publish, TypeInv, Entries, Graph, Entry
<1> QED
  BY <1>1, <1>4, ReleaseTypes DEF Publish, TypeInv, Entries, Audits, At, WriterStage, BatchStage

\* The steps of writers keep the types.
LEMMA WriterTypes ==
  ASSUME TypeInv, NEW p \in Process, WriterNext(p)
  PROVE  TypeInv'
<1>1. CASE Enter(p)
  <2>1. proc' = [proc EXCEPT ![p] = [at |-> "holding"]] /\ shared' = shared \cup {p} /\ lock' = p
        /\ UNCHANGED <<disk, exclusive, orders, changes>> /\ exclusive = None /\ lock = None
    BY <1>1 DEF Enter, Step, SharedAdmitted
  <2>2. shared = {} /\ \A q \in Process : proc[q].at \notin WriterStage \cup BatchStage
    BY <2>1, NamesAssumption DEF TypeInv, Locks
  <2>3. proc' \in [Process -> Proc']
    BY <2>1 DEF TypeInv, Proc
  <2>4. Locks'
    BY <2>1, <2>2, NamesAssumption DEF TypeInv, Locks, WriterStage, BatchStage
  <2>5. \A q \in Process : Journalled(q)'
    BY <2>1, <2>2 DEF TypeInv, Journalled, At, WriterStage, BatchStage, disk
  <2> QED
    BY <2>1, <2>3, <2>4, <2>5 DEF TypeInv, Entries, Audits, disk
<1>2. CASE QuarantineEntry(p)
  <2> DEFINE l == proc[p].lineage
  <2>1. /\ proc[p].at = "recorded" /\ l \in Lineage /\ v2[l] # None
        /\ <<l, v2[l]>> \in reclaims
    BY <1>2, Fields DEF QuarantineEntry, TypeInv, Journalled, At
  <2>2. /\ proc' = [proc EXCEPT ![p] = [at |-> "taken", lineage |-> l, entry |-> v2[l]]]
        /\ v2' = Without(v2, {l})
        /\ UNCHANGED <<marker, audited, committed, reclaims, settled, locks, orders, changes>>
    BY <1>2 DEF QuarantineEntry, Step
  <2>3. \A q \in Process : q # p => proc[q].at \notin WriterStage \cup BatchStage
    BY <2>1, WriterAlone DEF TypeInv, WriterStage
  <2>4. v2' \in Graph
    BY <2>2, WithoutType DEF TypeInv, Entries
  <2>5. v2[l] \in Entry \ {None}
    BY <2>1 DEF TypeInv, Entries, Graph
  <2>6. proc' \in [Process -> Proc']
    BY <2>1, <2>2, <2>5 DEF TypeInv, Proc
  <2>7. Locks'
    BY <2>1, <2>2 DEF TypeInv, Locks, WriterStage, BatchStage, locks
  <2>8. \A q \in Process : Journalled(q)'
    BY <2>1, <2>2, <2>3 DEF TypeInv, Journalled, At, WriterStage, BatchStage
  <2> QED
    BY <2>2, <2>4, <2>6, <2>7, <2>8 DEF TypeInv, Entries, Audits
<1>3. CASE SettleQuarantine(p)
  <2>1. <<proc[p].lineage, proc[p].entry>> \in reclaims /\ proc[p].at \in WriterStage
    BY <1>3 DEF SettleQuarantine, TypeInv, Journalled, At, WriterStage, BatchStage
  <2> QED
    BY <1>3, <2>1, ReleaseTypes DEF SettleQuarantine, TypeInv, Entries, Audits
<1>4. CASE Refuse(p)
  <2>1. proc[p].at \in WriterStage \cup BatchStage
    BY <1>4 DEF Refuse, Stuck, At, WriterStage, BatchStage
  <2> QED
    BY <1>4, <2>1, ReleaseTypes DEF Refuse, TypeInv, Entries, Audits, disk
<1>5. ASSUME NEW l \in Lineage, StartCompactAuthority(p, l)
      PROVE  TypeInv'
  BY <1>5, PublishTypes DEF StartCompactAuthority
<1>6. ASSUME NEW l \in Lineage, NEW m \in Lineage, RecoverCompactAuthority(p, l, m)
      PROVE  TypeInv'
  BY <1>6, PublishTypes DEF RecoverCompactAuthority
<1>7. ASSUME NEW l \in Lineage, ReplaceContext(p, l)
      PROVE  TypeInv'
  <2>1. changes' \in 0 .. MaxChanges /\ changes + 1 \in 0 .. MaxChanges
    BY <1>7, BoundAssumption DEF ReplaceContext, TypeInv, Entries
  <2>2. v2[l] \in Record
    BY <1>7, LoadedRecord DEF ReplaceContext, TypeInv, Entries
  <2>3. [v2[l] EXCEPT !.rev = changes + 1] \in Record
    BY <2>1, <2>2 DEF Record
  <2>4. v2' \in Graph
    BY <1>7, <2>3 DEF ReplaceContext, TypeInv, Entries, Graph, Entry
  <2> QED
    BY <1>7, <2>1, <2>4, ReleaseTypes DEF ReplaceContext, TypeInv, Entries, Audits, At, WriterStage, BatchStage
<1>8. ASSUME NEW l \in Lineage, KilledStart(p, l)
      PROVE  TypeInv'
  <2>1. PICK left \in {Hollow, Scraps} : v2' = [v2 EXCEPT ![l] = left]
    BY <1>8 DEF KilledStart
  <2>2. v2' \in Graph
    BY <2>1 DEF TypeInv, Entries, Graph, Entry
  <2> QED
    BY <1>8, <2>2, ReleaseTypes DEF KilledStart, TypeInv, Entries, Audits, At, WriterStage, BatchStage
<1>9. ASSUME NEW l \in Lineage, PrepareQuarantine(p, l)
      PROVE  TypeInv'
  <2>1. /\ proc' = [proc EXCEPT ![p] = [at |-> "recorded", lineage |-> l]]
        /\ reclaims' = reclaims \cup {<<l, v2[l]>>} /\ proc[p].at = "holding"
        /\ UNCHANGED <<v2, marker, audited, committed, settled, locks, orders, changes>>
    BY <1>9 DEF PrepareQuarantine, Step, At
  <2>2. v2[l] # None
    BY <1>9, RecordsAssumption
    DEF PrepareQuarantine, Reconcilable, EdgeReconcilable, Reclaimable, Loaded, Authority!Loaded
  <2>3. \A q \in Process : q # p => proc[q].at \notin WriterStage \cup BatchStage
    BY <2>1, WriterAlone DEF TypeInv, WriterStage
  <2>4. proc' \in [Process -> Proc']
    BY <2>1 DEF TypeInv, Proc
  <2>5. Locks'
    BY <2>1 DEF TypeInv, Locks, WriterStage, BatchStage, locks
  <2>6. \A q \in Process : Journalled(q)'
    BY <2>1, <2>2, <2>3 DEF TypeInv, Journalled, At, WriterStage, BatchStage
  <2> QED
    BY <2>1, <2>4, <2>5, <2>6 DEF TypeInv, Entries, Audits
<1> QED
  BY <1>1, <1>2, <1>3, <1>4, <1>5, <1>6, <1>7, <1>8, <1>9 DEF WriterNext

\* A step of p that takes and frees no lock, and changes no entry.
LEMMA StageTypes ==
  ASSUME TypeInv, NEW p \in Process, NEW s \in Proc',
         proc' = [proc EXCEPT ![p] = s],
         \/ proc[p].at \in BatchStage /\ s.at \in BatchStage
         \/ /\ proc[p].at \notin WriterStage \cup BatchStage
            /\ s.at \notin WriterStage \cup BatchStage,
         s.at \in {"moving", "committed"} => s.request \in audited',
         UNCHANGED <<v2, marker, reclaims, settled, locks, changes>>,
         Audits', orders \subseteq orders', audited \subseteq audited'
  PROVE  TypeInv'
<1>1. proc' \in [Process -> Proc']
  BY ProcGrows DEF TypeInv
<1>2. Locks'
  BY DEF TypeInv, Locks, locks, WriterStage, BatchStage
<1>3. \A q \in Process : Journalled(q)'
  BY DEF TypeInv, Journalled, At, WriterStage, BatchStage
<1> QED
  BY <1>1, <1>2, <1>3 DEF TypeInv, Entries

\* The steps of readers keep the types.
LEMMA ReaderTypes ==
  ASSUME TypeInv, NEW p \in Process, ReaderNext(p)
  PROVE  TypeInv'
<1>1. CASE DiscoverCompactStores(p)
  <2> DEFINE s == [at |-> "reading", todo |-> Listed(v2), seen |-> [l \in Lineage |-> None]]
  <2>1. s \in Proc'
    BY DEF Proc, Listed, Authority!Listed, Graph, Entry
  <2>2. proc' = [proc EXCEPT ![p] = s] /\ UNCHANGED <<disk, locks, orders, changes>>
        /\ proc[p].at \notin WriterStage \cup BatchStage
    BY <1>1 DEF DiscoverCompactStores, Step, Free, WriterStage, BatchStage
  <2> HIDE DEF s
  <2>3. s.at \notin WriterStage \cup BatchStage
    BY DEF s, WriterStage, BatchStage
  <2>4. Audits' /\ UNCHANGED <<v2, marker, audited, reclaims, settled, locks, changes, orders>>
    BY <2>2 DEF TypeInv, Audits, disk
  <2> QED
    BY <2>1, <2>2, <2>3, <2>4, StageTypes DEF BatchStage
<1>2. CASE LoadFails(p)
  <2>1. Idle \in Proc' /\ Idle.at \notin WriterStage \cup BatchStage
    BY DEF Idle, Proc, WriterStage, BatchStage
  <2>2. proc' = [proc EXCEPT ![p] = Idle] /\ proc[p].at \notin WriterStage \cup BatchStage
    BY <1>2 DEF LoadFails, Step, At, WriterStage, BatchStage
  <2>3. Audits' /\ UNCHANGED <<v2, marker, audited, reclaims, settled, locks, changes, orders>>
    BY <1>2 DEF LoadFails, TypeInv, Audits, disk
  <2> QED
    BY <2>1, <2>2, <2>3, StageTypes DEF BatchStage
<1>3. ASSUME NEW l \in Lineage, Load(p, l)
      PROVE  TypeInv'
  <2> DEFINE s == [proc[p] EXCEPT !.todo = @ \ {l}, !.seen[l] = v2[l]]
  <2>1. proc[p] \in [at : {"reading"}, todo : SUBSET Lineage, seen : Graph]
    BY <1>3 DEF Load, At, TypeInv, Proc
  <2>2. v2[l] \in Entry
    BY DEF TypeInv, Entries, Graph
  <2>3. s \in [at : {"reading"}, todo : SUBSET Lineage, seen : Graph]
    BY <2>1, <2>2 DEF Graph
  <2>4. s \in Proc' /\ s.at \notin WriterStage \cup BatchStage
    BY <2>3 DEF Proc, WriterStage, BatchStage, Graph
  <2>5. proc' = [proc EXCEPT ![p] = s] /\ proc[p].at \notin WriterStage \cup BatchStage
    BY <1>3 DEF Load, Step, At, WriterStage, BatchStage
  <2>6. Audits' /\ UNCHANGED <<v2, marker, audited, reclaims, settled, locks, changes, orders>>
    BY <1>3 DEF Load, TypeInv, Audits, disk
  <2> HIDE DEF s
  <2> QED
    BY <2>4, <2>5, <2>6, StageTypes DEF BatchStage
<1> QED
  BY <1>1, <1>2, <1>3 DEF ReaderNext

\* The steps of batches keep the types.
LEMMA BatchTypes ==
  ASSUME TypeInv, NEW p \in Process, BatchNext(p)
  PROVE  TypeInv'
<1>1. ASSUME NEW by \in Authorization, PrepareCompactBatchReconciliation(p, by)
      PROVE  TypeInv'
  <2>1. Planned(v2, by) \in Ordered
    BY <1>1, PlannedOrdered DEF PrepareCompactBatchReconciliation, TypeInv, Entries
  <2>2. orders' = orders \cup {Planned(v2, by)} /\ UNCHANGED <<disk, locks, proc, changes>>
    BY <1>1 DEF PrepareCompactBatchReconciliation
  <2>3. proc' \in [Process -> Proc']
    BY <2>2, ProcGrows DEF TypeInv
  <2> QED
    BY <2>1, <2>2, <2>3 DEF TypeInv, Entries, Audits, Locks, Journalled, At, disk, locks
<1>2. ASSUME NEW r \in orders, Admit(p, r)
      PROVE  TypeInv'
  <2>1. /\ proc' = [proc EXCEPT ![p] = [at |-> "replaying", request |-> r]]
        /\ marker' = r /\ exclusive' = p /\ lock' = p /\ shared = {}
        /\ UNCHANGED <<v2, audited, committed, reclaims, settled, shared, orders, changes>>
    BY <1>2 DEF Admit, Step, ExclusiveFree
  <2>2. \A q \in Process : proc[q].at \notin WriterStage \cup BatchStage
    BY <1>2, NoneHolds DEF Admit, TypeInv
  <2>3. proc' \in [Process -> Proc']
    BY <2>1 DEF TypeInv, Proc
  <2>4. Locks'
    BY <2>1, <2>2, NamesAssumption DEF TypeInv, Locks, WriterStage, BatchStage
  <2>5. \A q \in Process : Journalled(q)'
    BY <2>1, <2>2 DEF TypeInv, Journalled, At, WriterStage, BatchStage
  <2> QED
    BY <2>1, <2>3, <2>4, <2>5 DEF TypeInv, Entries, Audits
<1>3. ASSUME NEW s \in {"moving", "committed"}, proc[p].at \in BatchStage,
             proc' = [proc EXCEPT ![p] = [at |-> s, request |-> proc[p].request]],
             UNCHANGED <<v2, marker, reclaims, settled, locks, changes, orders>>,
             Audits', audited \subseteq audited', proc[p].request \in audited'
      PROVE  TypeInv'
  <2>1. proc[p].request \in orders
    BY <1>3, Fields DEF TypeInv
  <2>2. [at |-> s, request |-> proc[p].request] \in Proc'
    BY <2>1, <1>3 DEF Proc
  <2> QED
    BY <1>3, <2>2, StageTypes DEF BatchStage
<1>4. proc[p].at \in BatchStage => proc[p].request \in orders
  BY Fields DEF TypeInv
<1>5. CASE BeginReplay(p)
  BY <1>3, <1>4, <1>5 DEF BeginReplay, PersistAudit, Step, At, TypeInv, Audits, BatchStage
<1>6. CASE ReplayCommitted(p)
  BY <1>3, <1>6 DEF ReplayCommitted, Step, At, TypeInv, Audits, BatchStage, disk
<1>7. CASE ClearMarker(p)
  <2>1. proc[p].at \in BatchStage
    BY <1>7 DEF ClearMarker, Committed, At, BatchStage
  <2> QED
    BY <1>7, <2>1, ReleaseTypes DEF ClearMarker, TypeInv, Entries, Audits
<1>8. ASSUME NEW l \in Lineage, MoveEntry(p, l)
      PROVE  TypeInv'
  <2>1. v2' \in Graph
    BY <1>8, WithoutType DEF MoveEntry, TypeInv, Entries
  <2>2. /\ proc[p].at \in BatchStage
        /\ UNCHANGED <<marker, audited, committed, reclaims, settled, locks, proc, orders, changes>>
    BY <1>8 DEF MoveEntry, At, BatchStage
  <2>3. \A q \in Process : proc[q].at \notin WriterStage
    BY <2>2, BatchAlone DEF TypeInv, BatchStage, WriterStage
  <2>4. \A q \in Process : Journalled(q)'
    BY <2>2, <2>3 DEF TypeInv, Journalled, At, WriterStage
  <2> QED
    BY <2>1, <2>2, <2>4 DEF TypeInv, Entries, Audits, Locks, Proc, locks
<1>9. CASE CommitBatch(p)
  <2>1. /\ At(p, "moving") /\ committed' = committed \cup {proc[p].request}
        /\ proc' = [proc EXCEPT ![p] = [at |-> "committed", request |-> proc[p].request]]
        /\ UNCHANGED <<v2, marker, audited, reclaims, settled, locks, orders, changes>>
    BY <1>9 DEF CommitBatch, Step
  <2>2. proc[p].request \in audited
    BY <2>1 DEF TypeInv, Journalled
  <2>3. Audits'
    BY <2>1, <2>2 DEF TypeInv, Audits
  <2> QED
    BY <1>3, <2>1, <2>2, <2>3 DEF At, BatchStage
<1> QED
  BY <1>1, <1>2, <1>5, <1>6, <1>7, <1>8, <1>9 DEF BatchNext

\* Every step keeps the types.
LEMMA TypeStep ==
  ASSUME TypeInv, [Next]_vars
  PROVE  TypeInv'
<1>1. ASSUME NEW p \in Process, Stop(p)
      PROVE  TypeInv'
  <2>1. proc[p].at \in WriterStage \cup BatchStage
    BY <1>1 DEF Stop, At, WriterStage, BatchStage
  <2> QED
    BY <1>1, <2>1, ReleaseTypes DEF Stop, TypeInv, Entries, Audits, disk
<1>2. CASE UNCHANGED vars
  BY <1>2 DEF TypeInv, Entries, Audits, Locks, Journalled, At, Proc, vars, disk, locks
<1> QED
  BY <1>1, <1>2, WriterTypes, ReaderTypes, BatchTypes DEF Next

\* A repository that no command has touched has its types.
LEMMA TypeInit ==
  ASSUME Init
  PROVE  TypeInv
<1>1. Entries
  BY HistoryAssumption, BoundAssumption DEF Init, Entries
<1>2. \A p \in Process : proc[p] = Idle /\ Idle.at = "idle"
  BY DEF Init, Idle
<1>3. proc \in [Process -> Proc]
  BY DEF Init, Idle, Proc
<1>4. Locks
  BY <1>2, NamesAssumption DEF Init, Locks, WriterStage, BatchStage
<1> QED
  BY <1>1, <1>2, <1>3, <1>4 DEF Init, TypeInv, Audits, Journalled, At

\* Every variable has its type and the locks are held as the stages of the
\* commands need them, whatever the processes, entries and histories are.
THEOREM TypeCorrect == Spec => []TypeOK
<1>1. TypeInv => TypeOK
  BY DEF TypeInv, TypeOK, Entries, Audits, Locks, WriterStage, BatchStage
<1> QED
  BY <1>1, TypeInit, TypeStep, PTL DEF Spec

-----------------------------------------------------------------------------
(* What a batch promises, and how it looks to readers.                      *)

\* What is left when the entry is taken can be read, or nothing was there.
Fit(l) == Readable(Without(v2, {l})) \/ Reclaimable(l)

Promise(p) ==
  /\ At(p, "recorded") => Fit(proc[p].lineage)
  /\ proc[p].at \in BatchStage => marker = proc[p].request
  /\ At(p, "committed") =>
       proc[p].request \in committed /\ Verified(proc[p].request)

MovesAudited ==
  \A r \in Request, l \in Lineage, e \in Entry : <<r, l, e>> \in moved => r \in audited

BatchInv ==
  /\ shared # {} => marker = None
  /\ MovesAudited
  /\ PreparedBatchIntact
  /\ UnfinishedIsMarked

\* The numbers of the records that are there have been given.
Given == \A l \in Loaded(v2) : v2[l].rev <= changes

IInv ==
  /\ TypeInv
  /\ BatchInv
  /\ \A p \in Process : Promise(p)
  /\ Authority!Linked(Visible)
  /\ Given

\* An entry stays fit to be taken while the graph does not change.
LEMMA SameFit ==
  ASSUME v2' = v2, NEW l \in Lineage
  PROVE  Fit(l)' <=> Fit(l)
  BY DEF Fit, Reclaimable, Readable, Without, Authority!Readable, Authority!Listed,
         Authority!Loaded, Authority!Valid, Authority!EdgeValid, Authority!Anchored,
         Authority!Successors, Authority!Without

\* A graph that has not changed is as readable as it was.
LEMMA SameReadable ==
  ASSUME v2' = v2
  PROVE  Readable(v2)' <=> Readable(v2)
  BY DEF Readable, Authority!Readable, Authority!Listed, Authority!Loaded, Authority!Valid,
         Authority!EdgeValid, Authority!Anchored, Authority!Successors

\* A graph that has not changed is linked as it was.
LEMMA SameLinked ==
  ASSUME Visible' = Visible
  PROVE  Authority!Linked(Visible)' <=> Authority!Linked(Visible)
  BY DEF Authority!Linked, Authority!Loaded

\* A graph of which the state holds is asked the same question as a graph.
LEMMA LinkedVisible ==
  ASSUME NEW g, Visible' = g, Authority!Linked(g)
  PROVE  Authority!Linked(Visible)'
  BY DEF Authority!Linked, Authority!Loaded

\* In a readable graph each review continues one that is there.
LEMMA ReadableLinked ==
  ASSUME NEW g \in Graph, Authority!Readable(g)
  PROVE  Authority!Linked(g)
<1>1. SUFFICES ASSUME NEW m \in Loaded(g), g[m].pred # None
               PROVE  g[m].pred \in Loaded(g) /\ g[m].predRev <= g[g[m].pred].rev
  BY DEF Authority!Linked, Loaded
<1>2. Authority!Anchored(g, m)
  BY <1>1 DEF Authority!Readable, Authority!Valid, Authority!EdgeValid, Loaded
<1>3. g[m].pred \in Loaded(g) /\ g[g[m].pred].rev = g[m].predRev
  BY <1>1, <1>2 DEF Authority!Anchored, Loaded
<1>4. g[m].predRev \in 0 .. MaxChanges
  BY LoadedRecord DEF Record
<1> QED
  BY <1>3, <1>4, BoundAssumption

\* A review may advance although it has been continued.
LEMMA LinkedAdvance ==
  ASSUME NEW g \in Graph, Authority!Linked(g), NEW l \in Loaded(g), NEW e \in Record,
         e.pred = g[l].pred, e.predRev = g[l].predRev, g[l].rev <= e.rev
  PROVE  Authority!Linked([g EXCEPT ![l] = e])
<1>1. PICK h : h = [g EXCEPT ![l] = e]
  OBVIOUS
<1>2. l \in Lineage /\ e \notin {None, Residue, Scraps, Hollow}
  BY LoadedRecord, RecordsAssumption
<1>3. \A m \in Lineage : h[m] = IF m = l THEN e ELSE g[m]
  BY <1>1 DEF Graph
<1>4. Loaded(h) = Loaded(g)
  BY <1>2, <1>3 DEF Loaded, Authority!Loaded
<1>5. ASSUME NEW m \in Loaded(h), h[m].pred # None
      PROVE  h[m].pred \in Loaded(h) /\ h[m].predRev <= h[h[m].pred].rev
  <2>1. m \in Loaded(g) /\ m \in Lineage /\ g[m] \in Record
    BY <1>4, LoadedRecord
  <2>2. h[m].pred = g[m].pred /\ h[m].predRev = g[m].predRev
    BY <1>3, <2>1
  <2>3. PICK d : d = g[m].pred
    OBVIOUS
  <2>4. d \in Loaded(g) /\ g[m].predRev <= g[d].rev
    BY <1>5, <2>1, <2>2, <2>3 DEF Authority!Linked, Loaded
  <2>5. d \in Lineage /\ g[d] \in Record
    BY <2>4, LoadedRecord
  <2>6. g[m].predRev \in Int /\ g[d].rev \in Int /\ e.rev \in Int
    BY <2>1, <2>5 DEF Record
  <2>7. CASE d = l
    <3>1. h[d].rev = e.rev
      BY <1>3, <2>5, <2>7
    <3> QED
      BY <1>4, <2>2, <2>3, <2>4, <2>6, <2>7, <3>1
  <2>8. CASE d # l
    <3>1. h[d] = g[d]
      BY <1>3, <2>5, <2>8
    <3> QED
      BY <1>4, <2>2, <2>3, <2>4, <3>1
  <2> QED
    BY <2>7, <2>8
<1> QED
  BY <1>1, <1>5 DEF Authority!Linked, Loaded

\* An entry without a review may go.
LEMMA LinkedReclaim ==
  ASSUME NEW g, Authority!Linked(g), NEW l, l \notin Loaded(g)
  PROVE  Authority!Linked(Without(g, {l}))
<1>1. PICK h : h = Without(g, {l})
  OBVIOUS
<1>2. \A m \in Lineage : h[m] = IF m = l THEN None ELSE g[m]
  BY <1>1 DEF Without, Authority!Without
<1>3. Loaded(h) = Loaded(g) /\ \A m \in Loaded(g) : h[m] = g[m]
  BY <1>2 DEF Loaded, Authority!Loaded
<1>4. Authority!Linked(h)
  BY <1>3 DEF Authority!Linked, Loaded
<1> QED
  BY <1>1, <1>4

\* A new review beside a valid graph, or after a leaf of it, leaves it valid.
LEMMA ValidWrite ==
  ASSUME NEW g \in Graph, Authority!Valid(g), NEW l \in Lineage, l \notin Loaded(g), NEW e,
         e \notin {None, Residue, Scraps, Hollow} /\ e.pred # None =>
           /\ e.pred \in Loaded(g) /\ g[e.pred].rev = e.predRev /\ e.edge = "valid"
           /\ Successors(g, e.pred) = {}
  PROVE  Authority!Valid([g EXCEPT ![l] = e])
<1>1. PICK h : h = [g EXCEPT ![l] = e]
  OBVIOUS
<1>2. \A m \in Lineage : h[m] = IF m = l THEN e ELSE g[m]
  BY <1>1 DEF Graph
<1>3. \A m \in Lineage : m # l => (m \in Loaded(h) <=> m \in Loaded(g))
  BY <1>2 DEF Loaded, Authority!Loaded
<1>4. \A m \in Loaded(h) : m \in Lineage /\ h[m] \notin {None, Residue, Scraps, Hollow}
  BY DEF Loaded, Authority!Loaded
<1>5. \A m \in Loaded(g) : m \in Lineage /\ m # l /\ g[m] \notin {None, Residue, Scraps, Hollow}
  BY DEF Loaded, Authority!Loaded
<1>6. SUFFICES ASSUME NEW m \in Loaded(h), h[m].pred # None
               PROVE  Authority!EdgeValid(h, m)
  BY <1>1 DEF Authority!Valid, Authority!EdgeValid, Loaded
<1>7. CASE m = l
  <2>1. /\ e.pred \in Loaded(g) /\ g[e.pred].rev = e.predRev /\ e.edge = "valid"
        /\ Successors(g, e.pred) = {} /\ h[m] = e
    BY <1>2, <1>4, <1>6, <1>7
  <2>2. e.pred \in Lineage /\ e.pred # l /\ h[e.pred] = g[e.pred] /\ e.pred \in Loaded(h)
    BY <1>2, <1>3, <1>5, <2>1
  <2>3. Successors(h, e.pred) = {m}
    <3>1. ASSUME NEW k \in Successors(h, e.pred), k # l PROVE FALSE
      <4>1. k \in Loaded(h) /\ h[k].pred = e.pred
        BY <3>1 DEF Successors, Authority!Successors, Loaded
      <4>2. k \in Successors(g, e.pred)
        BY <1>2, <1>3, <1>4, <3>1, <4>1 DEF Successors, Authority!Successors, Loaded
      <4> QED
        BY <2>1, <4>2
    <3>2. m \in Successors(h, e.pred)
      BY <1>6, <2>1 DEF Successors, Authority!Successors, Loaded
    <3> QED
      BY <1>7, <3>1, <3>2
  <2> QED
    BY <2>1, <2>2, <2>3 DEF Authority!EdgeValid, Authority!Anchored, Successors, Loaded
<1>8. CASE m # l
  <2>1. m \in Loaded(g) /\ h[m] = g[m] /\ g[m].pred # None
    BY <1>2, <1>3, <1>4, <1>6, <1>8
  <2>2. /\ g[m].pred \in Loaded(g) /\ g[g[m].pred].rev = g[m].predRev
        /\ g[m].edge = "valid" /\ Successors(g, g[m].pred) = {m}
    BY <2>1 DEF Authority!Valid, Authority!EdgeValid, Authority!Anchored, Loaded, Successors
  <2>3. g[m].pred \in Lineage /\ g[m].pred # l /\ h[g[m].pred] = g[g[m].pred]
        /\ g[m].pred \in Loaded(h)
    BY <1>2, <1>3, <1>5, <2>2
  <2>4. Successors(h, g[m].pred) = {m}
    <3>1. ASSUME NEW k \in Successors(h, g[m].pred), k # m PROVE FALSE
      <4>1. k \in Loaded(h) /\ h[k].pred = g[m].pred
        BY <3>1 DEF Successors, Authority!Successors, Loaded
      <4>2. k # l
        <5>1. SUFFICES ASSUME k = l PROVE FALSE
          OBVIOUS
        <5>2. h[k] = e /\ e \notin {None, Residue, Scraps, Hollow}
          BY <1>2, <1>4, <4>1, <5>1
        <5>3. Successors(g, e.pred) = {} /\ e.pred = g[m].pred
          BY <2>1, <4>1, <5>2
        <5> QED
          BY <2>2, <5>3
      <4>3. k \in Successors(g, g[m].pred)
        BY <1>2, <1>3, <1>4, <4>1, <4>2 DEF Successors, Authority!Successors, Loaded
      <4> QED
        BY <2>2, <3>1, <4>3
    <3>2. m \in Successors(h, g[m].pred)
      BY <1>6, <2>1 DEF Successors, Authority!Successors, Loaded
    <3> QED
      BY <3>1, <3>2
  <2> QED
    BY <2>1, <2>2, <2>3, <2>4 DEF Authority!EdgeValid, Authority!Anchored, Successors, Loaded
<1> QED
  BY <1>7, <1>8

\* A step keeps the promises, and is one of the graph or does not show.
Kept ==
  /\ BatchInv'
  /\ \A p \in Process : Promise(p)'
  /\ Authority!Linked(Visible)'
  /\ [Authority!Next]_Visible

\* While a writer works no batch is prepared.
LEMMA WriterSees ==
  ASSUME IInv, NEW p \in Process, proc[p].at \in WriterStage
  PROVE  /\ marker = None /\ Visible = v2
         /\ \A q \in Process : q # p => proc[q].at \notin WriterStage \cup BatchStage
         /\ Authority!Linked(v2)
<1>1. shared # {}
  BY WriterAlone DEF IInv, TypeInv
<1>2. marker = None
  BY <1>1 DEF IInv, BatchInv
<1>3. Visible = v2
  BY <1>2 DEF Visible
<1> QED
  BY <1>2, <1>3, WriterAlone DEF IInv, TypeInv

\* As long as no batch is prepared there is nothing to promise for one.
LEMMA NoBatch ==
  ASSUME BatchInv, marker = None, marker' = None, UNCHANGED <<audited, committed>>,
         MovesAudited'
  PROVE  BatchInv' /\ Visible' = v2'
  BY DEF BatchInv, PreparedBatchIntact, UnfinishedIsMarked, Visible

\* Nobody has anything to promise once the only holder has released its locks.
LEMMA ReleasedPromises ==
  ASSUME IInv, NEW p \in Process, proc[p].at \in WriterStage \cup BatchStage, Release(p)
  PROVE  \A q \in Process : Promise(q)'
<1>1. \A q \in Process : proc'[q].at \notin WriterStage \cup BatchStage
  BY WriterAlone, BatchAlone DEF Release, Step, IInv, TypeInv, Idle, WriterStage, BatchStage
<1> QED
  BY <1>1 DEF Promise, At, WriterStage, BatchStage

\* A review begins, or what should have become one is left, and the writer
\* returns.
LEMMA CreateKept ==
  ASSUME IInv, NEW p \in Process, At(p, "holding"),
         NEW l \in Lineage, Unused(l), Readable(v2),
         NEW e \in Entry \ {None, Residue}, v2' = [v2 EXCEPT ![l] = e],
         e \notin {None, Residue, Scraps, Hollow} /\ e.pred # None =>
           /\ e.pred \in Loaded(v2) /\ v2[e.pred].rev = e.predRev /\ e.edge = "valid"
           /\ Successors(v2, e.pred) = {},
         Release(p), UNCHANGED <<marker, audited, committed, moved>>
  PROVE  Kept
<1>1. marker = None /\ Visible = v2 /\ v2 \in Graph /\ proc[p].at \in WriterStage
  BY WriterSees DEF IInv, TypeInv, Entries, At, WriterStage
<1>2. MovesAudited'
  BY DEF IInv, BatchInv, MovesAudited
<1>3. BatchInv' /\ Visible' = v2'
  BY <1>1, <1>2, NoBatch DEF IInv
<1>4. PICK h : h = [v2 EXCEPT ![l] = e]
  OBVIOUS
<1>5. h \in Graph /\ \A m \in Lineage : h[m] = IF m = l THEN e ELSE v2[m]
  BY <1>1, <1>4 DEF Graph
<1>6. v2[l] \in {None, Scraps, Hollow} /\ l \notin Loaded(v2)
  BY DEF Unused, Loaded, Authority!Loaded
<1>7. Authority!Valid(h)
  BY <1>1, <1>4, <1>6, ValidWrite DEF Readable, Authority!Readable
<1>8. Authority!Listed(h) = Authority!Loaded(h)
  BY <1>5 DEF Readable, Authority!Readable, Authority!Listed, Authority!Loaded
<1>9. Authority!Readable(h) /\ Authority!Linked(h)
  BY <1>5, <1>7, <1>8, ReadableLinked DEF Authority!Readable
<1>10. Authority!Linked(Visible)'
  BY <1>3, <1>4, <1>9, LinkedVisible
<1>11. Authority!Create(l)
  BY <1>1, <1>3, <1>4, <1>5, <1>6, <1>9 DEF Authority!Create, Readable
<1> QED
  BY <1>1, <1>3, <1>10, <1>11, ReleasedPromises DEF Kept, Authority!Next

\* The steps of writers keep the promises and write or take one entry.
LEMMA WriterKept ==
  ASSUME IInv, NEW p \in Process, WriterNext(p)
  PROVE  Kept
<1>1. CASE Enter(p)
  <2>1. /\ marker = None /\ exclusive = None /\ lock = None
        /\ proc' = [proc EXCEPT ![p] = [at |-> "holding"]]
        /\ UNCHANGED <<v2, marker, audited, committed, moved>>
    BY <1>1 DEF Enter, SharedAdmitted, NoPreparedBatch, Step, disk
  <2>2. \A q \in Process : proc[q].at \notin WriterStage \cup BatchStage
    BY <2>1, NamesAssumption DEF IInv, TypeInv, Locks
  <2>3. \A q \in Process : Promise(q)'
    BY <2>1, <2>2 DEF IInv, TypeInv, Promise, At, WriterStage, BatchStage
  <2>4. BatchInv' /\ Visible' = v2'
    BY <2>1, NoBatch DEF IInv, BatchInv, MovesAudited
  <2>5. Visible' = Visible
    BY <2>1, <2>4 DEF Visible
  <2> QED
    BY <2>3, <2>4, <2>5, SameLinked DEF Kept, IInv
<1>2. CASE QuarantineEntry(p)
  <2> DEFINE l == proc[p].lineage
  <2>1. /\ At(p, "recorded") /\ v2' = Without(v2, {l})
        /\ moved' = moved \cup {<<None, l, v2[l]>>}
        /\ proc' = [proc EXCEPT ![p] = [at |-> "taken", lineage |-> l, entry |-> v2[l]]]
        /\ UNCHANGED <<marker, audited, committed>>
    BY <1>2 DEF QuarantineEntry, Step
  <2>2. l \in Lineage /\ v2 \in Graph
    BY <2>1, Fields DEF At, IInv, TypeInv, Entries
  <2>3. /\ marker = None /\ Visible = v2 /\ Authority!Linked(v2)
        /\ \A q \in Process : q # p => proc[q].at \notin WriterStage \cup BatchStage
    BY <2>1, WriterSees DEF At, WriterStage
  <2>4. MovesAudited'
    BY <2>1, RecordsAssumption DEF IInv, BatchInv, MovesAudited
  <2>5. BatchInv' /\ Visible' = v2'
    BY <2>1, <2>3, <2>4, NoBatch DEF IInv
  <2>6. \A q \in Process : Promise(q)'
    BY <2>1, <2>3 DEF IInv, TypeInv, Promise, At, WriterStage, BatchStage
  <2>7. CASE Readable(Without(v2, {l}))
    <3>1. Authority!Readable(Visible')
      BY <2>1, <2>5, <2>7
      DEF Readable, Authority!Readable, Authority!Listed, Authority!Loaded, Authority!Valid,
          Authority!EdgeValid, Authority!Anchored, Authority!Successors
    <3>2. Authority!Linked(Visible)'
      BY <2>1, <2>2, <2>5, <2>7, WithoutType, ReadableLinked, LinkedVisible DEF Readable
    <3>3. Visible' = Authority!Without(Visible, {l})
      BY <2>1, <2>3, <2>5 DEF Without
    <3>4. Authority!Quarantine({l})
      BY <3>1, <3>3 DEF Authority!Quarantine
    <3> QED
      BY <2>2, <2>5, <2>6, <3>2, <3>4 DEF Kept, Authority!Next
  <2>8. CASE Reclaimable(l)
    <3>1. v2[l] \in {Residue, Hollow} /\ l \notin Loaded(v2)
      BY <2>8 DEF Reclaimable, Loaded, Authority!Loaded
    <3>2. Authority!Linked(Without(v2, {l}))
      BY <2>3, <3>1, LinkedReclaim
    <3>3. Authority!Linked(Visible)'
      BY <2>1, <2>5, <3>2, LinkedVisible
    <3>4. Authority!Reclaim(l)
      BY <2>1, <2>3, <2>5, <3>1 DEF Authority!Reclaim, Without
    <3> QED
      BY <2>2, <2>5, <2>6, <3>3, <3>4 DEF Kept, Authority!Next
  <2> QED
    BY <2>1, <2>7, <2>8 DEF IInv, Promise, Fit
<1>3. ASSUME proc[p].at \in WriterStage \cup BatchStage, Release(p),
             UNCHANGED <<v2, marker, audited, committed, moved>>,
             shared' # {} => marker = None
      PROVE  Kept
  <2>1. BatchInv'
    BY <1>3 DEF IInv, BatchInv, MovesAudited, PreparedBatchIntact, UnfinishedIsMarked, Batch
  <2>2. Visible' = Visible
    BY <1>3 DEF Visible
  <2> QED
    BY <1>3, <2>1, <2>2, ReleasedPromises, SameLinked DEF Kept, IInv
<1>4. ASSUME proc[p].at \in WriterStage \cup BatchStage, Release(p)
      PROVE  shared' = {}
  BY <1>4, ReleaseLocks DEF IInv, TypeInv
<1>5. CASE SettleQuarantine(p)
  BY <1>3, <1>4, <1>5 DEF SettleQuarantine, At, WriterStage
<1>6. CASE Refuse(p)
  <2>1. proc[p].at \in WriterStage \cup BatchStage
    BY <1>6 DEF Refuse, Stuck, At, WriterStage, BatchStage
  <2> QED
    BY <1>3, <1>4, <1>6, <2>1 DEF Refuse, disk
<1>7. ASSUME At(p, "holding"), NEW l \in Lineage, NEW q \in Loaded(v2) \cup {None},
             Unused(l), Readable(v2), q # None => Successors(v2, q) = {}, Publish(p, l, q)
      PROVE  Kept
  <2>1. PICK e : e = [rev |-> changes + 1, pred |-> q,
                      predRev |-> IF q = None THEN 0 ELSE v2[q].rev, edge |-> "valid"]
    OBVIOUS
  <2>2. v2' = [v2 EXCEPT ![l] = e]
    BY <1>7, <2>1 DEF Publish
  <2>3. e \in Entry \ {None, Residue}
    <3>1. changes + 1 \in 0 .. MaxChanges
      BY <1>7, BoundAssumption DEF Publish, IInv, TypeInv, Entries
    <3>2. q # None => v2[q].rev \in 0 .. MaxChanges /\ q \in Lineage
      BY <1>7, LoadedRecord DEF IInv, TypeInv, Entries, Record
    <3>3. e \in Record
      BY <2>1, <3>1, <3>2, BoundAssumption DEF Record
    <3> QED
      BY <3>3, RecordsAssumption DEF Entry
  <2>4. e.pred # None =>
          /\ e.pred \in Loaded(v2) /\ v2[e.pred].rev = e.predRev /\ e.edge = "valid"
          /\ Successors(v2, e.pred) = {}
    BY <1>7, <2>1
  <2>5. Release(p) /\ UNCHANGED <<marker, audited, committed, moved>>
    BY <1>7 DEF Publish
  <2> QED
    BY <1>7, <2>2, <2>3, <2>4, <2>5, CreateKept
<1>8. ASSUME NEW l \in Lineage, StartCompactAuthority(p, l)
      PROVE  Kept
  BY <1>7, <1>8 DEF StartCompactAuthority
<1>9. ASSUME NEW l \in Lineage, NEW m \in Lineage, RecoverCompactAuthority(p, l, m)
      PROVE  Kept
  BY <1>7, <1>9 DEF RecoverCompactAuthority
<1>10. ASSUME NEW l \in Lineage, ReplaceContext(p, l)
       PROVE  Kept
  <2>1. /\ At(p, "holding") /\ proc[p].at \in WriterStage /\ l \in Loaded(v2)
        /\ v2' = [v2 EXCEPT ![l].rev = changes + 1]
        /\ Release(p) /\ UNCHANGED <<marker, audited, committed, moved>>
    BY <1>10 DEF ReplaceContext, At, WriterStage
  <2>2. /\ Authority!Linked(v2) /\ marker = None /\ Visible = v2 /\ v2 \in Graph
        /\ v2[l] \in Record
    BY <2>1, WriterSees, LoadedRecord DEF IInv, TypeInv, Entries
  <2>3. /\ changes + 1 \in 0 .. MaxChanges /\ v2[l].rev < changes + 1
    BY <1>10, <2>1, <2>2, BoundAssumption
    DEF ReplaceContext, IInv, TypeInv, Entries, Given, Record
  <2>4. PICK e : e = [v2[l] EXCEPT !.rev = changes + 1]
    OBVIOUS
  <2>5. e \in Record /\ e.pred = v2[l].pred /\ e.predRev = v2[l].predRev /\ e.rev = changes + 1
    BY <2>2, <2>3, <2>4 DEF Record
  <2>6. v2' = [v2 EXCEPT ![l] = e] /\ v2'[l] = e /\ l \in Lineage
    BY <2>1, <2>2, <2>4, LoadedRecord DEF Graph
  <2>7. Authority!Linked([v2 EXCEPT ![l] = e])
    <3>1. v2[l].rev <= e.rev
      BY <2>2, <2>3, <2>5 DEF Record
    <3> QED
      BY <2>1, <2>2, <2>5, <3>1, LinkedAdvance
  <2>8. BatchInv' /\ Visible' = v2'
    BY <2>1, <2>2, NoBatch DEF IInv, BatchInv, MovesAudited
  <2>9. Authority!Linked(Visible)'
    BY <2>6, <2>7, <2>8, LinkedVisible
  <2>10. Authority!Advance(l)
    <3>1. l \in Authority!Loaded(Visible) /\ l \in Authority!Loaded(Visible')
      BY <2>1, <2>2, <2>5, <2>6, <2>8, RecordsAssumption DEF Loaded, Authority!Loaded
    <3>2. Visible[l].rev < Visible'[l].rev
      BY <2>2, <2>3, <2>5, <2>6, <2>8
    <3>3. Visible' = [Visible EXCEPT ![l].rev = Visible'[l].rev]
      BY <2>1, <2>2, <2>5, <2>6, <2>8
    <3> QED
      BY <3>1, <3>2, <3>3 DEF Authority!Advance
  <2> QED
    BY <2>1, <2>6, <2>8, <2>9, <2>10, ReleasedPromises DEF Kept, Authority!Next
<1>11. ASSUME NEW l \in Lineage, KilledStart(p, l)
       PROVE  Kept
  <2>1. PICK left \in {Hollow, Scraps} : v2' = [v2 EXCEPT ![l] = left]
    BY <1>11 DEF KilledStart
  <2>2. /\ At(p, "holding") /\ Unused(l) /\ Readable(v2)
        /\ Release(p) /\ UNCHANGED <<marker, audited, committed, moved>>
    BY <1>11 DEF KilledStart, Unused
  <2>3. left \in Entry \ {None, Residue} /\ left \in {None, Residue, Scraps, Hollow}
    BY RecordsAssumption DEF Entry
  <2> QED
    BY <2>1, <2>2, <2>3, CreateKept
<1>12. ASSUME NEW l \in Lineage, PrepareQuarantine(p, l)
       PROVE  Kept
  <2>1. At(p, "holding") /\ (Reconcilable(l) \/ Reclaimable(l))
    BY <1>12 DEF PrepareQuarantine
  <2>2. /\ proc' = [proc EXCEPT ![p] = [at |-> "recorded", lineage |-> l]]
        /\ UNCHANGED <<v2, marker, audited, committed, moved, shared>>
    BY <1>12 DEF PrepareQuarantine, Step, locks
  <2>3. Fit(l)
    BY <2>1 DEF Fit, Reconcilable, EdgeReconcilable, Readable, Authority!Readable, Listed,
                Loaded, Without, Authority!Listed, Authority!Loaded, Authority!Without
  <2>4. /\ marker = None /\ Visible = v2
        /\ \A q \in Process : q # p => proc[q].at \notin WriterStage \cup BatchStage
    BY <2>1, WriterSees DEF At, WriterStage
  <2>5. Fit(l)'
    BY <2>2, <2>3, SameFit
  <2>6. \A q \in Process : Promise(q)'
    <3>1. ASSUME NEW q \in Process, q # p
          PROVE  Promise(q)'
      BY <2>2, <2>4, <3>1 DEF IInv, TypeInv, Promise, At, WriterStage, BatchStage
    <3>2. Promise(p)'
      <4>1. proc'[p].at = "recorded" /\ proc'[p].lineage = l
        BY <2>2 DEF IInv, TypeInv
      <4>2. Fit(proc[p].lineage)'
        BY <4>1, <2>5 DEF Fit, Reclaimable
      <4> QED
        BY <4>1, <4>2 DEF Promise, At, BatchStage
    <3> QED
      BY <3>1, <3>2
  <2>7. BatchInv' /\ Visible' = v2'
    BY <2>2, <2>4, NoBatch DEF IInv, BatchInv, MovesAudited
  <2>8. Visible' = Visible
    BY <2>2, <2>4, <2>7
  <2> QED
    BY <2>6, <2>7, <2>8, SameLinked DEF Kept, IInv
<1> QED
  BY <1>1, <1>2, <1>5, <1>6, <1>8, <1>9, <1>10, <1>11, <1>12 DEF WriterNext

\* A step that changes nothing a batch or a reader depends on.
LEMMA FrameKept ==
  ASSUME IInv,
         \A q \in Process :
           proc'[q] = proc[q] \/ proc'[q].at \notin WriterStage \cup BatchStage,
         UNCHANGED <<v2, marker, audited, committed, moved, shared>>
  PROVE  Kept
<1>1. BatchInv'
  BY DEF IInv, BatchInv, MovesAudited, PreparedBatchIntact, UnfinishedIsMarked, Batch
<1>2. Visible' = Visible
  BY DEF Visible
<1>3. ASSUME NEW q \in Process
      PROVE  Promise(q)'
  <2>1. Promise(q)
    BY <1>3 DEF IInv
  <2>2. Readable(v2)' <=> Readable(v2)
    BY SameReadable
  <2>3. CASE proc'[q].at \notin WriterStage \cup BatchStage
    BY <2>3 DEF Promise, At, WriterStage, BatchStage
  <2>4. CASE proc'[q] = proc[q]
    <3>1. At(q, "recorded")' => Fit(proc[q].lineage)'
      BY <2>1, <2>4, SameFit, Fields DEF Promise, At, IInv, TypeInv, Fit, Reclaimable
    <3> QED
      BY <2>1, <2>2, <2>4, <3>1 DEF Promise, At, Verified, Batch
  <2> QED
    BY <2>3, <2>4
<1> QED
  BY <1>1, <1>2, <1>3, SameLinked DEF Kept, IInv

\* The steps of readers keep the promises and do not show.
LEMMA ReaderKept ==
  ASSUME IInv, NEW p \in Process, ReaderNext(p)
  PROVE  Kept
<1>1. CASE DiscoverCompactStores(p)
  BY <1>1, FrameKept DEF DiscoverCompactStores, Step, IInv, TypeInv, disk, locks, WriterStage, BatchStage
<1>2. CASE LoadFails(p)
  BY <1>2, FrameKept DEF LoadFails, Step, Idle, IInv, TypeInv, disk, locks, WriterStage, BatchStage
<1>3. ASSUME NEW l \in Lineage, Load(p, l)
      PROVE  Kept
  <2> DEFINE s == [proc[p] EXCEPT !.todo = @ \ {l}, !.seen[l] = v2[l]]
  <2>1. proc[p] \in [at : {"reading"}, todo : SUBSET Lineage, seen : Graph]
    BY <1>3 DEF Load, At, IInv, TypeInv, Proc
  <2>2. s.at \notin WriterStage \cup BatchStage
    BY <2>1 DEF WriterStage, BatchStage
  <2>3. proc' = [proc EXCEPT ![p] = s]
        /\ UNCHANGED <<v2, marker, audited, committed, moved, shared>>
    BY <1>3 DEF Load, Step, disk, locks
  <2> HIDE DEF s
  <2> QED
    BY <2>2, <2>3, FrameKept DEF IInv, TypeInv
<1> QED
  BY <1>1, <1>2, <1>3 DEF ReaderNext

\* What a current plan announces is what is there.
LEMMA CurrentPlan ==
  ASSUME NEW r \in Request, v2 \in Graph, PlanCurrent(r), NEW l \in Lineage
  PROVE  v2[l] = IF l \in Batch(r) THEN r.move[l] ELSE r.keep[l]
<1>1. /\ r.keep = Without(v2, Suffixes(v2))
      /\ r.move = Authority!Only(v2, Suffixes(v2))
  BY DEF PlanCurrent, Planned
<1>2. l \in Suffixes(v2) => v2[l] # None
  BY DEF Suffixes, Loaded, Authority!Loaded
<1> QED
  BY <1>1, <1>2 DEF Without, Authority!Without, Authority!Only, Batch

\* The holder of the exclusive lock works for the request in the marker.
LEMMA BatchSees ==
  ASSUME IInv, NEW p \in Process, proc[p].at \in BatchStage
  PROVE  /\ proc[p].request \in Request /\ proc[p].request \in orders
         /\ Batch(proc[p].request) # {}
         /\ marker = proc[p].request /\ marker # None /\ shared = {}
         /\ \A q \in Process : q # p => proc[q].at \notin WriterStage \cup BatchStage
<1>1. proc[p].request \in orders
  BY Fields DEF IInv, TypeInv
<1>2. proc[p].request \in Ordered
  BY <1>1 DEF IInv, TypeInv, Audits
<1> QED
  BY <1>1, <1>2, RecordsAssumption, BatchAlone DEF Ordered, IInv, TypeInv, Promise

\* A batch that is admitted does not show yet: its plan is what is there.
LEMMA AdmitKept ==
  ASSUME IInv, NEW p \in Process, NEW r \in orders, Admit(p, r)
  PROVE  Kept
<1>1. /\ proc' = [proc EXCEPT ![p] = [at |-> "replaying", request |-> r]]
      /\ marker' = r /\ shared' = {}
      /\ UNCHANGED <<v2, audited, committed, moved>>
  BY DEF Admit, Step, ExclusiveFree
<1>2. r \in Request /\ audited \subseteq Request /\ v2 \in Graph
  BY DEF IInv, TypeInv, Audits, Ordered, Entries
<1>3. \A q \in Process : Promise(q)'
  <2>1. \A q \in Process : proc[q].at \notin WriterStage \cup BatchStage
    BY NoneHolds DEF Admit, IInv, TypeInv
  <2> QED
    BY <1>1, <2>1 DEF IInv, TypeInv, Promise, At, WriterStage, BatchStage
<1>4. marker = r \/ (marker = None /\ r \notin audited /\ PlanCurrent(r))
  BY <1>2, RecordsAssumption DEF Admit, IInv, BatchInv, UnfinishedIsMarked
<1>5. UnfinishedIsMarked'
  BY <1>1, <1>2, <1>4, RecordsAssumption DEF IInv, BatchInv, UnfinishedIsMarked
<1>6. CASE marker = r
  <2>1. BatchInv'
    BY <1>1, <1>5, <1>6 DEF IInv, BatchInv, MovesAudited, PreparedBatchIntact, Batch
  <2>2. Visible' = Visible
    BY <1>1, <1>6 DEF Visible
  <2> QED
    BY <1>3, <2>1, <2>2, SameLinked DEF Kept, IInv
<1>7. CASE marker = None /\ r \notin audited /\ PlanCurrent(r)
  <2>1. \A l \in Lineage : v2[l] = IF r.move[l] # None THEN r.move[l] ELSE r.keep[l]
    BY <1>2, <1>7, CurrentPlan DEF Batch
  <2>2. \A l \in Lineage : r.move[l] \in Entry
    BY <1>2 DEF Request, Graph
  <2>3. \A l \in Lineage : <<r, l, r.move[l]>> \notin moved
    BY <1>2, <1>7, <2>2 DEF IInv, BatchInv, MovesAudited
  <2>4. PreparedBatchIntact'
    BY <1>1, <2>1, <2>3 DEF PreparedBatchIntact, Batch
  <2>5. BatchInv'
    BY <1>1, <1>5, <2>4 DEF IInv, BatchInv, MovesAudited
  <2>6. Visible = v2
    BY <1>7 DEF Visible
  <2>7. Visible' = [l \in Lineage |-> IF r.move[l] # None THEN r.move[l] ELSE r.keep[l]]
    BY <1>1, <1>2, RecordsAssumption DEF Visible
  <2>8. Visible' = Visible
    BY <1>2, <2>1, <2>6, <2>7 DEF Graph
  <2> QED
    BY <1>3, <2>5, <2>8, SameLinked DEF Kept, IInv
<1> QED
  BY <1>4, <1>6, <1>7

\* A step within a batch: the rest of its holder's promise is for the caller.
LEMMA WithinBatchKept ==
  ASSUME IInv, NEW p \in Process, proc[p].at \in BatchStage,
         NEW s, proc' = [proc EXCEPT ![p] = s], s.request = proc[p].request,
         s.at \in BatchStage,
         s.at = "committed" =>
           /\ s.request \in committed' /\ v2' = s.request.keep /\ Readable(v2)'
           /\ \A l \in Batch(s.request) : <<s.request, l, s.request.move[l]>> \in moved',
         UNCHANGED <<marker, shared>>, MovesAudited', PreparedBatchIntact',
         audited' \ committed' \subseteq (audited \ committed) \cup {s.request}
  PROVE  Kept
<1>1. /\ marker = s.request /\ shared = {}
      /\ \A q \in Process : q # p => proc[q].at \notin WriterStage \cup BatchStage
  BY BatchSees
<1>2. BatchInv'
  BY <1>1 DEF IInv, BatchInv, UnfinishedIsMarked
<1>3. \A q \in Process : Promise(q)'
  BY <1>1 DEF IInv, TypeInv, Promise, At, Verified, Batch, WriterStage, BatchStage
<1>4. Visible' = Visible
  <2>1. marker # None
    BY BatchSees
  <2> QED
    BY <2>1 DEF Visible
<1> QED
  BY <1>2, <1>3, <1>4, SameLinked DEF Kept, IInv

\* When the marker goes the whole batch is seen at once.
LEMMA ClearMarkerKept ==
  ASSUME IInv, NEW p \in Process, ClearMarker(p)
  PROVE  Kept
<1> DEFINE r == proc[p].request
<1>1. /\ proc[p].at = "committed" /\ marker' = None /\ Release(p)
      /\ UNCHANGED <<v2, audited, committed, moved>>
  BY DEF ClearMarker, Committed, At
<1>2. r \in Request /\ Batch(r) # {} /\ marker = r /\ marker # None
  BY <1>1, BatchSees DEF BatchStage
<1>3. /\ r \in committed /\ v2 = r.keep /\ Readable(v2)
      /\ \A l \in Batch(r) : <<r, l, r.move[l]>> \in moved
  BY <1>1 DEF IInv, Promise, At, Verified
<1>4. BatchInv'
  <2>1. shared' = {}
    BY <1>1, ReleaseLocks DEF IInv, TypeInv, BatchStage
  <2> QED
    BY <1>1, <1>2, <1>3, <2>1
    DEF IInv, BatchInv, MovesAudited, PreparedBatchIntact, UnfinishedIsMarked
<1>5. \A q \in Process : Promise(q)'
  BY <1>1, ReleasedPromises DEF BatchStage
<1>6. Visible' = v2
  BY <1>1 DEF Visible
<1>7. Visible' = Authority!Without(Visible, Batch(r))
  <2>1. \A l \in Batch(r) : l \in Lineage /\ v2[l] = None
    BY <1>2, <1>3 DEF IInv, BatchInv, PreparedBatchIntact, Batch
  <2>2. \A l \in Lineage : l \notin Batch(r) => Visible[l] = r.keep[l]
    BY <1>2 DEF Visible, Batch
  <2>3. v2 \in Graph
    BY DEF IInv, TypeInv, Entries
  <2> QED
    BY <1>3, <1>6, <2>1, <2>2, <2>3 DEF Authority!Without, Graph
<1>8. Authority!Readable(Visible')
  BY <1>3, <1>6 DEF Readable, Authority!Readable, Authority!Listed, Authority!Loaded,
    Authority!Valid, Authority!EdgeValid, Authority!Anchored, Authority!Successors
<1>9. Authority!Linked(Visible)'
  BY <1>3, <1>6, ReadableLinked, LinkedVisible DEF Readable, IInv, TypeInv, Entries
<1>10. Authority!Quarantine(Batch(r))
  BY <1>2, <1>7, <1>8 DEF Authority!Quarantine
<1> QED
  BY <1>4, <1>5, <1>9, <1>10 DEF Kept, Authority!Next, Batch

\* The steps of batches keep the promises; only the last one shows.
LEMMA BatchKept ==
  ASSUME IInv, NEW p \in Process, BatchNext(p)
  PROVE  Kept
<1> DEFINE r == proc[p].request
<1>1. ASSUME NEW by \in Authorization, PrepareCompactBatchReconciliation(p, by)
      PROVE  Kept
  BY <1>1, FrameKept DEF PrepareCompactBatchReconciliation, disk, locks
<1>2. ASSUME NEW q \in orders, Admit(p, q)
      PROVE  Kept
  BY <1>2, AdmitKept
<1>3. proc[p].at \in BatchStage =>
        /\ r \in Request /\ marker = r /\ marker # None /\ v2 \in Graph
        /\ MovesAudited /\ PreparedBatchIntact
  BY BatchSees DEF IInv, TypeInv, Entries, BatchInv
<1>4. CASE BeginReplay(p)
  <2>1. /\ proc[p].at = "replaying" /\ audited' = audited \cup {r}
        /\ proc' = [proc EXCEPT ![p] = [at |-> "moving", request |-> r]]
        /\ UNCHANGED <<v2, marker, committed, moved, shared>>
    BY <1>4 DEF BeginReplay, PersistAudit, At, Step, locks
  <2>2. MovesAudited' /\ PreparedBatchIntact'
    BY <1>3, <2>1 DEF MovesAudited, PreparedBatchIntact, Batch, BatchStage
  <2> QED
    BY <2>1, <2>2, WithinBatchKept DEF BatchStage
<1>5. CASE ReplayCommitted(p)
  <2>1. /\ proc[p].at = "replaying" /\ r \in committed /\ Verified(r)
        /\ proc' = [proc EXCEPT ![p] = [at |-> "committed", request |-> r]]
        /\ UNCHANGED <<v2, marker, audited, committed, moved, shared>>
    BY <1>5 DEF ReplayCommitted, At, Step, disk, locks
  <2>2. MovesAudited' /\ PreparedBatchIntact'
    BY <1>3, <2>1 DEF MovesAudited, PreparedBatchIntact, Batch, BatchStage
  <2>3. v2' = r.keep /\ Readable(v2)' /\ \A l \in Batch(r) : <<r, l, r.move[l]>> \in moved'
    BY <2>1, SameReadable DEF Verified
  <2> QED
    BY <2>1, <2>2, <2>3, WithinBatchKept DEF BatchStage
<1>6. CASE CommitBatch(p)
  <2>1. /\ proc[p].at = "moving" /\ Verified(r) /\ committed' = committed \cup {r}
        /\ proc' = [proc EXCEPT ![p] = [at |-> "committed", request |-> r]]
        /\ UNCHANGED <<v2, marker, audited, moved, shared>>
    BY <1>6 DEF CommitBatch, MovesVerified, At, Step, locks
  <2>2. MovesAudited' /\ PreparedBatchIntact'
    BY <1>3, <2>1 DEF MovesAudited, PreparedBatchIntact, Batch, BatchStage
  <2>3. v2' = r.keep /\ Readable(v2)' /\ \A l \in Batch(r) : <<r, l, r.move[l]>> \in moved'
    BY <2>1, SameReadable DEF Verified
  <2> QED
    BY <2>1, <2>2, <2>3, WithinBatchKept DEF BatchStage
<1>7. CASE ClearMarker(p)
  BY <1>7, ClearMarkerKept
<1>8. ASSUME NEW l \in Lineage, MoveEntry(p, l)
      PROVE  Kept
  <2>1. /\ proc[p].at = "moving" /\ l \in Batch(r) /\ v2' = Without(v2, {l})
        /\ moved' = moved \cup {<<r, l, r.move[l]>>}
        /\ UNCHANGED <<marker, audited, committed, shared, proc>>
    BY <1>8 DEF MoveEntry, At, locks
  <2>2. r \in audited
    BY <2>1 DEF IInv, TypeInv, Journalled, At
  <2>3. MovesAudited'
    BY <1>3, <2>1, <2>2 DEF MovesAudited, BatchStage
  <2>4. \A k \in Lineage : v2'[k] = IF k = l THEN None ELSE v2[k]
    BY <2>1 DEF Without, Authority!Without
  <2>5. PreparedBatchIntact'
    BY <1>3, <2>1, <2>4 DEF PreparedBatchIntact, Batch, BatchStage
  <2>6. proc' = [proc EXCEPT ![p] = proc[p]]
    BY <2>1 DEF IInv, TypeInv
  <2> QED
    BY <2>1, <2>3, <2>5, <2>6, WithinBatchKept DEF BatchStage
<1> QED
  BY <1>1, <1>2, <1>4, <1>5, <1>6, <1>7, <1>8 DEF BatchNext

\* Every step keeps the promises.
LEMMA StepKept ==
  ASSUME IInv, [Next]_vars
  PROVE  Kept
<1>1. ASSUME NEW p \in Process, Stop(p)
      PROVE  Kept
  <2>1. proc[p].at \in WriterStage \cup BatchStage
    BY <1>1 DEF Stop, At, WriterStage, BatchStage
  <2>2. /\ proc' = [proc EXCEPT ![p] = Idle] /\ shared' = {}
        /\ UNCHANGED <<v2, marker, audited, committed, moved>>
    BY <1>1, <2>1, ReleaseLocks DEF Stop, IInv, TypeInv, disk
  <2>3. BatchInv'
    BY <2>2 DEF IInv, BatchInv, MovesAudited, PreparedBatchIntact, UnfinishedIsMarked, Batch
  <2>4. Visible' = Visible
    BY <2>2 DEF Visible
  <2> QED
    BY <1>1, <2>1, <2>3, <2>4, ReleasedPromises, SameLinked DEF Stop, Kept, IInv
<1>2. CASE UNCHANGED vars
  BY <1>2, FrameKept DEF vars, disk, locks
<1> QED
  BY <1>1, <1>2, WriterKept, ReaderKept, BatchKept DEF Next

\* What a graph of entries says does not depend on the state it is asked in.
LEMMA Primes ==
  /\ Suffixes(v2)' = Suffixes(v2')
  /\ Loaded(v2)' = Loaded(v2')
  /\ Authority!Closed(v2)' <=> Authority!Closed(v2')
  BY DEF Suffixes, InvalidSuccessors, Loaded, Authority!Loaded, Authority!EdgeValid,
         Authority!Anchored, Authority!Successors, Authority!Closed

\* What is written gets the next number.
NextNumber ==
  /\ changes' \in {changes, changes + 1}
  /\ \A l \in Loaded(v2') :
       \/ l \in Loaded(v2) /\ v2'[l] = v2[l]
       \/ v2'[l].rev = changes + 1 /\ changes' = changes + 1

\* Entries that stay as they are keep their numbers.
LEMMA SameNumbers ==
  ASSUME \A l \in Lineage : v2'[l] = v2[l] \/ v2'[l] \in {None, Residue, Scraps, Hollow},
         changes' = changes
  PROVE  NextNumber
  BY DEF NextNumber, Loaded, Authority!Loaded

\* Writers give the next number.
LEMMA WriterNumbers ==
  ASSUME IInv, NEW p \in Process, WriterNext(p)
  PROVE  NextNumber /\ UNCHANGED <<orders, committed>>
<1>1. v2 \in Graph
  BY DEF IInv, TypeInv, Entries
<1>2. CASE QuarantineEntry(p)
  <2>1. PICK l : l = proc[p].lineage
    OBVIOUS
  <2>2. v2' = Without(v2, {l}) /\ UNCHANGED <<changes, orders, committed>>
    BY <1>2, <2>1 DEF QuarantineEntry
  <2>3. \A m \in Lineage : v2'[m] = v2[m] \/ v2'[m] = None
    BY <2>2 DEF Without, Authority!Without
  <2> QED
    BY <2>2, <2>3, SameNumbers
<1>3. ASSUME NEW l \in Lineage, NEW m \in Lineage \cup {None}, Publish(p, l, m)
      PROVE  NextNumber /\ UNCHANGED <<orders, committed>>
  <2>1. PICK e : e = [rev |-> changes + 1, pred |-> m,
                      predRev |-> IF m = None THEN 0 ELSE v2[m].rev, edge |-> "valid"]
    OBVIOUS
  <2>2. v2' = [v2 EXCEPT ![l] = e] /\ changes' = changes + 1 /\ UNCHANGED <<orders, committed>>
    BY <1>3, <2>1 DEF Publish
  <2>3. e.rev = changes + 1
    BY <2>1
  <2>4. \A k \in Lineage : v2'[k] = IF k = l THEN e ELSE v2[k]
    BY <1>1, <2>2 DEF Graph
  <2> QED
    BY <2>2, <2>3, <2>4 DEF NextNumber, Loaded, Authority!Loaded
<1>4. ASSUME NEW l \in Lineage, ReplaceContext(p, l)
      PROVE  NextNumber /\ UNCHANGED <<orders, committed>>
  <2>1. /\ l \in Loaded(v2) /\ v2' = [v2 EXCEPT ![l].rev = changes + 1]
        /\ changes' = changes + 1 /\ UNCHANGED <<orders, committed>>
    BY <1>4 DEF ReplaceContext
  <2>2. v2[l] \in Record
    BY <1>1, <2>1, LoadedRecord
  <2>3. \A m \in Lineage : v2'[m] = IF m = l THEN [v2[l] EXCEPT !.rev = changes + 1] ELSE v2[m]
    BY <1>1, <2>1 DEF Graph
  <2>4. v2'[l].rev = changes + 1
    BY <2>2, <2>3 DEF Record
  <2> QED
    BY <2>1, <2>3, <2>4 DEF NextNumber, Loaded, Authority!Loaded
<1>5. ASSUME NEW l \in Lineage, KilledStart(p, l)
      PROVE  NextNumber /\ UNCHANGED <<orders, committed>>
  <2>1. PICK left \in {Hollow, Scraps} : v2' = [v2 EXCEPT ![l] = left]
    BY <1>5 DEF KilledStart
  <2>2. \A m \in Lineage : v2'[m] = v2[m] \/ v2'[m] = left
    BY <1>1, <2>1 DEF Graph
  <2>3. UNCHANGED <<changes, orders, committed>>
    BY <1>5 DEF KilledStart
  <2> QED
    BY <2>1, <2>2, <2>3, SameNumbers
<1>6. ASSUME UNCHANGED <<v2, changes, orders, committed>>
      PROVE  NextNumber /\ UNCHANGED <<orders, committed>>
  BY <1>6, SameNumbers
<1> QED
  BY <1>2, <1>3, <1>4, <1>5, <1>6
  DEF WriterNext, Enter, SettleQuarantine, Refuse, PrepareQuarantine, StartCompactAuthority,
      RecoverCompactAuthority, disk

\* A batch writes nothing.
LEMMA MoveNumbers ==
  ASSUME NEW p \in Process, NEW l \in Lineage, MoveEntry(p, l)
  PROVE  NextNumber
<1>1. v2' = Without(v2, {l}) /\ UNCHANGED changes
  BY DEF MoveEntry
<1>2. \A m \in Lineage : v2'[m] = v2[m] \/ v2'[m] = None
  BY <1>1 DEF Without, Authority!Without
<1> QED
  BY <1>1, <1>2, SameNumbers

\* Every record that is written gets the next number.
LEMMA StepNumbers ==
  ASSUME IInv, [Next]_vars
  PROVE  NextNumber
<1>1. ASSUME UNCHANGED <<v2, changes>> PROVE NextNumber
  BY <1>1, SameNumbers
<1>2. ASSUME NEW p \in Process, BatchNext(p) PROVE NextNumber
  BY <1>1, <1>2, MoveNumbers
  DEF BatchNext, PrepareCompactBatchReconciliation, Admit, BeginReplay, ReplayCommitted,
      CommitBatch, ClearMarker, disk
<1>3. ASSUME NEW p \in Process, ReaderNext(p) \/ Stop(p) PROVE NextNumber
  BY <1>1, <1>3 DEF ReaderNext, DiscoverCompactStores, Load, LoadFails, Stop, disk
<1>4. CASE UNCHANGED vars
  BY <1>1, <1>4 DEF vars, disk
<1> QED
  BY <1>2, <1>3, <1>4, WriterNumbers DEF Next

\* The numbers of what is there have been given.
LEMMA GivenKept ==
  ASSUME IInv, NextNumber
  PROVE  Given'
<1>1. changes \in Nat /\ v2 \in Graph
  BY BoundAssumption DEF IInv, TypeInv, Entries
<1>2. \A l \in Loaded(v2) : v2[l].rev \in Nat /\ v2[l].rev <= changes
  BY <1>1, LoadedRecord DEF Record, IInv, Given
<1>3. \A l \in Loaded(v2') : v2'[l].rev <= changes'
  BY <1>1, <1>2 DEF NextNumber
<1>4. Loaded(v2)' = Loaded(v2')
  BY Primes
<1> QED
  BY <1>3, <1>4 DEF Given

\* The promises hold before any command has run.
LEMMA InvInit ==
  ASSUME Init
  PROVE  IInv
<1>1. Visible = v2 /\ v2 \in History
  BY DEF Init, Visible
<1>2. Authority!Linked(Visible)
  <2>1. v2 \in Graph /\ Authority!Closed(v2)
    BY <1>1, HistoryAssumption
  <2>2. \A m \in Loaded(v2) : v2[m].predRev \in Int
    BY <2>1, LoadedRecord DEF Record
  <2> QED
    BY <1>1, <2>1, <2>2 DEF Authority!Linked, Authority!Closed, Authority!Anchored, Loaded
<1>3. \A p \in Process : Promise(p)
  BY DEF Init, Idle, Promise, At, BatchStage
<1>4. Given
  BY <1>1, HistoryAssumption DEF Init, Given
<1> QED
  BY <1>2, <1>3, <1>4, TypeInit
  DEF Init, IInv, BatchInv, MovesAudited, PreparedBatchIntact, UnfinishedIsMarked

\* The promises of prepared batches, and what readers see of them, hold in
\* every reachable state.
THEOREM BatchesKeepPromises == Spec => []IInv
<1>1. IInv /\ [Next]_vars => IInv'
  BY TypeStep, StepKept, StepNumbers, GivenKept DEF IInv, Kept
<1> QED
  BY <1>1, InvInit, PTL DEF Spec

\* While a batch is prepared, nothing it depends on changes, whoever dies.
THEOREM PreparedStaysIntact == Spec => []PreparedBatchIntact
<1>1. IInv => PreparedBatchIntact
  BY DEF IInv, BatchInv
<1> QED
  BY <1>1, BatchesKeepPromises, PTL

\* A batch that has an audit and no commit is marked.
THEOREM UnfinishedStaysMarked == Spec => []UnfinishedIsMarked
<1>1. IInv => UnfinishedIsMarked
  BY DEF IInv, BatchInv
<1> QED
  BY <1>1, BatchesKeepPromises, PTL

\* No review continues one that is not there, nor a later one than there is.
THEOREM AuthorityStaysLinked == Spec => []AuthorityLinked
<1>1. IInv => AuthorityLinked
  BY DEF IInv, AuthorityLinked, Visible
<1> QED
  BY <1>1, BatchesKeepPromises, PTL

\* Readers may think of a batch as one step: the maintenance of the authority
\* implements the graph that changes one entry at a time.
THEOREM QuarantineIsAtomic == Spec => AtomicQuarantine
<1>1. Init => Authority!Linked(Visible)
  BY InvInit DEF IInv
<1>2. IInv /\ [Next]_vars => [Authority!Next]_Visible
  BY StepKept DEF Kept
<1> QED
  BY <1>1, <1>2, BatchesKeepPromises, PTL DEF Spec, AtomicQuarantine, Authority!Spec

\* Every step takes only what an audit names.
LEMMA StepAudited ==
  ASSUME IInv, [Next]_vars
  PROVE  [AuditedLeave]_vars
<1> SUFFICES ASSUME NEW k \in Lineage, v2[k] # None, v2'[k] = None
             PROVE  Audited(k)
  BY DEF AuditedLeave
<1>1. v2 \in Graph
  BY DEF IInv, TypeInv, Entries
<1>2. ASSUME NEW p \in Process, NEW l \in Lineage, NEW m \in Loaded(v2) \cup {None},
             At(p, "holding"), Publish(p, l, m)
      PROVE  FALSE
  <2>1. changes + 1 \in 0 .. MaxChanges
    BY <1>2, BoundAssumption DEF Publish, IInv, TypeInv, Entries
  <2>2. m # None => v2[m].rev \in 0 .. MaxChanges /\ m \in Lineage
    BY <1>1, LoadedRecord DEF Record
  <2>3. [rev |-> changes + 1, pred |-> m, predRev |-> IF m = None THEN 0 ELSE v2[m].rev,
         edge |-> "valid"] \in Record
    BY <2>1, <2>2, BoundAssumption DEF Record
  <2> QED
    BY <1>1, <1>2, <2>3, RecordsAssumption DEF Publish, Graph
<1>3. ASSUME NEW p \in Process, NEW l \in Lineage, ReplaceContext(p, l)
      PROVE  FALSE
  <2>1. v2[l] \in Record /\ changes + 1 \in 0 .. MaxChanges
    BY <1>1, <1>3, LoadedRecord, BoundAssumption DEF ReplaceContext, IInv, TypeInv, Entries
  <2>2. [v2[l] EXCEPT !.rev = changes + 1] \in Record
    BY <2>1 DEF Record
  <2> QED
    BY <1>1, <1>3, <2>2, RecordsAssumption DEF ReplaceContext, Graph
<1>4. ASSUME NEW p \in Process, NEW l \in Lineage, KilledStart(p, l)
      PROVE  FALSE
  <2>1. PICK left \in {Hollow, Scraps} : v2' = [v2 EXCEPT ![l] = left]
    BY <1>4 DEF KilledStart
  <2> QED
    BY <1>1, <2>1, RecordsAssumption DEF Graph
<1>5. ASSUME NEW p \in Process, QuarantineEntry(p)
      PROVE  Audited(k)
  <2>1. k = proc[p].lineage
    BY <1>1, <1>5 DEF QuarantineEntry, Without, Authority!Without, Graph
  <2> QED
    BY <1>5, <2>1 DEF QuarantineEntry, IInv, TypeInv, Journalled, Audited
<1>6. ASSUME NEW p \in Process, NEW l \in Lineage, MoveEntry(p, l)
      PROVE  Audited(k)
  <2>1. k = l
    BY <1>1, <1>6 DEF MoveEntry, Without, Authority!Without, Graph
  <2>2. proc[p].request \in audited
    BY <1>6 DEF MoveEntry, IInv, TypeInv, Journalled
  <2> QED
    BY <1>6, <2>1, <2>2 DEF MoveEntry, Audited
<1>7. v2' # v2
  OBVIOUS
<1>8. ASSUME NEW p \in Process, WriterNext(p)
      PROVE  Audited(k)
  BY <1>2, <1>3, <1>4, <1>5, <1>7, <1>8
  DEF WriterNext, Enter, SettleQuarantine, Refuse, PrepareQuarantine,
      StartCompactAuthority, RecoverCompactAuthority, disk
<1>9. ASSUME NEW p \in Process, ReaderNext(p) \/ BatchNext(p) \/ Stop(p)
      PROVE  Audited(k)
  BY <1>6, <1>7, <1>9
  DEF ReaderNext, BatchNext, Stop, DiscoverCompactStores, LoadFails, Load, Admit, BeginReplay,
      ReplayCommitted, CommitBatch, ClearMarker, PrepareCompactBatchReconciliation, disk
<1> QED
  BY <1>7, <1>8, <1>9 DEF Next, vars, disk

\* An entry leaves v2 only under an audit that is on disk and names it.
THEOREM EntriesLeaveAudited == Spec => MovedUnderAudit
  BY StepAudited, BatchesKeepPromises, PTL DEF Spec, MovedUnderAudit

\* Every step commits only what is done.
LEMMA StepCommits ==
  ASSUME IInv, [Next]_vars
  PROVE  [WholeCommit]_vars
<1> SUFFICES ASSUME NEW r \in committed' \ committed
             PROVE  /\ v2' = r.keep /\ Readable(v2')
                    /\ \A l \in Batch(r) : <<r, l, r.move[l]>> \in moved'
  BY DEF WholeCommit
<1>1. ASSUME NEW p \in Process, WriterNext(p) \/ ReaderNext(p) \/ Stop(p)
      PROVE  committed' = committed
  BY <1>1
  DEF WriterNext, Enter, QuarantineEntry, SettleQuarantine, Refuse, StartCompactAuthority,
      RecoverCompactAuthority, Publish, ReplaceContext, KilledStart, PrepareQuarantine,
      ReaderNext, DiscoverCompactStores, LoadFails, Load, Stop, disk
<1>2. ASSUME NEW p \in Process, BatchNext(p)
      PROVE  CommitBatch(p)
  BY <1>2
  DEF BatchNext, PrepareCompactBatchReconciliation, Admit, BeginReplay, ReplayCommitted,
      ClearMarker, MoveEntry, disk
<1>3. PICK p \in Process : CommitBatch(p)
  BY <1>1, <1>2 DEF Next, vars, disk
<1>4. /\ v2' = v2 /\ moved' = moved /\ r = proc[p].request /\ Verified(r)
  BY <1>3 DEF CommitBatch, MovesVerified
<1> QED
  BY <1>4 DEF Verified

\* When a batch commits, all of it has happened and nothing else.
THEOREM CommitsAreWhole == Spec => CommitIsWhole
  BY StepCommits, BatchesKeepPromises, PTL DEF Spec, CommitIsWhole


-----------------------------------------------------------------------------
(* Reads of the whole graph.                                                *)

\* Batches that have begun, or are about to: their entries may be moving.
Begun == audited \cup ({marker} \ {None})

\* The read has found each entry that the batch takes, or is still to load it.
Covers(p, S) == \A l \in S : l \in proc[p].todo \/ proc[p].seen[l] # None

\* All that the read has of the batch was written after the batch took it.
Later(p, r) ==
  \A l \in Batch(r) : proc[p].seen[l] # None => proc[p].seen[l].rev > r.move[l].rev

ReadsCover ==
  \A p \in Process : At(p, "reading") =>
    /\ marker = None /\ Authority!Closed(v2) => Covers(p, Suffixes(v2))
    /\ \A r \in Begun : Covers(p, Batch(r)) \/ Later(p, r)

\* The numbers of the records that a request names have been given; what a
\* batch has taken is there again only with a higher one.
Numbered ==
  /\ \A r \in orders : \A l \in Batch(r) :
       r.keep[l] = None /\ r.move[l] \in Record /\ r.move[l].rev <= changes
  /\ \A r \in committed : \A l \in Batch(r) \cap Loaded(v2) : v2[l].rev > r.move[l].rev

ReadInv == Numbered /\ ReadsCover

\* A batch takes from a readable graph nothing at all.
LEMMA NoSuffixes ==
  ASSUME NEW g, Authority!Valid(g)
  PROVE  Suffixes(g) = {}
<1>1. InvalidSuccessors(g) = {}
  BY DEF InvalidSuccessors, Authority!Valid, Loaded
<1>2. ASSUME NEW l \in Suffixes(g) PROVE FALSE
  <2>1. {} \in SUBSET Loaded(g)
    OBVIOUS
  <2>2. InvalidSuccessors(g) \subseteq {} /\ \A m \in Loaded(g) : g[m].pred \in {} => m \in {}
    BY <1>1
  <2> QED
    BY <2>1, <2>2 DEF Suffixes
<1> QED
  BY <1>2

\* Fewer invalid recoveries, and nothing new that continues one: a batch would
\* take no more than before.
LEMMA SuffixesShrink ==
  ASSUME NEW g, NEW h, Loaded(h) \subseteq Loaded(g),
         InvalidSuccessors(h) \subseteq InvalidSuccessors(g),
         \A m \in Loaded(h) : h[m].pred = g[m].pred
  PROVE  Suffixes(h) \subseteq Suffixes(g)
<1>1. SUFFICES ASSUME NEW l \in Suffixes(h), NEW S \in SUBSET Loaded(g),
                      InvalidSuccessors(g) \subseteq S,
                      \A m \in Loaded(g) : g[m].pred \in S => m \in S
               PROVE  l \in S
  BY DEF Suffixes
<1> DEFINE T == S \cap Loaded(h)
<1>2. T \in SUBSET Loaded(h)
  OBVIOUS
<1>3. InvalidSuccessors(h) \subseteq T
  BY <1>1 DEF InvalidSuccessors
<1>4. \A m \in Loaded(h) : h[m].pred \in T => m \in T
  BY <1>1
<1> HIDE DEF T
<1>5. l \in T
  BY <1>2, <1>3, <1>4 DEF Suffixes
<1> QED
  BY <1>5 DEF T

\* An entry that is not continued may change its number: a batch would take
\* no more than before.
LEMMA SuffixesRenumber ==
  ASSUME NEW g \in Graph, NEW l \in Loaded(g), Successors(g, l) = {}, NEW h,
         \A m \in Lineage : m # l => h[m] = g[m],
         h[l].pred = g[l].pred, h[l].predRev = g[l].predRev, h[l].edge = g[l].edge
  PROVE  Suffixes(h) \subseteq Suffixes(g)
<1>1. \A m \in Lineage : /\ h[m].pred = g[m].pred /\ h[m].predRev = g[m].predRev
                         /\ h[m].edge = g[m].edge
  OBVIOUS
<1>2. Loaded(h) \subseteq Loaded(g)
  BY DEF Loaded, Authority!Loaded
<1>3. \A m \in Loaded(g) : m \in Lineage /\ (m # l => m \in Loaded(h))
  BY DEF Loaded, Authority!Loaded
<1>4. ASSUME NEW m \in InvalidSuccessors(h)
      PROVE  m \in InvalidSuccessors(g)
  <2>1. m \in Loaded(h) /\ m \in Loaded(g) /\ m \in Lineage
    BY <1>2, <1>3 DEF InvalidSuccessors
  <2>2. SUFFICES ASSUME Authority!EdgeValid(g, m), h[m].pred # None
                 PROVE  Authority!EdgeValid(h, m)
    BY <1>4, <2>1 DEF InvalidSuccessors, Authority!EdgeValid
  <2>3. PICK d : d = g[m].pred
    OBVIOUS
  <2>4. /\ d \in Loaded(g) /\ g[d].rev = g[m].predRev /\ g[m].edge = "valid"
        /\ Successors(g, d) = {m}
    BY <1>1, <2>1, <2>2, <2>3 DEF Authority!EdgeValid, Authority!Anchored, Successors, Loaded
  <2>5. d # l /\ d \in Lineage /\ d \in Loaded(h) /\ h[d] = g[d]
    BY <1>3, <2>4
  <2>6. Successors(h, d) = {m}
    <3>1. \A k \in Successors(h, d) : k \in Successors(g, d)
      BY <1>1, <1>2, <1>3 DEF Successors, Authority!Successors, Loaded
    <3>2. m \in Successors(h, d)
      BY <1>1, <2>1, <2>3 DEF Successors, Authority!Successors, Loaded
    <3> QED
      BY <2>4, <3>1, <3>2
  <2> QED
    BY <1>1, <2>1, <2>3, <2>4, <2>5, <2>6
    DEF Authority!EdgeValid, Authority!Anchored, Successors, Loaded
<1>5. \A m \in Loaded(h) : h[m].pred = g[m].pred
  BY <1>1, <1>2, <1>3
<1> QED
  BY <1>2, <1>4, <1>5, SuffixesShrink

\* Nothing of what may be loaded changes.
LEMMA SameReviews ==
  ASSUME NEW g, NEW h, Loaded(h) = Loaded(g), \A m \in Loaded(g) : h[m] = g[m]
  PROVE  Suffixes(h) \subseteq Suffixes(g) /\ (Authority!Closed(h) <=> Authority!Closed(g))
<1>1. \A m : Successors(h, m) = Successors(g, m)
  BY DEF Successors, Authority!Successors, Loaded
<1>2. \A m \in Loaded(g) : Authority!Anchored(h, m) <=> Authority!Anchored(g, m)
  BY DEF Authority!Anchored, Loaded
<1>3. InvalidSuccessors(h) \subseteq InvalidSuccessors(g)
  BY <1>1, <1>2 DEF InvalidSuccessors, Authority!EdgeValid, Loaded, Successors
<1>4. Suffixes(h) \subseteq Suffixes(g)
  BY <1>3, SuffixesShrink
<1>5. Authority!Closed(h) <=> Authority!Closed(g)
  BY <1>2 DEF Authority!Closed, Loaded
<1> QED
  BY <1>4, <1>5

\* The review that advances was not continued, when after it each review is
\* at the revision that its successor names; and so it was before.
LEMMA AdvanceCloses ==
  ASSUME NEW g \in Graph, Authority!Linked(g), NEW l \in Loaded(g), NEW h,
         \A m \in Lineage : m # l => h[m] = g[m],
         h[l] \in Record, h[l].pred = g[l].pred, h[l].predRev = g[l].predRev,
         g[l].rev < h[l].rev, Authority!Closed(h)
  PROVE  Successors(g, l) = {} /\ Authority!Closed(g)
<1>1. l \in Lineage /\ g[l] \in Record
  BY LoadedRecord
<1>2. Loaded(h) = Loaded(g)
  BY <1>1, RecordsAssumption DEF Loaded, Authority!Loaded
<1>3. ASSUME NEW m \in Loaded(g)
      PROVE  m \in Lineage /\ g[m] \in Record /\ h[m].pred = g[m].pred
             /\ h[m].predRev = g[m].predRev
  BY <1>3, LoadedRecord
<1>4. ASSUME NEW m \in Loaded(g), g[m].pred = l PROVE FALSE
  <2>1. g[m].pred # None
    BY <1>1, <1>4, NamesAssumption
  <2>2. h[l].rev = g[m].predRev
    BY <1>2, <1>3, <1>4, <2>1 DEF Authority!Closed, Authority!Anchored, Loaded
  <2>3. g[m].predRev <= g[l].rev
    BY <1>4, <2>1 DEF Authority!Linked, Loaded
  <2>4. g[l].rev \in Int /\ h[l].rev \in Int
    BY <1>1 DEF Record
  <2> QED
    BY <2>2, <2>3, <2>4
<1>5. Successors(g, l) = {}
  BY <1>4 DEF Successors, Authority!Successors, Loaded
<1>6. ASSUME NEW m \in Loaded(g), g[m].pred # None
      PROVE  g[m].pred \in Loaded(g) /\ g[g[m].pred].rev = g[m].predRev
  <2>1. g[m].pred \in Loaded(h) /\ h[g[m].pred].rev = g[m].predRev
    BY <1>2, <1>3, <1>6 DEF Authority!Closed, Authority!Anchored, Loaded
  <2>2. g[m].pred # l /\ g[m].pred \in Lineage
    BY <1>2, <1>3, <1>4, <2>1
  <2> QED
    BY <1>2, <2>1, <2>2
<1>7. Authority!Closed(g)
  BY <1>6 DEF Authority!Closed, Authority!Anchored, Loaded
<1> QED
  BY <1>5, <1>7

\* A step adds nothing to what the next batch would take, as long as there
\* can be a next batch: only when each review is at the revision that its
\* successor names.
Shrinks ==
  Authority!Closed(v2') =>
    \/ Suffixes(v2') = {}
    \/ Authority!Closed(v2) /\ Suffixes(v2') \subseteq Suffixes(v2)

\* No writer adds to what a batch would take.
LEMMA WriterShrinks ==
  ASSUME IInv, NEW p \in Process, WriterNext(p)
  PROVE  Shrinks
<1>1. v2 \in Graph
  BY DEF IInv, TypeInv, Entries
<1>2. ASSUME v2' = v2 PROVE Shrinks
  BY <1>2 DEF Shrinks
<1>3. ASSUME Authority!Valid(v2') PROVE Shrinks
  BY <1>3, NoSuffixes DEF Shrinks
<1>4. CASE QuarantineEntry(p)
  <2>1. PICK l : l = proc[p].lineage
    OBVIOUS
  <2>2. /\ v2' = Without(v2, {l}) /\ At(p, "recorded")
    BY <1>4, <2>1 DEF QuarantineEntry
  <2>3. Fit(l) /\ l \in Lineage
    BY <2>1, <2>2, Fields DEF IInv, Promise, TypeInv, At
  <2>4. CASE Readable(Without(v2, {l}))
    BY <1>3, <2>2, <2>4 DEF Readable, Authority!Readable
  <2>5. CASE Reclaimable(l)
    <3>1. \A m \in Lineage : v2'[m] = IF m = l THEN None ELSE v2[m]
      BY <2>2 DEF Without, Authority!Without
    <3>2. l \notin Loaded(v2) /\ l \notin Loaded(v2')
      BY <2>3, <2>5, <3>1 DEF Reclaimable, Loaded, Authority!Loaded
    <3>3. Loaded(v2') = Loaded(v2) /\ \A m \in Loaded(v2) : v2'[m] = v2[m]
      BY <3>1, <3>2 DEF Loaded, Authority!Loaded
    <3> QED
      BY <3>3, SameReviews DEF Shrinks
  <2> QED
    BY <2>3, <2>4, <2>5 DEF Fit
<1>5. ASSUME NEW l \in Lineage, StartCompactAuthority(p, l) PROVE Shrinks
  <2>1. Unused(l) /\ Authority!Valid(v2)
    BY <1>5 DEF StartCompactAuthority, Readable, Authority!Readable
  <2>2. l \notin Loaded(v2)
    BY <2>1 DEF Unused, Loaded, Authority!Loaded
  <2>3. PICK e : e = [rev |-> changes + 1, pred |-> None, predRev |-> 0, edge |-> "valid"]
    OBVIOUS
  <2>4. v2' = [v2 EXCEPT ![l] = e]
    BY <1>5, <2>3 DEF StartCompactAuthority, Publish
  <2>5. e.pred = None
    BY <2>3
  <2> QED
    BY <1>1, <1>3, <2>1, <2>2, <2>4, <2>5, ValidWrite
<1>6. ASSUME NEW l \in Lineage, NEW m \in Lineage, RecoverCompactAuthority(p, l, m)
      PROVE  Shrinks
  <2>1. /\ Unused(m) /\ Authority!Valid(v2)
        /\ l \in Loaded(v2) /\ Successors(v2, l) = {}
    BY <1>6 DEF RecoverCompactAuthority, Readable, Authority!Readable
  <2>2. m \notin Loaded(v2)
    BY <2>1 DEF Unused, Loaded, Authority!Loaded
  <2>3. PICK e : e = [rev |-> changes + 1, pred |-> l, predRev |-> v2[l].rev, edge |-> "valid"]
    OBVIOUS
  <2>4. v2' = [v2 EXCEPT ![m] = e]
    BY <1>6, <2>3, NamesAssumption DEF RecoverCompactAuthority, Publish
  <2>5. e.pred = l /\ e.predRev = v2[l].rev /\ e.edge = "valid"
    BY <2>3
  <2> QED
    BY <1>1, <1>3, <2>1, <2>2, <2>4, <2>5, ValidWrite
<1>7. ASSUME NEW l \in Lineage, ReplaceContext(p, l) PROVE Shrinks
  <2>1. /\ l \in Loaded(v2) /\ At(p, "holding")
        /\ v2' = [v2 EXCEPT ![l].rev = changes + 1]
    BY <1>7 DEF ReplaceContext
  <2>2. /\ v2[l] \in Record /\ Authority!Linked(v2) /\ changes + 1 \in 0 .. MaxChanges
        /\ v2[l].rev <= changes /\ changes \in Nat
    BY <1>1, <1>7, <2>1, LoadedRecord, WriterSees, BoundAssumption
    DEF ReplaceContext, IInv, TypeInv, Entries, Given, At, WriterStage
  <2>3. \A m \in Lineage : v2'[m] = IF m = l THEN [v2[l] EXCEPT !.rev = changes + 1] ELSE v2[m]
    BY <1>1, <2>1 DEF Graph
  <2>4. l \in Lineage
    BY <1>7
  <2>5. PICK h : h = v2'
    OBVIOUS
  <2>6. \A m \in Lineage : m # l => h[m] = v2[m]
    BY <2>3, <2>5
  <2>7. /\ h[l] \in Record /\ h[l].rev = changes + 1
        /\ h[l].pred = v2[l].pred /\ h[l].predRev = v2[l].predRev /\ h[l].edge = v2[l].edge
    BY <2>2, <2>3, <2>4, <2>5 DEF Record
  <2>8. v2[l].rev < h[l].rev
    BY <2>2, <2>7 DEF Record
  <2>9. ASSUME Authority!Closed(h)
        PROVE  Authority!Closed(v2) /\ Suffixes(h) \subseteq Suffixes(v2)
    <3>1. Successors(v2, l) = {} /\ Authority!Closed(v2)
      BY <1>1, <2>1, <2>2, <2>6, <2>7, <2>8, <2>9, AdvanceCloses
    <3> QED
      BY <1>1, <2>1, <2>6, <2>7, <3>1, SuffixesRenumber
  <2> QED
    BY <2>5, <2>9 DEF Shrinks
<1>8. ASSUME NEW l \in Lineage, KilledStart(p, l) PROVE Shrinks
  <2>1. PICK left \in {Hollow, Scraps} : v2' = [v2 EXCEPT ![l] = left]
    BY <1>8 DEF KilledStart
  <2>2. Authority!Valid(v2) /\ l \notin Loaded(v2)
    BY <1>8 DEF KilledStart, Readable, Authority!Readable, Loaded, Authority!Loaded
  <2> QED
    BY <1>1, <1>3, <2>1, <2>2, ValidWrite
<1> QED
  BY <1>2, <1>4, <1>5, <1>6, <1>7, <1>8
  DEF WriterNext, Enter, SettleQuarantine, Refuse, PrepareQuarantine, disk

\* The next number is above all that requests name.
LEMMA NumbersKept ==
  ASSUME IInv, Numbered, NextNumber, UNCHANGED <<orders, committed>>
  PROVE  Numbered'
<1>1. changes \in Nat /\ changes' \in Nat /\ v2 \in Graph /\ committed \subseteq orders
  BY BoundAssumption DEF IInv, TypeInv, Entries, Audits, NextNumber
<1>2. \A r \in orders : \A l \in Batch(r) : r.move[l].rev \in Nat
  BY DEF Numbered, Record
<1>3. ASSUME NEW r \in orders, NEW l \in Batch(r)
      PROVE  r.move[l].rev <= changes'
  BY <1>1, <1>2, <1>3 DEF Numbered, NextNumber
<1>4. ASSUME NEW r \in committed, NEW l \in Batch(r), l \in Loaded(v2')
      PROVE  v2'[l].rev > r.move[l].rev
  <2>1. r \in orders /\ r.move[l].rev <= changes /\ r.move[l].rev \in Nat
    BY <1>1, <1>2, <1>4 DEF Numbered
  <2>2. CASE l \in Loaded(v2) /\ v2'[l] = v2[l]
    BY <1>4, <2>2 DEF Numbered
  <2>3. CASE v2'[l].rev = changes + 1
    BY <1>1, <2>1, <2>3
  <2> QED
    BY <1>4, <2>2, <2>3 DEF NextNumber
<1>5. Loaded(v2)' = Loaded(v2')
  BY Primes
<1> QED
  BY <1>3, <1>4, <1>5 DEF Numbered, Batch

\* What a new request names is there, and has its number.
LEMMA PlanNumbers ==
  ASSUME IInv, NEW r, NEW by, r = Planned(v2, by), NEW l \in Batch(r)
  PROVE  r.keep[l] = None /\ r.move[l] \in Record /\ r.move[l].rev <= changes
<1>1. /\ r.keep = Without(v2, Suffixes(v2))
      /\ r.move = Authority!Only(v2, Suffixes(v2))
  BY DEF Planned
<1>2. l \in Lineage /\ r.move[l] # None
  BY DEF Batch
<1>3. l \in Suffixes(v2) /\ r.move[l] = v2[l] /\ r.keep[l] = None
  BY <1>1, <1>2 DEF Without, Authority!Without, Authority!Only
<1>4. l \in Loaded(v2)
  BY <1>3 DEF Suffixes
<1> QED
  BY <1>3, <1>4, LoadedRecord DEF IInv, Given, TypeInv, Entries

\* Batches keep the numbers: what they commit is gone.
LEMMA BatchNumbers ==
  ASSUME IInv, Numbered, NEW p \in Process, BatchNext(p)
  PROVE  Numbered'
<1>1. v2 \in Graph /\ committed \subseteq orders
  BY DEF IInv, TypeInv, Entries, Audits
<1>2. ASSUME UNCHANGED <<v2, changes, orders, committed>> PROVE Numbered'
  BY <1>2, SameNumbers, NumbersKept
<1>3. ASSUME NEW by \in Authorization, PrepareCompactBatchReconciliation(p, by)
      PROVE  Numbered'
  <2>1. orders' = orders \cup {Planned(v2, by)} /\ UNCHANGED <<v2, changes, committed>>
    BY <1>3 DEF PrepareCompactBatchReconciliation, disk
  <2>2. Loaded(v2)' = Loaded(v2)
    BY <2>1, Primes
  <2>3. \A r \in orders' : \A l \in Batch(r) :
           r.keep[l] = None /\ r.move[l] \in Record /\ r.move[l].rev <= changes
    BY <2>1, PlanNumbers DEF Numbered
  <2> QED
    BY <2>1, <2>2, <2>3 DEF Numbered, Batch
<1>4. CASE CommitBatch(p)
  <2>1. PICK r : r = proc[p].request
    OBVIOUS
  <2>2. /\ Verified(r) /\ committed' = committed \cup {r} /\ proc[p].at = "moving"
        /\ UNCHANGED <<v2, changes, orders>>
    BY <1>4, <2>1 DEF CommitBatch, MovesVerified, At
  <2>3. r \in orders /\ v2 = r.keep
    BY <2>1, <2>2, BatchSees DEF Verified, BatchStage
  <2>4. \A l \in Batch(r) : v2[l] = None
    BY <2>3 DEF Numbered
  <2>5. \A l \in Batch(r) : l \notin Loaded(v2)
    BY <2>4 DEF Loaded, Authority!Loaded
  <2>6. Loaded(v2)' = Loaded(v2)
    BY <2>2, Primes
  <2> QED
    BY <2>2, <2>5, <2>6 DEF Numbered, Batch
<1>5. ASSUME NEW l \in Lineage, MoveEntry(p, l) PROVE Numbered'
  <2>1. v2' = Without(v2, {l}) /\ UNCHANGED <<changes, orders, committed>>
    BY <1>5 DEF MoveEntry
  <2>2. \A m \in Lineage : v2'[m] = v2[m] \/ v2'[m] = None
    BY <2>1 DEF Without, Authority!Without
  <2> QED
    BY <2>1, <2>2, SameNumbers, NumbersKept
<1> QED
  BY <1>2, <1>3, <1>4, <1>5
  DEF BatchNext, Admit, BeginReplay, ReplayCommitted, ClearMarker, disk


\* Nobody who reads moves, a batch would take no more than before, and one that
\* begins takes what a batch would take.
LEMMA CoverKept ==
  ASSUME ReadsCover,
         \A q \in Process : proc'[q].at = "reading" => proc'[q] = proc[q],
         marker' = None => Suffixes(v2') = {} \/ (marker = None /\ Shrinks),
         \A r \in Begun' :
           r \in Begun \/ (marker = None /\ Authority!Closed(v2) /\ Batch(r) = Suffixes(v2))
  PROVE  ReadsCover'
<1>1. SUFFICES ASSUME NEW q \in Process, proc'[q].at = "reading"
               PROVE  /\ marker' = None /\ Authority!Closed(v2)' => Covers(q, Suffixes(v2))'
                      /\ \A r \in Begun' : Covers(q, Batch(r))' \/ Later(q, r)'
  BY DEF ReadsCover, At
<1>2. proc'[q] = proc[q] /\ At(q, "reading")
  BY <1>1 DEF At
<1>3. ASSUME marker' = None, Authority!Closed(v2)' PROVE Covers(q, Suffixes(v2))'
  <2>1. \A l \in Suffixes(v2') : l \in proc[q].todo \/ proc[q].seen[l] # None
    BY <1>2, <1>3, Primes DEF ReadsCover, Covers, Shrinks
  <2> QED
    BY <1>2, <2>1, Primes DEF Covers
<1>4. ASSUME NEW r \in Begun' PROVE Covers(q, Batch(r))' \/ Later(q, r)'
  <2>1. Covers(q, Batch(r)) \/ Later(q, r)
    BY <1>2, <1>4 DEF ReadsCover
  <2> QED
    BY <1>2, <2>1 DEF Covers, Later, Batch
<1> QED
  BY <1>3, <1>4

\* A read that begins or goes on has what it needs of each batch.
LEMMA ReaderCovers ==
  ASSUME IInv, ReadInv, NEW p \in Process, ReaderNext(p)
  PROVE  ReadsCover'
<1>1. v2 \in Graph /\ proc \in [Process -> Proc]
  BY DEF IInv, TypeInv, Entries
<1>2. UNCHANGED <<v2, marker, audited, committed>> /\ Begun' = Begun
  BY DEF ReaderNext, DiscoverCompactStores, LoadFails, Load, disk, Begun
<1>3. /\ Suffixes(v2)' = Suffixes(v2) /\ Suffixes(v2) \subseteq Loaded(v2)
      /\ Authority!Closed(v2)' <=> Authority!Closed(v2)
  BY <1>2, Primes DEF Suffixes
<1>4. \A r : Batch(r)' = Batch(r)
  BY DEF Batch
<1>5. CASE LoadFails(p)
  <2>1. \A q \in Process : proc'[q].at = "reading" => proc'[q] = proc[q]
    BY <1>1, <1>5 DEF LoadFails, Step, Idle
  <2> QED
    BY <1>2, <2>1, CoverKept DEF ReadInv, Shrinks
<1>6. ASSUME NEW s, proc' = [proc EXCEPT ![p] = s],
             marker = None /\ Authority!Closed(v2) =>
               \A l \in Suffixes(v2) : l \in s.todo \/ s.seen[l] # None,
             \A r \in Begun : \/ \A l \in Batch(r) : l \in s.todo \/ s.seen[l] # None
                              \/ \A l \in Batch(r) : s.seen[l] # None =>
                                                     s.seen[l].rev > r.move[l].rev
      PROVE  ReadsCover'
  <2>1. SUFFICES ASSUME NEW q \in Process, proc'[q].at = "reading"
                 PROVE  /\ marker' = None /\ Authority!Closed(v2)' => Covers(q, Suffixes(v2))'
                        /\ \A r \in Begun' : Covers(q, Batch(r))' \/ Later(q, r)'
    BY DEF ReadsCover, At
  <2>2. CASE q = p
    <3>1. proc'[q] = s
      BY <1>1, <1>6, <2>2
    <3> QED
      BY <1>2, <1>3, <1>4, <1>6, <3>1 DEF Covers, Later
  <2>3. CASE q # p
    <3>1. proc'[q] = proc[q] /\ At(q, "reading")
      BY <1>1, <1>6, <2>1, <2>3 DEF At
    <3>2. marker = None /\ Authority!Closed(v2) => Covers(q, Suffixes(v2))
      BY <3>1 DEF ReadInv, ReadsCover
    <3>3. \A r \in Begun : Covers(q, Batch(r)) \/ Later(q, r)
      BY <3>1 DEF ReadInv, ReadsCover
    <3> QED
      BY <1>2, <1>3, <1>4, <3>1, <3>2, <3>3 DEF Covers, Later
  <2> QED
    BY <2>2, <2>3
<1>7. CASE DiscoverCompactStores(p)
  <2>1. PICK s : s = [at |-> "reading", todo |-> Listed(v2), seen |-> [l \in Lineage |-> None]]
    OBVIOUS
  <2>2. proc' = [proc EXCEPT ![p] = s]
    BY <1>7, <2>1 DEF DiscoverCompactStores, Step
  <2>3. s.todo = Listed(v2) /\ \A l \in Lineage : s.seen[l] = None
    BY <2>1
  <2>4. Loaded(v2) \subseteq Listed(v2)
    BY DEF Loaded, Listed, Authority!Loaded, Authority!Listed
  <2>5. \A r : \A l \in Batch(r) : s.seen[l] = None
    BY <2>3 DEF Batch
  <2> QED
    BY <1>3, <1>6, <2>2, <2>3, <2>4, <2>5
<1>8. ASSUME NEW l \in Lineage, Load(p, l) PROVE ReadsCover'
  <2>1. proc[p] \in [at : {"reading"}, todo : SUBSET Lineage, seen : Graph]
    BY <1>1, <1>8 DEF Load, At, Proc
  <2>2. PICK s : s = [proc[p] EXCEPT !.todo = @ \ {l}, !.seen[l] = v2[l]]
    OBVIOUS
  <2>3. /\ proc' = [proc EXCEPT ![p] = s] /\ At(p, "reading") /\ marker = None
        /\ l \in Loaded(v2)
    BY <1>8, <2>2 DEF Load, Step, SharedAdmitted, NoPreparedBatch
  <2>4. /\ s.todo = proc[p].todo \ {l}
        /\ \A m \in Lineage : s.seen[m] = IF m = l THEN v2[l] ELSE proc[p].seen[m]
    BY <2>1, <2>2 DEF Graph
  <2>5. v2[l] # None
    BY <2>3 DEF Loaded, Authority!Loaded
  <2>6. ASSUME NEW S \in SUBSET Lineage, Covers(p, S)
        PROVE  \A m \in S : m \in s.todo \/ s.seen[m] # None
    BY <2>4, <2>5, <2>6 DEF Covers
  <2>7. ASSUME Authority!Closed(v2)
        PROVE  \A m \in Suffixes(v2) : m \in s.todo \/ s.seen[m] # None
    <3>1. Covers(p, Suffixes(v2)) /\ Suffixes(v2) \in SUBSET Lineage
      BY <1>3, <2>3, <2>7 DEF ReadInv, ReadsCover, Loaded, Authority!Loaded
    <3> QED
      BY <2>6, <3>1
  <2>8. ASSUME NEW r \in Begun
        PROVE  \/ \A m \in Batch(r) : m \in s.todo \/ s.seen[m] # None
               \/ \A m \in Batch(r) : s.seen[m] # None => s.seen[m].rev > r.move[m].rev
    <3>1. r \in audited /\ r \in committed
      BY <2>3, <2>8, RecordsAssumption
      DEF Begun, IInv, BatchInv, UnfinishedIsMarked, TypeInv, Audits, Ordered
    <3>2. Covers(p, Batch(r)) \/ Later(p, r)
      BY <2>3, <2>8 DEF ReadInv, ReadsCover
    <3>3. CASE Covers(p, Batch(r))
      BY <2>6, <3>3 DEF Batch
    <3>4. CASE Later(p, r)
      <4>1. l \in Batch(r) => v2[l].rev > r.move[l].rev
        BY <2>3, <3>1 DEF ReadInv, Numbered
      <4> QED
        BY <2>4, <3>4, <4>1 DEF Later, Batch
    <3> QED
      BY <3>2, <3>3, <3>4
  <2> QED
    BY <1>6, <2>3, <2>7, <2>8
<1> QED
  BY <1>5, <1>7, <1>8 DEF ReaderNext

\* A command that is not a read does not become one.
LEMMA NoNewRead ==
  ASSUME TypeInv, NEW p \in Process, WriterNext(p) \/ BatchNext(p) \/ Stop(p)
  PROVE  \A q \in Process : proc'[q].at = "reading" => proc'[q] = proc[q]
<1>1. \/ UNCHANGED proc
      \/ \E s : s.at # "reading" /\ proc' = [proc EXCEPT ![p] = s]
  <2>1. Release(p) => \E s : s.at # "reading" /\ proc' = [proc EXCEPT ![p] = s]
    BY DEF Release, Step, Idle
  <2>2. ASSUME NEW s, Step(p, s), s.at # "reading"
        PROVE  \E t : t.at # "reading" /\ proc' = [proc EXCEPT ![p] = t]
    BY <2>2 DEF Step
  <2>3. CASE WriterNext(p)
    <3>1. CASE Enter(p)
      BY <2>2, <3>1 DEF Enter
    <3>2. CASE QuarantineEntry(p)
      BY <2>2, <3>2 DEF QuarantineEntry
    <3>3. ASSUME NEW l \in Lineage, PrepareQuarantine(p, l)
          PROVE  \E t : t.at # "reading" /\ proc' = [proc EXCEPT ![p] = t]
      BY <2>2, <3>3 DEF PrepareQuarantine
    <3> QED
      BY <2>1, <2>3, <3>1, <3>2, <3>3
      DEF WriterNext, SettleQuarantine, Refuse, StartCompactAuthority, RecoverCompactAuthority,
          Publish, ReplaceContext, KilledStart
  <2>4. CASE BatchNext(p)
    <3>1. ASSUME NEW r \in orders, Admit(p, r)
          PROVE  \E t : t.at # "reading" /\ proc' = [proc EXCEPT ![p] = t]
      BY <2>2, <3>1 DEF Admit
    <3>2. CASE BeginReplay(p)
      BY <2>2, <3>2 DEF BeginReplay
    <3>3. CASE ReplayCommitted(p)
      BY <2>2, <3>3 DEF ReplayCommitted
    <3>4. CASE CommitBatch(p)
      BY <2>2, <3>4 DEF CommitBatch
    <3> QED
      BY <2>1, <2>4, <3>1, <3>2, <3>3, <3>4
      DEF BatchNext, PrepareCompactBatchReconciliation, ClearMarker, MoveEntry
  <2> QED
    BY <2>1, <2>3, <2>4 DEF Stop
<1> QED
  BY <1>1 DEF TypeInv

\* There is a plan only when each review is at the revision that its successor
\* names.
LEMMA PlannableCloses ==
  ASSUME NEW g, Plannable(g)
  PROVE  Authority!Closed(g)
<1>1. SUFFICES ASSUME NEW m \in Loaded(g)
               PROVE  Authority!Anchored(g, m)
  BY DEF Authority!Closed, Loaded
<1>2. CASE m \in InvalidSuccessors(g)
  BY <1>2 DEF Plannable, Supported
<1>3. CASE m \notin InvalidSuccessors(g)
  BY <1>3 DEF InvalidSuccessors, Authority!EdgeValid, Authority!Anchored
<1> QED
  BY <1>2, <1>3

\* What others do leaves the reads as they are.
LEMMA OthersCover ==
  ASSUME IInv, ReadInv, NEW p \in Process, WriterNext(p) \/ BatchNext(p) \/ Stop(p)
  PROVE  ReadsCover'
<1>1. ReadsCover /\ \A q \in Process : proc'[q].at = "reading" => proc'[q] = proc[q]
  BY NoNewRead DEF IInv, TypeInv, ReadInv
<1>2. ASSUME UNCHANGED <<v2, marker>>, Begun' \subseteq Begun PROVE ReadsCover'
  BY <1>1, <1>2, CoverKept DEF Shrinks
<1>3. CASE WriterNext(p)
  <2>1. UNCHANGED <<marker, audited>> /\ Begun' = Begun
    BY <1>3 DEF WriterNext, Enter, QuarantineEntry, SettleQuarantine, Refuse,
      StartCompactAuthority, RecoverCompactAuthority, Publish, ReplaceContext, KilledStart,
      PrepareQuarantine, disk, Begun
  <2> QED
    BY <1>1, <1>3, <2>1, WriterShrinks, CoverKept
<1>4. CASE Stop(p)
  BY <1>2, <1>4 DEF Stop, disk, Begun
<1>5. ASSUME NEW by \in Authorization, PrepareCompactBatchReconciliation(p, by)
      PROVE  ReadsCover'
  BY <1>2, <1>5 DEF PrepareCompactBatchReconciliation, disk, Begun
<1>6. ASSUME NEW r \in orders, Admit(p, r) PROVE ReadsCover'
  <2>1. marker' = r /\ UNCHANGED <<v2, audited>> /\ r # None
    BY <1>6, RecordsAssumption DEF Admit, IInv, TypeInv, Audits, Ordered
  <2>2. r \in Begun \/ (marker = None /\ PlanCurrent(r))
    BY <1>6, <2>1 DEF Admit, Begun
  <2>3. PlanCurrent(r) => Batch(r) = Suffixes(v2) /\ Authority!Closed(v2)
    <3>1. SUFFICES ASSUME PlanCurrent(r) PROVE Batch(r) = Suffixes(v2) /\ Authority!Closed(v2)
      OBVIOUS
    <3>2. r.move = Authority!Only(v2, Suffixes(v2))
      BY <3>1 DEF PlanCurrent, Planned
    <3>3. \A l \in Suffixes(v2) : l \in Lineage /\ v2[l] # None
      BY DEF Suffixes, Loaded, Authority!Loaded
    <3>4. Authority!Closed(v2)
      BY <3>1, PlannableCloses DEF PlanCurrent
    <3> QED
      BY <3>2, <3>3, <3>4 DEF Batch, Authority!Only
  <2>4. \A s \in Begun' : s \in Begun \/ s = r
    BY <2>1 DEF Begun
  <2>5. \A s \in Begun' :
          s \in Begun \/ (marker = None /\ Authority!Closed(v2) /\ Batch(s) = Suffixes(v2))
    BY <2>2, <2>3, <2>4
  <2> QED
    BY <1>1, <2>1, <2>5, CoverKept
<1>7. CASE BeginReplay(p)
  <2>1. /\ proc[p].at = "replaying" /\ audited' = audited \cup {proc[p].request}
        /\ UNCHANGED <<v2, marker>>
    BY <1>7 DEF BeginReplay, PersistAudit, At
  <2>2. proc[p].request = marker /\ marker # None
    BY <2>1, BatchSees DEF BatchStage
  <2> QED
    BY <1>2, <2>1, <2>2 DEF Begun
<1>8. CASE ReplayCommitted(p)
  BY <1>2, <1>8 DEF ReplayCommitted, disk, Begun
<1>9. CASE CommitBatch(p)
  BY <1>2, <1>9 DEF CommitBatch, Begun
<1>10. CASE ClearMarker(p)
  <2>1. proc[p].at = "committed" /\ UNCHANGED <<v2, audited>> /\ marker' = None
    BY <1>10 DEF ClearMarker, Committed, At
  <2>2. Authority!Valid(v2)
    BY <2>1 DEF IInv, Promise, At, Verified, Readable, Authority!Readable
  <2>3. Suffixes(v2') = {}
    BY <2>1, <2>2, NoSuffixes
  <2>4. Begun' \subseteq Begun
    BY <2>1 DEF Begun
  <2> QED
    BY <1>1, <2>3, <2>4, CoverKept
<1>11. ASSUME NEW l \in Lineage, MoveEntry(p, l) PROVE ReadsCover'
  <2>1. proc[p].at = "moving" /\ UNCHANGED <<marker, audited>>
    BY <1>11 DEF MoveEntry, At
  <2>2. marker # None
    BY <2>1, BatchSees DEF BatchStage
  <2> QED
    BY <1>1, <2>1, <2>2, CoverKept DEF Begun
<1> QED
  BY <1>3, <1>4, <1>5, <1>6, <1>7, <1>8, <1>9, <1>10, <1>11 DEF BatchNext

\* Every step keeps what reads rely on.
LEMMA ReadStep ==
  ASSUME IInv, ReadInv, [Next]_vars
  PROVE  ReadInv'
<1>1. ASSUME UNCHANGED <<v2, changes, orders, committed>> PROVE Numbered'
  BY <1>1, SameNumbers, NumbersKept DEF ReadInv
<1>2. CASE UNCHANGED vars
  <2>1. Numbered'
    BY <1>1, <1>2 DEF vars, disk
  <2>2. UNCHANGED <<v2, marker, proc>> /\ Begun' = Begun
    BY <1>2 DEF vars, disk, Begun
  <2>3. ReadsCover'
    BY <2>2, CoverKept DEF ReadInv, Shrinks
  <2> QED
    BY <2>1, <2>3 DEF ReadInv
<1>3. ASSUME NEW p \in Process, WriterNext(p) PROVE ReadInv'
  BY <1>3, WriterNumbers, NumbersKept, OthersCover DEF ReadInv
<1>4. ASSUME NEW p \in Process, ReaderNext(p) PROVE ReadInv'
  <2>1. UNCHANGED <<v2, changes, orders, committed>>
    BY <1>4 DEF ReaderNext, DiscoverCompactStores, Load, LoadFails, disk
  <2> QED
    BY <1>1, <1>4, <2>1, ReaderCovers DEF ReadInv
<1>5. ASSUME NEW p \in Process, BatchNext(p) PROVE ReadInv'
  BY <1>5, BatchNumbers, OthersCover DEF ReadInv
<1>6. ASSUME NEW p \in Process, Stop(p) PROVE ReadInv'
  <2>1. UNCHANGED <<v2, changes, orders, committed>>
    BY <1>6 DEF Stop, disk
  <2> QED
    BY <1>1, <1>6, <2>1, OthersCover DEF ReadInv
<1> QED
  BY <1>2, <1>3, <1>4, <1>5, <1>6 DEF Next

\* Nobody reads before the first command.
LEMMA ReadInit ==
  ASSUME Init
  PROVE  ReadInv
<1>1. orders = {} /\ committed = {}
  BY DEF Init
<1>2. \A p \in Process : ~At(p, "reading")
  BY DEF Init, Idle, At
<1> QED
  BY <1>1, <1>2 DEF ReadInv, Numbered, ReadsCover

\* A read that is complete has all or nothing of each batch.
LEMMA CompleteReads ==
  ASSUME ReadInv
  PROVE  ReadsAtomic
<1>1. SUFFICES ASSUME NEW p \in Process, NEW r \in audited, At(p, "reading"),
                      proc[p].todo = {},
                      \A l \in Batch(r) : proc[p].seen[l] # None =>
                                          ~(proc[p].seen[l].rev > r.move[l].rev)
               PROVE  {l \in Batch(r) : proc[p].seen[l] # None} \in {{}, Batch(r)}
  BY DEF ReadsAtomic
<1>2. Covers(p, Batch(r)) \/ Later(p, r)
  BY <1>1 DEF ReadInv, ReadsCover, Begun
<1>3. CASE Covers(p, Batch(r))
  BY <1>1, <1>3 DEF Covers
<1>4. CASE Later(p, r)
  BY <1>1, <1>4 DEF Later
<1> QED
  BY <1>2, <1>3, <1>4

\* A read of the whole graph that loads all it listed was not in the middle of
\* any batch, although it holds no lock between two entries.
THEOREM ReadsStayAtomic == Spec => []ReadsAtomic
<1>1. IInv /\ ReadInv /\ [Next]_vars => ReadInv'
  BY ReadStep
<1>2. Init => ReadInv
  BY ReadInit
<1>3. ReadInv => ReadsAtomic
  BY CompleteReads
<1> QED
  BY <1>1, <1>2, <1>3, BatchesKeepPromises, PTL DEF Spec

=============================================================================
