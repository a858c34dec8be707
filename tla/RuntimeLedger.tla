--------------------------- MODULE RuntimeLedger ---------------------------
(***************************************************************************)
(* The SDD runtime ledger of one change (internal/sddstatus:               *)
(* runtime_ledger.go, review_binding.go): a chain of immutable records     *)
(* under records/, a HEAD file that names the last one, and a LOCK file    *)
(* that a mutation holds from its first read to its last.  Clients begin   *)
(* and finish attempts at an objective, reset it, and bind the approved    *)
(* review of the candidate, each by an exactly replayable request.         *)
(*                                                                         *)
(* A revision is the checksum of a record that names its predecessor, so   *)
(* it is modelled by the chain it ends.  What may change while a mutation  *)
(* holds LOCK is the workspace, the review authority and the legacy        *)
(* binding file of older versions, and a mutation reads them in several    *)
(* steps; a process may die, a directory sync may fail and the machine may *)
(* lose power between any two of its writes.                               *)
(***************************************************************************)
EXTENDS Integers, Sequences, FiniteSets

CONSTANTS
  Process,       \* clients of the ledger
  Tree,          \* candidate trees of the workspace
  StartTree,     \* the tree the history starts with
  Lineage,       \* review lineages
  Scope,         \* objectives: a work unit, its goal and its two budgets
  MaxAttempts,   \* max_attempts of each scope
  MaxLines,      \* max_changed_lines of each scope
  Charge,        \* changed lines between two trees
  ChargeLimit,   \* maximumRuntimeChangedLines
  None,          \* no binding, lineage, request, process or tree
  MaxRequests,   \* bound: requests that are ever issued
  MaxFaults,     \* bound: kills, power losses and failed syncs
  MaxEdits       \* bound: edits of the workspace, withdrawals, legacy bindings

ASSUME NoneAssumption == None \notin Process \cup Tree \cup Lineage \cup Scope
ASSUME StartAssumption == StartTree \in Tree
ASSUME BudgetAssumption ==
  /\ MaxAttempts \in [Scope -> Nat \ {0}]
  /\ MaxLines \in [Scope -> Nat \ {0}]
  /\ Charge \in [Tree \X Tree -> Nat]
ASSUME BoundAssumption == {ChargeLimit, MaxRequests, MaxFaults, MaxEdits} \subseteq Nat

VARIABLES
  head,       \* the chain HEAD names
  heads,      \* the chains HEAD may name after a power loss
  records,    \* the chains whose last record is in records/
  durable,    \* those that a power loss leaves there
  lock,       \* the process that holds LOCK, or None
  client,     \* per process: its request and how far its mutation is
  told,       \* the last revision that a successful answer named
  authority,  \* per lineage: the review that may be bound
  legacy,     \* binding.json of an older version, or None
  tree,       \* the candidate tree of the workspace
  issued,     \* requests issued so far
  faults,     \* faults so far
  edits       \* changes of the world so far

ledger == <<head, heads, records, durable>>
world == <<authority, legacy, tree, edits>>
vars == <<ledger, lock, client, told, world, issued, faults>>

-----------------------------------------------------------------------------
(* Requests, records and bindings.                                          *)

\* A binding names an approved revision of a lineage and the candidate of its
\* post-apply gate; its own revision is a checksum of it.
ReviewBinding == [lineage : Lineage, tree : Tree]

\* The three remediation fields come together.
Remedy == [expected : ReviewBinding, lineage : Lineage, evidence : 1 .. MaxRequests]

Id == 1 .. MaxRequests

\* The evidence revision of a finish is unique to it: its request identifier.
Request ==
  [op : {"begin"}, id : Id, scope : Scope]
  \cup [op : {"finish"}, id : Id, outcome : {"failed", "passed"}, remedy : Remedy \cup {None}]
  \cup [op : {"reset"}, id : Id]
  \cup [op : {"bind"}, lineage : Lineage, expected : ReviewBinding \cup {None}]

\* The client names an attempt request; BindApprovedReview derives the
\* identifier of a binding from what it asks.
RequestId(r) == IF r.op = "bind" THEN <<r.lineage, r.expected>> ELSE <<r.id>>

Remediates(r) == r.op = "finish" /\ r.remedy # None
Binds(r) == r.op = "bind" \/ Remediates(r)

\* What the ledger measured and selected for a request.
Event ==
  [tree : Tree \cup {None}, lines : Nat, exceeded : BOOLEAN,
   binding : ReviewBinding \cup {None}, import : ReviewBinding \cup {None}]

Record == [request : Request, event : Event]

-----------------------------------------------------------------------------
(* Replay: the status of a chain.                                           *)

Attempt == [generation : Nat, scope : Scope, begin : Tree, finish : Tree \cup {None},
            outcome : {"running", "failed", "passed"}, lines : Nat]

NewStatus ==
  [valid |-> TRUE, objective |-> None, generation |-> 0, attempts |-> <<>>,
   charged |-> 0, lines |-> 0, evidence |-> 0, decision |-> FALSE,
   complete |-> FALSE, binding |-> None]

LastAttempt(s) == s.attempts[Len(s.attempts)]
Active(s) == s.attempts # <<>> /\ LastAttempt(s).outcome = "running"

BudgetLeft(s, scope) == s.charged < MaxAttempts[scope] /\ s.lines < MaxLines[scope]

\* The effective binding of a status, given what the legacy file held.
Effective(s, old) == IF s.binding # None THEN s.binding ELSE old

BindingAgrees(s, expected, event) ==
  /\ s.binding # None => event.import = None
  /\ Effective(s, event.import) = expected

BeginAgrees(s, scope, event) ==
  /\ ~Active(s) /\ ~s.complete /\ ~s.decision
  /\ s.objective # None =>
       /\ scope = s.objective
       /\ s.attempts # <<>>
       /\ event.tree = LastAttempt(s).finish
  /\ BudgetLeft(s, scope)

FinishAgrees(s, event) ==
  /\ Active(s)
  /\ event.exceeded = (s.lines + event.lines > MaxLines[s.objective])

RemedyAgrees(s, remedy, event) ==
  LET current == Effective(s, event.import)
  IN  /\ current = remedy.expected
      /\ s.evidence # 0 => s.evidence = remedy.evidence
      /\ event.binding.lineage # current.lineage
      /\ ~event.exceeded => BindingAgrees(s, remedy.expected, event)

\* applyRuntimeRecord: may the record follow the status?
Follows(s, record) ==
  LET r == record.request
      e == record.event
  IN  /\ r.op = "begin" => BeginAgrees(s, r.scope, e)
      /\ r.op = "finish" => FinishAgrees(s, e)
      /\ Remediates(r) => RemedyAgrees(s, r.remedy, e)
      /\ r.op = "reset" => ~Active(s) /\ s.objective # None /\ (s.decision \/ s.complete)
      /\ r.op = "bind" => BindingAgrees(s, r.expected, e)

Begun(s, scope, event) ==
  LET generation == s.generation + IF s.objective = None THEN 1 ELSE 0
  IN  [s EXCEPT !.objective = scope, !.generation = generation, !.charged = @ + 1,
                !.attempts = Append(@, [generation |-> generation, scope |-> scope,
                   begin |-> event.tree, finish |-> None, outcome |-> "running", lines |-> 0])]

\* Mutant: the lines of an attempt are not added to those of its objective.
Uncharged(s, r, event) ==
  LET passed == r.outcome = "passed" /\ ~event.exceeded
  IN  [s EXCEPT !.attempts[Len(s.attempts)] =
                   [@ EXCEPT !.finish = event.tree, !.outcome = r.outcome, !.lines = event.lines],
                !.evidence = r.id,
                !.complete = passed,
                !.decision = ~passed /\ (event.exceeded \/ ~BudgetLeft(s, s.objective))]

Finished(s, r, event) ==
  LET lines == s.lines + event.lines
      passed == r.outcome = "passed" /\ ~event.exceeded
  IN  [s EXCEPT !.attempts[Len(s.attempts)] =
                   [@ EXCEPT !.finish = event.tree, !.outcome = r.outcome, !.lines = event.lines],
                !.lines = lines,
                !.evidence = r.id,
                !.complete = passed,
                !.decision = ~passed /\ (event.exceeded \/ ~BudgetLeft([s EXCEPT !.lines = lines],
                                                                      s.objective))]

Bound(s, event) == [s EXCEPT !.binding = event.binding]

AfterReset(s) ==
  [s EXCEPT !.objective = None, !.charged = 0, !.lines = 0, !.evidence = 0,
            !.decision = FALSE, !.complete = FALSE]

Applied(s, record) ==
  LET r == record.request
      e == record.event
  IN  CASE r.op = "begin" -> Begun(s, r.scope, e)
        [] r.op = "finish" /\ (r.remedy = None \/ e.exceeded) -> Finished(s, r, e)
        [] r.op = "finish" /\ r.remedy # None /\ ~e.exceeded -> Bound(Finished(s, r, e), e)
        [] r.op = "reset" -> AfterReset(s)
        [] OTHER -> Bound(s, e)

\* load(): a chain with a record that does not follow is refused whole.
Replay(chain) ==
  LET status[n \in 0 .. Len(chain)] ==
        IF n = 0 THEN NewStatus
        ELSE LET s == status[n - 1]
             IN  IF s.valid /\ Follows(s, chain[n]) THEN Applied(s, chain[n])
                 ELSE [s EXCEPT !.valid = FALSE]
  IN  status[Len(chain)]

Prefix(chain, n) == SubSeq(chain, 1, n)

\* The records of a chain that a request identifier names.
Known(chain, r) == {n \in 1 .. Len(chain) : RequestId(chain[n].request) = RequestId(r)}

-----------------------------------------------------------------------------
(* The review authority, the workspace and the legacy file, as a mutation   *)
(* sees them.                                                               *)

Review == [state : {"none", "open", "approved", "withdrawn"}, tree : Tree \cup {None},
           predecessor : Lineage \cup {None}, changed : BOOLEAN]

Superseded(l) == \E m \in Lineage : authority[m].state # "none" /\ authority[m].predecessor = l

\* EvaluateCompactGate at post-apply: approved, a leaf, and the live candidate.
GateAllows(l) ==
  /\ authority[l].state = "approved"
  /\ ~Superseded(l)
  /\ authority[l].tree = tree

BindingOf(l) == [lineage |-> l, tree |-> authority[l].tree]

\* The lineages that l continues through scope-changed recoveries only.
ScopeChain(l) ==
  LET Link(m) == IF authority[m].changed THEN {authority[m].predecessor} \ {None} ELSE {}
      Closed(S) == \A m \in S : Link(m) \subseteq S
  IN  {a \in Lineage : \A S \in SUBSET Lineage : Link(l) \subseteq S /\ Closed(S) => a \in S}

\* validateRuntimeRemediationSuccessor
Succeeds(current, l) ==
  /\ l # current.lineage
  /\ authority[current.lineage].state = "approved"
  /\ ~Superseded(l)
  /\ current.lineage \in ScopeChain(l)

-----------------------------------------------------------------------------
(* Clients.                                                                 *)

NoScratch == [tree |-> None, old |-> None, record |-> None]

\* pc: "idle" (answered), "ready" (holds a request), "authorize",
\* "publish", "replace", "sync", "resync" (inside the lock), "unknown" (no
\* answer, or one that asks for the exact replay).
Phase == {"idle", "ready", "authorize", "publish", "replace", "sync",
          "resync", "unknown"}
Inside == {"authorize", "publish", "replace", "sync", "resync"}

Client ==
  [pc : Phase, request : Request \cup {None}, expected : Seq(Record),
   scratch : [tree : Tree \cup {None}, old : ReviewBinding \cup {None}, record : Record \cup {None}]]

NoClient == [pc |-> "idle", request |-> None, expected |-> <<>>, scratch |-> NoScratch]

Go(p, pc) == client' = [client EXCEPT ![p].pc = pc]

\* The mutation returns and releases LOCK: answered, or to be replayed.
Answer(p) ==
  /\ client' = [client EXCEPT ![p] = NoClient]
  /\ lock' = None

LeaveUnknown(p) ==
  /\ client' = [client EXCEPT ![p].pc = "unknown", ![p].scratch = NoScratch]
  /\ lock' = None

Status == Replay(head)

\* What a client that read the status asks for: the next action it names, or a
\* binding of an approved review.
Remedies(s, id) ==
  IF Effective(s, legacy) = None THEN {}
  ELSE [expected : {Effective(s, legacy)}, lineage : Lineage,
        evidence : {IF s.evidence = 0 THEN id ELSE s.evidence}]

Finishes(s, id) ==
  [op : {"finish"}, id : {id}, outcome : {"failed", "passed"}, remedy : {None}]
  \cup [op : {"finish"}, id : {id}, outcome : {"passed"}, remedy : Remedies(s, id)]

Asked(s, id) ==
  IF Active(s) THEN Finishes(s, id)
  ELSE IF s.complete \/ s.decision THEN [op : {"reset"}, id : {id}]
  ELSE [op : {"begin"}, id : {id}, scope : Scope]

Bindings(s) ==
  [op : {"bind"}, lineage : {l \in Lineage : authority[l].state = "approved"},
   expected : {Effective(s, legacy)}]

\* Identifiers of the chain that a careless client might use again.
Reused == {head[n].request.id : n \in {k \in {1} \cap 1 .. Len(head) : head[k].request.op # "bind"}}

\* A request is issued under a fresh identifier, or under the first one of the
\* chain.
Issue(p) ==
  /\ client[p].pc = "idle"
  /\ issued < MaxRequests
  /\ issued' = issued + 1
  /\ LET s == Status
     IN  \E id \in {issued + 1} \cup Reused : \E r \in Asked(s, id) \cup Bindings(s) :
           client' = [client EXCEPT ![p] =
             [NoClient EXCEPT !.pc = "ready", !.request = r, !.expected = head]]
  /\ UNCHANGED <<ledger, lock, told, world, faults>>

\* A client without a conclusive answer repeats the exact request.
Retry(p) ==
  /\ client[p].pc = "unknown"
  /\ Go(p, "ready")
  /\ UNCHANGED <<ledger, lock, told, world, issued, faults>>

\* Does the receipt of a committed request have this digest?  The digest of an
\* attempt or a reset covers the expected revision.
SameRequest(p, n) ==
  /\ head[n].request = client[p].request
  /\ client[p].request.op # "bind" => client[p].expected = Prefix(head, n - 1)

EventOf(t, lines, exceeded, binding, import) ==
  [tree |-> t, lines |-> lines, exceeded |-> exceeded, binding |-> binding, import |-> import]

\* Where a callback may leave its mutation: {} when it returns an error.
Outcome(p, pc, scratch) == {[client[p] EXCEPT !.pc = pc, !.scratch = scratch]}

Publish(p, event) ==
  Outcome(p, "publish",
          [NoScratch EXCEPT !.record = [request |-> client[p].request, event |-> event]])

\* Mutant: the live candidate is not compared with the last finish.
CanBeginAnywhere(s, scope) ==
  /\ ~Active(s) /\ ~s.complete /\ ~s.decision
  /\ s.objective # None => scope = s.objective
  /\ BudgetLeft(s, scope)

\* The callback of Begin: the next attempt continues the live candidate.
CanBegin(s, scope) ==
  /\ ~Active(s) /\ ~s.complete /\ ~s.decision
  /\ s.objective # None => scope = s.objective /\ tree = LastAttempt(s).finish
  /\ BudgetLeft(s, scope)

CanReset(s) == ~Active(s) /\ s.objective # None /\ (s.decision \/ s.complete)

MeasuredEvent(s, t, binding, import) ==
  LET lines == Charge[<<LastAttempt(s).begin, t>>]
  IN  EventOf(t, lines, s.lines + lines > MaxLines[s.objective], binding, import)

\* The callback of Finish reads the legacy file and the candidate ...
LegacyRead(s, r) ==
  IF s.binding = None /\ (r.op = "bind" \/ r.outcome = "passed") THEN legacy ELSE None

CanRemedy(s, r, current) ==
  /\ current # None
  /\ current = r.remedy.expected
  /\ s.evidence # 0 => s.evidence = r.remedy.evidence
  /\ GateAllows(r.remedy.lineage)
  /\ Succeeds(current, r.remedy.lineage)

CanFinish(s, r) ==
  /\ Active(s)
  /\ Charge[<<LastAttempt(s).begin, tree>>] <= ChargeLimit
  /\ LET current == Effective(s, LegacyRead(s, r))
     IN  IF Remediates(r) THEN CanRemedy(s, r, current)
         ELSE r.outcome = "passed" /\ current # None => tree = LastAttempt(s).begin

\* ... and a passed attempt asks for the review in a later step.
BuildFinish(p, s, r) ==
  LET old == LegacyRead(s, r)
  IN  IF r.outcome = "passed" /\ Effective(s, old) # None
      THEN Outcome(p, "authorize", [NoScratch EXCEPT !.tree = tree, !.old = old])
      ELSE Publish(p, MeasuredEvent(s, tree, None, None))

\* bindPreparedReview reads the legacy file, prepares the approved binding,
\* reads the legacy file again and compares the binding revision.
BuildBind(p, s, r) ==
  Outcome(p, "authorize", [NoScratch EXCEPT !.old = LegacyRead(s, r)])

Built(p) ==
  LET s == Status
      r == client[p].request
  IN  CASE r.op = "begin" /\ CanBegin(s, r.scope) -> Publish(p, EventOf(tree, 0, FALSE, None, None))
        [] r.op = "reset" /\ CanReset(s) -> Publish(p, EventOf(tree, 0, FALSE, None, None))
        [] r.op = "finish" /\ CanFinish(s, r) -> BuildFinish(p, s, r)
        [] r.op = "bind" -> BuildBind(p, s, r)
        [] OTHER -> {}

\* Mutant: the review need not be of the candidate that was charged.
ReviewedAtAll(r, seen, current) ==
  GateAllows(IF Remediates(r) THEN r.remedy.lineage ELSE current.lineage)

\* The review of a passed attempt still stands and is of the charged candidate.
StillReviewed(r, seen, current) ==
  IF Remediates(r)
  THEN /\ GateAllows(r.remedy.lineage)
       /\ Succeeds(current, r.remedy.lineage)
       /\ BindingOf(r.remedy.lineage).tree = seen.tree
       /\ seen.old # None => legacy = seen.old
  ELSE GateAllows(current.lineage) /\ current.tree = seen.tree

AuthorizeFinish(p, s, r, seen) ==
  IF ~StillReviewed(r, seen, Effective(s, seen.old)) THEN {}
  ELSE IF Remediates(r)
       THEN Publish(p, MeasuredEvent(s, seen.tree, BindingOf(r.remedy.lineage), seen.old))
       ELSE Publish(p, MeasuredEvent(s, seen.tree, None, None))

AuthorizeBind(p, s, r, seen) ==
  IF ~GateAllows(r.lineage) \/ (s.binding = None /\ legacy # seen.old) THEN {}
  ELSE IF s.binding = BindingOf(r.lineage) THEN Outcome(p, "resync", NoScratch)
  ELSE IF r.expected # Effective(s, seen.old) THEN {}
  ELSE Publish(p, EventOf(None, 0, FALSE, BindingOf(r.lineage), seen.old))

Authorized(p) ==
  LET s == Status
      r == client[p].request
      seen == client[p].scratch
  IN  IF r.op = "finish" THEN AuthorizeFinish(p, s, r, seen) ELSE AuthorizeBind(p, s, r, seen)

\* An error of the callback releases the lock.
Take(p, outcomes) ==
  \/ /\ outcomes = {}
     /\ Answer(p)
  \/ /\ \E c \in outcomes : client' = [client EXCEPT ![p] = c]
     /\ lock' = p

\* Mutant: the lock is not waited for.
EnterUnlocked(p) ==
  /\ client[p].pc = "ready"
  /\ Status.valid
  /\ Known(head, client[p].request) = {}
  /\ Take(p, Built(p))
  /\ UNCHANGED <<ledger, told, world, issued, faults>>

\* mutate and bindPreparedReview: lock, load, look for the request, compare the
\* revision, and run the callback up to its first reading of the world.
Enter(p) ==
  /\ client[p].pc = "ready"
  /\ lock = None
  /\ LET r == client[p].request
         known == Known(head, r)
     IN  Take(p, IF ~Status.valid THEN {}
                 ELSE IF known # {}
                 THEN IF \A n \in known : SameRequest(p, n) THEN Outcome(p, "resync", NoScratch)
                      ELSE {}
                 ELSE IF r.op # "bind" /\ client[p].expected # head THEN {}
                 ELSE Built(p))
  /\ UNCHANGED <<ledger, told, world, issued, faults>>

Authorize(p) ==
  /\ client[p].pc = "authorize"
  /\ Take(p, Authorized(p))
  /\ UNCHANGED <<ledger, told, world, issued, faults>>

-----------------------------------------------------------------------------
(* commitRecordLocked.                                                      *)

NextChain(p) == Append(head, client[p].scratch.record)

\* Mutant: the directory of the records is not synced.
PublishUnsynced(p) ==
  /\ client[p].pc = "publish"
  /\ records' = records \cup {NextChain(p)}
  /\ UNCHANGED durable
  /\ Go(p, "replace")
  /\ UNCHANGED <<head, heads, lock, told, world, issued, faults>>

\* publishRecord: the record appears, and its directory is synced ...
PublishRecord(p) ==
  /\ client[p].pc = "publish"
  /\ records' = records \cup {NextChain(p)}
  /\ durable' = records'
  /\ Go(p, "replace")
  /\ UNCHANGED <<head, heads, lock, told, world, issued, faults>>

\* ... or the sync fails, and nothing was committed.
PublishFails(p) ==
  /\ client[p].pc = "publish"
  /\ faults < MaxFaults
  /\ faults' = faults + 1
  /\ records' = records \cup {NextChain(p)}
  /\ LeaveUnknown(p)
  /\ UNCHANGED <<head, heads, durable, told, world, issued>>

\* publishHead: one atomic rename.
ReplaceHead(p) ==
  /\ client[p].pc = "replace"
  /\ head' = NextChain(p)
  /\ heads' = heads \cup {NextChain(p)}
  /\ Go(p, "sync")
  /\ UNCHANGED <<records, durable, lock, told, world, issued, faults>>

\* The directory of HEAD is synced and the chain is loaded again.
SyncHead(p) ==
  /\ client[p].pc = "sync"
  /\ heads' = {head}
  /\ Answer(p)
  /\ told' = head
  /\ UNCHANGED <<head, records, durable, world, issued, faults>>

\* RuntimePublicationError: committed, not known to be durable.
SyncFails(p) ==
  /\ client[p].pc \in {"sync", "resync"}
  /\ faults < MaxFaults
  /\ faults' = faults + 1
  /\ LeaveUnknown(p)
  /\ UNCHANGED <<ledger, told, world, issued>>

\* Mutant: a replayed request is answered without the syncs.
ResyncNothing(p) ==
  /\ client[p].pc = "resync"
  /\ Answer(p)
  /\ told' = head
  /\ UNCHANGED <<ledger, world, issued, faults>>

\* syncReplay: a replayed request syncs both directories before its answer.
Resync(p) ==
  /\ client[p].pc = "resync"
  /\ durable' = records
  /\ heads' = {head}
  /\ Answer(p)
  /\ told' = head
  /\ UNCHANGED <<head, records, world, issued, faults>>

-----------------------------------------------------------------------------
(* Faults.                                                                  *)

\* A process is killed: the system releases its lock, its client knows nothing.
Kill(p) ==
  /\ client[p].pc \in Inside
  /\ faults < MaxFaults
  /\ faults' = faults + 1
  /\ LeaveUnknown(p)
  /\ UNCHANGED <<ledger, told, world, issued>>

\* A power loss: what was not synced may be gone.
PowerLoss ==
  /\ faults < MaxFaults
  /\ faults' = faults + 1
  /\ head' \in heads
  /\ heads' = {head'}
  /\ \E lost \in SUBSET (records \ durable) : records' = records \ lost
  /\ durable' = records'
  /\ client' = [p \in Process |->
                  IF client[p].pc \in Inside
                  THEN [client[p] EXCEPT !.pc = "unknown", !.scratch = NoScratch]
                  ELSE client[p]]
  /\ lock' = None
  /\ UNCHANGED <<told, world, issued>>

-----------------------------------------------------------------------------
(* The world around the ledger.                                             *)

Edit ==
  /\ edits < MaxEdits
  /\ edits' = edits + 1
  /\ \E t \in Tree \ {tree} : tree' = t
  /\ UNCHANGED <<ledger, lock, client, told, authority, legacy, issued, faults>>

Reviewed(l, r) ==
  /\ authority' = [authority EXCEPT ![l] = r]
  /\ UNCHANGED <<ledger, lock, client, told, legacy, tree, issued, faults>>

NoReview == [state |-> "none", tree |-> None, predecessor |-> None, changed |-> FALSE]

\* RECOVER of a leaf: an approved one is continued when its scope changed.
RecoverReview(l) ==
  /\ authority[l].state = "none"
  /\ \E m \in Lineage :
       /\ authority[m].state \in {"approved", "withdrawn"}
       /\ ~Superseded(m)
       /\ Reviewed(l, [state |-> "open", tree |-> None, predecessor |-> m,
                       changed |-> authority[m].state = "approved"])
  /\ UNCHANGED edits

\* A review is approved; a first one is not seen before, and START reuses the
\* approved review of a candidate that has one.
ApproveReview(l) ==
  /\ authority[l].state \in {"none", "open"}
  /\ authority[l].state = "none" => \A m \in Lineage : ~GateAllows(m)
  /\ UNCHANGED edits
  /\ Reviewed(l, [authority[l] EXCEPT !.state = "approved", !.tree = tree])

WithdrawReview(l) ==
  /\ authority[l].state = "approved"
  /\ ~Superseded(l)
  /\ authority[l].tree # tree
  /\ edits < MaxEdits
  /\ edits' = edits + 1
  /\ Reviewed(l, [authority[l] EXCEPT !.state = "withdrawn"])

\* An older version of the program writes its binding file.
BindLegacy(l) ==
  /\ GateAllows(l)
  /\ legacy # BindingOf(l)
  /\ legacy' = BindingOf(l)
  /\ edits < MaxEdits
  /\ edits' = edits + 1
  /\ UNCHANGED <<ledger, lock, client, told, authority, tree, issued, faults>>

-----------------------------------------------------------------------------
Init ==
  /\ head = <<>>
  /\ heads = {<<>>}
  /\ records = {}
  /\ durable = {}
  /\ lock = None
  /\ client = [p \in Process |-> NoClient]
  /\ told = <<>>
  /\ authority = [l \in Lineage |-> NoReview]
  /\ legacy = None
  /\ tree = StartTree
  /\ issued = 0
  /\ faults = 0
  /\ edits = 0

Proceed(p) ==
  \/ Retry(p) \/ Enter(p) \/ Authorize(p)
  \/ PublishRecord(p) \/ ReplaceHead(p) \/ SyncHead(p) \/ Resync(p)

Fault(p) == PublishFails(p) \/ SyncFails(p) \/ Kill(p)

World(l) == RecoverReview(l) \/ ApproveReview(l) \/ WithdrawReview(l) \/ BindLegacy(l)

Next ==
  \/ \E p \in Process : Issue(p) \/ Proceed(p) \/ Fault(p)
  \/ \E l \in Lineage : World(l)
  \/ Edit
  \/ PowerLoss

Spec == Init /\ [][Next]_vars

-----------------------------------------------------------------------------
(* Properties.                                                              *)

StatusTyped(s) ==
  /\ s.valid \in BOOLEAN /\ s.decision \in BOOLEAN /\ s.complete \in BOOLEAN
  /\ s.objective \in Scope \cup {None}
  /\ s.generation \in Nat /\ s.charged \in Nat /\ s.lines \in Nat /\ s.evidence \in Nat
  /\ s.attempts \in Seq(Attempt)
  /\ s.binding \in ReviewBinding \cup {None}

\* Types, and that exactly the process inside a mutation holds LOCK
\* (AcquireAuthorityFileLock in mutate and bindPreparedReview).
TypeOK ==
  /\ head \in Seq(Record)
  /\ heads \subseteq Seq(Record)
  /\ durable \subseteq records
  /\ records \subseteq Seq(Record)
  /\ client \in [Process -> Client]
  /\ \A p \in Process : client[p].pc \in Inside <=> lock = p
  /\ told \in Seq(Record)
  /\ authority \in [Lineage -> Review]
  /\ legacy \in ReviewBinding \cup {None}
  /\ tree \in Tree
  /\ StatusTyped(Status)
  /\ issued \in 0 .. MaxRequests /\ faults \in 0 .. MaxFaults /\ edits \in 0 .. MaxEdits

\* What the callbacks of Begin, Finish, Reset and bind let through, replay
\* (applyRuntimeRecord, a predicate of its own) accepts: no committed record
\* makes the chain unreadable, whatever moved while it was built.
HeadReplays == \A h \in heads : Replay(h).valid

\* Whatever HEAD a power loss leaves, every record of its chain is on disk
\* (publishRecord syncs before publishHead renames).
NothingDangles == \A h \in heads : \A n \in 1 .. Len(h) : Prefix(h, n) \in durable

\* The lines of the attempts i .. j.
Total(attempts, i, j) ==
  LET sum[n \in i - 1 .. j] == IF n = i - 1 THEN 0 ELSE sum[n - 1] + attempts[n].lines
  IN  sum[j]

FirstOf(attempts, i) ==
  CHOOSE k \in 1 .. i : /\ attempts[k].generation = attempts[i].generation
                        /\ k = 1 \/ attempts[k - 1].generation # attempts[i].generation

\* An objective never gets an attempt beyond its attempts, nor one after its
\* lines are used up, across crashes and replays; and what one attempt leaves
\* is what the next one starts from, so no change escapes the charge.
BudgetHeld ==
  LET attempts == Status.attempts
  IN  \A i \in 1 .. Len(attempts) :
        LET first == FirstOf(attempts, i)
            scope == attempts[i].scope
        IN  /\ i - first < MaxAttempts[scope]
            /\ i > first =>
                 /\ attempts[first].scope = scope
                 /\ Total(attempts, first, i - 1) < MaxLines[scope]
                 /\ attempts[i].begin = attempts[i - 1].finish

\* An attempt that completes a bound objective leaves it bound to a review of
\* the candidate it finished with: the bound one, or a scope-changed recovery
\* of it that was selected in the same record (Finish, "atomic remediation").
CompletionReviewed ==
  [][Len(head') > Len(head) /\ ~Status.complete /\ Status'.complete /\ Status'.binding # None =>
       /\ Status'.binding.tree = LastAttempt(Status').finish
       /\ Status.binding \notin {None, Status'.binding} =>
            Status.binding.lineage \in ScopeChain(Status'.binding.lineage)]_head

Log == INSTANCE RuntimeLog WITH
  IdOf <- RequestId,
  log <- [n \in 1 .. Len(head) |-> head[n].request],
  settled <- Len(told)

\* Requests take effect at most once and in one order, and what a client was
\* told of survives every crash, failed sync and power loss.
PromiseKept == Log!Spec

=============================================================================
