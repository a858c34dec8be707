-------------------------- MODULE CompactAuthority --------------------------
(***************************************************************************)
(* The compact-v2 authority store of one repository: one directory entry   *)
(* per lineage under review-transactions/v2, one exclusive version LOCK,   *)
(* and the commands that read and write the entries from different         *)
(* processes (internal/reviewtransaction: compact_store.go,                *)
(* compact_approved_invalidation.go, compact_abandon.go,                   *)
(* final_verification_retry.go; internal/cli: review_facade.go).           *)
(*                                                                         *)
(* A command that loads and writes inside one hold of LOCK is one action:  *)
(* its only file replacement is an atomic rename.  What is split is what   *)
(* the code does outside the lock, or in two writes: FINALIZE and the      *)
(* maintainer commands plan on a record they read without the lock, and    *)
(* an approved invalidation writes the state and then removes the receipt. *)
(*                                                                         *)
(* Data.  CompactLifecycle models the record in full; here its content is  *)
(* the part that decides which operation may follow.  A revision is a      *)
(* checksum of the content, so it is modelled by the content itself.       *)
(***************************************************************************)
EXTENDS Integers, FiniteSets

CONSTANTS
  Lineage,     \* lineage identifiers
  Process,     \* running commands that hold a record they read earlier
  Slot,        \* the lenses that a review selects, in their order
  MaxReopens,  \* bound: reviewer-result reopens of a lineage
  None         \* no lineage, process, slot, record or receipt

ASSUME NoneAssumption == None \notin Lineage \cup Process \cup Slot
ASSUME BoundAssumption == MaxReopens \in Nat

VARIABLES
  authority,  \* the record in each entry, or None
  journals,   \* the entries holding a finalize journal
  results,    \* the slots of entries that hold a captured reviewer result
  receipt,    \* the content each published receipt was derived from, or None
  lock,       \* the process inside a two-write critical section, or None
  command     \* per process: the running command, its lineage and record

vars == <<authority, journals, results, receipt, lock, command>>

-----------------------------------------------------------------------------
(* Records.                                                                 *)

State == {"reviewing", "correction_required", "validating",
          "approved", "escalated", "invalidated"}
Disposition == {"scope_changed", "invalidated", "escalated", "final_verification_retry"}

Content ==
  [state      : State,
   generation : Nat \ {0},
   forecast   : BOOLEAN,   \* ProposedCorrectionLines is set
   corrected  : BOOLEAN,   \* the correction attempt is spent
   verified   : BOOLEAN,   \* EvidenceHash is set
   disposed   : Slot \cup {None},  \* the one in ResultDispositions
   denied     : BOOLEAN,   \* InvalidationEvidence is set
   reopens    : 0 .. MaxReopens]

\* A recovery names its predecessor and the revision it was decided on.
Recovery == [predecessor : Lineage, revision : Content, disposition : Disposition]

Record == [content : Content, recovery : Recovery \cup {None}]

ASSUME RecordsAssumption ==
  None \notin Content /\ None \notin Recovery /\ None \notin Record

FirstContent ==
  [state |-> "reviewing", generation |-> 1, forecast |-> FALSE,
   corrected |-> FALSE, verified |-> FALSE, disposed |-> None,
   denied |-> FALSE, reopens |-> 0]

\* Mutant: the first generation is not counted.
UncountedContent(generation) == [FirstContent EXCEPT !.generation = generation - 1]

NewContent(generation) == [FirstContent EXCEPT !.generation = generation]

Present == {l \in Lineage : authority[l] # None}
StateOf(l) == IF authority[l] = None THEN "absent" ELSE authority[l].content.state

\* DiscoverCompactStores lists every entry that holds more than temporaries.
Captured == {l \in Lineage : \E s \in Slot : <<l, s>> \in results}
Entries == Present \cup journals \cup Captured

\* The lineages of S that continue l.
Children(S, l) ==
  {m \in S : authority[m].recovery # None /\ authority[m].recovery.predecessor = l}

-----------------------------------------------------------------------------
(* The graph of recoveries, as compactAuthorityLeaves reads it.             *)

RecoverableAs(c, disposition) ==
  CASE disposition = "scope_changed" -> c.state \in {"approved", "correction_required"}
    [] disposition = "invalidated" -> c.state = "invalidated"
    [] disposition = "escalated" -> c.state = "escalated"
    [] OTHER -> c.state = "escalated" /\ c.verified

\* A retry must still be the clone its predecessor gives.
RetryClone(c) == [c EXCEPT !.state = "validating", !.verified = FALSE,
                           !.generation = @ + 1]

validateCompactRecoveryEdge(p, s, disposition) ==
  /\ s.generation = p.generation + 1
  /\ RecoverableAs(p, disposition)
  /\ disposition = "final_verification_retry" => s = RetryClone(p)

EdgeIntact(S, m) ==
  LET recovery == authority[m].recovery
      p == recovery.predecessor
  IN  /\ p \in S
      /\ authority[p].content = recovery.revision
      /\ validateCompactRecoveryEdge(authority[p].content, authority[m].content,
                                     recovery.disposition)
      /\ Children(S, p) = {m}

\* An entry without a state file, or one bad edge, refuses the whole graph.
GraphValid(S) == \A m \in S : authority[m].recovery # None => EdgeIntact(S, m)

GraphReadable == journals \cup Captured \subseteq Present /\ GraphValid(Present)

Leaf(l) == l \in Present /\ Children(Present, l) = {}

-----------------------------------------------------------------------------
(* Transitions of one content that ReplaceContext can commit.               *)

Pristine(c) == c.state = "reviewing"
CompleteReview(c) ==
  IF c.state # "reviewing" THEN {}
  ELSE {[c EXCEPT !.state = to] : to \in {"correction_required", "validating", "escalated"}}

BeginCorrection(c) ==
  IF c.state # "correction_required" \/ c.corrected \/ c.forecast THEN {}
  ELSE {[c EXCEPT !.forecast = TRUE, !.state = to] :
          to \in {"correction_required", "escalated"}}

CompleteCorrection(c) ==
  IF c.state # "correction_required" \/ c.corrected \/ ~c.forecast THEN {}
  ELSE {[c EXCEPT !.corrected = TRUE, !.state = to] : to \in {"validating", "escalated"}}

CompleteVerification(c) ==
  IF c.state # "validating" THEN {}
  ELSE {[c EXCEPT !.verified = TRUE, !.state = to] : to \in {"approved", "escalated"}}

FinalizeSteps(c) ==
  CompleteReview(c) \cup BeginCorrection(c) \cup CompleteCorrection(c)
  \cup CompleteVerification(c)

Invalidate(c) == IF Pristine(c) THEN {[c EXCEPT !.state = "invalidated"]} ELSE {}

DisposeResult(c, s) == [c EXCEPT !.state = "escalated", !.disposed = s]

ReopenResults(c) ==
  IF c.state # "validating" \/ c.forecast \/ c.corrected \/ c.reopens = MaxReopens THEN {}
  ELSE {[c EXCEPT !.state = "reviewing", !.reopens = @ + 1]}

Terminal(c) == c.state \in {"approved", "escalated"}

-----------------------------------------------------------------------------
(* Commands.                                                                *)

Idle == [name |-> "idle", lineage |-> None, held |-> None, stage |-> "none"]

Command ==
  {Idle}
  \cup [name : {"finalize"}, lineage : Lineage, held : Record,
        stage : {"read", "begun", "terminal"}]
  \cup [name : {"maintain"}, lineage : Lineage, held : Record, stage : {"read"}]
  \cup [name : {"invalidate"}, lineage : Lineage, held : Record, stage : {"written"}]

Unlocked == lock = None

Publish(l, record) == authority' = [authority EXCEPT ![l] = record]

\* Mutant: the last writer wins.
AnyRevision(p) == command[p].lineage \in Present

\* The compare-and-swap on the revision of the record that p read.
RevisionCurrent(p) == authority[command[p].lineage] = command[p].held

\* replaceContextGuarded, under LOCK.  It looks at one entry only: whether
\* that lineage was superseded in the meantime is not checked again.  A state
\* that is already stored is accepted and not written twice.
ReplaceContext(p, next) ==
  LET l == command[p].lineage
      record == [command[p].held EXCEPT !.content = next]
  IN  /\ Unlocked
      /\ \/ authority[l] = record /\ UNCHANGED authority
         \/ authority[l] # record /\ RevisionCurrent(p) /\ Publish(l, record)

Init ==
  /\ authority = [l \in Lineage |-> None]
  /\ journals = {}
  /\ results = {}
  /\ receipt = [l \in Lineage |-> None]
  /\ lock = None
  /\ command = [p \in Process |-> Idle]

\* StartCompactAuthority: no existing leaf claims the requested target.
Start(l) ==
  /\ Unlocked /\ l \notin Entries
  /\ GraphReadable
  /\ Publish(l, [content |-> NewContent(1), recovery |-> None])
  /\ UNCHANGED <<journals, results, receipt, lock, command>>

\* Mutant: the check for an existing successor is left out.
UnsupersededAlready(l) == TRUE

Unsuperseded(l) == Children(Present, l) = {}

\* RecoverCompactAuthority: the predecessor stays as it is, the successor is
\* new.  A fresh one reviews again; one that imports the evidence of an
\* accounting-only escalation goes straight to validating.
Recover(l, m, disposition) ==
  LET p == authority[l].content
      fresh == NewContent(p.generation + 1)
      imported == [fresh EXCEPT !.state = "validating", !.forecast = TRUE, !.corrected = TRUE]
      successors == {fresh} \cup (IF disposition = "escalated" /\ p.corrected /\ ~p.verified
                                    THEN {imported} ELSE {})
  IN  /\ Unlocked /\ l \in Present /\ m \notin Entries
      /\ disposition # "final_verification_retry"
      /\ RecoverableAs(p, disposition)
      /\ GraphReadable /\ Unsuperseded(l)
      /\ \E s \in successors :
           Publish(m, [content |-> s,
                       recovery |-> [predecessor |-> l, revision |-> p,
                                     disposition |-> disposition]])
      /\ UNCHANGED <<journals, results, receipt, lock, command>>

\* One retry in a whole ancestry: finalVerificationRetryAncestryEligible.
RetryUnspent(l) ==
  \E ancestry \in SUBSET Present :
    /\ l \in ancestry
    /\ \A m \in ancestry :
         authority[m].recovery # None =>
           /\ authority[m].recovery.predecessor \in ancestry
           /\ authority[m].recovery.disposition # "final_verification_retry"

\* RetryCompactFinalVerification: the predecessor failed its verification and
\* its receipt and finalize journal prove it.
RetryFinalVerification(l, m) ==
  LET p == authority[l].content
  IN  /\ Unlocked /\ l \in Present /\ m \notin Entries
      /\ RecoverableAs(p, "final_verification_retry")
      /\ receipt[l] = p /\ l \in journals
      /\ GraphReadable /\ Unsuperseded(l) /\ RetryUnspent(l)
      /\ Publish(m, [content |-> RetryClone(p),
                     recovery |-> [predecessor |-> l, revision |-> p,
                                   disposition |-> "final_verification_retry"]])
      /\ UNCHANGED <<journals, results, receipt, lock, command>>

\* CaptureReviewerResult publishes an artifact and leaves the revision alone.
CaptureReviewerResult(l, s) ==
  /\ Unlocked
  /\ StateOf(l) = "reviewing"
  /\ results' = results \cup {<<l, s>>}
  /\ UNCHANGED <<authority, journals, receipt, lock, command>>

\* AbandonPristineCompactStore moves the whole entry into quarantine.  (The
\* audit record it writes before and after the move is not modelled.)
AbandonPristine(l) ==
  /\ Unlocked
  /\ l \in Present
  /\ \/ Pristine(authority[l].content)
     \/ StateOf(l) = "invalidated" /\ ~authority[l].content.denied
  /\ l \notin journals \cup Captured /\ receipt[l] = None
  /\ Entries = Present
  /\ Unsuperseded(l) /\ GraphValid(Present \ {l})
  /\ Publish(l, None)
  /\ UNCHANGED <<journals, results, receipt, lock, command>>

-----------------------------------------------------------------------------
(* Commands that read first and write later.                                *)

Run(p, name, l, stage) ==
  command' = [command EXCEPT ![p] = [name |-> name, lineage |-> l,
                                     held |-> authority[l], stage |-> stage]]

Finish(p) == command' = [command EXCEPT ![p] = Idle]

Running(p, name, stage) == command[p].name = name /\ command[p].stage = stage

\* FINALIZE loads the record and checks that it is a leaf, without LOCK.
FinalizeRead(p, l) ==
  /\ command[p] = Idle
  /\ StateOf(l) # "invalidated"
  /\ Leaf(l) /\ GraphReadable
  /\ Run(p, "finalize", l, IF Terminal(authority[l].content) THEN "terminal" ELSE "read")
  /\ UNCHANGED <<authority, journals, results, receipt, lock>>

\* ReconcileFinalizeAttempt journals the request.  It does not look whether
\* the entry still holds a record, and creates the directory if it must.
FinalizeBegin(p) ==
  /\ Running(p, "finalize", "read")
  /\ Unlocked
  /\ journals' = journals \cup {command[p].lineage}
  /\ command' = [command EXCEPT ![p].stage = "begun"]
  /\ UNCHANGED <<authority, results, receipt, lock>>

\* One planned transition.  A forecast is the last one of its command.
FinalizeStep(p) ==
  /\ Running(p, "finalize", "begun")
  /\ \E next \in FinalizeSteps(command[p].held.content) :
       /\ ReplaceContext(p, next)
       /\ IF next.state = "correction_required" /\ next.forecast
            THEN Finish(p)
            ELSE command' = [command EXCEPT
                   ![p].held.content = next,
                   ![p].stage = IF Terminal(next) THEN "terminal" ELSE "begun"]
  /\ UNCHANGED <<journals, results, receipt, lock>>

\* Mutant: the receipt of the record that was read is written as it is.
HeldReceipt(l) ==
  {command[p].held.content : p \in {q \in Process : command[q].lineage = l}}

\* The receipts that WriteReceipt accepts: the one the authority derives now.
DerivableReceipts(l) ==
  IF l \in Present /\ Terminal(authority[l].content) THEN {authority[l].content} ELSE {}

FinalizeReceipt(p) ==
  LET l == command[p].lineage
      content == command[p].held.content
  IN  /\ Running(p, "finalize", "terminal")
      /\ Unlocked
      /\ content \in DerivableReceipts(l)
      /\ receipt' = [receipt EXCEPT ![l] = content]
      /\ journals' = journals \cup {l}
      /\ Finish(p)
      /\ UNCHANGED <<authority, results, lock>>

\* review invalidate, dispose-result and reopen-results: no leaf check.
MaintainRead(p, l) ==
  /\ command[p] = Idle
  /\ StateOf(l) \in {"reviewing", "validating"}
  /\ Run(p, "maintain", l, "read")
  /\ UNCHANGED <<authority, journals, results, receipt, lock>>

\* Mutant: only the look before LOCK was taken asks for captured results.
DisposableUnguarded(c, l) == {s \in Slot : c.state = "reviewing"}

\* compactRefuseCapturedLens, repeated under LOCK: a capture since the record
\* was read has not changed its revision.
Disposable(c, l) == {s \in Slot : c.state = "reviewing" /\ <<l, s>> \notin results}

\* The reopen is guarded under LOCK as well: no receipt, and an artifact in
\* every slot.
Reopenable(l) == receipt[l] = None /\ {l} \X Slot \subseteq results

MaintainCommit(p) ==
  LET l == command[p].lineage
      c == command[p].held.content
      disposed == {DisposeResult(c, s) : s \in Disposable(c, l)}
      reopened == IF Reopenable(l) THEN ReopenResults(c) ELSE {}
  IN  /\ Running(p, "maintain", "read")
      /\ \E next \in Invalidate(c) \cup disposed \cup reopened : ReplaceContext(p, next)
      /\ Finish(p)
      /\ UNCHANGED <<journals, results, receipt, lock>>

\* Mutant: the gate that denies an approval does not ask who superseded it.
LiveTargetDenied(l) == TRUE

\* The denial is bound to the record only for a leaf of a readable graph.
DenialBound(l) == GraphReadable /\ Leaf(l)

Denied(c) == [c EXCEPT !.state = "invalidated", !.denied = TRUE]

\* InvalidateApprovedCompactAuthority: the state first, then the receipt.
InvalidateApproved(p, l) ==
  LET record == [authority[l] EXCEPT !.content = Denied(@)]
  IN  /\ command[p] = Idle /\ Unlocked
      /\ StateOf(l) = "approved"
      /\ receipt[l] = authority[l].content
      /\ DenialBound(l)
      /\ Publish(l, record)
      /\ lock' = p
      /\ command' = [command EXCEPT ![p] = [name |-> "invalidate", lineage |-> l,
                                            held |-> record, stage |-> "written"]]
      /\ UNCHANGED <<journals, results, receipt>>

RemoveReceipt(p) ==
  /\ Running(p, "invalidate", "written")
  /\ receipt' = [receipt EXCEPT ![command[p].lineage] = None]
  /\ lock' = None
  /\ Finish(p)
  /\ UNCHANGED <<authority, journals, results>>

\* The exact replay of an invalidation that was cut off between its writes.
ReplayInvalidation(l) ==
  /\ Unlocked
  /\ StateOf(l) = "invalidated" /\ authority[l].content.denied
  /\ receipt' = [receipt EXCEPT ![l] = None]
  /\ UNCHANGED <<authority, journals, results, lock, command>>

\* A command is refused, or its process dies; the system drops its lock.
Quit(p) ==
  /\ command[p] # Idle
  /\ Finish(p)
  /\ lock' = IF lock = p THEN None ELSE lock
  /\ UNCHANGED <<authority, journals, results, receipt>>

Next ==
  \/ \E l \in Lineage : \/ Start(l)
                       \/ \E s \in Slot : CaptureReviewerResult(l, s)
                       \/ AbandonPristine(l)
                       \/ ReplayInvalidation(l)
  \/ \E l, m \in Lineage : \/ \E d \in Disposition : Recover(l, m, d)
                          \/ RetryFinalVerification(l, m)
  \/ \E p \in Process : \/ FinalizeBegin(p)
                       \/ FinalizeStep(p)
                       \/ FinalizeReceipt(p)
                       \/ MaintainCommit(p)
                       \/ RemoveReceipt(p)
                       \/ Quit(p)
  \/ \E p \in Process, l \in Lineage : \/ FinalizeRead(p, l)
                                     \/ MaintainRead(p, l)
                                     \/ InvalidateApproved(p, l)

Spec == Init /\ [][Next]_vars

-----------------------------------------------------------------------------
(* Properties.                                                              *)

\* Every entry, receipt and running command has its type.
TypeOK ==
  /\ authority \in [Lineage -> Record \cup {None}]
  /\ journals \subseteq Lineage
  /\ results \subseteq Lineage \X Slot
  /\ receipt \in [Lineage -> Content \cup {None}]
  /\ lock \in Process \cup {None}
  /\ command \in [Process -> Command]

\* Whatever commands run at the same time, the recoveries form a forest: a
\* successor never outlives its predecessor's entry, is one generation
\* younger, and is its only successor (docs/review-authority-threat-model.md
\* :90: forks and dangling links make every discovery fail closed).
RecoveriesFormForest ==
  \A m \in Present :
    LET recovery == authority[m].recovery
    IN  recovery # None =>
          /\ recovery.predecessor \in Present
          /\ authority[m].content.generation =
               authority[recovery.predecessor].content.generation + 1
          /\ Children(Present, recovery.predecessor) = {m}

\* A superseded approval, invalidation or escalation is frozen: no command
\* that read it earlier can still change the revision its successor names.
\* (A superseded correction is not: see SupersededNeverAdvances.)
TerminalHistoryFrozen ==
  \A m \in Present :
    LET recovery == authority[m].recovery
    IN  recovery # None /\ recovery.revision.state # "correction_required" =>
          authority[recovery.predecessor].content = recovery.revision

\* A published receipt is the one its authority derives, or the receipt of
\* an approval that was just withdrawn and is about to lose it: a late
\* finalizer never publishes the receipt of a record that moved on.
ReceiptBindsAuthority ==
  \A l \in Lineage :
    receipt[l] # None =>
      /\ l \in Present
      /\ authority[l].content \in {receipt[l], Denied(receipt[l])}

\* A reviewer result that was captured is never disposed of, although its
\* capture moves no revision that a disposition decided earlier could miss
\* (DisposeUnreplayablePreservedResult: "a valid capture is never
\* dispositioned").
CapturedNeverDisposed ==
  \A l \in Present : <<l, authority[l].content.disposed>> \notin results

\* Each lineage lives the life that ReviewAuthority allows.
Promise == INSTANCE ReviewAuthority
             WITH phase <- [l \in Lineage |-> StateOf(l)],
                  sealed <- {l \in Lineage : receipt[l] # None}
PromiseKept == Promise!Spec

\* cli/review_facade.go:1320 refuses a finalize of a superseded lineage, and
\* docs/review-authority-threat-model.md:89 says that a recovery leaves
\* history as it is: no predecessor moves on after its successor exists.
SupersededNeverAdvances ==
  \A m \in Present :
    authority[m].recovery # None =>
      authority[authority[m].recovery.predecessor].content = authority[m].recovery.revision

\* compact_abandon.go:54 says of an abandoned entry that it "moves whole" and
\* "leaves the walked inventory": every entry that discovery walks is a record.
WalkedEntriesAreRecords == Entries = Present

=============================================================================
