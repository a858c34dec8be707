----------------------- MODULE CompactAuthority_proofs -----------------------
(***************************************************************************)
(* What CompactAuthority promises, for any number of lineages, lenses and  *)
(* concurrent commands and any bound on reopens.                           *)
(*                                                                         *)
(* The properties of the store hold each other up: a receipt binds its     *)
(* record because a settled record has no further step, the history of a   *)
(* recovery is frozen for the same reason, and a withdrawn approval may    *)
(* lose its receipt because the process that withdrew it holds the lock.   *)
(* IInv says all of it at once.  A step of the store makes a new entry,    *)
(* moves the content of one entry, removes one, or leaves them alone; the  *)
(* lemmas below are about these three changes.                             *)
(***************************************************************************)
EXTENDS CompactAuthority, TLAPS

-----------------------------------------------------------------------------
(* The inductive invariant.                                                 *)

Unsettled == {"reviewing", "correction_required", "validating"}

\* A disposition escalates a review that has seen no evidence, and evidence
\* comes with the verdict.
ContentSound(c) ==
  /\ c.disposed # None => c.state = "escalated" /\ ~c.verified
  /\ c.state \in Unsettled => ~c.verified

ContentsSound == \A l \in Present : ContentSound(authority[l].content)

\* What was recovered had come to a halt, or needed a correction.
RecoveredStates ==
  \A l \in Present :
    authority[l].recovery # None =>
      authority[l].recovery.revision.state
        \in {"approved", "escalated", "invalidated", "correction_required"}

ReceiptsSettled == \A l \in Lineage : receipt[l] # None => Terminal(receipt[l])

\* Between its two writes the process that withdraws an approval is alone.
WithdrawalsLocked ==
  \A p \in Process :
    command[p].name = "invalidate" =>
      lock = p /\ StateOf(command[p].lineage) = "invalidated"

StoreInv ==
  /\ RecoveriesFormForest
  /\ TerminalHistoryFrozen
  /\ ReceiptBindsAuthority
  /\ CapturedNeverDisposed
  /\ ContentsSound
  /\ RecoveredStates
  /\ ReceiptsSettled

IInv == TypeOK /\ StoreInv /\ WithdrawalsLocked

-----------------------------------------------------------------------------
(* Records and the steps of their content.                                  *)

\* An entry is present when it holds a record.
LEMMA PresentRecord ==
  ASSUME TypeOK, NEW l \in Lineage
  PROVE  /\ l \in Present <=> authority[l] \in Record
         /\ l \in Present => /\ authority[l].content \in Content
                             /\ authority[l].recovery \in Recovery \cup {None}
<1>1. l \in Present <=> authority[l] \in Record
  BY RecordsAssumption DEF TypeOK, Present
<1> QED
  BY <1>1 DEF Record

\* The state of a lineage is the one of its record.
LEMMA StateOfPresent ==
  ASSUME TypeOK, NEW l \in Lineage
  PROVE  /\ StateOf(l) # "absent" <=> l \in Present
         /\ l \in Present => StateOf(l) = authority[l].content.state
  BY PresentRecord DEF StateOf, Present, Content, State

\* A first review and a retry are well formed.
LEMMA NewContentType ==
  ASSUME NEW g \in Nat \ {0}
  PROVE  NewContent(g) \in Content /\ ContentSound(NewContent(g))
<1>1. FirstContent \in Content
  BY BoundAssumption DEF FirstContent, Content, State
<1>2. NewContent(g) \in Content
  BY <1>1 DEF NewContent, Content
<1>3. ContentSound(NewContent(g))
  BY DEF NewContent, FirstContent, ContentSound, Unsettled
<1> QED
  BY <1>2, <1>3

\* The record of a retried final verification: one generation on, unverified
\* again.
LEMMA RetryCloneType ==
  ASSUME NEW c \in Content, ContentSound(c), c.verified
  PROVE  /\ RetryClone(c) \in Content
         /\ ContentSound(RetryClone(c))
         /\ RetryClone(c).state = "validating"
         /\ RetryClone(c).generation = c.generation + 1
         /\ RetryClone(c).disposed = None
<1> DEFINE g == c.generation + 1
<1>1. g \in Nat \ {0}
  BY DEF Content
<1> HIDE DEF g
<1>2. [c EXCEPT !.state = "validating", !.verified = FALSE, !.generation = g] \in Content
  BY <1>1 DEF Content, State
<1>3. RetryClone(c) = [c EXCEPT !.state = "validating", !.verified = FALSE, !.generation = g]
  BY DEF RetryClone, g
<1>4. ContentSound(RetryClone(c)) /\ RetryClone(c).disposed = None
  BY <1>3 DEF Content, ContentSound, Unsettled
<1> QED
  BY <1>2, <1>3, <1>4 DEF Content, g

\* What the commands that read first and write later can make of a content.
Steps(c) ==
  FinalizeSteps(c) \cup Invalidate(c) \cup ReopenResults(c)
  \cup {DisposeResult(c, s) : s \in {t \in Slot : c.state = "reviewing"}}

StepMove(from, to) ==
  \/ from = "reviewing"
     /\ to \in {"correction_required", "validating", "escalated", "invalidated"}
  \/ from = "correction_required" /\ to \in {"correction_required", "validating", "escalated"}
  \/ from = "validating" /\ to \in {"approved", "escalated", "reviewing"}

\* A step moves an unsettled content along and keeps its generation; only a
\* disposition disposes.
LEMMA StepShape ==
  ASSUME NEW c \in Content, NEW next \in Steps(c)
  PROVE  /\ next \in Content
         /\ next.generation = c.generation
         /\ c.state \in Unsettled
         /\ StepMove(c.state, next.state)
         /\ next.state \in Unsettled => next.verified = c.verified
         /\ \/ next.disposed = c.disposed
            \/ \E s \in Slot : c.state = "reviewing" /\ next = DisposeResult(c, s)
<1> USE DEF Content, State, Unsettled, StepMove
<1>1. CASE next \in CompleteReview(c)
  BY <1>1 DEF CompleteReview
<1>2. CASE next \in BeginCorrection(c)
  <2>1. c.state = "correction_required"
    BY <1>2 DEF BeginCorrection
  <2>2. PICK to \in {"correction_required", "escalated"} :
          next = [c EXCEPT !.forecast = TRUE, !.state = to]
    BY <1>2 DEF BeginCorrection
  <2> QED
    BY <2>1, <2>2
<1>3. CASE next \in CompleteCorrection(c)
  <2>1. c.state = "correction_required"
    BY <1>3 DEF CompleteCorrection
  <2>2. PICK to \in {"validating", "escalated"} :
          next = [c EXCEPT !.corrected = TRUE, !.state = to]
    BY <1>3 DEF CompleteCorrection
  <2> QED
    BY <2>1, <2>2
<1>4. CASE next \in CompleteVerification(c)
  <2>1. c.state = "validating"
    BY <1>4 DEF CompleteVerification
  <2>2. PICK to \in {"approved", "escalated"} :
          next = [c EXCEPT !.verified = TRUE, !.state = to]
    BY <1>4 DEF CompleteVerification
  <2> QED
    BY <2>1, <2>2
<1>5. CASE next \in Invalidate(c)
  BY <1>5 DEF Invalidate, Pristine
<1>6. CASE next \in ReopenResults(c)
  <2>1. c.state = "validating" /\ c.reopens # MaxReopens
    BY <1>6 DEF ReopenResults
  <2> DEFINE r == c.reopens + 1
  <2>2. next = [c EXCEPT !.state = "reviewing", !.reopens = r]
    BY <1>6 DEF ReopenResults
  <2>3. r \in 0 .. MaxReopens
    BY <2>1, BoundAssumption
  <2> HIDE DEF r
  <2> QED
    BY <2>1, <2>2, <2>3
<1>7. CASE \E s \in Slot : c.state = "reviewing" /\ next = DisposeResult(c, s)
  BY <1>7 DEF DisposeResult
<1> QED
  BY <1>1, <1>2, <1>3, <1>4, <1>5, <1>6, <1>7 DEF Steps, FinalizeSteps

\* A step of an unsettled record leads to a sound one, and only a reviewing
\* record disposes of results.
LEMMA StepSound ==
  ASSUME NEW c \in Content, ContentSound(c), NEW next \in Steps(c)
  PROVE  /\ ContentSound(next)
         /\ \/ next.disposed = None
            \/ \E s \in Slot : c.state = "reviewing" /\ next = DisposeResult(c, s)
<1>1. /\ c.state \in Unsettled
      /\ next.state \in Unsettled => next.verified = c.verified
      /\ \/ next.disposed = c.disposed
         \/ \E s \in Slot : c.state = "reviewing" /\ next = DisposeResult(c, s)
  BY StepShape
<1>2. ~c.verified /\ c.disposed = None
  BY <1>1 DEF ContentSound, Unsettled
<1>3. CASE next.disposed = c.disposed
  BY <1>1, <1>2, <1>3 DEF ContentSound
<1>4. CASE \E s \in Slot : c.state = "reviewing" /\ next = DisposeResult(c, s)
  <2>1. next.state = "escalated" /\ next.verified = c.verified
    BY <1>4 DEF DisposeResult, Content
  <2> QED
    BY <1>2, <1>4, <2>1 DEF ContentSound, Unsettled
<1> QED
  BY <1>1, <1>3, <1>4

-----------------------------------------------------------------------------
(* Three changes of the entries: a new one, one that moves, one that goes.  *)

\* The new entry m begins a forest tree of its own or continues a lineage
\* that nothing continues yet.
NewEntry(m, record) ==
  /\ m \in Lineage \ Present
  /\ record \in Record
  /\ authority' = [authority EXCEPT ![m] = record]

\* The content of the entry l takes one step.
MovedEntry(l, next) ==
  /\ l \in Present
  /\ authority' = [authority EXCEPT ![l] = [authority[l] EXCEPT !.content = next]]

GoneEntry(l) ==
  /\ l \in Present
  /\ authority' = [authority EXCEPT ![l] = None]

\* A new entry is the only one that changes.
LEMMA NewEntryFacts ==
  ASSUME TypeOK, NEW m, NEW record, NewEntry(m, record)
  PROVE  /\ authority' \in [Lineage -> Record \cup {None}]
         /\ authority'[m] = record
         /\ \A l \in Lineage \ {m} : authority'[l] = authority[l]
         /\ Present' = Present \cup {m}
  BY RecordsAssumption DEF NewEntry, TypeOK, Present

\* An entry that moves keeps its recovery, and every other entry.
LEMMA MovedEntryFacts ==
  ASSUME TypeOK, NEW l \in Lineage, NEW next \in Content, MovedEntry(l, next)
  PROVE  /\ authority' \in [Lineage -> Record \cup {None}]
         /\ authority'[l].content = next
         /\ authority'[l].recovery = authority[l].recovery
         /\ \A m \in Lineage \ {l} : authority'[m] = authority[m]
         /\ Present' = Present
<1>1. authority[l] \in Record
  BY PresentRecord DEF MovedEntry
<1>2. [authority[l] EXCEPT !.content = next] \in Record
  BY <1>1 DEF Record
<1> QED
  BY <1>1, <1>2, RecordsAssumption DEF MovedEntry, TypeOK, Present, Record

\* An entry that goes is the only one that changes.
LEMMA GoneEntryFacts ==
  ASSUME TypeOK, NEW l \in Lineage, GoneEntry(l)
  PROVE  /\ authority' \in [Lineage -> Record \cup {None}]
         /\ authority'[l] = None
         /\ \A m \in Lineage \ {l} : authority'[m] = authority[m]
         /\ Present' = Present \ {l}
  BY DEF GoneEntry, TypeOK, Present

\* The forest grows by a tree, or by the only successor of a lineage.
LEMMA ForestGrows ==
  ASSUME TypeOK, RecoveriesFormForest, NEW m, NEW record, NewEntry(m, record),
         record.recovery # None =>
           /\ record.recovery.predecessor \in Present
           /\ Children(Present, record.recovery.predecessor) = {}
           /\ record.content.generation =
                authority[record.recovery.predecessor].content.generation + 1
  PROVE  RecoveriesFormForest'
<1>1. /\ authority'[m] = record /\ Present' = Present \cup {m} /\ m \notin Present
      /\ \A l \in Present : authority'[l] = authority[l]
  BY NewEntryFacts DEF NewEntry, Present
<1> SUFFICES ASSUME NEW n \in Present', authority'[n].recovery # None,
                    NEW p, p = authority'[n].recovery.predecessor
             PROVE  /\ p \in Present'
                    /\ authority'[n].content.generation = authority'[p].content.generation + 1
                    /\ {k \in Present' : /\ authority'[k].recovery # None
                                         /\ authority'[k].recovery.predecessor = p} = {n}
  BY DEF RecoveriesFormForest, Children
<1>2. p \in Present
  BY <1>1 DEF RecoveriesFormForest
<1>3. authority'[n].content.generation = authority'[p].content.generation + 1
  BY <1>1, <1>2 DEF RecoveriesFormForest
<1>4. {k \in Present' : /\ authority'[k].recovery # None
                         /\ authority'[k].recovery.predecessor = p} = {n}
  <2>1. CASE n = m
    BY <1>1, <2>1 DEF Children
  <2>2. CASE n # m
    <3>1. Children(Present, p) = {n}
      BY <1>1, <2>2 DEF RecoveriesFormForest
    <3>2. record.recovery # None => record.recovery.predecessor # p
      BY <3>1
    <3> QED
      BY <1>1, <3>1, <3>2 DEF Children
  <2> QED
    BY <2>1, <2>2
<1> QED
  BY <1>1, <1>2, <1>3, <1>4

\* A step of one content leaves the forest as it is.
LEMMA ForestStays ==
  ASSUME TypeOK, RecoveriesFormForest, NEW l \in Lineage, NEW next \in Content,
         MovedEntry(l, next), next.generation = authority[l].content.generation
  PROVE  RecoveriesFormForest'
<1>1. /\ Present' = Present
      /\ \A m \in Present : /\ authority'[m].recovery = authority[m].recovery
                            /\ authority'[m].content.generation = authority[m].content.generation
  BY MovedEntryFacts DEF Present
<1>2. \A p : Children(Present, p)' = Children(Present, p)
  BY <1>1 DEF Children
<1> QED
  BY <1>1, <1>2 DEF RecoveriesFormForest

\* A leaf of the forest may go.
LEMMA ForestShrinks ==
  ASSUME TypeOK, RecoveriesFormForest, NEW l \in Lineage, GoneEntry(l),
         Children(Present, l) = {}
  PROVE  RecoveriesFormForest'
<1>1. /\ Present' = Present \ {l}
      /\ \A m \in Present' : authority'[m] = authority[m]
  BY GoneEntryFacts DEF Present
<1> SUFFICES ASSUME NEW n \in Present', authority'[n].recovery # None,
                    NEW p, p = authority'[n].recovery.predecessor
             PROVE  /\ p \in Present'
                    /\ authority'[n].content.generation = authority'[p].content.generation + 1
                    /\ {k \in Present' : /\ authority'[k].recovery # None
                                         /\ authority'[k].recovery.predecessor = p} = {n}
  BY DEF RecoveriesFormForest, Children
<1>2. /\ authority[n].recovery.predecessor = p /\ p \in Present /\ Children(Present, p) = {n}
      /\ authority[n].content.generation = authority[p].content.generation + 1
  BY <1>1 DEF RecoveriesFormForest
<1>3. p # l
  BY <1>2
<1>4. {k \in Present' : /\ authority'[k].recovery # None
                         /\ authority'[k].recovery.predecessor = p} = {n}
  BY <1>1, <1>2 DEF Children
<1> QED
  BY <1>1, <1>2, <1>3, <1>4

-----------------------------------------------------------------------------
-----------------------------------------------------------------------------
(* What each change keeps of the store.                                     *)

\* A content that has a step left has no receipt and no frozen successor.
LEMMA UnsettledIsFree ==
  ASSUME TypeOK, StoreInv, NEW l \in Present, authority[l].content.state \in Unsettled
  PROVE  /\ receipt[l] = None
         /\ \A m \in Present :
              authority[m].recovery # None
              /\ authority[m].recovery.predecessor = l
              => authority[m].recovery.revision.state = "correction_required"
<1>1. l \in Lineage /\ authority[l].content \in Content
  BY PresentRecord DEF Present
<1>2. receipt[l] = None
  <2> SUFFICES ASSUME receipt[l] # None PROVE FALSE
    OBVIOUS
  <2>1. receipt[l] \in Content /\ Terminal(receipt[l])
    BY <1>1 DEF TypeOK, StoreInv, ReceiptsSettled
  <2>2. authority[l].content \in {receipt[l], Denied(receipt[l])}
    BY <1>1 DEF StoreInv, ReceiptBindsAuthority
  <2>3. authority[l].content.state \in {"approved", "escalated", "invalidated"}
    BY <2>1, <2>2 DEF Denied, Terminal, Content
  <2> QED
    BY <2>3 DEF Unsettled
<1>3. ASSUME NEW m \in Present, authority[m].recovery # None,
             authority[m].recovery.predecessor = l,
             authority[m].recovery.revision.state # "correction_required"
      PROVE  FALSE
  <2>1. authority[l].content = authority[m].recovery.revision
    BY <1>3 DEF StoreInv, TerminalHistoryFrozen
  <2>2. authority[l].content.state \in {"approved", "escalated", "invalidated"}
    BY <1>3, <2>1 DEF StoreInv, RecoveredStates
  <2> QED
    BY <2>2 DEF Unsettled
<1> QED
  BY <1>2, <1>3

\* One content takes a step.
LEMMA StepKeepsStore ==
  ASSUME TypeOK, StoreInv, NEW l \in Lineage, NEW next \in Steps(authority[l].content),
         MovedEntry(l, next), UNCHANGED <<receipt, results>>,
         <<l, next.disposed>> \notin results
  PROVE  StoreInv' /\ authority' \in [Lineage -> Record \cup {None}]
<1> DEFINE c == authority[l].content
<1>1. l \in Present /\ c \in Content /\ ContentSound(c)
  BY PresentRecord DEF MovedEntry, StoreInv, ContentsSound
<1>2. /\ next \in Content /\ next.generation = c.generation /\ c.state \in Unsettled
      /\ ContentSound(next)
  BY <1>1, StepShape, StepSound
<1>3. /\ authority' \in [Lineage -> Record \cup {None}]
      /\ authority'[l].content = next /\ Present' = Present
      /\ \A m \in Lineage \ {l} : authority'[m] = authority[m]
      /\ \A m \in Present : m \in Lineage /\ authority'[m].recovery = authority[m].recovery
  BY <1>2, MovedEntryFacts DEF Present
<1>4. RecoveriesFormForest'
  BY <1>2, ForestStays DEF StoreInv
<1>5. TerminalHistoryFrozen'
  <2> SUFFICES ASSUME NEW m \in Present, authority[m].recovery # None,
                      authority[m].recovery.revision.state # "correction_required"
               PROVE  authority'[authority[m].recovery.predecessor].content
                        = authority[m].recovery.revision
    BY <1>3 DEF TerminalHistoryFrozen
  <2>1. authority[m].recovery.predecessor \in Lineage \ {l}
    BY <1>1, <1>2, UnsettledIsFree DEF StoreInv, RecoveriesFormForest, Present
  <2> QED
    BY <1>3, <2>1 DEF StoreInv, TerminalHistoryFrozen
<1>6. ReceiptBindsAuthority'
  BY <1>1, <1>2, <1>3, UnsettledIsFree DEF StoreInv, ReceiptBindsAuthority, Denied
<1>7. CapturedNeverDisposed'
  BY <1>3 DEF StoreInv, CapturedNeverDisposed
<1>8. ContentsSound'
  BY <1>2, <1>3 DEF StoreInv, ContentsSound, ContentSound
<1>9. RecoveredStates' /\ ReceiptsSettled'
  BY <1>3 DEF StoreInv, RecoveredStates, ReceiptsSettled, Terminal
<1> QED
  BY <1>3, <1>4, <1>5, <1>6, <1>7, <1>8, <1>9 DEF StoreInv

\* The entry m gets the record of a review that starts, that continues the
\* halted one of another lineage, or that waits for its verification again.
Made(m, record) ==
  /\ m \in Lineage \ Entries /\ record \in Record
  /\ authority' = [authority EXCEPT ![m] = record]
  /\ UNCHANGED <<journals, results, receipt, lock, command>>
  /\ ContentSound(record.content) /\ record.content.disposed = None
  /\ record.content.state \in {"reviewing", "validating"}
  /\ record.recovery # None =>
       /\ record.recovery.predecessor \in Present
       /\ Children(Present, record.recovery.predecessor) = {}
       /\ record.recovery.revision = authority[record.recovery.predecessor].content
       /\ record.recovery.revision.state
            \in {"approved", "escalated", "invalidated", "correction_required"}
       /\ record.content.generation =
            authority[record.recovery.predecessor].content.generation + 1

\* A made entry (a start, a recovery, a retry) keeps the four properties of
\* the store.
LEMMA MadeKeepsStore ==
  ASSUME TypeOK, StoreInv, NEW m, NEW record, Made(m, record)
  PROVE  StoreInv' /\ authority' \in [Lineage -> Record \cup {None}]
<1> USE DEF Made
<1>1. NewEntry(m, record) /\ m \notin Captured /\ m \in Lineage
  BY DEF NewEntry, Entries
<1>2. /\ authority' \in [Lineage -> Record \cup {None}]
      /\ authority'[m] = record /\ Present' = Present \cup {m} /\ m \notin Present
      /\ \A l \in Lineage \ {m} : authority'[l] = authority[l]
  BY <1>1, NewEntryFacts DEF NewEntry
<1>3. RecoveriesFormForest'
  BY <1>1, ForestGrows DEF StoreInv
<1>4. TerminalHistoryFrozen'
  <2>1. \A l \in Present : l \in Lineage \ {m}
    BY <1>2 DEF Present
  <2> QED
    BY <1>2, <2>1 DEF StoreInv, TerminalHistoryFrozen, RecoveriesFormForest
<1>5. ReceiptBindsAuthority'
  BY <1>2 DEF StoreInv, ReceiptBindsAuthority, Denied
<1>6. CapturedNeverDisposed'
  <2>1. <<m, None>> \notin results
    BY NoneAssumption DEF TypeOK
  <2> QED
    BY <1>2, <2>1 DEF StoreInv, CapturedNeverDisposed, Present
<1>7. ContentsSound' /\ RecoveredStates' /\ ReceiptsSettled'
  BY <1>2 DEF StoreInv, ContentsSound, ContentSound, RecoveredStates, ReceiptsSettled,
              Terminal, Present
<1> QED
  BY <1>2, <1>3, <1>4, <1>5, <1>6, <1>7 DEF StoreInv

\* A lineage without successor and receipt goes.
LEMMA GoneKeepsStore ==
  ASSUME TypeOK, StoreInv, NEW l \in Lineage, GoneEntry(l), receipt[l] = None,
         Children(Present, l) = {}, UNCHANGED <<receipt, results>>
  PROVE  StoreInv' /\ authority' \in [Lineage -> Record \cup {None}]
<1>1. /\ authority' \in [Lineage -> Record \cup {None}]
      /\ Present' = Present \ {l}
      /\ \A m \in Lineage \ {l} : authority'[m] = authority[m]
      /\ \A m \in Present' : m \in Lineage \ {l} /\ m \in Present
  BY GoneEntryFacts DEF Present
<1>2. RecoveriesFormForest'
  BY ForestShrinks DEF StoreInv
<1>3. TerminalHistoryFrozen'
  <2>1. \A m \in Present' : authority[m].recovery # None =>
          authority[m].recovery.predecessor \in Present'
    BY <1>1, <1>2 DEF RecoveriesFormForest
  <2> QED
    BY <1>1, <2>1 DEF StoreInv, TerminalHistoryFrozen
<1>4. ReceiptBindsAuthority'
  BY <1>1 DEF StoreInv, ReceiptBindsAuthority, Denied
<1>5. CapturedNeverDisposed' /\ ContentsSound' /\ RecoveredStates' /\ ReceiptsSettled'
  BY <1>1 DEF StoreInv, CapturedNeverDisposed, ContentsSound, ContentSound, RecoveredStates,
              ReceiptsSettled, Terminal
<1> QED
  BY <1>1, <1>2, <1>3, <1>4, <1>5 DEF StoreInv

-----------------------------------------------------------------------------
(* The commands.                                                            *)

\* The fields of a command that runs.
LEMMA CommandFields ==
  ASSUME TypeOK, NEW p \in Process, command[p] # Idle
  PROVE  /\ command[p].lineage \in Lineage
         /\ command[p].held \in Record /\ command[p].held.content \in Content
         /\ command[p].name \in {"finalize", "maintain", "invalidate"}
         /\ command[p].name = "finalize" => command[p].stage \in {"read", "begun", "terminal"}
  BY DEF TypeOK, Command, Record

\* A running command is not idle.
LEMMA IdleOrRunning ==
  ASSUME TypeOK, NEW p \in Process, command[p].name # "idle"
  PROVE  command[p] # Idle
  BY DEF Idle

\* While nobody holds the lock no approval is being withdrawn.
LEMMA UnlockedNoWithdrawal ==
  ASSUME WithdrawalsLocked, Unlocked
  PROVE  \A p \in Process : command[p].name # "invalidate"
  BY NoneAssumption DEF WithdrawalsLocked, Unlocked

\* ReplaceContext stores the next content of the entry it read, or finds it
\* there.
LEMMA Replaced ==
  ASSUME TypeOK, NEW p \in Process, command[p] # Idle, NEW next \in Content,
         ReplaceContext(p, next)
  PROVE  LET l == command[p].lineage
         IN  /\ Unlocked
             /\ \/ UNCHANGED authority
                \/ command[p].held = authority[l] /\ MovedEntry(l, next)
<1> DEFINE l == command[p].lineage
<1>1. l \in Lineage /\ command[p].held \in Record
  BY CommandFields
<1>2. CASE authority[l] = [command[p].held EXCEPT !.content = next] /\ UNCHANGED authority
  <2>1. authority[l] # None
    BY <1>1, <1>2, RecordsAssumption DEF TypeOK, Record
  <2>2. authority[l] \in Record /\ authority[l].content = next
    BY <1>1, <1>2, <2>1 DEF TypeOK, Record
  <2> QED
    BY <1>2, <2>2 DEF ReplaceContext, Record
<1>3. CASE RevisionCurrent(p) /\ Publish(l, [command[p].held EXCEPT !.content = next])
  BY <1>1, <1>3, PresentRecord DEF ReplaceContext, RevisionCurrent, Publish, MovedEntry
<1> QED
  BY <1>2, <1>3 DEF ReplaceContext

-----------------------------------------------------------------------------
(* Every step keeps the invariant.                                          *)

\* START makes a root entry.
LEMMA StartMakes ==
  ASSUME IInv, NEW l \in Lineage, Start(l)
  PROVE  Unlocked /\ \E record : Made(l, record)
<1> DEFINE record == [content |-> NewContent(1), recovery |-> None]
<1>1. 1 \in Nat \ {0}
  OBVIOUS
<1>2. NewContent(1) \in Content /\ ContentSound(NewContent(1))
  BY <1>1, NewContentType
<1>3. NewContent(1).disposed = None /\ NewContent(1).state = "reviewing"
  BY DEF NewContent, FirstContent
<1>4. Made(l, record)
  BY <1>2, <1>3 DEF Start, Publish, Made, Record
<1> QED
  BY <1>4 DEF Start

\* RECOVER makes the only successor of its predecessor.
LEMMA RecoverMakes ==
  ASSUME IInv, NEW l \in Lineage, NEW m \in Lineage, NEW d \in Disposition,
         Recover(l, m, d)
  PROVE  Unlocked /\ \E record : Made(m, record)
<1> DEFINE p == authority[l].content
           fresh == NewContent(p.generation + 1)
           imported == [fresh EXCEPT !.state = "validating", !.forecast = TRUE,
                                     !.corrected = TRUE]
           recovery == [predecessor |-> l, revision |-> p, disposition |-> d]
<1>1. l \in Present /\ p \in Content
  BY PresentRecord DEF IInv, Recover
<1>2. PICK s \in {fresh, imported} :
        authority' = [authority EXCEPT ![m] = [content |-> s, recovery |-> recovery]]
  BY DEF Recover, Publish
<1>3. p.generation + 1 \in Nat \ {0}
  BY <1>1 DEF Content
<1>4. /\ fresh \in Content /\ ContentSound(fresh) /\ fresh.state = "reviewing"
      /\ fresh.disposed = None /\ fresh.generation = p.generation + 1 /\ ~fresh.verified
  BY <1>3, NewContentType DEF NewContent, FirstContent
<1>5. /\ s \in Content /\ ContentSound(s) /\ s.state \in {"reviewing", "validating"}
      /\ s.disposed = None /\ s.generation = p.generation + 1
  <2> HIDE DEF fresh
  <2> QED
    BY <1>4, <1>2 DEF Content, State, ContentSound
<1> DEFINE record == [content |-> s, recovery |-> recovery]
<1>6. record \in Record /\ record.content = s /\ record.recovery = recovery
  BY <1>1, <1>5 DEF Record, Recovery
<1>7. p.state \in {"approved", "escalated", "invalidated", "correction_required"}
  BY DEF Recover, RecoverableAs
<1>8. /\ recovery.predecessor \in Present
      /\ Children(Present, recovery.predecessor) = {}
      /\ recovery.revision = authority[recovery.predecessor].content
      /\ recovery.revision.state
           \in {"approved", "escalated", "invalidated", "correction_required"}
      /\ s.generation = authority[recovery.predecessor].content.generation + 1
  BY <1>1, <1>5, <1>7 DEF Recover, Unsuperseded
<1>9. /\ m \notin Entries /\ UNCHANGED <<journals, results, receipt, lock, command>>
      /\ authority' = [authority EXCEPT ![m] = record]
  BY <1>2 DEF Recover
<1>10. Made(m, record)
  <2> HIDE DEF record, recovery, p
  <2> QED
    BY <1>5, <1>6, <1>8, <1>9 DEF Made
<1> QED
  BY <1>10 DEF Recover

\* A retry of the final verification makes the only successor of its
\* predecessor.
LEMMA RetryMakes ==
  ASSUME IInv, NEW l \in Lineage, NEW m \in Lineage, RetryFinalVerification(l, m)
  PROVE  Unlocked /\ \E record : Made(m, record)
<1> DEFINE p == authority[l].content
           s == RetryClone(p)
           recovery == [predecessor |-> l, revision |-> p,
                        disposition |-> "final_verification_retry"]
           record == [content |-> s, recovery |-> recovery]
<1>1. l \in Present /\ p \in Content /\ ContentSound(p)
  BY PresentRecord DEF IInv, StoreInv, ContentsSound, RetryFinalVerification
<1>2. p.state = "escalated" /\ p.verified
  BY DEF RetryFinalVerification, RecoverableAs
<1>3. /\ s \in Content /\ ContentSound(s) /\ s.state = "validating"
      /\ s.disposed = None /\ s.generation = p.generation + 1
  BY <1>1, <1>2, RetryCloneType
<1>4. record \in Record /\ record.content = s /\ record.recovery = recovery
  BY <1>1, <1>3 DEF Record, Recovery, Disposition
<1>5. /\ recovery.predecessor \in Present
      /\ Children(Present, recovery.predecessor) = {}
      /\ recovery.revision = authority[recovery.predecessor].content
      /\ recovery.revision.state
           \in {"approved", "escalated", "invalidated", "correction_required"}
      /\ s.generation = authority[recovery.predecessor].content.generation + 1
  BY <1>1, <1>2, <1>3 DEF RetryFinalVerification, Unsuperseded
<1>6. /\ m \notin Entries /\ UNCHANGED <<journals, results, receipt, lock, command>>
      /\ authority' = [authority EXCEPT ![m] = record]
  BY DEF RetryFinalVerification, Publish
<1>7. Made(m, record)
  <2> HIDE DEF record, recovery, s
  <2> QED
    BY <1>3, <1>4, <1>5, <1>6 DEF Made
<1> QED
  BY <1>7 DEF RetryFinalVerification

\* What makes an entry under the lock keeps the invariant.
LEMMA MadeInv ==
  ASSUME IInv, Unlocked, NEW m, NEW record, Made(m, record)
  PROVE  IInv'
<1>1. StoreInv' /\ authority' \in [Lineage -> Record \cup {None}]
  BY MadeKeepsStore DEF IInv
<1>2. WithdrawalsLocked'
  BY UnlockedNoWithdrawal DEF IInv, Made, WithdrawalsLocked
<1> QED
  BY <1>1, <1>2 DEF IInv, TypeOK, Made

\* A capture leaves the record alone; the record is reviewing, so nothing of
\* it was disposed of.
LEMMA CaptureInv ==
  ASSUME IInv, NEW l \in Lineage, NEW s \in Slot, CaptureReviewerResult(l, s)
  PROVE  IInv'
<1>1. /\ results' = results \cup {<<l, s>>}
      /\ UNCHANGED <<authority, journals, receipt, lock, command>>
  BY DEF CaptureReviewerResult
<1>2. CapturedNeverDisposed'
  <2>1. l \in Present /\ authority[l].content.disposed = None
    BY StateOfPresent
    DEF IInv, StoreInv, ContentsSound, ContentSound, CaptureReviewerResult
  <2> QED
    BY <1>1, <2>1, NoneAssumption DEF IInv, StoreInv, CapturedNeverDisposed, Present
<1>3. /\ Present' = Present /\ UNCHANGED <<RecoveriesFormForest, TerminalHistoryFrozen>>
      /\ UNCHANGED <<ReceiptBindsAuthority, ContentsSound, RecoveredStates, ReceiptsSettled>>
  BY <1>1 DEF Present, RecoveriesFormForest, TerminalHistoryFrozen, ReceiptBindsAuthority,
              ContentsSound, RecoveredStates, ReceiptsSettled, Children, ContentSound,
              Denied, Terminal
<1>4. TypeOK' /\ WithdrawalsLocked'
  BY <1>1 DEF IInv, TypeOK, WithdrawalsLocked, StateOf
<1> QED
  BY <1>2, <1>3, <1>4 DEF IInv, StoreInv

\* The abandonment of a pristine entry keeps the invariant.
LEMMA AbandonInv ==
  ASSUME IInv, NEW l \in Lineage, AbandonPristine(l)
  PROVE  IInv'
<1>1. /\ GoneEntry(l) /\ receipt[l] = None /\ Children(Present, l) = {}
      /\ UNCHANGED <<journals, results, receipt, lock, command>>
  BY DEF AbandonPristine, GoneEntry, Publish, Unsuperseded
<1>2. StoreInv' /\ authority' \in [Lineage -> Record \cup {None}]
  BY <1>1, GoneKeepsStore DEF IInv
<1>3. WithdrawalsLocked'
  BY <1>1, UnlockedNoWithdrawal DEF IInv, AbandonPristine, WithdrawalsLocked
<1> QED
  BY <1>1, <1>2, <1>3 DEF IInv, TypeOK

\* FINALIZE disposes of nothing.
LEMMA FinalizeKeepsDisposed ==
  ASSUME NEW c \in Content, ContentSound(c), NEW next \in FinalizeSteps(c)
  PROVE  next.disposed = None
<1>1. c.state \in Unsettled
  BY StepShape DEF Steps
<1>2. c.disposed = None
  BY <1>1 DEF ContentSound, Unsettled
<1>3. next.disposed = c.disposed
  <2>1. next \in CompleteReview(c) => next.disposed = c.disposed
    BY DEF CompleteReview, Content
  <2>2. next \in BeginCorrection(c) => next.disposed = c.disposed
    BY DEF BeginCorrection, Content
  <2>3. next \in CompleteCorrection(c) => next.disposed = c.disposed
    BY DEF CompleteCorrection, Content
  <2>4. next \in CompleteVerification(c) => next.disposed = c.disposed
    BY DEF CompleteVerification, Content
  <2> QED
    BY <2>1, <2>2, <2>3, <2>4 DEF FinalizeSteps
<1> QED
  BY <1>2, <1>3

\* What is said of the store depends on its files only.
LEMMA StoreUnchanged ==
  ASSUME UNCHANGED <<authority, receipt, results>>
  PROVE  StoreInv' <=> StoreInv
<1>1. Present' = Present
  BY DEF Present
<1>2. \A p : Children(Present, p)' = Children(Present, p)
  BY <1>1 DEF Children
<1>3. RecoveriesFormForest' <=> RecoveriesFormForest
  BY <1>1, <1>2 DEF RecoveriesFormForest
<1>4. /\ TerminalHistoryFrozen' <=> TerminalHistoryFrozen
      /\ CapturedNeverDisposed' <=> CapturedNeverDisposed
      /\ RecoveredStates' <=> RecoveredStates
  BY <1>1 DEF TerminalHistoryFrozen, CapturedNeverDisposed, RecoveredStates
<1>5. /\ ReceiptBindsAuthority' <=> ReceiptBindsAuthority
      /\ ReceiptsSettled' <=> ReceiptsSettled
      /\ ContentsSound' <=> ContentsSound
  BY <1>1 DEF ReceiptBindsAuthority, ReceiptsSettled, ContentsSound, ContentSound,
              Denied, Terminal
<1> QED
  BY <1>3, <1>4, <1>5 DEF StoreInv

\* A finalizer that reads keeps the invariant.
LEMMA FinalizeReadInv ==
  ASSUME IInv, NEW p \in Process, NEW l \in Lineage, FinalizeRead(p, l)
  PROVE  IInv'
<1> DEFINE stage == IF Terminal(authority[l].content) THEN "terminal" ELSE "read"
<1>1. /\ UNCHANGED <<authority, journals, results, receipt, lock>>
      /\ command' = [command EXCEPT ![p] = [name |-> "finalize", lineage |-> l,
                                            held |-> authority[l], stage |-> stage]]
  BY DEF FinalizeRead, Run
<1>2. authority[l] \in Record
  BY PresentRecord DEF IInv, FinalizeRead, Leaf
<1>3. TypeOK'
  BY <1>1, <1>2 DEF IInv, TypeOK, Command
<1>4. StoreInv' <=> StoreInv
  BY <1>1, StoreUnchanged
<1>5. WithdrawalsLocked'
  BY <1>1 DEF IInv, TypeOK, WithdrawalsLocked, StateOf
<1> QED
  BY <1>3, <1>4, <1>5 DEF IInv

\* A maintainer that reads keeps the invariant.
LEMMA MaintainReadInv ==
  ASSUME IInv, NEW p \in Process, NEW l \in Lineage, MaintainRead(p, l)
  PROVE  IInv'
<1>1. /\ UNCHANGED <<authority, journals, results, receipt, lock>>
      /\ command' = [command EXCEPT ![p] = [name |-> "maintain", lineage |-> l,
                                            held |-> authority[l], stage |-> "read"]]
  BY DEF MaintainRead, Run
<1>2. authority[l] \in Record
  BY PresentRecord, StateOfPresent DEF IInv, MaintainRead
<1>3. TypeOK'
  BY <1>1, <1>2 DEF IInv, TypeOK, Command
<1>4. StoreInv' <=> StoreInv
  BY <1>1, StoreUnchanged
<1>5. WithdrawalsLocked'
  BY <1>1 DEF IInv, TypeOK, WithdrawalsLocked, StateOf
<1> QED
  BY <1>3, <1>4, <1>5 DEF IInv

\* A finalizer that begins keeps the invariant.
LEMMA FinalizeBeginInv ==
  ASSUME IInv, NEW p \in Process, FinalizeBegin(p)
  PROVE  IInv'
<1>1. /\ UNCHANGED <<authority, results, receipt, lock>>
      /\ journals' = journals \cup {command[p].lineage}
      /\ command' = [command EXCEPT ![p].stage = "begun"]
      /\ command[p] # Idle /\ command[p].name = "finalize"
  BY DEF FinalizeBegin, Running, Idle
<1>2. command[p].lineage \in Lineage /\ command[p].held \in Record
  BY <1>1, CommandFields DEF IInv
<1>3. [command[p] EXCEPT !.stage = "begun"] \in Command
  BY <1>1 DEF IInv, TypeOK, Command
<1>4. TypeOK'
  BY <1>1, <1>2, <1>3 DEF IInv, TypeOK
<1>5. StoreInv' <=> StoreInv
  BY <1>1, StoreUnchanged
<1>6. WithdrawalsLocked'
  BY <1>1 DEF IInv, TypeOK, WithdrawalsLocked, StateOf
<1> QED
  BY <1>4, <1>5, <1>6 DEF IInv

\* A planned transition is a step of the record that is there, or changes
\* nothing.
LEMMA FinalizeStepInv ==
  ASSUME IInv, NEW p \in Process, FinalizeStep(p)
  PROVE  IInv'
<1> DEFINE l == command[p].lineage
           c == command[p].held.content
<1>1. command[p] # Idle /\ command[p].name = "finalize"
  BY DEF FinalizeStep, Running, Idle
<1>2. PICK next \in FinalizeSteps(c) :
        /\ ReplaceContext(p, next)
        /\ IF next.state = "correction_required" /\ next.forecast
             THEN Finish(p)
             ELSE command' = [command EXCEPT
                    ![p].held.content = next,
                    ![p].stage = IF Terminal(next) THEN "terminal" ELSE "begun"]
  BY DEF FinalizeStep
<1>3. l \in Lineage /\ command[p].held \in Record /\ c \in Content
  BY <1>1, CommandFields DEF IInv
<1>4. next \in Steps(c)
  BY <1>2 DEF Steps
<1>5. next \in Content
  BY <1>3, <1>4, StepShape
<1>6. Unlocked /\ UNCHANGED <<journals, results, receipt, lock>>
  BY <1>2 DEF FinalizeStep, ReplaceContext
<1>7. StoreInv' /\ authority' \in [Lineage -> Record \cup {None}]
  <2>1. CASE UNCHANGED authority
    BY <1>6, <2>1, StoreUnchanged DEF IInv, TypeOK
  <2>2. CASE command[p].held = authority[l] /\ MovedEntry(l, next)
    <3>1. ContentSound(c)
      BY <2>2 DEF IInv, StoreInv, ContentsSound, MovedEntry
    <3>2. next.disposed = None
      BY <1>2, <1>3, <3>1, FinalizeKeepsDisposed
    <3>3. <<l, None>> \notin results
      BY NoneAssumption DEF IInv, TypeOK
    <3> QED
      BY <1>3, <1>4, <1>6, <2>2, <3>2, <3>3, StepKeepsStore DEF IInv
  <2> QED
    BY <1>1, <1>2, <1>5, <2>1, <2>2, Replaced DEF IInv
<1> DEFINE running == [command[p] EXCEPT !.held.content = next,
                         !.stage = IF Terminal(next) THEN "terminal" ELSE "begun"]
<1>8. running \in Command /\ running.name = "finalize"
  <2>1. command[p] \in [name : {"finalize"}, lineage : Lineage, held : Record,
                        stage : {"read", "begun", "terminal"}]
    BY <1>1 DEF IInv, TypeOK, Command
  <2>2. [command[p].held EXCEPT !.content = next] \in Record
    BY <1>3, <1>5 DEF Record
  <2>3. running = [command[p] EXCEPT !.held = [command[p].held EXCEPT !.content = next],
                         !.stage = IF Terminal(next) THEN "terminal" ELSE "begun"]
    BY <2>1
  <2>4. \A h \in Record, st \in {"terminal", "begun"} :
          LET k == [command[p] EXCEPT !.held = h, !.stage = st]
          IN  k \in Command /\ k.name = "finalize"
    BY <2>1 DEF Command
  <2> DEFINE h == [command[p].held EXCEPT !.content = next]
             st == IF Terminal(next) THEN "terminal" ELSE "begun"
  <2>5. h \in Record /\ st \in {"terminal", "begun"}
    BY <2>2
  <2>6. running = [command[p] EXCEPT !.held = h, !.stage = st]
    BY <2>3
  <2> HIDE DEF running, h, st
  <2> QED
    BY <2>4, <2>5, <2>6
<1>9. command' \in {[command EXCEPT ![p] = running], [command EXCEPT ![p] = Idle]}
  BY <1>2 DEF Finish
<1>10. command' \in [Process -> Command]
  <2> HIDE DEF running
  <2> QED
    BY <1>8, <1>9 DEF IInv, TypeOK, Command
<1>11. WithdrawalsLocked'
  <2> HIDE DEF running
  <2>1. \A q \in Process : command[q].name # "invalidate"
    BY <1>6, UnlockedNoWithdrawal DEF IInv
  <2>2. \A q \in Process : command'[q].name # "invalidate"
    BY <1>8, <1>9, <2>1 DEF IInv, TypeOK, Idle
  <2> QED
    BY <2>2 DEF WithdrawalsLocked
<1> QED
  BY <1>6, <1>7, <1>10, <1>11 DEF IInv, TypeOK

\* The publication of a receipt keeps the invariant.
LEMMA FinalizeReceiptInv ==
  ASSUME IInv, NEW p \in Process, FinalizeReceipt(p)
  PROVE  IInv'
<1> DEFINE l == command[p].lineage
           content == command[p].held.content
<1>1. /\ command[p] # Idle /\ Unlocked /\ UNCHANGED <<authority, results, lock>>
      /\ content \in DerivableReceipts(l)
      /\ receipt' = [receipt EXCEPT ![l] = content]
      /\ journals' = journals \cup {l}
      /\ command' = [command EXCEPT ![p] = Idle]
  BY DEF FinalizeReceipt, Running, Idle, Finish
<1>2. /\ l \in Lineage /\ content \in Content
      /\ l \in Present /\ Terminal(content) /\ authority[l].content = content
  BY <1>1, CommandFields DEF IInv, DerivableReceipts
<1>3. TypeOK'
  BY <1>1, <1>2 DEF IInv, TypeOK, Command
<1>4. Present' = Present /\ \A q : Children(Present, q)' = Children(Present, q)
  BY <1>1 DEF Present, Children
<1>5. ReceiptBindsAuthority' /\ ReceiptsSettled'
  BY <1>1, <1>2, <1>4
  DEF IInv, TypeOK, StoreInv, ReceiptBindsAuthority, ReceiptsSettled, Terminal, Denied
<1>6. /\ RecoveriesFormForest' /\ TerminalHistoryFrozen' /\ CapturedNeverDisposed'
      /\ ContentsSound' /\ RecoveredStates'
  BY <1>1, <1>4 DEF IInv, StoreInv, RecoveriesFormForest, TerminalHistoryFrozen,
                    CapturedNeverDisposed, ContentsSound, ContentSound, RecoveredStates
<1>7. WithdrawalsLocked'
  BY <1>1, UnlockedNoWithdrawal DEF IInv, TypeOK, WithdrawalsLocked, Idle
<1> QED
  BY <1>3, <1>5, <1>6, <1>7 DEF IInv, StoreInv

\* A maintainer command disposes only of a slot that it found empty under the
\* lock.
LEMMA MaintainCommitInv ==
  ASSUME IInv, NEW p \in Process, MaintainCommit(p)
  PROVE  IInv'
<1> DEFINE l == command[p].lineage
           c == command[p].held.content
<1>1. /\ command[p] # Idle /\ command' = [command EXCEPT ![p] = Idle]
      /\ UNCHANGED <<journals, results, receipt, lock>>
  BY DEF MaintainCommit, Running, Idle, Finish
<1>2. PICK next : /\ ReplaceContext(p, next)
                  /\ next \in Invalidate(c) \cup {DisposeResult(c, s) : s \in Disposable(c, l)}
                              \cup ReopenResults(c)
  BY DEF MaintainCommit
<1>3. l \in Lineage /\ command[p].held \in Record /\ c \in Content
  BY <1>1, CommandFields DEF IInv
<1>4. next \in Steps(c)
  BY <1>2 DEF Steps, Disposable
<1>5. next \in Content
  BY <1>3, <1>4, StepShape
<1>6. Unlocked
  BY <1>2 DEF ReplaceContext
<1>7. StoreInv' /\ authority' \in [Lineage -> Record \cup {None}]
  <2>1. CASE UNCHANGED authority
    BY <1>1, <2>1, StoreUnchanged DEF IInv, TypeOK
  <2>2. CASE command[p].held = authority[l] /\ MovedEntry(l, next)
    <3>1. ContentSound(c)
      BY <2>2 DEF IInv, StoreInv, ContentsSound, MovedEntry
    <3>2. <<l, None>> \notin results
      BY NoneAssumption DEF IInv, TypeOK
    <3>3. <<l, next.disposed>> \notin results
      <4>1. CASE \E s \in Disposable(c, l) : next = DisposeResult(c, s)
        BY <1>3, <4>1 DEF Disposable, DisposeResult, Content
      <4>2. CASE next \in Invalidate(c) \cup ReopenResults(c)
        <5>1. next.disposed = c.disposed
          BY <1>3, <4>2 DEF Invalidate, ReopenResults, Content
        <5>2. c.disposed = None
          BY <1>3, <1>4, <3>1, StepShape DEF ContentSound, Unsettled
        <5> QED
          BY <3>2, <5>1, <5>2
      <4> QED
        BY <1>2, <4>1, <4>2
    <3> QED
      BY <1>1, <1>3, <1>4, <2>2, <3>3, StepKeepsStore DEF IInv
  <2> QED
    BY <1>1, <1>2, <1>5, <2>1, <2>2, Replaced DEF IInv
<1>8. TypeOK'
  BY <1>1, <1>7 DEF IInv, TypeOK, Command
<1>9. WithdrawalsLocked'
  BY <1>1, <1>6, UnlockedNoWithdrawal DEF IInv, TypeOK, WithdrawalsLocked, Idle
<1> QED
  BY <1>7, <1>8, <1>9 DEF IInv

\* The record of a denied approval still is the one its receipt binds.
LEMMA InvalidateApprovedInv ==
  ASSUME IInv, NEW p \in Process, NEW l \in Lineage, InvalidateApproved(p, l)
  PROVE  IInv'
<1> DEFINE c == authority[l].content
           next == Denied(c)
           record == [authority[l] EXCEPT !.content = next]
           withdrawal == [name |-> "invalidate", lineage |-> l, held |-> record,
                          stage |-> "written"]
<1>1. /\ Unlocked /\ receipt[l] = c /\ Leaf(l)
      /\ authority' = [authority EXCEPT ![l] = record]
      /\ lock' = p /\ command' = [command EXCEPT ![p] = withdrawal]
      /\ UNCHANGED <<journals, results, receipt>>
  BY DEF InvalidateApproved, Publish, DenialBound, Denied
<1>2. /\ l \in Present /\ authority[l] \in Record /\ c \in Content /\ c.state = "approved"
      /\ ContentSound(c)
  BY <1>1, PresentRecord, StateOfPresent
  DEF IInv, Leaf, StoreInv, ContentsSound, InvalidateApproved
<1>3. /\ next \in Content /\ next.generation = c.generation /\ next.state = "invalidated"
      /\ ContentSound(next) /\ next.disposed = None
  BY <1>2 DEF Denied, Content, State, ContentSound, Unsettled
<1>4. record \in Record /\ MovedEntry(l, next)
  BY <1>1, <1>2, <1>3 DEF Record, MovedEntry
<1>5. /\ authority' \in [Lineage -> Record \cup {None}]
      /\ authority'[l].content = next /\ Present' = Present
      /\ \A m \in Lineage \ {l} : authority'[m] = authority[m]
      /\ \A m \in Present : m \in Lineage /\ authority'[m].recovery = authority[m].recovery
  BY <1>3, <1>4, MovedEntryFacts DEF IInv, Present
<1>6. RecoveriesFormForest'
  BY <1>3, <1>4, ForestStays DEF IInv, StoreInv
<1>7. TerminalHistoryFrozen'
  <2>1. \A m \in Present : authority[m].recovery # None =>
          authority[m].recovery.predecessor \in Lineage \ {l}
    BY <1>1 DEF IInv, StoreInv, RecoveriesFormForest, Leaf, Present, Children
  <2> QED
    BY <1>5, <2>1 DEF IInv, StoreInv, TerminalHistoryFrozen
<1>8. ReceiptBindsAuthority'
  BY <1>1, <1>2, <1>5 DEF IInv, StoreInv, ReceiptBindsAuthority, Denied
<1>9. CapturedNeverDisposed'
  <2>1. <<l, None>> \notin results
    BY NoneAssumption DEF IInv, TypeOK
  <2> QED
    BY <1>1, <1>3, <1>5, <2>1 DEF IInv, StoreInv, CapturedNeverDisposed
<1>10. ContentsSound' /\ RecoveredStates' /\ ReceiptsSettled'
  BY <1>1, <1>3, <1>5 DEF IInv, StoreInv, ContentsSound, ContentSound, RecoveredStates,
                          ReceiptsSettled, Terminal
<1>11. TypeOK'
  <2>1. withdrawal \in Command
    BY <1>4 DEF Command
  <2> QED
    BY <1>1, <1>5, <2>1 DEF IInv, TypeOK
<1>12. WithdrawalsLocked'
  <2>1. StateOf(l)' = "invalidated"
    BY <1>3, <1>5, <1>2 DEF StateOf, Present
  <2>2. \A q \in Process \ {p} : command'[q].name # "invalidate"
    BY <1>1, UnlockedNoWithdrawal DEF IInv, TypeOK
  <2>3. command'[p].lineage = l /\ lock' = p
    BY <1>1 DEF IInv, TypeOK
  <2> QED
    BY <2>1, <2>2, <2>3 DEF WithdrawalsLocked
<1> QED
  BY <1>6, <1>7, <1>8, <1>9, <1>10, <1>11, <1>12 DEF IInv, StoreInv

\* A receipt goes; the rest of the store stays.
LEMMA UnsealKeepsStore ==
  ASSUME TypeOK, StoreInv, NEW l \in Lineage, receipt' = [receipt EXCEPT ![l] = None],
         UNCHANGED <<authority, results>>
  PROVE  StoreInv'
<1>1. Present' = Present /\ \A q : Children(Present, q)' = Children(Present, q)
  BY DEF Present, Children
<1>2. ReceiptBindsAuthority' /\ ReceiptsSettled'
  BY <1>1 DEF TypeOK, StoreInv, ReceiptBindsAuthority, ReceiptsSettled, Terminal, Denied
<1>3. /\ RecoveriesFormForest' /\ TerminalHistoryFrozen' /\ CapturedNeverDisposed'
      /\ ContentsSound' /\ RecoveredStates'
  BY <1>1 DEF StoreInv, RecoveriesFormForest, TerminalHistoryFrozen, CapturedNeverDisposed,
              ContentsSound, ContentSound, RecoveredStates
<1> QED
  BY <1>2, <1>3 DEF StoreInv

\* The removal of a receipt by a withdrawal keeps the invariant.
LEMMA RemoveReceiptInv ==
  ASSUME IInv, NEW p \in Process, RemoveReceipt(p)
  PROVE  IInv'
<1>1. /\ command[p] # Idle /\ command[p].name = "invalidate"
      /\ receipt' = [receipt EXCEPT ![command[p].lineage] = None]
      /\ lock' = None /\ command' = [command EXCEPT ![p] = Idle]
      /\ UNCHANGED <<authority, journals, results>>
  BY DEF RemoveReceipt, Running, Idle, Finish
<1>2. command[p].lineage \in Lineage /\ lock = p
  BY <1>1, CommandFields DEF IInv, WithdrawalsLocked
<1>3. StoreInv'
  BY <1>1, <1>2, UnsealKeepsStore DEF IInv
<1>4. TypeOK'
  BY <1>1, <1>2 DEF IInv, TypeOK, Command
<1>5. WithdrawalsLocked'
  BY <1>1, <1>2 DEF IInv, TypeOK, WithdrawalsLocked, Idle
<1> QED
  BY <1>3, <1>4, <1>5 DEF IInv

\* A replayed withdrawal keeps the invariant.
LEMMA ReplayInvalidationInv ==
  ASSUME IInv, NEW l \in Lineage, ReplayInvalidation(l)
  PROVE  IInv'
<1>1. /\ receipt' = [receipt EXCEPT ![l] = None]
      /\ UNCHANGED <<authority, journals, results, lock, command>>
  BY DEF ReplayInvalidation
<1>2. StoreInv'
  BY <1>1, UnsealKeepsStore DEF IInv
<1>3. TypeOK' /\ WithdrawalsLocked'
  BY <1>1 DEF IInv, TypeOK, WithdrawalsLocked, StateOf
<1> QED
  BY <1>2, <1>3 DEF IInv

\* A command that gives up or dies keeps the invariant.
LEMMA QuitInv ==
  ASSUME IInv, NEW p \in Process, Quit(p)
  PROVE  IInv'
<1>1. /\ command' = [command EXCEPT ![p] = Idle]
      /\ lock' = IF lock = p THEN None ELSE lock
      /\ UNCHANGED <<authority, journals, results, receipt>>
  BY DEF Quit, Finish
<1>2. StoreInv' <=> StoreInv
  BY <1>1, StoreUnchanged
<1>3. TypeOK'
  BY <1>1 DEF IInv, TypeOK, Command
<1>4. WithdrawalsLocked'
  BY <1>1 DEF IInv, TypeOK, WithdrawalsLocked, StateOf, Idle
<1> QED
  BY <1>2, <1>3, <1>4 DEF IInv

\* The store starts empty.
LEMMA InitInv ==
  Init => IInv
<1> SUFFICES ASSUME Init PROVE IInv
  OBVIOUS
<1>1. Present = {}
  BY DEF Init, Present
<1>2. TypeOK
  BY DEF Init, TypeOK, Command
<1>3. StoreInv
  BY <1>1 DEF Init, StoreInv, RecoveriesFormForest, TerminalHistoryFrozen,
              ReceiptBindsAuthority, CapturedNeverDisposed, ContentsSound, RecoveredStates,
              ReceiptsSettled
<1>4. WithdrawalsLocked
  BY DEF Init, WithdrawalsLocked, Idle
<1> QED
  BY <1>2, <1>3, <1>4 DEF IInv

\* The invariant is inductive.
LEMMA StepInv ==
  IInv /\ [Next]_vars => IInv'
<1> SUFFICES ASSUME IInv, [Next]_vars PROVE IInv'
  OBVIOUS
<1>1. ASSUME NEW l \in Lineage,
             \/ Start(l)
             \/ \E s \in Slot : CaptureReviewerResult(l, s)
             \/ AbandonPristine(l)
             \/ ReplayInvalidation(l)
      PROVE  IInv'
  BY <1>1, StartMakes, MadeInv, CaptureInv, AbandonInv, ReplayInvalidationInv
<1>2. ASSUME NEW l \in Lineage, NEW m \in Lineage,
             (\E d \in Disposition : Recover(l, m, d)) \/ RetryFinalVerification(l, m)
      PROVE  IInv'
  BY <1>2, RecoverMakes, RetryMakes, MadeInv
<1>3. ASSUME NEW p \in Process,
             \/ FinalizeBegin(p) \/ FinalizeStep(p) \/ FinalizeReceipt(p)
             \/ MaintainCommit(p) \/ RemoveReceipt(p) \/ Quit(p)
      PROVE  IInv'
  BY <1>3, FinalizeBeginInv, FinalizeStepInv, FinalizeReceiptInv, MaintainCommitInv,
     RemoveReceiptInv, QuitInv
<1>4. ASSUME NEW p \in Process, NEW l \in Lineage,
             FinalizeRead(p, l) \/ MaintainRead(p, l) \/ InvalidateApproved(p, l)
      PROVE  IInv'
  BY <1>4, FinalizeReadInv, MaintainReadInv, InvalidateApprovedInv
<1>5. CASE UNCHANGED vars
  <2>1. UNCHANGED <<authority, journals, results, receipt, lock, command>>
    BY <1>5 DEF vars
  <2>2. StoreInv' <=> StoreInv
    BY <2>1, StoreUnchanged
  <2> QED
    BY <2>1, <2>2 DEF IInv, TypeOK, WithdrawalsLocked, StateOf
<1> QED
  BY <1>1, <1>2, <1>3, <1>4, <1>5 DEF Next

-----------------------------------------------------------------------------
(* Each lineage lives the life that ReviewAuthority allows.                 *)

PhaseOf == [l \in Lineage |-> StateOf(l)]
Sealed == {l \in Lineage : receipt[l] # None}

\* Only what happens to the entry of l is seen of l.
LEMMA PhaseMoves ==
  ASSUME TypeOK, NEW l \in Lineage, TypeOK',
         \A m \in Lineage \ {l} : authority'[m] = authority[m],
         UNCHANGED receipt
  PROVE  PhaseOf' = [PhaseOf EXCEPT ![l] = StateOf(l)'] /\ Sealed' = Sealed
  BY DEF PhaseOf, Sealed, StateOf

\* The state of an entry, or its absence, is a phase of the promise.
LEMMA StatesArePhases ==
  ASSUME NEW r \in Record \cup {None}
  PROVE  (IF r = None THEN "absent" ELSE r.content.state) \in Promise!Phase
  BY DEF Record, Content, State, Promise!Phase, Promise!Settled

\* An unsealed lineage makes a move of the promise.
LEMMA AdvancePromised ==
  ASSUME TypeOK, TypeOK', NEW l \in Lineage, l \notin Sealed,
         \A m \in Lineage \ {l} : authority'[m] = authority[m],
         UNCHANGED receipt,
         <<StateOf(l), StateOf(l)'>> \in Promise!Move
  PROVE  Promise!Next
<1>1. PhaseOf' = [PhaseOf EXCEPT ![l] = StateOf(l)'] /\ Sealed' = Sealed
  BY PhaseMoves
<1>2. StateOf(l)' \in Promise!Phase
  BY StatesArePhases DEF TypeOK, StateOf
<1>3. Promise!Advance(l)
  BY <1>1, <1>2 DEF Promise!Advance, PhaseOf, Sealed
<1> QED
  BY <1>3 DEF Promise!Next

\* A command that replaces a content makes a move of the promise, or none
\* that shows.
LEMMA StepPromised ==
  ASSUME IInv, TypeOK', NEW l \in Lineage, NEW next \in Steps(authority[l].content),
         MovedEntry(l, next), UNCHANGED receipt
  PROVE  Promise!Next \/ UNCHANGED <<PhaseOf, Sealed>>
<1> DEFINE c == authority[l].content
<1>1. l \in Present /\ c \in Content /\ StateOf(l) = c.state
  BY PresentRecord, StateOfPresent DEF MovedEntry, IInv
<1>2. next \in Content /\ c.state \in Unsettled /\ StepMove(c.state, next.state)
  BY <1>1, StepShape
<1>3. /\ \A m \in Lineage \ {l} : authority'[m] = authority[m]
      /\ authority'[l].content = next /\ Present' = Present
  BY <1>2, MovedEntryFacts DEF IInv
<1>4. StateOf(l)' = next.state
  BY <1>1, <1>3 DEF StateOf, Present
<1>5. l \notin Sealed
  BY <1>1, <1>2, UnsettledIsFree DEF IInv, Sealed
<1>6. <<StateOf(l), StateOf(l)'>> \in Promise!Move
  BY <1>1, <1>2, <1>4 DEF StepMove, Promise!Move
<1> QED
  BY <1>3, <1>5, <1>6, AdvancePromised DEF IInv

\* A record that appears is one of a review that starts, or waits for its
\* verification.
LEMMA MadePromised ==
  ASSUME IInv, TypeOK', NEW m, NEW record, Made(m, record)
  PROVE  Promise!Next
<1> USE DEF Made
<1>1. m \notin Present /\ NewEntry(m, record)
  BY DEF Entries, NewEntry
<1>2. authority'[m] = record /\ \A l \in Lineage \ {m} : authority'[l] = authority[l]
  BY <1>1, NewEntryFacts DEF IInv
<1>3. m \notin Sealed
  BY <1>1 DEF IInv, StoreInv, ReceiptBindsAuthority, Sealed
<1>4. StateOf(m) = "absent" /\ StateOf(m)' = record.content.state
  BY <1>1, <1>2, RecordsAssumption DEF StateOf, Present
<1>5. <<StateOf(m), StateOf(m)'>> \in Promise!Move
  BY <1>4 DEF Promise!Move
<1> QED
  BY <1>2, <1>3, <1>5, AdvancePromised DEF IInv

\* An abandonment is a move of the promise.
LEMMA AbandonPromised ==
  ASSUME IInv, TypeOK', NEW l \in Lineage, AbandonPristine(l)
  PROVE  Promise!Next
<1>1. /\ GoneEntry(l) /\ receipt[l] = None /\ UNCHANGED receipt
      /\ StateOf(l) \in {"reviewing", "invalidated"}
  BY StateOfPresent DEF IInv, AbandonPristine, GoneEntry, Publish, Pristine
<1>2. authority'[l] = None /\ \A m \in Lineage \ {l} : authority'[m] = authority[m]
  BY <1>1, GoneEntryFacts DEF IInv
<1>3. <<StateOf(l), StateOf(l)'>> \in Promise!Move
  BY <1>1, <1>2 DEF StateOf, Promise!Move
<1> QED
  BY <1>1, <1>2, <1>3, AdvancePromised DEF IInv, Sealed

\* A step of a finalizer is a move of the promise.
LEMMA FinalizeStepPromised ==
  ASSUME IInv, TypeOK', NEW p \in Process, FinalizeStep(p)
  PROVE  Promise!Next \/ UNCHANGED <<PhaseOf, Sealed>>
<1> DEFINE l == command[p].lineage
           c == command[p].held.content
<1>1. command[p] # Idle /\ UNCHANGED receipt
  BY DEF FinalizeStep, Running, Idle
<1>2. PICK next \in FinalizeSteps(c) : ReplaceContext(p, next)
  BY DEF FinalizeStep
<1>3. l \in Lineage /\ c \in Content /\ next \in Steps(c)
  BY <1>1, <1>2, CommandFields DEF IInv, Steps
<1>4. next \in Content
  BY <1>3, StepShape
<1>5. CASE UNCHANGED authority
  BY <1>1, <1>5 DEF PhaseOf, Sealed, StateOf
<1>6. CASE command[p].held = authority[l] /\ MovedEntry(l, next)
  BY <1>1, <1>3, <1>6, StepPromised
<1> QED
  BY <1>1, <1>2, <1>4, <1>5, <1>6, Replaced DEF IInv

\* The commit of a maintainer is a move of the promise.
LEMMA MaintainCommitPromised ==
  ASSUME IInv, TypeOK', NEW p \in Process, MaintainCommit(p)
  PROVE  Promise!Next \/ UNCHANGED <<PhaseOf, Sealed>>
<1> DEFINE l == command[p].lineage
           c == command[p].held.content
<1>1. command[p] # Idle /\ UNCHANGED receipt
  BY DEF MaintainCommit, Running, Idle
<1>2. PICK next : ReplaceContext(p, next) /\ next \in Steps(c)
  BY DEF MaintainCommit, Steps, Disposable
<1>3. l \in Lineage /\ c \in Content
  BY <1>1, CommandFields DEF IInv
<1>4. next \in Content
  BY <1>2, <1>3, StepShape
<1>5. CASE UNCHANGED authority
  BY <1>1, <1>5 DEF PhaseOf, Sealed, StateOf
<1>6. CASE command[p].held = authority[l] /\ MovedEntry(l, next)
  BY <1>1, <1>2, <1>3, <1>6, StepPromised
<1> QED
  BY <1>1, <1>2, <1>4, <1>5, <1>6, Replaced DEF IInv

\* The publication of a receipt is a seal of the promise.
LEMMA FinalizeReceiptPromised ==
  ASSUME IInv, NEW p \in Process, NEW l, l = command[p].lineage, FinalizeReceipt(p)
  PROVE  Promise!Next
<1> DEFINE content == command[p].held.content
<1>1. /\ command[p] # Idle /\ UNCHANGED authority
      /\ content \in DerivableReceipts(l) /\ receipt' = [receipt EXCEPT ![l] = content]
  BY DEF FinalizeReceipt, Running, Idle
<1>2. /\ l \in Lineage /\ content \in Content
      /\ l \in Present /\ Terminal(content) /\ authority[l].content = content
  BY <1>1, CommandFields DEF IInv, DerivableReceipts
<1>3. PhaseOf' = PhaseOf /\ Sealed' = Sealed \cup {l}
  BY <1>1, <1>2, RecordsAssumption DEF IInv, TypeOK, PhaseOf, Sealed, StateOf
<1>4. PhaseOf[l] \in Promise!Settled
  BY <1>2, StateOfPresent DEF IInv, PhaseOf, Terminal, Promise!Settled
<1>5. Promise!Seal(l)
  BY <1>3, <1>4 DEF Promise!Seal, PhaseOf, Sealed
<1> QED
  BY <1>2, <1>5 DEF Promise!Next

\* A withdrawal is one of the promise.
LEMMA InvalidateApprovedPromised ==
  ASSUME IInv, TypeOK', NEW p \in Process, NEW l \in Lineage, InvalidateApproved(p, l)
  PROVE  Promise!Next
<1> DEFINE c == authority[l].content
<1>1. /\ StateOf(l) = "approved" /\ receipt[l] = c /\ UNCHANGED receipt
      /\ authority' = [authority EXCEPT ![l] = [authority[l] EXCEPT !.content = Denied(c)]]
  BY DEF InvalidateApproved, Publish, Denied
<1>2. l \in Present /\ c \in Content
  BY <1>1, PresentRecord, StateOfPresent DEF IInv
<1>3. Denied(c) \in Content /\ Denied(c).state = "invalidated" /\ MovedEntry(l, Denied(c))
  BY <1>1, <1>2 DEF Denied, Content, State, MovedEntry
<1>4. /\ \A m \in Lineage \ {l} : authority'[m] = authority[m]
      /\ StateOf(l)' = "invalidated"
  BY <1>2, <1>3, MovedEntryFacts DEF IInv, StateOf, Present
<1>5. PhaseOf' = [PhaseOf EXCEPT ![l] = "invalidated"] /\ Sealed' = Sealed
  BY <1>1, <1>4, PhaseMoves DEF IInv
<1>6. l \in Sealed
  BY <1>1, <1>2, RecordsAssumption DEF Sealed
<1>7. Promise!Withdraw(l)
  BY <1>1, <1>5, <1>6 DEF Promise!Withdraw, PhaseOf, Sealed
<1> QED
  BY <1>7 DEF Promise!Next

\* An invalidated lineage may lose its receipt.
LEMMA UnsealPromised ==
  ASSUME IInv, NEW l \in Lineage, StateOf(l) = "invalidated", UNCHANGED authority,
         receipt' = [receipt EXCEPT ![l] = None]
  PROVE  Promise!Next
<1>1. PhaseOf' = PhaseOf /\ Sealed' = Sealed \ {l}
  BY DEF IInv, TypeOK, PhaseOf, Sealed, StateOf
<1>2. Promise!Unseal(l)
  BY <1>1 DEF Promise!Unseal, PhaseOf, Sealed
<1> QED
  BY <1>2 DEF Promise!Next

\* Every step is one of the promise, or leaves what it speaks of.
LEMMA NextPromised ==
  ASSUME IInv, TypeOK', [Next]_vars
  PROVE  Promise!Next \/ UNCHANGED <<PhaseOf, Sealed>>
<1>1. ASSUME NEW l \in Lineage, Start(l)
      PROVE  Promise!Next
  BY <1>1, StartMakes, MadePromised
<1>2. ASSUME NEW l \in Lineage, NEW s \in Slot, CaptureReviewerResult(l, s)
      PROVE  UNCHANGED <<PhaseOf, Sealed>>
  BY <1>2 DEF CaptureReviewerResult, PhaseOf, Sealed, StateOf
<1>3. ASSUME NEW l \in Lineage, AbandonPristine(l)
      PROVE  Promise!Next
  BY <1>3, AbandonPromised
<1>4. ASSUME NEW l \in Lineage, ReplayInvalidation(l)
      PROVE  Promise!Next
  BY <1>4, UnsealPromised DEF ReplayInvalidation
<1>5. ASSUME NEW l \in Lineage, NEW m \in Lineage,
             (\E d \in Disposition : Recover(l, m, d)) \/ RetryFinalVerification(l, m)
      PROVE  Promise!Next
  BY <1>5, RecoverMakes, RetryMakes, MadePromised
<1>6. ASSUME NEW p \in Process, FinalizeStep(p) \/ MaintainCommit(p)
      PROVE  Promise!Next \/ UNCHANGED <<PhaseOf, Sealed>>
  BY <1>6, FinalizeStepPromised, MaintainCommitPromised
<1>7. ASSUME NEW p \in Process, FinalizeReceipt(p)
      PROVE  Promise!Next
  BY <1>7, FinalizeReceiptPromised
<1>8. ASSUME NEW p \in Process, RemoveReceipt(p)
      PROVE  Promise!Next
  <2>1. PICK l : l = command[p].lineage
    OBVIOUS
  <2>2. /\ command[p] # Idle /\ command[p].name = "invalidate" /\ UNCHANGED authority
        /\ receipt' = [receipt EXCEPT ![l] = None]
    BY <1>8, <2>1 DEF RemoveReceipt, Running, Idle
  <2>3. l \in Lineage /\ StateOf(l) = "invalidated"
    BY <2>1, <2>2, CommandFields DEF IInv, WithdrawalsLocked
  <2> QED
    BY <2>2, <2>3, UnsealPromised
<1>9. ASSUME NEW p \in Process, NEW l \in Lineage,
             FinalizeRead(p, l) \/ MaintainRead(p, l)
      PROVE  UNCHANGED <<PhaseOf, Sealed>>
  BY <1>9 DEF FinalizeRead, MaintainRead, PhaseOf, Sealed, StateOf
<1>10. ASSUME NEW p \in Process, FinalizeBegin(p) \/ Quit(p)
       PROVE  UNCHANGED <<PhaseOf, Sealed>>
  BY <1>10 DEF FinalizeBegin, Quit, PhaseOf, Sealed, StateOf
<1>11. ASSUME NEW p \in Process, NEW l \in Lineage, InvalidateApproved(p, l)
       PROVE  Promise!Next
  BY <1>11, InvalidateApprovedPromised
<1>12. CASE UNCHANGED vars
  BY <1>12 DEF vars, PhaseOf, Sealed, StateOf
<1> QED
  BY <1>1, <1>2, <1>3, <1>4, <1>5, <1>6, <1>7, <1>8, <1>9, <1>10, <1>11, <1>12 DEF Next

-----------------------------------------------------------------------------
(* The theorems.                                                            *)

\* The invariant holds.
LEMMA InvHolds == Spec => []IInv
  BY InitInv, StepInv, PTL DEF Spec

\* Every entry, receipt and running command keeps its type.
THEOREM TypesHold == Spec => []TypeOK
<1>1. IInv => TypeOK
  BY DEF IInv
<1> QED
  BY <1>1, InvHolds, PTL

\* Recoveries never fork or dangle, however recoveries, retries, finalizers
\* and abandonments of any number of lineages interleave.
THEOREM ForestHolds == Spec => []RecoveriesFormForest
<1>1. IInv => RecoveriesFormForest
  BY DEF IInv, StoreInv
<1> QED
  BY <1>1, InvHolds, PTL

\* No command that read a superseded approval, invalidation or escalation
\* before it was superseded changes it after.
THEOREM HistoryStaysFrozen == Spec => []TerminalHistoryFrozen
<1>1. IInv => TerminalHistoryFrozen
  BY DEF IInv, StoreInv
<1> QED
  BY <1>1, InvHolds, PTL

\* No late finalizer publishes, and no interrupted withdrawal leaves, a receipt
\* of anything but the record that is there.
THEOREM ReceiptsBind == Spec => []ReceiptBindsAuthority
<1>1. IInv => ReceiptBindsAuthority
  BY DEF IInv, StoreInv
<1> QED
  BY <1>1, InvHolds, PTL

\* A capture that comes between the read and the write of a disposition is
\* seen by it.
THEOREM CapturesSurvive == Spec => []CapturedNeverDisposed
<1>1. IInv => CapturedNeverDisposed
  BY DEF IInv, StoreInv
<1> QED
  BY <1>1, InvHolds, PTL

\* The store implements the abstract authority: whatever runs at the same
\* time, each lineage lives the life that ReviewAuthority allows.
THEOREM LivesArePromised == Spec => PromiseKept
<1>1. Init => Promise!Init
  BY DEF Init, Promise!Init, StateOf
<1>2. IInv /\ IInv' /\ [Next]_vars => [Promise!Next]_<<PhaseOf, Sealed>>
  BY NextPromised DEF IInv
<1> QED
  BY <1>1, <1>2, InvHolds, PTL DEF Spec, PromiseKept, Promise!Spec, PhaseOf, Sealed

=============================================================================
