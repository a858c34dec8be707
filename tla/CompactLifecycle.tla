-------------------------- MODULE CompactLifecycle --------------------------
(***************************************************************************)
(* The state machine of one compact review and of the chain of recoveries  *)
(* that continues it: internal/reviewtransaction/compact.go, with the      *)
(* transitions that other files of the package make on the same record     *)
(* (result disposition, result reopen, recovery, imported evidence and the *)
(* one-shot final-verification retry).                                     *)
(*                                                                         *)
(* The module is sequential: who holds which lock, and what two processes  *)
(* do to each other, is CompactAuthority's subject.  Here the question is  *)
(* whether the transitions and the validator of a record agree.            *)
(*                                                                         *)
(* Data.  A finding is a member of Finding; its severity and location are  *)
(* properties of the finding (Severe, InGenesis).  Trees, digests, texts,  *)
(* actors and authorisations are abstracted: a snapshot is "initial" or    *)
(* "fix", a hash is present or absent, the lens results are all there or   *)
(* not there at all (no operation stores a part of them).                  *)
(***************************************************************************)
EXTENDS Integers, Sequences, FiniteSets

CONSTANTS
  Finding,                    \* findings the selected lenses can report
  Severe,                     \* the blocker and critical ones among them
  InGenesis,                  \* those located inside the frozen genesis paths
  Observation,                \* follow-ups a targeted validator can report
  Malformed,                  \* those without an observation or its proof
  MaxCorrectionChangedLines,  \* the cap of every correction budget
  ChangedLines,               \* changed lines a started candidate can have
  MaxLines,                   \* bound: forecast and corrected lines
  MaxGeneration,              \* bound: length of a recovery chain
  MaxReopens                  \* bound: reviewer-result reopens of a lineage

ASSUME FindingAssumption ==
  /\ Severe \subseteq Finding
  /\ InGenesis \subseteq Finding
  /\ Malformed \subseteq Observation
  /\ Observation \cap Finding = {}

ASSUME BoundAssumption ==
  /\ MaxCorrectionChangedLines \in Nat
  /\ ChangedLines \subseteq Nat
  /\ MaxLines \in Nat
  /\ MaxGeneration \in Nat \ {0}
  /\ MaxReopens \in Nat

VARIABLE chain  \* the lineages of one recovery chain, oldest first

-----------------------------------------------------------------------------
(* The record.                                                             *)

ReviewState == {"reviewing", "correction_required", "validating",
                "approved", "escalated", "invalidated"}

EvidenceClass == {"deterministic", "inferential", "insufficient"}
\* Introduced, behavior-activated and worsened findings are "candidate"
\* causal; pre-existing and base-only ones are "non_candidate".
Causality == {"candidate", "non_candidate", "unknown"}
Evidence == [class : EvidenceClass, causality : Causality]
Unclassified == [class |-> "none", causality |-> "none"]

RefuterOutcome == {"corroborated", "refuted", "inconclusive"}
Outcome == RefuterOutcome \cup {"info", "none"}

Verdict == {"passed", "failed"}
NoLines == -1
MaxCompactCorrectionAttempts == 1

\* What a review froze: the content compactReviewEvidenceHash digests.  The
\* follow-up of a non-candidate finding is the finding itself.
ReviewData ==
  [findings        : SUBSET Finding,
   classifications : [Finding -> Evidence \cup {Unclassified}],
   outcomes        : [Finding -> Outcome],
   fixFindingIDs   : SUBSET Finding,
   followUps       : SUBSET (Finding \cup Observation)]

NoReview ==
  [findings        |-> {},
   classifications |-> [f \in Finding |-> Unclassified],
   outcomes        |-> [f \in Finding |-> "none"],
   fixFindingIDs   |-> {},
   followUps       |-> {}]

CorrectionAttempt ==
  [ledgerIDs : SUBSET Finding, proposed : Nat, actual : Nat,
   original : Verdict, regression : Verdict]

RecoveryDisposition == {"scope_changed", "invalidated", "escalated",
                        "final_verification_retry"}

\* Evidence imported from an accounting-only predecessor, or none (no
\* evidence ever has zero native lines).
RecoveredEvidence ==
  [review : ReviewData, source : Seq(CorrectionAttempt), nativeLines : Nat]
NoEvidence == [review |-> NoReview, source |-> <<>>, nativeLines |-> 0]

CompactState ==
  [state                     : ReviewState,
   generation                : Nat \ {0},
   disposition               : RecoveryDisposition \cup {"none"},
   evidence                  : RecoveredEvidence,
   originalChangedLines      : Nat,
   correctionBudget          : Nat,
   lensResults               : BOOLEAN,
   review                    : ReviewData,
   proposedCorrectionLines   : Nat \cup {NoLines},
   actualCorrectionLines     : Nat \cup {NoLines},
   correctionAttempts        : Seq(CorrectionAttempt),
   cumulativeCorrectionLines : Nat,
   currentSnapshot           : {"initial", "fix"},
   fixDelta                  : BOOLEAN,
   originalCriteria          : Verdict \cup {"none"},
   correctionRegression      : Verdict \cup {"none"},
   evidenceHash              : BOOLEAN,
   invalidationReason        : BOOLEAN,
   invalidationEvidence      : BOOLEAN,
   resultDispositions        : Nat,
   resultReopens             : Nat]

\* Mutant: the cap is forgotten.
UncappedBudget(lines) == (lines \div 2) + (lines % 2)

CorrectionBudget(lines) ==
  LET half == (lines \div 2) + (lines % 2)
  IN  IF half < MaxCorrectionChangedLines THEN half
                                          ELSE MaxCorrectionChangedLines

NewCompactState(generation, lines, disposition) ==
  [state |-> "reviewing", generation |-> generation,
   disposition |-> disposition, evidence |-> NoEvidence,
   originalChangedLines |-> lines, correctionBudget |-> CorrectionBudget(lines),
   lensResults |-> FALSE, review |-> NoReview,
   proposedCorrectionLines |-> NoLines, actualCorrectionLines |-> NoLines,
   correctionAttempts |-> <<>>, cumulativeCorrectionLines |-> 0,
   currentSnapshot |-> "initial", fixDelta |-> FALSE,
   originalCriteria |-> "none", correctionRegression |-> "none",
   evidenceHash |-> FALSE, invalidationReason |-> FALSE,
   invalidationEvidence |-> FALSE, resultDispositions |-> 0,
   resultReopens |-> 0]

-----------------------------------------------------------------------------
(* CompactState.Validate.                                                  *)

CorrectionAttemptConsumed(s) ==
  Len(s.correctionAttempts) >= MaxCompactCorrectionAttempts

compactPristineReviewing(s) ==
  /\ s.state = "reviewing"
  /\ s.resultDispositions = 0
  /\ s.currentSnapshot = "initial"
  /\ ~s.lensResults
  /\ s.review = NoReview
  /\ s.proposedCorrectionLines = NoLines
  /\ s.actualCorrectionLines = NoLines
  /\ ~s.fixDelta
  /\ s.originalCriteria = "none"
  /\ s.correctionRegression = "none"
  /\ ~s.evidenceHash
  /\ ~s.invalidationReason
  /\ s.correctionAttempts = <<>>
  /\ s.cumulativeCorrectionLines = 0

\* The outcome one severe finding must carry, given its stored evidence.
Unresolvable(e) == e.class = "insufficient" \/ e.causality = "unknown"
OutsideCandidate(e) == ~Unresolvable(e) /\ e.causality = "non_candidate"

OutcomeFollowsEvidence(e, outcome) ==
  /\ Unresolvable(e) => outcome = "inconclusive"
  /\ OutsideCandidate(e) => outcome = "info"
  /\ ~Unresolvable(e) /\ e.causality = "candidate" =>
       outcome \in IF e.class = "deterministic" THEN {"corroborated"}
                                                ELSE RefuterOutcome

validateCompactFindings(s) ==
  LET r == s.review
      severe == r.findings \cap Severe
  IN  \/ s.state \in {"reviewing", "invalidated"}
      \/ /\ s.state = "escalated" /\ s.resultDispositions > 0
         /\ ~s.lensResults /\ ~s.evidenceHash
         /\ r.findings = {} /\ r.fixFindingIDs = {}
         /\ r.classifications = NoReview.classifications
         /\ r.outcomes = NoReview.outcomes
      \/ /\ ~(s.state = "escalated" /\ s.resultDispositions > 0)
         /\ s.lensResults
         /\ \A f \in Finding :
              /\ f \notin severe <=> r.classifications[f] = Unclassified
              /\ f \notin r.findings <=> r.outcomes[f] = "none"
              /\ f \in r.findings \ severe => r.outcomes[f] = "info"
              /\ f \in severe =>
                   OutcomeFollowsEvidence(r.classifications[f], r.outcomes[f])
         /\ \A f \in severe :
              OutsideCandidate(r.classifications[f]) => f \in r.followUps
         /\ r.fixFindingIDs = {f \in severe : r.outcomes[f] = "corroborated"}
         /\ (\E f \in severe : r.outcomes[f] = "inconclusive")
              => s.state = "escalated"
         /\ r.followUps \cap Malformed = {}

\* Accounting of the persisted attempts, whatever the state they led to.
AttemptsAccounted(s) ==
  LET attempts == s.correctionAttempts
  IN  /\ attempts = <<>> => s.cumulativeCorrectionLines = 0
      /\ attempts # <<>> =>
           /\ attempts[1].proposed > 0
           /\ attempts[1].ledgerIDs = s.review.fixFindingIDs
           /\ s.cumulativeCorrectionLines = attempts[1].actual
           /\ s.cumulativeCorrectionLines > s.correctionBudget => s.state = "escalated"
           /\ s.currentSnapshot = "fix"

\* The shapes of historical records that end the validation of a correction.
\* (A third one needs the three attempts of an older policy: such records are
\* readable only, and no operation below can continue or create one.)
HistoricalAttempts(s) ==
  LET forecast == s.proposedCorrectionLines # NoLines
      over == s.cumulativeCorrectionLines + s.proposedCorrectionLines > s.correctionBudget
  IN  /\ s.correctionAttempts # <<>>
      /\ s.actualCorrectionLines = NoLines
      /\ \/ /\ s.state = "correction_required" /\ ~s.fixDelta
            /\ s.originalCriteria = "none" /\ s.correctionRegression = "none"
            /\ forecast => ~over
         \/ s.state = "escalated" /\ forecast /\ over

Corrected(s) ==
  \/ s.currentSnapshot # "initial"
  \/ s.fixDelta
  \/ s.actualCorrectionLines # NoLines
  \/ s.originalCriteria # "none"
  \/ s.correctionRegression # "none"

UncorrectedShape(s) ==
  /\ s.proposedCorrectionLines # NoLines =>
       /\ s.review.fixFindingIDs # {}
       /\ s.state \in {"correction_required", "escalated"}
       /\ s.state = "escalated" => s.proposedCorrectionLines > s.correctionBudget
  /\ s.review.fixFindingIDs # {} => s.state \in {"correction_required", "escalated"}

CorrectedShape(s) ==
  /\ s.review.fixFindingIDs # {}
  /\ s.state \notin {"reviewing", "correction_required"}
  /\ s.proposedCorrectionLines # NoLines
  /\ s.proposedCorrectionLines <= s.correctionBudget
  /\ s.actualCorrectionLines # NoLines
  /\ s.currentSnapshot = "fix" /\ s.fixDelta
  /\ s.originalCriteria # "none" /\ s.correctionRegression # "none"
  /\ s.correctionAttempts # <<>> =>
       LET last == s.correctionAttempts[1]
       IN  /\ last.proposed = s.proposedCorrectionLines
           /\ last.actual = s.actualCorrectionLines
           /\ last.original = s.originalCriteria
           /\ last.regression = s.correctionRegression
  /\ s.state \in {"validating", "approved"} =>
       s.originalCriteria = "passed" /\ s.correctionRegression = "passed"

validateCompactRecoveredCorrection(s) ==
  LET source == s.evidence.source[1]
      native == s.evidence.nativeLines
  IN  /\ s.state \in {"validating", "approved", "escalated"}
      /\ native > 0 /\ s.evidence.source # <<>>
      /\ s.currentSnapshot = "initial"
      /\ s.correctionAttempts = <<>> /\ s.cumulativeCorrectionLines = 0
      /\ s.proposedCorrectionLines = source.proposed
      /\ s.actualCorrectionLines = native
      /\ s.review.fixFindingIDs # {}
      /\ source.proposed > 0 /\ source.actual > native /\ native <= source.proposed
      /\ source.ledgerIDs = s.review.fixFindingIDs
      /\ s.fixDelta
      /\ s.originalCriteria = "passed" /\ source.original = "passed"
      /\ s.correctionRegression = "passed" /\ source.regression = "passed"
      /\ s.review = s.evidence.review
      /\ s.evidenceHash = (s.state # "validating")

validateCompactCorrection(s) ==
  IF s.evidence # NoEvidence
    THEN validateCompactRecoveredCorrection(s)
    ELSE /\ AttemptsAccounted(s)
         /\ \/ HistoricalAttempts(s)
            \/ /\ s.correctionAttempts # <<>> => s.state # "correction_required"
               /\ IF Corrected(s) THEN CorrectedShape(s) ELSE UncorrectedShape(s)

ValidForecast(s) ==
  /\ s.proposedCorrectionLines # NoLines => s.proposedCorrectionLines > 0
  /\ s.proposedCorrectionLines > s.correctionBudget =>
       s.state = "escalated" /\ s.actualCorrectionLines = NoLines
  /\ s.actualCorrectionLines > s.correctionBudget => s.state = "escalated"

ValidPhase(s) ==
  CASE s.state = "reviewing" ->
         /\ s.review.findings = {} /\ s.review.fixFindingIDs = {}
         /\ s.review.classifications = NoReview.classifications
         /\ s.review.outcomes = NoReview.outcomes
         /\ s.proposedCorrectionLines = NoLines
         /\ s.actualCorrectionLines = NoLines
         /\ ~s.evidenceHash /\ ~s.invalidationReason
    [] s.state = "invalidated" ->
         /\ s.invalidationReason
         /\ compactPristineReviewing([s EXCEPT !.state = "reviewing",
                                               !.invalidationReason = FALSE])
    [] s.state = "correction_required" ->
         s.lensResults /\ s.review.fixFindingIDs # {} /\ ~s.evidenceHash
    [] s.state = "validating" -> s.lensResults /\ ~s.evidenceHash
    [] s.state = "approved" -> s.evidenceHash
    [] OTHER -> TRUE

ValidContent(s) ==
  /\ s.correctionBudget = CorrectionBudget(s.originalChangedLines)
  /\ s.evidence # NoEvidence => s.disposition = "escalated"
  /\ s.resultDispositions > 0 => s.state = "escalated"
  /\ s.invalidationEvidence => s.state = "invalidated"
  /\ validateCompactFindings(s)
  /\ ValidForecast(s)
  /\ validateCompactCorrection(s)
  /\ ValidPhase(s)

\* An invalidation that carries gate evidence is valid exactly when undoing
\* it gives back a valid approved record (the one whose revision it binds).
GateInvalidated(s) ==
  s.state = "invalidated" /\ s.invalidationReason /\ s.invalidationEvidence

Approval(s) ==
  [s EXCEPT !.state = "approved", !.invalidationReason = FALSE,
            !.invalidationEvidence = FALSE]

Validate(s) ==
  IF GateInvalidated(s)
    THEN ValidContent(Approval(s))
    ELSE ValidContent(s)

-----------------------------------------------------------------------------
(* The operations on one record: the guard of each and its result.  A       *)
(* caller persists a result only if it validates (Commit below).           *)

\* Mutant: the classifier's claim is taken as it comes.
ClaimedEvidence(f, e) == e

\* An out-of-genesis location cannot prove candidate causality.
FrozenEvidence(f, e) ==
  IF e.causality = "candidate" /\ f \notin InGenesis
    THEN [e EXCEPT !.causality = "unknown"]
    ELSE e

RoutedOutcome(e, refuted) ==
  IF Unresolvable(e) THEN "inconclusive"
  ELSE IF OutsideCandidate(e) THEN "info"
  ELSE IF e.class = "deterministic" THEN "corroborated"
  ELSE refuted

\* reported: what the lenses returned; given, refuted: the classification and
\* the refuter outcome of every severe finding ("none": no outcome came).
RoutedReview(reported, given, refuted) ==
  LET severe == reported \cap Severe
      classifications == [f \in Finding |->
        IF f \in severe THEN FrozenEvidence(f, given[f]) ELSE Unclassified]
      outcomes == [f \in Finding |->
        IF f \in severe THEN RoutedOutcome(classifications[f], refuted[f])
        ELSE IF f \in reported THEN "info" ELSE "none"]
  IN  [findings        |-> reported,
       classifications |-> classifications,
       outcomes        |-> outcomes,
       fixFindingIDs   |-> {f \in severe : outcomes[f] = "corroborated"},
       followUps       |-> {f \in severe : OutsideCandidate(classifications[f])}]

\* Every inferential candidate-causal finding needs one refuter outcome.
RefutersPresent(r) == \A f \in r.findings : r.outcomes[f] # "none"

ReviewedState(r) ==
  IF \E f \in r.findings : r.outcomes[f] = "inconclusive" THEN "escalated"
  ELSE IF r.fixFindingIDs # {} THEN "correction_required"
  ELSE "validating"

CompleteReview(s, r) ==
  [s EXCEPT !.state = ReviewedState(r), !.lensResults = TRUE, !.review = r]

CanBeginCorrection(s) ==
  /\ ~CorrectionAttemptConsumed(s)
  /\ s.state = "correction_required"
  /\ s.proposedCorrectionLines = NoLines

BeginCorrection(s, proposed) ==
  [s EXCEPT
     !.proposedCorrectionLines = proposed,
     !.state = IF s.cumulativeCorrectionLines + proposed > s.correctionBudget
                 THEN "escalated" ELSE s.state]

CanCompleteCorrection(s) ==
  /\ ~CorrectionAttemptConsumed(s)
  /\ s.state = "correction_required"
  /\ s.proposedCorrectionLines # NoLines

\* Mutant: only the size of the correction decides, not its two checks.
CompleteUncheckedCorrection(s, actual, original, regression, followUps) ==
  LET cumulative == s.cumulativeCorrectionLines + actual
      attempt == [ledgerIDs |-> s.review.fixFindingIDs,
                  proposed |-> s.proposedCorrectionLines, actual |-> actual,
                  original |-> original, regression |-> regression]
  IN  [s EXCEPT
         !.correctionAttempts = Append(@, attempt),
         !.cumulativeCorrectionLines = cumulative,
         !.currentSnapshot = "fix", !.fixDelta = TRUE,
         !.review.followUps = @ \cup followUps,
         !.actualCorrectionLines = actual,
         !.originalCriteria = original, !.correctionRegression = regression,
         !.state = IF cumulative <= s.correctionBudget THEN "validating" ELSE "escalated"]

\* The follow-ups come from the validator as they are: the guard of the code
\* only refuses a missing list.
CompleteCorrection(s, actual, original, regression, followUps) ==
  LET cumulative == s.cumulativeCorrectionLines + actual
      attempt == [ledgerIDs |-> s.review.fixFindingIDs,
                  proposed |-> s.proposedCorrectionLines, actual |-> actual,
                  original |-> original, regression |-> regression]
      accepted == /\ cumulative <= s.correctionBudget
                  /\ original = "passed" /\ regression = "passed"
  IN  [s EXCEPT
         !.correctionAttempts = Append(@, attempt),
         !.cumulativeCorrectionLines = cumulative,
         !.currentSnapshot = "fix", !.fixDelta = TRUE,
         !.review.followUps = @ \cup followUps,
         !.actualCorrectionLines = actual,
         !.originalCriteria = original, !.correctionRegression = regression,
         !.state = IF accepted THEN "validating" ELSE "escalated"]

CompleteVerification(s, approved) ==
  [s EXCEPT !.evidenceHash = TRUE,
            !.state = IF approved THEN "approved" ELSE "escalated"]

Invalidate(s) ==
  [s EXCEPT !.state = "invalidated", !.invalidationReason = TRUE]

invalidateApproved(s) ==
  [s EXCEPT !.state = "invalidated", !.invalidationReason = TRUE,
            !.invalidationEvidence = TRUE]

DisposeResult(s) ==
  [s EXCEPT !.state = "escalated", !.resultDispositions = @ + 1]

\* Mutant: an approved authority may be reopened too.
CanReopenSettledResults(s) ==
  /\ s.state \in {"validating", "approved"}
  /\ s.review.fixFindingIDs = {}
  /\ s.correctionAttempts = <<>>

CanReopenResults(s) ==
  /\ s.state = "validating"
  /\ s.currentSnapshot = "initial"
  /\ s.review.fixFindingIDs = {}
  /\ s.correctionAttempts = <<>>
  /\ s.proposedCorrectionLines = NoLines /\ s.actualCorrectionLines = NoLines
  /\ s.originalCriteria = "none" /\ s.correctionRegression = "none"
  /\ ~s.evidenceHash

\* Mutant: the reopen drops an audit record where it should append one.
ReopenWithoutAudit(s) ==
  [s EXCEPT !.state = "reviewing", !.lensResults = FALSE, !.review = NoReview,
            !.resultReopens = @ - 1]

ReopenResults(s) ==
  [s EXCEPT !.state = "reviewing", !.lensResults = FALSE, !.review = NoReview,
            !.proposedCorrectionLines = NoLines, !.actualCorrectionLines = NoLines,
            !.fixDelta = FALSE, !.originalCriteria = "none",
            !.correctionRegression = "none", !.evidenceHash = FALSE,
            !.resultReopens = @ + 1]

compactAccountingOnlyEscalation(s) ==
  /\ s.state = "escalated" /\ ~s.evidenceHash
  /\ Len(s.correctionAttempts) = 1
  /\ s.cumulativeCorrectionLines > s.correctionBudget
  /\ s.review.fixFindingIDs # {} /\ s.resultDispositions = 0
  /\ LET attempt == s.correctionAttempts[1]
     IN  /\ attempt.proposed = s.proposedCorrectionLines
         /\ attempt.actual = s.actualCorrectionLines
         /\ attempt.actual = s.cumulativeCorrectionLines
         /\ attempt.original = s.originalCriteria /\ attempt.original = "passed"
         /\ attempt.regression = s.correctionRegression /\ attempt.regression = "passed"

\* The native count must show that the recorded one was the only failure.
NativeLinesBound(s, native) ==
  /\ native > 0 /\ native <= s.correctionBudget
  /\ native <= s.correctionAttempts[1].proposed
  /\ native < s.correctionAttempts[1].actual

importCompactRecoveredEvidence(fresh, s, native) ==
  LET source == s.correctionAttempts[1]
  IN  [fresh EXCEPT
         !.state = "validating", !.lensResults = s.lensResults,
         !.review = s.review,
         !.proposedCorrectionLines = source.proposed,
         !.actualCorrectionLines = native, !.fixDelta = TRUE,
         !.originalCriteria = source.original,
         !.correctionRegression = source.regression,
         !.evidence = [review |-> s.review, source |-> <<source>>,
                       nativeLines |-> native]]

\* Everything is cloned; the recovery provenance is replaced.
finalVerificationRetrySuccessor(s) ==
  [s EXCEPT !.generation = @ + 1, !.state = "validating",
            !.evidenceHash = FALSE, !.evidence = NoEvidence,
            !.disposition = "final_verification_retry"]

-----------------------------------------------------------------------------
(* Edges between a record and the recovery that supersedes it.  An edge is  *)
(* judged on the CURRENT successor, each time the graph is read.            *)

compactHistoricalFailedValidator(p) ==
  /\ p.state = "correction_required" /\ CorrectionAttemptConsumed(p)
  /\ p.actualCorrectionLines = NoLines /\ ~p.fixDelta
  /\ p.originalCriteria = "none" /\ p.correctionRegression = "none"
  /\ "failed" \in {p.correctionAttempts[1].original, p.correctionAttempts[1].regression}

\* Mutant: the edge is judged as if its successor had just been created.
FreshRecoveredEvidenceEdge(p, s) ==
  compactAccountingOnlyEscalation(p) /\ s.state = "validating"

validateCompactRecoveredEvidenceEdge(p, s) ==
  /\ compactAccountingOnlyEscalation(p)
  /\ s.evidence.review = p.review /\ s.review = p.review
  /\ s.evidence.source = p.correctionAttempts
  /\ NativeLinesBound(p, s.evidence.nativeLines)

validateCompactFinalVerificationRetryEdge(p, s) ==
  /\ p.state = "escalated" /\ p.evidenceHash
  /\ s = finalVerificationRetrySuccessor(p)

validateCompactRecoveryEdge(p, s) ==
  /\ s.generation = p.generation + 1
  /\ \/ /\ s.disposition = "scope_changed"
        /\ p.state \in {"approved", "correction_required"}
     \/ s.disposition = "invalidated" /\ p.state = "invalidated"
     \/ /\ s.disposition = "escalated" /\ s.evidence = NoEvidence
        /\ p.state = "escalated" \/ compactHistoricalFailedValidator(p)
     \/ /\ s.disposition = "escalated" /\ s.evidence # NoEvidence
        /\ validateCompactRecoveredEvidenceEdge(p, s)
     \/ /\ s.disposition = "final_verification_retry"
        /\ validateCompactFinalVerificationRetryEdge(p, s)

EdgeValid(i) == validateCompactRecoveryEdge(chain[i], chain[i + 1])

\* compactAuthorityLeaves on a chain: one invalid edge refuses the whole graph.
GraphIntact == \A i \in 1 .. Len(chain) - 1 : EdgeValid(i)

-----------------------------------------------------------------------------
(* The actions, on the leaf of the chain.                                   *)

Lines == 0 .. MaxLines
Leaf == chain[Len(chain)]

\* replaceContextGuarded: an invalid result is refused, nothing is written.
Commit(next) ==
  /\ Validate(next)
  /\ chain' = [chain EXCEPT ![Len(chain)] = next]

\* RecoverCompactAuthority and RetryCompactFinalVerification publish a new
\* lineage next to an intact graph and leave the predecessor as it is.
Succeed(successor) ==
  /\ Len(chain) < MaxGeneration
  /\ GraphIntact
  /\ Validate(successor)
  /\ validateCompactRecoveryEdge(Leaf, successor)
  /\ chain' = Append(chain, successor)

Init ==
  \E lines \in ChangedLines : chain = <<NewCompactState(1, lines, "none")>>

ReviewLeaf ==
  /\ Leaf.state = "reviewing"
  /\ \E reported \in SUBSET Finding :
     \E given \in [reported \cap Severe -> Evidence],
        refuted \in [reported \cap Severe -> RefuterOutcome \cup {"none"}] :
       LET r == RoutedReview(reported, given, refuted)
       IN  RefutersPresent(r) /\ Commit(CompleteReview(Leaf, r))

ForecastLeaf ==
  /\ CanBeginCorrection(Leaf)
  /\ \E proposed \in Lines \ {0} : Commit(BeginCorrection(Leaf, proposed))

CorrectLeaf ==
  /\ CanCompleteCorrection(Leaf)
  /\ \E actual \in Lines, original, regression \in Verdict,
        followUps \in SUBSET Observation :
       Commit(CompleteCorrection(Leaf, actual, original, regression, followUps))

VerifyLeaf ==
  /\ Leaf.state = "validating"
  /\ \E approved \in BOOLEAN : Commit(CompleteVerification(Leaf, approved))

InvalidateLeaf == compactPristineReviewing(Leaf) /\ Commit(Invalidate(Leaf))

\* The gate denies a live target that moved away from the approved one; its
\* denial is bound to the record only while the graph is intact.
InvalidateApprovedLeaf ==
  /\ Leaf.state = "approved"
  /\ GraphIntact
  /\ Commit(invalidateApproved(Leaf))

DisposeLeaf == Leaf.state = "reviewing" /\ Commit(DisposeResult(Leaf))

\* Some admitted reviewer artifact turned out unusable.  Only the lineage
\* that captured the artifacts has them: a retry's own directory is empty.
ReopenLeaf ==
  /\ CanReopenResults(Leaf)
  /\ Leaf.disposition # "final_verification_retry"
  /\ Leaf.resultReopens < MaxReopens
  /\ Commit(ReopenResults(Leaf))

\* A fresh budget on a changed target.
RecoverLeaf ==
  \E disposition \in RecoveryDisposition \ {"final_verification_retry"},
     lines \in ChangedLines :
    Succeed(NewCompactState(Leaf.generation + 1, lines, disposition))

\* The corrected candidate itself is the recovery target.
RecoverEvidenceLeaf ==
  /\ compactAccountingOnlyEscalation(Leaf)
  /\ \E lines \in ChangedLines, native \in Lines :
       /\ NativeLinesBound(Leaf, native)
       /\ Succeed(importCompactRecoveredEvidence(
                    NewCompactState(Leaf.generation + 1, lines, "escalated"), Leaf, native))

\* finalVerificationRetryAncestryEligible: one retry in a whole ancestry.
RetryUnspent == \A i \in 1 .. Len(chain) : chain[i].disposition # "final_verification_retry"

CanRetryFinalVerification(s) == s.state = "escalated" /\ s.evidenceHash

RetryLeaf ==
  /\ CanRetryFinalVerification(Leaf)
  /\ RetryUnspent
  /\ Succeed(finalVerificationRetrySuccessor(Leaf))

Next ==
  \/ ReviewLeaf
  \/ ForecastLeaf
  \/ CorrectLeaf
  \/ VerifyLeaf
  \/ InvalidateLeaf
  \/ InvalidateApprovedLeaf
  \/ DisposeLeaf
  \/ ReopenLeaf
  \/ RecoverLeaf
  \/ RecoverEvidenceLeaf
  \/ RetryLeaf

Spec == Init /\ [][Next]_chain

-----------------------------------------------------------------------------
(* Properties.                                                              *)

\* Every record of the chain has its type and at most one correction attempt.
TypeOK ==
  /\ chain \in Seq(CompactState)
  /\ chain # <<>>
  /\ \A i \in 1 .. Len(chain) :
       Len(chain[i].correctionAttempts) <= MaxCompactCorrectionAttempts

\* The validator accepts the result of every operation its guard admits, with
\* one exception: a correction whose targeted validator reported a malformed
\* follow-up passes the guard of CompleteCorrection and is refused, the work
\* with it.  Any other refusal would leave the lineage stuck (every mutation
\* of compact.go ends with state.Validate, replaceContextGuarded repeats it).
ReviewAccepted(s) ==
  s.state = "reviewing" =>
    \A reported \in SUBSET Finding :
    \A given \in [reported \cap Severe -> Evidence],
       refuted \in [reported \cap Severe -> RefuterOutcome \cup {"none"}] :
      LET r == RoutedReview(reported, given, refuted)
      IN  RefutersPresent(r) => Validate(CompleteReview(s, r))

CorrectionJudged(s) ==
  /\ CanBeginCorrection(s) =>
       \A proposed \in Lines \ {0} : Validate(BeginCorrection(s, proposed))
  /\ CanCompleteCorrection(s) =>
       \A actual \in Lines, original, regression \in Verdict,
          followUps \in SUBSET Observation :
         Validate(CompleteCorrection(s, actual, original, regression, followUps))
           <=> followUps \cap Malformed = {}

TerminationAccepted(s) ==
  /\ s.state = "validating" =>
       \A approved \in BOOLEAN : Validate(CompleteVerification(s, approved))
  /\ compactPristineReviewing(s) => Validate(Invalidate(s))
  /\ s.state = "approved" => Validate(invalidateApproved(s))
  /\ s.state = "reviewing" => Validate(DisposeResult(s))
  /\ CanReopenResults(s) => Validate(ReopenResults(s))

RefusesOnlyMalformed ==
  /\ ReviewAccepted(Leaf)
  /\ CorrectionJudged(Leaf)
  /\ TerminationAccepted(Leaf)

\* A correction can only be demanded for findings inside the frozen genesis
\* scope: whatever causality the classifier claims, an out-of-genesis
\* location is demoted and cannot become a fix (CompleteReview).
FixesStayInGenesis ==
  \A i \in 1 .. Len(chain) : chain[i].review.fixFindingIDs \subseteq Severe \cap InGenesis

\* Whatever was imported or retried, a record that passed its correction
\* never carries more corrected lines than half of the change it reviewed
\* (rounded up) and never more than the cap.
AcceptedCorrectionWithinBudget ==
  \A i \in 1 .. Len(chain) :
    chain[i].state \in {"validating", "approved"} =>
      /\ 2 * chain[i].actualCorrectionLines <= chain[i].originalChangedLines + 1
      /\ chain[i].actualCorrectionLines <= MaxCorrectionChangedLines

\* A spent final-verification retry and a pending chain of recoveries are
\* consistent: every edge stays valid while its successor moves on, except
\* the edge of a retry that left validating (see ApprovedRetryStaysUsable).
EdgesStayValid ==
  \A i \in 1 .. Len(chain) - 1 :
    \/ EdgeValid(i)
    \/ /\ chain[i + 1].disposition = "final_verification_retry"
       /\ chain[i + 1].state # "validating"

\* A step never rewrites a superseded record and never shortens the chain.
\* The frozen review of the leaf changes only by completing a review, by
\* reopening one, or with the follow-ups that a recorded correction attempt
\* adds: those it had stay, and nothing else of the review moves.
ReviewRewrites ==
  {"reviewing"} \X {"correction_required", "validating", "escalated"}
  \cup {<<"validating", "reviewing">>}

OnlyFollowUpsAdded(before, after) ==
  /\ before.state = "correction_required"
  /\ Len(after.correctionAttempts) = Len(before.correctionAttempts) + 1
  /\ before.review.followUps \subseteq after.review.followUps
  /\ after.review = [before.review EXCEPT !.followUps = after.review.followUps]

FrozenStep ==
  /\ Len(chain) <= Len(chain')
  /\ \A i \in 1 .. Len(chain) - 1 : chain'[i] = chain[i]
  /\ LET before == chain[Len(chain)]
         after  == chain'[Len(chain)]
     IN  /\ Len(chain') > Len(chain) => after = before
         /\ after.review # before.review =>
              \/ <<before.state, after.state>> \in ReviewRewrites
              \/ OnlyFollowUpsAdded(before, after)

FrozenHistory == [][FrozenStep]_chain

\* docs/review-integration.md:205 says of the retried lineage "Success
\* approves": an approved leaf is then usable, its chain still a valid graph.
ApprovedRetryStaysUsable ==
  Leaf.state = "approved" => GraphIntact

=============================================================================
