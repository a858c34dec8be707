----------------------- MODULE CompactLifecycle_proofs -----------------------
(***************************************************************************)
(* Theorems about CompactLifecycle, for every set of findings and every    *)
(* bound.  The inductive invariant says that each record of the chain is   *)
(* Good: it has its type, its validator accepts it, its fixes lie in the   *)
(* genesis scope, and it is Pristine, the one fact Validate leaves open    *)
(* (it accepts a reviewing record that already holds lens results or       *)
(* follow-ups, and a reason on a record that was not invalidated).         *)
(***************************************************************************)
EXTENDS CompactLifecycle, TLAPS, SequenceTheorems

Pristine(s) ==
  /\ s.state = "reviewing" => compactPristineReviewing(s)
  /\ s.state # "invalidated" => ~s.invalidationReason

Good(s) ==
  /\ s \in CompactState
  /\ Len(s.correctionAttempts) <= MaxCompactCorrectionAttempts
  /\ Validate(s)
  /\ Pristine(s)
  /\ s.review.fixFindingIDs \subseteq Severe \cap InGenesis

IInv ==
  /\ chain \in Seq(CompactState)
  /\ chain # <<>>
  /\ \A i \in 1 .. Len(chain) : Good(chain[i])

-----------------------------------------------------------------------------
(* Arithmetic and data.                                                     *)

\* The correction budget is half of the original lines, rounded up and capped.
LEMMA BudgetType ==
  ASSUME NEW lines \in Nat
  PROVE  /\ CorrectionBudget(lines) \in Nat
         /\ CorrectionBudget(lines) <= MaxCorrectionChangedLines
         /\ 2 * CorrectionBudget(lines) <= lines + 1
<1>1. (lines \div 2) + (lines % 2) \in Nat
  OBVIOUS
<1>2. 2 * ((lines \div 2) + (lines % 2)) <= lines + 1
  OBVIOUS
<1> QED
  BY <1>1, <1>2, BoundAssumption DEF CorrectionBudget

\* The empty review has its type.
LEMMA NoReviewType == NoReview \in ReviewData
  BY DEF NoReview, ReviewData, Outcome, RefuterOutcome

\* The empty evidence has its type.
LEMMA NoEvidenceType == NoEvidence \in RecoveredEvidence
  BY NoReviewType DEF NoEvidence, RecoveredEvidence

\* A new record is good.
LEMMA NewStateGood ==
  ASSUME NEW generation \in Nat \ {0}, NEW lines \in Nat,
         NEW disposition \in RecoveryDisposition \cup {"none"}
  PROVE  Good(NewCompactState(generation, lines, disposition))
<1> DEFINE s == NewCompactState(generation, lines, disposition)
<1>1. s \in CompactState
  BY BudgetType, NoReviewType, NoEvidenceType
  DEF NewCompactState, CompactState, ReviewState, Verdict, NoLines
<1>2. /\ s.state = "reviewing" /\ s.evidence = NoEvidence /\ s.review = NoReview
      /\ s.correctionBudget = CorrectionBudget(s.originalChangedLines)
      /\ ~s.lensResults /\ s.currentSnapshot = "initial" /\ ~s.fixDelta
      /\ s.proposedCorrectionLines = NoLines /\ s.actualCorrectionLines = NoLines
      /\ s.correctionAttempts = <<>> /\ s.cumulativeCorrectionLines = 0
      /\ s.originalCriteria = "none" /\ s.correctionRegression = "none"
      /\ ~s.evidenceHash /\ ~s.invalidationReason /\ ~s.invalidationEvidence
      /\ s.resultDispositions = 0
  BY DEF NewCompactState
<1> HIDE DEF s
<1>3. Pristine(s)
  BY <1>2 DEF Pristine, compactPristineReviewing
<1>4. s.review.fixFindingIDs = {} /\ s.review.findings = {}
  BY <1>2 DEF NoReview
<1>5. s.correctionBudget \in Nat
  BY <1>1 DEF CompactState
<1>6. ValidForecast(s)
  BY <1>2, <1>5 DEF ValidForecast, NoLines
<1>7. validateCompactCorrection(s)
  BY <1>2, <1>4 DEF validateCompactCorrection, AttemptsAccounted, Corrected, UncorrectedShape
<1>8. ValidContent(s)
  BY <1>2, <1>4, <1>6, <1>7 DEF ValidContent, validateCompactFindings, ValidPhase
<1>9. Good(s)
  BY <1>1, <1>2, <1>3, <1>4, <1>8
  DEF Good, Validate, GateInvalidated, MaxCompactCorrectionAttempts
<1> QED
  BY <1>9 DEF s
-----------------------------------------------------------------------------
(* Review.                                                                  *)

\* What every completed review satisfies, as a fact about what it froze.
FrozenReview(r) ==
  /\ r \in ReviewData
  /\ r.fixFindingIDs \subseteq Severe \cap InGenesis
  /\ r.fixFindingIDs = {f \in r.findings \cap Severe : r.outcomes[f] = "corroborated"}
  /\ \A f \in Finding :
       /\ f \notin r.findings \cap Severe <=> r.classifications[f] = Unclassified
       /\ f \notin r.findings <=> r.outcomes[f] = "none"
       /\ f \in r.findings \ (r.findings \cap Severe) => r.outcomes[f] = "info"
       /\ f \in r.findings \cap Severe =>
            OutcomeFollowsEvidence(r.classifications[f], r.outcomes[f])
  /\ \A f \in r.findings \cap Severe :
       OutsideCandidate(r.classifications[f]) => f \in r.followUps
  /\ r.followUps \cap Malformed = {}

\* The review that routing makes of the reported findings is frozen soundly.
LEMMA RoutedReviewFacts ==
  ASSUME NEW reported \in SUBSET Finding,
         NEW given \in [reported \cap Severe -> Evidence],
         NEW refuted \in [reported \cap Severe -> RefuterOutcome \cup {"none"}],
         NEW r, r = RoutedReview(reported, given, refuted),
         RefutersPresent(r)
  PROVE  FrozenReview(r)
<1> DEFINE severe == reported \cap Severe
<1>1. \A f \in severe : FrozenEvidence(f, given[f]) \in Evidence
  BY DEF FrozenEvidence, Evidence, Causality
<1>2. \A f \in severe : /\ FrozenEvidence(f, given[f]).causality = "candidate" => f \in InGenesis
                        /\ FrozenEvidence(f, given[f]) # Unclassified
  BY <1>1 DEF FrozenEvidence, Evidence, Causality, EvidenceClass, Unclassified
<1> DEFINE c == [f \in Finding |->
              IF f \in severe THEN FrozenEvidence(f, given[f]) ELSE Unclassified]
           o == [f \in Finding |->
              IF f \in severe THEN RoutedOutcome(c[f], refuted[f])
              ELSE IF f \in reported THEN "info" ELSE "none"]
<1>3. /\ r.findings = reported /\ r.classifications = c /\ r.outcomes = o
      /\ r.fixFindingIDs = {f \in severe : o[f] = "corroborated"}
      /\ r.followUps = {f \in severe : OutsideCandidate(c[f])}
      /\ r = [findings |-> reported, classifications |-> c, outcomes |-> o,
              fixFindingIDs |-> {f \in severe : o[f] = "corroborated"},
              followUps |-> {f \in severe : OutsideCandidate(c[f])}]
  BY DEF RoutedReview
<1>4. c \in [Finding -> Evidence \cup {Unclassified}]
  BY <1>1
<1>5. \A f \in severe : f \in Finding /\ c[f] \in Evidence /\ c[f] = FrozenEvidence(f, given[f])
  BY <1>1
<1>6. \A e \in Evidence, x \in RefuterOutcome \cup {"none"} :
        /\ RoutedOutcome(e, x) \in Outcome
        /\ RoutedOutcome(e, x) # "none" => OutcomeFollowsEvidence(e, RoutedOutcome(e, x))
        /\ RoutedOutcome(e, x) = "corroborated" => e.causality = "candidate"
  BY DEF RoutedOutcome, OutcomeFollowsEvidence, Unresolvable, OutsideCandidate,
         Evidence, EvidenceClass, Causality, RefuterOutcome, Outcome
<1>7. \A f \in severe : o[f] = RoutedOutcome(c[f], refuted[f]) /\ refuted[f] \in RefuterOutcome \cup {"none"}
  BY <1>5
<1>8. \A f \in Finding \ severe : o[f] = (IF f \in reported THEN "info" ELSE "none")
                                  /\ c[f] = Unclassified
  OBVIOUS
<1> HIDE DEF c, o
<1>9. o \in [Finding -> Outcome]
  <2>1. o = [f \in Finding |-> o[f]]
    BY DEF o
  <2>2. \A f \in Finding : o[f] \in Outcome
    BY <1>5, <1>6, <1>7, <1>8 DEF Outcome
  <2> QED
    BY <2>1, <2>2
<1>10. \A f \in reported : o[f] # "none"
  BY <1>3 DEF RefutersPresent
<1>11. r \in ReviewData
  BY <1>3, <1>4, <1>9 DEF ReviewData
<1>12. r.fixFindingIDs \subseteq Severe \cap InGenesis
  BY <1>2, <1>3, <1>5, <1>6, <1>7
<1>13. \A f \in Finding :
         /\ f \notin severe <=> c[f] = Unclassified
         /\ f \notin reported <=> o[f] = "none"
         /\ f \in reported \ severe => o[f] = "info"
         /\ f \in severe => OutcomeFollowsEvidence(c[f], o[f])
  BY <1>2, <1>5, <1>6, <1>7, <1>8, <1>10
<1>14. r.followUps \cap Malformed = {}
  BY <1>3, <1>5, FindingAssumption
<1> QED
  BY <1>3, <1>11, <1>12, <1>13, <1>14 DEF FrozenReview

\* A record whose correction has not begun carries none of its output.
LEMMA BeforeCorrection ==
  ASSUME NEW s, Good(s), s.state \in {"reviewing", "correction_required"}
  PROVE  /\ s.evidence = NoEvidence /\ s.resultDispositions = 0
         /\ s.state = "reviewing" => s.correctionAttempts = <<>>
         /\ s.correctionAttempts = <<>> =>
              ~Corrected(s) /\ s.cumulativeCorrectionLines = 0
<1>1. ValidContent(s) /\ Pristine(s) /\ s \in CompactState
  BY DEF Good, Validate, GateInvalidated
<1>2. s.evidence = NoEvidence
  BY <1>1 DEF ValidContent, validateCompactCorrection, validateCompactRecoveredCorrection
<1>3. s.resultDispositions = 0
  BY <1>1 DEF ValidContent, CompactState
<1>4. s.state = "reviewing" => s.correctionAttempts = <<>>
  BY <1>1 DEF Pristine, compactPristineReviewing
<1>5. ASSUME s.correctionAttempts = <<>>
      PROVE  ~Corrected(s) /\ s.cumulativeCorrectionLines = 0
  BY <1>1, <1>2, <1>5
  DEF ValidContent, validateCompactCorrection, AttemptsAccounted, HistoricalAttempts, CorrectedShape
<1> QED
  BY <1>2, <1>3, <1>4, <1>5

\* The completion of a review leaves a good record.
LEMMA ReviewGood ==
  ASSUME NEW s, Good(s), s.state = "reviewing",
         NEW reported \in SUBSET Finding,
         NEW given \in [reported \cap Severe -> Evidence],
         NEW refuted \in [reported \cap Severe -> RefuterOutcome \cup {"none"}],
         NEW r, r = RoutedReview(reported, given, refuted),
         RefutersPresent(r)
  PROVE  Good(CompleteReview(s, r))
<1> DEFINE t == CompleteReview(s, r)
<1>1. s \in CompactState /\ Validate(s) /\ Pristine(s)
  BY DEF Good
<1>2. FrozenReview(r) /\ ReviewedState(r) \in {"correction_required", "validating", "escalated"}
  BY RoutedReviewFacts DEF ReviewedState
<1>b. r \in ReviewData /\ ReviewedState(r) \in ReviewState
  BY <1>2 DEF FrozenReview, ReviewState
<1>3. t \in CompactState
  BY <1>1, <1>b DEF CompleteReview, CompactState
<1>a. /\ s.evidence = NoEvidence /\ s.resultDispositions = 0
      /\ s.correctionAttempts = <<>> /\ s.cumulativeCorrectionLines = 0
      /\ s.currentSnapshot = "initial" /\ ~s.fixDelta
      /\ s.proposedCorrectionLines = NoLines /\ s.actualCorrectionLines = NoLines
      /\ s.originalCriteria = "none" /\ s.correctionRegression = "none"
      /\ ~s.evidenceHash /\ ~s.invalidationReason
  BY <1>1, BeforeCorrection DEF Pristine, compactPristineReviewing
<1>4. /\ t.state = ReviewedState(r) /\ t.lensResults /\ t.review = r
      /\ t.evidence = NoEvidence /\ t.resultDispositions = 0
      /\ t.correctionBudget = s.correctionBudget
      /\ t.originalChangedLines = s.originalChangedLines
      /\ t.correctionAttempts = <<>> /\ t.cumulativeCorrectionLines = 0
      /\ t.currentSnapshot = "initial" /\ ~t.fixDelta
      /\ t.proposedCorrectionLines = NoLines /\ t.actualCorrectionLines = NoLines
      /\ t.originalCriteria = "none" /\ t.correctionRegression = "none"
      /\ ~t.evidenceHash /\ ~t.invalidationReason
      /\ t.invalidationEvidence = s.invalidationEvidence
  BY <1>1, <1>a DEF CompleteReview, CompactState
<1>5. ~s.invalidationEvidence /\ s.correctionBudget = CorrectionBudget(s.originalChangedLines)
  BY <1>1 DEF Validate, GateInvalidated, ValidContent
<1> HIDE DEF t
<1>6. validateCompactFindings(t)
  BY <1>2, <1>4 DEF validateCompactFindings, ReviewedState, FrozenReview
<1>7. ValidForecast(t)
  BY <1>3, <1>4 DEF ValidForecast, NoLines, CompactState
<1>8. validateCompactCorrection(t)
  BY <1>2, <1>4
  DEF validateCompactCorrection, AttemptsAccounted, Corrected, UncorrectedShape, ReviewedState, FrozenReview
<1>9. ValidContent(t)
  BY <1>2, <1>4, <1>5, <1>6, <1>7, <1>8 DEF ValidContent, ValidPhase, ReviewedState
<1>10. Good(t)
  BY <1>2, <1>3, <1>4, <1>5, <1>9
  DEF FrozenReview, Good, Validate, GateInvalidated, Pristine, MaxCompactCorrectionAttempts
<1> QED
  BY <1>10 DEF t

-----------------------------------------------------------------------------
(* Correction.                                                              *)

\* Findings stay valid while a record with a settled review moves on, also
\* with more follow-ups as long as they are well-formed.
LEMMA FindingsKept ==
  ASSUME NEW s, NEW t, validateCompactFindings(s),
         s.state \in {"correction_required", "validating", "approved"},
         t.state \in {"correction_required", "validating", "approved", "escalated"},
         t.resultDispositions = 0, t.lensResults = s.lensResults,
         t.review.findings = s.review.findings,
         t.review.classifications = s.review.classifications,
         t.review.outcomes = s.review.outcomes,
         t.review.fixFindingIDs = s.review.fixFindingIDs,
         s.review.followUps \subseteq t.review.followUps,
         (t.review.followUps \ s.review.followUps) \cap Malformed = {}
  PROVE  validateCompactFindings(t)
<1>1. /\ s.review.followUps \cap Malformed = {} /\ s.lensResults
      /\ ~(s.state = "escalated" /\ s.resultDispositions > 0)
  BY DEF validateCompactFindings
<1>2. t.review.followUps \cap Malformed = {}
  BY <1>1
<1>3. \A f \in s.review.findings \cap Severe :
        OutsideCandidate(s.review.classifications[f]) => f \in t.review.followUps
  BY <1>1 DEF validateCompactFindings
<1>4. ~(\E f \in s.review.findings \cap Severe : s.review.outcomes[f] = "inconclusive")
  BY <1>1 DEF validateCompactFindings
<1>5. /\ \A f \in Finding :
           /\ f \notin s.review.findings \cap Severe <=> s.review.classifications[f] = Unclassified
           /\ f \notin s.review.findings <=> s.review.outcomes[f] = "none"
           /\ f \in s.review.findings \ (s.review.findings \cap Severe) => s.review.outcomes[f] = "info"
           /\ f \in s.review.findings \cap Severe =>
                OutcomeFollowsEvidence(s.review.classifications[f], s.review.outcomes[f])
      /\ s.review.fixFindingIDs =
           {f \in s.review.findings \cap Severe : s.review.outcomes[f] = "corroborated"}
  BY <1>1 DEF validateCompactFindings
<1>6. t.lensResults /\ ~(t.state = "escalated" /\ t.resultDispositions > 0)
  BY <1>1
<1> QED
  BY <1>2, <1>3, <1>4, <1>5, <1>6 DEF validateCompactFindings

\* What is not there yet while a correction is awaited.
LEMMA AwaitingCorrection ==
  ASSUME NEW s, Good(s), s.state = "correction_required", ~CorrectionAttemptConsumed(s)
  PROVE  /\ s \in CompactState /\ ValidContent(s)
         /\ s.evidence = NoEvidence /\ s.resultDispositions = 0
         /\ s.correctionAttempts = <<>> /\ s.cumulativeCorrectionLines = 0
         /\ s.currentSnapshot = "initial" /\ ~s.fixDelta
         /\ s.actualCorrectionLines = NoLines
         /\ s.originalCriteria = "none" /\ s.correctionRegression = "none"
         /\ s.lensResults /\ ~s.evidenceHash
         /\ ~s.invalidationReason /\ ~s.invalidationEvidence
         /\ s.review.fixFindingIDs # {}
<1>1. s \in CompactState /\ ValidContent(s) /\ Pristine(s)
  BY DEF Good, Validate, GateInvalidated
<1>2. s.correctionAttempts \in Seq(CorrectionAttempt)
  BY <1>1 DEF CompactState
<1>3. s.correctionAttempts = <<>>
  BY <1>2, EmptySeq DEF CorrectionAttemptConsumed, MaxCompactCorrectionAttempts
<1>4. ~Corrected(s) /\ s.cumulativeCorrectionLines = 0 /\ s.evidence = NoEvidence
      /\ s.resultDispositions = 0
  BY <1>3, BeforeCorrection
<1>5. /\ ~s.invalidationEvidence /\ s.lensResults /\ ~s.evidenceHash
      /\ s.review.fixFindingIDs # {}
  BY <1>1 DEF ValidContent, ValidPhase
<1> QED
  BY <1>1, <1>3, <1>4, <1>5 DEF Corrected, Pristine, CompactState

\* The forecast of a correction leaves a good record.
LEMMA ForecastGood ==
  ASSUME NEW s, Good(s), CanBeginCorrection(s), NEW proposed \in Nat \ {0}
  PROVE  Good(BeginCorrection(s, proposed))
<1> DEFINE t == BeginCorrection(s, proposed)
<1>1. /\ s \in CompactState /\ ValidContent(s)
      /\ s.evidence = NoEvidence /\ s.resultDispositions = 0
      /\ s.correctionAttempts = <<>> /\ s.cumulativeCorrectionLines = 0
      /\ s.currentSnapshot = "initial" /\ ~s.fixDelta
      /\ s.actualCorrectionLines = NoLines
      /\ s.originalCriteria = "none" /\ s.correctionRegression = "none"
      /\ s.lensResults /\ ~s.evidenceHash
      /\ ~s.invalidationReason /\ ~s.invalidationEvidence
      /\ s.review.fixFindingIDs # {} /\ s.state = "correction_required"
  BY AwaitingCorrection DEF CanBeginCorrection
<1>2. s.correctionBudget \in Nat
  BY <1>1 DEF CompactState
<1> DEFINE next == IF proposed > s.correctionBudget THEN "escalated" ELSE "correction_required"
<1>a. next \in ReviewState
  BY DEF ReviewState
<1>c. (IF s.cumulativeCorrectionLines + proposed > s.correctionBudget
         THEN "escalated" ELSE s.state) = next
  BY <1>1, <1>2
<1> HIDE DEF next
<1>b. t = [s EXCEPT !.proposedCorrectionLines = proposed, !.state = next]
  BY <1>1, <1>c DEF BeginCorrection, CompactState
<1> HIDE DEF t
<1>3. t \in CompactState
  BY <1>1, <1>a, <1>b DEF CompactState
<1>4. /\ t.state = next
      /\ t.proposedCorrectionLines = proposed
      /\ t.evidence = NoEvidence /\ t.resultDispositions = 0
      /\ t.correctionAttempts = <<>> /\ t.cumulativeCorrectionLines = 0
      /\ t.currentSnapshot = "initial" /\ ~t.fixDelta
      /\ t.actualCorrectionLines = NoLines
      /\ t.originalCriteria = "none" /\ t.correctionRegression = "none"
      /\ t.lensResults = s.lensResults /\ ~t.evidenceHash
      /\ ~t.invalidationReason /\ ~t.invalidationEvidence
      /\ t.review = s.review
      /\ t.correctionBudget = s.correctionBudget
      /\ t.originalChangedLines = s.originalChangedLines
  BY <1>1, <1>b DEF CompactState
<1> USE DEF next
<1>5. validateCompactFindings(t)
  BY <1>1, <1>4, FindingsKept DEF ValidContent
<1>6. ValidForecast(t)
  BY <1>2, <1>4 DEF ValidForecast, NoLines
<1>7. validateCompactCorrection(t)
  BY <1>1, <1>2, <1>4
  DEF validateCompactCorrection, AttemptsAccounted, Corrected, UncorrectedShape
<1>8. ValidContent(t)
  BY <1>1, <1>4, <1>5, <1>6, <1>7 DEF ValidContent, ValidPhase
<1>9. s.review.fixFindingIDs \subseteq Severe \cap InGenesis
  BY DEF Good
<1>10. Good(t)
  BY <1>3, <1>4, <1>8, <1>9
  DEF Good, Validate, GateInvalidated, Pristine, MaxCompactCorrectionAttempts
<1> QED
  BY <1>10 DEF t

\* A correction with well-formed follow-ups leaves a good record.
LEMMA CorrectionGood ==
  ASSUME NEW s, Good(s), CanCompleteCorrection(s), NEW actual \in Nat,
         NEW original \in Verdict, NEW regression \in Verdict,
         NEW followUps \in SUBSET Observation, followUps \cap Malformed = {}
  PROVE  Good(CompleteCorrection(s, actual, original, regression, followUps))
<1> DEFINE t == CompleteCorrection(s, actual, original, regression, followUps)
           attempt == [ledgerIDs |-> s.review.fixFindingIDs,
                       proposed |-> s.proposedCorrectionLines, actual |-> actual,
                       original |-> original, regression |-> regression]
<1>1. /\ s \in CompactState /\ ValidContent(s)
      /\ s.evidence = NoEvidence /\ s.resultDispositions = 0
      /\ s.correctionAttempts = <<>> /\ s.cumulativeCorrectionLines = 0
      /\ s.lensResults /\ ~s.evidenceHash
      /\ ~s.invalidationReason /\ ~s.invalidationEvidence
      /\ s.review.fixFindingIDs # {} /\ s.state = "correction_required"
      /\ s.proposedCorrectionLines # NoLines
  BY AwaitingCorrection DEF CanCompleteCorrection
<1>2. /\ s.correctionBudget \in Nat /\ s.proposedCorrectionLines \in Nat
      /\ s.review.fixFindingIDs \subseteq Finding
  BY <1>1 DEF CompactState, ReviewData
<1>3. s.proposedCorrectionLines > 0 /\ s.proposedCorrectionLines <= s.correctionBudget
  BY <1>1, <1>2 DEF ValidContent, ValidForecast
<1>4. attempt \in CorrectionAttempt
  BY <1>2 DEF CorrectionAttempt
<1>5. /\ Append(s.correctionAttempts, attempt) = <<attempt>>
      /\ <<attempt>> \in Seq(CorrectionAttempt)
      /\ s.cumulativeCorrectionLines + actual = actual
  BY <1>1, <1>4
<1> DEFINE accepted == actual <= s.correctionBudget /\ original = "passed" /\ regression = "passed"
<1>6. /\ t.state = IF accepted THEN "validating" ELSE "escalated"
      /\ t.correctionAttempts = <<attempt>>
      /\ t.cumulativeCorrectionLines = actual
      /\ t.currentSnapshot = "fix" /\ t.fixDelta
      /\ t.actualCorrectionLines = actual
      /\ t.originalCriteria = original /\ t.correctionRegression = regression
      /\ t.proposedCorrectionLines = s.proposedCorrectionLines
      /\ t.evidence = NoEvidence /\ t.resultDispositions = 0
      /\ t.lensResults = s.lensResults /\ ~t.evidenceHash
      /\ ~t.invalidationReason /\ ~t.invalidationEvidence
      /\ t.review = [s.review EXCEPT !.followUps = @ \cup followUps]
      /\ t.correctionBudget = s.correctionBudget
      /\ t.originalChangedLines = s.originalChangedLines
  BY <1>1, <1>5 DEF CompleteCorrection, CompactState
<1>a. /\ s.review \in ReviewData
      /\ [s.review EXCEPT !.followUps = @ \cup followUps] \in ReviewData
  BY <1>1 DEF CompactState, ReviewData
<1>b. /\ t.review.findings = s.review.findings
      /\ t.review.classifications = s.review.classifications
      /\ t.review.outcomes = s.review.outcomes
      /\ t.review.fixFindingIDs = s.review.fixFindingIDs
      /\ t.review.followUps = s.review.followUps \cup followUps
  BY <1>6, <1>a DEF ReviewData
<1>7. t \in CompactState
  <2> DEFINE review == [s.review EXCEPT !.followUps = @ \cup followUps]
             attempts == <<attempt>>
             next == IF accepted THEN "validating" ELSE "escalated"
  <2>1. t = [s EXCEPT !.correctionAttempts = attempts, !.cumulativeCorrectionLines = actual,
                      !.currentSnapshot = "fix", !.fixDelta = TRUE, !.review = review,
                      !.actualCorrectionLines = actual, !.originalCriteria = original,
                      !.correctionRegression = regression, !.state = next]
    BY <1>5 DEF CompleteCorrection
  <2>2. review \in ReviewData /\ attempts \in Seq(CorrectionAttempt) /\ next \in ReviewState
    BY <1>5, <1>a DEF ReviewState
  <2> HIDE DEF t, review, attempts, next
  <2> QED
    BY <1>1, <2>1, <2>2 DEF CompactState
<1>8. /\ attempt.ledgerIDs = s.review.fixFindingIDs /\ attempt.actual = actual
      /\ attempt.proposed = s.proposedCorrectionLines
      /\ attempt.original = original /\ attempt.regression = regression
  OBVIOUS
<1> HIDE DEF t, attempt
<1>9. validateCompactFindings(t)
  BY <1>1, <1>6, <1>b, FindingsKept DEF ValidContent
<1>10. ValidForecast(t)
  BY <1>2, <1>3, <1>6 DEF ValidForecast, NoLines
<1>11. t.correctionAttempts # <<>> /\ t.correctionAttempts[1] = attempt
       /\ Len(t.correctionAttempts) = 1
  BY <1>6
<1>12. AttemptsAccounted(t)
  BY <1>1, <1>2, <1>3, <1>6, <1>8, <1>11, <1>b DEF AttemptsAccounted
<1>13. Corrected(t) /\ CorrectedShape(t)
  BY <1>1, <1>2, <1>3, <1>6, <1>8, <1>11, <1>b DEF Corrected, CorrectedShape, Verdict, NoLines
<1>14. validateCompactCorrection(t)
  BY <1>6, <1>12, <1>13 DEF validateCompactCorrection
<1>15. ValidContent(t)
  BY <1>1, <1>6, <1>9, <1>10, <1>14 DEF ValidContent, ValidPhase
<1>16. s.review.fixFindingIDs \subseteq Severe \cap InGenesis
  BY DEF Good
<1>17. Good(t)
  BY <1>6, <1>7, <1>11, <1>15, <1>16, <1>b
  DEF Good, Validate, GateInvalidated, Pristine, MaxCompactCorrectionAttempts
<1> QED
  BY <1>17 DEF t

\* A correction with a malformed follow-up passes its guard, and the validator
\* refuses its result.
LEMMA MalformedRefused ==
  ASSUME NEW s, Good(s), CanCompleteCorrection(s), NEW actual \in Nat,
         NEW original \in Verdict, NEW regression \in Verdict,
         NEW followUps \in SUBSET Observation,
         Validate(CompleteCorrection(s, actual, original, regression, followUps))
  PROVE  followUps \cap Malformed = {}
<1> DEFINE t == CompleteCorrection(s, actual, original, regression, followUps)
<1>1. s \in CompactState /\ s.resultDispositions = 0 /\ s.review \in ReviewData
  BY AwaitingCorrection DEF CanCompleteCorrection, CompactState
<1>2. /\ t.state \in {"validating", "escalated"}
      /\ t.resultDispositions = 0
      /\ t.review = [s.review EXCEPT !.followUps = @ \cup followUps]
  BY <1>1 DEF CompleteCorrection, CompactState
<1> HIDE DEF t
<1>3. followUps \subseteq t.review.followUps
  BY <1>1, <1>2 DEF ReviewData
<1>4. validateCompactFindings(t)
  BY <1>2 DEF t, Validate, GateInvalidated, ValidContent
<1>5. t.review.followUps \cap Malformed = {}
  BY <1>2, <1>4 DEF validateCompactFindings
<1> QED
  BY <1>3, <1>5

-----------------------------------------------------------------------------
(* Verification, invalidation, disposition and reopen.                      *)

\* A verification leaves a good record.
LEMMA VerificationGood ==
  ASSUME NEW s, Good(s), s.state = "validating", NEW approved \in BOOLEAN
  PROVE  Good(CompleteVerification(s, approved))
<1> DEFINE next == IF approved THEN "approved" ELSE "escalated"
           t == [s EXCEPT !.evidenceHash = TRUE, !.state = next]
<1>1. s \in CompactState /\ ValidContent(s) /\ Pristine(s)
  BY DEF Good, Validate, GateInvalidated
<1>2. next \in {"approved", "escalated"} /\ next \in ReviewState
  BY DEF ReviewState
<1> HIDE DEF next
<1>3. t \in CompactState
  BY <1>1, <1>2 DEF CompactState
<1>4. /\ t.state = next /\ t.evidenceHash
      /\ t.disposition = s.disposition /\ t.evidence = s.evidence
      /\ t.originalChangedLines = s.originalChangedLines
      /\ t.correctionBudget = s.correctionBudget
      /\ t.lensResults = s.lensResults /\ t.review = s.review
      /\ t.proposedCorrectionLines = s.proposedCorrectionLines
      /\ t.actualCorrectionLines = s.actualCorrectionLines
      /\ t.correctionAttempts = s.correctionAttempts
      /\ t.cumulativeCorrectionLines = s.cumulativeCorrectionLines
      /\ t.currentSnapshot = s.currentSnapshot /\ t.fixDelta = s.fixDelta
      /\ t.originalCriteria = s.originalCriteria
      /\ t.correctionRegression = s.correctionRegression
      /\ t.invalidationReason = s.invalidationReason
      /\ t.invalidationEvidence = s.invalidationEvidence
      /\ t.resultDispositions = s.resultDispositions
  BY <1>1 DEF CompactState
<1> HIDE DEF t
<1>5. /\ ~s.invalidationReason /\ ~s.invalidationEvidence
      /\ s.resultDispositions = 0 /\ ~s.evidenceHash
      /\ s.correctionBudget \in Nat
  BY <1>1 DEF Pristine, ValidContent, CompactState, ValidPhase
<1>6. validateCompactFindings(t)
  BY <1>1, <1>2, <1>4, <1>5, FindingsKept DEF ValidContent
<1>7. ValidForecast(t)
  BY <1>1, <1>2, <1>4 DEF ValidContent, ValidForecast
<1>8. ASSUME s.evidence = NoEvidence PROVE validateCompactCorrection(t)
  <2>1. AttemptsAccounted(t)
    BY <1>1, <1>2, <1>4, <1>8 DEF ValidContent, validateCompactCorrection, AttemptsAccounted
  <2>2. IF Corrected(s) THEN CorrectedShape(s) ELSE UncorrectedShape(s)
    BY <1>1, <1>8 DEF ValidContent, validateCompactCorrection, HistoricalAttempts
  <2>3. Corrected(t) = Corrected(s)
    BY <1>4 DEF Corrected
  <2>4. CorrectedShape(s) => CorrectedShape(t)
    BY <1>2, <1>4 DEF CorrectedShape
  <2>5. UncorrectedShape(s) => UncorrectedShape(t)
    BY <1>2, <1>4 DEF UncorrectedShape
  <2> QED
    BY <1>2, <1>4, <1>8, <2>1, <2>2, <2>3, <2>4, <2>5 DEF validateCompactCorrection
<1>9. ASSUME s.evidence # NoEvidence PROVE validateCompactCorrection(t)
  <2>1. validateCompactCorrection(s)
    BY <1>1 DEF ValidContent
  <2> QED
    BY <1>2, <1>4, <1>9, <2>1, ZenonT(60) DEF validateCompactCorrection, validateCompactRecoveredCorrection
<1>10. ValidContent(t)
  BY <1>1, <1>2, <1>4, <1>5, <1>6, <1>7, <1>8, <1>9 DEF ValidContent, ValidPhase
<1>11. Good(t)
  BY <1>2, <1>3, <1>4, <1>5, <1>10
  DEF Good, Validate, GateInvalidated, Pristine, MaxCompactCorrectionAttempts
<1> QED
  BY <1>11 DEF t, next, CompleteVerification

\* A pristine record is its own content before an invalidation.
LEMMA InvalidationGood ==
  ASSUME NEW s, Good(s), compactPristineReviewing(s)
  PROVE  Good(Invalidate(s))
<1> DEFINE t == Invalidate(s)
           u == [t EXCEPT !.state = "reviewing", !.invalidationReason = FALSE]
<1>1. s \in CompactState /\ ValidContent(s) /\ s.state = "reviewing"
  BY DEF Good, Validate, GateInvalidated, compactPristineReviewing
<1>2. t \in CompactState
  BY <1>1 DEF Invalidate, CompactState, ReviewState
<1>3. u = s
  BY <1>1 DEF Invalidate, CompactState, compactPristineReviewing
<1>4. /\ t.state = "invalidated" /\ t.invalidationReason
      /\ t.evidence = s.evidence /\ t.disposition = s.disposition
      /\ t.invalidationEvidence = s.invalidationEvidence
      /\ t.review = s.review /\ t.resultDispositions = s.resultDispositions
      /\ t.originalChangedLines = s.originalChangedLines
      /\ t.correctionBudget = s.correctionBudget
      /\ t.proposedCorrectionLines = s.proposedCorrectionLines
      /\ t.actualCorrectionLines = s.actualCorrectionLines
      /\ t.correctionAttempts = s.correctionAttempts
      /\ t.cumulativeCorrectionLines = s.cumulativeCorrectionLines
      /\ t.currentSnapshot = s.currentSnapshot /\ t.fixDelta = s.fixDelta
      /\ t.originalCriteria = s.originalCriteria
      /\ t.correctionRegression = s.correctionRegression
  BY <1>1 DEF Invalidate, CompactState
<1> HIDE DEF t
<1>5. /\ s.evidence = NoEvidence /\ ~s.invalidationEvidence
      /\ s.resultDispositions = 0 /\ s.review = NoReview
      /\ s.proposedCorrectionLines = NoLines /\ s.actualCorrectionLines = NoLines
      /\ s.correctionAttempts = <<>> /\ s.cumulativeCorrectionLines = 0
      /\ s.currentSnapshot = "initial" /\ ~s.fixDelta
      /\ s.originalCriteria = "none" /\ s.correctionRegression = "none"
      /\ s.correctionBudget \in Nat
  BY <1>1, BeforeCorrection DEF ValidContent, compactPristineReviewing, CompactState
<1>6. ValidForecast(t)
  BY <1>4, <1>5 DEF ValidForecast, NoLines
<1>7. t.review.fixFindingIDs = {}
  BY <1>4, <1>5 DEF NoReview
<1>8. validateCompactCorrection(t)
  BY <1>4, <1>5, <1>7
  DEF validateCompactCorrection, AttemptsAccounted, Corrected, UncorrectedShape
<1>9. ValidPhase(t)
  BY <1>3, <1>4 DEF ValidPhase
<1>10. ValidContent(t)
  BY <1>1, <1>4, <1>5, <1>6, <1>8, <1>9 DEF ValidContent, validateCompactFindings
<1>11. Good(t)
  BY <1>2, <1>4, <1>5, <1>7, <1>10
  DEF Good, Validate, GateInvalidated, Pristine, MaxCompactCorrectionAttempts
<1> QED
  BY <1>11 DEF t

\* Undoing the invalidation of an approval gives the approval back.
LEMMA ApprovedInvalidationGood ==
  ASSUME NEW s, Good(s), s.state = "approved"
  PROVE  Good(invalidateApproved(s))
<1> DEFINE t == invalidateApproved(s)
<1>1. /\ s \in CompactState /\ ValidContent(s)
      /\ ~s.invalidationReason /\ ~s.invalidationEvidence
  BY DEF Good, Validate, GateInvalidated, Pristine, ValidContent
<1>2. t \in CompactState
  BY <1>1 DEF invalidateApproved, CompactState, ReviewState
<1>3. Approval(t) = s
  BY <1>1 DEF Approval, invalidateApproved, CompactState
<1>4. /\ t.state = "invalidated" /\ t.invalidationReason /\ t.invalidationEvidence
      /\ t.review = s.review /\ t.correctionAttempts = s.correctionAttempts
  BY <1>1 DEF invalidateApproved, CompactState
<1> HIDE DEF t
<1>5. Good(t)
  BY <1>1, <1>2, <1>3, <1>4 DEF Good, Validate, GateInvalidated, Pristine
<1> QED
  BY <1>5 DEF t

\* The disposition of results leaves a good record.
LEMMA DispositionGood ==
  ASSUME NEW s, Good(s), s.state = "reviewing"
  PROVE  Good(DisposeResult(s))
<1> DEFINE t == DisposeResult(s)
<1>1. /\ s \in CompactState /\ ValidContent(s) /\ compactPristineReviewing(s)
      /\ ~s.invalidationEvidence
  BY DEF Good, Validate, GateInvalidated, Pristine, ValidContent
<1>2. /\ s.evidence = NoEvidence /\ s.resultDispositions = 0 /\ s.review = NoReview
      /\ ~s.lensResults /\ ~s.evidenceHash /\ ~s.invalidationReason
      /\ s.proposedCorrectionLines = NoLines /\ s.actualCorrectionLines = NoLines
      /\ s.correctionAttempts = <<>> /\ s.cumulativeCorrectionLines = 0
      /\ s.currentSnapshot = "initial" /\ ~s.fixDelta
      /\ s.originalCriteria = "none" /\ s.correctionRegression = "none"
      /\ s.correctionBudget \in Nat
  BY <1>1, BeforeCorrection DEF compactPristineReviewing, CompactState
<1> DEFINE count == s.resultDispositions + 1
<1>c. count \in Nat
  BY <1>1 DEF CompactState
<1> HIDE DEF count
<1>e. t = [s EXCEPT !.state = "escalated", !.resultDispositions = count]
  BY DEF DisposeResult, count
<1>3. t \in CompactState
  BY <1>1, <1>c, <1>e, ZenonT(60) DEF CompactState, ReviewState
<1>4. /\ t.state = "escalated" /\ t.resultDispositions = 1 /\ t.review = NoReview
      /\ t.evidence = NoEvidence /\ ~t.lensResults /\ ~t.evidenceHash
      /\ ~t.invalidationReason /\ ~t.invalidationEvidence
      /\ t.proposedCorrectionLines = NoLines /\ t.actualCorrectionLines = NoLines
      /\ t.correctionAttempts = <<>> /\ t.cumulativeCorrectionLines = 0
      /\ t.currentSnapshot = "initial" /\ ~t.fixDelta
      /\ t.originalCriteria = "none" /\ t.correctionRegression = "none"
      /\ t.correctionBudget = s.correctionBudget
      /\ t.originalChangedLines = s.originalChangedLines
  BY <1>1, <1>2 DEF DisposeResult, CompactState
<1> HIDE DEF t
<1>5. t.review.fixFindingIDs = {} /\ t.review.findings = {}
  BY <1>4 DEF NoReview
<1>6. validateCompactFindings(t)
  BY <1>4, <1>5 DEF validateCompactFindings
<1>7. ValidForecast(t)
  BY <1>2, <1>4 DEF ValidForecast, NoLines
<1>8. validateCompactCorrection(t)
  BY <1>4, <1>5 DEF validateCompactCorrection, AttemptsAccounted, Corrected, UncorrectedShape
<1>9. ValidContent(t)
  BY <1>1, <1>4, <1>6, <1>7, <1>8 DEF ValidContent, ValidPhase
<1>10. Good(t)
  BY <1>3, <1>4, <1>5, <1>9
  DEF Good, Validate, GateInvalidated, Pristine, MaxCompactCorrectionAttempts
<1> QED
  BY <1>10 DEF t

\* The reopening of results leaves a good record.
LEMMA ReopenGood ==
  ASSUME NEW s, Good(s), CanReopenResults(s)
  PROVE  Good(ReopenResults(s))
<1> DEFINE t == ReopenResults(s)
<1>1. /\ s \in CompactState /\ ValidContent(s)
      /\ ~s.invalidationReason /\ ~s.invalidationEvidence /\ s.resultDispositions = 0
  BY DEF Good, Validate, GateInvalidated, Pristine, ValidContent, CanReopenResults, CompactState
<1>2. s.evidence = NoEvidence
  BY <1>1
  DEF ValidContent, validateCompactCorrection, validateCompactRecoveredCorrection, CanReopenResults
<1>3. s.cumulativeCorrectionLines = 0 /\ s.correctionBudget \in Nat
  BY <1>1, <1>2
  DEF ValidContent, validateCompactCorrection, AttemptsAccounted, CanReopenResults, CompactState
<1> DEFINE count == s.resultReopens + 1
<1>c. count \in Nat
  BY <1>1 DEF CompactState
<1> HIDE DEF count
<1>e. t = [s EXCEPT
             !.state = "reviewing", !.lensResults = FALSE, !.review = NoReview,
             !.proposedCorrectionLines = NoLines, !.actualCorrectionLines = NoLines,
             !.fixDelta = FALSE, !.originalCriteria = "none",
             !.correctionRegression = "none", !.evidenceHash = FALSE,
             !.resultReopens = count]
  BY DEF ReopenResults, count
<1>4. t \in CompactState
  <2> DEFINE u == [s EXCEPT !.state = "reviewing", !.lensResults = FALSE, !.review = NoReview,
                            !.proposedCorrectionLines = NoLines,
                            !.actualCorrectionLines = NoLines]
  <2>1. u \in CompactState
    BY <1>1, NoReviewType DEF CompactState, ReviewState
  <2>2. t = [u EXCEPT !.fixDelta = FALSE, !.originalCriteria = "none",
                      !.correctionRegression = "none", !.evidenceHash = FALSE,
                      !.resultReopens = count]
    BY <1>e
  <2> HIDE DEF u
  <2> QED
    BY <2>1, <2>2, <1>c, ZenonT(60) DEF CompactState
<1>5. /\ t.state = "reviewing" /\ t.review = NoReview /\ ~t.lensResults
      /\ t.evidence = NoEvidence /\ t.resultDispositions = 0 /\ ~t.evidenceHash
      /\ ~t.invalidationReason /\ ~t.invalidationEvidence
      /\ t.proposedCorrectionLines = NoLines /\ t.actualCorrectionLines = NoLines
      /\ t.correctionAttempts = <<>> /\ t.cumulativeCorrectionLines = 0
      /\ t.currentSnapshot = "initial" /\ ~t.fixDelta
      /\ t.originalCriteria = "none" /\ t.correctionRegression = "none"
      /\ t.correctionBudget = s.correctionBudget
      /\ t.originalChangedLines = s.originalChangedLines
  BY <1>1, <1>2, <1>3 DEF ReopenResults, CanReopenResults, CompactState
<1> HIDE DEF t
<1>6. /\ t.review.fixFindingIDs = {} /\ t.review.findings = {}
  BY <1>5 DEF NoReview
<1>7. validateCompactFindings(t) /\ ValidForecast(t)
  BY <1>3, <1>5 DEF validateCompactFindings, ValidForecast, NoLines
<1>8. validateCompactCorrection(t)
  BY <1>5, <1>6 DEF validateCompactCorrection, AttemptsAccounted, Corrected, UncorrectedShape
<1>9. ValidContent(t)
  BY <1>1, <1>5, <1>6, <1>7, <1>8 DEF ValidContent, ValidPhase
<1>10. Good(t)
  BY <1>4, <1>5, <1>6, <1>9
  DEF Good, Validate, GateInvalidated, Pristine, compactPristineReviewing,
      MaxCompactCorrectionAttempts
<1> QED
  BY <1>10 DEF t

-----------------------------------------------------------------------------
(* Recovery.  Succeed validates the successor; what is left is its type,    *)
(* its scope and that it is pristine.                                       *)

\* A recovery that imports evidence leaves a good record.
LEMMA ImportGood ==
  ASSUME NEW s, Good(s), compactAccountingOnlyEscalation(s),
         NEW lines \in Nat, NEW generation \in Nat \ {0}, NEW native \in Nat,
         NEW fresh, fresh = NewCompactState(generation, lines, "escalated"),
         NEW t, t = importCompactRecoveredEvidence(fresh, s, native), Validate(t)
  PROVE  Good(t)
<1>1. /\ s \in CompactState /\ s.review \in ReviewData
      /\ s.review.fixFindingIDs \subseteq Severe \cap InGenesis
      /\ s.correctionAttempts \in Seq(CorrectionAttempt) /\ Len(s.correctionAttempts) = 1
      /\ s.lensResults \in BOOLEAN
  BY DEF Good, CompactState, compactAccountingOnlyEscalation
<1> DEFINE source == s.correctionAttempts[1]
<1>2. source \in CorrectionAttempt
  BY <1>1
<1>3. /\ source.proposed \in Nat /\ source.original \in Verdict /\ source.regression \in Verdict
  BY <1>2 DEF CorrectionAttempt
<1>4. <<source>> \in Seq(CorrectionAttempt)
  BY <1>2
<1> HIDE DEF source
<1> DEFINE evidence == [review |-> s.review, source |-> <<source>>, nativeLines |-> native]
<1>5. evidence \in RecoveredEvidence
  BY <1>1, <1>4 DEF RecoveredEvidence
<1> HIDE DEF evidence
<1>6. fresh \in CompactState
  BY NewStateGood DEF Good, RecoveryDisposition
<1>7. ~fresh.invalidationReason /\ fresh.correctionAttempts = <<>>
  BY DEF NewCompactState
<1>8. t = [fresh EXCEPT
             !.state = "validating", !.lensResults = s.lensResults, !.review = s.review,
             !.proposedCorrectionLines = source.proposed,
             !.actualCorrectionLines = native, !.fixDelta = TRUE,
             !.originalCriteria = source.original,
             !.correctionRegression = source.regression, !.evidence = evidence]
  BY DEF importCompactRecoveredEvidence, source, evidence
<1>9. t \in CompactState
  <2>1. /\ "validating" \in ReviewState
        /\ source.proposed \in Nat \cup {NoLines} /\ native \in Nat \cup {NoLines}
        /\ source.original \in Verdict \cup {"none"}
        /\ source.regression \in Verdict \cup {"none"}
        /\ evidence \in RecoveredEvidence
    BY <1>3, <1>5 DEF ReviewState
  <2> DEFINE u == [fresh EXCEPT !.state = "validating", !.lensResults = s.lensResults,
                                !.review = s.review,
                                !.proposedCorrectionLines = source.proposed]
  <2>a. s.lensResults \in BOOLEAN /\ s.review \in ReviewData
    BY <1>1
  <2>2. u \in CompactState
    <3> DEFINE lens == s.lensResults
               v == [fresh EXCEPT !.state = "validating", !.lensResults = lens]
    <3>1. lens \in BOOLEAN
      BY <2>a
    <3> HIDE DEF lens
    <3>2. v \in CompactState
      BY <1>6, <2>1, <3>1, ZenonT(60) DEF CompactState
    <3>3. u = [v EXCEPT !.review = s.review, !.proposedCorrectionLines = source.proposed]
      BY DEF lens
    <3> HIDE DEF v, u
    <3> QED
      BY <2>1, <2>a, <3>2, <3>3 DEF CompactState
  <2>3. t = [u EXCEPT !.actualCorrectionLines = native, !.fixDelta = TRUE,
                      !.originalCriteria = source.original,
                      !.correctionRegression = source.regression, !.evidence = evidence]
    BY <1>8
  <2> HIDE DEF u
  <2> QED
    BY <2>1, <2>2, <2>3, ZenonT(60) DEF CompactState
<1>10. /\ t.state = "validating" /\ t.review = s.review
       /\ ~t.invalidationReason /\ t.correctionAttempts = <<>>
  BY <1>6, <1>7, <1>8 DEF CompactState
<1> QED
  BY <1>1, <1>9, <1>10 DEF Good, Pristine, MaxCompactCorrectionAttempts

\* A retry of the final verification leaves a good record.
LEMMA RetryGood ==
  ASSUME NEW s, Good(s), CanRetryFinalVerification(s),
         NEW t, t = finalVerificationRetrySuccessor(s), Validate(t)
  PROVE  Good(t)
<1>1. /\ s \in CompactState /\ ~s.invalidationReason
      /\ s.review.fixFindingIDs \subseteq Severe \cap InGenesis
      /\ Len(s.correctionAttempts) <= MaxCompactCorrectionAttempts
  BY DEF Good, Pristine, CanRetryFinalVerification
<1> DEFINE next == s.generation + 1
<1>c. next \in Nat \ {0}
  BY <1>1 DEF CompactState
<1> HIDE DEF next
<1>e. t = [s EXCEPT !.generation = next, !.state = "validating",
                    !.evidenceHash = FALSE, !.evidence = NoEvidence,
                    !.disposition = "final_verification_retry"]
  BY DEF finalVerificationRetrySuccessor, next
<1>2. t \in CompactState
  BY <1>1, <1>c, <1>e, NoEvidenceType, ZenonT(60) DEF CompactState, ReviewState, RecoveryDisposition
<1>3. /\ t.state = "validating" /\ t.review = s.review
      /\ ~t.invalidationReason /\ t.correctionAttempts = s.correctionAttempts
  BY <1>1 DEF finalVerificationRetrySuccessor, CompactState
<1> QED
  BY <1>1, <1>2, <1>3 DEF Good, Pristine

-----------------------------------------------------------------------------
(* The chain.                                                               *)

\* The last record of the chain is good.
LEMMA LeafGood ==
  ASSUME IInv
  PROVE  /\ Len(chain) \in Nat \ {0} /\ Len(chain) \in 1 .. Len(chain)
         /\ Good(Leaf) /\ Leaf \in CompactState
<1>1. Len(chain) \in Nat \ {0}
  BY EmptySeq DEF IInv
<1> QED
  BY <1>1 DEF IInv, Leaf, Good

\* A good record in the place of the last one keeps the chain.
LEMMA CommitGood ==
  ASSUME IInv, NEW next, Good(next), chain' = [chain EXCEPT ![Len(chain)] = next]
  PROVE  IInv'
<1>1. Len(chain) \in Nat \ {0} /\ next \in CompactState
  BY LeafGood DEF Good
<1>2. chain \in Seq(CompactState)
  BY DEF IInv
<1>3. /\ chain' \in Seq(CompactState) /\ Len(chain') = Len(chain)
      /\ \A i \in 1 .. Len(chain) :
           chain'[i] = IF i = Len(chain) THEN next ELSE chain[i]
  BY <1>1, <1>2, ExceptSeq
<1> QED
  BY <1>1, <1>3, EmptySeq DEF IInv

\* A good successor keeps the chain.
LEMMA AppendGood ==
  ASSUME IInv, NEW next, Good(next), chain' = Append(chain, next)
  PROVE  IInv'
<1>1. Len(chain) \in Nat \ {0} /\ next \in CompactState
  BY LeafGood DEF Good
<1>2. chain \in Seq(CompactState)
  BY DEF IInv
<1>3. /\ chain' \in Seq(CompactState) /\ Len(chain') = Len(chain) + 1
      /\ \A i \in 1 .. Len(chain) : chain'[i] = chain[i]
      /\ chain'[Len(chain) + 1] = next
  BY <1>1, <1>2, AppendProperties
<1> QED
  BY <1>1, <1>3, EmptySeq DEF IInv

\* The first record is good.
LEMMA InitGood == Init => IInv
<1> SUFFICES ASSUME NEW lines \in ChangedLines, chain = <<NewCompactState(1, lines, "none")>>
             PROVE  IInv
  BY DEF Init
<1>1. Good(NewCompactState(1, lines, "none"))
  BY NewStateGood, BoundAssumption
<1> DEFINE s == NewCompactState(1, lines, "none")
<1> HIDE DEF s
<1>2. chain = <<s>> /\ Good(s) /\ s \in CompactState
  BY <1>1 DEF s, Good
<1> QED
  BY <1>2 DEF IInv

\* Every step keeps the chain good.
LEMMA StepGood == IInv /\ [Next]_chain => IInv'
<1> SUFFICES ASSUME IInv, [Next]_chain
             PROVE  IInv'
  OBVIOUS
<1>l. Good(Leaf) /\ Leaf \in CompactState /\ Lines \subseteq Nat
  BY LeafGood, BoundAssumption DEF Lines
<1>g. Leaf.generation + 1 \in Nat \ {0}
  BY <1>l DEF CompactState
<1>1. ASSUME ReviewLeaf PROVE IInv'
  <2>a. PICK reported \in SUBSET Finding :
          \E given \in [reported \cap Severe -> Evidence],
             refuted \in [reported \cap Severe -> RefuterOutcome \cup {"none"}] :
            LET r == RoutedReview(reported, given, refuted)
            IN  RefutersPresent(r) /\ Commit(CompleteReview(Leaf, r))
    BY <1>1 DEF ReviewLeaf
  <2>1. PICK given \in [reported \cap Severe -> Evidence],
             refuted \in [reported \cap Severe -> RefuterOutcome \cup {"none"}] :
          LET r == RoutedReview(reported, given, refuted)
          IN  RefutersPresent(r) /\ Commit(CompleteReview(Leaf, r))
    BY <2>a
  <2> DEFINE r == RoutedReview(reported, given, refuted)
  <2>2. RefutersPresent(r) /\ chain' = [chain EXCEPT ![Len(chain)] = CompleteReview(Leaf, r)]
    BY <2>1 DEF Commit
  <2>3. Leaf.state = "reviewing"
    BY <1>1 DEF ReviewLeaf
  <2>4. Good(CompleteReview(Leaf, r))
    BY <1>l, <2>2, <2>3, ReviewGood
  <2> HIDE DEF r
  <2> QED
    BY <2>2, <2>4, CommitGood
<1>2. ASSUME ForecastLeaf PROVE IInv'
  <2>1. PICK proposed \in Lines \ {0} : Commit(BeginCorrection(Leaf, proposed))
    BY <1>2 DEF ForecastLeaf
  <2>2. Good(BeginCorrection(Leaf, proposed))
    BY <1>2, <1>l, ForecastGood DEF ForecastLeaf
  <2> QED
    BY <2>1, <2>2, CommitGood DEF Commit
<1>3. ASSUME CorrectLeaf PROVE IInv'
  <2>1. PICK actual \in Lines, original \in Verdict, regression \in Verdict,
             followUps \in SUBSET Observation :
          Commit(CompleteCorrection(Leaf, actual, original, regression, followUps))
    BY <1>3 DEF CorrectLeaf
  <2>a. followUps \cap Malformed = {}
    BY <1>3, <1>l, <2>1, MalformedRefused DEF CorrectLeaf, Commit
  <2>2. Good(CompleteCorrection(Leaf, actual, original, regression, followUps))
    BY <1>3, <1>l, <2>a, CorrectionGood DEF CorrectLeaf
  <2> QED
    BY <2>1, <2>2, CommitGood DEF Commit
<1>4. ASSUME VerifyLeaf PROVE IInv'
  BY <1>4, <1>l, VerificationGood, CommitGood DEF VerifyLeaf, Commit
<1>5. ASSUME InvalidateLeaf PROVE IInv'
  BY <1>5, <1>l, InvalidationGood, CommitGood DEF InvalidateLeaf, Commit
<1>6. ASSUME InvalidateApprovedLeaf PROVE IInv'
  BY <1>6, <1>l, ApprovedInvalidationGood, CommitGood DEF InvalidateApprovedLeaf, Commit
<1>7. ASSUME DisposeLeaf PROVE IInv'
  BY <1>7, <1>l, DispositionGood, CommitGood DEF DisposeLeaf, Commit
<1>8. ASSUME ReopenLeaf PROVE IInv'
  BY <1>8, <1>l, ReopenGood, CommitGood DEF ReopenLeaf, Commit
<1>9. ASSUME RecoverLeaf PROVE IInv'
  <2>1. PICK disposition \in RecoveryDisposition \ {"final_verification_retry"},
             lines \in ChangedLines :
          Succeed(NewCompactState(Leaf.generation + 1, lines, disposition))
    BY <1>9 DEF RecoverLeaf
  <2>2. Good(NewCompactState(Leaf.generation + 1, lines, disposition))
    BY <1>g, NewStateGood, BoundAssumption
  <2> QED
    BY <2>1, <2>2, AppendGood DEF Succeed
<1>10. ASSUME RecoverEvidenceLeaf PROVE IInv'
  <2>1. PICK lines \in ChangedLines, native \in Lines :
          Succeed(importCompactRecoveredEvidence(
                    NewCompactState(Leaf.generation + 1, lines, "escalated"), Leaf, native))
    BY <1>10 DEF RecoverEvidenceLeaf
  <2> DEFINE t == importCompactRecoveredEvidence(
                    NewCompactState(Leaf.generation + 1, lines, "escalated"), Leaf, native)
  <2>2. lines \in Nat /\ native \in Nat /\ Validate(t) /\ chain' = Append(chain, t)
    BY <1>l, <2>1, BoundAssumption DEF Succeed
  <2>3. Good(t)
    BY <1>10, <1>l, <1>g, <2>2, ImportGood DEF RecoverEvidenceLeaf
  <2> HIDE DEF t
  <2> QED
    BY <2>2, <2>3, AppendGood
<1>11. ASSUME RetryLeaf PROVE IInv'
  <2> DEFINE t == finalVerificationRetrySuccessor(Leaf)
  <2>1. CanRetryFinalVerification(Leaf) /\ Validate(t) /\ chain' = Append(chain, t)
    BY <1>11 DEF RetryLeaf, Succeed
  <2>2. Good(t)
    BY <1>l, <2>1, RetryGood
  <2> HIDE DEF t
  <2> QED
    BY <2>1, <2>2, AppendGood
<1>12. ASSUME UNCHANGED chain PROVE IInv'
  BY <1>12 DEF IInv
<1> QED
  BY <1>1, <1>2, <1>3, <1>4, <1>5, <1>6, <1>7, <1>8, <1>9, <1>10, <1>11, <1>12 DEF Next

\* Every record that any sequence of operations can store is Good.
THEOREM RecordsStayGood == Spec => []IInv
  BY InitGood, StepGood, PTL DEF Spec

\* Every stored record has its type and at most one correction attempt.
THEOREM TypeCorrect == Spec => []TypeOK
<1>1. IInv => TypeOK
  BY DEF IInv, Good, TypeOK
<1> QED
  BY <1>1, RecordsStayGood, PTL

\* Validate accepts what every admitted operation computes, for every set of
\* findings, every forecast and every corrected size, and refuses a correction
\* exactly when one of its follow-ups is malformed.
THEOREM ValidatorJudges == Spec => []RefusesOnlyMalformed
<1>1. ASSUME IInv PROVE RefusesOnlyMalformed
  <2>1. Good(Leaf) /\ Lines \subseteq Nat
    BY <1>1, LeafGood, BoundAssumption DEF Lines
  <2>2. \A s : Good(s) => Validate(s)
    BY DEF Good
  <2>3. ReviewAccepted(Leaf)
    BY <2>1, <2>2, ReviewGood DEF ReviewAccepted
  <2>4. CorrectionJudged(Leaf)
    BY <2>1, <2>2, ForecastGood, CorrectionGood, MalformedRefused DEF CorrectionJudged
  <2>5. TerminationAccepted(Leaf)
    BY <2>1, <2>2, VerificationGood, InvalidationGood, ApprovedInvalidationGood,
       DispositionGood, ReopenGood DEF TerminationAccepted
  <2> QED
    BY <2>3, <2>4, <2>5 DEF RefusesOnlyMalformed
<1> QED
  BY <1>1, RecordsStayGood, PTL

\* No correction is ever demanded for a finding outside the genesis scope.
THEOREM FixesInScope == Spec => []FixesStayInGenesis
<1>1. IInv => FixesStayInGenesis
  BY DEF IInv, Good, FixesStayInGenesis
<1> QED
  BY <1>1, RecordsStayGood, PTL

\* An accepted correction is at most half of the reviewed change, rounded up,
\* and at most the cap, through recoveries, imports and retries.
THEOREM CorrectionsWithinBudget == Spec => []AcceptedCorrectionWithinBudget
<1>1. ASSUME IInv PROVE AcceptedCorrectionWithinBudget
  <2> SUFFICES ASSUME NEW i \in 1 .. Len(chain), chain[i].state \in {"validating", "approved"}
               PROVE  /\ 2 * chain[i].actualCorrectionLines <= chain[i].originalChangedLines + 1
                      /\ chain[i].actualCorrectionLines <= MaxCorrectionChangedLines
    BY DEF AcceptedCorrectionWithinBudget
  <2> DEFINE s == chain[i]
             budget == CorrectionBudget(s.originalChangedLines)
  <2>a. Good(s) /\ s.state \in {"validating", "approved"}
    BY <1>1 DEF IInv
  <2> HIDE DEF s
  <2>1. /\ s.originalChangedLines \in Nat /\ s.actualCorrectionLines \in Int
        /\ ValidContent(s) /\ s.state # "escalated"
    BY <2>a DEF Good, CompactState, NoLines, Validate, GateInvalidated
  <2>2. s.actualCorrectionLines <= s.correctionBudget /\ s.correctionBudget = budget
    <3>1. s.correctionBudget = budget /\ (s.actualCorrectionLines > s.correctionBudget => FALSE)
      BY <2>1 DEF ValidContent, ValidForecast
    <3>2. budget \in Nat
      BY <2>1, BudgetType
    <3> QED
      BY <2>1, <3>1, <3>2
  <2>3. budget \in Nat /\ budget <= MaxCorrectionChangedLines
        /\ 2 * budget <= s.originalChangedLines + 1
    BY <2>1, BudgetType
  <2> HIDE DEF budget
  <2>4. 2 * s.actualCorrectionLines <= s.originalChangedLines + 1
        /\ s.actualCorrectionLines <= MaxCorrectionChangedLines
    BY <2>1, <2>2, <2>3, BoundAssumption
  <2> QED
    BY <2>4 DEF s
<1> QED
  BY <1>1, RecordsStayGood, PTL

-----------------------------------------------------------------------------
(* What a step leaves alone.  IInv supplies the type of the leaf (without   *)
(* it an EXCEPT need not leave the other fields as they are) and a chain    *)
(* that is a sequence.                                                      *)

\* The chain and one more value form a sequence.
LEMMA WiderSeq ==
  ASSUME IInv, NEW next
  PROVE  /\ Len(chain) \in Nat \ {0}
         /\ chain \in Seq(CompactState \cup {next})
<1>1. chain \in Seq(CompactState) /\ CompactState \subseteq CompactState \cup {next}
  BY DEF IInv
<1>2. \A i \in 1 .. Len(chain) : chain[i] \in CompactState \cup {next}
  BY <1>1
<1> QED
  BY <1>1, <1>2, LeafGood

\* A commit freezes what it does not rewrite.
LEMMA CommitFrozen ==
  ASSUME IInv, NEW next, Commit(next),
         next.review # Leaf.review =>
           \/ <<Leaf.state, next.state>> \in ReviewRewrites
           \/ OnlyFollowUpsAdded(Leaf, next)
  PROVE  FrozenStep
<1>1. /\ Len(chain) \in Nat \ {0} /\ chain \in Seq(CompactState \cup {next})
      /\ chain' = [chain EXCEPT ![Len(chain)] = next]
  BY WiderSeq DEF Commit
<1>2. /\ Len(chain') = Len(chain)
      /\ \A i \in 1 .. Len(chain) :
           chain'[i] = IF i = Len(chain) THEN next ELSE chain[i]
  BY <1>1, ExceptSeq
<1>3. Len(chain) \in Nat \ {0}
  BY <1>1
<1>4. /\ Len(chain) \in 1 .. Len(chain)
      /\ \A i \in 1 .. Len(chain) - 1 : i \in 1 .. Len(chain) /\ i # Len(chain)
  BY <1>3
<1>5. /\ \A i \in 1 .. Len(chain) - 1 : chain'[i] = chain[i]
      /\ chain'[Len(chain)] = next
  BY <1>2, <1>4, Zenon
<1>6. Len(chain) <= Len(chain') /\ ~(Len(chain') > Len(chain))
  BY <1>2, <1>3
<1> QED
  BY <1>5, <1>6 DEF FrozenStep, Leaf

\* A succession freezes all that is there.
LEMMA SucceedFrozen ==
  ASSUME IInv, NEW next, Succeed(next)
  PROVE  FrozenStep
<1>1. /\ Len(chain) \in Nat \ {0} /\ chain \in Seq(CompactState \cup {next})
      /\ chain' = Append(chain, next)
  BY WiderSeq DEF Succeed
<1>2. /\ Len(chain') = Len(chain) + 1
      /\ \A i \in 1 .. Len(chain) : chain'[i] = chain[i]
  BY <1>1, AppendProperties
<1> QED
  BY <1>1, <1>2 DEF FrozenStep

\* No step rewrites a frozen review, but where the code may.
LEMMA StepFrozen == IInv /\ [Next]_chain => [FrozenStep]_chain
<1> SUFFICES ASSUME IInv, Next
             PROVE  FrozenStep
  OBVIOUS
<1>l. Leaf \in CompactState
  BY LeafGood
<1>1. ASSUME ReviewLeaf PROVE FrozenStep
  <2>1. PICK r : Commit(CompleteReview(Leaf, r)) /\ Leaf.state = "reviewing"
    BY <1>1 DEF ReviewLeaf
  <2>2. /\ CompleteReview(Leaf, r).state = ReviewedState(r)
        /\ ReviewedState(r) \in {"correction_required", "validating", "escalated"}
    BY <1>l DEF CompleteReview, CompactState, ReviewedState
  <2> QED
    BY <2>1, <2>2, CommitFrozen DEF ReviewRewrites
<1>2. ASSUME ForecastLeaf PROVE FrozenStep
  <2>1. PICK proposed \in Lines \ {0} : Commit(BeginCorrection(Leaf, proposed))
    BY <1>2 DEF ForecastLeaf
  <2>2. BeginCorrection(Leaf, proposed).review = Leaf.review
    BY <1>l DEF BeginCorrection, CompactState
  <2> QED
    BY <2>1, <2>2, CommitFrozen
<1>3. ASSUME CorrectLeaf PROVE FrozenStep
  <2>1. PICK actual \in Lines, original \in Verdict, regression \in Verdict,
             followUps \in SUBSET Observation :
          Commit(CompleteCorrection(Leaf, actual, original, regression, followUps))
    BY <1>3 DEF CorrectLeaf
  <2> DEFINE t == CompleteCorrection(Leaf, actual, original, regression, followUps)
  <2>2. /\ t.review = [Leaf.review EXCEPT !.followUps = @ \cup followUps]
        /\ Leaf.review \in ReviewData
        /\ \E attempt : t.correctionAttempts = Append(Leaf.correctionAttempts, attempt)
        /\ Leaf.correctionAttempts \in Seq(CorrectionAttempt)
    BY <1>l DEF CompleteCorrection, CompactState
  <2> HIDE DEF t
  <2>3. /\ t.review.followUps = Leaf.review.followUps \cup followUps
        /\ t.review = [Leaf.review EXCEPT !.followUps = t.review.followUps]
    BY <2>2 DEF ReviewData
  <2>4. Len(t.correctionAttempts) = Len(Leaf.correctionAttempts) + 1
    BY <2>2
  <2>5. OnlyFollowUpsAdded(Leaf, t)
    BY <1>3, <2>3, <2>4 DEF OnlyFollowUpsAdded, CorrectLeaf, CanCompleteCorrection
  <2> QED
    BY <2>1, <2>5, CommitFrozen DEF t
<1>4. ASSUME VerifyLeaf PROVE FrozenStep
  <2>1. PICK approved \in BOOLEAN : Commit(CompleteVerification(Leaf, approved))
    BY <1>4 DEF VerifyLeaf
  <2>2. CompleteVerification(Leaf, approved).review = Leaf.review
    BY <1>l DEF CompleteVerification, CompactState
  <2> QED
    BY <2>1, <2>2, CommitFrozen
<1>5. ASSUME InvalidateLeaf PROVE FrozenStep
  <2>1. Invalidate(Leaf).review = Leaf.review
    BY <1>l DEF Invalidate, CompactState
  <2> QED
    BY <1>5, <2>1, CommitFrozen DEF InvalidateLeaf
<1>6. ASSUME InvalidateApprovedLeaf PROVE FrozenStep
  <2>1. invalidateApproved(Leaf).review = Leaf.review
    BY <1>l DEF invalidateApproved, CompactState
  <2> QED
    BY <1>6, <2>1, CommitFrozen DEF InvalidateApprovedLeaf
<1>7. ASSUME DisposeLeaf PROVE FrozenStep
  <2>1. DisposeResult(Leaf).review = Leaf.review
    BY <1>l DEF DisposeResult, CompactState
  <2> QED
    BY <1>7, <2>1, CommitFrozen DEF DisposeLeaf
<1>8. ASSUME ReopenLeaf PROVE FrozenStep
  <2>1. Leaf.state = "validating" /\ ReopenResults(Leaf).state = "reviewing"
    BY <1>8, <1>l DEF ReopenLeaf, CanReopenResults, ReopenResults, CompactState
  <2> QED
    BY <1>8, <2>1, CommitFrozen DEF ReopenLeaf, ReviewRewrites
<1>9. ASSUME RecoverLeaf \/ RecoverEvidenceLeaf \/ RetryLeaf PROVE FrozenStep
  <2>1. PICK next : Succeed(next)
    BY <1>9 DEF RecoverLeaf, RecoverEvidenceLeaf, RetryLeaf
  <2> QED
    BY <2>1, SucceedFrozen
<1> QED
  BY <1>1, <1>2, <1>3, <1>4, <1>5, <1>6, <1>7, <1>8, <1>9 DEF Next

\* No operation rewrites a superseded record or shortens the chain, and the
\* frozen review of the leaf changes only when a review completes or reopens,
\* or by the follow-ups that a recorded correction attempt adds to it.
THEOREM HistoryStaysFrozen == Spec => FrozenHistory
  BY RecordsStayGood, StepFrozen, PTL DEF Spec, FrozenHistory

-----------------------------------------------------------------------------
(* The edges of the chain.  An edge is judged on its current successor, so   *)
(* the invariant has to say which successors can still move: a retry never  *)
(* re-enters the review or a correction, and imported evidence is bound to  *)
(* a review that no later operation of its lineage replaces.                *)

Retry(s) == s.disposition = "final_verification_retry"

EdgeInv ==
  /\ IInv
  /\ EdgesStayValid
  /\ \A i \in 1 .. Len(chain) :
       Retry(chain[i]) =>
         chain[i].state \in {"validating", "approved", "escalated", "invalidated"}

\* What an operation on the leaf keeps of everything its edge depends on.
Continues(s, next) ==
  /\ next.generation = s.generation
  /\ next.disposition = s.disposition
  /\ next.evidence = s.evidence
  /\ s.evidence # NoEvidence => next.review = s.review
  /\ Retry(s) => next.state \in {"approved", "escalated", "invalidated"}

\* An edge outlives what a record may become.
LEMMA EdgeContinues ==
  ASSUME NEW p, NEW s, NEW next, Continues(s, next),
         validateCompactRecoveryEdge(p, s) \/ Retry(s)
  PROVE  validateCompactRecoveryEdge(p, next) \/ (Retry(next) /\ next.state # "validating")
<1>1. CASE Retry(s)
  BY <1>1 DEF Continues, Retry
<1>2. CASE validateCompactRecoveryEdge(p, s) /\ ~Retry(s)
  BY <1>2
  DEF Continues, Retry, validateCompactRecoveryEdge, validateCompactRecoveredEvidenceEdge
<1> QED
  BY <1>1, <1>2

\* A commit keeps the edges of the chain.
LEMMA CommitKeepsEdges ==
  ASSUME EdgeInv, NEW next, Good(next), Continues(Leaf, next), Commit(next)
  PROVE  EdgeInv'
<1>1. /\ Len(chain) \in Nat \ {0} /\ chain \in Seq(CompactState \cup {next})
      /\ chain' = [chain EXCEPT ![Len(chain)] = next] /\ IInv'
  BY WiderSeq, CommitGood DEF EdgeInv, Commit
<1>2. /\ Len(chain') = Len(chain)
      /\ \A i \in 1 .. Len(chain) :
           chain'[i] = IF i = Len(chain) THEN next ELSE chain[i]
  BY <1>1, ExceptSeq
<1>3. ASSUME NEW i \in 1 .. Len(chain) - 1
      PROVE  \/ validateCompactRecoveryEdge(chain'[i], chain'[i + 1])
             \/ Retry(chain'[i + 1]) /\ chain'[i + 1].state # "validating"
  <2>1. /\ i \in 1 .. Len(chain) /\ i + 1 \in 1 .. Len(chain) /\ i # Len(chain)
    BY <1>1
  <2>2. \/ validateCompactRecoveryEdge(chain[i], chain[i + 1])
        \/ Retry(chain[i + 1]) /\ chain[i + 1].state # "validating"
    BY DEF EdgeInv, EdgesStayValid, EdgeValid, Retry
  <2>3. chain'[i] = chain[i]
    BY <1>2, <2>1
  <2>4. CASE i + 1 = Len(chain)
    <3>1. chain'[i + 1] = next /\ chain[i + 1] = Leaf
      BY <1>2, <2>1, <2>4 DEF Leaf
    <3> QED
      BY <2>2, <2>3, <3>1, EdgeContinues
  <2>5. CASE i + 1 # Len(chain)
    BY <1>2, <2>1, <2>2, <2>3, <2>5
  <2> QED
    BY <2>4, <2>5
<1>4. ASSUME NEW i \in 1 .. Len(chain), Retry(chain'[i])
      PROVE  chain'[i].state \in {"validating", "approved", "escalated", "invalidated"}
  <2>1. CASE i = Len(chain)
    BY <1>2, <1>4, <2>1 DEF Continues, Retry
  <2>2. CASE i # Len(chain)
    BY <1>2, <1>4, <2>2 DEF EdgeInv
  <2> QED
    BY <2>1, <2>2
<1>5. EdgesStayValid'
  BY <1>2, <1>3 DEF EdgesStayValid, EdgeValid, Retry
<1>6. \A i \in 1 .. Len(chain') :
        Retry(chain'[i]) =>
          chain'[i].state \in {"validating", "approved", "escalated", "invalidated"}
  BY <1>2, <1>4
<1>7. IInv'
  BY <1>1
<1> QED
  BY <1>5, <1>6, <1>7, Zenon DEF EdgeInv, Retry

\* A succession keeps them and adds a valid one.
LEMMA SucceedKeepsEdges ==
  ASSUME EdgeInv, NEW next, Good(next), Succeed(next),
         Retry(next) => next.state = "validating"
  PROVE  EdgeInv'
<1>1. /\ Len(chain) \in Nat \ {0} /\ chain \in Seq(CompactState \cup {next})
      /\ chain' = Append(chain, next) /\ IInv'
      /\ validateCompactRecoveryEdge(Leaf, next)
  BY WiderSeq, AppendGood DEF EdgeInv, Succeed
<1>2. /\ Len(chain') = Len(chain) + 1
      /\ \A i \in 1 .. Len(chain) : chain'[i] = chain[i]
      /\ chain'[Len(chain) + 1] = next
  BY <1>1, AppendProperties
<1>3. ASSUME NEW i \in 1 .. Len(chain') - 1
      PROVE  \/ validateCompactRecoveryEdge(chain'[i], chain'[i + 1])
             \/ Retry(chain'[i + 1]) /\ chain'[i + 1].state # "validating"
  <2>1. CASE i = Len(chain)
    BY <1>1, <1>2, <2>1 DEF Leaf
  <2>2. CASE i # Len(chain)
    <3>1. i \in 1 .. Len(chain) - 1 /\ i \in 1 .. Len(chain) /\ i + 1 \in 1 .. Len(chain)
      BY <1>1, <1>2, <2>2
    <3>2. chain'[i] = chain[i] /\ chain'[i + 1] = chain[i + 1]
      BY <1>2, <3>1
    <3>3. \/ validateCompactRecoveryEdge(chain[i], chain[i + 1])
          \/ Retry(chain[i + 1]) /\ chain[i + 1].state # "validating"
      BY <3>1 DEF EdgeInv, EdgesStayValid, EdgeValid, Retry
    <3> QED
      BY <3>2, <3>3
  <2> QED
    BY <2>1, <2>2
<1>4. ASSUME NEW i \in 1 .. Len(chain'), Retry(chain'[i])
      PROVE  chain'[i].state \in {"validating", "approved", "escalated", "invalidated"}
  <2>1. CASE i = Len(chain) + 1
    BY <1>2, <1>4, <2>1
  <2>2. CASE i # Len(chain) + 1
    <3>1. i \in 1 .. Len(chain)
      BY <1>1, <1>2, <2>2
    <3> QED
      BY <1>2, <1>4, <3>1 DEF EdgeInv
  <2> QED
    BY <2>1, <2>2
<1> QED
  BY <1>1, <1>3, <1>4 DEF EdgeInv, EdgesStayValid, EdgeValid, Retry

\* Results are reopened only where no correction was imported.
LEMMA NothingImported ==
  ASSUME NEW s, Good(s), CanReopenResults(s)
  PROVE  s.evidence = NoEvidence
<1>1. ValidContent(s) /\ s.review.fixFindingIDs = {}
  BY DEF Good, Validate, GateInvalidated, CanReopenResults
<1> QED
  BY <1>1 DEF ValidContent, validateCompactCorrection, validateCompactRecoveredCorrection

\* The edges are inductive.
LEMMA StepKeepsEdges == EdgeInv /\ [Next]_chain => EdgeInv'
<1> SUFFICES ASSUME EdgeInv, [Next]_chain
             PROVE  EdgeInv'
  OBVIOUS
<1>l. IInv /\ Good(Leaf) /\ Leaf \in CompactState /\ Lines \subseteq Nat
  BY LeafGood, BoundAssumption DEF Lines, EdgeInv
<1>r. Retry(Leaf) => Leaf.state \in {"validating", "approved", "escalated", "invalidated"}
  BY LeafGood DEF EdgeInv, Leaf
<1>g. Leaf.generation + 1 \in Nat \ {0}
  BY <1>l DEF CompactState
<1>1. ASSUME ReviewLeaf PROVE EdgeInv'
  <2>a. PICK reported \in SUBSET Finding :
          \E given \in [reported \cap Severe -> Evidence],
             refuted \in [reported \cap Severe -> RefuterOutcome \cup {"none"}] :
            LET r == RoutedReview(reported, given, refuted)
            IN  RefutersPresent(r) /\ Commit(CompleteReview(Leaf, r))
    BY <1>1 DEF ReviewLeaf
  <2>1. PICK given \in [reported \cap Severe -> Evidence],
             refuted \in [reported \cap Severe -> RefuterOutcome \cup {"none"}] :
          LET r == RoutedReview(reported, given, refuted)
          IN  RefutersPresent(r) /\ Commit(CompleteReview(Leaf, r))
    BY <2>a
  <2> DEFINE r == RoutedReview(reported, given, refuted)
  <2>2. RefutersPresent(r) /\ Commit(CompleteReview(Leaf, r)) /\ Leaf.state = "reviewing"
    BY <1>1, <2>1 DEF ReviewLeaf
  <2>3. Good(CompleteReview(Leaf, r))
    BY <1>l, <2>2, ReviewGood
  <2>4. Leaf.evidence = NoEvidence /\ ~Retry(Leaf)
    BY <1>l, <1>r, <2>2, BeforeCorrection
  <2> HIDE DEF r
  <2>5. Continues(Leaf, CompleteReview(Leaf, r))
    BY <1>l, <2>4 DEF Continues, CompleteReview, CompactState
  <2> QED
    BY <2>2, <2>3, <2>5, CommitKeepsEdges
<1>2. ASSUME ForecastLeaf PROVE EdgeInv'
  <2>1. PICK proposed \in Lines \ {0} : Commit(BeginCorrection(Leaf, proposed))
    BY <1>2 DEF ForecastLeaf
  <2>2. Good(BeginCorrection(Leaf, proposed))
    BY <1>2, <1>l, ForecastGood DEF ForecastLeaf
  <2>3. ~Retry(Leaf)
    BY <1>2, <1>r DEF ForecastLeaf, CanBeginCorrection
  <2>4. Continues(Leaf, BeginCorrection(Leaf, proposed))
    BY <1>l, <2>3 DEF Continues, BeginCorrection, CompactState
  <2> QED
    BY <2>1, <2>2, <2>4, CommitKeepsEdges
<1>3. ASSUME CorrectLeaf PROVE EdgeInv'
  <2>1. PICK actual \in Lines, original \in Verdict, regression \in Verdict,
             followUps \in SUBSET Observation :
          Commit(CompleteCorrection(Leaf, actual, original, regression, followUps))
    BY <1>3 DEF CorrectLeaf
  <2>a. followUps \cap Malformed = {}
    BY <1>3, <1>l, <2>1, MalformedRefused DEF CorrectLeaf, Commit
  <2>2. Good(CompleteCorrection(Leaf, actual, original, regression, followUps))
    BY <1>3, <1>l, <2>a, CorrectionGood DEF CorrectLeaf
  <2>3. ~Retry(Leaf)
    BY <1>3, <1>r DEF CorrectLeaf, CanCompleteCorrection
  <2>b. Leaf.evidence = NoEvidence
    BY <1>3, <1>l, BeforeCorrection DEF CorrectLeaf, CanCompleteCorrection
  <2>4. Continues(Leaf, CompleteCorrection(Leaf, actual, original, regression, followUps))
    BY <1>l, <2>3, <2>b DEF Continues, CompleteCorrection, CompactState
  <2> QED
    BY <2>1, <2>2, <2>4, CommitKeepsEdges
<1>4. ASSUME VerifyLeaf PROVE EdgeInv'
  <2>1. PICK approved \in BOOLEAN : Commit(CompleteVerification(Leaf, approved))
    BY <1>4 DEF VerifyLeaf
  <2>2. Good(CompleteVerification(Leaf, approved))
    BY <1>4, <1>l, VerificationGood DEF VerifyLeaf
  <2>3. Continues(Leaf, CompleteVerification(Leaf, approved))
    BY <1>l DEF Continues, CompleteVerification, CompactState
  <2> QED
    BY <2>1, <2>2, <2>3, CommitKeepsEdges
<1>5. ASSUME InvalidateLeaf PROVE EdgeInv'
  <2>1. Good(Invalidate(Leaf))
    BY <1>5, <1>l, InvalidationGood DEF InvalidateLeaf
  <2>2. Continues(Leaf, Invalidate(Leaf))
    BY <1>l DEF Continues, Invalidate, CompactState
  <2> QED
    BY <1>5, <2>1, <2>2, CommitKeepsEdges DEF InvalidateLeaf
<1>6. ASSUME InvalidateApprovedLeaf PROVE EdgeInv'
  <2>1. Good(invalidateApproved(Leaf))
    BY <1>6, <1>l, ApprovedInvalidationGood DEF InvalidateApprovedLeaf
  <2>2. Continues(Leaf, invalidateApproved(Leaf))
    BY <1>l DEF Continues, invalidateApproved, CompactState
  <2> QED
    BY <1>6, <2>1, <2>2, CommitKeepsEdges DEF InvalidateApprovedLeaf
<1>7. ASSUME DisposeLeaf PROVE EdgeInv'
  <2>1. Good(DisposeResult(Leaf))
    BY <1>7, <1>l, DispositionGood DEF DisposeLeaf
  <2>2. Continues(Leaf, DisposeResult(Leaf))
    BY <1>l DEF Continues, DisposeResult, CompactState
  <2> QED
    BY <1>7, <2>1, <2>2, CommitKeepsEdges DEF DisposeLeaf
<1>8. ASSUME ReopenLeaf PROVE EdgeInv'
  <2>1. Good(ReopenResults(Leaf)) /\ Leaf.evidence = NoEvidence /\ ~Retry(Leaf)
    BY <1>8, <1>l, ReopenGood, NothingImported DEF ReopenLeaf, Retry
  <2>2. Continues(Leaf, ReopenResults(Leaf))
    BY <1>l, <2>1 DEF Continues, ReopenResults, CompactState
  <2> QED
    BY <1>8, <2>1, <2>2, CommitKeepsEdges DEF ReopenLeaf
<1>9. ASSUME RecoverLeaf PROVE EdgeInv'
  <2>1. PICK disposition \in RecoveryDisposition \ {"final_verification_retry"},
             lines \in ChangedLines :
          Succeed(NewCompactState(Leaf.generation + 1, lines, disposition))
    BY <1>9 DEF RecoverLeaf
  <2>2. Good(NewCompactState(Leaf.generation + 1, lines, disposition))
    BY <1>g, NewStateGood, BoundAssumption
  <2>3. ~Retry(NewCompactState(Leaf.generation + 1, lines, disposition))
    BY DEF Retry, NewCompactState
  <2> QED
    BY <2>1, <2>2, <2>3, SucceedKeepsEdges
<1>10. ASSUME RecoverEvidenceLeaf PROVE EdgeInv'
  <2>1. PICK lines \in ChangedLines, native \in Lines :
          Succeed(importCompactRecoveredEvidence(
                    NewCompactState(Leaf.generation + 1, lines, "escalated"), Leaf, native))
    BY <1>10 DEF RecoverEvidenceLeaf
  <2> DEFINE t == importCompactRecoveredEvidence(
                    NewCompactState(Leaf.generation + 1, lines, "escalated"), Leaf, native)
  <2>2. lines \in Nat /\ native \in Nat /\ Validate(t) /\ Succeed(t)
    BY <1>l, <2>1, BoundAssumption DEF Succeed
  <2>3. Good(t)
    BY <1>10, <1>l, <1>g, <2>2, ImportGood DEF RecoverEvidenceLeaf
  <2>4. ~Retry(t)
    BY DEF Retry, importCompactRecoveredEvidence, NewCompactState
  <2> HIDE DEF t
  <2> QED
    BY <2>2, <2>3, <2>4, SucceedKeepsEdges
<1>11. ASSUME RetryLeaf PROVE EdgeInv'
  <2> DEFINE t == finalVerificationRetrySuccessor(Leaf)
  <2>1. CanRetryFinalVerification(Leaf) /\ Validate(t) /\ Succeed(t)
    BY <1>11 DEF RetryLeaf, Succeed
  <2>2. Good(t)
    BY <1>l, <2>1, RetryGood
  <2>3. t.state = "validating"
    BY <1>l DEF finalVerificationRetrySuccessor, CompactState
  <2> HIDE DEF t
  <2> QED
    BY <2>1, <2>2, <2>3, SucceedKeepsEdges
<1>12. ASSUME UNCHANGED chain PROVE EdgeInv'
  BY <1>12 DEF EdgeInv, IInv, EdgesStayValid, EdgeValid
<1> QED
  BY <1>1, <1>2, <1>3, <1>4, <1>5, <1>6, <1>7, <1>8, <1>9, <1>10, <1>11, <1>12 DEF Next

\* The edge to a successor that moves on stays valid, through every operation
\* on it, unless the successor is a final-verification retry that left
\* validating: no later verdict, import or invalidation breaks the graph.
THEOREM EdgesNeverBreak == Spec => []EdgesStayValid
<1>1. ASSUME Init PROVE EdgeInv
  <2>1. PICK lines \in ChangedLines : chain = <<NewCompactState(1, lines, "none")>>
    BY <1>1 DEF Init
  <2>2. IInv
    BY <1>1, InitGood
  <2> DEFINE s == NewCompactState(1, lines, "none")
  <2>3. ~Retry(s)
    BY DEF Retry, NewCompactState
  <2> HIDE DEF s
  <2>4. Len(chain) = 1 /\ chain[1] = s
    BY <2>1 DEF s
  <2>5. EdgesStayValid
    BY <2>4 DEF EdgesStayValid
  <2>6. \A i \in 1 .. Len(chain) : ~Retry(chain[i])
    BY <2>3, <2>4
  <2> QED
    BY <2>2, <2>5, <2>6 DEF EdgeInv
<1>2. EdgeInv => EdgesStayValid
  BY DEF EdgeInv
<1> QED
  BY <1>1, <1>2, StepKeepsEdges, PTL DEF Spec

=============================================================================
