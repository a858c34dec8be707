--------------------------- MODULE FinalizeAttempt --------------------------
(***************************************************************************)
(* One `review finalize` of one lineage: what the command reads, journals, *)
(* commits and publishes, in its order, and what a crash between two of    *)
(* these steps leaves to the next command (internal/reviewtransaction/     *)
(* finalize_attempt_journal.go and internal/cli/review_facade.go,          *)
(* runReviewFacadeFinalize).                                               *)
(*                                                                         *)
(* Every step below is one hold of the store lock or one unlocked read.    *)
(* The attempt journal is written ahead: every planned revision is in it   *)
(* before the first one is committed, and the attempt is closed last.      *)
(*                                                                         *)
(* Data.  A payload is the kind of each input; a request digest is the     *)
(* request; a revision is the content of the record, as far as it decides  *)
(* what may follow.  CompactLifecycle models the record in full.           *)
(***************************************************************************)
EXTENDS Integers, Sequences, FiniteSets

CONSTANTS
  Process,     \* concurrent finalize commands
  Payloads,    \* the inputs that callers pass
  MaxReopens,  \* bound: reviewer-result reopens
  MaxCrashes,  \* bound: commands that die
  None         \* no attempt, no receipt

Payload ==
  [results  : {"none", "clean", "causal", "unclear"},
   forecast : {"none", "within", "over"},
   fix      : {"none", "good", "bad"},
   evidence : {"none", "pass", "fail"}]

Empty == [results |-> "none", forecast |-> "none", fix |-> "none", evidence |-> "none"]

ASSUME PayloadAssumption == Payloads \subseteq Payload /\ Empty \in Payloads
ASSUME BoundAssumption == MaxReopens \in Nat /\ MaxCrashes \in Nat

VARIABLES
  authority,  \* the content of the record
  journal,    \* the attempts of finalize-attempt-journal.json
  receipt,    \* the content the published receipt was derived from, or None
  command,    \* per process: the running command
  crashes     \* how many commands died

vars == <<authority, journal, receipt, command, crashes>>

-----------------------------------------------------------------------------
(* Records, requests and attempts.                                          *)

State == {"reviewing", "correction_required", "validating",
          "approved", "escalated", "invalidated"}

Content ==
  [state    : State,
   forecast : BOOLEAN,
   fixed    : BOOLEAN,                  \* CurrentSnapshot is the fix
   evidence : {"none", "pass", "fail"},
   disposed : BOOLEAN,
   reopens  : 0 .. MaxReopens]

Fresh == [state |-> "reviewing", forecast |-> FALSE, fixed |-> FALSE,
          evidence |-> "none", disposed |-> FALSE, reopens |-> 0]

Terminal(c) == c.state \in {"approved", "escalated"}

\* FinalizeAttemptRequest.  The candidate is told by whether it is the fix.
Request == [revision : Content, payload : Payload, candidate : BOOLEAN]

Transition == [from : Content, to : Content]

Attempt ==
  [request     : Request,
   transitions : Seq(Transition),
   published   : BOOLEAN,  \* the receipt of its outcome is published
   completed   : BOOLEAN]

ASSUME NoneAssumption == None \notin Content /\ None \notin Request /\ None \notin Attempt

Open == {i \in DOMAIN journal : ~journal[i].completed}

\* PendingFinalizeAttempt: the latest attempt that is not completed.
Pending ==
  IF Open = {} THEN None
  ELSE journal[CHOOSE i \in Open : \A j \in Open : j <= i]

-----------------------------------------------------------------------------
(* prepareFacadeFinalizePlan: at most two transitions of a held record.     *)

Step(entry, c, in) ==
  CASE c.state = "reviewing" ->
         [c EXCEPT !.state = CASE in.results = "clean" -> "validating"
                               [] in.results = "unclear" -> "escalated"
                               [] OTHER -> "correction_required"]
    [] c.state = "correction_required" /\ ~c.forecast /\ in.forecast # "none" ->
         [c EXCEPT !.forecast = TRUE,
                   !.state = IF in.forecast = "over" THEN "escalated" ELSE @]
    [] /\ c.state = "correction_required" /\ in.fix # "none"
       /\ entry.state = "correction_required" /\ entry.forecast ->
         [c EXCEPT !.fixed = TRUE,
                   !.state = IF in.fix = "bad" THEN "escalated" ELSE "validating"]
    [] c.state = "validating" /\ in.evidence # "none" ->
         [c EXCEPT !.evidence = in.evidence,
                   !.state = IF in.evidence = "pass" THEN "approved" ELSE "escalated"]
    [] OTHER -> c

\* Mutant: steps that change nothing are planned as well.
UnfilteredPlan(entry, in) ==
  LET first == Step(entry, entry, in)
      second == Step(entry, first, in)
  IN  <<first, second, Step(entry, second, in)>>

Plan(entry, in) ==
  LET first == Step(entry, entry, in)
      second == Step(entry, first, in)
  IN  IF first = entry THEN <<>>
      ELSE IF second = first THEN <<first>> ELSE <<first, second>>

Outcome(held, todo) == IF todo = <<>> THEN held ELSE todo[Len(todo)]

\* The request for a candidate: the one of the outcome, or the current one.
RequestOf(held, in, outcome) ==
  [revision |-> held, payload |-> in, candidate |-> outcome.fixed]

\* What is refused before anything is written.  Reviewer results come while
\* the authority is reviewing, or again for a pending attempt.
Admissible(c, in, pending) ==
  /\ Terminal(c) => in = Empty
  /\ c.state = "reviewing" => in.results # "none"
  /\ c.state # "reviewing" /\ in.results # "none" => pending # None

-----------------------------------------------------------------------------
(* The journal.                                                             *)

SamePayload(left, right) ==
  left.payload = right.payload /\ left.candidate = right.candidate

MayResume(attempt, request) ==
  IF authority = attempt.request.revision
    THEN request.revision = attempt.request.revision
    ELSE /\ \E i \in DOMAIN attempt.transitions : attempt.transitions[i].to = authority
         /\ request.revision = authority

\* Mutant: an open attempt of another request does not stand in the way.
OwnAttempt(request) == {i \in DOMAIN journal : journal[i].request = request}

\* The first attempt that decides on a request: it is the request's own, or
\* it is still open.
Deciding(request) ==
  LET candidates == {i \in DOMAIN journal : i \in Open \/ journal[i].request = request}
  IN  {i \in candidates : \A j \in candidates : i <= j}

\* ReconcileFinalizeAttempt: the attempt that serves the request, and the
\* journal that holds it; nothing for a replay mismatch.
ReconcileFinalizeAttempt(request) ==
  IF Deciding(request) = {}
    THEN {<<request, Append(journal, [request |-> request, transitions |-> <<>>,
                                      published |-> FALSE, completed |-> FALSE])>>}
    ELSE {<<journal[i].request, journal>> :
            i \in {j \in Deciding(request) :
                     \/ journal[j].request = request
                     \/ /\ SamePayload(journal[j].request, request)
                        /\ MayResume(journal[j], request)}}

Update(request, change(_)) ==
  [i \in DOMAIN journal |->
     IF journal[i].request = request THEN change(journal[i]) ELSE journal[i]]

\* PlanFinalizeAttemptTransition: a transition is journaled once.
Planned(request, from, to) ==
  LET record(a) ==
        IF \E i \in DOMAIN a.transitions : a.transitions[i] = [from |-> from, to |-> to]
          THEN a
          ELSE [a EXCEPT !.transitions = Append(@, [from |-> from, to |-> to])]
  IN  Update(request, record)

MarkPublished(request) ==
  LET mark(a) == [a EXCEPT !.published = TRUE] IN Update(request, mark)

\* Mutant: an attempt is closed only with a settled record.
CloseSettled(request) ==
  LET close(a) == [a EXCEPT !.completed = Terminal(authority)] IN Update(request, close)

CompleteFinalizeAttempt(request) ==
  LET close(a) == [a EXCEPT !.completed = TRUE] IN Update(request, close)

-----------------------------------------------------------------------------
(* The command.                                                             *)

Stage == {"idle", "loaded", "resume", "reconcile", "plan", "commit",
          "receipt", "inspect", "mark", "complete"}

Idle == [stage |-> "idle", held |-> Fresh, attempt |-> None, todo |-> <<>>, index |-> 0]

Command ==
  [stage   : Stage,
   held    : Content,                 \* the record that was loaded or committed
   attempt : Request \cup {None},
   todo    : Seq(Content),            \* the planned states left to commit
   index   : Nat]

At(p, stage) == command[p].stage = stage

Become(p, k) == command' = [command EXCEPT ![p] = k]
Return(p) == Become(p, Idle)

Init ==
  /\ authority = Fresh
  /\ journal = <<>>
  /\ receipt = None
  /\ command = [p \in Process |-> Idle]
  /\ crashes = 0

\* The record is loaded without the lock.
Load(p) ==
  /\ At(p, "idle")
  /\ Become(p, [Idle EXCEPT !.stage = "loaded", !.held = authority])
  /\ UNCHANGED <<authority, journal, receipt, crashes>>

\* Where an attempt holds a record as the outcome of a transition, or 0.
TransitionIndex(attempt, c) ==
  IF attempt = None THEN 0
  ELSE LET hits == {i \in DOMAIN attempt.transitions : attempt.transitions[i].to = c}
       IN  IF hits = {} THEN 0 ELSE CHOOSE i \in hits : \A j \in hits : i <= j

\* Mutant: a settled record needs a receipt only if an attempt is open.
PublishPending(k) ==
  IF Pending = None THEN Idle
  ELSE [k EXCEPT !.attempt = Pending.request,
                 !.stage = IF receipt # None THEN "complete" ELSE "receipt"]

\* A settled record: its receipt is published if it is missing, and the open
\* attempt, if there is one, is closed.
PublishSettled(k) ==
  IF Pending # None
    THEN [k EXCEPT !.attempt = Pending.request,
                   !.stage = IF receipt # None THEN "complete" ELSE "receipt"]
    ELSE IF receipt # None THEN Idle
    ELSE [k EXCEPT !.attempt = RequestOf(k.held, Empty, k.held), !.stage = "reconcile"]

\* The inputs and the pending attempt are read, the plan is prepared and the
\* path chosen.  A record that the pending attempt committed resumes it.
Prepare(p, in) ==
  LET k == command[p]
      todo == Plan(k.held, in)
      index == TransitionIndex(Pending, k.held)
      next ==
        IF ~Admissible(k.held, in, Pending) THEN Idle
        ELSE IF Terminal(k.held) THEN PublishSettled(k)
        ELSE IF index # 0
          THEN [k EXCEPT !.attempt = RequestOf(k.held, in, k.held), !.todo = todo,
                         !.index = index, !.stage = "resume"]
        ELSE IF Pending = None /\ todo = <<>> THEN Idle
        ELSE [k EXCEPT !.attempt = RequestOf(k.held, in, Outcome(k.held, todo)),
                       !.todo = todo, !.stage = "reconcile"]
  IN  /\ At(p, "loaded")
      /\ Become(p, next)
      /\ UNCHANGED <<authority, journal, receipt, crashes>>

\* Mutant: the flag is set before the receipt is there.
FlagFirst(k, request) ==
  [k EXCEPT !.attempt = request, !.index = 0,
            !.stage = IF Terminal(k.held) THEN "mark"
                      ELSE IF k.todo = <<>> THEN "complete" ELSE "plan"]

\* Where a command goes on with the attempt that serves it.
Proceed(k, request) ==
  [k EXCEPT !.attempt = request, !.index = 0,
            !.stage = IF Terminal(k.held) THEN "receipt"
                      ELSE IF k.todo = <<>> THEN "complete" ELSE "plan"]

\* The attempt that was pending has been closed since, and a new one opened:
\* that is reconciled again, now for the candidate of the plan.
Renew(k) ==
  [k EXCEPT !.attempt = RequestOf(k.held, k.attempt.payload, Outcome(k.held, k.todo)),
            !.index = 0, !.stage = "reconcile"]

\* If the loaded record is the last one that the attempt planned, all that is
\* left is to close the attempt.  The position was read from the attempt that
\* was pending; the length is that of the attempt that serves the request.
Resume(p) ==
  LET k == command[p]
      outcome == ReconcileFinalizeAttempt(k.attempt)
  IN  /\ At(p, "resume")
      /\ \/ outcome = {} /\ Return(p) /\ UNCHANGED journal
         \/ \E found \in outcome :
              /\ journal' = found[2]
              /\ Become(p,
                   IF found[2] # journal THEN Renew(k)
                   ELSE IF \E i \in DOMAIN journal :
                             /\ journal[i].request = found[1]
                             /\ k.index = Len(journal[i].transitions)
                     THEN Proceed([k EXCEPT !.todo = <<>>], found[1])
                   ELSE Proceed(k, found[1]))
      /\ UNCHANGED <<authority, receipt, crashes>>

\* Any other command: a new attempt, or an exact replay from its entry.
Reconcile(p) ==
  LET k == command[p]
      outcome == IF Terminal(k.held) /\ Pending # None THEN {<<Pending.request, journal>>}
                                     ELSE ReconcileFinalizeAttempt(k.attempt)
  IN  /\ At(p, "reconcile")
      /\ \/ outcome = {} /\ Return(p) /\ UNCHANGED journal
         \/ \E found \in outcome :
              /\ journal' = found[2]
              /\ Become(p, Proceed(k, found[1]))
      /\ UNCHANGED <<authority, receipt, crashes>>

\* Mutant: commits start when the first transition is journaled.
FirstPlanned(k) == k.index = 1

\* Commits start when every transition of the plan is journaled.
AllPlanned(k) == k.index = Len(k.todo)

\* One planned transition is journaled.
PlanTransition(p) ==
  LET k == [command[p] EXCEPT !.index = @ + 1]
      from == IF k.index = 1 THEN k.held ELSE k.todo[k.index - 1]
  IN  /\ At(p, "plan")
      /\ journal' = Planned(k.attempt, from, k.todo[k.index])
      /\ Become(p, IF AllPlanned(k) THEN [k EXCEPT !.stage = "commit", !.index = 0] ELSE k)
      /\ UNCHANGED <<authority, receipt, crashes>>

\* ReplaceContext of the next planned state; a refusal ends the command and
\* leaves the attempt open.
Commit(p) ==
  LET k == command[p]
      to == Head(k.todo)
      rest == Tail(k.todo)
  IN  /\ At(p, "commit")
      /\ \/ /\ authority \in {k.held, to}
            /\ authority' = to
            /\ Become(p, [k EXCEPT
                 !.held = to, !.todo = rest,
                 !.stage = IF rest # <<>> THEN "commit"
                           ELSE IF Terminal(to) THEN "receipt" ELSE "complete"])
         \/ /\ authority \notin {k.held, to}
            /\ Return(p)
            /\ UNCHANGED authority
      /\ UNCHANGED <<journal, receipt, crashes>>

\* WriteReceipt: derived from the current record, and never overwritten.
PublishReceipt(p) ==
  /\ At(p, "receipt")
  /\ \/ /\ authority = command[p].held
        /\ receipt \in {None, authority}
        /\ receipt' = authority
        /\ Become(p, [command[p] EXCEPT !.stage = "inspect"])
     \/ /\ authority # command[p].held \/ receipt \notin {None, authority}
        /\ Return(p)
        /\ UNCHANGED receipt
  /\ UNCHANGED <<authority, journal, crashes>>

\* The receipt is read back without the lock.
InspectReceipt(p) ==
  /\ At(p, "inspect")
  /\ Become(p, IF receipt = command[p].held THEN [command[p] EXCEPT !.stage = "mark"]
                                            ELSE Idle)
  /\ UNCHANGED <<authority, journal, receipt, crashes>>

MarkReceiptPublished(p) ==
  /\ At(p, "mark")
  /\ journal' = MarkPublished(command[p].attempt)
  /\ Become(p, [command[p] EXCEPT !.stage = "complete"])
  /\ UNCHANGED <<authority, receipt, crashes>>

Complete(p) ==
  /\ At(p, "complete")
  /\ journal' = CompleteFinalizeAttempt(command[p].attempt)
  /\ Return(p)
  /\ UNCHANGED <<authority, receipt, crashes>>

Crash(p) ==
  /\ ~At(p, "idle")
  /\ crashes < MaxCrashes
  /\ crashes' = crashes + 1
  /\ Return(p)
  /\ UNCHANGED <<authority, journal, receipt>>

-----------------------------------------------------------------------------
(* Maintainer commands on the same record.  Each commits under a            *)
(* compare-and-swap of the record it read, so it acts on the current one.   *)
(* None of them looks at the journal.                                       *)

ReopenResults ==
  /\ authority.state = "validating" /\ ~authority.forecast /\ ~authority.fixed
  /\ authority.reopens < MaxReopens
  /\ receipt = None
  /\ authority' = [authority EXCEPT !.state = "reviewing", !.reopens = @ + 1]
  /\ UNCHANGED <<journal, receipt, command, crashes>>

DisposeResult ==
  /\ authority.state = "reviewing"
  /\ authority' = [authority EXCEPT !.state = "escalated", !.disposed = TRUE]
  /\ UNCHANGED <<journal, receipt, command, crashes>>

Invalidate ==
  /\ authority.state = "reviewing"
  /\ authority' = [authority EXCEPT !.state = "invalidated"]
  /\ UNCHANGED <<journal, receipt, command, crashes>>

\* A gate denied the approval: the record is invalidated and its receipt is
\* removed.  (CompactAuthority has a crash between the two.)
InvalidateApproved ==
  /\ authority.state = "approved"
  /\ receipt = authority
  /\ authority' = [authority EXCEPT !.state = "invalidated"]
  /\ receipt' = None
  /\ UNCHANGED <<journal, command, crashes>>

Work(p) ==
  \/ Resume(p) \/ Reconcile(p) \/ PlanTransition(p) \/ Commit(p)
  \/ PublishReceipt(p) \/ InspectReceipt(p) \/ MarkReceiptPublished(p) \/ Complete(p)

Next ==
  \/ \E p \in Process : \/ Load(p)
                       \/ \E in \in Payloads : Prepare(p, in)
                       \/ Work(p)
                       \/ Crash(p)
  \/ ReopenResults \/ DisposeResult \/ Invalidate \/ InvalidateApproved

Spec == Init /\ [][Next]_vars

\* The inputs that the status of a review asks its caller to pass: those of
\* the pending request, or none to publish the receipt of a settled record.
Replay(p) ==
  \/ Terminal(authority) /\ Prepare(p, Empty)
  \/ ~Terminal(authority) /\ Pending # None /\ Prepare(p, Pending.request.payload)

\* A running command proceeds, and callers follow the status.
FairSpec ==
  /\ Spec
  /\ \A p \in Process : WF_vars(Load(p)) /\ WF_vars(Work(p)) /\ SF_vars(Replay(p))

-----------------------------------------------------------------------------
(* Properties.                                                              *)

\* The record, the journal, the receipt and every command have their type.
TypeOK ==
  /\ authority \in Content
  /\ journal \in Seq(Attempt)
  /\ receipt \in Content \cup {None}
  /\ command \in [Process -> Command]
  /\ \A p \in Process : Len(command[p].todo) <= 2
  /\ crashes \in 0 .. MaxCrashes

\* Write-ahead: a record that FINALIZE committed is in the journal, whichever
\* command committed it and whatever crashed since.  Only a maintainer's
\* command commits a record that no attempt planned.
CommittedWasPlanned ==
  \/ authority.state \in {"reviewing", "invalidated"}
  \/ authority.disposed
  \/ \E i \in DOMAIN journal : \E j \in DOMAIN journal[i].transitions :
       journal[i].transitions[j].to = authority

\* However many commands run and crash, one request is open at a time: the
\* journal's "one unresolved request for this lineage".
OneOpenAttempt == Cardinality(Open) <= 1

\* A closed attempt left nothing undone: no revision that it planned to leave
\* is still the current one, and a settled record that it committed has its
\* receipt.
ClosedAttemptsAreDone ==
  \A i \in DOMAIN journal \ Open : \A j \in DOMAIN journal[i].transitions :
    LET transition == journal[i].transitions[j]
    IN  /\ authority # transition.from
        /\ Terminal(authority) /\ authority = transition.to => receipt = authority

\* The journal's flag of a published receipt follows the fact: the settled
\* record has its receipt, unless its approval was withdrawn since.
PublishedMeansReceipt ==
  (\E i \in DOMAIN journal : journal[i].published)
    => receipt = authority \/ authority.state = "invalidated"

\* Whether the pending request, run again now with its payload, is accepted.
ReplayAccepted ==
  \/ Terminal(authority)
  \/ LET in == Pending.request.payload
         outcome == IF TransitionIndex(Pending, authority) # 0 THEN authority
                    ELSE Outcome(authority, Plan(authority, in))
     IN  ReconcileFinalizeAttempt(RequestOf(authority, in, outcome)) # {}

\* Wherever a command dies, and whatever runs at the same time, replays of the
\* pending request close it as long as they are accepted.
OpenAttemptsConverge ==
  (Pending # None /\ ReplayAccepted) ~> (Pending = None \/ ~ReplayAccepted)

\* A settled record gets its receipt, whether FINALIZE settled it and died
\* before publishing, or a maintainer did.
SettledGetsReceipt == Terminal(authority) ~> receipt = authority

\* docs/review-integration.md:207 tells the caller of a pending attempt to run
\* it again with its original payload: a replay of it is accepted.
PendingReplayAccepted ==
  Pending # None /\ authority.state # "invalidated" => ReplayAccepted

=============================================================================
