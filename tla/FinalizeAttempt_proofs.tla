------------------------ MODULE FinalizeAttempt_proofs -----------------------
(***************************************************************************)
(* What FinalizeAttempt promises, for any number of commands, payloads,    *)
(* reopens and crashes.                                                    *)
(*                                                                         *)
(* IInv says of the journal that no two of its attempts answer the same    *)
(* request and no two are open; of the receipt that it is the one of the   *)
(* record; and of a command what it may rely on at its stage: that all it  *)
(* is about to commit is journaled, and that the receipt it is about to    *)
(* flag is there.  None of it is undone by another command, by a           *)
(* maintainer or by a crash, because the journal only grows and a settled  *)
(* record only loses its receipt when it is invalidated.                   *)
(***************************************************************************)
EXTENDS FinalizeAttempt, TLAPS, SequenceTheorems, FiniteSetTheorems

-----------------------------------------------------------------------------
(* The inductive invariant.                                                 *)

InProgress(c) == c.state \in {"reviewing", "correction_required", "validating"}

\* A plan leads on from a record in progress; only its last state is settled.
PlanSound(held, todo) ==
  /\ InProgress(held)
  /\ \A i \in DOMAIN todo :
       /\ todo[i].state # "invalidated"
       /\ Terminal(todo[i]) => i = Len(todo)

HasAttempt(request) == \E i \in DOMAIN journal : journal[i].request = request

Journaled(c) ==
  \E i \in DOMAIN journal : \E j \in DOMAIN journal[i].transitions :
    journal[i].transitions[j].to = c

\* The record is settled with its receipt, or was withdrawn.
Sealed == receipt = authority \/ authority.state = "invalidated"

JournalSound ==
  /\ \A i, j \in DOMAIN journal : journal[i].request = journal[j].request => i = j
  /\ \A i, j \in Open : i = j

ReceiptSound == receipt # None => receipt = authority /\ Terminal(authority)

Reconciling(k) == k.stage \in {"resume", "reconcile"} =>
  /\ k.attempt \in Request
  /\ ~Terminal(k.held) /\ k.todo # <<>> => PlanSound(k.held, k.todo)
  /\ k.stage = "resume" => ~Terminal(k.held)

Planning(k) == k.stage = "plan" =>
  /\ PlanSound(k.held, k.todo)
  /\ k.index < Len(k.todo)
  /\ HasAttempt(k.attempt)
  /\ \A i \in 1 .. k.index : Journaled(k.todo[i])

Committing(k) == k.stage = "commit" =>
  /\ PlanSound(k.held, k.todo)
  /\ k.todo # <<>>
  /\ \A i \in DOMAIN k.todo : Journaled(k.todo[i])

Publishing(k) ==
  /\ k.stage \in {"receipt", "inspect", "mark"} => Terminal(k.held)
  /\ k.stage = "mark" => Sealed

CommandSound(k) == Reconciling(k) /\ Planning(k) /\ Committing(k) /\ Publishing(k)

IInv ==
  /\ TypeOK
  /\ JournalSound
  /\ ReceiptSound
  /\ \A p \in Process : CommandSound(command[p])
  /\ CommittedWasPlanned
  /\ PublishedMeansReceipt

-----------------------------------------------------------------------------
(* Plans.                                                                   *)

\* A step moves a record in progress, and never invalidates it.
LEMMA StepFacts ==
  ASSUME NEW entry \in Content, NEW c \in Content, NEW in \in Payload
  PROVE  /\ Step(entry, c, in) \in Content
         /\ Step(entry, c, in) # c =>
              InProgress(c) /\ Step(entry, c, in).state # "invalidated"
<1> USE DEF Content, State, Payload, InProgress
<1>1. CASE c.state = "reviewing"
  BY <1>1 DEF Step
<1>2. CASE c.state = "correction_required" /\ ~c.forecast /\ in.forecast # "none"
  BY <1>2 DEF Step
<1>3. CASE /\ ~(c.state = "correction_required" /\ ~c.forecast /\ in.forecast # "none")
           /\ c.state = "correction_required" /\ in.fix # "none"
           /\ entry.state = "correction_required" /\ entry.forecast
  BY <1>3 DEF Step
<1>4. CASE c.state = "validating" /\ in.evidence # "none"
  BY <1>4 DEF Step
<1>5. CASE /\ c.state # "reviewing"
           /\ ~(c.state = "correction_required" /\ ~c.forecast /\ in.forecast # "none")
           /\ ~(/\ c.state = "correction_required" /\ in.fix # "none"
                /\ entry.state = "correction_required" /\ entry.forecast)
           /\ ~(c.state = "validating" /\ in.evidence # "none")
  BY <1>5 DEF Step
<1> QED
  BY <1>1, <1>2, <1>3, <1>4, <1>5

\* A plan has at most two transitions, each a step from the one before.
LEMMA PlanFacts ==
  ASSUME NEW held \in Content, NEW in \in Payload
  PROVE  /\ Plan(held, in) \in Seq(Content)
         /\ Len(Plan(held, in)) <= 2
         /\ Plan(held, in) # <<>> => PlanSound(held, Plan(held, in))
<1> DEFINE first == Step(held, held, in)
           second == Step(held, first, in)
<1>1. first \in Content /\ (first # held => InProgress(held) /\ first.state # "invalidated")
  BY StepFacts
<1>2. second \in Content /\ (second # first => InProgress(first) /\ second.state # "invalidated")
  BY <1>1, StepFacts
<1>3. /\ Plan(held, in) = IF first = held THEN <<>>
                          ELSE IF second = first THEN <<first>> ELSE <<first, second>>
  BY DEF Plan
<1> HIDE DEF first, second
<1>4. CASE first = held
  BY <1>3, <1>4
<1>5. CASE first # held /\ second = first
  BY <1>1, <1>3, <1>5 DEF PlanSound
<1>6. CASE first # held /\ second # first
  <2>1. ~Terminal(first)
    BY <1>2, <1>6 DEF InProgress, Terminal
  <2> QED
    BY <1>1, <1>2, <1>3, <1>6, <2>1 DEF PlanSound
<1> QED
  BY <1>4, <1>5, <1>6

\* The request that a plan asks for.
LEMMA RequestType ==
  ASSUME NEW held \in Content, NEW in \in Payload, NEW outcome \in Content
  PROVE  RequestOf(held, in, outcome) \in Request
  BY DEF RequestOf, Request, Content

\* The outcome of a plan is a record.
LEMMA OutcomeType ==
  ASSUME NEW held \in Content, NEW todo \in Seq(Content)
  PROVE  Outcome(held, todo) \in Content
  BY DEF Outcome

-----------------------------------------------------------------------------
(* The journal.                                                             *)

\* The attempt that is open, if there is one.
LEMMA PendingIsOpen ==
  ASSUME journal \in Seq(Attempt), JournalSound, Pending # None
  PROVE  \E i \in Open : Pending = journal[i]
<1>1. PICK i \in Open : Open = {i}
  BY DEF Pending, JournalSound
<1>2. i \in Nat
  BY DEF Open
<1>3. (CHOOSE k \in Open : \A j \in Open : j <= k) = i
  BY <1>1, <1>2
<1> QED
  BY <1>1, <1>3 DEF Pending

\* The pending attempt is in the journal, with a request.
LEMMA PendingFacts ==
  ASSUME journal \in Seq(Attempt), JournalSound, Pending # None
  PROVE  Pending.request \in Request /\ HasAttempt(Pending.request)
<1>1. PICK i \in Open : Pending = journal[i]
  BY PendingIsOpen
<1>2. i \in DOMAIN journal /\ journal[i] \in Attempt
  BY DEF Open
<1> QED
  BY <1>1, <1>2 DEF HasAttempt, Attempt

\* If no attempt decides on a request, no attempt is open or answers it.
LEMMA NoneDecides ==
  ASSUME journal \in Seq(Attempt), JournalSound, NEW request, Deciding(request) = {}
  PROVE  Open = {} /\ ~HasAttempt(request)
<1> DEFINE candidates == {i \in DOMAIN journal : i \in Open \/ journal[i].request = request}
<1>1. Deciding(request) = {i \in candidates : \A j \in candidates : i <= j}
  BY DEF Deciding
<1>2. \A i, j, k \in candidates : i = j \/ i = k \/ j = k
  BY DEF JournalSound
<1>3. candidates \subseteq Nat
  OBVIOUS
<1>4. candidates = {}
  <2> SUFFICES ASSUME NEW i \in candidates PROVE FALSE
    OBVIOUS
  <2>1. PICK j \in candidates : ~(i <= j)
    BY <1>1
  <2>2. PICK k \in candidates : ~(j <= k)
    BY <1>1
  <2> HIDE DEF candidates
  <2>3. k = i \/ k = j \/ i = j
    BY <1>2
  <2> QED
    BY <1>3, <2>1, <2>2, <2>3
<1> QED
  BY <1>4 DEF HasAttempt, Open

\* What was journaled stays journaled.
JournalKept ==
  /\ \A r : HasAttempt(r) => HasAttempt(r)'
  /\ \A c : Journaled(c) => Journaled(c)'

\* A journal changes attempt by attempt: an attempt keeps its request and its
\* transitions and is never opened again.
AttemptGrows(a, b) ==
  /\ b \in Attempt
  /\ b.request = a.request
  /\ a.completed => b.completed
  /\ \A j \in DOMAIN a.transitions :
       j \in DOMAIN b.transitions /\ b.transitions[j] = a.transitions[j]

\* An update of the journal in which every attempt only grows keeps it sound.
LEMMA UpdateKeeps ==
  ASSUME journal \in Seq(Attempt), JournalSound,
         journal' = [i \in DOMAIN journal |-> journal'[i]],
         \A i \in DOMAIN journal : AttemptGrows(journal[i], journal'[i])
  PROVE  journal' \in Seq(Attempt) /\ JournalSound' /\ JournalKept
<1>1. DOMAIN journal' = DOMAIN journal
  OBVIOUS
<1>2. journal' \in Seq(Attempt)
  <2>1. Len(journal) \in Nat /\ DOMAIN journal = 1 .. Len(journal)
    OBVIOUS
  <2>2. \A i \in 1 .. Len(journal) : journal'[i] \in Attempt
    BY <2>1 DEF AttemptGrows
  <2>3. journal' \in [1 .. Len(journal) -> Attempt]
    BY <2>1, <2>2
  <2> QED
    BY <2>1, <2>3, SeqDef
<1>3. JournalSound'
  BY <1>1 DEF JournalSound, Open, AttemptGrows, Attempt
<1>4. JournalKept
  BY <1>1 DEF JournalKept, HasAttempt, Journaled, AttemptGrows
<1> QED
  BY <1>2, <1>3, <1>4

\* A new attempt is opened when no other one is.
LEMMA AppendKeeps ==
  ASSUME journal \in Seq(Attempt), JournalSound, NEW a \in Attempt,
         Open = {}, ~HasAttempt(a.request), journal' = Append(journal, a)
  PROVE  journal' \in Seq(Attempt) /\ JournalSound' /\ JournalKept
<1>1. /\ journal' \in Seq(Attempt) /\ Len(journal') = Len(journal) + 1
      /\ journal'[Len(journal) + 1] = a
      /\ \A i \in DOMAIN journal : i \in DOMAIN journal' /\ journal'[i] = journal[i]
      /\ \A i \in DOMAIN journal' : i \in DOMAIN journal \/ i = Len(journal) + 1
  OBVIOUS
<1>2. JournalSound'
  BY <1>1 DEF JournalSound, Open, HasAttempt
<1>3. JournalKept
  BY <1>1 DEF JournalKept, HasAttempt, Journaled
<1> QED
  BY <1>1, <1>2, <1>3

\* What ReconcileFinalizeAttempt returns.
LEMMA ReconcileKeeps ==
  ASSUME journal \in Seq(Attempt), JournalSound, NEW request \in Request,
         NEW found \in ReconcileFinalizeAttempt(request), journal' = found[2]
  PROVE  /\ journal' \in Seq(Attempt) /\ JournalSound' /\ JournalKept
         /\ found[1] \in Request /\ HasAttempt(found[1])'
         /\ (\E i \in DOMAIN journal' : journal'[i].published)
              => \E i \in DOMAIN journal : journal[i].published
<1>1. CASE Deciding(request) = {}
  <2> DEFINE a == [request |-> request, transitions |-> <<>>,
                   published |-> FALSE, completed |-> FALSE]
  <2>1. a \in Attempt /\ a.request = request /\ ~a.published
    BY DEF Attempt
  <2>2. found = <<request, Append(journal, a)>>
    BY <1>1 DEF ReconcileFinalizeAttempt
  <2>3. found[1] = request /\ journal' = Append(journal, a)
    BY <2>2
  <2> HIDE DEF a
  <2>4. Open = {} /\ ~HasAttempt(request)
    BY <1>1, NoneDecides
  <2>5. journal' \in Seq(Attempt) /\ JournalSound' /\ JournalKept
    BY <2>1, <2>3, <2>4, AppendKeeps
  <2>6. /\ journal'[Len(journal) + 1] = a /\ Len(journal) + 1 \in DOMAIN journal'
        /\ \A i \in DOMAIN journal' :
             i = Len(journal) + 1 \/ (i \in DOMAIN journal /\ journal'[i] = journal[i])
    BY <2>1, <2>3
  <2> QED
    BY <2>1, <2>3, <2>5, <2>6 DEF HasAttempt
<1>2. CASE Deciding(request) # {}
  <2>1. PICK i \in Deciding(request) : found = <<journal[i].request, journal>>
    BY <1>2 DEF ReconcileFinalizeAttempt
  <2>2. i \in DOMAIN journal /\ journal[i] \in Attempt
    BY DEF Deciding
  <2>3. found[1] = journal[i].request /\ journal' = journal
    BY <2>1
  <2>4. JournalSound' /\ JournalKept
    BY <2>3 DEF JournalSound, JournalKept, HasAttempt, Journaled, Open
  <2> QED
    BY <2>2, <2>3, <2>4 DEF HasAttempt, Attempt
<1> QED
  BY <1>1, <1>2

\* A transition is journaled in the attempt that plans it.
LEMMA PlannedKeeps ==
  ASSUME journal \in Seq(Attempt), JournalSound, NEW request, HasAttempt(request),
         NEW from \in Content, NEW to \in Content, journal' = Planned(request, from, to)
  PROVE  /\ journal' \in Seq(Attempt) /\ JournalSound' /\ JournalKept
         /\ Journaled(to)'
         /\ (\E i \in DOMAIN journal' : journal'[i].published)
              => \E i \in DOMAIN journal : journal[i].published
<1> DEFINE t == [from |-> from, to |-> to]
           record(a) == IF \E i \in DOMAIN a.transitions : a.transitions[i] = t
                          THEN a
                          ELSE [a EXCEPT !.transitions = Append(@, t)]
<1>1. journal' = [i \in DOMAIN journal |->
                    IF journal[i].request = request THEN record(journal[i]) ELSE journal[i]]
  BY DEF Planned, Update
<1>2. t \in Transition /\ t.to = to
  BY DEF Transition
<1> HIDE DEF t
<1>3. ASSUME NEW a \in Attempt
      PROVE  /\ AttemptGrows(a, record(a)) /\ AttemptGrows(a, a)
             /\ record(a).published = a.published
             /\ \E j \in DOMAIN record(a).transitions : record(a).transitions[j] = t
  <2>1. CASE \E i \in DOMAIN a.transitions : a.transitions[i] = t
    BY <2>1 DEF AttemptGrows
  <2>2. CASE ~\E i \in DOMAIN a.transitions : a.transitions[i] = t
    <3> DEFINE longer == Append(a.transitions, t)
    <3>1. a.transitions \in Seq(Transition)
      BY DEF Attempt
    <3>2. /\ longer \in Seq(Transition) /\ Len(longer) = Len(a.transitions) + 1
          /\ longer[Len(a.transitions) + 1] = t
          /\ \A j \in DOMAIN a.transitions :
               j \in DOMAIN longer /\ longer[j] = a.transitions[j]
      BY <1>2, <3>1
    <3>3. Len(a.transitions) + 1 \in DOMAIN longer
      BY <3>1, <3>2
    <3> HIDE DEF longer
    <3>4. record(a) = [a EXCEPT !.transitions = longer]
      BY <2>2 DEF longer
    <3>5. /\ record(a) \in Attempt /\ record(a).transitions = longer
          /\ record(a).request = a.request /\ record(a).completed = a.completed
          /\ record(a).published = a.published
      BY <3>2, <3>4 DEF Attempt
    <3> HIDE DEF record
    <3> QED
      BY <3>2, <3>3, <3>5 DEF AttemptGrows
  <2> QED
    BY <2>1, <2>2
<1> HIDE DEF record
<1>4. \A i \in DOMAIN journal : /\ AttemptGrows(journal[i], journal'[i])
                                /\ journal'[i].published = journal[i].published
  BY <1>1, <1>3
<1>5. journal' \in Seq(Attempt) /\ JournalSound' /\ JournalKept
  BY <1>1, <1>4, UpdateKeeps
<1>6. Journaled(to)'
  <2>1. PICK i \in DOMAIN journal : journal[i].request = request
    BY DEF HasAttempt
  <2>2. i \in DOMAIN journal' /\ journal'[i] = record(journal[i])
    BY <1>1, <2>1
  <2>3. \E j \in DOMAIN journal'[i].transitions : journal'[i].transitions[j] = t
    BY <1>3, <2>2
  <2> QED
    BY <1>2, <2>2, <2>3 DEF Journaled
<1> QED
  BY <1>1, <1>4, <1>5, <1>6

\* The flag of an attempt is set, and an attempt is closed.
LEMMA MarkKeeps ==
  ASSUME journal \in Seq(Attempt), JournalSound, NEW request,
         journal' = MarkPublished(request)
  PROVE  journal' \in Seq(Attempt) /\ JournalSound' /\ JournalKept
<1> DEFINE mark(a) == [a EXCEPT !.published = TRUE]
<1>1. journal' = [i \in DOMAIN journal |->
                    IF journal[i].request = request THEN mark(journal[i]) ELSE journal[i]]
  BY DEF MarkPublished, Update
<1>2. \A a \in Attempt : AttemptGrows(a, mark(a)) /\ AttemptGrows(a, a)
  BY DEF AttemptGrows, Attempt
<1> HIDE DEF mark
<1>3. \A i \in DOMAIN journal : AttemptGrows(journal[i], journal'[i])
  BY <1>1, <1>2
<1> QED
  BY <1>1, <1>3, UpdateKeeps

\* The completion of an attempt keeps the journal sound.
LEMMA CompleteKeeps ==
  ASSUME journal \in Seq(Attempt), JournalSound, NEW request,
         journal' = CompleteFinalizeAttempt(request)
  PROVE  /\ journal' \in Seq(Attempt) /\ JournalSound' /\ JournalKept
         /\ (\E i \in DOMAIN journal' : journal'[i].published)
              => \E i \in DOMAIN journal : journal[i].published
<1> DEFINE close(a) == [a EXCEPT !.completed = TRUE]
<1>1. journal' = [i \in DOMAIN journal |->
                    IF journal[i].request = request THEN close(journal[i]) ELSE journal[i]]
  BY DEF CompleteFinalizeAttempt, Update
<1>2. \A a \in Attempt : /\ AttemptGrows(a, close(a))
                         /\ AttemptGrows(a, a)
                         /\ close(a).published = a.published
  BY DEF AttemptGrows, Attempt
<1> HIDE DEF close
<1>3. \A i \in DOMAIN journal : /\ AttemptGrows(journal[i], journal'[i])
                                /\ journal'[i].published = journal[i].published
  BY <1>1, <1>2
<1> QED
  BY <1>1, <1>3, UpdateKeeps

\* A journal that stays is sound.
LEMMA SameJournal ==
  ASSUME journal \in Seq(Attempt), JournalSound, journal' = journal
  PROVE  journal' \in Seq(Attempt) /\ JournalSound' /\ JournalKept
  BY DEF JournalSound, Open, JournalKept, HasAttempt, Journaled

-----------------------------------------------------------------------------
(* The steps of a command.                                                  *)

\* What a command relies on outlives the steps of others.
LEMMA CommandOutlives ==
  ASSUME NEW c, CommandSound(c), JournalKept, Sealed => Sealed'
  PROVE  CommandSound(c)'
  BY DEF CommandSound, Reconciling, Planning, Committing, Publishing, JournalKept

\* A step of one command keeps what the others rely on.
LEMMA CommandsKept ==
  ASSUME NEW p \in Process, NEW k \in Command, command \in [Process -> Command],
         \A q \in Process : Len(command[q].todo) <= 2 /\ CommandSound(command[q]),
         command' = [command EXCEPT ![p] = k], Len(k.todo) <= 2, CommandSound(k)',
         JournalKept, Sealed => Sealed'
  PROVE  /\ command' \in [Process -> Command]
         /\ (\A q \in Process : Len(command[q].todo) <= 2 /\ CommandSound(command[q]))'
<1>1. command' \in [Process -> Command]
  OBVIOUS
<1>2. ASSUME NEW q \in Process, q # p
      PROVE  command'[q] = command[q]
  BY <1>2
<1>3. command'[p] = k
  OBVIOUS
<1>4. ASSUME NEW q \in Process
      PROVE  (Len(command[q].todo) <= 2 /\ CommandSound(command[q]))'
  <2>1. CASE q = p
    <3>1. PICK c : c = command'[q]
      OBVIOUS
    <3>2. c = k
      BY <1>3, <2>1, <3>1
    <3>3. CommandSound(c)'
      BY <3>2
    <3> QED
      BY <3>1, <3>2, <3>3 DEF CommandSound, Reconciling, Planning, Committing, Publishing
  <2>2. CASE q # p
    <3>1. PICK c : c = command[q]
      OBVIOUS
    <3>2. CommandSound(c)'
      BY <3>1, CommandOutlives
    <3>3. command'[q] = c
      BY <1>2, <2>2, <3>1
    <3> QED
      BY <3>1, <3>2, <3>3 DEF CommandSound, Reconciling, Planning, Committing, Publishing
  <2> QED
    BY <2>1, <2>2
<1> QED
  BY <1>1, <1>4

\* A step that only moves the journal and one command.
LEMMA JournalStep ==
  ASSUME IInv, NEW p \in Process, NEW k \in Command,
         command' = [command EXCEPT ![p] = k], Len(k.todo) <= 2, CommandSound(k)',
         UNCHANGED <<authority, receipt>>, crashes' \in 0 .. MaxCrashes,
         journal' \in Seq(Attempt), JournalSound', JournalKept,
         (\E i \in DOMAIN journal' : journal'[i].published)
           => Sealed \/ \E i \in DOMAIN journal : journal[i].published
  PROVE  IInv'
<1> USE DEF IInv
<1>1. Sealed => Sealed'
  BY DEF Sealed
<1>2. /\ command' \in [Process -> Command]
      /\ (\A q \in Process : Len(command[q].todo) <= 2 /\ CommandSound(command[q]))'
  BY <1>1, CommandsKept DEF TypeOK
<1>3. TypeOK'
  BY <1>2 DEF TypeOK
<1>4. ReceiptSound'
  BY DEF ReceiptSound
<1>5. CommittedWasPlanned'
  BY DEF CommittedWasPlanned, JournalKept, Journaled
<1>6. PublishedMeansReceipt'
  BY DEF PublishedMeansReceipt, Sealed
<1> QED
  BY <1>2, <1>3, <1>4, <1>5, <1>6

\* A set of numbers has a least one.
LEMMA SmallestExists ==
  ASSUME NEW S \in SUBSET Nat, S # {}
  PROVE  \E i \in S : \A j \in S : i <= j
<1> DEFINE less == {ss \in Nat \X Nat : ss[1] < ss[2]}
<1>1. less = OpToRel(<, Nat)
  BY DEF OpToRel
<1>2. IsWellFoundedOn(less, Nat)
  BY <1>1, NatLessThanWellFounded
<1>3. PICK i \in S : \A j \in S : <<j, i>> \notin less
  BY <1>2, WFMin
<1>4. ASSUME NEW j \in S
      PROVE  i <= j
  <2>1. i \in Nat /\ j \in Nat /\ <<j, i>> \notin less
    BY <1>3
  <2> QED
    BY <2>1
<1> QED
  BY <1>4

\* What is known of the command at hand.
LEMMA AtCommand ==
  ASSUME IInv, NEW p \in Process
  PROVE  /\ command[p] \in Command /\ Len(command[p].todo) <= 2
         /\ CommandSound(command[p])
         /\ authority \in Content /\ journal \in Seq(Attempt) /\ JournalSound
         /\ crashes \in 0 .. MaxCrashes
  BY DEF IInv, TypeOK

\* An idle command has its type.
LEMMA IdleFacts == Idle \in Command /\ Len(Idle.todo) <= 2 /\ Idle.stage = "idle"
  BY BoundAssumption DEF Idle, Command, Stage, Fresh, Content, State

\* A stage that relies on nothing.
LEMMA FreeStage ==
  ASSUME NEW k, k.stage \in {"idle", "loaded", "complete"}
  PROVE  CommandSound(k)'
  BY DEF CommandSound, Reconciling, Planning, Committing, Publishing

\* The load of the record keeps the invariant.
LEMMA LoadKeeps ==
  ASSUME IInv, NEW p \in Process, Load(p)
  PROVE  IInv'
<1>1. PICK k : k = [Idle EXCEPT !.stage = "loaded", !.held = authority]
  OBVIOUS
<1>2. k \in Command /\ k.stage = "loaded" /\ Len(k.todo) <= 2
  BY <1>1, AtCommand, IdleFacts DEF Command, Stage
<1>3. CommandSound(k)'
  BY <1>2, FreeStage
<1>4. command' = [command EXCEPT ![p] = k]
  BY <1>1 DEF Load, Become
<1>5. UNCHANGED <<authority, journal, receipt, crashes>>
  BY DEF Load
<1> QED
  BY <1>2, <1>3, <1>4, <1>5, AtCommand, SameJournal, JournalStep

\* A command returns, or dies.
LEMMA ReturnKeeps ==
  ASSUME IInv, NEW p \in Process, Return(p), UNCHANGED <<authority, journal, receipt>>,
         crashes' \in 0 .. MaxCrashes
  PROVE  IInv'
<1>1. PICK k : k = Idle
  OBVIOUS
<1>2. k \in Command /\ Len(k.todo) <= 2 /\ CommandSound(k)'
  BY <1>1, IdleFacts, FreeStage
<1>3. command' = [command EXCEPT ![p] = k]
  BY <1>1 DEF Return, Become
<1> QED
  BY <1>2, <1>3, AtCommand, SameJournal, JournalStep

\* The preparation of an attempt keeps the invariant.
LEMMA PrepareKeeps ==
  ASSUME IInv, NEW p \in Process, NEW in \in Payloads, Prepare(p, in)
  PROVE  IInv'
<1>1. PICK k : k = command[p]
  OBVIOUS
<1>2. k \in Command /\ k.stage = "loaded" /\ k.held \in Content /\ Len(k.todo) <= 2
  BY <1>1, AtCommand DEF Prepare, At, Command
<1>3. in \in Payload /\ Empty \in Payload
  BY PayloadAssumption
<1> DEFINE todo == Plan(k.held, in)
           index == TransitionIndex(Pending, k.held)
           resumed == [k EXCEPT !.attempt = RequestOf(k.held, in, k.held), !.todo = todo,
                                !.index = index, !.stage = "resume"]
           planned == [k EXCEPT !.attempt = RequestOf(k.held, in, Outcome(k.held, todo)),
                                !.todo = todo, !.stage = "reconcile"]
<1>4. PICK n : /\ command' = [command EXCEPT ![p] = n]
               /\ \/ n = Idle
                  \/ Terminal(k.held) /\ n = PublishSettled(k)
                  \/ ~Terminal(k.held) /\ index # 0 /\ n = resumed
                  \/ n = planned
  BY <1>1 DEF Prepare, Become
<1>5. /\ todo \in Seq(Content) /\ Len(todo) <= 2
      /\ todo # <<>> => PlanSound(k.held, todo)
  BY <1>2, <1>3, PlanFacts
<1>6. n \in Command /\ Len(n.todo) <= 2 /\ CommandSound(n)'
  <2>1. CASE n = Idle
    BY <2>1, IdleFacts, FreeStage
  <2>2. CASE Terminal(k.held) /\ n = PublishSettled(k)
    <3>1. CASE Pending # None
      <4>1. Pending.request \in Request
        BY <3>1, AtCommand, PendingFacts
      <4>2. n = [k EXCEPT !.attempt = Pending.request,
                          !.stage = IF receipt # None THEN "complete" ELSE "receipt"]
        BY <2>2, <3>1 DEF PublishSettled
      <4>3. /\ n \in Command /\ n.held = k.held /\ n.todo = k.todo
            /\ n.stage \in {"complete", "receipt"}
        BY <1>2, <4>1, <4>2 DEF Command, Stage
      <4> QED
        BY <1>2, <2>2, <4>3 DEF CommandSound, Reconciling, Planning, Committing, Publishing
    <3>2. CASE Pending = None /\ receipt # None
      BY <2>2, <3>2, IdleFacts, FreeStage DEF PublishSettled
    <3>3. CASE Pending = None /\ receipt = None
      <4>1. PICK r \in Request : r = RequestOf(k.held, Empty, k.held)
        BY <1>2, <1>3, RequestType
      <4>2. n = [k EXCEPT !.attempt = r, !.stage = "reconcile"]
        BY <2>2, <3>3, <4>1 DEF PublishSettled
      <4>3. /\ n \in Command /\ n.held = k.held /\ n.todo = k.todo
            /\ n.stage = "reconcile" /\ n.attempt = r
        BY <1>2, <4>2 DEF Command, Stage
      <4> QED
        BY <1>2, <2>2, <4>3 DEF CommandSound, Reconciling, Planning, Committing, Publishing
    <3> QED
      BY <3>1, <3>2, <3>3
  <2>3. CASE ~Terminal(k.held) /\ index # 0 /\ n = resumed
    <3>1. PICK r \in Request : r = RequestOf(k.held, in, k.held)
      BY <1>2, <1>3, RequestType
    <3>2. index \in Nat
      <4>1. Pending # None
        BY <2>3 DEF TransitionIndex
      <4>2. PICK i \in Open : Pending = journal[i]
        BY <4>1, AtCommand, PendingIsOpen
      <4>3. Pending.transitions \in Seq(Transition)
        <5>1. i \in DOMAIN journal /\ journal[i] \in Attempt
          BY <4>2, AtCommand DEF Open
        <5> QED
          BY <4>2, <5>1 DEF Attempt
      <4> DEFINE hits == {m \in DOMAIN Pending.transitions : Pending.transitions[m].to = k.held}
      <4>4. hits # {} /\ index = CHOOSE m \in hits : \A j \in hits : m <= j
        BY <2>3, <4>1 DEF TransitionIndex
      <4>5. hits \subseteq Nat
        BY <4>3
      <4> HIDE DEF hits
      <4>6. \E m \in hits : \A j \in hits : m <= j
        BY <4>4, <4>5, SmallestExists
      <4> QED
        BY <4>4, <4>5, <4>6
    <3>3. PICK t \in Seq(Content) : t = todo
      BY <1>5
    <3> HIDE DEF index, todo
    <3>4. n = [k EXCEPT !.attempt = r, !.todo = t, !.index = index, !.stage = "resume"]
      BY <2>3, <3>1, <3>3
    <3>5. /\ n \in Command /\ n.held = k.held /\ n.todo = t
          /\ n.stage = "resume" /\ n.attempt = r
      BY <1>2, <3>2, <3>4 DEF Command, Stage
    <3> QED
      BY <1>2, <1>5, <2>3, <3>3, <3>5
      DEF CommandSound, Reconciling, Planning, Committing, Publishing, PlanSound
  <2>4. CASE n = planned
    <3>1. PICK t \in Seq(Content) : t = todo
      BY <1>5
    <3>2. PICK r \in Request : r = RequestOf(k.held, in, Outcome(k.held, todo))
      BY <1>2, <1>3, <1>5, OutcomeType, RequestType
    <3> HIDE DEF todo
    <3>3. n = [k EXCEPT !.attempt = r, !.todo = t, !.stage = "reconcile"]
      BY <2>4, <3>1, <3>2
    <3>4. /\ n \in Command /\ n.held = k.held /\ n.todo = t
          /\ n.stage = "reconcile" /\ n.attempt = r
      BY <1>2, <3>3 DEF Command, Stage
    <3> QED
      BY <1>2, <1>5, <3>1, <3>4
      DEF CommandSound, Reconciling, Planning, Committing, Publishing, PlanSound
  <2> QED
    BY <1>4, <2>1, <2>2, <2>3, <2>4
<1>7. UNCHANGED <<authority, journal, receipt, crashes>>
  BY DEF Prepare
<1> QED
  BY <1>4, <1>6, <1>7, AtCommand, SameJournal, JournalStep

\* A command goes on with an attempt that the journal holds.
LEMMA ProceedSound ==
  ASSUME NEW k \in Command, Len(k.todo) <= 2,
         ~Terminal(k.held) /\ k.todo # <<>> => PlanSound(k.held, k.todo),
         NEW request \in Request, HasAttempt(request)', NEW n, n = Proceed(k, request)
  PROVE  n \in Command /\ Len(n.todo) <= 2 /\ CommandSound(n)'
<1> DEFINE stage == IF Terminal(k.held) THEN "receipt"
                    ELSE IF k.todo = <<>> THEN "complete" ELSE "plan"
<1>1. PICK s : s = stage
  OBVIOUS
<1>2. PICK z \in Nat : z = 0 /\ n = [k EXCEPT !.attempt = request, !.index = z, !.stage = s]
  BY <1>1 DEF Proceed
<1>3. /\ s \in {"receipt", "complete", "plan"}
      /\ s = "receipt" => Terminal(k.held)
      /\ s = "plan" => k.todo # <<>> /\ PlanSound(k.held, k.todo)
  BY <1>1
<1> HIDE DEF stage
<1>4. /\ n \in Command /\ n.held = k.held /\ n.todo = k.todo
      /\ n.stage = s /\ n.attempt = request /\ n.index = 0
  BY <1>2, <1>3 DEF Command, Stage
<1>5. k.todo # <<>> => 0 < Len(k.todo)
  BY DEF Command
<1> QED
  BY <1>3, <1>4, <1>5 DEF CommandSound, Reconciling, Planning, Committing, Publishing

\* The resumption of a pending attempt keeps the invariant.
LEMMA ResumeKeeps ==
  ASSUME IInv, NEW p \in Process, Resume(p)
  PROVE  IInv'
<1>1. PICK k : k = command[p]
  OBVIOUS
<1>2. /\ k \in Command /\ k.stage = "resume" /\ k.attempt \in Request /\ Len(k.todo) <= 2
      /\ ~Terminal(k.held) /\ k.todo # <<>> => PlanSound(k.held, k.todo)
  BY <1>1, AtCommand DEF Resume, At, CommandSound, Reconciling
<1>3. UNCHANGED <<authority, receipt, crashes>>
  BY DEF Resume
<1>4. CASE Return(p) /\ UNCHANGED journal
  BY <1>3, <1>4, AtCommand, ReturnKeeps
<1>5. ASSUME NEW found \in ReconcileFinalizeAttempt(k.attempt), journal' = found[2],
             \/ Become(p, Proceed([k EXCEPT !.todo = <<>>], found[1]))
             \/ Become(p, Proceed(k, found[1]))
      PROVE  IInv'
  <2>1. PICK m : /\ m = k \/ m = [k EXCEPT !.todo = <<>>]
                 /\ Become(p, Proceed(m, found[1]))
    BY <1>5
  <2>2. /\ m \in Command /\ Len(m.todo) <= 2
        /\ ~Terminal(m.held) /\ m.todo # <<>> => PlanSound(m.held, m.todo)
    <3>1. CASE m = k
      BY <1>2, <3>1
    <3>2. CASE m = [k EXCEPT !.todo = <<>>]
      <4>1. PICK none \in Seq(Content) : none = <<>>
        BY EmptySeq
      <4>2. m = [k EXCEPT !.todo = none]
        BY <3>2, <4>1
      <4>3. m \in Command /\ m.todo = none
        BY <1>2, <4>2 DEF Command
      <4> QED
        BY <4>1, <4>3
    <3> QED
      BY <2>1, <3>1, <3>2
  <2>3. /\ journal' \in Seq(Attempt) /\ JournalSound' /\ JournalKept
        /\ found[1] \in Request /\ HasAttempt(found[1])'
        /\ (\E i \in DOMAIN journal' : journal'[i].published)
             => \E i \in DOMAIN journal : journal[i].published
    BY <1>2, <1>5, AtCommand, ReconcileKeeps
  <2>4. PICK n : n = Proceed(m, found[1])
    OBVIOUS
  <2>5. n \in Command /\ Len(n.todo) <= 2 /\ CommandSound(n)'
    BY <2>2, <2>3, <2>4, ProceedSound
  <2>6. command' = [command EXCEPT ![p] = n]
    BY <2>1, <2>4 DEF Become
  <2> QED
    BY <1>3, <2>3, <2>5, <2>6, AtCommand, JournalStep
<1>6. ASSUME NEW found \in ReconcileFinalizeAttempt(k.attempt), journal' = found[2],
             Become(p, Renew(k))
      PROVE  IInv'
  <2>1. PICK r \in Request : r = RequestOf(k.held, k.attempt.payload, Outcome(k.held, k.todo))
    BY <1>2, OutcomeType, RequestType DEF Command, Request
  <2>2. PICK z \in Nat : z = 0
    OBVIOUS
  <2>3. PICK n : n = [k EXCEPT !.attempt = r, !.index = z, !.stage = "reconcile"]
    OBVIOUS
  <2>4. command' = [command EXCEPT ![p] = n]
    BY <1>6, <2>1, <2>2, <2>3 DEF Become, Renew
  <2>5. /\ n \in Command /\ n.held = k.held /\ n.todo = k.todo
        /\ n.stage = "reconcile" /\ n.attempt = r
    BY <1>2, <2>3 DEF Command, Stage
  <2>6. CommandSound(n)'
    BY <1>2, <2>5
    DEF CommandSound, Reconciling, Planning, Committing, Publishing, PlanSound
  <2>7. /\ journal' \in Seq(Attempt) /\ JournalSound' /\ JournalKept
        /\ (\E i \in DOMAIN journal' : journal'[i].published)
             => \E i \in DOMAIN journal : journal[i].published
    BY <1>2, <1>6, AtCommand, ReconcileKeeps
  <2> QED
    BY <1>2, <1>3, <2>4, <2>5, <2>6, <2>7, AtCommand, JournalStep
<1>7. CASE \E found \in ReconcileFinalizeAttempt(k.attempt) :
             /\ journal' = found[2]
             /\ \/ Become(p, Renew(k))
                \/ Become(p, Proceed([k EXCEPT !.todo = <<>>], found[1]))
                \/ Become(p, Proceed(k, found[1]))
  BY <1>5, <1>6, <1>7
<1>8. (Return(p) /\ UNCHANGED journal)
      \/ \E found \in ReconcileFinalizeAttempt(k.attempt) :
           /\ journal' = found[2]
           /\ \/ Become(p, Renew(k))
              \/ Become(p, Proceed([k EXCEPT !.todo = <<>>], found[1]))
              \/ Become(p, Proceed(k, found[1]))
  BY <1>1 DEF Resume
<1> QED
  BY <1>4, <1>7, <1>8

\* The reconciliation of an attempt keeps the invariant.
LEMMA ReconcilesKeep ==
  ASSUME IInv, NEW p \in Process, Reconcile(p)
  PROVE  IInv'
<1>1. PICK k : k = command[p]
  OBVIOUS
<1>2. /\ k \in Command /\ k.stage = "reconcile" /\ k.attempt \in Request /\ Len(k.todo) <= 2
      /\ ~Terminal(k.held) /\ k.todo # <<>> => PlanSound(k.held, k.todo)
  BY <1>1, AtCommand DEF Reconcile, At, CommandSound, Reconciling
<1>3. UNCHANGED <<authority, receipt, crashes>>
  BY DEF Reconcile
<1>4. CASE Return(p) /\ UNCHANGED journal
  BY <1>3, <1>4, AtCommand, ReturnKeeps
<1>5. ASSUME NEW request, Become(p, Proceed(k, request)),
             request \in Request, HasAttempt(request)',
             journal' \in Seq(Attempt), JournalSound', JournalKept,
             (\E i \in DOMAIN journal' : journal'[i].published)
               => \E i \in DOMAIN journal : journal[i].published
      PROVE  IInv'
  <2>1. PICK n : n = Proceed(k, request)
    OBVIOUS
  <2>2. n \in Command /\ Len(n.todo) <= 2 /\ CommandSound(n)'
    BY <1>2, <1>5, <2>1, ProceedSound
  <2>3. command' = [command EXCEPT ![p] = n]
    BY <1>5, <2>1 DEF Become
  <2> QED
    BY <1>3, <1>5, <2>2, <2>3, AtCommand, JournalStep
<1>6. ASSUME NEW found \in ReconcileFinalizeAttempt(k.attempt), journal' = found[2],
             Become(p, Proceed(k, found[1]))
      PROVE  IInv'
  <2>1. PICK request : request = found[1]
    OBVIOUS
  <2>2. /\ journal' \in Seq(Attempt) /\ JournalSound' /\ JournalKept
        /\ request \in Request /\ HasAttempt(request)'
        /\ (\E i \in DOMAIN journal' : journal'[i].published)
             => \E i \in DOMAIN journal : journal[i].published
    BY <1>2, <1>6, <2>1, AtCommand, ReconcileKeeps DEF HasAttempt
  <2> QED
    BY <1>5, <1>6, <2>1, <2>2
<1>7. ASSUME Pending # None, journal' = journal, Become(p, Proceed(k, Pending.request))
      PROVE  IInv'
  <2>1. PICK request : request = Pending.request
    OBVIOUS
  <2>2. request \in Request /\ HasAttempt(request)
    BY <1>7, <2>1, AtCommand, PendingFacts DEF HasAttempt
  <2>3. journal' \in Seq(Attempt) /\ JournalSound' /\ JournalKept
    BY <1>7, AtCommand, SameJournal
  <2> QED
    BY <1>5, <1>7, <2>1, <2>2, <2>3 DEF HasAttempt
<1>8. CASE Terminal(k.held) /\ Pending # None
  <2>1. PICK found \in {<<Pending.request, journal>>} :
          \/ journal' = found[2] /\ Become(p, Proceed(k, found[1]))
          \/ Return(p) /\ UNCHANGED journal
    BY <1>1, <1>8 DEF Reconcile
  <2> QED
    BY <1>4, <1>7, <1>8, <2>1
<1>9. CASE ~(Terminal(k.held) /\ Pending # None)
  BY <1>1, <1>4, <1>6, <1>9 DEF Reconcile
<1> QED
  BY <1>8, <1>9

\* The planning of a transition keeps the invariant.
LEMMA PlanTransitionKeeps ==
  ASSUME IInv, NEW p \in Process, PlanTransition(p)
  PROVE  IInv'
<1>1. PICK c : c = command[p]
  OBVIOUS
<1>2. /\ c \in Command /\ c.stage = "plan" /\ Len(c.todo) <= 2
      /\ PlanSound(c.held, c.todo) /\ c.index < Len(c.todo) /\ HasAttempt(c.attempt)
      /\ \A i \in 1 .. c.index : Journaled(c.todo[i])
  BY <1>1, AtCommand DEF PlanTransition, At, CommandSound, Planning
<1>3. PICK x : x = c.index + 1
  OBVIOUS
<1>4. x \in 1 .. Len(c.todo) /\ \A i \in 1 .. x : i = x \/ i \in 1 .. c.index
  BY <1>2, <1>3 DEF Command
<1>5. PICK k : k = [c EXCEPT !.index = x]
  OBVIOUS
<1>6. /\ k \in Command /\ k.stage = "plan" /\ k.held = c.held /\ k.todo = c.todo
      /\ k.attempt = c.attempt /\ k.index = x
  BY <1>2, <1>4, <1>5 DEF Command
<1>7. PICK from, to : /\ from = (IF x = 1 THEN c.held ELSE c.todo[x - 1])
                      /\ to = c.todo[x]
  OBVIOUS
<1>8. from \in Content /\ to \in Content
  BY <1>2, <1>4, <1>7 DEF Command
<1>9. /\ journal' = Planned(c.attempt, from, to)
      /\ Become(p, IF AllPlanned(k) THEN [k EXCEPT !.stage = "commit", !.index = 0] ELSE k)
      /\ UNCHANGED <<authority, receipt, crashes>>
  BY <1>1, <1>3, <1>5, <1>6, <1>7 DEF PlanTransition
<1>10. /\ journal' \in Seq(Attempt) /\ JournalSound' /\ JournalKept /\ Journaled(to)'
       /\ (\E i \in DOMAIN journal' : journal'[i].published)
            => \E i \in DOMAIN journal : journal[i].published
  BY <1>2, <1>8, <1>9, AtCommand, PlannedKeeps
<1>11. ASSUME NEW i \in 1 .. x
       PROVE  Journaled(c.todo[i])'
  BY <1>2, <1>4, <1>7, <1>10 DEF JournalKept
<1>12. PICK n : n = IF AllPlanned(k) THEN [k EXCEPT !.stage = "commit", !.index = 0] ELSE k
  OBVIOUS
<1>13. n \in Command /\ Len(n.todo) <= 2 /\ CommandSound(n)'
  <2>1. CASE AllPlanned(k)
    <3>1. n \in Command /\ n.stage = "commit" /\ n.held = c.held /\ n.todo = c.todo
      BY <1>6, <1>12, <2>1 DEF Command, Stage
    <3>2. x = Len(c.todo) /\ c.todo # <<>> /\ DOMAIN c.todo = 1 .. x
      BY <1>2, <1>4, <1>6, <2>1 DEF AllPlanned, Command
    <3> QED
      BY <1>2, <1>11, <3>1, <3>2
      DEF CommandSound, Reconciling, Planning, Committing, Publishing
  <2>2. CASE ~AllPlanned(k)
    <3>1. n = k /\ x < Len(c.todo)
      BY <1>2, <1>4, <1>6, <1>12, <2>2 DEF AllPlanned, Command
    <3>2. HasAttempt(c.attempt)'
      BY <1>2, <1>10 DEF JournalKept
    <3> QED
      BY <1>2, <1>6, <1>11, <3>1, <3>2
      DEF CommandSound, Reconciling, Planning, Committing, Publishing
  <2> QED
    BY <2>1, <2>2
<1>14. command' = [command EXCEPT ![p] = n]
  BY <1>9, <1>12 DEF Become
<1> QED
  BY <1>9, <1>10, <1>13, <1>14, AtCommand, JournalStep

\* A commit leaves only a record in progress behind, or finds its own outcome
\* already there.
LEMMA CommitKeeps ==
  ASSUME IInv, NEW p \in Process, Commit(p)
  PROVE  IInv'
<1>1. PICK k : k = command[p]
  OBVIOUS
<1>2. /\ k \in Command /\ k.stage = "commit" /\ Len(k.todo) <= 2 /\ k.todo # <<>>
      /\ PlanSound(k.held, k.todo)
      /\ \A i \in DOMAIN k.todo : Journaled(k.todo[i])
  BY <1>1, AtCommand DEF Commit, At, CommandSound, Committing
<1>3. PICK to, rest : to = Head(k.todo) /\ rest = Tail(k.todo)
  OBVIOUS
<1>4. /\ to \in Content /\ rest \in Seq(Content) /\ to = k.todo[1] /\ 1 \in DOMAIN k.todo
      /\ Len(rest) = Len(k.todo) - 1
      /\ \A i \in DOMAIN rest : i + 1 \in DOMAIN k.todo /\ rest[i] = k.todo[i + 1]
  BY <1>2, <1>3 DEF Command
<1>5. /\ InProgress(k.held) /\ to.state # "invalidated" /\ Journaled(to)
      /\ rest # <<>> => ~Terminal(to)
  BY <1>2, <1>4 DEF PlanSound
<1>6. UNCHANGED <<journal, receipt, crashes>>
  BY DEF Commit
<1>7. /\ journal' \in Seq(Attempt) /\ JournalSound' /\ JournalKept
  BY <1>6, AtCommand, SameJournal
<1>8. CASE Return(p) /\ UNCHANGED authority
  BY <1>6, <1>8, AtCommand, ReturnKeeps
<1>9. CASE /\ authority \in {k.held, to} /\ authority' = to
           /\ Become(p, [k EXCEPT
                !.held = to, !.todo = rest,
                !.stage = IF rest # <<>> THEN "commit"
                          ELSE IF Terminal(to) THEN "receipt" ELSE "complete"])
  <2>1. PICK s : s = IF rest # <<>> THEN "commit"
                     ELSE IF Terminal(to) THEN "receipt" ELSE "complete"
    OBVIOUS
  <2>2. PICK n : n = [k EXCEPT !.held = to, !.todo = rest, !.stage = s]
    OBVIOUS
  <2>3. command' = [command EXCEPT ![p] = n]
    BY <1>9, <2>1, <2>2 DEF Become
  <2>4. n \in Command /\ n.held = to /\ n.todo = rest /\ n.stage = s
    BY <1>2, <1>4, <2>1, <2>2 DEF Command, Stage
  <2>5. CommandSound(n)'
    <3>1. CASE rest # <<>>
      <4>1. InProgress(to)
        BY <1>4, <1>5, <3>1 DEF InProgress, Terminal, Content, State
      <4>2. PlanSound(to, rest)
        BY <1>2, <1>4, <4>1 DEF PlanSound
      <4>3. \A i \in DOMAIN rest : Journaled(rest[i])
        BY <1>2, <1>4
      <4>4. \A i \in DOMAIN rest : Journaled(rest[i])'
        BY <1>7, <4>3 DEF JournalKept
      <4> QED
        BY <2>1, <2>4, <3>1, <4>2, <4>4
        DEF CommandSound, Reconciling, Planning, Committing, Publishing
    <3>2. CASE rest = <<>>
      BY <2>1, <2>4, <3>2 DEF CommandSound, Reconciling, Planning, Committing, Publishing
    <3> QED
      BY <3>1, <3>2
  <2>6. Sealed => Sealed'
    <3> SUFFICES ASSUME Sealed PROVE Sealed'
      OBVIOUS
    <3>1. authority.state # "invalidated"
      BY <1>5, <1>9 DEF InProgress
    <3>2. receipt = authority /\ receipt # None
      BY <3>1, AtCommand, NoneAssumption DEF Sealed
    <3>3. Terminal(authority)
      BY <3>2 DEF IInv, ReceiptSound
    <3>4. authority = to
      BY <1>5, <1>9, <3>3 DEF InProgress, Terminal
    <3> QED
      BY <1>6, <1>9, <3>2, <3>4 DEF Sealed
  <2>7. Len(n.todo) <= 2
    BY <1>2, <1>4, <2>4 DEF Command
  <2>8. /\ command' \in [Process -> Command]
        /\ (\A q \in Process : Len(command[q].todo) <= 2 /\ CommandSound(command[q]))'
    BY <1>7, <2>3, <2>4, <2>5, <2>6, <2>7, CommandsKept DEF IInv, TypeOK
  <2>9. TypeOK'
    BY <1>4, <1>6, <1>9, <2>8 DEF TypeOK, IInv
  <2>10. ReceiptSound'
    BY <1>5, <1>6, <1>9 DEF IInv, ReceiptSound, InProgress, Terminal
  <2>11. CommittedWasPlanned'
    BY <1>5, <1>6, <1>9 DEF CommittedWasPlanned, Journaled
  <2>12. PublishedMeansReceipt'
    BY <1>6, <2>6 DEF IInv, PublishedMeansReceipt, Sealed
  <2> QED
    BY <1>7, <2>8, <2>9, <2>10, <2>11, <2>12 DEF IInv
<1> QED
  BY <1>1, <1>3, <1>8, <1>9 DEF Commit

\* The publication of the receipt keeps the invariant.
LEMMA PublishReceiptKeeps ==
  ASSUME IInv, NEW p \in Process, PublishReceipt(p)
  PROVE  IInv'
<1>1. PICK k : k = command[p]
  OBVIOUS
<1>2. /\ k \in Command /\ Len(k.todo) <= 2 /\ Terminal(k.held)
  BY <1>1, AtCommand DEF PublishReceipt, At, CommandSound, Publishing
<1>3. UNCHANGED <<authority, journal, crashes>>
  BY DEF PublishReceipt
<1>4. CASE Return(p) /\ UNCHANGED receipt
  BY <1>3, <1>4, AtCommand, ReturnKeeps
<1>5. CASE /\ authority = k.held /\ receipt' = authority
           /\ Become(p, [k EXCEPT !.stage = "inspect"])
  <2>1. PICK n : n = [k EXCEPT !.stage = "inspect"]
    OBVIOUS
  <2>2. /\ n \in Command /\ Len(n.todo) <= 2 /\ n.stage = "inspect" /\ n.held = k.held
        /\ command' = [command EXCEPT ![p] = n]
    BY <1>2, <1>5, <2>1 DEF Become, Command, Stage
  <2>3. CommandSound(n)'
    BY <1>2, <2>2 DEF CommandSound, Reconciling, Planning, Committing, Publishing
  <2>4. Sealed'
    BY <1>3, <1>5 DEF Sealed
  <2>5. journal' \in Seq(Attempt) /\ JournalSound' /\ JournalKept
    BY <1>3, AtCommand, SameJournal
  <2>6. /\ command' \in [Process -> Command]
        /\ (\A q \in Process : Len(command[q].todo) <= 2 /\ CommandSound(command[q]))'
    BY <2>2, <2>3, <2>4, <2>5, CommandsKept DEF IInv, TypeOK
  <2>7. TypeOK'
    BY <1>3, <1>5, <2>6 DEF TypeOK, IInv
  <2>8. ReceiptSound'
    BY <1>2, <1>3, <1>5 DEF ReceiptSound
  <2>9. CommittedWasPlanned'
    BY <1>3 DEF IInv, CommittedWasPlanned
  <2>10. PublishedMeansReceipt'
    BY <2>4 DEF PublishedMeansReceipt, Sealed
  <2> QED
    BY <2>5, <2>6, <2>7, <2>8, <2>9, <2>10 DEF IInv
<1> QED
  BY <1>1, <1>4, <1>5 DEF PublishReceipt

\* The look at the receipt keeps the invariant.
LEMMA InspectReceiptKeeps ==
  ASSUME IInv, NEW p \in Process, InspectReceipt(p)
  PROVE  IInv'
<1>1. PICK k : k = command[p]
  OBVIOUS
<1>2. k \in Command /\ Len(k.todo) <= 2 /\ Terminal(k.held) /\ k.held \in Content
  BY <1>1, AtCommand DEF InspectReceipt, At, CommandSound, Publishing, Command
<1>3. UNCHANGED <<authority, journal, receipt, crashes>>
  BY DEF InspectReceipt
<1>4. CASE receipt = k.held
  <2>1. PICK n : n = [k EXCEPT !.stage = "mark"]
    OBVIOUS
  <2>2. /\ n \in Command /\ Len(n.todo) <= 2 /\ n.stage = "mark" /\ n.held = k.held
        /\ command' = [command EXCEPT ![p] = n]
    BY <1>1, <1>2, <1>4, <2>1 DEF InspectReceipt, Become, Command, Stage
  <2>3. Sealed'
    BY <1>2, <1>3, <1>4, NoneAssumption DEF Sealed, IInv, ReceiptSound
  <2>4. CommandSound(n)'
    BY <1>2, <2>2, <2>3 DEF CommandSound, Reconciling, Planning, Committing, Publishing
  <2> QED
    BY <1>3, <2>2, <2>4, AtCommand, SameJournal, JournalStep
<1>5. CASE receipt # k.held
  <2>1. Return(p)
    BY <1>1, <1>5 DEF InspectReceipt, Become, Return
  <2> QED
    BY <1>3, <2>1, AtCommand, ReturnKeeps
<1> QED
  BY <1>4, <1>5

\* The mark in the journal that the receipt is published keeps the invariant.
LEMMA MarkReceiptPublishedKeeps ==
  ASSUME IInv, NEW p \in Process, MarkReceiptPublished(p)
  PROVE  IInv'
<1>1. PICK k : k = command[p]
  OBVIOUS
<1>2. k \in Command /\ Len(k.todo) <= 2 /\ Sealed
  BY <1>1, AtCommand DEF MarkReceiptPublished, At, CommandSound, Publishing
<1>3. PICK n : n = [k EXCEPT !.stage = "complete"]
  OBVIOUS
<1>4. /\ n \in Command /\ Len(n.todo) <= 2 /\ n.stage = "complete"
      /\ command' = [command EXCEPT ![p] = n]
  BY <1>1, <1>2, <1>3 DEF MarkReceiptPublished, Become, Command, Stage
<1>5. CommandSound(n)'
  BY <1>4, FreeStage
<1>6. journal' \in Seq(Attempt) /\ JournalSound' /\ JournalKept
  BY AtCommand, MarkKeeps DEF MarkReceiptPublished
<1>7. UNCHANGED <<authority, receipt, crashes>>
  BY DEF MarkReceiptPublished
<1> QED
  BY <1>2, <1>4, <1>5, <1>6, <1>7, AtCommand, JournalStep

\* The completion of an attempt keeps the invariant.
LEMMA CompleteStepKeeps ==
  ASSUME IInv, NEW p \in Process, Complete(p)
  PROVE  IInv'
<1>1. PICK k : k = Idle
  OBVIOUS
<1>2. k \in Command /\ Len(k.todo) <= 2 /\ CommandSound(k)'
  BY <1>1, IdleFacts, FreeStage
<1>3. command' = [command EXCEPT ![p] = k]
  BY <1>1 DEF Complete, Return, Become
<1>4. /\ journal' \in Seq(Attempt) /\ JournalSound' /\ JournalKept
      /\ (\E i \in DOMAIN journal' : journal'[i].published)
           => \E i \in DOMAIN journal : journal[i].published
  BY AtCommand, CompleteKeeps DEF Complete
<1>5. UNCHANGED <<authority, receipt, crashes>>
  BY DEF Complete
<1> QED
  BY <1>2, <1>3, <1>4, <1>5, AtCommand, JournalStep

-----------------------------------------------------------------------------
(* The steps of a maintainer.                                               *)

\* A maintainer that leaves the journal and the commands alone keeps the
\* invariant.
LEMMA MaintainerStep ==
  ASSUME IInv, UNCHANGED <<journal, command, crashes>>,
         authority' \in Content, receipt' \in Content \cup {None},
         ReceiptSound', Sealed => Sealed',
         authority'.state \in {"reviewing", "invalidated"} \/ authority'.disposed
  PROVE  IInv'
<1>1. journal' \in Seq(Attempt) /\ JournalSound' /\ JournalKept
  BY AtCommand, SameJournal DEF IInv, TypeOK
<1>2. TypeOK'
  BY DEF IInv, TypeOK
<1>3. ASSUME NEW q \in Process
      PROVE  CommandSound(command[q])'
  <2>1. PICK c : c = command[q]
    OBVIOUS
  <2>2. CommandSound(c)'
    BY <1>1, <2>1, CommandOutlives DEF IInv
  <2>3. command'[q] = c
    BY <2>1
  <2> QED
    BY <2>2, <2>3 DEF CommandSound, Reconciling, Planning, Committing, Publishing
<1>4. CommittedWasPlanned'
  BY DEF CommittedWasPlanned
<1>5. PublishedMeansReceipt'
  BY DEF IInv, PublishedMeansReceipt, Sealed
<1> QED
  BY <1>1, <1>2, <1>3, <1>4, <1>5 DEF IInv

\* A record in progress has no receipt to lose.
LEMMA InProgressUnsealed ==
  ASSUME IInv, InProgress(authority)
  PROVE  receipt = None /\ ~Sealed
  BY AtCommand, NoneAssumption
  DEF IInv, TypeOK, ReceiptSound, InProgress, Terminal, Sealed

\* The reopening of results keeps the invariant.
LEMMA ReopenResultsKeeps ==
  ASSUME IInv, ReopenResults
  PROVE  IInv'
<1>1. InProgress(authority)
  BY DEF ReopenResults, InProgress
<1>2. PICK x : x = authority.reopens + 1
  OBVIOUS
<1>3. authority \in Content
  BY DEF IInv, TypeOK
<1>4. x \in 0 .. MaxReopens
  BY <1>2, <1>3, BoundAssumption DEF ReopenResults, Content
<1>5. authority' = [authority EXCEPT !.state = "reviewing", !.reopens = x]
  BY <1>2 DEF ReopenResults
<1>6. authority' \in Content /\ authority'.state = "reviewing"
  BY <1>3, <1>4, <1>5 DEF Content, State
<1>7. UNCHANGED <<journal, receipt, command, crashes>> /\ receipt = None
  BY DEF ReopenResults
<1> QED
  BY <1>1, <1>6, <1>7, InProgressUnsealed, MaintainerStep DEF ReceiptSound

\* A disposition or an invalidation keeps the invariant.
LEMMA ReviewingLeft ==
  ASSUME IInv, DisposeResult \/ Invalidate
  PROVE  IInv'
<1>1. InProgress(authority)
  BY DEF DisposeResult, Invalidate, InProgress
<1>2. authority' \in Content /\ (authority'.state = "invalidated" \/ authority'.disposed)
  BY DEF IInv, TypeOK, Content, State, DisposeResult, Invalidate
<1>3. UNCHANGED <<journal, receipt, command, crashes>>
  BY DEF DisposeResult, Invalidate
<1>4. receipt = None /\ ~Sealed
  BY <1>1, InProgressUnsealed
<1> QED
  BY <1>2, <1>3, <1>4, MaintainerStep DEF ReceiptSound

\* The withdrawal of an approval keeps the invariant.
LEMMA InvalidateApprovedKeeps ==
  ASSUME IInv, InvalidateApproved
  PROVE  IInv'
<1>1. authority' \in Content /\ authority'.state = "invalidated"
  BY DEF IInv, TypeOK, Content, State, InvalidateApproved
<1>2. UNCHANGED <<journal, command, crashes>> /\ receipt' = None
  BY DEF InvalidateApproved
<1> QED
  BY <1>1, <1>2, MaintainerStep DEF ReceiptSound, Sealed

-----------------------------------------------------------------------------
(* The theorems.                                                            *)

\* The first state has the invariant.
LEMMA InitInv ==
  ASSUME Init
  PROVE  IInv
<1> USE DEF Init
<1>1. Fresh \in Content /\ Fresh.state = "reviewing"
  BY BoundAssumption DEF Fresh, Content, State
<1>2. TypeOK
  <2>1. command \in [Process -> Command] /\ \A p \in Process : Len(command[p].todo) <= 2
    BY IdleFacts
  <2>2. journal \in Seq(Attempt)
    BY EmptySeq
  <2> QED
    BY <1>1, <2>1, <2>2, BoundAssumption DEF TypeOK
<1>3. JournalSound /\ ReceiptSound
  BY DEF JournalSound, ReceiptSound, Open
<1>4. ASSUME NEW p \in Process
      PROVE  CommandSound(command[p])
  BY IdleFacts DEF CommandSound, Reconciling, Planning, Committing, Publishing
<1>5. CommittedWasPlanned /\ PublishedMeansReceipt
  BY <1>1 DEF CommittedWasPlanned, PublishedMeansReceipt
<1> QED
  BY <1>2, <1>3, <1>4, <1>5 DEF IInv

\* A step that changes nothing keeps the invariant.
LEMMA StutterKeeps ==
  ASSUME IInv, UNCHANGED vars
  PROVE  IInv'
<1> USE DEF vars
<1>1. TypeOK' /\ JournalSound' /\ ReceiptSound'
  BY DEF IInv, TypeOK, JournalSound, ReceiptSound, Open
<1>2. (\A p \in Process : CommandSound(command[p]))'
  BY DEF IInv, CommandSound, Reconciling, Planning, Committing, Publishing,
         HasAttempt, Journaled, Sealed
<1>3. CommittedWasPlanned' /\ PublishedMeansReceipt'
  BY DEF IInv, CommittedWasPlanned, PublishedMeansReceipt
<1> QED
  BY <1>1, <1>2, <1>3 DEF IInv

\* The invariant is inductive.
LEMMA StepInv ==
  ASSUME IInv, [Next]_vars
  PROVE  IInv'
<1>1. ASSUME NEW p \in Process, Load(p)
      PROVE  IInv'
  BY <1>1, LoadKeeps
<1>2. ASSUME NEW p \in Process, NEW in \in Payloads, Prepare(p, in)
      PROVE  IInv'
  BY <1>2, PrepareKeeps
<1>3. ASSUME NEW p \in Process, Work(p)
      PROVE  IInv'
  BY <1>3, ResumeKeeps, ReconcilesKeep, PlanTransitionKeeps, CommitKeeps,
     PublishReceiptKeeps, InspectReceiptKeeps, MarkReceiptPublishedKeeps,
     CompleteStepKeeps DEF Work
<1>4. ASSUME NEW p \in Process, Crash(p)
      PROVE  IInv'
  <2>1. PICK n : n = crashes + 1
    OBVIOUS
  <2>2. n \in 0 .. MaxCrashes /\ crashes' = n
    BY <1>4, <2>1, AtCommand, BoundAssumption DEF Crash
  <2> QED
    BY <1>4, <2>2, ReturnKeeps DEF Crash
<1>5. CASE ReopenResults \/ DisposeResult \/ Invalidate \/ InvalidateApproved
  BY <1>5, ReopenResultsKeeps, ReviewingLeft, InvalidateApprovedKeeps
<1>6. CASE UNCHANGED vars
  BY <1>6, StutterKeeps
<1> QED
  BY <1>1, <1>2, <1>3, <1>4, <1>5, <1>6 DEF Next

\* The journal, the receipt and every command are sound, whichever commands
\* crash where (the strengthening behind the theorems below).
THEOREM Invariance == Spec => []IInv
  BY InitInv, StepInv, PTL DEF Spec

\* The record, the journal, the receipt and every command have their type, and
\* no command holds a plan of more than two transitions
\* (prepareFacadeFinalizePlan).
THEOREM TypesHold == Spec => []TypeOK
<1>1. IInv => TypeOK
  BY DEF IInv
<1> QED
  BY <1>1, Invariance, PTL

\* Write-ahead: whatever commands run at once and wherever they die, a record
\* that FINALIZE committed is in the attempt journal.
THEOREM CommittedIsJournaled == Spec => []CommittedWasPlanned
<1>1. IInv => CommittedWasPlanned
  BY DEF IInv
<1> QED
  BY <1>1, Invariance, PTL

\* The journal never holds two open requests of its lineage
\* (ReconcileFinalizeAttempt refuses a second one).
THEOREM OneRequestIsOpen == Spec => []OneOpenAttempt
<1>1. IInv => OneOpenAttempt
  <2> SUFFICES ASSUME IInv PROVE Cardinality(Open) <= 1
    BY DEF OneOpenAttempt
  <2>1. CASE Open = {}
    BY <2>1, FS_EmptySet
  <2>2. ASSUME NEW i \in Open
        PROVE  Cardinality(Open) <= 1
    <3>1. Open = {i}
      BY <2>2 DEF IInv, JournalSound
    <3> QED
      BY <3>1, FS_Singleton
  <2> QED
    BY <2>1, <2>2
<1> QED
  BY <1>1, Invariance, PTL

\* When the journal says that a receipt is published, the settled record has
\* its receipt, unless its approval was withdrawn since.
THEOREM PublicationIsFact == Spec => []PublishedMeansReceipt
<1>1. IInv => PublishedMeansReceipt
  BY DEF IInv
<1> QED
  BY <1>1, Invariance, PTL

=============================================================================
