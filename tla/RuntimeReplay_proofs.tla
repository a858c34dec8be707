------------------------ MODULE RuntimeReplay_proofs ------------------------
(***************************************************************************)
(* What replay makes of the chains of RuntimeLedger, for chains of any     *)
(* length.                                                                 *)
(*                                                                         *)
(* RInv says that the status of the chain is Legible: it has its type, is  *)
(* valid, what is charged is what was spent, and every attempt was within  *)
(* the budget when it began.  It says so of every chain that HEAD may      *)
(* name, which are beginnings of what it is now; and it says what a client *)
(* inside the lock may rely on: that replay accepts the record it is about *)
(* to commit, and that a completion it carries was reviewed.               *)
(*                                                                         *)
(* What is computed along a chain is proved by its smallest                *)
(* counterexample, from the status of one record to that of the next.      *)
(***************************************************************************)
EXTENDS RuntimeLedger_proofs, SequenceTheorems, FiniteSetTheorems

-----------------------------------------------------------------------------
(* Replay, record by record.                                                *)

\* What load() makes of the next record.
Step(s, record) ==
  IF s.valid /\ Follows(s, record) THEN Applied(s, record) ELSE [s EXCEPT !.valid = FALSE]

\* The statuses of the first n records of a chain.
Statuses(f, chain, n) ==
  f = [m \in 0 .. n |-> IF m = 0 THEN NewStatus ELSE Step(f[m - 1], chain[m])]

\* Replay is the last of the statuses of a chain.
LEMMA ReplayIs ==
  ASSUME NEW chain
  PROVE  Replay(chain) = (CHOOSE f : Statuses(f, chain, Len(chain)))[Len(chain)]
  BY DEF Replay, Statuses, Step

\* A set of numbers has a least one.
LEMMA SmallestExists ==
  ASSUME NEW S \in SUBSET Nat, S # {}
  PROVE  \E i \in S : \A j \in S : i <= j
<1> DEFINE less == {ss \in Nat \X Nat : ss[1] < ss[2]}
<1>1. less = OpToRel(<, Nat)
  BY DEF OpToRel
<1>2. IsWellFoundedOn(less, Nat)
  BY <1>1, NatLessThanWellFounded
<1>3. PICK i \in S : \A j \in S : <<j, i>> \notin less
  BY <1>2, WFMin
<1>4. ASSUME NEW j \in S
      PROVE  i <= j
  <2>1. i \in Nat /\ j \in Nat /\ <<j, i>> \notin less
    BY <1>3
  <2> QED
    BY <2>1
<1> QED
  BY <1>4

\* Each status is the step from the one before.
LEMMA StatusesStep ==
  ASSUME NEW f, NEW chain, NEW n \in Nat, Statuses(f, chain, n)
  PROVE  /\ f[0] = NewStatus
         /\ \A m \in 1 .. n : f[m] = Step(f[m - 1], chain[m])
<1>1. \A m \in 0 .. n : f[m] = IF m = 0 THEN NewStatus ELSE Step(f[m - 1], chain[m])
  BY DEF Statuses
<1> QED
  BY <1>1

\* The statuses of a chain, by the smallest number for which there are none.
LEMMA StatusesExist ==
  ASSUME NEW chain, NEW n \in Nat
  PROVE  \E f : Statuses(f, chain, n)
<1> DEFINE S == {m \in Nat : ~\E f : Statuses(f, chain, m)}
<1>1. SUFFICES ASSUME S # {} PROVE FALSE
  OBVIOUS
<1>2. PICK m \in S : \A j \in S : m <= j
  BY <1>1, SmallestExists
<1>3. m \in Nat /\ ~\E f : Statuses(f, chain, m)
  OBVIOUS
<1>4. CASE m = 0
  <2> DEFINE g == [k \in 0 .. 0 |-> NewStatus]
  <2>1. Statuses(g, chain, 0)
    BY DEF Statuses
  <2> QED
    BY <1>3, <1>4, <2>1
<1>5. CASE m # 0
  <2>1. m - 1 \in Nat /\ m - 1 \notin S
    BY <1>2, <1>3, <1>5
  <2>2. PICK f : Statuses(f, chain, m - 1)
    BY <2>1
  <2>3. f[0] = NewStatus /\ \A k \in 1 .. m - 1 : f[k] = Step(f[k - 1], chain[k])
    BY <2>1, <2>2, StatusesStep
  <2> DEFINE g == [k \in 0 .. m |-> IF k = m THEN Step(f[m - 1], chain[m]) ELSE f[k]]
  <2>4. \A k \in 0 .. m : g[k] = IF k = 0 THEN NewStatus ELSE Step(g[k - 1], chain[k])
    BY <1>3, <1>5, <2>3
  <2>5. Statuses(g, chain, m)
    BY <2>4 DEF Statuses
  <2> QED
    BY <1>3, <2>5
<1> QED
  BY <1>4, <1>5

\* They are the same for chains that begin alike.
LEMMA StatusesAgree ==
  ASSUME NEW f, NEW g, NEW c, NEW d, NEW n \in Nat, NEW m \in Nat, n <= m,
         Statuses(f, c, n), Statuses(g, d, m), \A i \in 1 .. n : c[i] = d[i]
  PROVE  f[n] = g[n]
<1> DEFINE S == {i \in 0 .. n : f[i] # g[i]}
<1>1. SUFFICES ASSUME S # {} PROVE FALSE
  OBVIOUS
<1>2. PICK i \in S : \A j \in S : i <= j
  <2>1. S \in SUBSET Nat
    OBVIOUS
  <2> HIDE DEF S
  <2> QED
    BY <1>1, <2>1, SmallestExists
<1>3. /\ f[0] = NewStatus /\ \A k \in 1 .. n : f[k] = Step(f[k - 1], c[k])
      /\ g[0] = NewStatus /\ \A k \in 1 .. m : g[k] = Step(g[k - 1], d[k])
  BY StatusesStep
<1>4. i \in 1 .. n /\ i \in 1 .. m /\ i - 1 \in 0 .. n /\ i - 1 \notin S
  BY <1>2, <1>3
<1>5. f[i - 1] = g[i - 1] /\ c[i] = d[i]
  BY <1>4
<1> QED
  BY <1>3, <1>4, <1>5

\* A chain has statuses, and replay is the last.
LEMMA ReplayStatuses ==
  ASSUME NEW chain, IsChain(chain)
  PROVE  \E f : Statuses(f, chain, Len(chain)) /\ Replay(chain) = f[Len(chain)]
<1>1. Len(chain) \in Nat
  BY DEF IsChain
<1> DEFINE f == CHOOSE g : Statuses(g, chain, Len(chain))
<1>2. Statuses(f, chain, Len(chain))
  BY <1>1, StatusesExist
<1> QED
  BY <1>2, ReplayIs

\* The empty chain has the first status.
LEMMA ReplayEmpty == Replay(<<>>) = NewStatus
<1>1. IsChain(<<>>) /\ Len(<<>>) = 0
  BY EmptySeq DEF IsChain
<1>2. PICK f : Statuses(f, <<>>, 0) /\ Replay(<<>>) = f[0]
  BY <1>1, ReplayStatuses
<1> QED
  BY <1>2, StatusesStep

\* The replay of a longer chain is one step from that of the chain.
LEMMA ReplayAppend ==
  ASSUME NEW h, IsChain(h), NEW r
  PROVE  Replay(Append(h, r)) = Step(Replay(h), r)
<1> DEFINE k == Append(h, r)
           n == Len(h)
<1>1. /\ IsChain(k) /\ n \in Nat /\ Len(k) = n + 1
      /\ \A i \in 1 .. n : k[i] = h[i]
      /\ k[n + 1] = r
  BY Extended
<1>2. PICK f : Statuses(f, h, n) /\ Replay(h) = f[n]
  BY ReplayStatuses
<1>3. PICK g : Statuses(g, k, n + 1) /\ Replay(k) = g[n + 1]
  BY <1>1, ReplayStatuses
<1> HIDE DEF k, n
<1>4. g[n + 1] = Step(g[n], k[n + 1])
  BY <1>1, <1>3, StatusesStep
<1>5. f[n] = g[n]
  <2>1. n + 1 \in Nat /\ n <= n + 1 /\ \A i \in 1 .. n : h[i] = k[i]
    BY <1>1
  <2> QED
    BY <1>1, <1>2, <1>3, <2>1, StatusesAgree
<1> QED
  BY <1>1, <1>2, <1>3, <1>4, <1>5 DEF k

-----------------------------------------------------------------------------
(* The lines of the attempts i .. j, attempt by attempt.                    *)

Sums(f, attempts, i, j) ==
  f = [n \in i - 1 .. j |-> IF n = i - 1 THEN 0 ELSE f[n - 1] + attempts[n].lines]

\* A total is the last of the sums.
LEMMA TotalIs ==
  ASSUME NEW attempts, NEW i, NEW j
  PROVE  Total(attempts, i, j) = (CHOOSE f : Sums(f, attempts, i, j))[j]
  BY DEF Total, Sums

Accumulates(f, attempts, i, j) ==
  f[i - 1] = 0 /\ \A n \in i .. j : f[n] = f[n - 1] + attempts[n].lines

SameLines(a, b, i, j) == \A n \in i .. j : a[n].lines = b[n].lines

\* Each sum adds the lines of an attempt to the one before.
LEMMA SumsStep ==
  ASSUME NEW f, NEW attempts, NEW i \in Nat \ {0}, NEW j \in Nat, i - 1 <= j,
         Sums(f, attempts, i, j)
  PROVE  Accumulates(f, attempts, i, j)
<1>1. \A n \in i - 1 .. j : f[n] = IF n = i - 1 THEN 0 ELSE f[n - 1] + attempts[n].lines
  BY DEF Sums
<1> QED
  BY <1>1 DEF Accumulates

\* There are sums of any attempts, by the smallest end for which there are
\* none.
LEMMA SumsExist ==
  ASSUME NEW attempts, NEW i \in Nat \ {0}, NEW j \in Nat, i - 1 <= j
  PROVE  \E f : Sums(f, attempts, i, j)
<1> DEFINE S == {m \in Nat : i - 1 <= m /\ ~\E f : Sums(f, attempts, i, m)}
<1>1. SUFFICES ASSUME S # {} PROVE FALSE
  OBVIOUS
<1>2. PICK m \in S : \A k \in S : m <= k
  BY <1>1, SmallestExists
<1>3. m \in Nat /\ i - 1 <= m /\ ~\E f : Sums(f, attempts, i, m)
  OBVIOUS
<1>4. CASE m = i - 1
  <2> DEFINE g == [k \in i - 1 .. i - 1 |-> 0]
  <2>1. Sums(g, attempts, i, i - 1)
    BY DEF Sums
  <2> QED
    BY <1>3, <1>4, <2>1
<1>5. CASE m # i - 1
  <2>1. m - 1 \in Nat /\ i - 1 <= m - 1 /\ m - 1 \notin S
    BY <1>2, <1>3, <1>5
  <2>2. PICK f : Sums(f, attempts, i, m - 1)
    BY <2>1
  <2>3. f[i - 1] = 0 /\ \A k \in i .. m - 1 : f[k] = f[k - 1] + attempts[k].lines
    BY <2>1, <2>2, SumsStep DEF Accumulates
  <2> DEFINE last == f[m - 1] + attempts[m].lines
             g == [k \in i - 1 .. m |-> IF k = m THEN last ELSE f[k]]
  <2>4. \A k \in i - 1 .. m : g[k] = IF k = i - 1 THEN 0 ELSE g[k - 1] + attempts[k].lines
    <3>1. SUFFICES ASSUME NEW k \in i - 1 .. m
                   PROVE  g[k] = IF k = i - 1 THEN 0 ELSE g[k - 1] + attempts[k].lines
      OBVIOUS
    <3>2. k \in Int /\ (k # i - 1 => k - 1 \in i - 1 .. m /\ k - 1 # m)
      BY <1>3
    <3>3. CASE k = m
      <4>1. g[k] = last /\ g[k - 1] = f[k - 1]
        BY <1>3, <1>5, <3>2, <3>3
      <4> QED
        BY <1>5, <3>3, <4>1
    <3>4. CASE k # m /\ k = i - 1
      BY <2>3, <3>4
    <3>5. CASE k # m /\ k # i - 1
      <4>1. k \in i .. m - 1
        BY <1>3, <3>2, <3>5
      <4>2. g[k] = f[k] /\ g[k - 1] = f[k - 1]
        BY <3>2, <3>5
      <4> QED
        BY <2>3, <3>5, <4>1, <4>2
    <3> QED
      BY <3>3, <3>4, <3>5
  <2> HIDE DEF g
  <2>5. Sums(g, attempts, i, m)
    <3>1. g = [k \in i - 1 .. m |-> g[k]]
      BY DEF g
    <3> QED
      BY <2>4, <3>1 DEF Sums
  <2> QED
    BY <1>3, <2>5
<1> QED
  BY <1>4, <1>5

\* A total is a sum.
LEMMA TotalSums ==
  ASSUME NEW attempts, NEW i \in Nat \ {0}, NEW j \in Nat, i - 1 <= j
  PROVE  \E f : Sums(f, attempts, i, j) /\ Total(attempts, i, j) = f[j]
<1> DEFINE f == CHOOSE g : Sums(g, attempts, i, j)
<1>1. Sums(f, attempts, i, j)
  BY SumsExist
<1> QED
  BY <1>1, TotalIs

\* Attempts with the same lines have the same total.
LEMMA SumsAgree ==
  ASSUME NEW f, NEW g, NEW a, NEW b, NEW i \in Nat \ {0}, NEW j \in Nat, NEW k \in Nat,
         i - 1 <= j, j <= k, Sums(f, a, i, j), Sums(g, b, i, k),
         SameLines(a, b, i, j)
  PROVE  f[j] = g[j]
<1> DEFINE S == {n \in Nat : i - 1 <= n /\ n <= j /\ f[n] # g[n]}
<1>1. SUFFICES ASSUME S # {} PROVE FALSE
  OBVIOUS
<1>2. PICK n \in S : \A m \in S : n <= m
  BY <1>1, SmallestExists
<1>3. /\ f[i - 1] = 0 /\ \A m \in i .. j : f[m] = f[m - 1] + a[m].lines
      /\ g[i - 1] = 0 /\ \A m \in i .. k : g[m] = g[m - 1] + b[m].lines
  <2>1. f[i - 1] = 0 /\ \A m \in i .. j : f[m] = f[m - 1] + a[m].lines
    <3>1. Accumulates(f, a, i, j)
      BY SumsStep
    <3> QED
      BY <3>1 DEF Accumulates
  <2>2. i - 1 <= k
    OBVIOUS
  <2>3. g[i - 1] = 0 /\ \A m \in i .. k : g[m] = g[m - 1] + b[m].lines
    <3>1. Accumulates(g, b, i, k)
      BY <2>2, SumsStep
    <3> QED
      BY <3>1 DEF Accumulates
  <2> QED
    BY <2>1, <2>3
<1>4. n \in i .. j /\ n \in i .. k /\ n - 1 \in Nat /\ i - 1 <= n - 1 /\ n - 1 \notin S
  BY <1>2, <1>3
<1>5. f[n - 1] = g[n - 1] /\ a[n].lines = b[n].lines
  BY <1>4 DEF SameLines
<1> QED
  BY <1>3, <1>4, <1>5

\* The total of no attempts is zero.
LEMMA TotalNone ==
  ASSUME NEW attempts, NEW i \in Nat \ {0}
  PROVE  Total(attempts, i, i - 1) = 0
<1>1. i - 1 \in Nat /\ i - 1 <= i - 1
  OBVIOUS
<1>2. PICK f : Sums(f, attempts, i, i - 1) /\ Total(attempts, i, i - 1) = f[i - 1]
  BY <1>1, TotalSums
<1> QED
  BY <1>1, <1>2, SumsStep DEF Accumulates

\* Attempts with the same lines have the same total.
LEMMA TotalAgree ==
  ASSUME NEW a, NEW b, NEW i \in Nat \ {0}, NEW j \in Nat, i - 1 <= j,
         SameLines(a, b, i, j)
  PROVE  Total(a, i, j) = Total(b, i, j)
<1>1. PICK f : Sums(f, a, i, j) /\ Total(a, i, j) = f[j]
  BY TotalSums
<1>2. PICK g : Sums(g, b, i, j) /\ Total(b, i, j) = g[j]
  BY TotalSums
<1>3. j <= j
  OBVIOUS
<1>4. f[j] = g[j]
  BY <1>1, <1>2, <1>3, SumsAgree
<1> QED
  BY <1>1, <1>2, <1>4

\* One more attempt adds its lines.
LEMMA TotalMore ==
  ASSUME NEW a, NEW i \in Nat \ {0}, NEW j \in Nat, i <= j
  PROVE  Total(a, i, j) = Total(a, i, j - 1) + a[j].lines
<1>1. j - 1 \in Nat /\ i - 1 <= j - 1 /\ i - 1 <= j /\ j - 1 <= j /\ j \in i .. j
  OBVIOUS
<1>2. PICK f : Sums(f, a, i, j - 1) /\ Total(a, i, j - 1) = f[j - 1]
  BY <1>1, TotalSums
<1>3. PICK g : Sums(g, a, i, j) /\ Total(a, i, j) = g[j]
  BY <1>1, TotalSums
<1>4. g[j] = g[j - 1] + a[j].lines
  <2>1. \A n \in i .. j : g[n] = g[n - 1] + a[n].lines
    <3>1. Accumulates(g, a, i, j)
      BY <1>1, <1>3, SumsStep
    <3> QED
      BY <3>1 DEF Accumulates
  <2> QED
    BY <1>1, <2>1
<1>5. SameLines(a, a, i, j - 1)
  BY DEF SameLines
<1>6. f[j - 1] = g[j - 1]
  BY <1>5, <1>1, <1>2, <1>3, SumsAgree
<1> QED
  BY <1>2, <1>3, <1>4, <1>6

-----------------------------------------------------------------------------
(* What replay makes of the records that the callbacks let through.         *)

StatusType ==
  [valid : BOOLEAN, objective : Scope \cup {None}, generation : Nat, attempts : Seq(Attempt),
   charged : Nat, lines : Nat, evidence : 0 .. MaxRequests, decision : BOOLEAN,
   complete : BOOLEAN, binding : ReviewBinding \cup {None}]

\* The first attempt that the current objective is charged with.
CurrentFrom(s) == Len(s.attempts) - s.charged + 1

\* The attempts of the current objective are the last ones, and all the ones
\* of its generation; its lines are theirs.
Charged(s) ==
  /\ s.charged <= Len(s.attempts)
  /\ s.objective # None => s.charged > 0
  /\ s.objective = None => s.charged = 0 /\ ~Active(s)
  /\ \A i \in 1 .. Len(s.attempts) :
       IF i < CurrentFrom(s)
       THEN s.attempts[i].generation < s.generation + IF s.objective = None THEN 1 ELSE 0
       ELSE s.attempts[i].generation = s.generation /\ s.attempts[i].scope = s.objective
  /\ s.lines = Total(s.attempts, CurrentFrom(s), Len(s.attempts))
  /\ Active(s) => LastAttempt(s).lines = 0

\* Attempt k is the first of the objective of attempt i.
IsFirst(attempts, i, k) ==
  /\ k \in 1 .. i
  /\ \A m \in k .. i : attempts[m].generation = attempts[i].generation
  /\ \A m \in 1 .. k - 1 : attempts[m].generation # attempts[i].generation

\* Attempt i kept the budget of its objective.
Within(attempts, i, k) ==
  LET scope == attempts[i].scope
  IN  /\ i - k < MaxAttempts[scope]
      /\ i > k =>
           /\ attempts[k].scope = scope
           /\ Total(attempts, k, i - 1) < MaxLines[scope]
           /\ attempts[i].begin = attempts[i - 1].finish

Budgeted(attempts) ==
  \A i \in 1 .. Len(attempts) : \E k : IsFirst(attempts, i, k) /\ Within(attempts, i, k)

Legible(s) == s \in StatusType /\ s.valid /\ Charged(s) /\ Budgeted(s.attempts)

\* What the callbacks write into a record.
WellFormed(record) ==
  LET r == record.request
      e == record.event
  IN  /\ record \in Record
      /\ r.op \in {"begin", "finish"} => e.tree \in Tree
      /\ r.op = "bind" \/ (Remediates(r) /\ ~e.exceeded) => e.binding \in ReviewBinding

\* The first attempt of an objective is the one FirstOf chooses.
LEMMA FirstIsFirst ==
  ASSUME NEW attempts, NEW i \in Nat, NEW k, IsFirst(attempts, i, k)
  PROVE  FirstOf(attempts, i) = k
<1> DEFINE First(m) == /\ attempts[m].generation = attempts[i].generation
                       /\ m = 1 \/ attempts[m - 1].generation # attempts[i].generation
<1>1. k \in 1 .. i /\ First(k)
  <2>1. k \in 1 .. i /\ k \in k .. i /\ (k = 1 \/ k - 1 \in 1 .. k - 1)
    BY DEF IsFirst
  <2> QED
    BY <2>1 DEF IsFirst
<1>2. ASSUME NEW m \in 1 .. i, First(m)
      PROVE  m = k
  <2>1. CASE m < k
    <3>1. m \in 1 .. k - 1
      BY <1>1, <2>1
    <3> QED
      BY <1>2, <3>1 DEF IsFirst
  <2>2. CASE m > k
    <3>1. m - 1 \in k .. i /\ m # 1
      BY <1>1, <2>2
    <3> QED
      BY <1>2, <3>1 DEF IsFirst
  <2> QED
    BY <1>1, <2>1, <2>2
<1>3. FirstOf(attempts, i) = CHOOSE m \in 1 .. i : First(m)
  BY DEF FirstOf
<1> HIDE DEF First
<1> QED
  BY <1>1, <1>2, <1>3

\* What later attempts do not change.
LEMMA BudgetKept ==
  ASSUME NEW a, NEW b, NEW i \in Nat \ {0}, NEW k, IsFirst(a, i, k), Within(a, i, k),
         \A m \in 1 .. i : /\ a[m].generation = b[m].generation
                           /\ a[m].scope = b[m].scope
                           /\ a[m].begin = b[m].begin,
         \A m \in 1 .. i - 1 : a[m].lines = b[m].lines /\ a[m].finish = b[m].finish
  PROVE  IsFirst(b, i, k) /\ Within(b, i, k)
<1>1. k \in Nat \ {0} /\ k <= i /\ i \in 1 .. i /\ k \in 1 .. i
  BY DEF IsFirst
<1>2. IsFirst(b, i, k)
  <2>1. \A m \in k .. i : m \in 1 .. i
    BY <1>1
  <2>2. \A m \in 1 .. k - 1 : m \in 1 .. i
    BY <1>1
  <2> QED
    BY <1>1, <2>1, <2>2 DEF IsFirst
<1>3. CASE i > k
  <2>1. i - 1 \in Nat /\ k - 1 <= i - 1 /\ i - 1 \in 1 .. i - 1
    BY <1>1, <1>3
  <2>2. SameLines(a, b, k, i - 1)
    BY <1>1 DEF SameLines
  <2>3. Total(a, k, i - 1) = Total(b, k, i - 1)
    BY <1>1, <2>1, <2>2, TotalAgree
  <2> QED
    BY <1>1, <1>2, <1>3, <2>1, <2>3 DEF Within
<1>4. CASE ~(i > k)
  BY <1>1, <1>2, <1>4 DEF Within
<1> QED
  BY <1>3, <1>4

\* The fields of a request and of a record.
LEMMA RequestFields ==
  ASSUME NEW r \in Request
  PROVE  /\ r.op \in {"begin", "finish", "reset", "bind"}
         /\ r.op = "begin" => r.id \in Id /\ r.scope \in Scope
         /\ r.op = "finish" => /\ r.id \in Id /\ r.outcome \in {"failed", "passed"}
                               /\ r.remedy \in Remedy \cup {None}
         /\ r.op = "reset" => r.id \in Id
         /\ r.op = "bind" => r.lineage \in Lineage /\ r.expected \in ReviewBinding \cup {None}
<1>1. CASE r \in [op : {"begin"}, id : Id, scope : Scope]
  BY <1>1
<1>2. CASE r \in [op : {"finish"}, id : Id, outcome : {"failed", "passed"},
                  remedy : Remedy \cup {None}]
  BY <1>2
<1>3. CASE r \in [op : {"reset"}, id : Id]
  BY <1>3
<1>4. CASE r \in [op : {"bind"}, lineage : Lineage, expected : ReviewBinding \cup {None}]
  BY <1>4
<1> QED
  BY <1>1, <1>2, <1>3, <1>4 DEF Request

CountedLines(a, i, j) == \A n \in i .. j : a[n].lines \in Nat

\* A total of numbers of lines is one.
LEMMA TotalType ==
  ASSUME NEW a, NEW i \in Nat \ {0}, NEW j \in Nat, i - 1 <= j, CountedLines(a, i, j)
  PROVE  Total(a, i, j) \in Nat
<1>1. PICK f : Sums(f, a, i, j) /\ Total(a, i, j) = f[j]
  BY TotalSums
<1>2. f[i - 1] = 0 /\ \A n \in i .. j : f[n] = f[n - 1] + a[n].lines
  <2>1. Accumulates(f, a, i, j)
    BY <1>1, SumsStep
  <2> QED
    BY <2>1 DEF Accumulates
<1> DEFINE S == {n \in Nat : i - 1 <= n /\ n <= j /\ f[n] \notin Nat}
<1>3. CASE S = {}
  BY <1>1, <1>3
<1>4. CASE S # {}
  <2>1. PICK n \in S : \A m \in S : n <= m
    BY <1>4, SmallestExists
  <2>2. n \in i .. j /\ n - 1 \in Nat /\ i - 1 <= n - 1 /\ n - 1 \notin S
    BY <1>2, <2>1
  <2>3. f[n - 1] \in Nat /\ a[n].lines \in Nat
    BY <2>2 DEF CountedLines
  <2> QED
    BY <1>2, <2>2, <2>3
<1> QED
  BY <1>3, <1>4

\* What a legible status has.
LEMMA LegibleFields ==
  ASSUME NEW s, Legible(s)
  PROVE  /\ s \in StatusType /\ s.attempts \in Seq(Attempt)
         /\ Len(s.attempts) \in Nat /\ s.charged \in Nat /\ s.generation \in Nat
         /\ s.lines \in Nat /\ CurrentFrom(s) \in Nat \ {0}
         /\ CurrentFrom(s) - 1 <= Len(s.attempts)
         /\ s.objective # None => s.objective \in Scope /\ CurrentFrom(s) <= Len(s.attempts)
         /\ Active(s) => s.objective # None /\ LastAttempt(s) \in Attempt
<1>1. s \in StatusType /\ Charged(s)
  BY DEF Legible
<1>2. /\ s.attempts \in Seq(Attempt) /\ Len(s.attempts) \in Nat /\ s.charged \in Nat
      /\ s.generation \in Nat /\ s.lines \in Nat /\ s.objective \in Scope \cup {None}
  BY <1>1 DEF StatusType
<1>3. /\ s.charged <= Len(s.attempts) /\ (s.objective # None => s.charged > 0)
      /\ s.objective = None => ~Active(s)
  BY <1>1 DEF Charged
<1>4. Active(s) => LastAttempt(s) \in Attempt
  BY <1>2 DEF Active, LastAttempt
<1> QED
  BY <1>1, <1>2, <1>3, <1>4 DEF CurrentFrom

\* A begin adds an attempt to its objective, or starts a new one.
LEMMA BegunLegible ==
  ASSUME NEW s, Legible(s), NEW scope \in Scope, NEW e \in Event, e.tree \in Tree,
         BeginAgrees(s, scope, e)
  PROVE  Legible(Begun(s, scope, e))
<1> DEFINE g == s.generation + IF s.objective = None THEN 1 ELSE 0
           x == [generation |-> g, scope |-> scope, begin |-> e.tree, finish |-> None,
                 outcome |-> "running", lines |-> 0]
<1>0. PICK n, from, old : n = Len(s.attempts) /\ from = CurrentFrom(s) /\ old = s.attempts
  OBVIOUS
<1>1. /\ s \in StatusType /\ s.attempts \in Seq(Attempt) /\ n \in Nat
      /\ s.charged \in Nat /\ s.generation \in Nat /\ s.lines \in Nat
      /\ from \in Nat \ {0} /\ from - 1 <= n /\ from = n - s.charged + 1
      /\ old \in Seq(Attempt) /\ n = Len(old)
  BY <1>0, LegibleFields DEF CurrentFrom
<1>2. /\ Charged(s) /\ Budgeted(old) /\ s.valid /\ s.charged <= n
      /\ s.objective # None => s.charged > 0
      /\ s.objective = None => s.charged = 0
      /\ s.lines = Total(old, from, n)
  BY <1>0 DEF Legible, Charged
<1>3. g \in Nat
  BY <1>1
<1>4. x \in Attempt
  BY <1>3 DEF Attempt
<1>5. PICK b : b = Append(old, x)
  OBVIOUS
<1>6. /\ b \in Seq(Attempt) /\ Len(b) = n + 1 /\ b[n + 1] = x
      /\ \A i \in 1 .. n : b[i] = old[i]
      /\ \A i \in 1 .. n + 1 : i = n + 1 \/ i \in 1 .. n
  BY <1>1, <1>4, <1>5
<1>7. PICK c \in Nat : c = s.charged + 1
  BY <1>1
<1>8. PICK t : t = Begun(s, scope, e)
  OBVIOUS
<1>9. t = [s EXCEPT !.objective = scope, !.generation = g, !.charged = c, !.attempts = b]
  BY <1>0, <1>5, <1>7, <1>8 DEF Begun
<1>10. /\ x.generation = g /\ x.scope = scope /\ x.begin = e.tree /\ x.lines = 0
       /\ x.outcome = "running"
  OBVIOUS
<1> HIDE DEF g, x
<1>11. /\ t \in StatusType /\ t.objective = scope /\ t.generation = g /\ t.charged = c
       /\ t.attempts = b /\ t.lines = s.lines /\ t.valid = s.valid
  BY <1>1, <1>3, <1>6, <1>9 DEF StatusType
<1>12. CurrentFrom(t) = from /\ Len(t.attempts) = n + 1 /\ LastAttempt(t) = x
  <2>1. t.attempts = b /\ t.charged = s.charged + 1 /\ Len(b) = n + 1
    BY <1>6, <1>7, <1>11
  <2>2. (n + 1) - (s.charged + 1) + 1 = from
    BY <1>1, SMTT(30)
  <2> QED
    BY <1>6, <2>1, <2>2 DEF CurrentFrom, LastAttempt
<1>13. scope # None
  BY NoneAssumption
<1>14. \A i \in 1 .. n :
         IF i < from THEN old[i].generation < g
                     ELSE old[i].generation = g /\ old[i].scope = scope
  <2>1. SUFFICES ASSUME NEW i \in 1 .. n
                 PROVE  IF i < from THEN old[i].generation < g
                        ELSE old[i].generation = g /\ old[i].scope = scope
    OBVIOUS
  <2>2. IF i < from
        THEN old[i].generation < g
        ELSE old[i].generation = s.generation /\ old[i].scope = s.objective
    BY <1>0, <1>2 DEF Charged, g
  <2>3. CASE s.objective = None
    <3>1. from = n + 1
      BY <1>1, <1>2, <2>3
    <3> QED
      BY <1>1, <2>2, <2>3, <3>1 DEF g
  <2>4. CASE s.objective # None
    <3>1. scope = s.objective /\ g = s.generation
      BY <1>1, <2>4 DEF BeginAgrees, g
    <3> QED
      BY <2>2, <2>4, <3>1
  <2> QED
    BY <2>3, <2>4
<1>15. Total(b, from, n) = s.lines
  <2>1. SameLines(b, old, from, n)
    BY <1>1, <1>6 DEF SameLines
  <2>2. Total(b, from, n) = Total(old, from, n)
    BY <1>1, <2>1, TotalAgree
  <2> QED
    BY <1>2, <2>2
<1>16. Charged(t)
  <2>1. t.charged <= Len(t.attempts) /\ t.charged > 0
    BY <1>1, <1>2, <1>7, <1>11, <1>12, SMTT(30)
  <2>2. \A i \in 1 .. n + 1 :
          IF i < from THEN b[i].generation < g
                      ELSE b[i].generation = g /\ b[i].scope = scope
    BY <1>1, <1>6, <1>10, <1>14, SMTT(30)
  <2>3. Total(b, from, n + 1) = s.lines
    <3>1. from <= n + 1 /\ n + 1 \in Nat /\ (n + 1) - 1 = n
      BY <1>1
    <3>2. Total(b, from, n + 1) = Total(b, from, (n + 1) - 1) + b[n + 1].lines
      BY <1>1, <3>1, TotalMore
    <3> QED
      BY <1>1, <1>6, <1>10, <1>15, <3>1, <3>2
  <2>4. \A i \in 1 .. Len(t.attempts) :
          IF i < CurrentFrom(t)
          THEN t.attempts[i].generation < t.generation + IF t.objective = None THEN 1 ELSE 0
          ELSE t.attempts[i].generation = t.generation /\ t.attempts[i].scope = t.objective
    <3>1. t.generation + (IF t.objective = None THEN 1 ELSE 0) = g
      BY <1>3, <1>11, <1>13
    <3> QED
      BY <1>11, <1>12, <2>2, <3>1
  <2>5. t.lines = Total(t.attempts, CurrentFrom(t), Len(t.attempts))
    BY <1>11, <1>12, <2>3
  <2>6. LastAttempt(t).lines = 0 /\ t.objective # None
    BY <1>10, <1>11, <1>12, <1>13
  <2> QED
    BY <2>1, <2>4, <2>5, <2>6 DEF Charged
<1>17. Budgeted(b)
  <2>1. SUFFICES ASSUME NEW i \in 1 .. n + 1
                 PROVE  \E k : IsFirst(b, i, k) /\ Within(b, i, k)
    BY <1>6 DEF Budgeted
  <2>2. CASE i \in 1 .. n
    <3>1. PICK k : IsFirst(old, i, k) /\ Within(old, i, k)
      BY <1>1, <1>2, <2>2 DEF Budgeted
    <3>2. \A m \in 1 .. i : old[m] = b[m]
      BY <1>1, <1>6, <2>2
    <3>3. \A m \in 1 .. i - 1 : old[m] = b[m]
      BY <1>1, <1>6, <2>2
    <3>4. i \in Nat \ {0}
      BY <2>2
    <3> QED
      BY <3>1, <3>2, <3>3, <3>4, BudgetKept
  <2>3. CASE i = n + 1
    <3>1. from \in 1 .. i /\ i - from = s.charged /\ i - 1 = n /\ i \in 1 .. i
      BY <1>1, <1>2, <2>3, SMTT(30)
    <3>2. IsFirst(b, i, from)
      <4>1. \A m \in from .. i : b[m].generation = g
        BY <1>1, <1>6, <1>10, <1>14, <2>3, SMTT(30)
      <4>2. \A m \in 1 .. from - 1 : b[m].generation < g /\ b[m].generation \in Nat
        <5>1. SUFFICES ASSUME NEW m \in 1 .. from - 1
                       PROVE  b[m].generation < g /\ b[m].generation \in Nat
          OBVIOUS
        <5>2. m \in 1 .. n /\ m < from /\ b[m] \in Attempt
          BY <1>1, <1>6, <5>1
        <5> QED
          BY <1>6, <1>14, <5>2 DEF Attempt
      <4>3. b[i].generation = g
        BY <1>6, <1>10, <2>3
      <4> QED
        BY <1>3, <3>1, <4>1, <4>2, <4>3 DEF IsFirst
    <3>3. b[i].scope = scope /\ b[i].begin = e.tree
      BY <1>6, <1>10, <2>3
    <3>4. s.charged < MaxAttempts[scope] /\ s.lines < MaxLines[scope]
      BY DEF BeginAgrees, BudgetLeft
    <3>5. CASE i > from
      <4>1. s.charged > 0 /\ s.objective # None
        BY <1>1, <1>2, <3>1, <3>5, SMTT(30)
      <4>2. from \in 1 .. n
        BY <1>1, <3>1, <3>5
      <4>3. b[from].scope = scope
        BY <1>1, <1>6, <1>14, <4>2
      <4>4. e.tree = LastAttempt(s).finish
        BY <4>1 DEF BeginAgrees
      <4>5. e.tree = b[i - 1].finish
        <5>1. LastAttempt(s) = old[n]
          BY <1>0 DEF LastAttempt
        <5>2. n \in 1 .. n
          BY <1>1, <4>2
        <5> QED
          BY <1>6, <3>1, <4>4, <5>1, <5>2
      <4> QED
        BY <1>15, <3>1, <3>2, <3>3, <3>4, <4>3, <4>5 DEF Within
    <3>6. CASE ~(i > from)
      BY <3>1, <3>2, <3>3, <3>4, <3>6 DEF Within
    <3> QED
      BY <3>5, <3>6
  <2> QED
    BY <1>6, <2>1, <2>2, <2>3
<1> QED
  BY <1>2, <1>8, <1>11, <1>16, <1>17 DEF Legible
\* A finish settles the running attempt and charges its lines.
LEMMA FinishedLegible ==
  ASSUME NEW s, Legible(s), NEW r \in Request, r.op = "finish",
         NEW e \in Event, e.tree \in Tree, FinishAgrees(s, e)
  PROVE  /\ Legible(Finished(s, r, e))
         /\ Finished(s, r, e).objective = s.objective
         /\ Finished(s, r, e).binding = s.binding
         /\ Finished(s, r, e).complete <=> r.outcome = "passed" /\ ~e.exceeded
         /\ LastAttempt(Finished(s, r, e)).finish = e.tree
<1> DEFINE passed == r.outcome = "passed" /\ ~e.exceeded
           decides == ~passed /\ (e.exceeded \/ ~BudgetLeft([s EXCEPT !.lines = s.lines + e.lines],
                                                            s.objective))
<1>0. PICK n, from, old : n = Len(s.attempts) /\ from = CurrentFrom(s) /\ old = s.attempts
  OBVIOUS
<1>1. /\ s \in StatusType /\ n \in Nat
      /\ s.charged \in Nat /\ s.generation \in Nat /\ s.lines \in Nat
      /\ from \in Nat \ {0} /\ from - 1 <= n /\ from = n - s.charged + 1
      /\ old \in Seq(Attempt) /\ n = Len(old)
  BY <1>0, LegibleFields DEF CurrentFrom
<1>2. /\ Charged(s) /\ Budgeted(old) /\ s.valid /\ s.charged <= n
      /\ s.objective # None => s.charged > 0
      /\ s.objective = None => s.charged = 0
      /\ s.lines = Total(old, from, n)
  BY <1>0 DEF Legible, Charged
<1>3. /\ Active(s) /\ s.objective # None /\ from <= n /\ n \in 1 .. n
      /\ old[n] \in Attempt /\ old[n].lines = 0
  BY <1>0, <1>1, <1>2, LegibleFields, SMTT(30) DEF FinishAgrees, Charged, LastAttempt
<1>4. e.lines \in Nat /\ e.exceeded \in BOOLEAN /\ r.id \in Id /\ r.outcome \in {"failed", "passed"}
  BY RequestFields DEF Event
<1>5. PICK x : x = [old[n] EXCEPT !.finish = e.tree, !.outcome = r.outcome, !.lines = e.lines]
  OBVIOUS
<1>6. /\ x \in Attempt /\ x.generation = old[n].generation /\ x.scope = old[n].scope
      /\ x.begin = old[n].begin /\ x.finish = e.tree /\ x.lines = e.lines
      /\ x.outcome = r.outcome
  BY <1>3, <1>4, <1>5 DEF Attempt
<1>7. PICK b : b = [old EXCEPT ![n] = x]
  OBVIOUS
<1>8. /\ b \in Seq(Attempt) /\ Len(b) = n /\ b[n] = x
      /\ \A i \in 1 .. n : i # n => b[i] = old[i]
  BY <1>1, <1>3, <1>6, <1>7
<1>9. PICK l \in Nat : l = s.lines + e.lines
  BY <1>1, <1>4
<1>10. PICK done, due \in BOOLEAN : done = passed /\ due = decides
  OBVIOUS
<1>11. PICK t : t = Finished(s, r, e)
  OBVIOUS
<1> DEFINE id == r.id
<1>id. id \in 0 .. MaxRequests
  BY <1>4, BoundAssumption DEF Id
<1>12. t = [s EXCEPT !.attempts = b, !.lines = l, !.evidence = id, !.complete = done,
                     !.decision = due]
  BY <1>0, <1>5, <1>7, <1>9, <1>10, <1>11 DEF Finished
<1> HIDE DEF passed, decides, id
<1>13. /\ t \in StatusType /\ t.attempts = b /\ t.lines = l /\ t.objective = s.objective
       /\ t.charged = s.charged /\ t.generation = s.generation /\ t.valid = s.valid
       /\ t.complete = done /\ t.binding = s.binding
  BY <1>1, <1>8, <1>12, <1>id DEF StatusType
<1>14. CurrentFrom(t) = from /\ Len(t.attempts) = n /\ LastAttempt(t) = x
  BY <1>1, <1>8, <1>13 DEF CurrentFrom, LastAttempt
<1>15. Total(b, from, n) = l
  <2>0. from \in Nat \ {0} /\ n \in Nat /\ from <= n
    BY <1>1, <1>3
  <2>1. n - 1 \in Nat /\ from - 1 <= n - 1
    BY <1>1, <1>3
  <2>2. SameLines(b, old, from, n - 1)
    <3>1. \A i \in from .. n - 1 : i \in 1 .. n /\ i # n
      BY <1>1
    <3> QED
      BY <1>8, <3>1 DEF SameLines
  <2>3. Total(b, from, n - 1) = Total(old, from, n - 1)
    BY <1>1, <2>1, <2>2, TotalAgree
  <2>4. Total(b, from, n) = Total(b, from, n - 1) + b[n].lines
    BY <2>0, TotalMore
  <2>5. Total(old, from, n) = Total(old, from, n - 1) + 0
    <3>1. Total(old, from, n) = Total(old, from, n - 1) + old[n].lines
      BY <2>0, TotalMore
    <3> QED
      BY <1>3, <3>1
  <2>6. Total(old, from, n - 1) \in Nat
    <3>1. \A i \in 1 .. n : old[i].lines \in Nat
      <4>1. \A i \in 1 .. n : old[i] \in Attempt
        BY <1>1
      <4> QED
        BY <4>1 DEF Attempt
    <3>2. \A i \in from .. n - 1 : i \in 1 .. n
      BY <1>1
    <3>3. CountedLines(old, from, n - 1)
      BY <3>1, <3>2 DEF CountedLines
    <3> QED
      BY <1>1, <2>1, <3>3, TotalType
  <2>7. Total(old, from, n - 1) = s.lines
    BY <1>1, <1>2, <1>3, <2>5, <2>6
  <2> QED
    BY <1>6, <1>8, <1>9, <2>3, <2>4, <2>7
<1>16. Charged(t)
  <2>1. \A i \in 1 .. n :
          IF i < from
          THEN old[i].generation < s.generation + IF s.objective = None THEN 1 ELSE 0
          ELSE old[i].generation = s.generation /\ old[i].scope = s.objective
    BY <1>0, <1>2 DEF Charged
  <2>2. \A i \in 1 .. n : b[i].generation = old[i].generation /\ b[i].scope = old[i].scope
    BY <1>6, <1>8
  <2>3. \A i \in 1 .. n :
          IF i < from
          THEN b[i].generation < t.generation + IF t.objective = None THEN 1 ELSE 0
          ELSE b[i].generation = t.generation /\ b[i].scope = t.objective
    BY <1>13, <2>1, <2>2
  <2>4. ~Active(t)
    BY <1>4, <1>6, <1>14 DEF Active
  <2> QED
    BY <1>2, <1>3, <1>13, <1>14, <1>15, <2>3, <2>4 DEF Charged
<1>17. Budgeted(b)
  <2>1. SUFFICES ASSUME NEW i \in 1 .. n
                 PROVE  \E k : IsFirst(b, i, k) /\ Within(b, i, k)
    BY <1>8 DEF Budgeted
  <2>2. PICK k : IsFirst(old, i, k) /\ Within(old, i, k)
    BY <1>1, <1>2 DEF Budgeted
  <2>3. \A m \in 1 .. i : /\ old[m].generation = b[m].generation
                          /\ old[m].scope = b[m].scope
                          /\ old[m].begin = b[m].begin
    <3>1. \A m \in 1 .. i : m \in 1 .. n
      BY <1>1
    <3> QED
      BY <1>6, <1>8, <3>1
  <2>4. \A m \in 1 .. i - 1 : old[m].lines = b[m].lines /\ old[m].finish = b[m].finish
    <3>1. \A m \in 1 .. i - 1 : m \in 1 .. n /\ m # n
      BY <1>1
    <3> QED
      BY <1>8, <3>1
  <2>5. i \in Nat \ {0}
    OBVIOUS
  <2> QED
    BY <2>2, <2>3, <2>4, <2>5, BudgetKept
<1> QED
  BY <1>2, <1>6, <1>10, <1>11, <1>13, <1>14, <1>16, <1>17 DEF Legible, passed

\* A binding changes nothing else.
LEMMA BoundLegible ==
  ASSUME NEW s, Legible(s), NEW e, e.binding \in ReviewBinding
  PROVE  /\ Legible(Bound(s, e))
         /\ Bound(s, e).binding = e.binding
         /\ Bound(s, e).complete = s.complete
         /\ Bound(s, e).attempts = s.attempts
<1>1. PICK t : t = Bound(s, e)
  OBVIOUS
<1>2. s \in StatusType /\ s.valid /\ Charged(s) /\ Budgeted(s.attempts)
  BY DEF Legible
<1>3. /\ t \in StatusType /\ t.valid = s.valid /\ t.objective = s.objective
      /\ t.generation = s.generation /\ t.attempts = s.attempts /\ t.charged = s.charged
      /\ t.lines = s.lines /\ t.complete = s.complete /\ t.binding = e.binding
  BY <1>1, <1>2 DEF Bound, StatusType
<1>4. Charged(t)
  BY <1>2, <1>3 DEF Charged, CurrentFrom, Active, LastAttempt
<1> QED
  BY <1>1, <1>2, <1>3, <1>4 DEF Legible

\* A reset leaves the attempts and their generations.
LEMMA ResetLegible ==
  ASSUME NEW s, Legible(s), ~Active(s)
  PROVE  Legible(AfterReset(s)) /\ ~AfterReset(s).complete
<1>1. PICK t : t = AfterReset(s)
  OBVIOUS
<1>2. s \in StatusType /\ s.valid /\ Charged(s) /\ Budgeted(s.attempts)
  BY DEF Legible
<1>3. PICK z \in Nat : z = 0 /\ z \in 0 .. MaxRequests
  BY BoundAssumption
<1>4. t = [s EXCEPT !.objective = None, !.charged = z, !.lines = z, !.evidence = z,
                    !.decision = FALSE, !.complete = FALSE]
  BY <1>1, <1>3 DEF AfterReset
<1>5. /\ t \in StatusType /\ t.valid = s.valid /\ t.objective = None
      /\ t.generation = s.generation /\ t.attempts = s.attempts /\ t.charged = z
      /\ t.lines = z /\ t.complete = FALSE
  BY <1>2, <1>3, <1>4 DEF StatusType
<1>6. PICK n, from, old : n = Len(s.attempts) /\ from = CurrentFrom(s) /\ old = s.attempts
  OBVIOUS
<1>7. n \in Nat /\ s.generation \in Nat /\ n + 1 \in Nat \ {0} /\ old \in Seq(Attempt)
      /\ n = Len(old)
  BY <1>6, LegibleFields
<1>8. CurrentFrom(t) = n + 1
  BY <1>3, <1>5, <1>6, <1>7 DEF CurrentFrom
<1>9. \A i \in 1 .. n : i < n + 1 /\ old[i].generation < s.generation + 1
  <2>1. SUFFICES ASSUME NEW i \in 1 .. n
                 PROVE  i < n + 1 /\ old[i].generation < s.generation + 1
    OBVIOUS
  <2>2. IF i < from
        THEN old[i].generation < s.generation + IF s.objective = None THEN 1 ELSE 0
        ELSE old[i].generation = s.generation /\ old[i].scope = s.objective
    BY <1>2, <1>6 DEF Charged
  <2>3. old[i].generation \in Nat
    <3>1. old[i] \in Attempt
      BY <1>7
    <3> QED
      BY <3>1 DEF Attempt
  <2> QED
    BY <1>7, <2>2, <2>3
<1>10. Total(old, n + 1, n) = 0
  <2>1. (n + 1) - 1 = n
    BY <1>7
  <2>2. Total(old, n + 1, (n + 1) - 1) = 0
    BY <1>7, TotalNone
  <2> QED
    BY <2>1, <2>2
<1>11. ~Active(t)
  BY <1>5 DEF Active, LastAttempt
<1>12. Charged(t)
  <2>1. \A i \in 1 .. Len(t.attempts) :
          IF i < CurrentFrom(t)
          THEN t.attempts[i].generation < t.generation + IF t.objective = None THEN 1 ELSE 0
          ELSE t.attempts[i].generation = t.generation /\ t.attempts[i].scope = t.objective
    BY <1>5, <1>6, <1>8, <1>9
  <2>2. t.lines = Total(t.attempts, CurrentFrom(t), Len(t.attempts))
    BY <1>3, <1>5, <1>6, <1>8, <1>10
  <2>3. t.charged = 0 /\ t.charged <= Len(t.attempts) /\ t.objective = None
    BY <1>3, <1>5, <1>6, <1>7
  <2> QED
    BY <1>11, <2>1, <2>2, <2>3 DEF Charged
<1> QED
  BY <1>1, <1>2, <1>5, <1>12 DEF Legible

\* The first status is legible.
LEMMA NewLegible == Legible(NewStatus)
<1>0. PICK e \in Seq(Attempt) : e = <<>>
  BY EmptySeq
<1>1. PICK z \in Nat : z = 0 /\ z \in 0 .. MaxRequests
  BY BoundAssumption
<1>2. NewStatus = [valid |-> TRUE, objective |-> None, generation |-> z, attempts |-> e,
                   charged |-> z, lines |-> z, evidence |-> z, decision |-> FALSE,
                   complete |-> FALSE, binding |-> None]
  BY <1>0, <1>1 DEF NewStatus
<1>3. NewStatus \in StatusType
  BY <1>0, <1>1, <1>2 DEF StatusType
<1>4. /\ NewStatus.valid /\ NewStatus.attempts = <<>> /\ NewStatus.charged = 0
      /\ NewStatus.lines = 0 /\ NewStatus.objective = None /\ Len(<<>>) = 0
  BY DEF NewStatus
<1>5. Total(<<>>, 1, 0) = 0
  <2>1. 1 \in Nat \ {0} /\ 1 - 1 = 0
    OBVIOUS
  <2>2. Total(<<>>, 1, 1 - 1) = 0
    BY <2>1, TotalNone
  <2> QED
    BY <2>1, <2>2
<1>6. CurrentFrom(NewStatus) = 1 /\ ~Active(NewStatus)
  BY <1>4 DEF CurrentFrom, Active
<1>7. Charged(NewStatus)
  BY <1>4, <1>5, <1>6 DEF Charged
<1>8. Budgeted(NewStatus.attempts)
  BY <1>4 DEF Budgeted
<1> QED
  BY <1>3, <1>4, <1>7, <1>8 DEF Legible

\* A record that follows a legible status leads to one.
LEMMA AppliedLegible ==
  ASSUME NEW s, Legible(s), NEW record, WellFormed(record), Follows(s, record)
  PROVE  Legible(Applied(s, record))
<1>1. PICK r, e : r = record.request /\ e = record.event
  OBVIOUS
<1>2. /\ r \in Request /\ e \in Event /\ r.op \in {"begin", "finish", "reset", "bind"}
      /\ r.op \in {"begin", "finish"} => e.tree \in Tree
      /\ r.op = "bind" \/ (Remediates(r) /\ ~e.exceeded) => e.binding \in ReviewBinding
  BY <1>1, RequestFields DEF WellFormed, Record
<1>3. /\ r.op = "begin" => BeginAgrees(s, r.scope, e)
      /\ r.op = "finish" => FinishAgrees(s, e)
      /\ r.op = "reset" => ~Active(s)
  BY <1>1 DEF Follows
<1>4. Applied(s, record) =
        CASE r.op = "begin" -> Begun(s, r.scope, e)
          [] r.op = "finish" /\ (r.remedy = None \/ e.exceeded) -> Finished(s, r, e)
          [] r.op = "finish" /\ r.remedy # None /\ ~e.exceeded -> Bound(Finished(s, r, e), e)
          [] r.op = "reset" -> AfterReset(s)
          [] OTHER -> Bound(s, e)
  BY <1>1 DEF Applied
<1>5. CASE r.op = "begin"
  <2>1. r.scope \in Scope
    BY <1>2, <1>5, RequestFields
  <2> QED
    BY <1>2, <1>3, <1>4, <1>5, <2>1, BegunLegible
<1>6. CASE r.op = "finish"
  <2>1. Legible(Finished(s, r, e))
    BY <1>2, <1>3, <1>6, FinishedLegible
  <2>2. CASE r.remedy = None \/ e.exceeded
    BY <1>4, <1>6, <2>1, <2>2
  <2>3. CASE r.remedy # None /\ ~e.exceeded
    <3>1. e.binding \in ReviewBinding
      BY <1>2, <1>6, <2>3 DEF Remediates
    <3> QED
      BY <1>4, <1>6, <2>1, <2>3, <3>1, BoundLegible
  <2> QED
    BY <2>2, <2>3
<1>7. CASE r.op = "reset"
  BY <1>3, <1>4, <1>7, ResetLegible
<1>8. CASE r.op = "bind"
  BY <1>2, <1>4, <1>8, BoundLegible
<1> QED
  BY <1>2, <1>5, <1>6, <1>7, <1>8

\* The attempts of a legible status kept their budget, as BudgetHeld says it.
LEMMA LegibleWithin ==
  ASSUME NEW s, Legible(s), NEW i \in 1 .. Len(s.attempts)
  PROVE  Within(s.attempts, i, FirstOf(s.attempts, i))
<1>1. PICK k : IsFirst(s.attempts, i, k) /\ Within(s.attempts, i, k)
  BY DEF Legible, Budgeted
<1>2. i \in Nat
  OBVIOUS
<1> QED
  BY <1>1, <1>2, FirstIsFirst

-----------------------------------------------------------------------------
(* The inductive invariant.                                                 *)

\* What a client may ask: a finish that remediates is a passed one.
Answerable(r) == Remediates(r) => r.outcome = "passed"

\* What a client at its second reading of the world relies on.
Ready(s, r, seen) ==
  /\ r.op \in {"finish", "bind"}
  /\ s.binding # None => seen.old = None
  /\ r.op = "finish" => /\ Active(s)
                        /\ seen.tree \in Tree
  /\ Remediates(r) => /\ Effective(s, seen.old) = r.remedy.expected
                      /\ s.evidence # 0 => s.evidence = r.remedy.evidence

\* A record that may be published: replay accepts it, and if it completes a
\* bound objective, the review that stays bound is of its candidate.
Completes(record) ==
  record.request.op = "finish" /\ record.request.outcome = "passed" /\ ~record.event.exceeded

Publishable(s, record) ==
  /\ WellFormed(record)
  /\ Follows(s, record)
  /\ Completes(record) =>
       IF Remediates(record.request) THEN record.event.binding.tree = record.event.tree
       ELSE s.binding # None => s.binding.tree = record.event.tree

Publishing(c) == c.pc \in {"publish", "replace"}

ClientOk(c, s) ==
  /\ c \in Client
  /\ c.pc # "idle" => c.request \in Request /\ Answerable(c.request)
  /\ c.pc = "authorize" => Ready(s, c.request, c.scratch)
  /\ Publishing(c) => Publishable(s, c.scratch.record)

\* The review that a remediation selected continues the bound one.
Recovers(c, s) ==
  LET record == c.scratch.record
  IN  Publishing(c) /\ Completes(record) /\ Remediates(record.request) /\ s.binding # None =>
        s.binding.lineage \in ScopeChain(record.event.binding.lineage)

\* What HEAD may be after a power loss are beginnings of what it is.
Heads ==
  \A h \in heads : /\ Legible(Replay(h))
                   /\ Len(h) <= Len(head)
                   /\ \A i \in 1 .. Len(h) : h[i] = head[i]

\* A lineage without a review continues none.
Unseen == \A l \in Lineage : authority[l].state = "none" => authority[l] = NoReview

ClientsOk == \A p \in Process : ClientOk(client[p], Status) /\ Recovers(client[p], Status)

RInv == IInv /\ TypeOK /\ Heads /\ Unseen /\ ClientsOk

-----------------------------------------------------------------------------
(* The callbacks.                                                           *)

\* An event has its fields.
LEMMA EventType ==
  ASSUME NEW t \in Tree \cup {None}, NEW lines \in Nat, NEW exceeded \in BOOLEAN,
         NEW binding \in ReviewBinding \cup {None}, NEW import \in ReviewBinding \cup {None},
         NEW e, e = EventOf(t, lines, exceeded, binding, import)
  PROVE  /\ e \in Event /\ e.tree = t /\ e.lines = lines /\ e.exceeded = exceeded
         /\ e.binding = binding /\ e.import = import
  BY DEF EventOf, Event

\* The scratch of a client with a record has its type.
LEMMA ScratchType ==
  /\ NoScratch = [tree |-> None, old |-> None, record |-> None]
  /\ \A record \in Record :
       /\ [NoScratch EXCEPT !.record = record] \in
            [tree : Tree \cup {None}, old : ReviewBinding \cup {None}, record : Record \cup {None}]
       /\ [NoScratch EXCEPT !.record = record].record = record
  BY DEF NoScratch

\* A callback that publishes leaves a client with a record that may be.
LEMMA PublishOk ==
  ASSUME NEW p \in Process, NEW s, client[p] \in Client, client[p].request \in Request,
         Answerable(client[p].request), NEW e \in Event,
         NEW record, record = [request |-> client[p].request, event |-> e],
         Publishable(s, record), NEW c \in Publish(p, e)
  PROVE  ClientOk(c, s) /\ c.scratch.record = record /\ c.pc = "publish"
<1>1. record \in Record
  BY DEF Publishable, WellFormed
<1>2. PICK x : x = [NoScratch EXCEPT !.record = record]
  OBVIOUS
<1>3. /\ x \in [tree : Tree \cup {None}, old : ReviewBinding \cup {None},
                record : Record \cup {None}]
      /\ x.record = record
  BY <1>1, <1>2, ScratchType
<1>4. c = [client[p] EXCEPT !.pc = "publish", !.scratch = x]
  BY <1>2 DEF Publish, Outcome
<1>5. c \in Client /\ c.pc = "publish" /\ c.scratch = x /\ c.request = client[p].request
  BY <1>3, <1>4 DEF Client, Phase
<1> QED
  BY <1>3, <1>5 DEF ClientOk, Publishing

\* The scratch of a client that goes on to ask for the review.
AskingWith(t, old) == [tree |-> t, old |-> old, record |-> None]

\* A client that goes on to ask for the review relies on what it has read.
LEMMA AuthorizeOk ==
  ASSUME NEW p \in Process, NEW s, client[p] \in Client, client[p].request \in Request,
         Answerable(client[p].request), NEW t, t \in Tree \cup {None},
         NEW old, old \in ReviewBinding \cup {None}, NEW x, x = AskingWith(t, old),
         NEW c, c \in Outcome(p, "authorize", x), Ready(s, client[p].request, x)
  PROVE  ClientOk(c, s) /\ c.pc = "authorize"
<1>1. x = [tree |-> t, old |-> old, record |-> None]
  BY DEF AskingWith
<1>2. /\ x \in [tree : Tree \cup {None}, old : ReviewBinding \cup {None},
                record : Record \cup {None}]
      /\ x.tree = t /\ x.old = old
  BY <1>1
<1>3. c = [client[p] EXCEPT !.pc = "authorize", !.scratch = x]
  BY DEF Outcome
<1>4. c \in Client /\ c.pc = "authorize" /\ c.scratch = x /\ c.request = client[p].request
  BY <1>2, <1>3 DEF Client, Phase
<1> QED
  BY <1>2, <1>4 DEF ClientOk, Publishing

\* A client that makes durable what is there relies on nothing.
LEMMA ResyncOk ==
  ASSUME NEW p \in Process, NEW s, client[p] \in Client, client[p].request \in Request,
         Answerable(client[p].request), NEW c \in Outcome(p, "resync", NoScratch)
  PROVE  ClientOk(c, s) /\ c.pc = "resync"
<1>1. PICK x : x = NoScratch
  OBVIOUS
<1>2. x \in [tree : Tree \cup {None}, old : ReviewBinding \cup {None},
             record : Record \cup {None}]
  BY <1>1 DEF NoScratch
<1>3. c = [client[p] EXCEPT !.pc = "resync", !.scratch = x]
  BY <1>1 DEF Outcome
<1>4. c \in Client /\ c.pc = "resync" /\ c.request = client[p].request
  BY <1>2, <1>3 DEF Client, Phase
<1> QED
  BY <1>4 DEF ClientOk, Publishing

\* What Finish measures.
LEMMA MeasuredFacts ==
  ASSUME NEW s, Legible(s), Active(s), NEW t \in Tree,
         NEW binding \in ReviewBinding \cup {None}, NEW import \in ReviewBinding \cup {None},
         NEW e, e = MeasuredEvent(s, t, binding, import)
  PROVE  /\ e \in Event /\ e.tree = t /\ e.binding = binding /\ e.import = import
         /\ FinishAgrees(s, e)
<1>1. LastAttempt(s) \in Attempt /\ s.objective \in Scope /\ s.lines \in Nat
  BY LegibleFields
<1>2. LastAttempt(s).begin \in Tree
  BY <1>1 DEF Attempt
<1>3. PICK l : l = Charge[<<LastAttempt(s).begin, t>>]
  OBVIOUS
<1>4. l \in Nat
  BY <1>2, <1>3, BudgetAssumption
<1>5. PICK x \in BOOLEAN : x = (s.lines + l > MaxLines[s.objective])
  <2> DEFINE over == s.lines + l > MaxLines[s.objective]
  <2>1. over \in BOOLEAN
    OBVIOUS
  <2> HIDE DEF over
  <2> QED
    BY <2>1 DEF over
<1>6. e = EventOf(t, l, x, binding, import)
  BY <1>3, <1>5 DEF MeasuredEvent
<1>7. /\ e \in Event /\ e.tree = t /\ e.lines = l /\ e.exceeded = x
      /\ e.binding = binding /\ e.import = import
  BY <1>4, <1>6, EventType
<1> QED
  BY <1>5, <1>7 DEF FinishAgrees

\* A record has its fields.
LEMMA RecordType ==
  ASSUME NEW r \in Request, NEW e \in Event, NEW record, record = [request |-> r, event |-> e]
  PROVE  record \in Record /\ record.request = r /\ record.event = e
  BY DEF Record

\* The events that are not measured: of a begin or a reset, and of a bind.
LEMMA PlainEvents ==
  /\ \A t \in Tree : LET e == EventOf(t, 0, FALSE, None, None)
                     IN  e \in Event /\ e.tree = t
  /\ \A b \in ReviewBinding, old \in ReviewBinding \cup {None} :
       LET e == EventOf(None, 0, FALSE, b, old)
       IN  e \in Event /\ e.binding = b /\ e.import = old
<1>1. 0 \in Nat /\ FALSE \in BOOLEAN /\ None \in Tree \cup {None}
      /\ None \in ReviewBinding \cup {None}
  OBVIOUS
<1>2. PICK z \in Nat : z = 0
  OBVIOUS
<1>3. ASSUME NEW t \in Tree
      PROVE  LET e == EventOf(t, 0, FALSE, None, None) IN e \in Event /\ e.tree = t
  <2>1. t \in Tree \cup {None}
    OBVIOUS
  <2>2. PICK e : e = EventOf(t, z, FALSE, None, None)
    OBVIOUS
  <2> QED
    BY <1>2, <2>2 DEF EventOf, Event
<1>4. ASSUME NEW b \in ReviewBinding, NEW old \in ReviewBinding \cup {None}
      PROVE  LET e == EventOf(None, 0, FALSE, b, old)
             IN  e \in Event /\ e.binding = b /\ e.import = old
  <2>1. b \in ReviewBinding \cup {None}
    OBVIOUS
  <2>2. PICK e : e = EventOf(None, z, FALSE, b, old)
    OBVIOUS
  <2> QED
    BY <1>2, <2>2 DEF EventOf, Event
<1> QED
  BY <1>3, <1>4

\* What the invariant says of one client.
LEMMA AtClient ==
  ASSUME RInv, NEW p \in Process
  PROVE  /\ Legible(Status) /\ client[p] \in Client /\ ClientOk(client[p], Status)
         /\ Recovers(client[p], Status)
         /\ client[p].pc # "idle" =>
              client[p].request \in Request /\ Answerable(client[p].request)
         /\ tree \in Tree /\ legacy \in ReviewBinding \cup {None}
         /\ authority \in [Lineage -> Review]
<1>1. head \in heads
  BY DEF RInv, IInv, Chains
<1>2. Legible(Status)
  BY <1>1 DEF RInv, Heads, Status
<1> QED
  BY <1>2 DEF RInv, TypeOK, ClientsOk, ClientOk

\* The legacy binding is looked at only when the status has none.
LEMMA LegacyFacts ==
  ASSUME RInv, NEW s, NEW r, NEW old, old = LegacyRead(s, r)
  PROVE  old \in ReviewBinding \cup {None} /\ (s.binding # None => old = None)
  BY DEF RInv, TypeOK, LegacyRead

\* What the callbacks of Begin, Reset, Finish and bind let through.
LEMMA BuiltOk ==
  ASSUME RInv, NEW p \in Process, client[p].pc = "ready", NEW s, s = Status, NEW c \in Built(p)
  PROVE  ClientOk(c, s) /\ Recovers(c, s)
<1>1. PICK r : r = client[p].request
  OBVIOUS
<1>2. /\ Legible(s) /\ client[p] \in Client /\ r \in Request /\ Answerable(r) /\ tree \in Tree
  BY <1>1, AtClient
<1>3. r.op \in {"begin", "finish", "reset", "bind"}
  BY <1>2, RequestFields
<1>4. ASSUME NEW e \in Event, c \in Publish(p, e), e.tree \in Tree, r.op # "bind",
             ~Remediates(r), Follows(s, [request |-> r, event |-> e]),
             r.op = "finish" /\ r.outcome = "passed" => s.binding = None
      PROVE  ClientOk(c, s) /\ Recovers(c, s)
  <2>1. PICK record : record = [request |-> r, event |-> e]
    OBVIOUS
  <2>2. record \in Record /\ record.request = r /\ record.event = e
    BY <1>2, <2>1, RecordType
  <2>3. Publishable(s, record)
    BY <1>4, <2>1, <2>2 DEF Publishable, WellFormed, Completes
  <2>4. ClientOk(c, s) /\ c.scratch.record = record
    BY <1>1, <1>2, <1>4, <2>1, <2>3, PublishOk
  <2> QED
    BY <1>4, <2>2, <2>4 DEF Recovers
<1>5. ASSUME r.op \in {"begin", "reset"}, c \in Publish(p, EventOf(tree, 0, FALSE, None, None)),
             r.op = "begin" => CanBegin(s, r.scope), r.op = "reset" => CanReset(s)
      PROVE  ClientOk(c, s) /\ Recovers(c, s)
  <2>1. PICK e : e = EventOf(tree, 0, FALSE, None, None)
    OBVIOUS
  <2>2. e \in Event /\ e.tree = tree
    BY <1>2, <2>1, PlainEvents
  <2>3. ~Remediates(r)
    BY <1>5 DEF Remediates
  <2>4. PICK record : record = [request |-> r, event |-> e]
    OBVIOUS
  <2>5. record.request = r /\ record.event = e
    BY <2>4
  <2>6. r.op = "begin" => BeginAgrees(s, r.scope, e)
    <3>1. s.objective # None => s.attempts # <<>>
      BY <1>2, LegibleFields, EmptySeq
    <3> QED
      BY <1>5, <2>2, <3>1 DEF BeginAgrees, CanBegin
  <2>7. Follows(s, record)
    BY <1>5, <2>3, <2>5, <2>6 DEF Follows, CanReset
  <2> QED
    BY <1>2, <1>4, <1>5, <2>1, <2>2, <2>3, <2>4, <2>7
<1>6. CASE r.op = "begin" /\ CanBegin(s, r.scope)
  BY <1>1, <1>5, <1>6 DEF Built
<1>7. CASE r.op = "reset" /\ CanReset(s)
  BY <1>1, <1>5, <1>7 DEF Built
<1>8. CASE r.op = "finish" /\ CanFinish(s, r)
  <2>1. PICK old : old = LegacyRead(s, r)
    OBVIOUS
  <2>2. old \in ReviewBinding \cup {None} /\ (s.binding # None => old = None)
    BY <2>1, LegacyFacts
  <2>3. /\ Active(s)
        /\ Remediates(r) => /\ Effective(s, old) # None
                            /\ Effective(s, old) = r.remedy.expected
                            /\ s.evidence # 0 => s.evidence = r.remedy.evidence
    BY <1>8, <2>1 DEF CanFinish, CanRemedy
  <2>4. c \in BuildFinish(p, s, r)
    BY <1>1, <1>8 DEF Built
  <2>5. CASE r.outcome = "passed" /\ Effective(s, old) # None
    <3>1. PICK x : x = [NoScratch EXCEPT !.tree = tree, !.old = old]
      OBVIOUS
    <3>0. x = AskingWith(tree, old) /\ x.tree = tree /\ x.old = old
      BY <3>1 DEF AskingWith, NoScratch
    <3>2. c \in Outcome(p, "authorize", x)
      BY <2>1, <2>4, <2>5, <3>1 DEF BuildFinish
    <3>3. Ready(s, client[p].request, x)
      BY <1>1, <1>2, <1>8, <2>2, <2>3, <3>0 DEF Ready
    <3>4. tree \in Tree \cup {None} /\ client[p] \in Client
          /\ client[p].request \in Request /\ Answerable(client[p].request)
      BY <1>1, <1>2
    <3>5. ClientOk(c, s) /\ c.pc = "authorize"
      BY <2>2, <3>0, <3>2, <3>3, <3>4, AuthorizeOk
    <3> QED
      BY <3>5 DEF Recovers, Publishing
  <2>6. CASE ~(r.outcome = "passed" /\ Effective(s, old) # None)
    <3>1. ~Remediates(r)
      BY <1>2, <2>3, <2>6 DEF Answerable
    <3>2. PICK e : e = MeasuredEvent(s, tree, None, None)
      OBVIOUS
    <3>3. c \in Publish(p, e)
      BY <2>1, <2>4, <2>6, <3>2 DEF BuildFinish
    <3>4. e \in Event /\ e.tree = tree /\ FinishAgrees(s, e)
      BY <1>2, <2>3, <3>2, MeasuredFacts
    <3>5. Follows(s, [request |-> r, event |-> e])
      BY <1>8, <3>1, <3>4 DEF Follows
    <3>6. r.outcome = "passed" => s.binding = None
      BY <2>6 DEF Effective
    <3> QED
      BY <1>2, <1>4, <1>8, <3>1, <3>3, <3>4, <3>5, <3>6
  <2> QED
    BY <2>5, <2>6
<1>9. CASE r.op = "bind"
  <2>1. PICK old : old = LegacyRead(s, r)
    OBVIOUS
  <2>2. old \in ReviewBinding \cup {None} /\ (s.binding # None => old = None)
    BY <2>1, LegacyFacts
  <2>3. PICK x : x = [NoScratch EXCEPT !.old = old]
    OBVIOUS
  <2>4. x = AskingWith(None, old) /\ x.old = old
    BY <2>3 DEF AskingWith, NoScratch
  <2>5. c \in Outcome(p, "authorize", x)
    BY <1>1, <1>9, <2>1, <2>3 DEF Built, BuildBind
  <2>6. Ready(s, client[p].request, x)
    BY <1>1, <1>9, <2>2, <2>4 DEF Ready, Remediates
  <2>7. None \in Tree \cup {None} /\ client[p] \in Client
        /\ client[p].request \in Request /\ Answerable(client[p].request)
    BY <1>1, <1>2
  <2>8. ClientOk(c, s) /\ c.pc = "authorize"
    BY <2>2, <2>4, <2>5, <2>6, <2>7, AuthorizeOk
  <2> QED
    BY <2>8 DEF Recovers, Publishing
<1>10. ~(\/ r.op = "begin" /\ CanBegin(s, r.scope)
         \/ r.op = "reset" /\ CanReset(s)
         \/ r.op = "finish" /\ CanFinish(s, r)
         \/ r.op = "bind") => FALSE
  BY <1>1 DEF Built
<1> QED
  BY <1>6, <1>7, <1>8, <1>9, <1>10

\* What Finish and bind let through after the second reading of the world.
LEMMA AuthorizedOk ==
  ASSUME RInv, NEW p \in Process, client[p].pc = "authorize", NEW s, s = Status,
         NEW c \in Authorized(p)
  PROVE  ClientOk(c, s) /\ Recovers(c, s)
<1>1. PICK r, seen : r = client[p].request /\ seen = client[p].scratch
  OBVIOUS
<1>2. /\ Legible(s) /\ client[p] \in Client /\ r \in Request /\ Answerable(r)
      /\ tree \in Tree /\ authority \in [Lineage -> Review] /\ Ready(s, r, seen)
  BY <1>1, AtClient DEF ClientOk
<1>3. seen.old \in ReviewBinding \cup {None}
  BY <1>1, <1>2 DEF Client
<1>4. ASSUME NEW l \in Lineage, GateAllows(l)
      PROVE  BindingOf(l) \in ReviewBinding
  BY <1>2, <1>4 DEF BindingOf, ReviewBinding, GateAllows
<1>5. CASE r.op = "finish"
  <2>1. PICK current : current = Effective(s, seen.old)
    OBVIOUS
  <2>2. /\ StillReviewed(r, seen, current)
        /\ c \in IF Remediates(r)
                 THEN Publish(p, MeasuredEvent(s, seen.tree, BindingOf(r.remedy.lineage), seen.old))
                 ELSE Publish(p, MeasuredEvent(s, seen.tree, None, None))
    BY <1>1, <1>5, <2>1 DEF Authorized, AuthorizeFinish
  <2>3. Active(s) /\ seen.tree \in Tree
    BY <1>2, <1>5 DEF Ready
  <2>4. CASE Remediates(r)
    <3>1. PICK l : l = r.remedy.lineage
      OBVIOUS
    <3>2. l \in Lineage
      <4>1. r.remedy \in Remedy
        BY <1>2, <2>4, RequestFields DEF Remediates
      <4> QED
        BY <3>1, <4>1 DEF Remedy
    <3>3. PICK b : b = BindingOf(l)
      OBVIOUS
    <3>4. /\ GateAllows(l) /\ Succeeds(current, l) /\ b.tree = seen.tree
          /\ b \in ReviewBinding /\ b.lineage = l
      BY <1>4, <2>2, <2>4, <3>1, <3>2, <3>3 DEF StillReviewed, BindingOf
    <3>5. PICK e : e = MeasuredEvent(s, seen.tree, b, seen.old)
      OBVIOUS
    <3>6. /\ e \in Event /\ e.tree = seen.tree /\ e.binding = b /\ e.import = seen.old
          /\ FinishAgrees(s, e)
      BY <1>2, <1>3, <2>3, <3>4, <3>5, MeasuredFacts
    <3>7. PICK record : record = [request |-> r, event |-> e]
      OBVIOUS
    <3>8. record \in Record /\ record.request = r /\ record.event = e
      BY <1>2, <3>6, <3>7, RecordType
    <3>9. RemedyAgrees(s, r.remedy, e)
      <4>1. /\ current = r.remedy.expected
            /\ s.evidence # 0 => s.evidence = r.remedy.evidence
            /\ s.binding # None => seen.old = None
        BY <1>2, <2>1, <2>4 DEF Ready
      <4>2. l # current.lineage
        BY <3>4 DEF Succeeds
      <4> QED
        BY <2>1, <3>4, <3>6, <4>1, <4>2 DEF RemedyAgrees, BindingAgrees
    <3>10. Publishable(s, record)
      BY <1>5, <2>3, <2>4, <3>4, <3>6, <3>8, <3>9 DEF Publishable, WellFormed, Follows
    <3>11. ClientOk(c, s) /\ c.scratch.record = record
      BY <1>1, <1>2, <2>2, <2>4, <3>1, <3>3, <3>5, <3>6, <3>7, <3>10, PublishOk
    <3>12. s.binding # None => s.binding.lineage \in ScopeChain(l)
      BY <2>1, <3>4 DEF Effective, Succeeds
    <3> QED
      BY <3>4, <3>6, <3>8, <3>11, <3>12 DEF Recovers
  <2>5. CASE ~Remediates(r)
    <3>1. PICK e : e = MeasuredEvent(s, seen.tree, None, None)
      OBVIOUS
    <3>2. e \in Event /\ e.tree = seen.tree /\ FinishAgrees(s, e)
      <4>1. PICK none \in ReviewBinding \cup {None} : none = None
        OBVIOUS
      <4>2. Legible(s) /\ Active(s) /\ seen.tree \in Tree
        BY <1>2, <2>3
      <4>3. e = MeasuredEvent(s, seen.tree, none, none)
        BY <3>1, <4>1
      <4> QED
        BY <4>2, <4>3, MeasuredFacts
    <3>3. PICK record : record = [request |-> r, event |-> e]
      OBVIOUS
    <3>4. record \in Record /\ record.request = r /\ record.event = e
      BY <1>2, <3>2, <3>3, RecordType
    <3>5. s.binding # None => s.binding.tree = e.tree
      BY <2>1, <2>2, <2>5, <3>2 DEF StillReviewed, Effective
    <3>6. Publishable(s, record)
      BY <1>5, <2>3, <2>5, <3>2, <3>4, <3>5 DEF Publishable, WellFormed, Follows
    <3>7. ClientOk(c, s) /\ c.scratch.record = record
      BY <1>1, <1>2, <2>2, <2>5, <3>1, <3>2, <3>3, <3>6, PublishOk
    <3> QED
      BY <2>5, <3>4, <3>7 DEF Recovers
  <2> QED
    BY <2>4, <2>5
<1>6. CASE r.op # "finish"
  <2>1. r.op = "bind" /\ r.lineage \in Lineage /\ ~Remediates(r)
    BY <1>2, <1>6, RequestFields DEF Ready, Remediates
  <2>2. c \in AuthorizeBind(p, s, r, seen)
    BY <1>1, <1>6 DEF Authorized
  <2>3. PICK b : b = BindingOf(r.lineage)
    OBVIOUS
  <2>4. b \in ReviewBinding
    BY <1>4, <2>1, <2>2, <2>3 DEF AuthorizeBind
  <2>5. CASE c \in Outcome(p, "resync", NoScratch)
    <3>1. ClientOk(c, s) /\ c.pc = "resync"
      BY <1>1, <1>2, <2>5, ResyncOk
    <3> QED
      BY <3>1 DEF Recovers, Publishing
  <2>6. CASE /\ r.expected = Effective(s, seen.old)
             /\ c \in Publish(p, EventOf(None, 0, FALSE, b, seen.old))
    <3>1. PICK e : e = EventOf(None, 0, FALSE, b, seen.old)
      OBVIOUS
    <3>2. e \in Event /\ e.binding = b /\ e.import = seen.old
      BY <1>3, <2>4, <3>1, PlainEvents
    <3>3. PICK record : record = [request |-> r, event |-> e]
      OBVIOUS
    <3>4. record \in Record /\ record.request = r /\ record.event = e
      BY <1>2, <3>2, <3>3, RecordType
    <3>5. BindingAgrees(s, r.expected, e)
      BY <1>2, <2>6, <3>2 DEF BindingAgrees, Ready
    <3>6. Publishable(s, record)
      BY <2>1, <2>4, <3>2, <3>4, <3>5 DEF Publishable, WellFormed, Follows, Completes
    <3>7. c \in Publish(p, e) /\ record = [request |-> client[p].request, event |-> e]
          /\ client[p] \in Client /\ client[p].request \in Request
          /\ Answerable(client[p].request)
      BY <1>1, <1>2, <2>6, <3>1, <3>3
    <3>8. ClientOk(c, s) /\ c.scratch.record = record
      BY <3>2, <3>6, <3>7, PublishOk
    <3> QED
      BY <2>1, <3>4, <3>8 DEF Recovers
  <2> QED
    BY <2>2, <2>3, <2>5, <2>6 DEF AuthorizeBind
<1> QED
  BY <1>5, <1>6

-----------------------------------------------------------------------------
(* The steps of the clients.                                                *)

\* What the scope-changed recoveries connect is connected after a step that
\* leaves alone what recoveries continue, but of a lineage without a review.
ScopesKept ==
  \A l \in Lineage : \/ authority[l].state = "none"
                     \/ /\ authority'[l].predecessor = authority[l].predecessor
                        /\ authority'[l].changed = authority[l].changed

\* What is connected stays so.
LEMMA ScopeChainKept ==
  ASSUME Unseen, ScopesKept, NEW l \in Lineage, NEW a, a \in ScopeChain(l)
  PROVE  a \in ScopeChain(l)'
<1> DEFINE Link(m) == IF authority[m].changed THEN {authority[m].predecessor} \ {None} ELSE {}
           Link2(m) == IF authority'[m].changed THEN {authority'[m].predecessor} \ {None} ELSE {}
           Closed(S) == \A m \in S : Link(m) \subseteq S
           Closed2(S) == \A m \in S : Link2(m) \subseteq S
<1>1. a \in Lineage /\ \A S \in SUBSET Lineage : Link(l) \subseteq S /\ Closed(S) => a \in S
  BY DEF ScopeChain
<1>2. \A m \in Lineage : Link(m) \subseteq Link2(m)
  <2>1. SUFFICES ASSUME NEW m \in Lineage PROVE Link(m) \subseteq Link2(m)
    OBVIOUS
  <2>2. CASE authority[m].state = "none"
    <3>1. authority[m] = NoReview
      BY <2>2 DEF Unseen
    <3>2. authority[m].changed = FALSE
      BY <3>1 DEF NoReview
    <3> QED
      BY <3>2
  <2>3. CASE /\ authority'[m].predecessor = authority[m].predecessor
             /\ authority'[m].changed = authority[m].changed
    BY <2>3
  <2> QED
    BY <2>2, <2>3 DEF ScopesKept
<1> HIDE DEF Link, Link2
<1>3. ASSUME NEW S \in SUBSET Lineage, Link2(l) \subseteq S, Closed2(S)
      PROVE  a \in S
  <2>1. Link(l) \subseteq S /\ Closed(S)
    BY <1>2, <1>3
  <2> QED
    BY <1>1, <2>1
<1> QED
  BY <1>1, <1>3 DEF ScopeChain, Link2

\* The review that a remediation selected still continues the bound one.
LEMMA RecoversKept ==
  ASSUME Unseen, ScopesKept, NEW c, NEW s, ClientOk(c, s), Recovers(c, s)
  PROVE  Recovers(c, s)'
<1>1. PICK record : record = c.scratch.record
  OBVIOUS
<1>2. CASE Publishing(c) /\ Completes(record) /\ Remediates(record.request) /\ s.binding # None
  <2>1. PICK l, a : l = record.event.binding.lineage /\ a = s.binding.lineage
    OBVIOUS
  <2>2. record.event.binding \in ReviewBinding
    BY <1>1, <1>2 DEF ClientOk, Publishable, WellFormed, Completes
  <2>3. l \in Lineage
    BY <2>1, <2>2 DEF ReviewBinding
  <2>4. a \in ScopeChain(l)
    BY <1>1, <1>2, <2>1 DEF Recovers
  <2>5. a \in ScopeChain(l)'
    BY <2>3, <2>4, ScopeChainKept
  <2> QED
    BY <1>1, <2>1, <2>5 DEF Recovers
<1>3. CASE ~(Publishing(c) /\ Completes(record) /\ Remediates(record.request) /\ s.binding # None)
  BY <1>1, <1>3 DEF Recovers
<1> QED
  BY <1>2, <1>3

\* What holds of a client that is at no chain holds whatever the chain is.
AtNoChain(c) == c.pc \notin {"authorize", "publish", "replace"}

\* A client that is at no chain relies on no status.
LEMMA AtNoChainOk ==
  ASSUME NEW c, AtNoChain(c), c \in Client,
         c.pc # "idle" => c.request \in Request /\ Answerable(c.request), NEW s
  PROVE  ClientOk(c, s)
  BY DEF ClientOk, Publishing, AtNoChain

\* No client but the one that has the lock is at a chain.
LEMMA OthersAtNoChain ==
  ASSUME RInv, NEW p \in Process, lock \in {None, p}, NEW q \in Process, q # p
  PROVE  AtNoChain(client[q])
<1>1. client[q].pc \in Inside <=> lock = q
  BY DEF RInv, IInv, Clients, Writing
<1>2. client[q].pc \notin Inside
  BY <1>1, NoneAssumption
<1> QED
  BY <1>2 DEF AtNoChain, Inside

\* A client that moves, while the chain and the reviews stay.
LEMMA ClientMoves ==
  ASSUME RInv, NEW p \in Process, NEW c, client' = [client EXCEPT ![p] = c],
         UNCHANGED <<head, authority>>, ClientOk(c, Status), Recovers(c, Status)
  PROVE  ClientsOk'
<1>1. \A q \in Process : client'[q] = IF q = p THEN c ELSE client[q]
  BY DEF RInv, TypeOK
<1>2. ScopesKept /\ Unseen
  BY DEF ScopesKept, RInv
<1>3. PICK s : s = Status
  OBVIOUS
<1>4. Status' = s
  BY <1>3 DEF Status
<1>5. SUFFICES ASSUME NEW q \in Process
               PROVE  ClientOk(client[q], Status)' /\ Recovers(client[q], Status)'
  BY DEF ClientsOk
<1>6. PICK d : d = IF q = p THEN c ELSE client[q]
  OBVIOUS
<1>7. ClientOk(d, s) /\ Recovers(d, s)
  BY <1>3, <1>6 DEF RInv, ClientsOk
<1>8. Recovers(d, s)'
  BY <1>2, <1>7, RecoversKept
<1>9. client'[q] = d
  BY <1>1, <1>6
<1> QED
  BY <1>4, <1>7, <1>8, <1>9 DEF Recovers

\* A client that leaves the chain, while the reviews stay and others are outside.
LEMMA ClientLeaves ==
  ASSUME RInv, NEW p \in Process, NEW c, client' = [client EXCEPT ![p] = c],
         lock \in {None, p}, AtNoChain(c), c \in Client,
         c.pc # "idle" => c.request \in Request /\ Answerable(c.request)
  PROVE  ClientsOk'
<1>1. \A q \in Process : client'[q] = IF q = p THEN c ELSE client[q]
  BY DEF RInv, TypeOK
<1>2. SUFFICES ASSUME NEW q \in Process
               PROVE  ClientOk(client[q], Status)' /\ Recovers(client[q], Status)'
  BY DEF ClientsOk
<1>3. PICK d : d = IF q = p THEN c ELSE client[q]
  OBVIOUS
<1>4. AtNoChain(d) /\ d \in Client /\ (d.pc # "idle" => d.request \in Request /\ Answerable(d.request))
  BY <1>3, AtClient, OthersAtNoChain
<1>5. \A s : ClientOk(d, s)
  BY <1>4, AtNoChainOk
<1>6. client'[q] = d
  BY <1>1, <1>3
<1> QED
  BY <1>4, <1>5, <1>6 DEF Recovers, Publishing, AtNoChain

\* A client that changes its pc only.
LEMMA WentOk ==
  ASSUME NEW o \in Client, NEW pc \in Phase, NEW c, c = [o EXCEPT !.pc = pc]
  PROVE  /\ c \in Client /\ c.pc = pc /\ c.request = o.request /\ c.scratch = o.scratch
  BY DEF Client

\* Requests that a client that read the status may issue.
LEMMA AskedOk ==
  ASSUME RInv, issued < MaxRequests, NEW id \in {issued + 1} \cup Reused,
         NEW r \in Asked(Status, id) \cup Bindings(Status)
  PROVE  r \in Request /\ Answerable(r)
<1>1. /\ issued \in Nat /\ MaxRequests \in Nat /\ legacy \in ReviewBinding \cup {None}
      /\ head \in Seq(Record)
  BY BoundAssumption DEF RInv, TypeOK
<1>2. id \in Id
  <2>1. CASE id = issued + 1
    BY <1>1, <2>1 DEF Id
  <2>2. CASE id \in Reused
    <3>1. PICK n \in 1 .. Len(head) : id = head[n].request.id /\ head[n].request.op # "bind"
      BY <1>1, <2>2 DEF Reused
    <3>2. PICK q : q = head[n].request
      OBVIOUS
    <3>3. head[n] \in Record
      BY <1>1
    <3>4. q \in Request
      BY <3>2, <3>3 DEF Record
    <3> QED
      BY <3>1, <3>2, <3>4, RequestFields
  <2> QED
    BY <2>1, <2>2
<1>3. PICK s : s = Status
  OBVIOUS
<1>4. head \in heads
  BY DEF RInv, IInv, Chains
<1>5. Legible(s)
  BY <1>3, <1>4 DEF RInv, Heads, Status
<1>6. s.evidence \in 0 .. MaxRequests /\ s.binding \in ReviewBinding \cup {None}
  BY <1>5 DEF Legible, StatusType
<1>7. Effective(s, legacy) \in ReviewBinding \cup {None}
  BY <1>1, <1>6 DEF Effective
<1>8. CASE r \in Bindings(s)
  <2>1. r \in [op : {"bind"}, lineage : Lineage, expected : ReviewBinding \cup {None}]
    BY <1>7, <1>8 DEF Bindings
  <2> QED
    BY <2>1 DEF Request, Answerable, Remediates
<1>9. CASE r \in [op : {"finish"}, id : {id}, outcome : {"failed", "passed"}, remedy : {None}]
  <2>1. r \in [op : {"finish"}, id : Id, outcome : {"failed", "passed"}, remedy : Remedy \cup {None}]
    BY <1>2, <1>9
  <2>2. r.remedy = None
    BY <1>9
  <2> QED
    BY <2>1, <2>2 DEF Request, Answerable, Remediates
<1>10. CASE r \in [op : {"finish"}, id : {id}, outcome : {"passed"}, remedy : Remedies(s, id)]
  <2>1. PICK x : x = IF s.evidence = 0 THEN id ELSE s.evidence
    OBVIOUS
  <2>2. x \in 1 .. MaxRequests
    BY <1>1, <1>2, <1>6, <2>1 DEF Id
  <2>3. r.remedy \in Remedies(s, id) /\ r.outcome = "passed"
    BY <1>10
  <2>4. Remedies(s, id) \subseteq Remedy
    BY <1>7, <2>1, <2>2 DEF Remedies, Remedy
  <2>5. r \in [op : {"finish"}, id : Id, outcome : {"failed", "passed"}, remedy : Remedy \cup {None}]
    BY <1>2, <1>10, <2>4
  <2> QED
    BY <2>3, <2>5 DEF Request, Answerable
<1>11. CASE r \in [op : {"reset"}, id : {id}]
  <2>1. r \in [op : {"reset"}, id : Id]
    BY <1>2, <1>11
  <2> QED
    BY <2>1 DEF Request, Answerable, Remediates
<1>12. CASE r \in [op : {"begin"}, id : {id}, scope : Scope]
  <2>1. r \in [op : {"begin"}, id : Id, scope : Scope]
    BY <1>2, <1>12
  <2> QED
    BY <2>1 DEF Request, Answerable, Remediates
<1> QED
  BY <1>3, <1>8, <1>9, <1>10, <1>11, <1>12 DEF Asked, Finishes

\* An answered client is at no chain.
LEMMA NoClientOk ==
  NoClient \in Client /\ NoClient.pc = "idle" /\ AtNoChain(NoClient)
<1>1. PICK x : x = NoScratch
  OBVIOUS
<1>2. x \in [tree : Tree \cup {None}, old : ReviewBinding \cup {None},
             record : Record \cup {None}]
  BY <1>1 DEF NoScratch
<1>3. NoClient = [pc |-> "idle", request |-> None, expected |-> <<>>, scratch |-> x]
  BY <1>1 DEF NoClient
<1>4. <<>> \in Seq(Record)
  OBVIOUS
<1> QED
  BY <1>2, <1>3, <1>4 DEF Client, Phase, AtNoChain

\* A client without an answer keeps its request.
LEMMA UnknownOk ==
  ASSUME NEW o \in Client, NEW c, c = [o EXCEPT !.pc = "unknown", !.scratch = NoScratch]
  PROVE  c \in Client /\ c.pc = "unknown" /\ c.request = o.request
<1>1. PICK x : x = NoScratch
  OBVIOUS
<1>2. x \in [tree : Tree \cup {None}, old : ReviewBinding \cup {None},
             record : Record \cup {None}]
  BY <1>1 DEF NoScratch
<1> QED
  BY <1>1, <1>2 DEF Client, Phase

\* A mutation that answers, or gives up.
LEMMA LeavesOk ==
  ASSUME RInv, NEW p \in Process, client[p].pc # "idle", lock \in {None, p},
         Answer(p) \/ LeaveUnknown(p)
  PROVE  ClientsOk'
<1>1. CASE Answer(p)
  BY <1>1, NoClientOk, ClientLeaves DEF Answer
<1>2. CASE LeaveUnknown(p)
  <2>1. PICK c : c = [client[p] EXCEPT !.pc = "unknown", !.scratch = NoScratch]
    OBVIOUS
  <2>2. client' = [client EXCEPT ![p] = c]
    BY <1>2, <2>1 DEF LeaveUnknown
  <2>3. client[p] \in Client /\ client[p].request \in Request /\ Answerable(client[p].request)
    BY AtClient
  <2>4. c \in Client /\ c.pc = "unknown" /\ c.request = client[p].request
    BY <2>1, <2>3, UnknownOk
  <2>5. AtNoChain(c)
    BY <2>4 DEF AtNoChain
  <2> QED
    BY <2>2, <2>3, <2>4, <2>5, ClientLeaves
<1> QED
  BY <1>1, <1>2

\* The outcomes of a callback, or its error.
LEMMA TakesOk ==
  ASSUME RInv, NEW p \in Process, client[p].pc # "idle", lock \in {None, p},
         NEW outcomes, Take(p, outcomes), UNCHANGED <<head, authority>>,
         \A c \in outcomes : ClientOk(c, Status) /\ Recovers(c, Status)
  PROVE  ClientsOk'
<1>1. CASE outcomes = {} /\ Answer(p)
  BY <1>1, LeavesOk
<1>2. CASE outcomes # {} \/ ~Answer(p)
  <2>1. PICK c \in outcomes : client' = [client EXCEPT ![p] = c]
    BY <1>2 DEF Take
  <2> QED
    BY <2>1, ClientMoves
<1> QED
  BY <1>1, <1>2

\* After any step of one client every client is as it may be.
LEMMA ClientStepOk ==
  ASSUME RInv, NEW p \in Process, Issue(p) \/ Proceed(p) \/ Fault(p)
  PROVE  ClientsOk'
<1>1. /\ client[p] \in Client /\ ClientOk(client[p], Status) /\ Recovers(client[p], Status)
      /\ client[p].pc # "idle" => client[p].request \in Request /\ Answerable(client[p].request)
      /\ Legible(Status)
  BY AtClient
<1>2. client[p].pc \in Inside => lock = p
  BY DEF RInv, IInv, Clients, Writing
<1>3. CASE Issue(p)
  <2>1. PICK id \in {issued + 1} \cup Reused :
          \E r \in Asked(Status, id) \cup Bindings(Status) : client' =
            [client EXCEPT ![p] =
               [NoClient EXCEPT !.pc = "ready", !.request = r, !.expected = head]]
    BY <1>3 DEF Issue
  <2>2. PICK r \in Asked(Status, id) \cup Bindings(Status) : client' = [client EXCEPT ![p] =
             [NoClient EXCEPT !.pc = "ready", !.request = r, !.expected = head]]
    BY <2>1
  <2>3. r \in Request /\ Answerable(r)
    BY <1>3, AskedOk DEF Issue
  <2>4. PICK c : c = [NoClient EXCEPT !.pc = "ready", !.request = r, !.expected = head]
    OBVIOUS
  <2>5. head \in Seq(Record)
    BY DEF RInv, TypeOK
  <2>6. c \in Client /\ c.pc = "ready" /\ c.request = r
    <3>1. PICK o : o = NoClient
      OBVIOUS
    <3>2. c = [o EXCEPT !.pc = "ready", !.request = r, !.expected = head]
      BY <2>4, <3>1
    <3>3. o \in Client
      BY <3>1, NoClientOk
    <3> QED
      BY <2>3, <2>5, <3>2, <3>3 DEF Client, Phase
  <2>7. ClientOk(c, Status) /\ Recovers(c, Status)
    BY <2>3, <2>6, AtNoChainOk DEF AtNoChain, Recovers, Publishing
  <2>8. UNCHANGED <<head, authority>>
    BY <1>3 DEF Issue, ledger, world
  <2> QED
    BY <2>2, <2>4, <2>7, <2>8, ClientMoves
<1>4. ASSUME client[p].pc # "idle", NEW pc \in Phase, Go(p, pc), UNCHANGED <<head, authority>>,
             pc = "ready" \/ (client[p].pc = "publish" /\ pc = "replace")
      PROVE  ClientsOk'
  <2>1. PICK c : c = [client[p] EXCEPT !.pc = pc]
    OBVIOUS
  <2>2. c \in Client /\ c.pc = pc /\ c.request = client[p].request /\ c.scratch = client[p].scratch
    BY <1>1, <2>1, WentOk
  <2>3. client' = [client EXCEPT ![p] = c]
    BY <1>4, <2>1 DEF Go
  <2>4. ClientOk(c, Status) /\ Recovers(c, Status)
    BY <1>1, <1>4, <2>2 DEF ClientOk, Recovers, Publishing
  <2> QED
    BY <1>4, <2>3, <2>4, ClientMoves
<1>5. CASE Retry(p)
  BY <1>4, <1>5 DEF Retry, ledger, world, Phase
<1>6. CASE Enter(p)
  <2> DEFINE r == client[p].request
             known == Known(head, r)
  <2>1. PICK outcomes :
          /\ Take(p, outcomes)
          /\ outcomes = IF ~Status.valid THEN {}
                        ELSE IF known # {}
                        THEN IF \A n \in known : SameRequest(p, n)
                             THEN Outcome(p, "resync", NoScratch) ELSE {}
                        ELSE IF r.op # "bind" /\ client[p].expected # head THEN {}
                        ELSE Built(p)
    BY <1>6 DEF Enter
  <2>2. client[p].pc = "ready" /\ lock = None /\ UNCHANGED <<head, authority>>
    BY <1>6 DEF Enter, ledger, world
  <2>3. \A c \in Built(p) : ClientOk(c, Status) /\ Recovers(c, Status)
    BY <2>2, BuiltOk
  <2>4. \A c \in Outcome(p, "resync", NoScratch) : ClientOk(c, Status) /\ Recovers(c, Status)
    BY <1>1, <2>2, ResyncOk DEF Recovers, Publishing
  <2>5. \A c \in outcomes : ClientOk(c, Status) /\ Recovers(c, Status)
    BY <2>1, <2>3, <2>4
  <2> QED
    BY <2>1, <2>2, <2>5, TakesOk
<1>7. CASE Authorize(p)
  <2>1. /\ client[p].pc = "authorize" /\ lock = p /\ UNCHANGED <<head, authority>>
        /\ Take(p, Authorized(p))
    BY <1>2, <1>7 DEF Authorize, ledger, world, Inside
  <2>2. \A c \in Authorized(p) : ClientOk(c, Status) /\ Recovers(c, Status)
    BY <2>1, AuthorizedOk
  <2> QED
    BY <2>1, <2>2, TakesOk
<1>8. CASE PublishRecord(p)
  BY <1>4, <1>8 DEF PublishRecord, world, Phase
<1>9. CASE ReplaceHead(p)
  <2>1. PICK c : c = [client[p] EXCEPT !.pc = "sync"]
    OBVIOUS
  <2>2. c \in Client /\ c.pc = "sync" /\ c.request = client[p].request
    BY <1>1, <2>1, WentOk DEF Phase
  <2>3. client' = [client EXCEPT ![p] = c] /\ client[p].pc = "replace" /\ lock = p
    BY <1>2, <1>9, <2>1 DEF ReplaceHead, Go, Inside
  <2> QED
    BY <1>1, <2>2, <2>3, ClientLeaves DEF AtNoChain
<1>10. CASE SyncHead(p)
  BY <1>2, <1>10, LeavesOk DEF SyncHead, Inside
<1>11. CASE Resync(p)
  BY <1>2, <1>11, LeavesOk DEF Resync, Inside
<1>12. CASE PublishFails(p)
  BY <1>2, <1>12, LeavesOk DEF PublishFails, Inside
<1>13. CASE SyncFails(p)
  BY <1>2, <1>13, LeavesOk DEF SyncFails, Inside
<1>14. CASE Kill(p)
  BY <1>2, <1>14, LeavesOk DEF Kill, Inside
<1> QED
  BY <1>3, <1>5, <1>6, <1>7, <1>8, <1>9, <1>10, <1>11, <1>12, <1>13, <1>14 DEF Proceed, Fault

\* A power loss leaves every client outside.
LEMMA PowerLossOk ==
  ASSUME RInv, PowerLoss
  PROVE  ClientsOk'
<1>1. SUFFICES ASSUME NEW q \in Process
               PROVE  ClientOk(client[q], Status)' /\ Recovers(client[q], Status)'
  BY DEF ClientsOk
<1>2. /\ client[q] \in Client
      /\ client[q].pc # "idle" => client[q].request \in Request /\ Answerable(client[q].request)
  BY AtClient
<1>3. PICK d : d = IF client[q].pc \in Inside
                   THEN [client[q] EXCEPT !.pc = "unknown", !.scratch = NoScratch]
                   ELSE client[q]
  OBVIOUS
<1>4. client'[q] = d
  BY <1>3 DEF PowerLoss
<1>5. AtNoChain(d) /\ d \in Client /\ (d.pc # "idle" => d.request \in Request /\ Answerable(d.request))
  <2>1. CASE client[q].pc \in Inside
    <3>1. d \in Client /\ d.pc = "unknown" /\ d.request = client[q].request
      BY <1>2, <1>3, <2>1, UnknownOk
    <3> QED
      BY <1>2, <2>1, <3>1 DEF AtNoChain, Inside
  <2>2. CASE client[q].pc \notin Inside
    BY <1>2, <1>3, <2>2 DEF AtNoChain, Inside
  <2> QED
    BY <2>1, <2>2
<1>6. \A s : ClientOk(d, s)
  BY <1>5, AtNoChainOk
<1> QED
  BY <1>4, <1>5, <1>6 DEF Recovers, Publishing, AtNoChain

-----------------------------------------------------------------------------
(* The chains, the world, and the invariant.                                *)

\* The record that a client is about to commit leads to a legible status.
LEMMA NextChainOk ==
  ASSUME RInv, NEW p \in Process, Publishing(client[p])
  PROVE  /\ Publishable(Status, client[p].scratch.record)
         /\ NextChain(p) \in Seq(Record)
         /\ Replay(NextChain(p)) = Applied(Status, client[p].scratch.record)
         /\ Legible(Replay(NextChain(p)))
         /\ Len(NextChain(p)) = Len(head) + 1
         /\ \A i \in 1 .. Len(head) : NextChain(p)[i] = head[i]
<1>1. PICK record, s : record = client[p].scratch.record /\ s = Status
  OBVIOUS
<1>2. Legible(s) /\ ClientOk(client[p], s)
  BY <1>1, AtClient
<1>3. Publishable(s, record) /\ WellFormed(record) /\ Follows(s, record) /\ record \in Record
  BY <1>1, <1>2 DEF ClientOk, Publishable, WellFormed
<1>4. IsChain(head) /\ head \in Seq(Record)
  BY DEF RInv, TypeOK, IInv, Chains
<1>5. NextChain(p) = Append(head, record)
  BY <1>1 DEF NextChain
<1>6. Replay(NextChain(p)) = Applied(s, record)
  <2>1. Replay(NextChain(p)) = Step(s, record)
    BY <1>1, <1>4, <1>5, ReplayAppend DEF Status
  <2>2. s.valid
    BY <1>2 DEF Legible
  <2> QED
    BY <1>3, <2>1, <2>2 DEF Step
<1>7. Legible(Applied(s, record))
  BY <1>2, <1>3, AppliedLegible
<1> QED
  BY <1>1, <1>3, <1>4, <1>5, <1>6, <1>7

\* What is stored are chains of records.
Stored == heads \subseteq Seq(Record) /\ records \subseteq Seq(Record) /\ told \in Seq(Record)

\* Every step keeps the chains that HEAD may name legible, and beginnings of
\* HEAD.
LEMMA StoredStep ==
  ASSUME RInv, [Next]_vars
  PROVE  Heads' /\ Stored'
<1>1. Heads /\ Stored /\ head \in heads /\ head \in Seq(Record)
  BY DEF RInv, TypeOK, Stored, IInv, Chains
<1>2. ASSUME UNCHANGED <<head, heads, records, told>>
      PROVE  Heads' /\ Stored'
  BY <1>1, <1>2 DEF Heads, Stored
<1>3. ASSUME UNCHANGED <<head, heads, told>>, NEW p \in Process, Publishing(client[p]),
             records' = records \cup {NextChain(p)}
      PROVE  Heads' /\ Stored'
  <2>1. NextChain(p) \in Seq(Record)
    BY <1>3, NextChainOk
  <2> QED
    BY <1>1, <1>3, <2>1 DEF Heads, Stored
<1>4. ASSUME NEW p \in Process, ReplaceHead(p)
      PROVE  Heads' /\ Stored'
  <2>1. PICK k : k = NextChain(p)
    OBVIOUS
  <2>2. head' = k /\ heads' = heads \cup {k} /\ UNCHANGED <<records, told>> /\ Publishing(client[p])
    BY <1>4, <2>1 DEF ReplaceHead, Publishing
  <2>3. /\ k \in Seq(Record) /\ Legible(Replay(k)) /\ Len(k) = Len(head) + 1
        /\ \A i \in 1 .. Len(head) : k[i] = head[i]
    BY <2>1, <2>2, NextChainOk
  <2>4. ASSUME NEW h \in heads
        PROVE  Legible(Replay(h)) /\ Len(h) <= Len(k) /\ \A i \in 1 .. Len(h) : h[i] = k[i]
    <3>1. /\ Legible(Replay(h)) /\ Len(h) <= Len(head)
          /\ \A i \in 1 .. Len(h) : h[i] = head[i]
      BY <1>1 DEF Heads
    <3>2. h \in Seq(Record)
      BY <1>1 DEF Stored
    <3>3. Len(h) \in Nat /\ Len(head) \in Nat
      BY <1>1, <3>2
    <3> QED
      BY <2>3, <3>1, <3>3
  <2>5. Len(k) <= Len(k)
    BY <2>3
  <2> QED
    BY <1>1, <2>2, <2>3, <2>4, <2>5 DEF Heads, Stored
<1>5. ASSUME UNCHANGED <<head, records>>, heads' = {head}, told' = head
      PROVE  Heads' /\ Stored'
  BY <1>1, <1>5 DEF Heads, Stored
<1>6. CASE PowerLoss
  <2>1. head' \in heads /\ heads' = {head'} /\ records' \subseteq records /\ told' = told
    BY <1>6 DEF PowerLoss
  <2>2. PICK h : h = head'
    OBVIOUS
  <2>3. Legible(Replay(h)) /\ Len(h) \in Nat
    BY <1>1, <2>1, <2>2 DEF Heads, Stored
  <2> QED
    BY <1>1, <2>1, <2>2, <2>3 DEF Heads, Stored
<1>7. ASSUME NEW p \in Process, Issue(p) \/ Proceed(p) \/ Fault(p)
      PROVE  Heads' /\ Stored'
  <2>1. CASE Issue(p) \/ Retry(p) \/ Enter(p) \/ Authorize(p) \/ SyncFails(p) \/ Kill(p)
    BY <1>2, <2>1 DEF Issue, Retry, Enter, Authorize, SyncFails, Kill, ledger
  <2>2. CASE PublishRecord(p) \/ PublishFails(p)
    BY <1>3, <2>2 DEF PublishRecord, PublishFails, Publishing
  <2>3. CASE SyncHead(p) \/ Resync(p)
    BY <1>5, <2>3 DEF SyncHead, Resync
  <2> QED
    BY <1>4, <1>7, <2>1, <2>2, <2>3 DEF Proceed, Fault
<1>8. ASSUME NEW l \in Lineage, World(l)
      PROVE  Heads' /\ Stored'
  BY <1>2, <1>8 DEF World, RecoverReview, ApproveReview, WithdrawReview, BindLegacy, Reviewed, ledger
<1>9. CASE Edit
  BY <1>2, <1>9 DEF Edit, ledger
<1>10. CASE UNCHANGED vars
  BY <1>2, <1>10 DEF vars, ledger
<1> QED
  BY <1>6, <1>7, <1>8, <1>9, <1>10 DEF Next

\* The types of the world, and the bounds.
Worldly ==
  /\ authority \in [Lineage -> Review]
  /\ legacy \in ReviewBinding \cup {None}
  /\ tree \in Tree
  /\ issued \in 0 .. MaxRequests /\ faults \in 0 .. MaxFaults /\ edits \in 0 .. MaxEdits

\* Every step keeps the types of the world and the bounds.
LEMMA WorldlyStep ==
  ASSUME RInv, [Next]_vars
  PROVE  Worldly'
<1>0. Worldly /\ MaxRequests \in Nat /\ MaxFaults \in Nat /\ MaxEdits \in Nat
  BY BoundAssumption DEF RInv, TypeOK, Worldly
<1>1. ASSUME UNCHANGED world, UNCHANGED faults \/ (faults < MaxFaults /\ faults' = faults + 1),
             UNCHANGED issued \/ (issued < MaxRequests /\ issued' = issued + 1)
      PROVE  Worldly'
  BY <1>0, <1>1 DEF Worldly, world
<1>2. ASSUME NEW p \in Process, Issue(p) \/ Proceed(p) \/ Fault(p)
      PROVE  Worldly'
  <2>1. CASE Issue(p) \/ Fault(p)
    BY <1>1, <2>1 DEF Fault, Issue, PublishFails, SyncFails, Kill
  <2>2. CASE Proceed(p)
    BY <1>1, <2>2 DEF Proceed, Retry, Enter, Authorize, PublishRecord, ReplaceHead, SyncHead, Resync
  <2> QED
    BY <1>2, <2>1, <2>2
<1>3. CASE PowerLoss
  BY <1>1, <1>3 DEF PowerLoss
<1>4. CASE UNCHANGED vars
  BY <1>1, <1>4 DEF vars
<1>5. CASE Edit
  BY <1>0, <1>5 DEF Edit, Worldly
<1>6. ASSUME NEW l \in Lineage, World(l)
      PROVE  Worldly'
  <2>1. ASSUME NEW r \in Review, Reviewed(l, r),
               UNCHANGED edits \/ (edits < MaxEdits /\ edits' = edits + 1)
        PROVE  Worldly'
    BY <1>0, <2>1 DEF Worldly, Reviewed
  <2>2. CASE RecoverReview(l)
    <3>1. PICK m \in Lineage :
            Reviewed(l, [state |-> "open", tree |-> None, predecessor |-> m,
                         changed |-> authority[m].state = "approved"])
      BY <2>2 DEF RecoverReview
    <3>2. PICK x \in BOOLEAN : x = (authority[m].state = "approved")
      OBVIOUS
    <3>3. [state |-> "open", tree |-> None, predecessor |-> m, changed |-> x] \in Review
      BY DEF Review
    <3> QED
      BY <2>1, <2>2, <3>1, <3>2, <3>3 DEF RecoverReview
  <2>3. CASE ApproveReview(l)
    <3>1. [authority[l] EXCEPT !.state = "approved", !.tree = tree] \in Review
      BY <1>0 DEF Worldly, Review
    <3> QED
      BY <2>1, <2>3, <3>1 DEF ApproveReview
  <2>4. CASE WithdrawReview(l)
    <3>1. [authority[l] EXCEPT !.state = "withdrawn"] \in Review
      BY <1>0 DEF Worldly, Review
    <3> QED
      BY <2>1, <2>4, <3>1 DEF WithdrawReview
  <2>5. CASE BindLegacy(l)
    <3>1. BindingOf(l) \in ReviewBinding
      BY <1>0, <2>5 DEF BindLegacy, GateAllows, BindingOf, ReviewBinding, Worldly
    <3> QED
      BY <1>0, <2>5, <3>1 DEF BindLegacy, Worldly
  <2> QED
    BY <1>6, <2>2, <2>3, <2>4, <2>5 DEF World
<1> QED
  BY <1>2, <1>3, <1>4, <1>5, <1>6 DEF Next

\* The steps of the reviews keep what a recovery continues.
LEMMA WorldOk ==
  ASSUME RInv, NEW l \in Lineage, World(l)
  PROVE  ScopesKept /\ Unseen' /\ UNCHANGED <<head, client>>
<1>1. Unseen /\ authority \in [Lineage -> Review] /\ UNCHANGED <<head, client>>
  BY DEF RInv, TypeOK, World, RecoverReview, ApproveReview, WithdrawReview, BindLegacy, Reviewed,
         ledger
<1>2. ASSUME NEW r, authority' = [authority EXCEPT ![l] = r], r.state # "none",
             \/ authority[l].state = "none"
             \/ r.predecessor = authority[l].predecessor /\ r.changed = authority[l].changed
      PROVE  ScopesKept /\ Unseen'
  BY <1>1, <1>2 DEF ScopesKept, Unseen, NoReview
<1>3. CASE RecoverReview(l)
  <2>1. PICK m \in Lineage :
          Reviewed(l, [state |-> "open", tree |-> None, predecessor |-> m,
                       changed |-> authority[m].state = "approved"])
    BY <1>3 DEF RecoverReview
  <2>2. PICK r : r = [state |-> "open", tree |-> None, predecessor |-> m,
                      changed |-> authority[m].state = "approved"]
    OBVIOUS
  <2>3. r.state = "open" /\ authority' = [authority EXCEPT ![l] = r]
    BY <2>1, <2>2 DEF Reviewed
  <2> QED
    BY <1>1, <1>2, <1>3, <2>3 DEF RecoverReview
<1>4. CASE ApproveReview(l)
  <2>1. PICK r : r = [authority[l] EXCEPT !.state = "approved", !.tree = tree]
    OBVIOUS
  <2>2. /\ r.state = "approved" /\ r.predecessor = authority[l].predecessor
        /\ r.changed = authority[l].changed
    BY <1>1, <2>1 DEF Review
  <2> QED
    BY <1>1, <1>2, <1>4, <2>1, <2>2 DEF ApproveReview, Reviewed
<1>5. CASE WithdrawReview(l)
  <2>1. PICK r : r = [authority[l] EXCEPT !.state = "withdrawn"]
    OBVIOUS
  <2>2. /\ r.state = "withdrawn" /\ r.predecessor = authority[l].predecessor
        /\ r.changed = authority[l].changed
    BY <1>1, <2>1 DEF Review
  <2> QED
    BY <1>1, <1>2, <1>5, <2>1, <2>2 DEF WithdrawReview, Reviewed
<1>6. CASE BindLegacy(l)
  BY <1>1, <1>6 DEF BindLegacy, ScopesKept, Unseen
<1> QED
  BY <1>1, <1>3, <1>4, <1>5, <1>6 DEF World

\* A step that leaves the chain and the clients alone.
LEMMA AroundOk ==
  ASSUME RInv, ScopesKept, UNCHANGED <<head, client>>
  PROVE  ClientsOk'
<1>1. Unseen
  BY DEF RInv
<1>2. PICK s : s = Status
  OBVIOUS
<1>3. Status' = s
  BY <1>2 DEF Status
<1>4. SUFFICES ASSUME NEW q \in Process
               PROVE  ClientOk(client[q], Status)' /\ Recovers(client[q], Status)'
  BY DEF ClientsOk
<1>5. PICK d : d = client[q]
  OBVIOUS
<1>6. ClientOk(d, s) /\ Recovers(d, s)
  BY <1>2, <1>5 DEF RInv, ClientsOk
<1>7. Recovers(d, s)'
  BY <1>1, <1>6, RecoversKept
<1>8. client'[q] = d
  BY <1>5
<1> QED
  BY <1>3, <1>6, <1>7, <1>8 DEF Recovers

\* Every step keeps what the clients rely on.
LEMMA ClientsStep ==
  ASSUME RInv, [Next]_vars
  PROVE  ClientsOk' /\ Unseen'
<1>1. ASSUME UNCHANGED authority
      PROVE  ScopesKept /\ Unseen'
  BY <1>1 DEF ScopesKept, Unseen, RInv
<1>2. ASSUME NEW p \in Process, Issue(p) \/ Proceed(p) \/ Fault(p)
      PROVE  ClientsOk' /\ Unseen'
  <2>1. UNCHANGED authority
    BY <1>2 DEF Proceed, Fault, Issue, Retry, Enter, Authorize, PublishRecord, ReplaceHead, SyncHead,
                Resync, PublishFails, SyncFails, Kill, world
  <2> QED
    BY <1>1, <1>2, <2>1, ClientStepOk
<1>3. ASSUME NEW l \in Lineage, World(l)
      PROVE  ClientsOk' /\ Unseen'
  BY <1>3, WorldOk, AroundOk
<1>4. CASE Edit \/ UNCHANGED vars
  <2>1. UNCHANGED <<authority, head, client>>
    BY <1>4 DEF Edit, vars, ledger, world
  <2> QED
    BY <1>1, <2>1, AroundOk
<1>5. CASE PowerLoss
  <2>1. UNCHANGED authority
    BY <1>5 DEF PowerLoss, world
  <2> QED
    BY <1>1, <1>5, <2>1, PowerLossOk
<1> QED
  BY <1>2, <1>3, <1>4, <1>5 DEF Next

\* A legible status has its types.
LEMMA LegibleTyped ==
  ASSUME NEW s, Legible(s)
  PROVE  StatusTyped(s)
<1>1. s \in StatusType
  BY DEF Legible
<1>2. s.evidence \in 0 .. MaxRequests /\ MaxRequests \in Nat
  BY <1>1, BoundAssumption DEF StatusType
<1>3. s.evidence \in Nat
  BY <1>2
<1> QED
  BY <1>1, <1>3 DEF StatusType, StatusTyped

\* The types follow from the rest of the invariant.
LEMMA TypesFollow ==
  ASSUME IInv', Heads', ClientsOk', Stored', Worldly'
  PROVE  TypeOK'
<1>1. head' \in heads' /\ durable' \subseteq records'
  BY DEF IInv, Chains
<1>2. head' \in Seq(Record)
  BY <1>1 DEF Stored
<1>3. client' \in [Process -> Client]
  <2>1. client' = [p \in Process |-> client'[p]]
    BY DEF IInv, Clients
  <2>2. \A p \in Process : client'[p] \in Client
    BY DEF ClientsOk, ClientOk
  <2> QED
    BY <2>1, <2>2
<1>4. \A p \in Process : client'[p].pc \in Inside <=> lock' = p
  BY DEF IInv, Clients, Writing
<1>5. StatusTyped(Status)'
  <2>1. PICK s : s = Status'
    OBVIOUS
  <2>2. Legible(s)
    BY <1>1, <2>1 DEF Heads, Status
  <2> QED
    BY <2>1, <2>2, LegibleTyped
<1> QED
  BY <1>1, <1>2, <1>3, <1>4, <1>5 DEF TypeOK, Stored, Worldly

\* The invariant is inductive.
LEMMA RInvStep ==
  ASSUME RInv, [Next]_vars
  PROVE  RInv'
<1>1. IInv'
  BY StepKeeps DEF RInv
<1>2. Heads' /\ Stored' /\ Worldly' /\ ClientsOk' /\ Unseen'
  BY StoredStep, WorldlyStep, ClientsStep
<1> QED
  BY <1>1, <1>2, TypesFollow DEF RInv

\* The empty ledger has it.
LEMMA RInvInit ==
  ASSUME Init
  PROVE  RInv
<1>1. IInv
  BY InvInit
<1>2. PICK e : e = <<>>
  OBVIOUS
<1>3. e \in Seq(Record) /\ Len(e) = 0
  BY <1>2
<1>4. head = e /\ heads = {e} /\ told = e /\ records = {}
  BY <1>2 DEF Init
<1>5. Legible(Replay(e))
  BY <1>2, ReplayEmpty, NewLegible
<1>6. Heads
  BY <1>3, <1>4, <1>5 DEF Heads
<1>7. Stored
  BY <1>3, <1>4 DEF Stored
<1>8. Unseen
  BY DEF Init, Unseen
<1>9. client = [p \in Process |-> NoClient]
  BY DEF Init
<1>10. ClientsOk
  <2>1. SUFFICES ASSUME NEW p \in Process
                 PROVE  ClientOk(client[p], Status) /\ Recovers(client[p], Status)
    BY DEF ClientsOk
  <2>2. client[p] = NoClient
    BY <1>9
  <2> QED
    BY <2>2, NoClientOk, AtNoChainOk DEF Recovers, Publishing, AtNoChain
<1>11. NoReview \in Review
  BY DEF NoReview, Review
<1>12. Worldly
  <2>1. MaxRequests \in Nat /\ MaxFaults \in Nat /\ MaxEdits \in Nat
    BY BoundAssumption
  <2> QED
    BY <1>11, <2>1, StartAssumption DEF Init, Worldly
<1>13. StatusTyped(Status)
  BY <1>4, <1>5, LegibleTyped DEF Status
<1>14. TypeOK
  <2>1. \A p \in Process : client[p].pc \in Inside <=> lock = p
    BY <1>1 DEF IInv, Clients, Writing
  <2>2. client \in [Process -> Client]
    BY <1>9, NoClientOk
  <2>3. durable \subseteq records /\ head \in Seq(Record)
    BY <1>3, <1>4 DEF Init
  <2> QED
    BY <1>7, <1>12, <1>13, <2>1, <2>2, <2>3 DEF TypeOK, Stored, Worldly
<1> QED
  BY <1>1, <1>6, <1>8, <1>10, <1>14 DEF RInv

\* The invariant holds.
LEMMA Invariance == Spec => []RInv
  BY RInvInit, RInvStep, PTL DEF Spec

-----------------------------------------------------------------------------
(* The steps that change the chain.                                         *)

\* HEAD changes only by a commit, and by a power loss that shortens it.
LEMMA HeadChanges ==
  ASSUME RInv, [Next]_vars
  PROVE  \/ UNCHANGED head
         \/ \E p \in Process : ReplaceHead(p)
         \/ PowerLoss
  BY DEF Next, Proceed, Fault, World, Issue, Retry, Enter, Authorize, PublishRecord, SyncHead, Resync,
         PublishFails, SyncFails, Kill, Edit, RecoverReview, ApproveReview, WithdrawReview,
         BindLegacy, Reviewed, vars, ledger

\* A record that completes an objective leaves it bound to a review of the
\* candidate it finished with.
ReviewKept(s, t) ==
  t.binding # None =>
    /\ t.binding.tree = LastAttempt(t).finish
    /\ s.binding \notin {None, t.binding} => s.binding.lineage \in ScopeChain(t.binding.lineage)

\* Replay of a record that may be published leaves a completed objective
\* reviewed.
LEMMA AppliedReviewed ==
  ASSUME NEW s, Legible(s), ~s.complete, NEW c, Publishing(c), NEW record, record = c.scratch.record,
         Publishable(s, record), Recovers(c, s), NEW t, t = Applied(s, record), t.complete
  PROVE  ReviewKept(s, t)
<1>1. PICK r, e : r = record.request /\ e = record.event
  OBVIOUS
<1>2. WellFormed(record) /\ Follows(s, record)
  BY DEF Publishable
<1>3. /\ r \in Request /\ e \in Event /\ r.op \in {"begin", "finish", "reset", "bind"}
      /\ r.op \in {"begin", "finish"} => e.tree \in Tree
      /\ r.op = "bind" \/ (Remediates(r) /\ ~e.exceeded) => e.binding \in ReviewBinding
  BY <1>1, <1>2, RequestFields DEF WellFormed, Record
<1>4. t = CASE r.op = "begin" -> Begun(s, r.scope, e)
            [] r.op = "finish" /\ (r.remedy = None \/ e.exceeded) -> Finished(s, r, e)
            [] r.op = "finish" /\ r.remedy # None /\ ~e.exceeded -> Bound(Finished(s, r, e), e)
            [] r.op = "reset" -> AfterReset(s)
            [] OTHER -> Bound(s, e)
  BY <1>1 DEF Applied
<1>5. CASE r.op = "begin"
  <2>1. PICK o : o = s.objective
    OBVIOUS
  <2>2. s \in StatusType
    BY DEF Legible
  <2>3. Begun(s, r.scope, e).complete = s.complete
    BY <2>2 DEF Begun, StatusType
  <2> QED
    BY <1>4, <1>5, <2>3
<1>6. CASE r.op = "reset"
  BY <1>1, <1>2, <1>4, <1>6, ResetLegible DEF Follows
<1>7. CASE r.op = "bind"
  <2>1. Bound(s, e).complete = s.complete
    BY <1>3, <1>7, BoundLegible
  <2> QED
    BY <1>4, <1>7, <2>1
<1>8. CASE r.op = "finish"
  <2>1. PICK f : f = Finished(s, r, e)
    OBVIOUS
  <2>2. FinishAgrees(s, e)
    BY <1>1, <1>2, <1>8 DEF Follows
  <2>3. /\ Legible(f) /\ f.binding = s.binding
        /\ f.complete <=> r.outcome = "passed" /\ ~e.exceeded
        /\ LastAttempt(f).finish = e.tree
    BY <1>3, <1>8, <2>1, <2>2, FinishedLegible
  <2>4. CASE r.remedy # None /\ ~e.exceeded
    <3>1. e.binding \in ReviewBinding /\ Remediates(r)
      BY <1>3, <1>8, <2>4 DEF Remediates
    <3>2. t = Bound(f, e)
      BY <1>4, <1>8, <2>1, <2>4
    <3>3. t.binding = e.binding /\ t.complete = f.complete /\ t.attempts = f.attempts
      <4>1. /\ Bound(f, e).binding = e.binding /\ Bound(f, e).complete = f.complete
            /\ Bound(f, e).attempts = f.attempts
        BY <2>3, <3>1, BoundLegible
      <4> QED
        BY <3>2, <4>1
    <3>4. Completes(record)
      BY <1>1, <1>8, <2>3, <3>3 DEF Completes
    <3>5. e.binding.tree = e.tree
      BY <1>1, <3>1, <3>4 DEF Publishable
    <3>6. LastAttempt(t).finish = e.tree
      BY <2>3, <3>3 DEF LastAttempt
    <3>7. s.binding # None => s.binding.lineage \in ScopeChain(e.binding.lineage)
      BY <1>1, <3>1, <3>4 DEF Recovers
    <3> QED
      BY <3>3, <3>5, <3>6, <3>7 DEF ReviewKept
  <2>5. CASE r.remedy = None \/ e.exceeded
    <3>1. t = f
      BY <1>4, <1>8, <2>1, <2>5
    <3>2. Completes(record) /\ ~Remediates(r)
      BY <1>1, <1>8, <2>3, <2>5, <3>1 DEF Completes, Remediates
    <3>3. s.binding # None => s.binding.tree = e.tree
      BY <1>1, <3>2 DEF Publishable
    <3> QED
      BY <2>3, <3>1, <3>3 DEF ReviewKept
  <2> QED
    BY <2>4, <2>5
<1> QED
  BY <1>3, <1>5, <1>6, <1>7, <1>8

\* The commit of a record.
LEMMA CommitReviewed ==
  ASSUME RInv, NEW p \in Process, ReplaceHead(p), ~Status.complete, Status'.complete
  PROVE  ReviewKept(Status, Status')
<1>1. PICK s, t, c, record : s = Status /\ t = Status' /\ c = client[p] /\ record = c.scratch.record
  OBVIOUS
<1>2. Publishing(c)
  BY <1>1 DEF ReplaceHead, Publishing
<1>3. head' = NextChain(p)
  BY DEF ReplaceHead
<1>4. Legible(s) /\ Recovers(c, s)
  BY <1>1, AtClient
<1>5. Publishable(s, record) /\ t = Applied(s, record)
  BY <1>1, <1>2, <1>3, NextChainOk DEF Status
<1> QED
  BY <1>1, <1>2, <1>4, <1>5, AppliedReviewed

-----------------------------------------------------------------------------
(* The sequence of requests that a client sees.                             *)

RequestsOf(h) == [n \in 1 .. Len(h) |-> h[n].request]

\* The requests of a chain form a sequence.
LEMMA RequestsType ==
  ASSUME NEW h \in Seq(Record)
  PROVE  /\ RequestsOf(h) \in Seq(Request) /\ Len(RequestsOf(h)) = Len(h) /\ Len(h) \in Nat
         /\ \A n \in 1 .. Len(h) : RequestsOf(h)[n] = h[n].request
<1>1. \A n \in 1 .. Len(h) : h[n].request \in Request
  <2>1. SUFFICES ASSUME NEW n \in 1 .. Len(h) PROVE h[n].request \in Request
    OBVIOUS
  <2>2. h[n] \in Record
    OBVIOUS
  <2> QED
    BY <2>2 DEF Record
<1>2. Len(h) \in Nat
  OBVIOUS
<1>3. RequestsOf(h) \in Seq(Request)
  BY <1>1, <1>2, IsASeq DEF RequestsOf
<1> QED
  BY <1>2, <1>3 DEF RequestsOf

\* The requests of a beginning of a chain.
LEMMA RequestsBegin ==
  ASSUME NEW h \in Seq(Record), NEW k \in Seq(Record), Len(h) <= Len(k),
         \A i \in 1 .. Len(h) : h[i] = k[i]
  PROVE  RequestsOf(h) = SubSeq(RequestsOf(k), 1, Len(RequestsOf(h)))
<1>1. /\ RequestsOf(h) \in Seq(Request) /\ Len(RequestsOf(h)) = Len(h) /\ Len(h) \in Nat
      /\ \A n \in 1 .. Len(h) : RequestsOf(h)[n] = h[n].request
      /\ RequestsOf(k) \in Seq(Request) /\ Len(RequestsOf(k)) = Len(k) /\ Len(k) \in Nat
      /\ \A n \in 1 .. Len(k) : RequestsOf(k)[n] = k[n].request
  BY RequestsType
<1>2. PICK a, b, n : a = RequestsOf(h) /\ b = RequestsOf(k) /\ n = Len(h)
  OBVIOUS
<1>3. /\ a \in Seq(Request) /\ b \in Seq(Request) /\ n \in Nat /\ Len(a) = n /\ n <= Len(b)
      /\ \A i \in 1 .. n : a[i] = b[i]
  BY <1>1, <1>2
<1>4. SubSeq(b, 1, n) = [i \in 1 .. n |-> b[i]]
  BY <1>3
<1>5. a = [i \in 1 .. n |-> a[i]]
  BY <1>3
<1>6. a = SubSeq(b, 1, n)
  BY <1>3, <1>4, <1>5
<1> QED
  BY <1>1, <1>2, <1>6
\* A commit adds a request that is not in the sequence.
LEMMA CommitTakesEffect ==
  ASSUME RInv, NEW p \in Process, ReplaceHead(p)
  PROVE  Log!TakeEffect
<1>1. PICK a, b, h, k : a = RequestsOf(h) /\ b = RequestsOf(k) /\ h = head /\ k = NextChain(p)
  OBVIOUS
<1>2. PICK record : record = client[p].scratch.record
  OBVIOUS
<1>3. /\ head' = k /\ told' = told /\ Publishing(client[p]) /\ client[p].pc = "replace"
  BY <1>1 DEF ReplaceHead, Publishing
<1>4. /\ Publishable(Status, record) /\ k \in Seq(Record) /\ Len(k) = Len(h) + 1
      /\ \A i \in 1 .. Len(h) : k[i] = h[i]
  BY <1>1, <1>2, <1>3, NextChainOk
<1>5. h \in Seq(Record) /\ IsChain(h)
  BY <1>1 DEF RInv, TypeOK, IInv, Chains
<1>6. k[Len(k)] = record
  BY <1>1, <1>2, <1>5, Extended DEF NextChain
<1>7. /\ a \in Seq(Request) /\ Len(a) = Len(h) /\ Len(h) \in Nat
      /\ \A n \in 1 .. Len(h) : a[n] = h[n].request
      /\ b \in Seq(Request) /\ Len(b) = Len(k) /\ Len(k) \in Nat
      /\ \A n \in 1 .. Len(k) : b[n] = k[n].request
  BY <1>1, <1>4, <1>5, RequestsType
<1>8. a = SubSeq(b, 1, Len(a))
  <2>1. Len(h) <= Len(k)
    BY <1>4, <1>7
  <2> QED
    BY <1>1, <1>4, <1>5, <2>1, RequestsBegin
<1>9. PICK r : r = b[Len(b)]
  OBVIOUS
<1>10. r = record.request /\ r \in Request
  <2>1. r = record.request
    BY <1>4, <1>6, <1>7, <1>9
  <2>2. record \in Record
    BY <1>4 DEF Publishable, WellFormed
  <2> QED
    BY <2>1, <2>2 DEF Record
<1>11. \A n \in 1 .. Len(a) : RequestId(a[n]) # RequestId(r)
  <2>1. Known(head, client[p].request) = {} /\ record.request = client[p].request
    BY <1>2, <1>3 DEF RInv, IInv, Clients, Writing
  <2>2. \A n \in 1 .. Len(h) : RequestId(h[n].request) # RequestId(r)
    BY <1>1, <1>10, <2>1 DEF Known
  <2> QED
    BY <1>7, <2>2
<1>12. [n \in 1 .. Len(head) |-> head[n].request] = a
  BY <1>1 DEF RequestsOf
<1>13. [n \in 1 .. Len(head') |-> head'[n].request] = b
  BY <1>1, <1>3 DEF RequestsOf
<1>14. Len(b) = Len(a) + 1
  BY <1>4, <1>7
<1> QED
  BY <1>3, <1>8, <1>9, <1>10, <1>11, <1>12, <1>13, <1>14 DEF Log!TakeEffect

\* An answer settles all that HEAD names.
LEMMA AnswerSettles ==
  ASSUME RInv, told' = head, UNCHANGED head
  PROVE  Log!Settle
<1>1. PICK h : h = head
  OBVIOUS
<1>2. h \in Seq(Record) /\ told \in Seq(Record) /\ Keeps(h)
  BY <1>1 DEF RInv, TypeOK, IInv, Chains, OnceAndKept
<1>3. RequestsOf(h) \in Seq(Request) /\ Len(RequestsOf(h)) = Len(h) /\ Len(h) \in Nat
  BY <1>2, RequestsType
<1>4. [n \in 1 .. Len(head) |-> head[n].request] = RequestsOf(h)
      /\ [n \in 1 .. Len(head') |-> head'[n].request] = RequestsOf(h)
  BY <1>1 DEF RequestsOf
<1>5. Len(told) \in Nat /\ Len(told) <= Len(h)
  BY <1>2 DEF Keeps
<1>6. Len(told') = Len(h)
  BY <1>1
<1> QED
  BY <1>3, <1>4, <1>5, <1>6 DEF Log!Settle

\* A power loss leaves a beginning of the sequence with all that is settled.
LEMMA PowerLossLoses ==
  ASSUME RInv, PowerLoss
  PROVE  Log!Lose
<1>1. PICK h, k : h = head' /\ k = head
  OBVIOUS
<1>2. h \in heads /\ told' = told
  BY <1>1 DEF PowerLoss
<1>3. /\ h \in Seq(Record) /\ k \in Seq(Record) /\ told \in Seq(Record)
      /\ Len(h) <= Len(k) /\ \A i \in 1 .. Len(h) : h[i] = k[i]
      /\ Len(told) <= Len(h)
  BY <1>1, <1>2 DEF RInv, TypeOK, Heads, IInv, OnceAndKept, Keeps
<1>4. PICK a, b : a = RequestsOf(h) /\ b = RequestsOf(k)
  OBVIOUS
<1>5. /\ Len(a) = Len(h) /\ Len(h) \in Nat /\ Len(b) = Len(k) /\ Len(k) \in Nat
      /\ Len(told) \in Nat
  BY <1>3, <1>4, RequestsType
<1>6. a = SubSeq(b, 1, Len(a))
  BY <1>3, <1>4, RequestsBegin
<1>7. Len(a) \in Len(told) .. Len(b)
  BY <1>3, <1>5
<1>8. [n \in 1 .. Len(head) |-> head[n].request] = b
      /\ [n \in 1 .. Len(head') |-> head'[n].request] = a
  BY <1>1, <1>4 DEF RequestsOf
<1> QED
  BY <1>2, <1>6, <1>7, <1>8 DEF Log!Lose

\* The sequence of requests, and how many of them are settled.
LogOf == [n \in 1 .. Len(head) |-> head[n].request]
SettledOf == Len(told)

\* Every step is one of the log, or leaves what it speaks of.
LEMMA StepLogged ==
  ASSUME RInv, [Next]_vars
  PROVE  [Log!Next]_<<LogOf, SettledOf>>
<1>1. CASE UNCHANGED <<head, told>>
  BY <1>1 DEF LogOf, SettledOf
<1>2. ASSUME NEW p \in Process, ReplaceHead(p)
      PROVE  Log!Next
  BY <1>2, CommitTakesEffect DEF Log!Next
<1>3. ASSUME NEW p \in Process, SyncHead(p) \/ Resync(p)
      PROVE  Log!Next
  <2>1. told' = head /\ UNCHANGED head
    BY <1>3 DEF SyncHead, Resync
  <2> QED
    BY <2>1, AnswerSettles DEF Log!Next
<1>4. CASE PowerLoss
  BY <1>4, PowerLossLoses DEF Log!Next
<1>5. \/ UNCHANGED <<head, told>>
      \/ \E p \in Process : ReplaceHead(p) \/ SyncHead(p) \/ Resync(p)
      \/ PowerLoss
  BY DEF Next, Proceed, Fault, World, Issue, Retry, Enter, Authorize, PublishRecord,
         PublishFails, SyncFails, Kill, Edit, RecoverReview, ApproveReview, WithdrawReview,
         BindLegacy, Reviewed, vars, ledger
<1> QED
  BY <1>1, <1>2, <1>3, <1>4, <1>5

-----------------------------------------------------------------------------
(* The theorems.                                                            *)

\* Everything keeps its type, the status that replay makes of HEAD included,
\* and exactly the process inside a mutation holds LOCK.
THEOREM TypesHold == Spec => []TypeOK
<1>1. RInv => TypeOK
  BY DEF RInv
<1> QED
  BY <1>1, Invariance, PTL

\* Whatever the workspace, the review authority and the legacy file do while a
\* record is built, load() accepts every chain that HEAD may name.
THEOREM ChainsReplay == Spec => []HeadReplays
<1>1. RInv => HeadReplays
  BY DEF RInv, Heads, Legible, HeadReplays
<1> QED
  BY <1>1, Invariance, PTL

\* No objective gets an attempt beyond its budget of attempts or of lines, and
\* no change between two attempts escapes the charge.
THEOREM BudgetsHold == Spec => []BudgetHeld
<1>1. ASSUME RInv
      PROVE  BudgetHeld
  <2>1. PICK s : s = Status
    OBVIOUS
  <2>2. head \in heads
    BY <1>1 DEF RInv, IInv, Chains
  <2>3. Legible(s)
    BY <1>1, <2>1, <2>2 DEF RInv, Heads, Status
  <2>4. \A i \in 1 .. Len(s.attempts) : Within(s.attempts, i, FirstOf(s.attempts, i))
    BY <2>3, LegibleWithin
  <2> QED
    BY <2>1, <2>4 DEF BudgetHeld, Within
<1> QED
  BY <1>1, Invariance, PTL

\* The commit that completes a bound objective leaves it bound to a review of
\* the candidate it finished with, whatever moved since that was read.
THEOREM CompletionsReviewed == Spec => CompletionReviewed
<1> DEFINE Completed == ~Status.complete /\ Status'.complete /\ Status'.binding # None
           Longer == Len(head') > Len(head)
           Good == /\ Status'.binding.tree = LastAttempt(Status').finish
                   /\ Status.binding \notin {None, Status'.binding} =>
                        Status.binding.lineage \in ScopeChain(Status'.binding.lineage)
<1>1. ASSUME RInv, [Next]_vars
      PROVE  [Longer /\ ~Status.complete /\ Status'.complete /\ Status'.binding # None => Good]_head
  <2>1. CASE UNCHANGED head
    BY <2>1
  <2>2. ASSUME NEW p \in Process, ReplaceHead(p), Completed
        PROVE  Good
    <3>1. ReviewKept(Status, Status')
      BY <1>1, <2>2, CommitReviewed
    <3> QED
      BY <2>2, <3>1 DEF ReviewKept
  <2>3. ASSUME PowerLoss, Longer
        PROVE  FALSE
    <3>1. PICK h, k : h = head' /\ k = head
      OBVIOUS
    <3>2. h \in Seq(Record) /\ k \in Seq(Record) /\ Len(h) <= Len(k)
      BY <1>1, <2>3, <3>1 DEF PowerLoss, RInv, TypeOK, Heads
    <3>3. Len(h) \in Nat /\ Len(k) \in Nat
      BY <3>2
    <3> QED
      BY <2>3, <3>1, <3>2, <3>3
  <2> HIDE DEF Longer, Good
  <2> QED
    BY <1>1, <2>1, <2>2, <2>3, HeadChanges
<1> QED
  BY <1>1, Invariance, PTL DEF Spec, CompletionReviewed

\* The ledger implements the log: requests take effect once and in one order,
\* and what a client was told of survives every fault.
THEOREM PromisesKept == Spec => PromiseKept
<1>1. Init => Log!Init
  <2>1. SUFFICES ASSUME Init PROVE Log!Init
    OBVIOUS
  <2>2. PICK e : e = <<>>
    OBVIOUS
  <2>3. e \in Seq(Record) /\ Len(e) = 0
    BY <2>2
  <2>4. head = e /\ told = e
    BY <2>1, <2>2 DEF Init
  <2>5. RequestsOf(e) \in Seq(Request) /\ Len(RequestsOf(e)) = 0
    BY <2>3, RequestsType
  <2>6. RequestsOf(e) = <<>>
    BY <2>5, EmptySeq
  <2>7. [n \in 1 .. Len(head) |-> head[n].request] = RequestsOf(e) /\ Len(told) = 0
    BY <2>3, <2>4 DEF RequestsOf
  <2> QED
    BY <2>6, <2>7 DEF Log!Init
<1>2. RInv /\ [Next]_vars => [Log!Next]_<<LogOf, SettledOf>>
  BY StepLogged
<1> QED
  BY <1>1, <1>2, Invariance, PTL DEF Spec, PromiseKept, Log!Spec, LogOf, SettledOf

=============================================================================
