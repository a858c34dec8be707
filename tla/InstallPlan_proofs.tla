-------------------------- MODULE InstallPlan_proofs --------------------------
(***************************************************************************)
(* What the plan of an install and the pruning of the backups compute, for *)
(* any graph of components and any number of backups.                      *)
(***************************************************************************)
EXTENDS InstallPlan, SequenceTheorems, FiniteSetTheorems, WellFoundedInduction, TLAPS

-----------------------------------------------------------------------------
(* Recursion over the numbers up to a bound.                                *)

\* A set of numbers has a least one.
LEMMA SmallestExists ==
  ASSUME NEW S \in SUBSET Nat, S # {}
  PROVE  \E i \in S : \A j \in S : i <= j
<1> DEFINE less == {ss \in Nat \X Nat : ss[1] < ss[2]}
<1>1. less = OpToRel(<, Nat)
  BY DEF OpToRel
<1>2. IsWellFoundedOn(less, Nat)
  BY <1>1, NatLessThanWellFounded
<1>3. PICK i \in S : \A j \in S : <<j, i>> \notin less
  BY <1>2, WFMin
<1>4. ASSUME NEW j \in S
      PROVE  i <= j
  <2>1. i \in Nat /\ j \in Nat /\ <<j, i>> \notin less
    BY <1>3
  <2> QED
    BY <2>1
<1> QED
  BY <1>4

\* What holds of 0 and is passed on holds up to n; told of the numbers for
\* which it holds.
LEMMA Reaches ==
  ASSUME NEW n \in Nat, NEW T, 0 \in T, \A m \in 1 .. n : m - 1 \in T => m \in T
  PROVE  \A m \in 0 .. n : m \in T
<1> DEFINE S == {m \in 0 .. n : m \notin T}
<1>1. SUFFICES ASSUME S # {} PROVE FALSE
  OBVIOUS
<1>2. PICK i \in S : \A j \in S : i <= j
  <2>1. S \in SUBSET Nat
    OBVIOUS
  <2> HIDE DEF S
  <2> QED
    BY <1>1, <2>1, SmallestExists
<1>3. i \in 1 .. n /\ i - 1 \in 0 .. n /\ i - 1 \notin S
  BY <1>2
<1> QED
  BY <1>3

\* Each value is the step from the one before.
Iterates(f, base, step, n) ==
  f = [m \in 0 .. n |-> IF m = 0 THEN base ELSE step[<<f[m - 1], m>>]]

\* There is such a function, for a step that stays in its set.
LEMMA IterationExists ==
  ASSUME NEW V, NEW base \in V, NEW n \in Nat, NEW step \in [V \X (1 .. n) -> V]
  PROVE  \E f \in [0 .. n -> V] : Iterates(f, base, step, n)
<1> DEFINE T == {m \in 0 .. n : \E f \in [0 .. m -> V] : Iterates(f, base, step, m)}
<1>1. 0 \in T
  <2> DEFINE g == [m \in 0 .. 0 |-> base]
  <2>1. g \in [0 .. 0 -> V] /\ Iterates(g, base, step, 0)
    BY DEF Iterates
  <2> QED
    BY <2>1
<1>2. ASSUME NEW m \in 1 .. n, m - 1 \in T
      PROVE  m \in T
  <2>1. PICK f \in [0 .. m - 1 -> V] : Iterates(f, base, step, m - 1)
    BY <1>2
  <2>2. \A k \in 0 .. m - 1 : f[k] = IF k = 0 THEN base ELSE step[<<f[k - 1], k>>]
    BY <2>1 DEF Iterates
  <2> DEFINE g == [k \in 0 .. m |-> IF k = m THEN step[<<f[m - 1], m>>] ELSE f[k]]
  <2>3. step[<<f[m - 1], m>>] \in V
    OBVIOUS
  <2>4. g \in [0 .. m -> V]
    BY <2>3
  <2>5. ASSUME NEW k \in 0 .. m
        PROVE  g[k] = IF k = 0 THEN base ELSE step[<<g[k - 1], k>>]
    <3>1. CASE k = 0
      <4>1. 0 \in 0 .. m - 1 /\ m # 0
        OBVIOUS
      <4>2. f[0] = base
        BY <2>2, <4>1
      <4>3. g[k] = f[0]
        BY <3>1, <4>1
      <4> QED
        BY <3>1, <4>2, <4>3
    <3>2. CASE k # 0
      <4>1. k - 1 \in 0 .. m - 1 /\ g[k - 1] = f[k - 1]
        BY <3>2
      <4>2. g[k] = step[<<f[k - 1], k>>]
        BY <2>2, <3>2
      <4> QED
        BY <3>2, <4>1, <4>2
    <3> QED
      BY <3>1, <3>2
  <2>6. Iterates(g, base, step, m)
    BY <2>5 DEF Iterates
  <2> QED
    BY <2>4, <2>6
<1>3. n \in T
  <2> HIDE DEF T
  <2>1. \A m \in 0 .. n : m \in T
    BY <1>1, <1>2, Reaches
  <2> QED
    BY <2>1
<1> QED
  BY <1>3

-----------------------------------------------------------------------------
(* Backups.                                                                 *)

\* The backups kept of the first n.
Keeps(kept, backups, S) ==
  kept = [n \in 0 .. Len(backups) |->
            IF n = 0 THEN <<>>
            ELSE IF n \in S THEN kept[n - 1] ELSE Append(kept[n - 1], backups[n])]

\* What is left is the last of them.
LEMMA WithoutIs ==
  ASSUME NEW backups, NEW S
  PROVE  WithoutBackups(backups, S) = (CHOOSE kept : Keeps(kept, backups, S))[Len(backups)]
  BY DEF WithoutBackups, Keeps

\* There are such, each list one longer than the one before or the same.
LEMMA KeptExists ==
  ASSUME NEW B, NEW backups \in Seq(B), NEW S
  PROVE  \E kept : /\ Keeps(kept, backups, S) 
                   /\ WithoutBackups(backups, S) = kept[Len(backups)]
<1> DEFINE n == Len(backups)
           V == Seq(B)
           step == [x \in V \X (1 .. n) |->
                      IF x[2] \in S THEN x[1] ELSE Append(x[1], backups[x[2]])]
<1>1. n \in Nat /\ <<>> \in V /\ \A i \in 1 .. n : backups[i] \in B
  OBVIOUS
<1>2. step \in [V \X (1 .. n) -> V]
  <2>1. ASSUME NEW x \in V \X (1 .. n)
        PROVE  step[x] \in V
    <3>1. x[1] \in Seq(B) /\ x[2] \in 1 .. n /\ backups[x[2]] \in B
      BY <1>1
    <3>2. Append(x[1], backups[x[2]]) \in Seq(B)
      BY <3>1, AppendProperties
    <3> QED
      BY <3>1, <3>2
  <2> QED
    BY <2>1
<1>3. PICK f \in [0 .. n -> V] : Iterates(f, <<>>, step, n)
  <2> HIDE DEF V, n, step
  <2> QED
    BY <1>1, <1>2, IterationExists
<1>4. ASSUME NEW m \in 1 .. n
      PROVE  step[<<f[m - 1], m>>] =
               IF m \in S THEN f[m - 1] ELSE Append(f[m - 1], backups[m])
  <2>1. PICK v \in V : v = f[m - 1]
    BY <1>1, <1>3
  <2>2. <<v, m>> \in V \X (1 .. n)
    OBVIOUS
  <2> QED
    BY <2>1, <2>2
<1>5. Keeps(f, backups, S)
  <2> HIDE DEF step, V
  <2>1. f = [m \in 0 .. n |-> IF m = 0 THEN <<>> ELSE step[<<f[m - 1], m>>]]
    BY <1>3 DEF Iterates
  <2>2. f = [m \in 0 .. n |-> IF m = 0 THEN <<>>
               ELSE IF m \in S THEN f[m - 1] ELSE Append(f[m - 1], backups[m])]
    BY <1>1, <1>4, <2>1
  <2> QED
    BY <2>2 DEF Keeps
<1> DEFINE kept == CHOOSE k : Keeps(k, backups, S)
<1>6. Keeps(kept, backups, S)
  BY <1>5
<1> QED
  BY <1>6, WithoutIs

\* What is kept of the first n backups: all but those in S, the last of them at
\* last, and as many unpinned ones.
KeptOf(kept, backups, S, n) ==
  /\ \A i \in 1 .. n : i \notin S => \E j \in 1 .. Len(kept) : kept[j] = backups[i]
  /\ \A j \in 1 .. Len(kept) : \E i \in 1 .. n : i \notin S /\ kept[j] = backups[i]
  /\ n > 0 /\ n \notin S => Len(kept) > 0 /\ kept[Len(kept)] = backups[n]
  /\ Cardinality(Unpinned(kept)) = Cardinality({i \in 1 .. n : i \notin S /\ ~backups[i].pinned})

\* One backup more is unpinned, or not.
LEMMA UnpinnedAppend ==
  ASSUME NEW B, NEW kept \in Seq(B), NEW b \in B
  PROVE  /\ IsFiniteSet(Unpinned(kept))
         /\ Cardinality(Unpinned(Append(kept, b))) =
              Cardinality(Unpinned(kept)) + IF b.pinned THEN 0 ELSE 1
<1>1. PICK n \in Nat : n = Len(kept)
  OBVIOUS
<1>2. PICK next : next = Append(kept, b)
  OBVIOUS
<1>3. /\ DOMAIN kept = 1 .. n /\ DOMAIN next = 1 .. n + 1
      /\ \A i \in 1 .. n : next[i] = kept[i]
      /\ next[n + 1] = b
  BY <1>1, <1>2, AppendProperties
<1>4. Unpinned(kept) = {i \in 1 .. n : ~kept[i].pinned}
  BY <1>3 DEF Unpinned
<1>5. Unpinned(next) = Unpinned(kept) \cup IF b.pinned THEN {} ELSE {n + 1}
  BY <1>3, <1>4 DEF Unpinned
<1>6. IsFiniteSet(Unpinned(kept))
  <2>1. IsFiniteSet(1 .. n) /\ Unpinned(kept) \subseteq 1 .. n
    BY <1>4, FS_Interval
  <2> QED
    BY <2>1, FS_Subset
<1>7. n + 1 \notin Unpinned(kept)
  BY <1>4
<1>8. Cardinality(Unpinned(kept)) \in Nat
  BY <1>6, FS_CardinalityType
<1>9. CASE b.pinned
  BY <1>2, <1>5, <1>6, <1>8, <1>9
<1>10. CASE ~b.pinned
  <2>1. Unpinned(next) = Unpinned(kept) \cup {n + 1}
    BY <1>5, <1>10
  <2>2. Cardinality(Unpinned(next)) = Cardinality(Unpinned(kept)) + 1
    BY <1>6, <1>7, <2>1, FS_AddElement
  <2> QED
    BY <1>2, <1>6, <1>10, <2>2
<1> QED
  BY <1>9, <1>10

\* One backup is looked at.
LEMMA KeptStep ==
  ASSUME NEW B, NEW backups \in Seq(B), NEW S, NEW m \in 1 .. Len(backups),
         NEW kept \in Seq(B), KeptOf(kept, backups, S, m - 1),
         NEW next, next = IF m \in S THEN kept ELSE Append(kept, backups[m])
  PROVE  next \in Seq(B) /\ KeptOf(next, backups, S, m)
<1> DEFINE U(k) == {i \in 1 .. k : i \notin S /\ ~backups[i].pinned}
<1>1. PICK o \in Nat : o = m - 1
  OBVIOUS
<1>2. /\ m = o + 1 /\ backups[m] \in B /\ m > 0 /\ Len(kept) \in Nat
      /\ KeptOf(kept, backups, S, o)
  BY <1>1
<1>3. /\ \A i \in 1 .. o : i \notin S => \E j \in 1 .. Len(kept) : kept[j] = backups[i]
      /\ \A j \in 1 .. Len(kept) : \E i \in 1 .. o : i \notin S /\ kept[j] = backups[i]
      /\ Cardinality(Unpinned(kept)) = Cardinality(U(o))
  BY <1>2 DEF KeptOf
<1>4. CASE m \in S
  <2>1. next = kept /\ U(m) = U(o)
    BY <1>2, <1>4
  <2>2. /\ \A i \in 1 .. m : i \notin S => \E j \in 1 .. Len(next) : next[j] = backups[i]
        /\ \A j \in 1 .. Len(next) : \E i \in 1 .. m : i \notin S /\ next[j] = backups[i]
    BY <1>2, <1>3, <1>4, <2>1
  <2>3. Cardinality(Unpinned(next)) = Cardinality(U(m))
    BY <1>3, <2>1
  <2> QED
    BY <1>4, <2>1, <2>2, <2>3 DEF KeptOf
<1>5. CASE m \notin S
  <2>1. next = Append(kept, backups[m])
    BY <1>5
  <2>2. PICK n \in Nat : n = Len(kept)
    OBVIOUS
  <2>3. /\ next \in Seq(B) /\ Len(next) = n + 1
        /\ \A i \in 1 .. n : next[i] = kept[i]
        /\ next[n + 1] = backups[m]
    BY <1>2, <2>1, <2>2, AppendProperties
  <2>4. \A i \in 1 .. m : i \notin S => \E j \in 1 .. Len(next) : next[j] = backups[i]
    <3>1. TAKE i \in 1 .. m
    <3>2. HAVE i \notin S
    <3>3. CASE i = m
      BY <2>3, <3>3
    <3>4. CASE i # m
      <4>1. i \in 1 .. o
        BY <1>2, <3>4
      <4>2. PICK j \in 1 .. n : kept[j] = backups[i]
        BY <1>3, <2>2, <3>2, <4>1
      <4> QED
        BY <2>3, <4>2
    <3> QED
      BY <3>3, <3>4
  <2>5. \A j \in 1 .. Len(next) : \E i \in 1 .. m : i \notin S /\ next[j] = backups[i]
    <3>1. TAKE j \in 1 .. Len(next)
    <3>2. CASE j = n + 1
      BY <1>5, <2>3, <3>2
    <3>3. CASE j # n + 1
      <4>1. j \in 1 .. n
        BY <2>3, <3>3
      <4>2. PICK i \in 1 .. o : i \notin S /\ kept[j] = backups[i]
        BY <1>3, <2>2, <4>1
      <4> QED
        BY <1>2, <2>3, <4>1, <4>2
    <3> QED
      BY <3>2, <3>3
  <2>6. Cardinality(Unpinned(next)) = Cardinality(U(m))
    <3>1. U(m) = U(o) \cup IF backups[m].pinned THEN {} ELSE {m}
      BY <1>2, <1>5
    <3>2. IsFiniteSet(U(o)) /\ m \notin U(o)
      <4>1. IsFiniteSet(1 .. o)
        BY <1>1, FS_Interval
      <4>2. U(o) \subseteq 1 .. o
        OBVIOUS
      <4> QED
        BY <1>2, <4>1, <4>2, FS_Subset
    <3>3. Cardinality(Unpinned(next)) =
            Cardinality(U(o)) + IF backups[m].pinned THEN 0 ELSE 1
      BY <1>2, <1>3, <2>1, UnpinnedAppend
    <3>4. Cardinality(U(o)) \in Nat
      BY <3>2, FS_CardinalityType
    <3> HIDE DEF U
    <3>5. CASE backups[m].pinned
      BY <3>1, <3>3, <3>4, <3>5
    <3>6. CASE ~backups[m].pinned
      <4>1. U(m) = U(o) \cup {m}
        BY <3>1, <3>6
      <4>2. Cardinality(U(m)) = Cardinality(U(o)) + 1
        BY <3>2, <4>1, FS_AddElement
      <4> QED
        BY <3>3, <3>6, <4>2
    <3> QED
      BY <3>5, <3>6
  <2>7. Len(next) > 0 /\ next[Len(next)] = backups[m]
    BY <2>2, <2>3
  <2> QED
    BY <2>3, <2>4, <2>5, <2>6, <2>7 DEF KeptOf
<1> QED
  BY <1>4, <1>5

\* kept is the first n backups in their order, without those in S: e says which
\* one each of it is.
Places(e, kept, l, backups, S, n) ==
  /\ e \in [1 .. l -> 1 .. n]
  /\ \A a \in 1 .. l : e[a] \notin S /\ kept[a] = backups[e[a]]
  /\ \A a, b \in 1 .. l : a < b => e[a] < e[b]
  /\ \A i \in 1 .. n : i \notin S => \E a \in 1 .. l : e[a] = i
InOrder(kept, backups, S, n) == \E e : Places(e, kept, Len(kept), backups, S, n)

\* One backup more keeps the order.
LEMMA OrderStep ==
  ASSUME NEW B, NEW backups \in Seq(B), NEW S, NEW m \in 1 .. Len(backups),
         NEW k \in Seq(B), InOrder(k, backups, S, m - 1),
         NEW next, next = IF m \in S THEN k ELSE Append(k, backups[m])
  PROVE  InOrder(next, backups, S, m)
<1>1. PICK L \in Nat : L = Len(k)
  OBVIOUS
<1>2. m \in Nat /\ m > 0 /\ backups[m] \in B
  OBVIOUS
<1>3. PICK e : Places(e, k, L, backups, S, m - 1)
  BY <1>1 DEF InOrder
<1>4. /\ e \in [1 .. L -> 1 .. m - 1]
      /\ \A a \in 1 .. L : e[a] \notin S /\ k[a] = backups[e[a]]
      /\ \A a, b \in 1 .. L : a < b => e[a] < e[b]
      /\ \A i \in 1 .. m - 1 : i \notin S => \E a \in 1 .. L : e[a] = i
  BY <1>3 DEF Places
<1>5. \A a \in 1 .. L : e[a] \in 1 .. m - 1 /\ e[a] \in 1 .. m /\ e[a] < m
  BY <1>2, <1>4
<1>6. CASE m \in S
  <2>1. e \in [1 .. L -> 1 .. m]
    BY <1>4, <1>5
  <2>2. ASSUME NEW i \in 1 .. m, i \notin S
        PROVE  \E a \in 1 .. L : e[a] = i
    <3>1. i \in 1 .. m - 1
      BY <1>2, <1>6, <2>2
    <3> QED
      BY <1>4, <2>2, <3>1
  <2>3. next = k
    BY <1>6
  <2>4. Places(e, k, L, backups, S, m)
    BY <1>4, <2>1, <2>2 DEF Places
  <2> QED
    BY <1>1, <2>3, <2>4 DEF InOrder
<1>7. CASE m \notin S
  <2>1. next = Append(k, backups[m])
    BY <1>7
  <2>2. /\ Len(next) = L + 1 /\ next[L + 1] = backups[m]
        /\ \A a \in 1 .. L : next[a] = k[a]
    BY <1>1, <1>2, <2>1, AppendProperties
  <2>3. PICK g : g = [a \in 1 .. L + 1 |-> IF a = L + 1 THEN m ELSE e[a]]
    OBVIOUS
  <2>4. g[L + 1] = m /\ \A a \in 1 .. L : g[a] = e[a]
    BY <2>3
  <2>5. \A a \in 1 .. L + 1 : a \in 1 .. L \/ a = L + 1
    OBVIOUS
  <2>6. g \in [1 .. L + 1 -> 1 .. m]
    <3>1. \A a \in 1 .. L + 1 : (IF a = L + 1 THEN m ELSE e[a]) \in 1 .. m
      BY <1>2, <1>5, <2>5
    <3> QED
      BY <2>3, <3>1
  <2>7. ASSUME NEW a \in 1 .. L + 1
        PROVE  g[a] \notin S /\ next[a] = backups[g[a]]
    BY <1>4, <1>7, <2>2, <2>4, <2>5, <2>7
  <2>8. ASSUME NEW a \in 1 .. L + 1, NEW b \in 1 .. L + 1, a < b
        PROVE  g[a] < g[b]
    <3>1. a \in 1 .. L
      BY <2>8
    <3>2. CASE b = L + 1
      BY <1>5, <2>4, <3>1, <3>2
    <3>3. CASE b \in 1 .. L
      BY <1>4, <2>4, <2>8, <3>1, <3>3
    <3> QED
      BY <2>5, <3>2, <3>3
  <2>9. ASSUME NEW i \in 1 .. m, i \notin S
        PROVE  \E a \in 1 .. L + 1 : g[a] = i
    <3>1. CASE i = m
      BY <2>4, <3>1
    <3>2. CASE i \in 1 .. m - 1
      <4>1. PICK a \in 1 .. L : e[a] = i
        BY <1>4, <2>9, <3>2
      <4>2. a \in 1 .. L + 1
        OBVIOUS
      <4> QED
        BY <2>4, <4>1, <4>2
    <3> QED
      BY <1>2, <3>1, <3>2
  <2>10. PICK l : l = L + 1
    OBVIOUS
  <2>11. Places(g, next, l, backups, S, m)
    BY <2>6, <2>7, <2>8, <2>9, <2>10 DEF Places
  <2>12. Len(next) = l
    BY <2>2, <2>10
  <2> QED
    BY <2>11, <2>12 DEF InOrder
<1> QED
  BY <1>6, <1>7

\* What WithoutBackups leaves.
LEMMA WithoutFacts ==
  ASSUME NEW B, NEW backups \in Seq(B), NEW S
  PROVE  /\ WithoutBackups(backups, S) \in Seq(B)
         /\ KeptOf(WithoutBackups(backups, S), backups, S, Len(backups))
         /\ InOrder(WithoutBackups(backups, S), backups, S, Len(backups))
<1>1. PICK kept : /\ Keeps(kept, backups, S)
                  /\ WithoutBackups(backups, S) = kept[Len(backups)]
  BY KeptExists
<1>2. PICK n \in Nat : n = Len(backups)
  OBVIOUS
<1>3. \A m \in 0 .. n : kept[m] = IF m = 0 THEN <<>>
                                  ELSE IF m \in S THEN kept[m - 1]
                                  ELSE Append(kept[m - 1], backups[m])
  BY <1>1, <1>2 DEF Keeps
<1> DEFINE T == {m \in 0 .. n : /\ kept[m] \in Seq(B)
                             /\ KeptOf(kept[m], backups, S, m)
                             /\ InOrder(kept[m], backups, S, m)}
<1>4. 0 \in T
  <2>1. 0 \in 0 .. n
    OBVIOUS
  <2>2. PICK k : k = kept[0]
    OBVIOUS
  <2>3. k = <<>>
    BY <1>3, <2>1, <2>2
  <2>4. k \in Seq(B) /\ Len(k) = 0 /\ DOMAIN k = 1 .. 0
    BY <2>3
  <2>5. Unpinned(k) = {}
    BY <2>4 DEF Unpinned
  <2>6. {i \in 1 .. 0 : i \notin S /\ ~backups[i].pinned} = {}
    OBVIOUS
  <2>7. KeptOf(k, backups, S, 0)
    BY <2>4, <2>5, <2>6 DEF KeptOf
  <2>8. InOrder(k, backups, S, 0)
    <3>1. PICK e : e = [a \in 1 .. 0 |-> 0]
      OBVIOUS
    <3>2. e \in [1 .. 0 -> 1 .. 0]
      BY <3>1
    <3>3. Places(e, k, 0, backups, S, 0)
      BY <3>2 DEF Places
    <3> QED
      BY <2>4, <3>3 DEF InOrder
  <2> QED
    BY <2>1, <2>2, <2>4, <2>7, <2>8
<1>5. ASSUME NEW m \in 1 .. n, m - 1 \in T
      PROVE  m \in T
  <2>1. PICK k : k = kept[m - 1]
    OBVIOUS
  <2>2. k \in Seq(B) /\ KeptOf(k, backups, S, m - 1) /\ InOrder(k, backups, S, m - 1)
    BY <1>5, <2>1
  <2>3. PICK next : next = kept[m]
    OBVIOUS
  <2>4. next = IF m \in S THEN k ELSE Append(k, backups[m])
    BY <1>3, <2>1, <2>3
  <2>5. next \in Seq(B) /\ KeptOf(next, backups, S, m)
    BY <1>2, <2>2, <2>4, KeptStep
  <2>6. InOrder(next, backups, S, m)
    BY <1>2, <2>2, <2>4, OrderStep
  <2> QED
    BY <2>3, <2>5, <2>6
<1>6. n \in T
  <2> HIDE DEF T
  <2>1. \A m \in 0 .. n : m \in T
    BY <1>4, <1>5, Reaches
  <2> QED
    BY <2>1
<1> QED
  BY <1>1, <1>2, <1>6

\* The newest backup is never prunable.
LEMMA NewestStays ==
  ASSUME NEW B, NEW backups \in Seq(B)
  PROVE  Len(backups) \notin Prunable(backups)
<1>1. PICK n \in Nat : n = Len(backups)
  OBVIOUS
<1>2. {j \in Unpinned(backups) : j > n} = {}
  BY <1>1 DEF Unpinned
<1>3. Cardinality({j \in Unpinned(backups) : j > n}) = 0
  BY <1>2, FS_EmptySet
<1>4. ~(Cardinality({j \in Unpinned(backups) : j > n}) >= Retention)
  BY <1>3, RetentionAssumption
<1> QED
  BY <1>1, <1>4 DEF Prunable

\* Whatever prunable backups go, enough unpinned ones that are younger than s, one
\* of them, stay: those younger than the youngest that goes.
LEMMA YoungerStay ==
  ASSUME NEW B, NEW backups \in Seq(B), NEW T \in SUBSET Prunable(backups), NEW s \in T
  PROVE  Cardinality({i \in 1 .. Len(backups) :
                        i \notin T /\ ~backups[i].pinned /\ i > s}) >= Retention
<1>1. PICK n \in Nat : n = Len(backups)
  OBVIOUS
<1>2. Unpinned(backups) = {i \in 1 .. n : ~backups[i].pinned}
  BY <1>1 DEF Unpinned
<1>3. T \subseteq Unpinned(backups)
  BY DEF Prunable
<1> DEFINE D == {d \in 0 .. n : n - d \in T}
           rest == {i \in 1 .. n : i \notin T /\ ~backups[i].pinned /\ i > s}
<1>4. PICK t \in T : \A i \in T : i <= t
  <2>1. PICK i \in T : TRUE
    OBVIOUS
  <2>2. i \in 1 .. n /\ n - (n - i) = i
    BY <1>2, <1>3
  <2>3. n - i \in D
    BY <2>2
  <2>4. D \in SUBSET Nat /\ D # {}
    BY <2>3
  <2>5. PICK d \in D : \A e \in D : d <= e
    BY <2>4, SmallestExists
  <2>6. ASSUME NEW j \in T
        PROVE  j <= n - d
    <3>1. j \in 1 .. n /\ n - (n - j) = j
      BY <1>2, <1>3
    <3>2. n - j \in D
      BY <3>1
    <3>3. d <= n - j /\ d \in Nat
      BY <2>5, <3>2
    <3> QED
      BY <3>1, <3>3
  <2>7. n - d \in T
    BY <2>5
  <2> QED
    BY <2>6, <2>7
<1>5. t \in 1 .. n /\ Cardinality({j \in Unpinned(backups) : j > t}) >= Retention
  BY <1>2, <1>3, <1>4 DEF Prunable
<1>6. {j \in Unpinned(backups) : j > t} \subseteq rest
  <2>1. ASSUME NEW j \in Unpinned(backups), j > t
        PROVE  j \in rest
    <3>1. j \in 1 .. n /\ ~backups[j].pinned
      BY <1>2
    <3>2. j \notin T
      BY <1>4, <1>5, <2>1, <3>1
    <3>3. s <= t /\ s \in 1 .. n
      BY <1>2, <1>3, <1>4
    <3>4. j > s
      BY <1>5, <2>1, <3>1, <3>3
    <3> QED
      BY <3>1, <3>2, <3>4
  <2> QED
    BY <2>1
<1>7. IsFiniteSet(rest)
  <2>1. IsFiniteSet(1 .. n)
    BY <1>1, FS_Interval
  <2>2. rest \subseteq 1 .. n
    OBVIOUS
  <2> QED
    BY <2>1, <2>2, FS_Subset
<1>8. /\ Cardinality({j \in Unpinned(backups) : j > t}) <= Cardinality(rest)
      /\ Cardinality({j \in Unpinned(backups) : j > t}) \in Nat
      /\ Cardinality(rest) \in Nat
  BY <1>6, <1>7, FS_Subset, FS_CardinalityType
<1> QED
  BY <1>1, <1>5, <1>8, RetentionAssumption

\* So enough unpinned ones stay.
LEMMA EnoughStay ==
  ASSUME NEW B, NEW backups \in Seq(B), NEW T \in SUBSET Prunable(backups), T # {}
  PROVE  Cardinality({i \in 1 .. Len(backups) : i \notin T /\ ~backups[i].pinned}) >= Retention
<1>1. PICK n \in Nat : n = Len(backups)
  OBVIOUS
<1>2. PICK s \in T : TRUE
  OBVIOUS
<1> DEFINE younger == {i \in 1 .. n : i \notin T /\ ~backups[i].pinned /\ i > s}
           rest == {i \in 1 .. n : i \notin T /\ ~backups[i].pinned}
<1>3. Cardinality(younger) >= Retention
  BY <1>1, YoungerStay
<1>4. younger \subseteq rest /\ rest \subseteq 1 .. n
  OBVIOUS
<1>5. IsFiniteSet(1 .. n)
  BY <1>1, FS_Interval
<1>6. IsFiniteSet(rest)
  BY <1>4, <1>5, FS_Subset
<1> HIDE DEF younger, rest
<1>7. Cardinality(younger) <= Cardinality(rest) /\ IsFiniteSet(younger)
  BY <1>4, <1>6, FS_Subset
<1>8. Cardinality(younger) \in Nat /\ Cardinality(rest) \in Nat
  BY <1>6, <1>7, FS_CardinalityType
<1>9. Cardinality(rest) >= Retention
  BY <1>3, <1>7, <1>8, RetentionAssumption
<1> QED
  BY <1>1, <1>9 DEF rest

\* Pruning, however much of it fails, keeps the list as it is but for places that
\* hold no pinned backup, and for each of these at least Retention unpinned
\* backups that are younger stay: the oldest go first.
THEOREM PruneKeeps ==
  ASSUME NEW B, NEW backups \in Seq(B), NEW T \in SUBSET Prunable(backups),
         NEW left, left = WithoutBackups(backups, T)
  PROVE  /\ InOrder(left, backups, T, Len(backups))
         /\ \A t \in T : /\ ~backups[t].pinned
                         /\ Cardinality({i \in Unpinned(backups) \ T : i > t}) >= Retention
         /\ T # {} => Cardinality(Unpinned(left)) >= Retention
<1>1. /\ InOrder(left, backups, T, Len(backups))
      /\ KeptOf(left, backups, T, Len(backups))
  BY WithoutFacts
<1>2. ASSUME NEW t \in T
      PROVE  /\ ~backups[t].pinned
             /\ Cardinality({i \in Unpinned(backups) \ T : i > t}) >= Retention
  <2>1. ~backups[t].pinned
    BY DEF Prunable, Unpinned
  <2>2. {i \in Unpinned(backups) \ T : i > t} =
          {i \in 1 .. Len(backups) : i \notin T /\ ~backups[i].pinned /\ i > t}
    BY DEF Unpinned
  <2>3. Cardinality({i \in 1 .. Len(backups) :
                       i \notin T /\ ~backups[i].pinned /\ i > t}) >= Retention
    BY YoungerStay
  <2> QED
    BY <2>1, <2>2, <2>3
<1>3. ASSUME T # {}
      PROVE  Cardinality(Unpinned(left)) >= Retention
  <2>1. Cardinality({k \in 1 .. Len(backups) : k \notin T /\ ~backups[k].pinned}) >= Retention
    BY <1>3, EnoughStay
  <2> QED
    BY <1>1, <2>1 DEF KeptOf
<1> QED
  BY <1>1, <1>2, <1>3

\* What pruning loses was unpinned, and enough of that stays.
LEMMA PruneLoses ==
  ASSUME NEW B, NEW backups \in Seq(B), NEW T \in SUBSET Prunable(backups),
         NEW left, left = WithoutBackups(backups, T),
         NEW b \in ToSet(backups), b \notin ToSet(left)
  PROVE  ~b.pinned /\ Cardinality(Unpinned(left)) >= Retention
<1>1. KeptOf(left, backups, T, Len(backups)) /\ left \in Seq(B)
  BY WithoutFacts
<1>2. PICK i \in 1 .. Len(backups) : backups[i] = b
  BY DEF ToSet
<1>3. i \in T
  <2>1. SUFFICES ASSUME i \notin T PROVE FALSE
    OBVIOUS
  <2>2. PICK j \in 1 .. Len(left) : left[j] = backups[i]
    BY <1>1, <2>1 DEF KeptOf
  <2> QED
    BY <1>1, <1>2, <2>2 DEF ToSet
<1> QED
  BY <1>2, <1>3, PruneKeeps

\* The newest backup is still the newest.
LEMMA LatestStays ==
  ASSUME NEW B, NEW backups \in Seq(B), backups # <<>>, NEW T, Len(backups) \notin T,
         NEW left, left = WithoutBackups(backups, T)
  PROVE  left \in Seq(B) /\ left # <<>> /\ Latest(left) = Latest(backups)
<1>1. left \in Seq(B) /\ KeptOf(left, backups, T, Len(backups))
  BY WithoutFacts
<1>2. Len(backups) \in Nat /\ Len(backups) > 0
  BY EmptySeq
<1>3. Len(left) > 0 /\ left[Len(left)] = backups[Len(backups)]
  BY <1>1, <1>2 DEF KeptOf
<1> QED
  BY <1>1, <1>3 DEF Latest

-----------------------------------------------------------------------------
(* The topological order.                                                   *)

ReadyOf(S, placed) == {c \in S \ ToSet(placed) : Dependencies[c] \cap S \subseteq ToSet(placed)}
Following(S, placed) ==
  CHOOSE c \in ReadyOf(S, placed) : \A d \in ReadyOf(S, placed) : Rank(c) <= Rank(d)

\* The order grows by the component that follows.
Orders(order, S) ==
  order = [n \in 0 .. Cardinality(S) |->
             IF n = 0 THEN <<>> ELSE Append(order[n - 1], Following(S, order[n - 1]))]

\* TopologicalSort is the last of these orders.
LEMMA SortIs ==
  ASSUME NEW S
  PROVE  TopologicalSort(S) = (CHOOSE order : Orders(order, S))[Cardinality(S)]
  BY DEF TopologicalSort, Orders, Following, ReadyOf

\* n components of S, each once and after those it needs.
Sorted(S, p, n) ==
  /\ p \in Seq(S) /\ Len(p) = n
  /\ \A i, j \in 1 .. n : p[i] = p[j] => i = j
  /\ \A i \in 1 .. n : \A d \in Dependencies[p[i]] \cap S : \E j \in 1 .. i - 1 : p[j] = d

\* There are finitely many components, and each has a rank.
LEMMA ComponentsRanked == IsFiniteSet(Component) /\ \A c \in Component : Rank(c) \in Nat
<1>1. PICK n \in Nat : n = Len(Alphabetical)
  BY GraphAssumption
<1>2. Alphabetical \in [1 .. n -> Component] /\ ToSet(Alphabetical) = Component
  BY <1>1, GraphAssumption
<1>3. \A c \in Component : \E i \in 1 .. n : Alphabetical[i] = c
  BY <1>1, <1>2 DEF ToSet
<1>4. Alphabetical \in Surjection(1 .. n, Component)
  BY <1>2, <1>3 DEF Surjection
<1>5. IsFiniteSet(Component)
  <2>1. IsFiniteSet(1 .. n)
    BY FS_Interval
  <2> QED
    BY <1>4, <2>1, FS_Surjection
<1>6. ASSUME NEW c \in Component
      PROVE  Rank(c) \in Nat
  BY <1>1, <1>3 DEF Rank
<1> QED
  BY <1>5, <1>6

\* While a component is not placed one of them is ready, and an alphabetically
\* first one comes next.
LEMMA NextIsReady ==
  ASSUME NEW S \in SUBSET Component, NEW p, ~(S \subseteq ToSet(p))
  PROVE  Following(S, p) \in ReadyOf(S, p)
<1> DEFINE R == ReadyOf(S, p)
           ranks == {r \in Nat : \E c \in R : r = Rank(c)}
<1>1. R # {}
  <2>1. S \ ToSet(p) \in SUBSET Component /\ S \ ToSet(p) # {}
    OBVIOUS
  <2>2. PICK c \in S \ ToSet(p) : Dependencies[c] \cap (S \ ToSet(p)) = {}
    BY <2>1, AcyclicAssumption
  <2>3. c \in R
    BY <2>2 DEF ReadyOf
  <2> QED
    BY <2>3
<1>2. R \subseteq Component
  BY DEF ReadyOf
<1>3. ranks \in SUBSET Nat /\ ranks # {}
  BY <1>1, <1>2, ComponentsRanked
<1>4. PICK r \in ranks : \A q \in ranks : r <= q
  <2> HIDE DEF ranks
  <2> QED
    BY <1>3, SmallestExists
<1>5. PICK c \in R : r = Rank(c)
  OBVIOUS
<1>6. \A d \in R : Rank(c) <= Rank(d)
  BY <1>2, <1>4, <1>5, ComponentsRanked
<1> QED
  BY <1>5, <1>6 DEF Following

\* One more component is placed.
LEMMA SortStep ==
  ASSUME NEW S \in SUBSET Component, NEW m \in 1 .. Cardinality(S), NEW p, Sorted(S, p, m - 1),
         NEW next, next = Append(p, Following(S, p))
  PROVE  Following(S, p) \in S /\ Sorted(S, next, m)
<1>1. IsFiniteSet(S) /\ Cardinality(S) \in Nat
  BY ComponentsRanked, FS_Subset, FS_CardinalityType
<1>2. PICK n \in Nat : n = m - 1
  BY <1>1
<1>3. m = n + 1 /\ n < Cardinality(S) /\ n # Cardinality(S)
  BY <1>1, <1>2
<1>4. /\ p \in Seq(S) /\ Len(p) = n
      /\ \A i, j \in 1 .. n : p[i] = p[j] => i = j
      /\ \A i \in 1 .. n : \A d \in Dependencies[p[i]] \cap S : \E j \in 1 .. i - 1 : p[j] = d
  BY <1>2 DEF Sorted
<1>5. ToSet(p) = {p[i] : i \in 1 .. n}
  BY <1>4 DEF ToSet
<1>6. ~(S \subseteq ToSet(p))
  <2>1. SUFFICES ASSUME S \subseteq ToSet(p) PROVE FALSE
    OBVIOUS
  <2>2. p \in [1 .. n -> S]
    BY <1>4
  <2>3. p \in Injection(1 .. n, S) /\ p \in Surjection(1 .. n, S)
    BY <1>4, <1>5, <2>1, <2>2 DEF Injection, IsInjective, Surjection
  <2>4. Cardinality(1 .. n) = Cardinality(S)
    BY <1>1, <2>3, FS_Injection
  <2>5. Cardinality(1 .. n) = n
    BY FS_Interval
  <2> QED
    BY <1>3, <2>4, <2>5
<1>7. PICK c : c = Following(S, p)
  OBVIOUS
<1>8. c \in S /\ c \notin ToSet(p) /\ Dependencies[c] \cap S \subseteq ToSet(p)
  BY <1>6, <1>7, NextIsReady DEF ReadyOf
<1>9. /\ next \in Seq(S) /\ Len(next) = n + 1
      /\ \A i \in 1 .. n : next[i] = p[i]
      /\ next[n + 1] = c
  BY <1>4, <1>7, <1>8, AppendProperties
<1>10. \A i, j \in 1 .. m : next[i] = next[j] => i = j
  BY <1>3, <1>4, <1>5, <1>8, <1>9
<1>11. ASSUME NEW i \in 1 .. m, NEW d \in Dependencies[next[i]] \cap S
       PROVE  \E j \in 1 .. i - 1 : next[j] = d
  <2>1. CASE i = n + 1
    <3>1. d \in ToSet(p)
      BY <1>8, <1>9, <1>11, <2>1
    <3>2. PICK j \in 1 .. n : p[j] = d
      BY <1>5, <3>1
    <3> QED
      BY <1>9, <2>1, <3>2
  <2>2. CASE i # n + 1
    <3>1. i \in 1 .. n /\ next[i] = p[i]
      BY <1>3, <1>9, <2>2
    <3>2. PICK j \in 1 .. i - 1 : p[j] = d
      BY <1>4, <1>11, <3>1
    <3>3. j \in 1 .. n
      BY <3>1, <3>2
    <3> QED
      BY <1>9, <3>2, <3>3
  <2> QED
    BY <2>1, <2>2
<1> QED
  BY <1>3, <1>7, <1>8, <1>9, <1>10, <1>11 DEF Sorted

\* There are such orders.
LEMMA OrdersExist ==
  ASSUME NEW S \in SUBSET Component
  PROVE  \E order : Orders(order, S) /\ TopologicalSort(S) = order[Cardinality(S)]
<1>1. PICK n \in Nat : n = Cardinality(S)
  BY ComponentsRanked, FS_Subset, FS_CardinalityType
<1> DEFINE V == Seq(Component)
           step == [x \in V \X (1 .. n) |->
                      IF Following(S, x[1]) \in S THEN Append(x[1], Following(S, x[1])) ELSE x[1]]
<1>2. <<>> \in V
  OBVIOUS
<1>3. step \in [V \X (1 .. n) -> V]
  <2>1. ASSUME NEW x \in V \X (1 .. n)
        PROVE  step[x] \in V
    <3>1. x[1] \in Seq(Component)
      OBVIOUS
    <3>2. ASSUME Following(S, x[1]) \in S
          PROVE  Append(x[1], Following(S, x[1])) \in Seq(Component)
      <4>1. PICK c \in Component : c = Following(S, x[1])
        BY <3>2
      <4> QED
        BY <3>1, <4>1, AppendProperties
    <3> QED
      BY <3>1, <3>2
  <2> QED
    BY <2>1
<1>4. PICK f \in [0 .. n -> V] : Iterates(f, <<>>, step, n)
  <2> HIDE DEF V, step
  <2> QED
    BY <1>2, <1>3, IterationExists
<1>5. ASSUME NEW m \in 1 .. n
      PROVE  f[m] = IF Following(S, f[m - 1]) \in S
                    THEN Append(f[m - 1], Following(S, f[m - 1])) ELSE f[m - 1]
  <2>1. PICK v \in V : v = f[m - 1]
    OBVIOUS
  <2>2. <<v, m>> \in V \X (1 .. n)
    OBVIOUS
  <2>3. f[m] = step[<<v, m>>]
    <3>1. m \in 0 .. n /\ m # 0
      OBVIOUS
    <3> HIDE DEF V, step
    <3>2. f[m] = step[<<f[m - 1], m>>]
      BY <1>4, <3>1 DEF Iterates
    <3> QED
      BY <2>1, <3>2
  <2> QED
    BY <2>1, <2>2, <2>3
<1>6. f[0] = <<>>
  BY <1>4 DEF Iterates
<1> DEFINE T == {m \in 0 .. n : Sorted(S, f[m], m)}
<1>7. 0 \in T
  <2>1. PICK p : p = f[0]
    OBVIOUS
  <2>2. p \in Seq(S) /\ Len(p) = 0
    BY <1>6, <2>1
  <2>3. Sorted(S, p, 0)
    BY <2>2 DEF Sorted
  <2> QED
    BY <2>1, <2>3
<1>8. ASSUME NEW m \in 1 .. n, m - 1 \in T
      PROVE  /\ Following(S, f[m - 1]) \in S
             /\ f[m] = Append(f[m - 1], Following(S, f[m - 1]))
             /\ m \in T
  <2>1. PICK p : p = f[m - 1]
    OBVIOUS
  <2>2. Sorted(S, p, m - 1)
    BY <1>8, <2>1
  <2>3. PICK next : next = Append(p, Following(S, p))
    OBVIOUS
  <2>4. m \in 1 .. Cardinality(S)
    BY <1>1
  <2>5. Following(S, p) \in S /\ Sorted(S, next, m)
    BY <2>2, <2>3, <2>4, SortStep
  <2>6. f[m] = next
    BY <1>5, <2>1, <2>3, <2>5
  <2>7. m \in T
    <3>1. m \in 0 .. n
      OBVIOUS
    <3> QED
      BY <2>5, <2>6, <3>1
  <2> HIDE DEF T
  <2> QED
    BY <2>1, <2>3, <2>5, <2>6, <2>7
<1>9. \A m \in 0 .. n : m \in T
  <2>1. \A m \in 1 .. n : m - 1 \in T => m \in T
    BY <1>8
  <2> HIDE DEF T
  <2> QED
    BY <1>7, <2>1, Reaches
<1>10. \A m \in 1 .. n : f[m] = Append(f[m - 1], Following(S, f[m - 1]))
  <2>1. TAKE m \in 1 .. n
  <2>2. m - 1 \in 0 .. n
    OBVIOUS
  <2> QED
    BY <1>8, <1>9, <2>2
<1>11. Orders(f, S)
  <2>1. ASSUME NEW m \in 0 .. n
        PROVE  f[m] = IF m = 0 THEN <<>> ELSE Append(f[m - 1], Following(S, f[m - 1]))
    <3>1. m # 0 => m \in 1 .. n
      OBVIOUS
    <3> QED
      BY <1>6, <1>10, <3>1
  <2> HIDE DEF T, V, step
  <2> QED
    BY <1>1, <1>4, <2>1 DEF Orders, Iterates
<1> DEFINE order == CHOOSE o : Orders(o, S)
<1>12. Orders(order, S)
  BY <1>11
<1> QED
  BY <1>12, SortIs

\* The sort has each component of S once, and after those it needs.
LEMMA SortFacts ==
  ASSUME NEW S \in SUBSET Component
  PROVE  /\ Sorted(S, TopologicalSort(S), Cardinality(S))
         /\ ToSet(TopologicalSort(S)) = S
<1>1. PICK n \in Nat : n = Cardinality(S)
  BY ComponentsRanked, FS_Subset, FS_CardinalityType
<1>2. PICK f : Orders(f, S) /\ TopologicalSort(S) = f[n]
  BY <1>1, OrdersExist
<1>3. f[0] = <<>> /\ \A m \in 1 .. n : f[m] = Append(f[m - 1], Following(S, f[m - 1]))
  <2>1. \A m \in 0 .. n : f[m] = IF m = 0 THEN <<>> ELSE Append(f[m - 1], Following(S, f[m - 1]))
    BY <1>1, <1>2 DEF Orders
  <2>2. f[0] = <<>>
    BY <2>1
  <2>3. ASSUME NEW m \in 1 .. n
        PROVE  f[m] = Append(f[m - 1], Following(S, f[m - 1]))
    <3>1. m \in 0 .. n /\ m # 0
      OBVIOUS
    <3> QED
      BY <2>1, <3>1
  <2> QED
    BY <2>2, <2>3
<1> DEFINE T == {m \in 0 .. n : Sorted(S, f[m], m)}
<1>4. 0 \in T
  <2>1. PICK p : p = f[0]
    OBVIOUS
  <2>2. p \in Seq(S) /\ Len(p) = 0
    BY <1>3, <2>1
  <2>3. Sorted(S, p, 0)
    BY <2>2 DEF Sorted
  <2> QED
    BY <2>1, <2>3
<1>5. ASSUME NEW m \in 1 .. n, m - 1 \in T
      PROVE  m \in T
  <2>1. PICK p : p = f[m - 1]
    OBVIOUS
  <2>2. Sorted(S, p, m - 1)
    BY <1>5, <2>1
  <2>3. PICK next : next = Append(p, Following(S, p))
    OBVIOUS
  <2>4. m \in 1 .. Cardinality(S)
    BY <1>1
  <2>5. Sorted(S, next, m)
    BY <2>2, <2>3, <2>4, SortStep
  <2>6. f[m] = next
    BY <1>3, <2>1, <2>3
  <2>7. m \in 0 .. n
    OBVIOUS
  <2> QED
    BY <2>5, <2>6, <2>7
<1>6. n \in T
  <2> HIDE DEF T
  <2>1. \A m \in 0 .. n : m \in T
    BY <1>4, <1>5, Reaches
  <2> QED
    BY <2>1
<1>7. PICK p : p = TopologicalSort(S)
  OBVIOUS
<1>8. Sorted(S, p, n)
  BY <1>2, <1>6, <1>7
<1>9. ToSet(p) = S
  <2>1. p \in [1 .. n -> S] /\ \A i, j \in 1 .. n : p[i] = p[j] => i = j
    BY <1>8 DEF Sorted
  <2>2. p \in Injection(1 .. n, S)
    BY <2>1 DEF Injection, IsInjective
  <2>3. IsFiniteSet(S) /\ Cardinality(1 .. n) = Cardinality(S)
    <3>1. IsFiniteSet(S)
      BY ComponentsRanked, FS_Subset
    <3>2. Cardinality(1 .. n) = n
      BY FS_Interval
    <3> QED
      BY <1>1, <3>1, <3>2
  <2>4. p \in Surjection(1 .. n, S)
    BY <2>2, <2>3, FS_Injection
  <2> QED
    BY <2>1, <2>4 DEF Surjection, ToSet
<1> QED
  BY <1>1, <1>7, <1>8, <1>9

-----------------------------------------------------------------------------
(* The pairs.                                                               *)

\* x, if it is there, comes before y, if it is there.
Before(p, x, y) == \A i, j \in 1 .. Len(p) : p[i] = x /\ p[j] = y => i < j

\* Each at one place.
Distinct(p) == \A i, j \in 1 .. Len(p) : p[i] = p[j] => i = j

\* The place of what is there once.
LEMMA PositionIs ==
  ASSUME NEW S, NEW p \in Seq(S), Distinct(p), NEW x \in ToSet(p)
  PROVE  /\ Position(p, x) \in 1 .. Len(p) /\ p[Position(p, x)] = x
         /\ \A i \in 1 .. Len(p) : p[i] = x => i = Position(p, x)
<1>1. \E i \in 1 .. Len(p) : p[i] = x
  BY DEF ToSet
<1>2. Position(p, x) \in 1 .. Len(p) /\ p[Position(p, x)] = x
  BY <1>1 DEF Position
<1> QED
  BY <1>2 DEF Distinct

\* A sequence without its i-th element.
Removed(S, p, n, i, r) ==
  /\ r \in Seq(S) /\ Len(r) = n - 1
  /\ \A k \in 1 .. n - 1 : r[k] = IF k < i THEN p[k] ELSE p[k + 1]

\* That is what RemoveAt gives.
LEMMA RemoveFacts ==
  ASSUME NEW S, NEW p \in Seq(S), NEW n \in Nat, n = Len(p), NEW i \in 1 .. n,
         NEW r, r = RemoveAt(p, i)
  PROVE  Removed(S, p, n, i, r)
<1>1. PICK x, y : x = SubSeq(p, 1, i - 1) /\ y = SubSeq(p, i + 1, n)
  OBVIOUS
<1>2. x \in Seq(S) /\ Len(x) = i - 1 /\ \A k \in 1 .. i - 1 : x[k] = p[k]
  <2>1. \A k \in 1 .. i - 1 : p[k] \in S
    OBVIOUS
  <2>2. /\ x \in Seq(S) /\ Len(x) = IF 1 <= i - 1 THEN i - 1 - 1 + 1 ELSE 0
        /\ \A k \in 1 .. i - 1 - 1 + 1 : x[k] = p[1 + k - 1]
    BY <1>1, <2>1, SubSeqProperties
  <2>3. \A k \in 1 .. i - 1 : k \in 1 .. i - 1 - 1 + 1 /\ 1 + k - 1 = k
    OBVIOUS
  <2> QED
    BY <2>2, <2>3
<1>3. y \in Seq(S) /\ Len(y) = n - i /\ \A k \in 1 .. n - i : y[k] = p[i + k]
  <2>1. \A k \in i + 1 .. n : p[k] \in S
    OBVIOUS
  <2>2. /\ y \in Seq(S) /\ Len(y) = IF i + 1 <= n THEN n - (i + 1) + 1 ELSE 0
        /\ \A k \in 1 .. n - (i + 1) + 1 : y[k] = p[i + 1 + k - 1]
    BY <1>1, <2>1, SubSeqProperties
  <2>3. \A k \in 1 .. n - i : k \in 1 .. n - (i + 1) + 1 /\ i + 1 + k - 1 = i + k
    OBVIOUS
  <2> QED
    BY <2>2, <2>3
<1>4. r = x \o y
  BY <1>1 DEF RemoveAt
<1>5. /\ r \in Seq(S) /\ Len(r) = (i - 1) + (n - i)
      /\ \A k \in 1 .. (i - 1) + (n - i) : r[k] = IF k <= i - 1 THEN x[k] ELSE y[k - (i - 1)]
  <2>1. /\ r \in Seq(S) /\ Len(r) = Len(x) + Len(y)
        /\ \A k \in 1 .. Len(x) + Len(y) : r[k] = IF k <= Len(x) THEN x[k] ELSE y[k - Len(x)]
    <3>1. x \in Seq(S) /\ y \in Seq(S)
      BY <1>2, <1>3
    <3> QED
      BY <1>4, <3>1, ConcatProperties
  <2>2. Len(x) = i - 1 /\ Len(y) = n - i
    BY <1>2, <1>3
  <2> QED
    BY <2>1, <2>2
<1>6. ASSUME NEW k \in 1 .. n - 1
      PROVE  r[k] = IF k < i THEN p[k] ELSE p[k + 1]
  <2>1. r[k] = IF k <= i - 1 THEN x[k] ELSE y[k - (i - 1)]
    BY <1>5
  <2>2. CASE k < i
    BY <1>2, <2>1, <2>2
  <2>3. CASE ~(k < i)
    <3>1. PICK m \in 1 .. n - i : m = k - (i - 1) /\ i + m = k + 1
      BY <2>3
    <3> QED
      BY <1>3, <2>1, <2>3, <3>1
  <2> QED
    BY <2>2, <2>3
<1> QED
  BY <1>5, <1>6, SMTT(30) DEF Removed

\* A sequence with an element more, at place j.
Inserted(S, r, n, j, e, t) ==
  /\ t \in Seq(S) /\ Len(t) = n + 1
  /\ \A k \in 1 .. n + 1 : t[k] = IF k < j THEN r[k] ELSE IF k = j THEN e ELSE r[k - 1]

\* That is what InsertAt gives.
LEMMA InsertFacts ==
  ASSUME NEW S, NEW r \in Seq(S), NEW n \in Nat, n = Len(r), NEW j \in 1 .. n + 1, NEW e \in S,
         NEW t, t = InsertAt(r, j, e)
  PROVE  Inserted(S, r, n, j, e, t)
<1>1. PICK x, y : x = SubSeq(r, 1, j - 1) /\ y = SubSeq(r, j, n)
  OBVIOUS
<1>2. x \in Seq(S) /\ Len(x) = j - 1 /\ \A k \in 1 .. j - 1 : x[k] = r[k]
  <2>1. \A k \in 1 .. j - 1 : r[k] \in S
    OBVIOUS
  <2>2. /\ x \in Seq(S) /\ Len(x) = IF 1 <= j - 1 THEN j - 1 - 1 + 1 ELSE 0
        /\ \A k \in 1 .. j - 1 - 1 + 1 : x[k] = r[1 + k - 1]
    BY <1>1, <2>1, SubSeqProperties
  <2>3. \A k \in 1 .. j - 1 : k \in 1 .. j - 1 - 1 + 1 /\ 1 + k - 1 = k
    OBVIOUS
  <2> QED
    BY <2>2, <2>3
<1>3. y \in Seq(S) /\ Len(y) = n - j + 1 /\ \A k \in 1 .. n - j + 1 : y[k] = r[j + k - 1]
  <2>1. \A k \in j .. n : r[k] \in S
    OBVIOUS
  <2>2. /\ y \in Seq(S) /\ Len(y) = IF j <= n THEN n - j + 1 ELSE 0
        /\ \A k \in 1 .. n - j + 1 : y[k] = r[j + k - 1]
    BY <1>1, <2>1, SubSeqProperties
  <2> QED
    BY <2>2
<1>4. PICK z : z = x \o <<e>>
  OBVIOUS
<1>5. <<e>> \in Seq(S) /\ Len(<<e>>) = 1 /\ <<e>>[1] = e
  OBVIOUS
<1>6. /\ z \in Seq(S) /\ Len(z) = j - 1 + 1
      /\ \A k \in 1 .. j - 1 + 1 : z[k] = IF k <= j - 1 THEN x[k] ELSE <<e>>[k - (j - 1)]
  BY <1>2, <1>4, <1>5, ConcatProperties
<1>7. /\ z \in Seq(S) /\ Len(z) = j
      /\ \A k \in 1 .. j - 1 : z[k] = r[k]
      /\ z[j] = e
  <2>1. \A k \in 1 .. j - 1 : k \in 1 .. j - 1 + 1 /\ k <= j - 1
    OBVIOUS
  <2>2. j \in 1 .. j - 1 + 1 /\ ~(j <= j - 1) /\ j - (j - 1) = 1
    OBVIOUS
  <2>3. \A k \in 1 .. j - 1 : z[k] = r[k]
    BY <1>2, <1>6, <2>1
  <2>4. z[j] = e
    BY <1>5, <1>6, <2>2
  <2> QED
    BY <1>6, <2>3, <2>4
<1>8. t = z \o y
  BY <1>1, <1>4 DEF InsertAt
<1>9. /\ t \in Seq(S) /\ Len(t) = j + (n - j + 1)
      /\ \A k \in 1 .. j + (n - j + 1) : t[k] = IF k <= j THEN z[k] ELSE y[k - j]
  BY <1>3, <1>7, <1>8, ConcatProperties
<1>10. ASSUME NEW k \in 1 .. n + 1
       PROVE  t[k] = IF k < j THEN r[k] ELSE IF k = j THEN e ELSE r[k - 1]
  <2>1. t[k] = IF k <= j THEN z[k] ELSE y[k - j]
    BY <1>9
  <2>2. CASE k <= j
    BY <1>7, <2>1, <2>2
  <2>3. CASE ~(k <= j)
    <3>1. PICK m \in 1 .. n - j + 1 : m = k - j /\ j + m - 1 = k - 1
      BY <2>3
    <3> QED
      BY <1>3, <2>1, <2>3, <3>1
  <2> QED
    BY <2>2, <2>3
<1> QED
  BY <1>9, <1>10 DEF Inserted

\* Where in p the component is that the move of i to j puts at k.
From(i, j, k) == IF k < j \/ k > i THEN k ELSE IF k = j THEN i ELSE k - 1

Moved(S, p, n, i, j, t) ==
  /\ t \in Seq(S) /\ Len(t) = n
  /\ \A k \in 1 .. n : From(i, j, k) \in 1 .. n /\ t[k] = p[From(i, j, k)]

\* That is what a removal and an insertion give.
LEMMA MoveIs ==
  ASSUME NEW S, NEW p \in Seq(S), NEW i \in 1 .. Len(p), NEW j \in 1 .. Len(p), j < i,
         NEW t, t = InsertAt(RemoveAt(p, i), j, p[i])
  PROVE  Moved(S, p, Len(p), i, j, t)
<1>1. PICK n \in Nat : n = Len(p)
  OBVIOUS
<1>2. PICK r, e : r = RemoveAt(p, i) /\ e = p[i]
  OBVIOUS
<1>0. i \in 1 .. n /\ j \in 1 .. n /\ e \in S /\ t = InsertAt(r, j, e)
  BY <1>1, <1>2
<1>3. /\ r \in Seq(S) /\ Len(r) = n - 1 /\ n - 1 \in Nat
      /\ \A k \in 1 .. n - 1 : r[k] = IF k < i THEN p[k] ELSE p[k + 1]
  <2>1. /\ r \in Seq(S) /\ Len(r) = n - 1
        /\ \A k \in 1 .. n - 1 : r[k] = IF k < i THEN p[k] ELSE p[k + 1]
    <3>1. n = Len(p) /\ i \in 1 .. n /\ r = RemoveAt(p, i)
      BY <1>0, <1>1, <1>2
    <3>2. Removed(S, p, n, i, r)
      BY <3>1, RemoveFacts
    <3> QED
      BY <3>2 DEF Removed
  <2> QED
    BY <1>0, <2>1
<1>4. PICK o \in Nat : o = n - 1 /\ n = o + 1
  BY <1>3
<1>5. /\ t \in Seq(S) /\ Len(t) = n
      /\ \A k \in 1 .. n : t[k] = IF k < j THEN r[k] ELSE IF k = j THEN p[i] ELSE r[k - 1]
  <2>1. j \in 1 .. o + 1 /\ o = Len(r)
    BY <1>0, <1>3, <1>4
  <2>2. /\ t \in Seq(S) /\ Len(t) = o + 1
        /\ \A k \in 1 .. o + 1 : t[k] = IF k < j THEN r[k] ELSE IF k = j THEN e ELSE r[k - 1]
    <3>1. r \in Seq(S) /\ e \in S /\ t = InsertAt(r, j, e)
      BY <1>0, <1>3
    <3>2. Inserted(S, r, o, j, e, t)
      BY <2>1, <3>1, InsertFacts
    <3> QED
      BY <3>2 DEF Inserted
  <2> QED
    BY <1>2, <1>4, <2>2
<1>6. ASSUME NEW k \in 1 .. n
      PROVE  From(i, j, k) \in 1 .. n /\ t[k] = p[From(i, j, k)]
  <2>1. CASE k < j
    <3>1. k \in 1 .. n - 1 /\ k < i
      BY <1>1, <2>1
    <3>2. t[k] = r[k]
      BY <1>5, <2>1
    <3>3. r[k] = p[k]
      BY <1>3, <3>1
    <3>4. From(i, j, k) = k
      BY <2>1 DEF From
    <3> QED
      BY <3>2, <3>3, <3>4
  <2>2. CASE k = j
    BY <1>1, <1>5, <2>2 DEF From
  <2>3. CASE k > j /\ k <= i
    <3>1. PICK m \in 1 .. n - 1 : m = k - 1
      BY <1>1, <2>3
    <3>2. m < i /\ From(i, j, k) = m /\ t[k] = r[m]
      BY <1>1, <1>5, <2>3, <3>1 DEF From
    <3> QED
      BY <1>1, <1>3, <3>2
  <2>4. CASE k > i
    <3>1. PICK m \in 1 .. n - 1 : m = k - 1 /\ k = m + 1
      BY <1>1, <2>4
    <3>2. ~(m < i) /\ From(i, j, k) = k /\ t[k] = r[m]
      BY <1>1, <1>5, <2>4, <3>1 DEF From
    <3> QED
      BY <1>1, <1>3, <3>1, <3>2
  <2> QED
    BY <1>1, <2>1, <2>2, <2>3, <2>4
<1> QED
  BY <1>1, <1>5, <1>6 DEF Moved

\* What the move of a pair leaves: the same elements, the pair in order, and no
\* other order lost but that of something before the one that moves.
PairMoved(S, p, a, b, t) ==
  /\ t \in Seq(S) /\ Distinct(t) /\ ToSet(t) = ToSet(p)
  /\ Before(t, a, b)
  /\ \A x, y : Before(p, x, y) /\ y # a => Before(t, x, y)

\* Whether the pair had to be moved or not.
LEMMA MovedFacts ==
  ASSUME NEW S, NEW p \in Seq(S), Distinct(p), NEW a, NEW b, a # b,
         NEW pair, pair = <<a, b>>, NEW t, t = MovedBefore(p, pair)
  PROVE  PairMoved(S, p, a, b, t)
<1>0. pair[1] = a /\ pair[2] = b
  OBVIOUS
<1>1. CASE {a, b} \subseteq ToSet(p) /\ Position(p, a) > Position(p, b)
  <2>1. PICK n \in Nat : n = Len(p)
    OBVIOUS
  <2>2. PICK i, j \in 1 .. n : i = Position(p, a) /\ j = Position(p, b)
    BY <1>1, <2>1, PositionIs
  <2>3. /\ p[i] = a /\ p[j] = b /\ j < i
        /\ \A k \in 1 .. n : (p[k] = a => k = i) /\ (p[k] = b => k = j)
    BY <1>1, <2>1, <2>2, PositionIs
  <2>4. t = InsertAt(RemoveAt(p, i), j, p[i])
    BY <1>0, <1>1, <2>2, <2>3 DEF MovedBefore
  <2>5. /\ t \in Seq(S) /\ Len(t) = n
        /\ \A k \in 1 .. n : From(i, j, k) \in 1 .. n /\ t[k] = p[From(i, j, k)]
    <3>1. i \in 1 .. Len(p) /\ j \in 1 .. Len(p)
      BY <2>1
    <3>2. Moved(S, p, Len(p), i, j, t)
      <4>1. j < i
        BY <2>3
      <4> QED
        BY <2>4, <3>1, <4>1, MoveIs
    <3> QED
      BY <2>1, <3>2 DEF Moved
  <2>6. Distinct(t)
    <3>1. SUFFICES ASSUME NEW k \in 1 .. n, NEW m \in 1 .. n, t[k] = t[m]
                   PROVE  k = m
      BY <2>5 DEF Distinct
    <3>2. PICK u, v : u = From(i, j, k) /\ v = From(i, j, m)
      OBVIOUS
    <3>3. u \in 1 .. Len(p) /\ v \in 1 .. Len(p) /\ p[u] = p[v]
      BY <2>1, <2>5, <3>1, <3>2
    <3>4. u = v
      BY <3>3 DEF Distinct
    <3> QED
      BY <2>3, <3>2, <3>4 DEF From
  <2>7. ToSet(t) = ToSet(p)
    <3>1. ASSUME NEW k \in 1 .. n
          PROVE  \E m \in 1 .. n : From(i, j, m) = k
      <4>1. CASE k = i
        BY <2>3, <4>1 DEF From
      <4>2. CASE k < j \/ k > i
        BY <4>2 DEF From
      <4>3. CASE k >= j /\ k < i
        <5>1. k + 1 \in 1 .. n /\ From(i, j, k + 1) = k
          BY <4>3 DEF From
        <5> QED
          BY <5>1
      <4> QED
        BY <4>1, <4>2, <4>3
    <3>2. ASSUME NEW x
          PROVE  x \in ToSet(t) <=> x \in ToSet(p)
      <4>1. /\ x \in ToSet(t) <=> \E m \in 1 .. n : t[m] = x
            /\ x \in ToSet(p) <=> \E k \in 1 .. n : p[k] = x
        <5>1. Len(t) = n /\ Len(p) = n /\ DOMAIN t = 1 .. n /\ DOMAIN p = 1 .. n
          BY <2>1, <2>5
        <5> QED
          BY <5>1 DEF ToSet
      <4>2. ASSUME NEW m \in 1 .. n, t[m] = x
            PROVE  \E k \in 1 .. n : p[k] = x
        BY <2>5, <4>2
      <4>3. ASSUME NEW k \in 1 .. n, p[k] = x
            PROVE  \E m \in 1 .. n : t[m] = x
        <5>1. PICK m \in 1 .. n : From(i, j, m) = k
          BY <3>1
        <5>2. t[m] = p[From(i, j, m)]
          BY <2>5
        <5> QED
          BY <4>3, <5>1, <5>2
      <4> QED
        BY <4>1, <4>2, <4>3
    <3> QED
      BY <3>2
  <2>8. Before(t, a, b)
    <3>1. SUFFICES ASSUME NEW k \in 1 .. n, NEW m \in 1 .. n, t[k] = a, t[m] = b
                   PROVE  k < m
      BY <2>5 DEF Before
    <3>2. From(i, j, k) = i /\ From(i, j, m) = j
      <4>1. /\ From(i, j, k) \in 1 .. n /\ p[From(i, j, k)] = a
            /\ From(i, j, m) \in 1 .. n /\ p[From(i, j, m)] = b
        BY <2>5, <3>1
      <4> QED
        BY <2>3, <4>1
    <3> QED
      BY <2>3, <3>2 DEF From
  <2>9. ASSUME NEW x, NEW y, Before(p, x, y), y # a
        PROVE  Before(t, x, y)
    <3>1. SUFFICES ASSUME NEW k \in 1 .. n, NEW m \in 1 .. n, t[k] = x, t[m] = y
                   PROVE  k < m
      BY <2>5 DEF Before
    <3>2. From(i, j, k) < From(i, j, m)
      <4>1. /\ From(i, j, k) \in 1 .. Len(p) /\ p[From(i, j, k)] = x
            /\ From(i, j, m) \in 1 .. Len(p) /\ p[From(i, j, m)] = y
        BY <2>1, <2>5, <3>1
      <4> QED
        BY <2>9, <4>1 DEF Before
    <3>3. From(i, j, m) # i
      BY <2>3, <2>5, <2>9, <3>1
    <3> QED
      BY <2>3, <3>2, <3>3 DEF From
  <2> QED
    BY <2>5, <2>6, <2>7, <2>8, <2>9 DEF PairMoved
<1>2. CASE ~({a, b} \subseteq ToSet(p) /\ Position(p, a) > Position(p, b))
  <2>1. t = p
    BY <1>0, <1>2 DEF MovedBefore
  <2>2. Before(p, a, b)
    <3>1. SUFFICES ASSUME NEW k \in 1 .. Len(p), NEW m \in 1 .. Len(p), p[k] = a, p[m] = b
                   PROVE  k < m
      BY DEF Before
    <3>2. a \in ToSet(p) /\ b \in ToSet(p)
      BY <3>1 DEF ToSet
    <3>3. k = Position(p, a) /\ m = Position(p, b) /\ k # m
      BY <3>1, <3>2, PositionIs
    <3> QED
      BY <1>2, <3>2, <3>3
  <2> QED
    BY <2>1, <2>2 DEF PairMoved
<1> QED
  BY <1>1, <1>2

\* The components of S, each once, after those it needs, and the first m pairs
\* in order.
Arranged(S, p, m) ==
  /\ p \in Seq(S) /\ Distinct(p) /\ ToSet(p) = S
  /\ \A c \in S : \A d \in Dependencies[c] \cap S : Before(p, d, c)
  /\ \A k \in 1 .. m : Before(p, SoftPairs[k][1], SoftPairs[k][2])

\* The sort arranges them, before the pairs are looked at.
LEMMA SortArranges ==
  ASSUME NEW S \in SUBSET Component
  PROVE  Arranged(S, TopologicalSort(S), 0)
<1>1. PICK p : p = TopologicalSort(S)
  OBVIOUS
<1>2. Sorted(S, p, Cardinality(S)) /\ ToSet(p) = S
  BY <1>1, SortFacts
<1>3. PICK n \in Nat : n = Len(p)
  BY <1>2 DEF Sorted
<1>4. /\ p \in Seq(S)
      /\ \A i, j \in 1 .. n : p[i] = p[j] => i = j
      /\ \A i \in 1 .. n : \A d \in Dependencies[p[i]] \cap S : \E j \in 1 .. i - 1 : p[j] = d
  BY <1>2, <1>3 DEF Sorted
<1>5. ASSUME NEW c \in S, NEW d \in Dependencies[c] \cap S
      PROVE  Before(p, d, c)
  <2>1. SUFFICES ASSUME NEW i \in 1 .. n, NEW j \in 1 .. n, p[i] = d, p[j] = c
                 PROVE  i < j
    BY <1>3 DEF Before
  <2>2. PICK k \in 1 .. j - 1 : p[k] = d
    BY <1>4, <2>1
  <2>3. k \in 1 .. n /\ k < j
    BY <2>2
  <2>4. i = k
    BY <1>4, <2>1, <2>2, <2>3
  <2> QED
    BY <2>3, <2>4
<1> QED
  BY <1>1, <1>2, <1>3, <1>4, <1>5 DEF Arranged, Distinct

\* The two of a pair are components, and different; the first needs nothing, and
\* is not the second of another pair.
LEMMA PairFacts ==
  ASSUME NEW m \in 1 .. Len(SoftPairs)
  PROVE  /\ SoftPairs[m] = <<SoftPairs[m][1], SoftPairs[m][2]>>
         /\ SoftPairs[m] \in ToSet(SoftPairs)
         /\ Dependencies[SoftPairs[m][1]] = {}
         /\ \A k \in 1 .. Len(SoftPairs) : SoftPairs[m][1] # SoftPairs[k][2]
<1>1. \A k \in 1 .. Len(SoftPairs) : SoftPairs[k] \in ToSet(SoftPairs)
  BY PairsAssumption DEF ToSet
<1>2. PICK pair : pair = SoftPairs[m]
  OBVIOUS
<1>3. pair \in Component \X Component
  BY <1>2, PairsAssumption
<1>4. pair = <<pair[1], pair[2]>>
  BY <1>3
<1>5. pair \in ToSet(SoftPairs)
  BY <1>1, <1>2
<1>6. Dependencies[pair[1]] = {} /\ \A other \in ToSet(SoftPairs) : pair[1] # other[2]
  BY <1>5, PairsAssumption
<1>7. \A k \in 1 .. Len(SoftPairs) : pair[1] # SoftPairs[k][2]
  BY <1>1, <1>6
<1> QED
  BY <1>2, <1>4, <1>5, <1>6, <1>7

\* Each pair is put in order and leaves the others so.
LEMMA PairStep ==
  ASSUME NEW S, NEW m \in 1 .. Len(SoftPairs), NEW p, Arranged(S, p, m - 1),
         NEW t, t = MovedBefore(p, SoftPairs[m])
  PROVE  Arranged(S, t, m)
<1>1. PICK a, b : a = SoftPairs[m][1] /\ b = SoftPairs[m][2]
  OBVIOUS
<1>2. PICK pair : pair = SoftPairs[m]
  OBVIOUS
<1>3. /\ pair = <<a, b>> /\ a # b /\ Dependencies[a] = {}
      /\ \A k \in 1 .. Len(SoftPairs) : a # SoftPairs[k][2]
  BY <1>1, <1>2, PairFacts
<1>4. p \in Seq(S) /\ Distinct(p) /\ ToSet(p) = S
  BY DEF Arranged
<1>5. t = MovedBefore(p, pair)
  BY <1>2
<1>6. /\ t \in Seq(S) /\ Distinct(t) /\ ToSet(t) = ToSet(p)
      /\ Before(t, a, b)
      /\ \A x, y : Before(p, x, y) /\ y # a => Before(t, x, y)
  <2>1. a # b /\ pair = <<a, b>>
    BY <1>3
  <2>2. PairMoved(S, p, a, b, t)
    BY <1>4, <1>5, <2>1, MovedFacts
  <2> QED
    BY <2>2 DEF PairMoved
<1>7. ASSUME NEW c \in S, NEW d \in Dependencies[c] \cap S
      PROVE  Before(t, d, c)
  <2>1. Before(p, d, c) /\ c # a
    BY <1>3, <1>7 DEF Arranged
  <2> QED
    BY <1>6, <2>1
<1>8. ASSUME NEW k \in 1 .. m
      PROVE  Before(t, SoftPairs[k][1], SoftPairs[k][2])
  <2>1. CASE k = m
    BY <1>1, <1>6, <2>1
  <2>2. CASE k # m
    <3>1. k \in 1 .. m - 1 /\ k \in 1 .. Len(SoftPairs)
      BY <2>2, PairsAssumption
    <3>2. Before(p, SoftPairs[k][1], SoftPairs[k][2]) /\ SoftPairs[k][2] # a
      BY <1>3, <3>1 DEF Arranged
    <3> QED
      BY <1>6, <3>2
  <2> QED
    BY <2>1, <2>2
<1> QED
  BY <1>4, <1>6, <1>7, <1>8 DEF Arranged

\* The orders of a selection, one pair after the other.
Orderings(ordered, S) ==
  ordered = [n \in 0 .. Len(SoftPairs) |->
               IF n = 0 THEN TopologicalSort(Expanded(S))
               ELSE MovedBefore(ordered[n - 1], SoftPairs[n])]

\* The plan is the last of them.
LEMMA PlannedIs ==
  ASSUME NEW S
  PROVE  Planned(S) = (CHOOSE ordered : Orderings(ordered, S))[Len(SoftPairs)]
  BY DEF Planned, Orderings

\* There are such orders.
LEMMA OrderingsExist ==
  ASSUME NEW S, Expanded(S) \in SUBSET Component
  PROVE  \E ordered : Orderings(ordered, S) /\ Planned(S) = ordered[Len(SoftPairs)]
<1>1. PICK n \in Nat : n = Len(SoftPairs)
  BY PairsAssumption
<1>2. PICK base : base = TopologicalSort(Expanded(S))
  OBVIOUS
<1> DEFINE V == {p \in Seq(Component) : Distinct(p)}
           step == [x \in V \X (1 .. n) |-> MovedBefore(x[1], SoftPairs[x[2]])]
<1>3. base \in V
  <2>1. Arranged(Expanded(S), base, 0)
    BY <1>2, SortArranges
  <2>2. base \in Seq(Expanded(S)) /\ Distinct(base)
    BY <2>1 DEF Arranged
  <2>3. base \in Seq(Component)
    BY <2>2
  <2> QED
    BY <2>2, <2>3
<1>4. step \in [V \X (1 .. n) -> V]
  <2>1. ASSUME NEW x \in V \X (1 .. n)
        PROVE  MovedBefore(x[1], SoftPairs[x[2]]) \in V
    <3>1. PICK p, m : p = x[1] /\ m = x[2]
      OBVIOUS
    <3>2. p \in Seq(Component) /\ Distinct(p) /\ m \in 1 .. Len(SoftPairs)
      BY <1>1, <3>1
    <3>3. PICK a, b : a = SoftPairs[m][1] /\ b = SoftPairs[m][2]
      OBVIOUS
    <3>4. PICK pair : pair = SoftPairs[m]
      OBVIOUS
    <3>5. pair = <<a, b>> /\ a # b
      BY <3>2, <3>3, <3>4, PairFacts
    <3>6. PICK t : t = MovedBefore(p, pair)
      OBVIOUS
    <3>7. t \in Seq(Component) /\ Distinct(t)
      <4>1. PairMoved(Component, p, a, b, t)
        BY <3>2, <3>5, <3>6, MovedFacts
      <4> QED
        BY <4>1 DEF PairMoved
    <3> QED
      BY <3>1, <3>4, <3>6, <3>7
  <2> HIDE DEF V
  <2> QED
    BY <2>1
<1>5. PICK f \in [0 .. n -> V] : Iterates(f, base, step, n)
  <2> HIDE DEF V, step
  <2> QED
    BY <1>3, <1>4, IterationExists
<1>6. ASSUME NEW m \in 0 .. n
      PROVE  f[m] = IF m = 0 THEN base ELSE MovedBefore(f[m - 1], SoftPairs[m])
  <2>1. CASE m = 0
    <3> HIDE DEF V, step
    <3> QED
      BY <1>5, <2>1 DEF Iterates
  <2>2. CASE m # 0
    <3>1. PICK v \in V : v = f[m - 1]
      BY <2>2
    <3>2. <<v, m>> \in V \X (1 .. n)
      BY <2>2
    <3>3. f[m] = step[<<v, m>>]
      <4> HIDE DEF V, step
      <4>1. f[m] = step[<<f[m - 1], m>>]
        BY <1>5, <2>2 DEF Iterates
      <4> QED
        BY <3>1, <4>1
    <3>4. f[m] = MovedBefore(v, SoftPairs[m])
      BY <3>2, <3>3
    <3> QED
      BY <2>2, <3>1, <3>4
  <2> QED
    BY <2>1, <2>2
<1>7. Orderings(f, S)
  <2> HIDE DEF V, step
  <2> QED
    BY <1>1, <1>2, <1>5, <1>6 DEF Orderings, Iterates
<1> DEFINE ordered == CHOOSE o : Orderings(o, S)
<1>8. Orderings(ordered, S)
  BY <1>7
<1> QED
  BY <1>8, PlannedIs

\* What the selection needs is in the expansion.
LEMMA ExpandedFacts ==
  ASSUME NEW S \in SUBSET Component
  PROVE  /\ Expanded(S) \in SUBSET Component /\ S \subseteq Expanded(S)
         /\ \A c \in Expanded(S) : Dependencies[c] \subseteq Expanded(S)
<1>1. ASSUME NEW c \in Expanded(S), NEW d \in Dependencies[c]
      PROVE  d \in Expanded(S)
  <2>1. d \in Component
    BY <1>1, GraphAssumption DEF Expanded
  <2>2. ASSUME NEW T \in SUBSET Component, S \subseteq T, \A e \in T : Dependencies[e] \subseteq T
        PROVE  d \in T
    <3>1. c \in T
      BY <1>1, <2>2 DEF Expanded
    <3> QED
      BY <1>1, <2>2, <3>1
  <2> QED
    BY <2>1, <2>2 DEF Expanded
<1> QED
  BY <1>1 DEF Expanded

\* A plan has the selection and what it needs, each component once, after those
\* it needs, and each pair in order.
THEOREM PlannedFacts ==
  ASSUME NEW S \in SUBSET Component
  PROVE  Arranged(Expanded(S), Planned(S), Len(SoftPairs))
<1>1. PICK E \in SUBSET Component : E = Expanded(S)
  BY ExpandedFacts
<1>2. PICK n \in Nat : n = Len(SoftPairs)
  BY PairsAssumption
<1>3. PICK f : Orderings(f, S) /\ Planned(S) = f[n]
  BY <1>1, <1>2, OrderingsExist
<1>4. \A m \in 0 .. n : f[m] = IF m = 0 THEN TopologicalSort(E)
                               ELSE MovedBefore(f[m - 1], SoftPairs[m])
  BY <1>1, <1>2, <1>3 DEF Orderings
<1> DEFINE T == {m \in 0 .. n : Arranged(E, f[m], m)}
<1>5. 0 \in T
  <2>1. f[0] = TopologicalSort(E)
    BY <1>4
  <2>2. Arranged(E, TopologicalSort(E), 0)
    BY SortArranges
  <2> QED
    BY <2>1, <2>2
<1>6. ASSUME NEW m \in 1 .. n, m - 1 \in T
      PROVE  m \in T
  <2>1. PICK p : p = f[m - 1]
    OBVIOUS
  <2>2. Arranged(E, p, m - 1)
    BY <1>6, <2>1
  <2>3. m \in 0 .. n /\ m # 0 /\ m \in 1 .. Len(SoftPairs)
    BY <1>2
  <2>4. PICK t : t = MovedBefore(p, SoftPairs[m])
    OBVIOUS
  <2>5. f[m] = t
    BY <1>4, <2>1, <2>3, <2>4
  <2>6. Arranged(E, t, m)
    BY <2>2, <2>3, <2>4, PairStep
  <2> QED
    BY <2>3, <2>5, <2>6
<1>7. n \in T
  <2> HIDE DEF T
  <2>1. \A m \in 0 .. n : m \in T
    BY <1>5, <1>6, Reaches
  <2> QED
    BY <2>1
<1> QED
  BY <1>1, <1>2, <1>3, <1>7

=============================================================================
