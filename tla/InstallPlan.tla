----------------------------- MODULE InstallPlan -----------------------------
(***************************************************************************)
(* What an install does in which order (internal/planner/{graph,order,     *)
(* resolver}.go), and which backups are kept (internal/backup/             *)
(* {snapshot,retention}.go): the pure part of the installer.               *)
(***************************************************************************)
EXTENDS Integers, Sequences, FiniteSets, SequencesExt

CONSTANTS
  Component,     \* the components of the dependency graph
  Alphabetical,  \* their identifiers in the order of slices.Sort
  Dependencies,  \* MVPGraph: the components that each one needs
  SoftPairs,     \* softOrderingPairs: <<first, second>> if both are planned
  Absent,        \* what is known of a file that does not exist
  Retention      \* DefaultRetentionCount

ASSUME GraphAssumption ==
  /\ Dependencies \in [Component -> SUBSET Component]
  /\ Alphabetical \in Seq(Component) /\ ToSet(Alphabetical) = Component
\* The graph has no cycle: some component of each set needs no other of it.
ASSUME AcyclicAssumption ==
  \A S \in SUBSET Component : S # {} => \E c \in S : Dependencies[c] \cap S = {}
\* What is moved forward needs nothing, and nothing is moved before it.
ASSUME PairsAssumption ==
  /\ SoftPairs \in Seq(Component \X Component)
  /\ \A pair \in ToSet(SoftPairs) : Dependencies[pair[1]] = {}
  /\ \A pair, other \in ToSet(SoftPairs) : pair[1] # other[2]
ASSUME RetentionAssumption == Retention \in Nat \ {0}

Rank(c) == CHOOSE i \in 1 .. Len(Alphabetical) : Alphabetical[i] = c
Position(s, c) == CHOOSE i \in 1 .. Len(s) : s[i] = c

\* expandDependencies: the selection and all that it needs.
Expanded(S) ==
  {c \in Component :
     \A T \in SUBSET Component :
       S \subseteq T /\ (\A d \in T : Dependencies[d] \subseteq T) => c \in T}

\* TopologicalSort: of the components whose dependencies are all placed, the
\* alphabetically first comes next.
TopologicalSort(S) ==
  LET Ready(placed) ==
        {c \in S \ ToSet(placed) : Dependencies[c] \cap S \subseteq ToSet(placed)}
      Next(placed) ==
        CHOOSE c \in Ready(placed) : \A d \in Ready(placed) : Rank(c) <= Rank(d)
      order[n \in 0 .. Cardinality(S)] ==
        IF n = 0 THEN <<>> ELSE Append(order[n - 1], Next(order[n - 1]))
  IN  order[Cardinality(S)]

\* Mutant: the pairs are left as the sort has put them.
UnmovedPair(s, pair) == s

\* One pair of applySoftOrdering: the first moves to just before the second.
MovedBefore(s, pair) ==
  IF /\ {pair[1], pair[2]} \subseteq ToSet(s)
     /\ Position(s, pair[1]) > Position(s, pair[2])
  THEN InsertAt(RemoveAt(s, Position(s, pair[1])), Position(s, pair[2]), pair[1])
  ELSE s

\* Mutant: what the selection needs is not added.
PlannedAsSelected(S) == TopologicalSort(S)

\* Resolve: the sort, then one pair after the other.
Planned(S) ==
  LET ordered[n \in 0 .. Len(SoftPairs)] ==
        IF n = 0 THEN TopologicalSort(Expanded(S))
        ELSE MovedBefore(ordered[n - 1], SoftPairs[n])
  IN  ordered[Len(SoftPairs)]

-----------------------------------------------------------------------------
(* A backup is what each of its targets was, and whether it is pinned; the  *)
(* backups of a machine are in the order of their creation.                 *)

Existing(files) == {f \in DOMAIN files : files[f] # Absent}

\* ComputeChecksum: targets that do not exist leave no trace in it.
Checksum(files) == [f \in Existing(files) |-> files[f]]

Latest(backups) == backups[Len(backups)]

\* Mutant: any backup with the same content will do.
DuplicateOfAny(backups, files) ==
  /\ Existing(files) # {}
  /\ \E i \in DOMAIN backups : Checksum(backups[i].files) = Checksum(files)

\* IsDuplicate: against the most recent backup only, and never when there is
\* nothing to back up.
IsDuplicate(backups, files) ==
  /\ Existing(files) # {}
  /\ backups # <<>>
  /\ Checksum(Latest(backups).files) = Checksum(files)

Unpinned(backups) == {i \in DOMAIN backups : ~backups[i].pinned}

\* Mutant: the pin is not looked at.
OldestBackups(backups) ==
  {i \in DOMAIN backups : Cardinality({j \in DOMAIN backups : j > i}) >= Retention}

\* Prune: the unpinned backups that have enough younger ones.
Prunable(backups) ==
  {i \in Unpinned(backups) :
     Cardinality({j \in Unpinned(backups) : j > i}) >= Retention}

\* The backups without those in S.
WithoutBackups(backups, S) ==
  LET kept[n \in 0 .. Len(backups)] ==
        IF n = 0 THEN <<>>
        ELSE IF n \in S THEN kept[n - 1] ELSE Append(kept[n - 1], backups[n])
  IN  kept[Len(backups)]

=============================================================================
