------------------------- MODULE MCCompactAuthority -------------------------
(***************************************************************************)
(* CompactAuthority with two commands that run at the same time on two     *)
(* lineages, and one command on three, where recoveries could fork.        *)
(***************************************************************************)
EXTENDS CompactAuthority, TLC

Symmetry == Permutations(Lineage) \cup Permutations(Process) \cup Permutations(Slot)

\* Bounds: one entry keeps any captured results and a finalize journal, or two
\* keep few of them; the third lineage appears only while at most one command
\* is running and no results are kept and none were reopened.
Bounded ==
  /\ \/ Cardinality(results) + Cardinality(journals) <= 2
     \/ Cardinality(Captured \cup journals) = 1
  /\ Present = Lineage =>
       /\ Cardinality({p \in Process : command[p] # Idle}) <= 1
       /\ results = {}
       /\ \A l \in Lineage : authority[l].content.reopens = 0

=============================================================================
