--------------------------- MODULE AuthorityGraph ---------------------------
(***************************************************************************)
(* The graph of compact reviews as its readers may see it: entries that    *)
(* continue one another, changed one at a time, and taken away only by a   *)
(* quarantine, as a whole and so that what is left is a readable graph     *)
(* (internal/reviewtransaction: CompactAuthorityLeaves in compact_store.go *)
(* and the recovery inspection of compact_inspect.go, which every          *)
(* maintenance operation repeats under its locks).                         *)
(***************************************************************************)
EXTENDS Integers

CONSTANTS
  Lineage,  \* names of entries
  None,     \* no entry, no predecessor
  Residue,  \* an entry that holds files but no review
  Scraps,   \* an entry with a temporary that may hold a review
  Hollow    \* an empty entry, or one with other temporaries only

VARIABLE graph

Loaded(g) == {l \in Lineage : g[l] \notin {None, Residue, Scraps, Hollow}}

\* DiscoverCompactStores skips what a killed START may leave behind.
Listed(g) == {l \in Lineage : g[l] \notin {None, Scraps, Hollow}}

Successors(g, l) == {m \in Loaded(g) : g[m].pred = l}

\* The predecessor is there, at the revision the successor names.
Anchored(g, m) ==
  g[m].pred # None =>
    /\ g[m].pred \in Loaded(g)
    /\ g[g[m].pred].rev = g[m].predRev

EdgeValid(g, m) ==
  g[m].pred # None =>
    /\ Anchored(g, m)
    /\ g[m].edge = "valid"
    /\ Successors(g, g[m].pred) = {m}

Closed(g) == \A m \in Loaded(g) : Anchored(g, m)

\* The predecessor is there, at that revision or at a later one.
Linked(g) ==
  \A m \in Loaded(g) :
    g[m].pred # None =>
      /\ g[m].pred \in Loaded(g)
      /\ g[m].predRev <= g[g[m].pred].rev

Valid(g) == \A m \in Loaded(g) : EdgeValid(g, m)

\* One entry that does not load fails the reader of the whole graph.
Readable(g) == Listed(g) = Loaded(g) /\ Valid(g)

Without(g, S) == [l \in Lineage |-> IF l \in S THEN None ELSE g[l]]
Only(g, S) == [l \in Lineage |-> IF l \in S THEN g[l] ELSE None]

-----------------------------------------------------------------------------
(* What may happen to the graph.                                            *)

\* A review begins or continues another, or what should have become one is
\* left halfway.  It was looked for in a graph that could be read.
Create(l) ==
  /\ Readable(graph)
  /\ graph[l] \in {None, Scraps, Hollow}
  /\ graph' = [graph EXCEPT ![l] = graph'[l]]
  /\ graph'[l] \notin {None, Residue}
  /\ Readable(graph')

\* A review advances, also one that has been continued.
Advance(l) ==
  /\ l \in Loaded(graph) /\ l \in Loaded(graph')
  /\ graph' = [graph EXCEPT ![l].rev = graph'[l].rev]
  /\ graph[l].rev < graph'[l].rev

Reclaim(l) ==
  /\ graph[l] \in {Residue, Hollow}
  /\ graph' = Without(graph, {l})

Quarantine(S) ==
  /\ S # {}
  /\ graph' = Without(graph, S)
  /\ Readable(graph')

Next ==
  \/ \E l \in Lineage : Create(l) \/ Advance(l) \/ Reclaim(l)
  \/ \E S \in SUBSET Lineage : Quarantine(S)

Spec == Linked(graph) /\ [][Next]_graph

=============================================================================
