-------------------------- MODULE MCRuntimeLedger --------------------------
(***************************************************************************)
(* RuntimeLedger with two candidate trees, a root review and its recovery, *)
(* and one objective of two attempts.                                      *)
(***************************************************************************)
EXTENDS RuntimeLedger, TLC

CONSTANTS t1, t2, work

TreeDef == {t1, t2}
AttemptsDef == [s \in {work} |-> 2]
LinesDef == [s \in {work} |-> 1]
ChargeDef == [pair \in TreeDef \X TreeDef |-> IF pair[1] = pair[2] THEN 0 ELSE 1]

Symmetry == Permutations(Process) \cup Permutations(Lineage)

\* Bounds: two requests are under way at a time only among the first three and
\* before a second lineage and a legacy binding appear; requests, faults and
\* edits share a budget; once the last request is answered nothing more is
\* looked at.
Busy == {p \in Process : client[p].pc # "idle"}
Bounded ==
  /\ Cardinality(Busy) = 2 => /\ issued <= 3
                              /\ legacy = None
                              /\ \E l \in Lineage : authority[l].state = "none"
  /\ issued + faults + edits <= 6
  /\ Busy # {} \/ issued < MaxRequests

=============================================================================
