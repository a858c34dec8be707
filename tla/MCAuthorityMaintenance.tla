----------------------- MODULE MCAuthorityMaintenance -----------------------
(* Four entries and four histories: an anomalous recovery that was itself   *)
(* recovered; two anomalous recoveries apart; one of them, beside an entry  *)
(* that never held a review; a graph that can be read, with a superseded    *)
(* review that a late writer may advance, and an empty entry.               *)
EXTENDS AuthorityMaintenance, TLC

CONSTANTS p1, p2, l1, l2, l3, l4, a1, a2

Root == [rev |-> 0, pred |-> None, predRev |-> 0, edge |-> "valid"]
After(l, kind) == [rev |-> 0, pred |-> l, predRev |-> 0, edge |-> kind]

MCHistory ==
  {(l1 :> Root) @@ (l2 :> After(l1, "anomalous")) @@ (l3 :> After(l2, "valid")) @@ (l4 :> None),
   (l1 :> Root) @@ (l2 :> After(l1, "anomalous")) @@ (l3 :> Root) @@ (l4 :> After(l3, "anomalous")),
   (l1 :> Root) @@ (l2 :> After(l1, "anomalous")) @@ (l3 :> None) @@ (l4 :> Residue),
   (l1 :> Root) @@ (l2 :> After(l1, "valid")) @@ (l3 :> None) @@ (l4 :> Hollow)}

Symmetry == Permutations({p1, p2}) \cup Permutations({a1, a2})

=============================================================================
