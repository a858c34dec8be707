-------------------------- MODULE ReviewAuthority ---------------------------
(***************************************************************************)
(* What the review authority promises of each lineage, whoever reads and   *)
(* writes its files: the life of a review and of its receipt.  The package *)
(* states these promises in its validator of successors                    *)
(* (validateCompactSuccessor), in the transitions that bypass it (approved *)
(* invalidation, abandonment, recovery) and in WriteReceipt.               *)
(***************************************************************************)

CONSTANT Lineage

VARIABLES
  phase,  \* the state of each lineage, or "absent"
  sealed  \* the lineages whose receipt is published

Settled == {"approved", "escalated"}

Phase == {"absent", "reviewing", "correction_required", "validating",
          "invalidated"} \cup Settled

\* The moves of an unsealed lineage.  A review starts, or continues another
\* one in "validating"; a pristine one is abandoned or invalidated; results
\* are reopened before verification.
Move ==
  {"absent"} \X {"reviewing", "validating"}
  \cup {"reviewing"} \X {"correction_required", "validating", "escalated",
                         "invalidated", "absent"}
  \cup {"correction_required"} \X {"correction_required", "validating", "escalated"}
  \cup {"validating"} \X {"approved", "escalated", "reviewing"}
  \cup {"invalidated"} \X {"absent"}

TypeOK ==
  /\ phase \in [Lineage -> Phase]
  /\ sealed \subseteq Lineage

Init ==
  /\ phase = [l \in Lineage |-> "absent"]
  /\ sealed = {}

Advance(l) ==
  /\ l \notin sealed
  /\ \E to \in Phase :
       /\ <<phase[l], to>> \in Move
       /\ phase' = [phase EXCEPT ![l] = to]
  /\ UNCHANGED sealed

Seal(l) ==
  /\ phase[l] \in Settled
  /\ sealed' = sealed \cup {l}
  /\ UNCHANGED phase

\* An approval that was sealed may be withdrawn, and only then unsealed.
Withdraw(l) ==
  /\ phase[l] = "approved"
  /\ l \in sealed
  /\ phase' = [phase EXCEPT ![l] = "invalidated"]
  /\ UNCHANGED sealed

Unseal(l) ==
  /\ phase[l] = "invalidated"
  /\ sealed' = sealed \ {l}
  /\ UNCHANGED phase

Next == \E l \in Lineage : Advance(l) \/ Seal(l) \/ Withdraw(l) \/ Unseal(l)

Spec == Init /\ [][Next]_<<phase, sealed>>

=============================================================================
