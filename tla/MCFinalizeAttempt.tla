-------------------------- MODULE MCFinalizeAttempt -------------------------
(***************************************************************************)
(* FinalizeAttempt with the inputs that take a review along two paths:     *)
(* approved at once, and corrected and then failed.  Reviews that escalate *)
(* at once, or over their budget, settle like those that a maintainer      *)
(* escalates; the theorems are about them too.                             *)
(***************************************************************************)
EXTENDS FinalizeAttempt

Input(results, forecast, fix, evidence) ==
  [results |-> results, forecast |-> forecast, fix |-> fix, evidence |-> evidence]

MCPayloads ==
  {Empty,
   Input("clean", "none", "none", "pass"),
   Input("causal", "within", "none", "none"),
   Input("none", "none", "good", "fail")}

\* A review and its verification in two commands.
MCTwoSteps ==
  {Empty,
   Input("clean", "none", "none", "none"),
   Input("none", "none", "none", "pass")}

=============================================================================
