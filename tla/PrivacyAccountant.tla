--------------------------- MODULE PrivacyAccountant ---------------------------
(***************************************************************************)
(* The checks of PrivacyAccountant.request_release, shared by the two      *)
(* callers that keep an accountant: the aggregation service and the        *)
(* consortium coordinator.  Epsilon counts in units that add exactly: the  *)
(* code's floats are taken where their sums do not round.                  *)
(***************************************************************************)
EXTENDS Integers

CONSTANTS TotalEpsilon,   \* total_epsilon
          MinSlice        \* min_cohort_for_slice

ASSUME AccountantAssumption == TotalEpsilon \in Nat /\ MinSlice \in Nat

\* A bug: the budget is compared before the release is counted in.
Exhausted_SpentOnly(spent, epsilon) == spent > TotalEpsilon

Sparse(size) == size < MinSlice
Exhausted(spent, epsilon) == spent + epsilon > TotalEpsilon
Allowed(size, spent, epsilon) == ~ Sparse(size) /\ ~ Exhausted(spent, epsilon)
Remaining(spent) == TotalEpsilon - spent
=============================================================================
