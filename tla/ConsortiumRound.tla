---------------------------- MODULE ConsortiumRound ----------------------------
(***************************************************************************)
(* ConsortiumCoordinator: rounds of admission, dropout, collection and     *)
(* release.  A coordinator is one object used by one caller, so its loops  *)
(* run in order and nothing interleaves with them; what varies is who      *)
(* applies, whom the random generator drops and what each tenant's local   *)
(* evaluation gives.  The coordination service makes a coordinator for     *)
(* each request; a caller of the library may run many rounds on one.       *)
(***************************************************************************)
EXTENDS PrivacyAccountant, Sequences, FiniteSetsExt

CONSTANTS Families,         \* org_family
          MinimumKs,        \* config.minimum_k: a request's, or the library caller's
          MaxPerOrgFamily,  \* config.max_per_org_family
          OutlierCap,       \* config.outlier_failure_cap
          ClippingF,        \* manifest.clipping_f
          RawFailures,      \* failures a local evaluation may count
          Epsilon,          \* manifest.privacy_budget_epsilon
          MaxTenants,       \* bound: identities in a round
          MaxRounds         \* bound: rounds, all coordinators together

ASSUME RoundAssumption ==
  /\ {MaxPerOrgFamily, OutlierCap, ClippingF} \subseteq Nat
  /\ MinimumKs \subseteq Nat /\ RawFailures \subseteq Nat
  /\ Epsilon \in Nat \ {0}
  /\ MaxTenants \in Nat /\ MaxRounds \in Nat

VARIABLES
  minimum_k,      \* this coordinator's config.minimum_k
  phase,          \* the loop the round is in
  position,       \* the next submission of the dropout and collection loops
  submissions,    \* what admit_tenants returns, in the order of the identities
  familyCounts,   \* admit_tenants' family_counts
  contributions,  \* what collect_contributions returns
  spent,          \* the accountant's _spent
  history,        \* the accountant's _history: the epsilon of each entry
  results,        \* the results of this coordinator's rounds
  rounds          \* rounds begun so far

round == <<phase, position, submissions, familyCounts, contributions>>
vars  == <<minimum_k, round, spent, history, results, rounds>>

ParticipationStatus == {"eligible", "dropped", "rejected_sybil", "rejected_version",
                        "rejected_outlier"}
Reason == {"", "unverified_identity", "compiler_version_mismatch", "org_family_cap_exceeded",
           "dropout", "abstained", "poisoning_outlier"}
Outcome == {"released", "below_minimum_k", "sparse_slice_suppressed", "budget_exhausted",
            "aggregation_failed"}

TypeOK ==
  /\ minimum_k \in MinimumKs
  /\ phase \in {"idle", "admit", "dropout", "collect", "release"}
  /\ position \in 1 .. MaxTenants + 1
  /\ submissions \in Seq([family : Families, status : ParticipationStatus, reason : Reason])
  /\ Len(submissions) =< MaxTenants
  /\ familyCounts \in [Families -> 0 .. MaxPerOrgFamily]
  /\ contributions \in Seq([tenant : 1 .. MaxTenants, failures : 0 .. ClippingF])
  /\ spent \in 0 .. TotalEpsilon
  /\ history \in Seq({Epsilon})
  /\ results \in Seq([outcome : Outcome, participants : 0 .. MaxTenants,
                      rejected : SUBSET (1 .. MaxTenants)])
  /\ rounds \in 0 .. MaxRounds

Init ==
  /\ minimum_k \in MinimumKs
  /\ phase = "idle" /\ position = 1
  /\ submissions = <<>> /\ contributions = <<>>
  /\ familyCounts = [f \in Families |-> 0]
  /\ spent = 0 /\ history = <<>>
  /\ results = <<>> /\ rounds = 0

-----------------------------------------------------------------------------
NewCoordinator ==
  /\ phase = "idle" /\ results # <<>>
  /\ minimum_k' \in MinimumKs
  /\ spent' = 0 /\ history' = <<>> /\ results' = <<>>
  /\ UNCHANGED <<round, rounds>>

BeginRound ==
  /\ phase = "idle" /\ rounds < MaxRounds
  /\ rounds' = rounds + 1
  /\ phase' = "admit"
  /\ submissions' = <<>> /\ contributions' = <<>>
  /\ familyCounts' = [f \in Families |-> 0]
  /\ position' = 1
  /\ UNCHANGED <<minimum_k, spent, history, results>>

\* A bug: one tenant over the cap.
Admission_CapPlusOne(family, verified, current) ==
  IF ~ verified THEN <<"rejected_sybil", "unverified_identity">>
  ELSE IF ~ current THEN <<"rejected_version", "compiler_version_mismatch">>
  ELSE IF familyCounts[family] > MaxPerOrgFamily
       THEN <<"rejected_sybil", "org_family_cap_exceeded">>
  ELSE <<"eligible", "">>

\* The first reason that applies; only an admitted tenant is counted.
Admission(family, verified, current) ==
  IF ~ verified THEN <<"rejected_sybil", "unverified_identity">>
  ELSE IF ~ current THEN <<"rejected_version", "compiler_version_mismatch">>
  ELSE IF familyCounts[family] >= MaxPerOrgFamily
       THEN <<"rejected_sybil", "org_family_cap_exceeded">>
  ELSE <<"eligible", "">>

AdmitTenant ==
  /\ phase = "admit" /\ Len(submissions) < MaxTenants
  /\ \E family \in Families, verified, current \in BOOLEAN :
       LET admission == Admission(family, verified, current)
       IN /\ submissions' = Append(submissions, [family |-> family, status |-> admission[1],
                                                 reason |-> admission[2]])
          /\ familyCounts' = IF admission[1] = "eligible"
                             THEN [familyCounts EXCEPT ![family] = @ + 1] ELSE familyCounts
  /\ UNCHANGED <<minimum_k, phase, position, contributions, spent, history, results, rounds>>

\* The identities end, and so does a loop over the submissions.
EndLoop ==
  /\ \/ phase = "admit" /\ phase' = "dropout"
     \/ phase = "dropout" /\ position > Len(submissions) /\ phase' = "collect"
     \/ phase = "collect" /\ position > Len(submissions) /\ phase' = "release"
  /\ position' = 1
  /\ UNCHANGED <<minimum_k, submissions, familyCounts, contributions, spent, history, results, rounds>>

Mark(status, reason) ==
  submissions' = [submissions EXCEPT ![position].status = status, ![position].reason = reason]

Eligible(n) == submissions[n].status = "eligible"

\* Whether an eligible tenant drops out is the random generator's choice.
SimulateDropout ==
  /\ phase = "dropout" /\ position =< Len(submissions)
  /\ \/ UNCHANGED submissions
     \/ Eligible(position) /\ Mark("dropped", "dropout")
  /\ position' = position + 1
  /\ UNCHANGED <<minimum_k, phase, familyCounts, contributions, spent, history, results, rounds>>

Clipped(failures) == IF failures < ClippingF THEN failures ELSE ClippingF

\* A bug: an outlier is marked and contributes all the same.
CollectContribution_NoContinue ==
  /\ phase = "collect" /\ position =< Len(submissions)
  /\ \/ ~ Eligible(position) /\ UNCHANGED <<submissions, contributions>>
     \/ Eligible(position) /\ Mark("dropped", "abstained") /\ UNCHANGED contributions
     \/ /\ Eligible(position)
        /\ \E raw \in RawFailures :
             /\ IF Clipped(raw) > OutlierCap THEN Mark("rejected_outlier", "poisoning_outlier")
                ELSE UNCHANGED submissions
             /\ contributions' = Append(contributions, [tenant |-> position,
                                                        failures |-> Clipped(raw)])
  /\ position' = position + 1
  /\ UNCHANGED <<minimum_k, phase, familyCounts, spent, history, results, rounds>>

\* recipient_evaluate_and_contribute compiles, evaluates and clips; a
\* compilation that abstains drops the tenant.
CollectContribution ==
  /\ phase = "collect" /\ position =< Len(submissions)
  /\ \/ ~ Eligible(position) /\ UNCHANGED <<submissions, contributions>>
     \/ Eligible(position) /\ Mark("dropped", "abstained") /\ UNCHANGED contributions
     \/ /\ Eligible(position)
        /\ \E raw \in RawFailures :
             IF Clipped(raw) > OutlierCap
             THEN Mark("rejected_outlier", "poisoning_outlier") /\ UNCHANGED contributions
             ELSE /\ contributions' = Append(contributions, [tenant |-> position,
                                                             failures |-> Clipped(raw)])
                  /\ UNCHANGED submissions
  /\ position' = position + 1
  /\ UNCHANGED <<minimum_k, phase, familyCounts, spent, history, results, rounds>>

Contributing == {contributions[k].tenant : k \in 1 .. Len(contributions)}

Rejected == {n \in 1 .. Len(submissions) : ~ Eligible(n) \/ n \notin Contributing}

Conclude(outcome) ==
  /\ results' = Append(results, [outcome |-> outcome, participants |-> Len(contributions),
                                 rejected |-> Rejected])
  /\ phase' = "idle"
  /\ UNCHANGED <<minimum_k, position, submissions, familyCounts, contributions, rounds>>

\* What secure_aggregate answers.
Aggregated == IF Len(contributions) < minimum_k THEN "aggregation_failed" ELSE "released"

Charge ==
  /\ spent' = spent + Epsilon
  /\ history' = Append(history, Epsilon)

\* A bug: the cohort's threshold is left to secure_aggregate.
Release_Unchecked ==
  /\ phase = "release"
  /\ \/ /\ Sparse(Len(contributions))
        /\ Conclude("sparse_slice_suppressed") /\ UNCHANGED <<spent, history>>
     \/ /\ ~ Sparse(Len(contributions)) /\ Exhausted(spent, Epsilon)
        /\ Conclude("budget_exhausted") /\ UNCHANGED <<spent, history>>
     \/ /\ Allowed(Len(contributions), spent, Epsilon)
        /\ Conclude(Aggregated) /\ Charge

\* A bug: the accountant is told the number of applicants.
Release_Applicants ==
  /\ phase = "release"
  /\ \/ /\ Len(contributions) < minimum_k
        /\ Conclude("below_minimum_k") /\ UNCHANGED <<spent, history>>
     \/ /\ Len(contributions) >= minimum_k
        /\ \/ /\ Sparse(Len(submissions))
              /\ Conclude("sparse_slice_suppressed") /\ UNCHANGED <<spent, history>>
           \/ /\ ~ Sparse(Len(submissions)) /\ Exhausted(spent, Epsilon)
              /\ Conclude("budget_exhausted") /\ UNCHANGED <<spent, history>>
           \/ /\ Allowed(Len(submissions), spent, Epsilon)
              /\ Conclude(Aggregated) /\ Charge

\* The three refusals of run_round and its release, in their order.
Release ==
  /\ phase = "release"
  /\ \/ /\ Len(contributions) < minimum_k
        /\ Conclude("below_minimum_k") /\ UNCHANGED <<spent, history>>
     \/ /\ Len(contributions) >= minimum_k
        /\ \/ /\ Sparse(Len(contributions))
              /\ Conclude("sparse_slice_suppressed") /\ UNCHANGED <<spent, history>>
           \/ /\ ~ Sparse(Len(contributions)) /\ Exhausted(spent, Epsilon)
              /\ Conclude("budget_exhausted") /\ UNCHANGED <<spent, history>>
           \/ /\ Allowed(Len(contributions), spent, Epsilon)
              /\ Conclude(Aggregated) /\ Charge

Next ==
  \/ NewCoordinator \/ BeginRound \/ AdmitTenant \/ EndLoop
  \/ SimulateDropout \/ CollectContribution \/ Release

Spec == Init /\ [][Next]_vars

-----------------------------------------------------------------------------
(* Properties.                                                             *)

Genuine(f) ==
  {n \in 1 .. Len(submissions) :
     submissions[n].family = f /\
     submissions[n].reason \notin {"unverified_identity", "compiler_version_mismatch"}}

\* No organisation weighs more than its cap, and none is turned away below
\* it: a family's admissions are the cap or all its genuine tenants, whatever
\* the order they apply in, and who drops out later frees no place
\* (admit_tenants).
FamiliesAreCapped ==
  \A f \in Families :
    LET genuine == Cardinality(Genuine(f))
    IN /\ familyCounts[f] = IF genuine < MaxPerOrgFamily THEN genuine ELSE MaxPerOrgFamily
       /\ Cardinality({n \in Genuine(f) : n \in Contributing}) =< familyCounts[f]

\* A tenant contributes once or is named among the rejected, never both and
\* never neither, when a round has ended (run_round).
EveryTenantIsAccounted ==
  /\ Cardinality(Contributing) = Len(contributions)
  /\ phase = "idle" /\ results # <<>> =>
       LET last == results[Len(results)]
       IN /\ last.rejected \cap Contributing = {}
          /\ last.rejected \cup Contributing = 1 .. Len(submissions)

\* A release rests on enough contributions for both thresholds, the
\* consortium's and the accountant's, each of them below the outlier cap.
ReleaseMeetsThresholds ==
  phase = "idle" /\ results # <<>> =>
    LET last == results[Len(results)]
    IN last.outcome = "released" =>
         /\ Cardinality(Contributing) >= minimum_k /\ Cardinality(Contributing) >= MinSlice
         /\ \A k \in 1 .. Len(contributions) : contributions[k].failures =< OutlierCap

\* A coordinator pays for what it releases and for nothing else: no round
\* that ends without a release has been charged (run_round asks for the
\* cohort before it asks the accountant, so secure_aggregate never refuses).
PaidIsReleased ==
  LET released == Cardinality({r \in 1 .. Len(results) : results[r].outcome = "released"})
  IN spent = Epsilon * released /\ Len(history) = released
=============================================================================
