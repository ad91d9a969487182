------------------------------- MODULE FieldStudy -------------------------------
(***************************************************************************)
(* run_prospective_study: the compressed field study.  Organisation 0      *)
(* reports a failed extraction and 1 an invariant it may not share; each   *)
(* of the others releases one, and every other organisation evaluates it   *)
(* some days later.  A draw of the random generator is an argument.        *)
(***************************************************************************)
EXTENDS Recipient

StudyDomains == <<"procurement", "healthcare", "data_operations", "finance", "logistics",
             "retail", "retail", "procurement">>

evaluate_susceptibility(domain) ==
  \E assessed \in {Assessment(Package(build_exception_precedence_cfi, Unsigned), domain)} :
    ~ assessed.abstained /\ assessed.metrics.agent_susceptibility > 0

\* day: of each organisation's release; delay: from the release of one to
\* the evaluation by another; incident: the day of each organisation that
\* has one; susceptible: the domains whose evaluations find the recipient
\* susceptible.  The first release in the order of the organisations that finds
\* a recipient susceptible gives its day, and not the earliest.
run_prospective_study(duration, org_count, day, delay, incident, susceptible) ==
  LET orgs == 0 .. org_count - 1
      releases == {o \in orgs : o >= 2}
      eval_day(r, o) == day[r] + delay[r, o]
      evaluations == {ro \in releases \X orgs : ro[1] # ro[2] /\ eval_day(ro[1], ro[2]) =< duration}
      finds(o) == {r \in releases : <<r, o>> \in evaluations
                                    /\ StudyDomains[(r % Len(StudyDomains)) + 1] \in susceptible}
      susceptible_day == [o \in {o \in orgs : finds(o) # {}} |-> eval_day(Min(finds(o)), o)]
      before == {o \in DOMAIN incident \cap DOMAIN susceptible_day : susceptible_day[o] < incident[o]}
      lead(o) == incident[o] - susceptible_day[o]
      leads == SetToSortSeq(before, LAMBDA a, b : lead(a) < lead(b) \/ (lead(a) = lead(b) /\ a < b))
  IN [cfi_releases |-> Cardinality(releases),
      failed_extractions |-> Cardinality({0} \cap orgs), non_shareable |-> Cardinality({1} \cap orgs),
      total_reports |-> org_count + Cardinality(evaluations) + Cardinality(DOMAIN incident),
      production_incidents |-> Cardinality(DOMAIN incident),
      susceptible_before_incident |-> Cardinality(before),
      prevention_rate |-> (100 * Cardinality(before)) \div Larger(1, Cardinality(DOMAIN incident)),
      lead_time_median |-> IF leads = <<>> THEN 0 ELSE lead(leads[(Len(leads) \div 2) + 1])]

\* RQ5: the failing agent with and without the policy.
evaluate_mitigation_in_field(domain) ==
  evaluate_mitigation(CompileFor(Package(build_exception_precedence_cfi, Unsigned), domain),
                      FailingAgent, FixedAgent, "policy")
=============================================================================
