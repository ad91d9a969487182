------------------------------ MODULE Evaluation ------------------------------
(***************************************************************************)
(* The evaluation tools: the twelve baselines and two questions of the     *)
(* production harness, the benchmarks, the consortium rounds of the        *)
(* service, the command line and the pilots, the red team, and the matrix  *)
(* of pipeline summaries.  Every one takes the golden invariant.           *)
(*                                                                         *)
(* Values are in percent.  trained is what the trained adversary answers,  *)
(* hits how many of four candidate texts are found similar.                *)
(***************************************************************************)
EXTENDS SecretSharing, FieldStudy

GoldenCFI == build_exception_precedence_cfi
GoldenRoles == required_mapping_roles(GoldenCFI)
WithText(text) == [GoldenCFI EXCEPT !.text = text]

MetricRecord(dimension, value, slack) ==
  [dimension |-> dimension, value |-> value,
   ci_low |-> Larger(0, value - slack), ci_high |-> Smaller(100, value + slack)]

\* The golden invariant is not signed here, so its signature is not checked.
Compile(domain) == CompileFor(Package(GoldenCFI, Unsigned), domain)

-----------------------------------------------------------------------------
(* The baselines.  Those that compile take what the compiler gave them.    *)

score_raw_trace(text) ==
  [source_attribution |-> IF "keyword" \in text THEN 95 ELSE 0,
   reconstruction |-> IF "literal" \in text THEN 100 ELSE 0, linkability |-> 80]

\* An order of a retail checkout, with its date, its amount and a key.
run_raw_incident_replay ==
  LET adv == score_raw_trace({"keyword", "literal", "secret"})
  IN MetricRecord("privacy", Larger(adv.source_attribution, adv.reconstruction), 10)

\* Of the redacted order its domain's words are left.
run_pii_redacted_narrative == MetricRecord("privacy", score_raw_trace({"keyword"}).source_attribution, 10)

\* Half of the roles are mapped.
run_taxonomy_label_guidance(domain) ==
  LET count == Larger(2, Cardinality(GoldenRoles) \div 2)
      partial == CHOOSE S \in kSubset(count, GoldenRoles) : TRUE
      context == RecipientContext(domain, [r \in partial |-> OntologyMapping(<<"l", r>>, "approved")])
      result == fail_closed_compile(Package(GoldenCFI, Unsigned), context, NoManifest)
  IN MetricRecord("compilation",
       IF result.abstained THEN 0 ELSE (100 * count) \div Cardinality(GoldenRoles), 10)

run_policy_only_generation(result) ==
  MetricRecord("compilation", IF result.abstained THEN 0 ELSE 70, 10)

run_llm_paraphrase(trained) ==
  LET adv == score_cfi(WithText({"literal"}), FALSE, trained)
  IN MetricRecord("privacy", Larger(adv.reconstruction, adv.source_attribution), 10)

run_embedding_retrieval(hits) == MetricRecord("transfer", (100 * hits) \div 4, 10)

run_manual_metamorphic(result) ==
  LET controls == Len(result.controls)
  IN MetricRecord("compilation",
       IF result.abstained THEN 0 ELSE (100 * controls) \div (result.positives + controls), 10)

run_centralized_upper_bound == MetricRecord("oracle", 100, 10)

\* include_negative_controls is off, so no case is a control.
run_cfi_no_negative_controls(result) ==
  LET cases == [result EXCEPT !.controls = <<>>]
  IN MetricRecord("compilation",
       IF result.abstained THEN 0 ELSE IF cases.controls = <<>> THEN 100 ELSE 50, 0)

run_cfi_no_canonicalization ==
  LET tainted == WithText({"literal"})
      passes == lint_for_release(tainted) = {} /\ PackagesFrom(tainted, "approve") # {}
  IN MetricRecord("compilation", IF passes THEN 100 ELSE 0, 0)

run_cfi_no_minimization ==
  LET extra == [GoldenCFI.nodes[1] EXCEPT !.id = <<"extra", 0>>, !.role = "extra_role"]
      bloated == [GoldenCFI EXCEPT !.nodes = Append(@, extra)]
  IN MetricRecord("compilation", IF linkability(bloated) < 50 THEN 100 ELSE 60, 10)

\* The failing agent on the positive cases.
run_local_incident_regression(result) ==
  IF result.abstained THEN MetricRecord("reliability", 0, 0)
  ELSE MetricRecord("reliability", susceptibility(result, FailingAgent), 10)

BASELINES ==
  << "raw_incident_replay", "pii_redacted_narrative", "taxonomy_label_guidance",
     "local_incident_regression", "policy_only_generation", "llm_paraphrase",
     "embedding_retrieval", "manual_metamorphic", "cfi_no_minimization",
     "cfi_no_canonicalization", "cfi_no_negative_controls", "centralized_pooled_upper_bound" >>

BASELINE_RUNNERS(result, domain, trained, hits) ==
  [raw_incident_replay |-> run_raw_incident_replay,
   pii_redacted_narrative |-> run_pii_redacted_narrative,
   taxonomy_label_guidance |-> run_taxonomy_label_guidance(domain),
   local_incident_regression |-> run_local_incident_regression(result),
   policy_only_generation |-> run_policy_only_generation(result),
   llm_paraphrase |-> run_llm_paraphrase(trained),
   embedding_retrieval |-> run_embedding_retrieval(hits),
   manual_metamorphic |-> run_manual_metamorphic(result),
   cfi_no_minimization |-> run_cfi_no_minimization,
   cfi_no_canonicalization |-> run_cfi_no_canonicalization,
   cfi_no_negative_controls |-> run_cfi_no_negative_controls(result),
   centralized_pooled_upper_bound |-> run_centralized_upper_bound]

\* A name that is in no table gives a placeholder of value zero.
run_baseline(runners, name) ==
  IF name \in DOMAIN runners THEN runners[name] ELSE MetricRecord("compilation", 0, 10)

-----------------------------------------------------------------------------
(* The harness.                                                            *)

run_mitigation_rq5(domain) ==
  LET evaluated == evaluate_mitigation_in_field(domain)
  IN MetricRecord("mitigation", evaluated.pre - evaluated.post, 10)

run_privacy_rq4(trained) ==
  LET adv == score_cfi(GoldenCFI, FALSE, trained)
  IN MetricRecord("privacy", Larger(Larger(adv.source_attribution, adv.reconstruction), adv.linkability), 5)

\* The list of the baselines is not among what is sealed.
seal_preregistration(prereg) ==
  [prereg EXCEPT !.signed_commitment = [study_id |-> prereg.study_id,
     primary_endpoint |-> prereg.primary_endpoint, privacy_thresholds |-> prereg.privacy_thresholds]]

\* The report takes the mitigation's delta by its place in the results, and
\* its other values from no result.
HarnessReport(prereg, results) ==
  [preregistration |-> prereg, results |-> results,
   assurance |-> build_report(100, 100, 50, 10, {results[Len(results) - 1].value})]

harness_main(domain, trained, hits) ==
  LET prereg == seal_preregistration(
        [study_id |-> "cfi-fed-prod-001", primary_endpoint |-> "rq3_unique_failure_yield",
         baselines |-> BASELINES, privacy_thresholds |-> [source_attribution |-> 30, reconstruction |-> 30],
         signed_commitment |-> "none"])
      runners == BASELINE_RUNNERS(Compile(domain), domain, trained, hits)
  IN HarnessReport(prereg, [k \in DOMAIN BASELINES |-> run_baseline(runners, BASELINES[k])]
                           \o << run_mitigation_rq5(domain), run_privacy_rq4(trained) >>)

-----------------------------------------------------------------------------
(* Benchmarks: whether each row's domain compiles, two of them as          *)
(* procurement.                                                            *)

BenchmarkDomain(domain) == IF domain \in {"retail", "finance"} THEN "procurement" ELSE domain
CompiledRows(domains) ==
  Cardinality({k \in DOMAIN domains : ~ Compile(BenchmarkDomain(domains[k])).abstained})

\* The domains of the bundled corpus and of the bundled tasks.
CorpusDomains == << "retail", "procurement", "healthcare", "finance", "data_operations" >>
TaskDomains == << "retail", "procurement", "healthcare", "data_operations" >>

\* A remote answers tasks of its own, or nothing that is a list of tasks.
load_tasks(remote) == IF remote THEN {<< >>, << "logistics" >>} ELSE {TaskDomains}

-----------------------------------------------------------------------------
(* Consortium rounds, as those who ask for them see them.                  *)

\* Two of each of six families are admitted.
AdmittedTenants(tenants) ==
  {t \in 0 .. tenants - 1 : Cardinality({u \in 0 .. t - 1 : u % 6 = t % 6}) < 2}

RoundDomains == << "procurement", "healthcare", "data_operations", "finance", "logistics", "retail" >>
RoundManifest(minimum_k, frozen) == [CohortManifest(GoldenCFI.id, minimum_k) EXCEPT !.frozen = frozen]

\* What a release asks for; of PrivacyAccountant.request_release.
MinSlice == 5

Contributes(contribution) == ~ contribution.abstained /\ contribution.failures =< 50

Outcome(participants, manifest) ==
  [participants |-> participants,
   released |-> participants >= manifest.minimum_cohort_k /\ participants >= MinSlice]

\* A coordinator is made for the round, and an accountant with it.  dropped
\* are the tenants that drop out.
run_round(manifest, tenants, dropped) ==
  LET eligible == AdmittedTenants(tenants) \ dropped
      domain(t) == RoundDomains[(Cardinality({u \in eligible : u < t}) % Len(RoundDomains)) + 1]
      submitted(t) == recipient_evaluate_and_contribute(sign_package(canonicalize(GoldenCFI)),
                        domain(t), manifest, GoldenRoles)
  IN Outcome(Cardinality({t \in eligible : Contributes(submitted(t))}), manifest)

\* Up to two of the tenants drop out.
Dropouts == {0 .. d - 1 : d \in 0 .. 2}
Rounds(tenants, minimum_k, frozen) ==
  {run_round(RoundManifest(minimum_k, frozen), tenants, dropped) : dropped \in Dropouts}

\* Rounds anyone may ask for: at the cap of the families and over it, one
\* short of the threshold, and one whose threshold is below the slice's.
AskedRounds(frozen) ==
  UNION {Rounds(asked[1], asked[2], frozen) : asked \in {<<12, 10>>, <<14, 10>>, <<9, 10>>, <<4, 2>>}}
ServiceRounds == AskedRounds(TRUE)
PilotRounds == AskedRounds(FALSE)
PipelineRounds == Rounds(12, 10, TRUE)
GoldenPathRounds == Rounds(10, 10, TRUE)
ConsortiumPilotRounds == Rounds(12, 10, FALSE)  \* the script's, of two per family

-----------------------------------------------------------------------------
(* The red team's report: rates of success.                                *)

AttackResult(adversary, succeeds) ==
  [adversary |-> adversary, success_rate |-> IF succeeds THEN 100 ELSE 0]

\* "retail" is among the linter's nouns.
honest_but_curious_registry(cfis) ==
  [adversary |-> "honest_but_curious_registry",
   success_rate |-> (100 * Cardinality({k \in DOMAIN cfis : "noun" \in cfis[k].text}))
                    \div Larger(1, Len(cfis))]

malicious_recipient_probe(cfi) == AttackResult("malicious_recipient", "prompt" \in cfi.text)
malicious_contributor(cfi) == AttackResult("malicious_contributor", "exploit" \in cfi.text)

sybil_organizations(contributions, cap) ==
  AttackResult("sybil_organizations",
    \E org \in ToSet(contributions) : Cardinality({k \in DOMAIN contributions : contributions[k] = org}) > cap)

\* The first shares recover a value; that it is the right one is not looked at.
collusion_reveal(shares, threshold) ==
  LET first == {s \in shares : s[1] =< threshold}
  IN AttackResult("collusion", Cardinality(shares) >= threshold /\ shamir_recover(first) \in 0 .. Prime - 1)

external_observer_timing(public_events, release_times) ==
  AttackResult("external_observer", public_events \cap release_times # {})

model_provider_traffic(tools_called, production_tools) ==
  [adversary |-> "model_provider",
   success_rate |-> (100 * Cardinality(tools_called \cap production_tools))
                    \div Larger(1, Cardinality(tools_called))]

\* coefficient: the one drawn for the shares of 42.
run_redteam(cfi, trained, coefficient) ==
  LET adv == score_cfi(GoldenCFI, FALSE, trained)
  IN << honest_but_curious_registry(<<cfi>>), malicious_recipient_probe(cfi), malicious_contributor(cfi),
        sybil_organizations(<<"org-a", "org-a", "org-b">>, 1),
        collusion_reveal(shamir_share(42 % Prime, coefficient, 3), 2),
        external_observer_timing({"public-event"}, {"other-event"}),
        model_provider_traffic({"stub_po"}, {"stub_po", "real_api"}),
        [adversary |-> "release_gate_attribution", success_rate |-> adv.source_attribution],
        [adversary |-> "release_gate_reconstruction", success_rate |-> adv.reconstruction] >>

-----------------------------------------------------------------------------
(* The matrix of the summaries that pipelines leave.                       *)

PIPELINE_VARIANTS ==
  {"inprocess", "compose", "postgres_compose", "tls", "mtls", "postgres_tls", "mtls_required"}

\* A summary, or none: its keys, and whether it says that it is missing.
variant_status(summary) ==
  IF ~ summary.exists \/ summary.says_missing THEN "missing"
  ELSE IF summary.keys THEN "ok" ELSE "invalid"

\* required: the variants that must be there, beside the one in one process.
validate_matrix(status, required) ==
  {<<"required", v>> : v \in {v \in required \cup {"inprocess"} : status[v] # "ok"}}
  \cup {<<"invalid", v>> : v \in {v \in PIPELINE_VARIANTS : status[v] = "invalid"}}

Matrix(status, required) ==
  [valid |-> validate_matrix(status, required) = {},
   ok_count |-> Cardinality({v \in PIPELINE_VARIANTS : status[v] = "ok"})]

\* What the verification of a matrix may find, where the services' variants
\* have one kind of summary.  The one in one process is made if it is missing.
MatrixResults ==
  LET Summary == [exists : BOOLEAN, says_missing : BOOLEAN, keys : BOOLEAN]
      status(inprocess, others) == [v \in PIPELINE_VARIANTS |->
        variant_status(IF v = "inprocess" THEN inprocess ELSE others)]
  IN {Matrix(status(a, b), required) :
        a \in {s \in Summary : s.exists}, b \in Summary, required \in {{}, PIPELINE_VARIANTS}}
=============================================================================
