-------------------------------- MODULE Workflow --------------------------------
(***************************************************************************)
(* The command line over all parties: the contributor's commands, the full *)
(* pipeline, the recipient's commands, the aggregator's and the field      *)
(* study, around one registry and one aggregation service.                 *)
(*                                                                         *)
(* The registry and the aggregator are what their clients see of them;     *)
(* RegistryStore and Aggregator are the services.  The registry keeps its  *)
(* packages (the Postgres store).  The commands of one step read what a    *)
(* job may change, but change no more than a file or the registry at once, *)
(* so they are taken between jobs.                                         *)
(***************************************************************************)
EXTENDS Contributor, Evaluation

CONSTANTS
  TotalEpsilon,   \* of an aggregation service, in releases of the pipeline's epsilon
  RecipientDomains,
  OrgCount, Duration, ReleaseDays, Delays, IncidentDays  \* of the field study

ASSUME EpsilonAssumption == TotalEpsilon \in Nat

VARIABLE charged  \* releases charged to the aggregation service

vars == <<minimizer, corpus, job, files, registry, report, charged>>

Init == ContributorInit /\ charged = 0

-----------------------------------------------------------------------------
(* The full pipeline.                                                      *)

invariant_id == build_exception_precedence_cfi.id
PipelineDomains == <<"procurement", "healthcare", "data_operations", "finance", "logistics">>

PipelineContributions(package) ==
  LET manifest == CohortManifest(invariant_id, 5)
      roles == required_mapping_roles(build_exception_precedence_cfi)
  IN [k \in DOMAIN PipelineDomains |->
        recipient_evaluate_and_contribute(package, PipelineDomains[k], manifest, roles)]

\* What the aggregator's endpoint asks of a request before it charges it.
Chargeable(contributions, spent) ==
  /\ verify_circuit_attestation(build_aggregate_attestation(contributions, 10, 100))
  /\ Len(contributions) >= MinSlice /\ spent + 1 =< TotalEpsilon

PipelineIn(step) == job # Idle /\ job.step = step
Goes(step) == job' = [job EXCEPT !.step = step] /\ UNCHANGED report
Raises == EndJob(1)

\* A step that changes no service: it goes well, or raises.
PipelineReads(step, next, well) ==
  /\ PipelineIn(step)
  /\ Raises \/ (well /\ Goes(next))
  /\ UNCHANGED <<minimizer, corpus, files, registry, charged>>

PipelineAssesses ==
  PipelineReads("assess", "aggregate",
    /\ registry # Absent
    /\ \E assessed \in {Assessment(registry, "procurement")} :
         ~ assessed.abstained /\ "agent_susceptibility" \in DOMAIN assessed.metrics)

Serves(contributions, spent) ==
  /\ \A k \in DOMAIN contributions : ~ contributions[k].abstained
  /\ Chargeable(contributions, spent)

\* A charged release whose answer is lost raises too.
PipelineAggregates ==
  /\ PipelineIn("aggregate")
  /\ \/ Raises /\ UNCHANGED charged
     \/ \E contributions \in {PipelineContributions(registry)} :
          /\ Serves(contributions, charged)
          /\ charged' = charged + 1
          /\ Raises \/ (secure_aggregate(contributions, 5) # {} /\ Goes("consortium"))
  /\ UNCHANGED <<minimizer, corpus, files, registry>>

PipelineRunsConsortium ==
  PipelineReads("consortium", "hooks", \E outcome \in PipelineRounds : outcome.released)

\* The option probe_hooks may be off.
PipelineProbesHooks == PipelineReads("hooks", "audit", TRUE)

\* _attach_audit_summary, and the summary.
PipelineSummarizes ==
  /\ PipelineIn("audit")
  /\ \E exit \in {0, 1} : EndJob(exit)
  /\ UNCHANGED <<minimizer, corpus, files, registry, charged>>

PipelineStep ==
  \/ PipelineAssesses \/ PipelineAggregates \/ PipelineRunsConsortium
  \/ PipelineProbesHooks \/ PipelineSummarizes

\* In one process, with a registry and an aggregation service of its own.
InProcessExits ==
  LET serves == /\ validate_and_parse_package(GoldenPackage)
                /\ ~ Assessment(GoldenPackage, "procurement").abstained
                /\ Serves(PipelineContributions(GoldenPackage), 0)
  IN {IF serves /\ outcome.released THEN 0 ELSE 1 : outcome \in PipelineRounds}

RunInProcess == (\E exit \in InProcessExits : Command("run-inprocess", exit)) /\ UNCHANGED files

-----------------------------------------------------------------------------
(* The recipient's commands.  A package fetched is a package's copy.       *)

FetchFails(command) == Command(command, 1) /\ UNCHANGED files

fetch_remote(f) ==
  \/ FetchFails("fetch")
  \/ /\ registry # Absent
     /\ files' = [files EXCEPT ![f] = registry] /\ Command("fetch", 0)

\* pull writes the file before it compiles.
pull_and_compile(f, domain) ==
  \/ FetchFails("pull")
  \/ /\ registry # Absent
     /\ files' = [files EXCEPT ![f] = registry]
     /\ Command("pull", IF CompileFor(registry, domain).abstained THEN 1 ELSE 0)

\* A bad answer, an abstention: an exception.
assess_remote(domain) ==
  /\ UNCHANGED files
  /\ \/ Command("assess", 1)
     \/ /\ registry # Absent
        /\ \E assessed \in {Assessment(registry, domain)} :
             ~ assessed.abstained /\ Answer([command |-> "assess", exit |-> 0, metrics |-> assessed.metrics])

\* One contribution, to a service that suppresses slices of fewer than five.
contribute_federation(domain) ==
  /\ UNCHANGED files
  /\ \/ Command("contribute", 1)
     \/ /\ registry # Absent
        /\ \E contribution \in {recipient_evaluate_and_contribute(registry, domain,
                                  CohortManifest(registry.cfi.id, 1), required_mapping_roles(registry.cfi))} :
             /\ ~ contribution.abstained
             /\ Answer([command |-> "contribute", exit |-> 0, contribution |-> contribution,
                        released |-> Len(<<contribution>>) >= MinSlice])

\* Of a path that is not there the golden invariant is taken.
compile_local(f, domain) ==
  /\ files[f] # Torn
  /\ LET package == IF files[f] = Absent THEN Package(build_exception_precedence_cfi, Unsigned)
                    ELSE files[f]
         roles == required_mapping_roles(package.cfi)
         context == RecipientContext(domain, [r \in roles |-> OntologyMapping(<<"local", r>>, "approved")])
     IN Command("compile", IF fail_closed_compile(package, context, NoManifest).abstained THEN 1 ELSE 0)
  /\ UNCHANGED files

mitigate_local(f, domain) ==
  /\ IsPackage(f)
  /\ \E compilation \in {CompileFor(files[f], domain)} :
       Command("mitigate",
         IF ~ compilation.abstained
            /\ evaluate_mitigation(compilation, FailingAgent, FixedAgent, "policy").accepted
         THEN 0 ELSE 1)
  /\ UNCHANGED files

evaluate_local(f, domain) ==
  /\ IsPackage(f)
  /\ Command("evaluate", IF Assessment(files[f], domain).abstained THEN 1 ELSE 0)
  /\ UNCHANGED files

-----------------------------------------------------------------------------
(* The aggregator's commands, and the field study.                         *)

Round(command, outcome) ==
  Answer([command |-> command, exit |-> IF outcome.released THEN 0 ELSE 1, participants |-> outcome.participants])

\* The service answers an error where it does not release, or does not answer.
remote_consortium_round ==
  /\ UNCHANGED files
  /\ \/ Command("round", 1)
     \/ \E outcome \in ServiceRounds : outcome.released /\ Round("round", outcome)

run_consortium_pilot == (\E outcome \in PilotRounds : Round("consortium", outcome)) /\ UNCHANGED files

simulate_aggregate ==
  /\ \E tenants \in {9, 10} :
       LET contributions == [k \in 1 .. tenants |-> [failures |-> k % 6, trials |-> 10]]
       IN Answer([command |-> "simulate", exit |-> 0, released |-> secure_aggregate(contributions, 10) # {}])
  /\ UNCHANGED files

StudyOrgs == 0 .. OrgCount - 1
SusceptibleDomains == {d \in ToSet(StudyDomains) : evaluate_susceptibility(d)}
StudyResults ==
  {run_prospective_study(Duration, OrgCount, day, [ro \in StudyOrgs \X StudyOrgs |-> d], incident,
                         SusceptibleDomains) :
     day \in [StudyOrgs -> ReleaseDays], d \in Delays,
     incident \in UNION {[S -> IncidentDays] : S \in SUBSET StudyOrgs}}

\* The pilot refuses a study in which nobody failed or held back.
FieldStudyRuns ==
  /\ \E result \in StudyResults :
       Answer([command |-> "field-study", result |-> result,
               exit |-> IF result.failed_extractions + result.non_shareable = 0 THEN 1 ELSE 0])
  /\ UNCHANGED files

\* RQ5 of the evaluation.
FieldMitigation(domain) ==
  /\ LET evaluated == evaluate_mitigation_in_field(domain)
     IN Answer([command |-> "field-mitigation", exit |-> 0, accepted |-> evaluated.accepted])
  /\ UNCHANGED files

HarnessResults ==
  {harness_main(domain, trained, hits) :
     domain \in RecipientDomains, trained \in TrainedScores, hits \in 1 .. 4}

RunHarness ==
  /\ \E result \in HarnessResults : Answer([command |-> "harness", exit |-> 0, result |-> result])
  /\ UNCHANGED files

CompiledBenchmarks ==
  {CompiledRows(domains) : domains \in {CorpusDomains} \cup UNION {load_tasks(remote) : remote \in BOOLEAN}}
RunBenchmarks ==
  /\ \/ Command("benchmark", 1)
     \/ \E rows \in CompiledBenchmarks : Answer([command |-> "benchmark", exit |-> 0, compiled |-> rows])
  /\ UNCHANGED files

\* The smoke of one process: a registration and its review, a compilation, a
\* round of ten, and a release of ten contributions without an attestation.
GoldenPathExits ==
  LET contributions == [k \in 1 .. 10 |-> [failures |-> 1, trials |-> 3]]
      packaged == PackagesFrom(GoldenCFI, "approve")
      ready == /\ packaged # {} /\ \A p \in packaged : validate_and_parse_package(p)
               /\ ~ Compile("procurement").abstained
      aggregated == Len(contributions) >= MinSlice /\ secure_aggregate(contributions, 10) # {}
  IN {IF ready /\ outcome.released /\ aggregated THEN 0 ELSE 1 : outcome \in GoldenPathRounds}

golden_path == (\E exit \in GoldenPathExits : Command("golden-path", exit)) /\ UNCHANGED files

verify_pipeline_matrix ==
  /\ \/ Command("matrix", 1)
     \/ \E result \in MatrixResults :
          Answer([command |-> "matrix", exit |-> IF result.valid THEN 0 ELSE 1, ok_count |-> result.ok_count])
  /\ UNCHANGED files

\* The pilot's package is not asked what its gate answered.
consortium_pilot ==
  /\ PackagesFrom(GoldenCFI, "approve") # {}
  /\ \E outcome \in ConsortiumPilotRounds : Round("pilot", outcome)
  /\ UNCHANGED files

RedTeamReports ==
  {run_redteam(p.cfi, trained, coefficient) : p \in PackagesFrom(GoldenCFI, "approve"),
     trained \in TrainedScores, coefficient \in 0 .. Prime - 1}
RunRedTeam ==
  /\ \E results \in RedTeamReports : Answer([command |-> "redteam", exit |-> 0, results |-> results])
  /\ UNCHANGED files

-----------------------------------------------------------------------------
(* Verifications in one process.  The publish command has a registry of    *)
(* its own, and its incident one event, from which nothing is dropped.     *)

Published == {p \in Extractions[FALSE] : validate_and_parse_package(p)}

CrossBoundaryGoes ==
  \E package \in Published : ~ CompileFor(package, "procurement").abstained

EndToEndGoes ==
  \E package \in Published : \E assessed \in {Assessment(package, "procurement")} :
    ~ assessed.abstained /\ "agent_susceptibility" \in DOMAIN assessed.metrics

\* Five tenants' contributions, without an attestation.
FederationGoes ==
  \E package \in Published : \E contributions \in {PipelineContributions(package)} :
    /\ \A k \in DOMAIN contributions : ~ contributions[k].abstained
    /\ Len(contributions) >= MinSlice /\ secure_aggregate(contributions, 5) # {}

Verification(script, goes) == Command(script, IF goes THEN 0 ELSE 1) /\ UNCHANGED files
verify_cross_boundary == Verification("cross-boundary", CrossBoundaryGoes)
verify_end_to_end == Verification("end-to-end", EndToEndGoes)
verify_federation_workflow == Verification("federation-workflow", FederationGoes)

-----------------------------------------------------------------------------
\* Another contributor registers its golden invariant, of the same id.
OtherContributor ==
  /\ registry = Absent
  /\ \E attested \in BOOLEAN :
       registry' = sign_package(canonicalize([build_exception_precedence_cfi EXCEPT !.attested = attested]))
  /\ UNCHANGED <<minimizer, corpus, job, files, report>>

ingest_corpus_local ==
  \E services \in ByProfile, extract \in BOOLEAN : StartJob("ingest-corpus", services, extract)
ingest_publish_corpus == \E services \in ByProfile : StartJob("ingest-publish", services, TRUE)
extract_from_incident == \E services \in ByUrlOrProfile : StartJob("extract", services, TRUE)
publish_remote == \E services \in ByUrlOrProfile : StartJob("publish", services, TRUE)
run_pipeline_remote == StartJob("run-pipeline", {"structural"}, TRUE)

StartJobs ==
  \/ ingest_corpus_local \/ ingest_publish_corpus \/ extract_from_incident
  \/ publish_remote \/ run_pipeline_remote

FileCommands(f) ==
  \/ package_cfi(f) \/ PackageLibraryCFI(f) \/ run_release_gate(f) \/ register_remote(f)
  \/ fetch_remote(f)
  \/ \E domain \in RecipientDomains :
       \/ pull_and_compile(f, domain) \/ compile_local(f, domain)
       \/ mitigate_local(f, domain) \/ evaluate_local(f, domain)

Evaluations ==
  \/ FieldStudyRuns \/ RunHarness \/ RunBenchmarks \/ golden_path \/ verify_pipeline_matrix
  \/ consortium_pilot \/ RunRedTeam
  \/ verify_cross_boundary \/ verify_end_to_end \/ verify_federation_workflow
  \/ \E domain \in RecipientDomains : FieldMitigation(domain)

Commands ==
  \/ StartJobs \/ remote_cfi_status \/ probe_hooks
  \/ \E f \in Files : FileCommands(f)
  \/ \E domain \in RecipientDomains : assess_remote(domain) \/ contribute_federation(domain) 
  \/ RunInProcess \/ remote_consortium_round \/ run_consortium_pilot \/ simulate_aggregate
  \/ Evaluations

Next ==
  \/ (JobStep \/ Crash \/ Commands \/ ReadReport \/ OtherContributor) /\ UNCHANGED charged
  \/ PipelineStep

\* A job's process runs; nothing makes anyone start a command.
Spec == Init /\ [][Next]_vars /\ WF_vars((JobStep /\ UNCHANGED charged) \/ PipelineStep)
-----------------------------------------------------------------------------
(* Properties.                                                             *)

Packages == {files[f] : f \in {f \in Files : IsPackage(f)}} \cup ({registry} \ {Absent})

\* Each variable holds what the code may put there, and a job has extracted
\* no more than it has validated of what it has come to (ingest_directory).
WorkflowTypeOK ==
  /\ MinimizerTypeOK
  /\ job = Idle \/ /\ job.at \in 1 .. Larger(Len(Bundles), Len(FileNames)) + 1
                   /\ job.extracted =< job.validated /\ job.validated =< Len(Bundles)
                   /\ job.step = "bundles" => job.validated =< job.at
                   /\ job.candidates # <<>> =>
                        /\ {c.component : c \in ToSet(job.candidates)} = Graph.nodes
                        /\ Len(job.candidates) = Cardinality(Graph.nodes)
                        /\ \A j, k \in DOMAIN job.candidates :
                             j < k => job.candidates[j].delta >= job.candidates[k].delta
                   /\ job.registered \in {0, 1}
  /\ \A p \in Packages : model_validate(p.cfi)
  /\ report.command = "none" \/ report.exit \in {0, 1}
  /\ report.command = "harness" =>
       /\ \A m \in ToSet(report.result.results) :
            0 =< m.ci_low /\ m.ci_low =< m.value /\ m.value =< m.ci_high /\ m.ci_high =< 100
       /\ \E m \in ToSet(report.result.results) :
            m.dimension = "mitigation" /\ m.value = report.result.assurance.mitigation_effectiveness
  /\ report.command = "redteam" => \A k \in 1 .. 9 : report.results[k].success_rate \in 0 .. 100
  /\ charged \in 0 .. TotalEpsilon

\* What has left a contributor, in a file or in the registry, is signed as it
\* is, passes the linter and may be shared, though the pipeline and the
\* commands make an approval of whatever the release gate answers; and the
\* registry has none that mentions a prompt (Packager.package,
\* validate_and_parse_package).
ReleasedIsClean ==
  /\ \A p \in Packages :
       /\ Verify(p) /\ lint_for_release(p.cfi) = {} /\ p.cfi.tier # "non-shareable"
       /\ \A m \in NodesOf(p.cfi) : "noun" \notin m.extensions
  /\ registry # Absent => "prompt" \notin registry.cfi.text

\* Contexts of recipients who agree on the roles but for some: shared maps to
\* one entity, and open is not approved yet.
Contexts ==
  LET roles == required_mapping_roles(build_exception_precedence_cfi)
      mapping(shared, open, r) ==
        OntologyMapping(<<"local", IF r \in shared THEN "shared" ELSE r>>,
                        IF r \in open THEN "proposed" ELSE "approved")
  IN {[shared |-> shared, open |-> open,
       context |-> RecipientContext("any", [r \in roles |-> mapping(shared, open, r)])] :
        shared \in {S \in SUBSET roles : Cardinality(S) =< 3}, open \in {{}} \cup {{r} : r \in roles}}

\* A package compiles exactly where every role is approved and no entity has
\* roles of two types, if its oracle has an expression; then it has its case
\* and three controls.
CompilesWhereItShould(p) ==
  LET TypesOf(roles) == {m.type : m \in {m \in NodesOf(p.cfi) : m.role \in roles}}
  IN \A c \in Contexts :
       LET result == fail_closed_compile(p, c.context, NoManifest)
       IN IF c.open = {} /\ Cardinality(TypesOf(c.shared)) =< 1 /\ p.cfi.oracle # "empty"
          THEN ~ result.abstained /\ result.positives = 1 /\ Len(result.controls) = 3
          ELSE result.abstained

\* Invariants that ask a recipient for the golden one's roles: each is one
\* node's, an outcome's role is not one of them, a role in a temporal
\* constraint is alone of its type, and there are three controls.  The
\* author's ids may clash.
AloneOfType(cfi, role) ==
  \E k \in Mapped(cfi) :
    /\ cfi.nodes[k].role = role
    /\ \A j \in Mapped(cfi) : cfi.nodes[j].type = cfi.nodes[k].type => j = k

MapsLikeGolden(cfi) ==
  /\ cfi.nodes \in Seq(NodesOf(cfi)) /\ cfi.cardinality_constraints = {}
  /\ \A j, k \in Mapped(cfi) : cfi.nodes[j].role = cfi.nodes[k].role => j = k
  /\ required_mapping_roles(cfi) = required_mapping_roles(build_exception_precedence_cfi)
  /\ \A m \in NodesOf(cfi) : m.type = "Outcome" => m.role \notin required_mapping_roles(cfi)
  /\ \A c \in cfi.temporal_constraints : AloneOfType(cfi, c[1]) /\ AloneOfType(cfi, c[2])
  /\ cfi.controls \in Seq(ToSet(cfi.controls)) /\ Len(cfi.controls) >= 3

SmuggledPackages == UNION {attempt_smuggle(build_exception_precedence_cfi, cfi.text) : cfi \in LibraryCFIs}
ReleasablePackages ==
  SmuggledPackages \cup
  UNION {PackagesFrom(cfi, "approve") :
           cfi \in LibraryCFIs \cup {[build_exception_precedence_cfi EXCEPT !.attested = attested] :
                                     attested \in BOOLEAN}}

CompilingPackages == {p \in ReleasablePackages : CompilesWhereItShould(p)}

\* What was released with an oracle compiles at every recipient whose map is
\* complete and keeps roles of different types apart, and nowhere else: the
\* renaming of the packager loses nothing the recipient's checker asks for,
\* even of nodes the author gave one id; so the
\* scripts that take a publication to a test or a release go well
\* (alpha_rename, preserves, fail_closed_compile, verify_cross_boundary).
ReleasedCompiles ==
  /\ Packages \subseteq CompilingPackages
  /\ report.command \in {"cross-boundary", "end-to-end", "federation-workflow"} => report.exit = 0

\* However often a pipeline is tried again after a step of it failed, the
\* aggregation service is charged for it once, and a pipeline that ends well
\* was charged and has its package in the registry (run_remote_full_pipeline).
PipelineChargesOnce ==
  /\ charged =< 1
  /\ report = Report("run-pipeline", 0) => charged = 1 /\ registry # Absent

\* What a command reports is so, whatever file an earlier crash cut off and
\* whichever answers were lost: the package it extracted is a whole one in its
\* place, and the one it registered or fetched is the registry's, and a file's
\* (cmd_ingest_publish, publish_packages, publish_remote, register_remote).
ReportedIsThere ==
  report.command # "none" /\ report.exit = 0 =>
    /\ report.command \in {"extract", "publish", "ingest-publish"} => IsPackage("invariant_id")
    /\ report.command \in {"publish", "ingest-publish", "register", "fetch", "pull"} =>
         registry \in {files[f] : f \in {f \in Files : IsPackage(f)}}

\* Whatever coefficients were drawn, any two of the three shares of a
\* recipient's envelope give its clipped counts (build_share_envelope,
\* shamir_recover).
ContributionsRecover ==
  report.command = "contribute" /\ report.exit = 0 =>
    \A f, t \in 0 .. Prime - 1 :
      LET envelope == build_share_envelope(report.contribution.failures, report.contribution.trials,
                                           10, 100, f, t)
      IN /\ \A S \in kSubset(Threshold, envelope.shares_f) : shamir_recover(S) = report.contribution.failures
         /\ \A S \in kSubset(Threshold, envelope.shares_n) : shamir_recover(S) = report.contribution.trials

\* Every job comes to its end, whatever a live agent answers the minimizer
\* and whichever calls fail.
CommandsEnd == job # Idle ~> job = Idle
=============================================================================
