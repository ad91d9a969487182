------------------------------ MODULE Contributor ------------------------------
(***************************************************************************)
(* The contributor's commands.  A job (ingest-corpus, ingest-publish,      *)
(* extract, publish, and the publication a full pipeline begins with)      *)
(* takes one bundle of evidence after another through the adapter, the     *)
(* graph, the minimizer, the gate and the packager to a package file, and  *)
(* may then publish the files.  The other commands are one step each.      *)
(*                                                                         *)
(* One job runs at a time; what other contributors do to the registry      *)
(* meanwhile is OtherContributor of Workflow.  A network call may fail     *)
(* before it is served or after.  Every pipeline makes the same invariant, *)
(* so all packages here have one id.                                       *)
(***************************************************************************)
EXTENDS Minimizer, CfiPackage, ReplayHooks

CONSTANTS
  Corpora,        \* what a directory of bundles may hold: sequences of bundles
  TrainedScores,  \* percent; what the trained adversary may answer
  LibraryCFIs     \* invariants a caller of the packager may bring

LocalIncident == << IncidentEvent("policy_lookup", 0) >>  \* the incident extract and publish make up

\* Each bundle there may be.
AllBundles == {LocalIncident} \cup UNION {ToSet(bundles) : bundles \in Corpora}

\* What is minimised are the nodes of a graph, which are indices.
ASSUME CorporaAssumption ==
  /\ Elements \subseteq Int
  /\ Corpora \subseteq Seq(AllBundles)
  /\ \A bundle \in AllBundles : GraphOf(bundle_raw_trace(bundle)).nodes \subseteq Elements

ASSUME TrainedAssumption == TrainedScores \subseteq 0 .. 100 /\ TrainedScores # {}

\* A caller can only bring what the schema lets it make.
ASSUME LibraryAssumption == \A cfi \in LibraryCFIs : CFIShape(cfi) /\ model_validate(cfi)

VARIABLES
  corpus,    \* the bundles of the input directory, in the order of their paths
  job,       \* the job under way, or Idle
  files,     \* the package files by name, in their order
  registry,  \* the registry's package of the invariant's id, or Absent
  report     \* what the last command came to

Absent == [file |-> "absent"]  \* no file, or no package
Torn == [file |-> "torn"]      \* a file cut off
Idle == [command |-> "none"]   \* no job

FileNames == <<"invariant_id", "operators_copy">>  \* in the order of sorted
Files == ToSet(FileNames)
IsPackage(f) == files[f] \notin {Absent, Torn}

NoReport == [command |-> "none"]
Report(command, exit) == [command |-> command, exit |-> exit]

AtPrompt == job = Idle /\ report = NoReport

\* A command of one step.
Answer(r) == AtPrompt /\ report' = r /\ UNCHANGED <<minimizer, corpus, job, registry>>
Command(command, exit) == Answer(Report(command, exit))

\* Whoever gave the command has read what it came to.
ReadReport ==
  /\ report # NoReport /\ report' = NoReport
  /\ UNCHANGED <<minimizer, corpus, job, files, registry>>

ContributorInit ==  /\ MinimizerInit
  /\ corpus \in Corpora
  /\ job = Idle /\ registry = Absent
  /\ files = [f \in Files |-> Absent]
  /\ report = NoReport

-----------------------------------------------------------------------------
(* The registry, as its client meets it.                                   *)

validate_and_parse_package(package) ==
  Verify(package) /\ "prompt" \notin package.cfi.text /\ model_validate(package.cfi)

\* A bug: a duplicate is taken for a registration.
RegisterCall_Idempotent(package, ok) ==
  \/ /\ ok /\ validate_and_parse_package(package)
     /\ registry' = IF registry = Absent THEN package ELSE registry
  \/ /\ ~ ok
     /\ \/ UNCHANGED registry
        \/ /\ registry = Absent /\ validate_and_parse_package(package)
           /\ registry' = package

\* RegistryClient.register: registered; or an error, for a package that was
\* refused, a service out of reach, or an answer that was lost.
RegisterCall(package, ok) ==
  \/ /\ ok /\ registry = Absent /\ validate_and_parse_package(package)
     /\ registry' = package
  \/ /\ ~ ok
     /\ \/ UNCHANGED registry
        \/ /\ registry = Absent /\ validate_and_parse_package(package)
           /\ registry' = package

-----------------------------------------------------------------------------
(* Jobs.                                                                   *)

Ingests == {"ingest-corpus", "ingest-publish"}
Bundles == IF job.command \in Ingests THEN corpus ELSE << LocalIncident >>

\* What may answer the replays of a job, for each way to name a provider in
\* an environment: none for a name that is no profile's.  A service that
\* fails its health check replays as a stub, and one that answers no rate is
\* as good as down.
ReplayServices(urls) ==
  LET names == {"none", "unknown"} \cup REPLAY_PROFILES
      ServicesAt(url) == CASE url = "structural" -> {"structural"}
                           [] url = "empty" -> {"down"}
                           [] OTHER -> {"stub", "agent", "down"}
  IN {UNION {ServicesAt(u) : u \in resolve_replay_provider(url, name, env)} :
        url \in urls, name \in names, env \in Environments}

ByProfile == ReplayServices({"empty"})
ByUrlOrProfile == ReplayServices({"empty", "url"})

\* extract: ingest-corpus need not.
StartJob(command, services, extract) ==
  \/ /\ AtPrompt
     /\ \E replay \in services :
          job' = [command |-> command, replay |-> replay, extract |-> extract, step |-> "bundles",
                  at |-> 1, validated |-> 0, extracted |-> 0, registered |-> 0, candidates |-> <<>>]
     /\ UNCHANGED <<minimizer, corpus, files, registry, report>>
  \/ services = {} /\ UNCHANGED files /\ Command(command, 1)

GoldenPackage == sign_package(canonicalize(build_exception_precedence_cfi))

Bundle == Bundles[job.at]

Graphs == [bundle \in AllBundles |-> GraphOf(bundle_raw_trace(bundle))]
Graph == Graphs[Bundle]
AtBundle == job # Idle /\ job.step = "bundles" /\ job.at \in DOMAIN Bundles

EndJob(exit) == job' = Idle /\ report' = Report(job.command, exit)

\* An exception is the record's error in an ingest, and else the command's.
Fail ==
  /\ IF job.command \in Ingests
     THEN job' = [job EXCEPT !.at = @ + 1, !.step = "bundles", !.candidates = <<>>] /\ UNCHANGED report
     ELSE EndJob(1)
  /\ UNCHANGED <<corpus, files, registry>>

\* A bug: a bundle is counted where it is read and not where it is parsed.
LoadBundle_Counted ==
  /\ AtBundle /\ sweep = "idle"
  /\ \/ ~ ValidBundle(Bundle) /\ Fail
     \/ /\ ValidBundle(Bundle)
        /\ job' = IF job.extract THEN [job EXCEPT !.step = "score"]
                  ELSE [job EXCEPT !.at = @ + 1, !.validated = @ + 1]
        /\ UNCHANGED <<corpus, files, registry, report>>
  /\ UNCHANGED minimizer

LoadBundle ==
  /\ AtBundle /\ sweep = "idle"
  /\ \/ ~ ValidBundle(Bundle) /\ Fail
     \/ /\ ValidBundle(Bundle)
        /\ job' = IF job.extract THEN [job EXCEPT !.step = "score", !.validated = @ + 1]
                  ELSE [job EXCEPT !.at = @ + 1, !.validated = @ + 1]
        /\ UNCHANGED <<corpus, files, registry, report>>
  /\ UNCHANGED minimizer

Fails ==
  [replay \in {"structural", "stub"} |-> [bundle \in AllBundles |-> oracle(replay, Graphs[bundle]) > 0]]
Candidates ==
  [replay \in {"structural", "stub"} |->
     [bundle \in AllBundles |-> counterfactual_candidate_scoring(Graphs[bundle], replay)]]

\* The candidates are in the report, and nothing reads them; what a live
\* agent makes of them is left out.
ScoreCandidates ==
  /\ job # Idle /\ job.step = "score"
  /\ \/ job.replay \in {"agent", "down"} /\ Fail /\ UNCHANGED minimizer
     \/ /\ job.replay # "down"
        /\ Call(Graph.nodes)
        /\ job' = [job EXCEPT !.step = "bundles",
             !.candidates = IF job.replay = "agent" THEN <<>> ELSE Candidates[job.replay][Bundle]]
        /\ UNCHANGED <<corpus, files, registry, report>>

\* A live agent may fail to answer in the minimization.
ReplayRaises ==
  /\ AtBundle /\ job.replay = "agent"
  /\ sweep = "ask" /\ \E k \in todo : Heaviest(k) /\ Cardinality(Asked(k)) >= 2
  /\ Fail /\ Forget

\* type_checker asks for two elements; failure_preserving replays the whole
\* graph, whatever the elements.
Preserving(elements) ==
  IF Cardinality(elements) < 2 THEN {FALSE}
  ELSE IF job.replay = "agent" THEN BOOLEAN ELSE {Fails[job.replay][Bundle]}

Minimize ==
  /\ AtBundle
  /\ \/ BeginSweep \/ EndSweep \/ StopSmall
     \/ \E k \in todo : TRUE \in Preserving(Asked(k)) /\ Accept(k)
     \/ \E k \in todo : FALSE \in Preserving(Asked(k)) /\ Reject(k)
  /\ UNCHANGED <<corpus, job, files, registry, report>>

\* use_golden_template: the invariant is the golden one, and says whether
\* the minimizer's log has entries.
Extracted(attested) ==
  LET cfi == [build_exception_precedence_cfi EXCEPT !.attested = attested]
      outcome(trained) == GateRun(cfi, TRUE, score_cfi(cfi, FALSE, trained))
  IN UNION {PackagesFrom(cfi, Overridden(outcome(trained))) : trained \in TrainedScores}

Extractions == [attested \in BOOLEAN |-> Extracted(attested)]

\* ingest-corpus and the pipeline leave no file; a file is named after the
\* invariant, and overwritten.
Keeps == job.command \notin {"ingest-corpus", "run-pipeline"}
Written(p) == IF Keeps THEN [files EXCEPT !["invariant_id"] = p] ELSE files

NextStep ==
  IF job.command \in {"publish", "run-pipeline"} THEN "register" ELSE "bundles"

WritePackage ==
  /\ AtBundle /\ sweep = "done"
  /\ \E p \in Extractions[log \cup refused # {}] :
       /\ files' = Written(p)
       /\ job' = [job EXCEPT !.extracted = @ + 1, !.at = @ + 1, !.step = NextStep,
                                !.candidates = <<>>]
  /\ Forget
  /\ UNCHANGED <<corpus, registry, report>>

\* The process dies, and a file it was writing is cut off.
Crash ==
  /\ job # Idle
  /\ job' = Idle
  /\ files' \in {files} \cup
       (IF AtBundle /\ sweep = "done" THEN {Written(Torn)} ELSE {})
  /\ Forget
  /\ UNCHANGED <<corpus, registry, report>>

BundlesDone == job # Idle /\ job.step = "bundles" /\ job.at = Len(Bundles) + 1

EndIngest ==
  /\ BundlesDone /\ job.command \in {"ingest-corpus", "extract"}
  /\ EndJob(IF job.command = "ingest-corpus" /\ job.validated # Len(corpus) THEN 1 ELSE 0)
  /\ UNCHANGED <<minimizer, corpus, files, registry>>

\* A bug: the directory is published though nothing was extracted.
StartPublishing_Unextracted ==
  /\ BundlesDone /\ job.command = "ingest-publish"
  /\ job' = [job EXCEPT !.step = "publish", !.at = 1]
  /\ UNCHANGED <<minimizer, corpus, files, registry, report>>

\* publish_packages looks into the directory: files of earlier runs too.
StartPublishing ==
  /\ BundlesDone /\ job.command = "ingest-publish"
  /\ IF job.extracted = 0 THEN EndJob(1)
     ELSE job' = [job EXCEPT !.step = "publish", !.at = 1] /\ UNCHANGED report
  /\ UNCHANGED <<minimizer, corpus, files, registry>>

\* An id is seen once it was registered, and skipped then.
PublishFile ==
  /\ job # Idle /\ job.step = "publish" /\ job.at \in DOMAIN FileNames
  /\ LET f == FileNames[job.at]
     IN \/ /\ ~ IsPackage(f) \/ job.registered > 0
           /\ job' = [job EXCEPT !.at = @ + 1] /\ UNCHANGED registry
        \/ /\ IsPackage(f) /\ job.registered = 0
           /\ \E ok \in BOOLEAN :
                /\ RegisterCall(files[f], ok)
                /\ job' = [job EXCEPT !.at = @ + 1, !.registered = IF ok THEN 1 ELSE @]
  /\ UNCHANGED <<minimizer, corpus, files, report>>

EndPublishing ==
  /\ job # Idle /\ job.step = "publish" /\ job.at = Len(FileNames) + 1
  /\ EndJob(IF job.registered = 0 THEN 1 ELSE 0)
  /\ UNCHANGED <<minimizer, corpus, files, registry>>

\* The publish command, which is the pipeline's first: the pipeline keeps
\* its package in a directory of its own.
PublishOne ==
  /\ job # Idle /\ job.step = "register"
  /\ LET package == IF Keeps THEN files["invariant_id"] ELSE GoldenPackage
     IN \E ok \in BOOLEAN :
          /\ RegisterCall(package, ok)
          /\ IF ok /\ job.command = "run-pipeline"
             THEN job' = [job EXCEPT !.step = "assess", !.registered = 1] /\ UNCHANGED report
             ELSE EndJob(IF ok THEN 0 ELSE 1)
  /\ UNCHANGED <<minimizer, corpus, files>>

JobStep ==
  \/ LoadBundle \/ ScoreCandidates \/ ReplayRaises \/ Minimize \/ WritePackage \/ EndIngest
  \/ StartPublishing \/ PublishFile \/ EndPublishing \/ PublishOne

-----------------------------------------------------------------------------
(* Commands of one step.                                                   *)

\* The scores are given, so the trained adversary is not asked.
package_cfi(f) ==
  LET cfi == build_exception_precedence_cfi
      scores == [linkability |-> 0, source_attribution |-> 7, reconstruction |-> 10]
      packages == PackagesFrom(cfi, Overridden(GateRun(cfi, TRUE, scores)))
  IN \E p \in packages : files' = [files EXCEPT ![f] = p] /\ Command("package", 0)

\* What the packager may yield of the library's invariants and texts.
Gated(cfi, complete, trained) == package_with_gate(cfi, complete, FALSE, trained)
LibraryOutcomes ==
  {Gated(cfi, complete, trained) :
     cfi \in LibraryCFIs, complete \in BOOLEAN, trained \in TrainedScores}
  \cup {attempt_smuggle(build_exception_precedence_cfi, cfi.text) : cfi \in LibraryCFIs}

PackageLibraryCFI(f) ==
  \E packages \in LibraryOutcomes :
    \/ packages = {} /\ UNCHANGED files /\ Command("library", 1)
    \/ /\ \E p \in packages : files' = [files EXCEPT ![f] = p]
       /\ Command("library", 0)

\* Of a path that is not there the golden invariant is taken.
run_release_gate(f) ==
  /\ files[f] # Torn
  /\ \E named \in BOOLEAN, trained \in TrainedScores :
       LET cfi == IF files[f] = Absent THEN build_exception_precedence_cfi ELSE files[f].cfi
           outcome == GateRun(cfi, TRUE, score_cfi(cfi, named, trained))
       IN Command("gate", IF Approved(outcome) THEN 0 ELSE 1)
  /\ UNCHANGED files

register_remote(f) ==
  /\ IsPackage(f) /\ AtPrompt
  /\ \E ok \in BOOLEAN : RegisterCall(files[f], ok) /\ report' = Report("register", IF ok THEN 0 ELSE 1)
  /\ UNCHANGED <<minimizer, corpus, job, files>>

remote_cfi_status ==
  /\ \E exit \in (IF registry = Absent THEN {1} ELSE {0, 1}) : Command("status", exit)
  /\ UNCHANGED files

probe_hooks == (\E exit \in ProbeExits : Command("probe-hooks", exit)) /\ UNCHANGED files
=============================================================================
