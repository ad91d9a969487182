---------------------------- MODULE WorkflowProofs ----------------------------
(***************************************************************************)
(* What the command line guarantees, for any directory of bundles, any     *)
(* invariants a caller brings, any answers of the trained adversary and of *)
(* a live agent, and any crashes and lost calls: a job calls the minimizer *)
(* as its specification says, what leaves a contributor was released and   *)
(* compiles where it should, the aggregation service is charged once, and  *)
(* any two shares of a contribution give it again.                         *)
(***************************************************************************)
EXTENDS Workflow, MinimizerProofs, SequenceTheorems, FunctionTheorems, WellFoundedInduction

-----------------------------------------------------------------------------
(* The job under way.                                                      *)

JobCommands == {"ingest-corpus", "ingest-publish", "extract", "publish", "run-pipeline"}
PipelineSteps == {"assess", "aggregate", "consortium", "hooks", "audit"}
JobSteps == {"bundles", "score", "publish", "register"} \cup PipelineSteps
Replays == {"structural", "stub", "agent", "down"}

JobShape ==
  /\ DOMAIN job = {"command", "replay", "extract", "step", "at", "validated", "extracted",
                   "registered", "candidates"}
  /\ job.command \in JobCommands /\ job.step \in JobSteps /\ job.replay \in Replays
  /\ job.at \in Nat /\ job.validated \in Nat /\ job.extracted \in Nat
  /\ job.registered \in {0, 1}

\* Which command a step belongs to.
StepOfCommand ==
  /\ job.step \in PipelineSteps => job.command = "run-pipeline"
  /\ job.step = "publish" => job.command = "ingest-publish"
  /\ job.step = "register" => job.command \in {"publish", "run-pipeline"}

\* How far the job has come: the minimizer works only on a bundle that was
\* validated and has not been extracted, and the candidates are that bundle's.
JobProgress ==
  /\ job.at >= 1 /\ job.extracted =< job.validated /\ job.validated =< Len(Bundles)
  /\ job.step # "publish" => job.at =< Len(Bundles) + 1
  /\ job.step = "publish" => job.at =< Len(FileNames) + 1
  /\ job.step = "bundles" => job.validated =< job.at
  /\ job.step = "bundles" /\ sweep = "idle" => job.validated < job.at
  /\ job.step = "score" \/ sweep # "idle" =>
       job.at \in DOMAIN Bundles /\ job.validated =< job.at /\ job.extracted < job.validated
  /\ job.candidates # <<>> =>
       /\ sweep # "idle" /\ job.replay \in {"structural", "stub"}
       /\ job.candidates = Candidates[job.replay][Bundle]

JobInv ==
  /\ corpus \in Corpora
  /\ sweep # "idle" => job # Idle /\ job.step = "bundles"
  /\ job # Idle => JobShape /\ StepOfCommand /\ JobProgress

LEMMA BundlesAreKnown ==
  ASSUME JobInv
  PROVE  Bundles \in Seq(AllBundles) /\ Len(Bundles) \in Nat /\ DOMAIN Bundles = 1 .. Len(Bundles)
<1>1. Bundles \in Seq(AllBundles)
  <2>1. CASE job.command \in Ingests
    BY <2>1, CorporaAssumption DEF JobInv, Bundles
  <2>2. CASE job.command \notin Ingests
    BY <2>2 DEF Bundles, AllBundles
  <2> QED BY <2>1, <2>2
<1> QED BY <1>1, LenProperties

\* A bundle's graph is made of elements.
LEMMA GraphIsOfElements ==
  ASSUME JobInv, job.at \in DOMAIN Bundles
  PROVE  Bundle \in AllBundles /\ Graph.nodes \in SUBSET Elements
<1>1. Bundle \in AllBundles
  BY BundlesAreKnown, ElementOfSeq DEF Bundle
<1> QED BY <1>1, CorporaAssumption DEF Graph, Graphs

LEMMA SameBundles ==
  ASSUME corpus' = corpus, job'.command = job.command
  PROVE  Bundles' = Bundles
BY DEF Bundles

\* The job is not changed, and neither is what it looks at.
LEMMA JobUnchanged ==
  ASSUME JobInv, UNCHANGED <<corpus, job, sweep>>
  PROVE  JobInv'
<1>1. Bundles' = Bundles /\ Bundle' = Bundle
  BY DEF Bundles, Bundle
<1> QED BY <1>1 DEF JobInv, JobShape, StepOfCommand, JobProgress

LEMMA JobEnds ==
  ASSUME JobInv, UNCHANGED corpus, job' = Idle, sweep' = "idle"
  PROVE  JobInv'
BY DEF JobInv

LEMMA FailInv ==
  ASSUME JobInv, job # Idle, job.step \in {"bundles", "score"}, job.at \in DOMAIN Bundles,
         job.validated =< job.at, Fail, sweep' = "idle"
  PROVE  JobInv'
<1>1. corpus' = corpus
  BY DEF Fail
<1>2. CASE job.command \in Ingests
  <2>1. job' = [job EXCEPT !.at = @ + 1, !.step = "bundles", !.candidates = <<>>]
    BY <1>2 DEF Fail
  <2>2. JobShape /\ JobProgress /\ StepOfCommand
    BY DEF JobInv
  <2>3. /\ DOMAIN job' = DOMAIN job /\ job'.at = job.at + 1 /\ job'.step = "bundles"
        /\ job'.candidates = <<>> /\ job'.command = job.command /\ job'.replay = job.replay
        /\ job'.validated = job.validated /\ job'.extracted = job.extracted
        /\ job'.registered = job.registered
    BY <2>1, <2>2 DEF JobShape
  <2>4. Bundles' = Bundles /\ DOMAIN Bundles = 1 .. Len(Bundles) /\ Len(Bundles) \in Nat
    BY <1>1, <2>3, SameBundles, BundlesAreKnown
  <2>5. JobShape'
    BY <2>2, <2>3 DEF JobShape, JobSteps
  <2>6. StepOfCommand'
    BY <2>3 DEF StepOfCommand, PipelineSteps
  <2>7. JobProgress'
    BY <2>2, <2>3, <2>4 DEF JobProgress, JobShape
  <2> QED BY <1>1, <2>5, <2>6, <2>7 DEF JobInv
<1>3. CASE job.command \notin Ingests
  BY <1>1, <1>3, JobEnds DEF Fail, EndJob
<1> QED BY <1>2, <1>3

\* A job that goes on with the same command keeps its bundles.
LEMMA JobGoesOn ==
  ASSUME JobInv, job # Idle, corpus' = corpus, DOMAIN job' = DOMAIN job,
         job'.command = job.command, job'.replay = job.replay,
         JobProgress', StepOfCommand', job'.step \in JobSteps,
         job'.at \in Nat, job'.validated \in Nat, job'.extracted \in Nat,
         job'.registered \in {0, 1}, sweep' # "idle" => job'.step = "bundles"
  PROVE  JobInv'
<1>1. JobShape'
  BY DEF JobInv, JobShape
<1>2. job' # Idle
  BY <1>1 DEF JobShape, JobCommands, Idle
<1> QED BY <1>1, <1>2 DEF JobInv

LEMMA LoadBundleInv == ASSUME JobInv, LoadBundle PROVE JobInv'
<1>1. /\ job # Idle /\ job.step = "bundles" /\ job.at \in DOMAIN Bundles
      /\ sweep = "idle" /\ sweep' = "idle" /\ JobShape /\ StepOfCommand /\ JobProgress
  BY DEF LoadBundle, AtBundle, minimizer, JobInv
<1>2. CASE Fail
  BY <1>1, <1>2, FailInv DEF JobProgress
<1>3. CASE ~ Fail
  <2>1. /\ corpus' = corpus
        /\ \/ job' = [job EXCEPT !.step = "score", !.validated = @ + 1]
           \/ job' = [job EXCEPT !.at = @ + 1, !.validated = @ + 1]
    BY <1>3 DEF LoadBundle
  <2>2. /\ DOMAIN job' = DOMAIN job
        /\ job'.command = job.command /\ job'.replay = job.replay
        /\ job'.validated = job.validated + 1 /\ job'.extracted = job.extracted
        /\ job'.registered = job.registered /\ job'.candidates = job.candidates
        /\ \/ job'.step = "score" /\ job'.at = job.at
           \/ job'.step = job.step /\ job'.at = job.at + 1
    BY <1>1, <2>1 DEF JobShape
  <2>3. Bundles' = Bundles /\ DOMAIN Bundles = 1 .. Len(Bundles) /\ Len(Bundles) \in Nat
    BY <2>1, <2>2, SameBundles, BundlesAreKnown
  <2>4. JobProgress'
    BY <1>1, <2>2, <2>3 DEF JobProgress, JobShape
  <2>5. StepOfCommand'
    BY <1>1, <2>2 DEF StepOfCommand, PipelineSteps
  <2> QED BY <1>1, <2>1, <2>2, <2>4, <2>5, JobGoesOn DEF JobShape, JobSteps
<1> QED BY <1>2, <1>3

LEMMA ScoreCandidatesInv ==
  ASSUME JobInv, ScoreCandidates
  PROVE  JobInv' /\ (UNCHANGED minimizer \/ \E S \in SUBSET Elements : sweep = "idle" /\ Call(S))
<1>1. /\ job # Idle /\ job.step = "score" /\ job.at \in DOMAIN Bundles
      /\ sweep = "idle" /\ JobShape /\ StepOfCommand /\ JobProgress
  BY DEF ScoreCandidates, JobInv, JobProgress
<1>2. CASE Fail /\ UNCHANGED minimizer
  BY <1>1, <1>2, FailInv DEF JobProgress, minimizer
<1>3. CASE ~ (Fail /\ UNCHANGED minimizer)
  <2>1. /\ corpus' = corpus /\ Call(Graph.nodes) /\ job.replay # "down"
        /\ job' = [job EXCEPT !.step = "bundles",
             !.candidates = IF job.replay = "agent" THEN <<>> ELSE Candidates[job.replay][Bundle]]
    BY <1>3 DEF ScoreCandidates
  <2>2. /\ DOMAIN job' = DOMAIN job
        /\ job'.command = job.command /\ job'.replay = job.replay
        /\ job'.validated = job.validated /\ job'.extracted = job.extracted
        /\ job'.registered = job.registered /\ job'.at = job.at /\ job'.step = "bundles"
        /\ job'.candidates = IF job.replay = "agent" THEN <<>> ELSE Candidates[job.replay][Bundle]
    BY <1>1, <2>1 DEF JobShape
  <2>3. /\ Bundles' = Bundles /\ Bundle' = Bundle
        /\ DOMAIN Bundles = 1 .. Len(Bundles) /\ Len(Bundles) \in Nat
    BY <2>1, <2>2, SameBundles, BundlesAreKnown DEF Bundle
  <2>4. sweep' = "begin"
    BY <2>1 DEF Call
  <2>5. JobProgress'
    BY <1>1, <2>1, <2>2, <2>3, <2>4 DEF JobProgress, JobShape, Replays
  <2>6. StepOfCommand'
    BY <1>1, <2>2 DEF StepOfCommand, PipelineSteps
  <2>7. JobInv'
    BY <1>1, <2>1, <2>2, <2>5, <2>6, JobGoesOn DEF JobShape, JobSteps
  <2> QED BY <1>1, <2>1, <2>7, GraphIsOfElements
<1> QED BY <1>2, <1>3

LEMMA ReplayRaisesInv == ASSUME JobInv, ReplayRaises PROVE JobInv'
<1>1. /\ job # Idle /\ job.step = "bundles" /\ job.at \in DOMAIN Bundles /\ JobProgress /\ Fail
      /\ sweep' = "idle"
  BY DEF ReplayRaises, AtBundle, JobInv, Forget
<1> QED BY <1>1, FailInv DEF JobProgress

LEMMA MinimizeInv ==
  ASSUME JobInv, Minimize PROVE JobInv' /\ MinimizerStep
<1>1. MinimizerStep
  BY DEF Minimize, MinimizerStep
<1>2. sweep # "idle" /\ sweep' # "idle"
  BY <1>1 DEF MinimizerStep, BeginSweep, EndSweep, StopSmall, Accept, Reject
<1>3. Bundles' = Bundles /\ Bundle' = Bundle /\ corpus' = corpus /\ job' = job
  BY DEF Bundles, Bundle, Minimize
<1> QED BY <1>1, <1>2, <1>3 DEF JobInv, JobShape, StepOfCommand, JobProgress

LEMMA WritePackageInv == ASSUME JobInv, WritePackage PROVE JobInv'
<1>1. /\ job # Idle /\ job.step = "bundles" /\ job.at \in DOMAIN Bundles /\ sweep # "idle"
      /\ JobShape /\ StepOfCommand /\ JobProgress /\ sweep' = "idle" /\ corpus' = corpus
  BY DEF WritePackage, AtBundle, JobInv, Forget
<1>2. job' = [job EXCEPT !.extracted = @ + 1, !.at = @ + 1, !.step = NextStep, !.candidates = <<>>]
  BY DEF WritePackage
<1>3. /\ DOMAIN job' = DOMAIN job
      /\ job'.command = job.command /\ job'.replay = job.replay
      /\ job'.validated = job.validated /\ job'.extracted = job.extracted + 1
      /\ job'.registered = job.registered /\ job'.at = job.at + 1 /\ job'.step = NextStep
      /\ job'.candidates = <<>>
  BY <1>1, <1>2 DEF JobShape
<1>4. Bundles' = Bundles /\ DOMAIN Bundles = 1 .. Len(Bundles) /\ Len(Bundles) \in Nat
  BY <1>1, <1>3, SameBundles, BundlesAreKnown
<1>5. NextStep \in {"register", "bundles"}
  BY DEF NextStep
<1>6. JobProgress'
  BY <1>1, <1>3, <1>4, <1>5 DEF JobProgress, JobShape
<1>7. StepOfCommand'
  BY <1>1, <1>3 DEF StepOfCommand, PipelineSteps, NextStep
<1> QED BY <1>1, <1>3, <1>5, <1>6, <1>7, JobGoesOn DEF JobShape, JobSteps

\* Past its bundles a job has no minimizer.
LEMMA BundlesDoneIsIdle ==
  ASSUME JobInv, BundlesDone PROVE sweep = "idle"
BY BundlesAreKnown DEF JobInv, BundlesDone, JobProgress

LEMMA EndIngestInv == ASSUME JobInv, EndIngest PROVE JobInv'
BY BundlesDoneIsIdle, JobEnds DEF EndIngest, EndJob, minimizer

LEMMA StartPublishingInv == ASSUME JobInv, StartPublishing PROVE JobInv'
<1>1. /\ job # Idle /\ sweep = "idle" /\ sweep' = "idle" /\ corpus' = corpus
      /\ job.command = "ingest-publish" /\ JobShape /\ StepOfCommand /\ JobProgress
  BY BundlesDoneIsIdle DEF StartPublishing, BundlesDone, JobInv, minimizer
<1>2. CASE job' = Idle
  BY <1>1, <1>2, JobEnds
<1>3. CASE job' = [job EXCEPT !.step = "publish", !.at = 1]
  <2>1. /\ DOMAIN job' = DOMAIN job
        /\ job'.command = job.command /\ job'.replay = job.replay
        /\ job'.validated = job.validated /\ job'.extracted = job.extracted
        /\ job'.registered = job.registered /\ job'.at = 1 /\ job'.step = "publish"
        /\ job'.candidates = job.candidates
    BY <1>1, <1>3 DEF JobShape
  <2>2. Bundles' = Bundles
    BY <1>1, <2>1, SameBundles
  <2>3. JobProgress'
    BY <1>1, <2>1, <2>2 DEF JobProgress, JobShape, FileNames
  <2>4. StepOfCommand'
    BY <1>1, <2>1 DEF StepOfCommand, PipelineSteps
  <2> QED BY <1>1, <2>1, <2>3, <2>4, JobGoesOn DEF JobShape, JobSteps
<1> QED BY <1>2, <1>3 DEF StartPublishing, EndJob

LEMMA PublishFileInv == ASSUME JobInv, PublishFile PROVE JobInv'
<1>1. /\ job # Idle /\ sweep = "idle" /\ sweep' = "idle" /\ corpus' = corpus
      /\ job.step = "publish" /\ job.at \in DOMAIN FileNames
      /\ JobShape /\ StepOfCommand /\ JobProgress
  BY DEF PublishFile, JobInv, minimizer
<1>2. \/ job' = [job EXCEPT !.at = @ + 1]
      \/ \E ok \in BOOLEAN :
           job' = [job EXCEPT !.at = @ + 1, !.registered = IF ok THEN 1 ELSE @]
  BY DEF PublishFile
<1>3. /\ DOMAIN job' = DOMAIN job
      /\ job'.command = job.command /\ job'.replay = job.replay
      /\ job'.validated = job.validated /\ job'.extracted = job.extracted
      /\ job'.registered \in {0, 1} /\ job'.at = job.at + 1 /\ job'.step = job.step
      /\ job'.candidates = job.candidates
  BY <1>1, <1>2 DEF JobShape
<1>4. Bundles' = Bundles
  BY <1>1, <1>3, SameBundles
<1>5. JobProgress'
  BY <1>1, <1>3, <1>4 DEF JobProgress, JobShape, FileNames
<1>6. StepOfCommand'
  BY <1>1, <1>3 DEF StepOfCommand, PipelineSteps
<1> QED BY <1>1, <1>3, <1>5, <1>6, JobGoesOn DEF JobShape, JobSteps

LEMMA EndPublishingInv == ASSUME JobInv, EndPublishing PROVE JobInv'
BY JobEnds DEF EndPublishing, EndJob, minimizer, JobInv

\* A step of a job that has no minimizer, to a step of the pipeline.
LEMMA PipelineGoesOn ==
  ASSUME JobInv, job # Idle, job.step \in PipelineSteps \cup {"register"},
         job.command = "run-pipeline", UNCHANGED <<minimizer, corpus>>, NEW s \in PipelineSteps,
         \/ job' = [job EXCEPT !.step = s]
         \/ job' = [job EXCEPT !.step = s, !.registered = 1]
  PROVE  JobInv'
<1>1. sweep = "idle" /\ sweep' = "idle" /\ JobShape /\ StepOfCommand /\ JobProgress
  BY DEF JobInv, minimizer, PipelineSteps
<1>2. /\ DOMAIN job' = DOMAIN job
      /\ job'.command = job.command /\ job'.replay = job.replay
      /\ job'.validated = job.validated /\ job'.extracted = job.extracted
      /\ job'.registered \in {0, 1} /\ job'.at = job.at /\ job'.step = s
      /\ job'.candidates = job.candidates
  BY <1>1 DEF JobShape
<1>3. Bundles' = Bundles
  BY <1>2, SameBundles
<1>4. JobProgress'
  BY <1>1, <1>2, <1>3 DEF JobProgress, JobShape, PipelineSteps
<1>5. StepOfCommand'
  BY <1>1, <1>2 DEF StepOfCommand, PipelineSteps
<1> QED BY <1>1, <1>2, <1>4, <1>5, JobGoesOn DEF JobShape, JobSteps

LEMMA PublishOneInv == ASSUME JobInv, PublishOne PROVE JobInv'
<1>1. /\ job # Idle /\ job.step = "register" /\ UNCHANGED <<minimizer, corpus>>
      /\ \/ job.command = "run-pipeline" /\ job' = [job EXCEPT !.step = "assess", !.registered = 1]
         \/ job' = Idle
  BY DEF PublishOne, EndJob
<1>2. "assess" \in PipelineSteps
  BY DEF PipelineSteps
<1>3. sweep' = "idle"
  BY <1>1 DEF JobInv, minimizer
<1>4. CASE job.command = "run-pipeline" /\ job' = [job EXCEPT !.step = "assess", !.registered = 1]
  BY <1>1, <1>2, <1>4, PipelineGoesOn
<1>5. CASE job' = Idle
  BY <1>1, <1>3, <1>5, JobEnds
<1> QED BY <1>1, <1>4, <1>5

LEMMA CrashInv == ASSUME JobInv, Crash PROVE JobInv'
BY JobEnds DEF Crash, Forget

\* A step of the pipeline goes to the next one, or ends the job.
LEMMA PipelineStepMoves ==
  ASSUME PipelineStep
  PROVE  /\ job # Idle /\ job.step \in PipelineSteps
         /\ UNCHANGED <<minimizer, corpus, files, registry>>
         /\ \/ job' = Idle
            \/ \E s \in PipelineSteps : job' = [job EXCEPT !.step = s]
BY DEF PipelineStep, PipelineAssesses, PipelineAggregates, PipelineRunsConsortium,
       PipelineProbesHooks, PipelineSummarizes, PipelineReads, PipelineIn, Goes, Raises, EndJob,
       PipelineSteps

LEMMA PipelineStepInv == ASSUME JobInv, PipelineStep PROVE JobInv'
<1>1. /\ job # Idle /\ job.step \in PipelineSteps /\ UNCHANGED <<minimizer, corpus>>
      /\ \/ job' = Idle
         \/ \E s \in PipelineSteps : job' = [job EXCEPT !.step = s]
  BY PipelineStepMoves
<1>2. job.command = "run-pipeline" /\ sweep' = "idle"
  BY <1>1 DEF JobInv, StepOfCommand, minimizer, PipelineSteps
<1>3. CASE job' = Idle
  BY <1>1, <1>2, <1>3, JobEnds
<1>4. ASSUME NEW s \in PipelineSteps, job' = [job EXCEPT !.step = s] PROVE JobInv'
  BY <1>1, <1>2, <1>4, PipelineGoesOn
<1> QED BY <1>1, <1>3, <1>4

\* A service a job replays with is one of those the model has.
LEMMA ServicesAreReplays ==
  ASSUME NEW urls, NEW services \in ReplayServices(urls) PROVE services \subseteq Replays
BY DEF ReplayServices, Replays

LEMMA StartJobInv ==
  ASSUME JobInv, NEW command \in JobCommands,
         NEW services \in ByProfile \cup ByUrlOrProfile \cup {{"structural"}},
         NEW extract, StartJob(command, services, extract)
  PROVE  JobInv' /\ UNCHANGED minimizer
<1>1. job = Idle /\ sweep = "idle" /\ sweep' = "idle" /\ UNCHANGED <<minimizer, corpus>>
  BY DEF StartJob, AtPrompt, Command, Answer, JobInv, minimizer
<1>2. CASE job' = job
  BY <1>1, <1>2, JobEnds
<1>3. ASSUME NEW replay \in services,
             job' = [command |-> command, replay |-> replay, extract |-> extract, step |-> "bundles",
                     at |-> 1, validated |-> 0, extracted |-> 0, registered |-> 0, candidates |-> <<>>]
      PROVE  JobInv'
  <2>1. replay \in Replays
    BY <1>3, ServicesAreReplays DEF ByProfile, ByUrlOrProfile, Replays
  <2>2. JobShape'
    BY <1>3, <2>1 DEF JobShape, JobSteps
  <2>3. StepOfCommand'
    BY <1>3 DEF StepOfCommand, PipelineSteps
  <2>4. Len(Bundles') \in Nat
    <3>1. corpus' \in Seq(AllBundles)
      BY <1>1, CorporaAssumption DEF JobInv
    <3> QED BY <3>1, LenProperties DEF Bundles
  <2>5. JobProgress'
    BY <1>1, <1>3, <2>4 DEF JobProgress
  <2> QED BY <1>1, <1>3, <2>2, <2>3, <2>5 DEF JobInv
<1> QED BY <1>1, <1>2, <1>3 DEF StartJob, Command, Answer

\* A command of one step leaves the job and the minimizer alone.
Instant == job = Idle /\ report = NoReport /\ UNCHANGED <<minimizer, corpus, job>>

LEMMA FileCommandsAreInstant ==
  ASSUME NEW f \in Files, FileCommands(f) PROVE Instant
<1>1. CASE \/ package_cfi(f) \/ PackageLibraryCFI(f) \/ run_release_gate(f) \/ register_remote(f)
           \/ fetch_remote(f)
  BY <1>1 DEF package_cfi, PackageLibraryCFI, run_release_gate, register_remote, fetch_remote,
              FetchFails, Command, Answer, AtPrompt, Instant
<1>2. ASSUME NEW domain \in RecipientDomains,
             \/ pull_and_compile(f, domain) \/ compile_local(f, domain)
             \/ mitigate_local(f, domain) \/ evaluate_local(f, domain)
      PROVE  Instant
  BY <1>2 DEF pull_and_compile, compile_local, mitigate_local, evaluate_local,
              FetchFails, Command, Answer, AtPrompt, Instant
<1> QED BY <1>1, <1>2 DEF FileCommands

LEMMA EvaluationsAreInstant == ASSUME Evaluations PROVE Instant
<1>1. CASE FieldStudyRuns \/ RunHarness \/ RunBenchmarks \/ golden_path \/ verify_pipeline_matrix
  BY <1>1 DEF FieldStudyRuns, RunHarness, RunBenchmarks, golden_path, verify_pipeline_matrix,
              Command, Answer, AtPrompt, Instant
<1>2. CASE consortium_pilot \/ RunRedTeam
  BY <1>2 DEF consortium_pilot, RunRedTeam, Round, Command, Answer, AtPrompt, Instant
<1>3. CASE verify_cross_boundary \/ verify_end_to_end \/ verify_federation_workflow
  BY <1>3 DEF verify_cross_boundary, verify_end_to_end, verify_federation_workflow,
              Verification, Command, Answer, AtPrompt, Instant
<1>4. ASSUME NEW domain \in RecipientDomains, FieldMitigation(domain) PROVE Instant
  BY <1>4 DEF FieldMitigation, Command, Answer, AtPrompt, Instant
<1> QED BY <1>1, <1>2, <1>3, <1>4 DEF Evaluations

LEMMA CommandsAreInstant == ASSUME Commands PROVE StartJobs \/ Instant
<1>1. CASE remote_cfi_status \/ probe_hooks
  BY <1>1 DEF remote_cfi_status, probe_hooks, Command, Answer, AtPrompt, Instant
<1>2. CASE \E domain \in RecipientDomains : assess_remote(domain) \/ contribute_federation(domain)
  BY <1>2 DEF assess_remote, contribute_federation, Command, Answer, AtPrompt, Instant
<1>3. CASE RunInProcess \/ remote_consortium_round \/ run_consortium_pilot \/ simulate_aggregate
  BY <1>3 DEF RunInProcess, remote_consortium_round, run_consortium_pilot, simulate_aggregate,
              Round, Command, Answer, AtPrompt, Instant
<1> QED BY <1>1, <1>2, <1>3, FileCommandsAreInstant, EvaluationsAreInstant DEF Commands

LEMMA StartJobsInv == ASSUME JobInv, StartJobs PROVE JobInv' /\ UNCHANGED minimizer
<1>1. PICK command \in JobCommands, services \in ByProfile \cup ByUrlOrProfile \cup {{"structural"}},
           extract \in BOOLEAN : StartJob(command, services, extract)
  BY DEF StartJobs, ingest_corpus_local, ingest_publish_corpus, extract_from_incident,
         publish_remote, run_pipeline_remote, JobCommands
<1> QED BY <1>1, StartJobInv

-----------------------------------------------------------------------------
(* The minimizer inside the jobs.                                          *)

LEMMA WorkflowInitJob == ASSUME Init PROVE JobInv /\ MinimizerInit
BY DEF Init, ContributorInit, MinimizerInit, JobInv

LEMMA StepCallsMinimizer ==
  ASSUME JobInv, [Next]_vars PROVE JobInv' /\ [MinimizerNext]_minimizer
<1>1. CASE UNCHANGED vars
  BY <1>1, JobUnchanged DEF vars, minimizer
<1>2. CASE LoadBundle
  BY <1>2, LoadBundleInv DEF LoadBundle
<1>3. CASE ScoreCandidates
  BY <1>3, ScoreCandidatesInv DEF MinimizerNext
<1>4. CASE ReplayRaises
  BY <1>4, ReplayRaisesInv DEF ReplayRaises, MinimizerNext
<1>5. CASE Minimize
  BY <1>5, MinimizeInv DEF MinimizerNext
<1>6. CASE WritePackage
  BY <1>6, WritePackageInv DEF WritePackage, MinimizerNext
<1>7. CASE EndIngest \/ StartPublishing \/ PublishFile \/ EndPublishing \/ PublishOne
  BY <1>7, EndIngestInv, StartPublishingInv, PublishFileInv, EndPublishingInv, PublishOneInv
     DEF EndIngest, StartPublishing, PublishFile, EndPublishing, PublishOne
<1>8. CASE Crash
  BY <1>8, CrashInv DEF Crash, MinimizerNext
<1>9. CASE StartJobs
  BY <1>9, StartJobsInv
<1>10. CASE Instant
  BY <1>10, JobUnchanged DEF Instant, minimizer
<1>11. CASE ReadReport \/ OtherContributor
  BY <1>11, JobUnchanged DEF ReadReport, OtherContributor, minimizer
<1>12. CASE PipelineStep
  BY <1>12, PipelineStepInv, PipelineStepMoves
<1> QED BY <1>1, <1>2, <1>3, <1>4, <1>5, <1>6, <1>7, <1>8, <1>9, <1>10, <1>11, <1>12,
           CommandsAreInstant DEF Next, JobStep

LEMMA JobsStayInOrder == Spec => []JobInv
<1>1. Init => JobInv
  BY WorkflowInitJob
<1>2. JobInv /\ [Next]_vars => JobInv'
  BY StepCallsMinimizer
<1> QED BY <1>1, <1>2, PTL DEF Spec

\* The command line implements the minimizer's specification: a job calls it
\* with the nodes of a graph, only when it is not at work, and every command,
\* failure and crash leaves it alone or drops it (extract_from_bundle,
\* typed_causal_core_minimization).
THEOREM JobsImplementMinimizer == Spec => MinimizerSpec
<1>1. Init => MinimizerInit
  BY WorkflowInitJob
<1>2. JobInv /\ [Next]_vars => [MinimizerNext]_minimizer
  BY StepCallsMinimizer
<1> QED BY <1>1, <1>2, JobsStayInOrder, PTL DEF Spec, MinimizerSpec

\* So the core a job extracts is locally minimal, whatever the live agent of
\* its replay answers.
THEOREM ExtractedCoresAreMinimal == Spec => []LocallyMinimal
BY JobsImplementMinimizer, CoreIsLocallyMinimal, PTL

LEMMA MinimizerInvHolds == MinimizerSpec => []MinimizerInv
<1>1. MinimizerInit => MinimizerInv
  BY InitInv
<1>2. MinimizerInv /\ [MinimizerNext]_minimizer => MinimizerInv'
  BY StepInv
<1> QED BY <1>1, <1>2, PTL DEF MinimizerSpec

LEMMA JobsKeepMinimizerInv == Spec => []MinimizerInv
BY JobsImplementMinimizer, MinimizerInvHolds, PTL

-----------------------------------------------------------------------------
(* The pipeline's charge.                                                  *)

\* A pipeline that has not come to its charge found the registry empty, so
\* nobody was charged before it; one past it has charged.
ChargeInv ==
  /\ charged \in {0, 1} /\ charged =< TotalEpsilon
  /\ charged = 1 => registry # Absent
  /\ job # Idle /\ job.step \in {"assess", "aggregate"} => charged = 0 /\ registry # Absent
  /\ job # Idle /\ job.step \in {"consortium", "hooks", "audit"} => charged = 1
  /\ report.command = "run-pipeline" /\ report.exit = 0 => charged = 1

\* A call of the registry keeps what it has.
LEMMA RegisterKeeps ==
  ASSUME NEW package, NEW ok \in BOOLEAN, RegisterCall(package, ok), package # Absent
  PROVE  /\ registry # Absent => registry' = registry
         /\ ok => registry = Absent /\ registry' = package
         /\ registry' \in {registry, package}
BY DEF RegisterCall

LEMMA GoldenIsPresent == GoldenPackage # Absent
BY DEF GoldenPackage, sign_package, Package, Absent

\* What the report of a command of one step may say.
Told(r) ==
  /\ r.exit \in {0, 1}
  /\ r.command # "none"
  /\ r.command = "run-pipeline" => r.exit = 1
  /\ r.command = "harness" => r.result \in HarnessResults
  /\ r.command = "redteam" => r.results \in RedTeamReports
  /\ r.command = "contribute" /\ r.exit = 0 =>
       \E package, domain :
         /\ r.contribution = recipient_evaluate_and_contribute(package, domain,
              CohortManifest(package.cfi.id, 1), required_mapping_roles(package.cfi))
         /\ ~ r.contribution.abstained
  /\ r.command = "cross-boundary" /\ CrossBoundaryGoes => r.exit = 0
  /\ r.command = "end-to-end" /\ EndToEndGoes => r.exit = 0
  /\ r.command = "federation-workflow" /\ FederationGoes => r.exit = 0

LEMMA FileCommandsAreTold ==
  ASSUME NEW f \in Files, FileCommands(f) PROVE Told(report')
<1>1. CASE package_cfi(f) \/ PackageLibraryCFI(f) \/ run_release_gate(f)
  <2>1. \E command \in {"package", "library", "gate"}, exit \in {0, 1} : report' = Report(command, exit)
    BY <1>1 DEF package_cfi, PackageLibraryCFI, run_release_gate, Command, Answer
  <2> QED BY <2>1 DEF Told, Report
<1>2. CASE register_remote(f) \/ fetch_remote(f)
  <2>1. \E command \in {"register", "fetch"}, exit \in {0, 1} : report' = Report(command, exit)
    BY <1>2 DEF register_remote, fetch_remote, FetchFails, Command, Answer
  <2> QED BY <2>1 DEF Told, Report
<1>3. ASSUME NEW domain \in RecipientDomains,
             \/ pull_and_compile(f, domain) \/ compile_local(f, domain)
             \/ mitigate_local(f, domain) \/ evaluate_local(f, domain)
      PROVE  Told(report')
  <2>1. \E command \in {"pull", "compile", "mitigate", "evaluate"}, exit \in {0, 1} :
          report' = Report(command, exit)
    BY <1>3 DEF pull_and_compile, compile_local, mitigate_local, evaluate_local,
                FetchFails, Command, Answer
  <2> QED BY <2>1 DEF Told, Report
<1> QED BY <1>1, <1>2, <1>3 DEF FileCommands

LEMMA EvaluationsAreTold == ASSUME Evaluations PROVE Told(report')
<1>1. CASE RunHarness \/ RunRedTeam
  BY <1>1 DEF RunHarness, RunRedTeam, Answer, Told
<1>2. CASE FieldStudyRuns \/ RunBenchmarks \/ verify_pipeline_matrix \/ consortium_pilot
  BY <1>2 DEF FieldStudyRuns, RunBenchmarks, verify_pipeline_matrix, consortium_pilot,
              Round, Command, Report, Answer, Told
<1>3. CASE golden_path
  <2>1. \E exit \in {0, 1} : report' = Report("golden-path", exit)
    BY <1>3 DEF golden_path, GoldenPathExits, Command, Answer
  <2> QED BY <2>1 DEF Told, Report
<1>4. CASE verify_cross_boundary \/ verify_end_to_end \/ verify_federation_workflow
  <2>1. \/ report' = Report("cross-boundary", IF CrossBoundaryGoes THEN 0 ELSE 1)
        \/ report' = Report("end-to-end", IF EndToEndGoes THEN 0 ELSE 1)
        \/ report' = Report("federation-workflow", IF FederationGoes THEN 0 ELSE 1)
    BY <1>4 DEF verify_cross_boundary, verify_end_to_end, verify_federation_workflow,
                Verification, Command, Answer
  <2> QED BY <2>1 DEF Told, Report
<1>5. ASSUME NEW domain \in RecipientDomains, FieldMitigation(domain) PROVE Told(report')
  BY <1>5 DEF FieldMitigation, Answer, Told
<1> QED BY <1>1, <1>2, <1>3, <1>4, <1>5 DEF Evaluations

LEMMA ContributeIsTold ==
  ASSUME NEW domain, contribute_federation(domain) PROVE Told(report')
<1>1. CASE report' = Report("contribute", 1)
  BY <1>1 DEF Told, Report
<1>2. CASE report' # Report("contribute", 1)
  <2> DEFINE sent == recipient_evaluate_and_contribute(registry, domain,
                       CohortManifest(registry.cfi.id, 1), required_mapping_roles(registry.cfi))
  <2>1. /\ ~ sent.abstained
        /\ report' = [command |-> "contribute", exit |-> 0, contribution |-> sent,
                      released |-> Len(<<sent>>) >= MinSlice]
    BY <1>2 DEF contribute_federation, Command, Answer
  <2> HIDE DEF sent
  <2>2. /\ report'.command = "contribute" /\ report'.exit = 0
        /\ report'.contribution = sent /\ ~ report'.contribution.abstained
    BY <2>1
  <2> QED BY <2>2 DEF Told, sent
<1> QED BY <1>1, <1>2

LEMMA CommandsAreTold ==
  ASSUME Commands PROVE StartJobs \/ (Instant /\ Told(report'))
<1>1. CASE remote_cfi_status \/ probe_hooks
  <2>1. \E command \in {"status", "probe-hooks"}, exit \in {0, 1} : report' = Report(command, exit)
    BY <1>1 DEF remote_cfi_status, probe_hooks, ProbeExits, Command, Answer
  <2> QED BY <1>1, <2>1, CommandsAreInstant DEF Commands, Told, Report
<1>2. ASSUME NEW domain \in RecipientDomains, assess_remote(domain) PROVE Told(report')
  BY <1>2 DEF assess_remote, Command, Report, Answer, Told
<1>3. ASSUME RunInProcess PROVE Told(report')
  <2>1. \E exit \in {0, 1} : report' = Report("run-inprocess", exit)
    BY <1>3 DEF RunInProcess, InProcessExits, Command, Answer
  <2> QED BY <2>1 DEF Told, Report
<1>4. ASSUME remote_consortium_round \/ run_consortium_pilot \/ simulate_aggregate
      PROVE  Told(report')
  BY <1>4 DEF remote_consortium_round, run_consortium_pilot, simulate_aggregate,
              Round, Command, Report, Answer, Told
<1> QED BY <1>1, <1>2, <1>3, <1>4, FileCommandsAreTold, EvaluationsAreTold, ContributeIsTold,
           CommandsAreInstant DEF Commands

\* What a step of a job does to the registry and the report.
LEMMA JobStepReports ==
  ASSUME JobInv, JobStep
  PROVE  /\ registry # Absent => registry' = registry
         /\ \/ report' = report
            \/ job' = Idle /\ \E exit \in {0, 1} : report' = Report(job.command, exit)
         /\ report' # report /\ job.command = "run-pipeline" => report'.exit = 1
         /\ job' # Idle /\ job'.step \in PipelineSteps =>
              job.command = "run-pipeline" /\ job'.step = "assess" /\ registry = Absent /\ registry' # Absent
<1>1. /\ job # Idle /\ JobShape /\ StepOfCommand
      /\ sweep # "idle" => job.step = "bundles"
  BY DEF JobStep, LoadBundle, ScoreCandidates, ReplayRaises, Minimize, WritePackage, EndIngest,
         StartPublishing, PublishFile, EndPublishing, PublishOne, AtBundle, BundlesDone, JobInv
<1>2. ASSUME Fail, job.step \in {"bundles", "score"}
      PROVE  /\ registry' = registry
             /\ report' = report \/ (job' = Idle /\ report' = Report(job.command, 1))
             /\ job' # Idle => job'.step = "bundles"
  BY <1>1, <1>2 DEF Fail, EndJob, JobShape
<1>3. CASE LoadBundle \/ ScoreCandidates \/ ReplayRaises
  <2>1. job.step \in {"bundles", "score"}
    BY <1>3 DEF LoadBundle, ScoreCandidates, ReplayRaises, AtBundle
  <2>2. \/ Fail
        \/ /\ registry' = registry /\ report' = report
           /\ job'.step \in {"bundles", "score"}
    BY <1>1, <1>3 DEF LoadBundle, ScoreCandidates, ReplayRaises, AtBundle, JobShape
  <2> QED BY <1>2, <2>1, <2>2 DEF Report, PipelineSteps
<1>4. CASE Minimize \/ WritePackage
  BY <1>1, <1>4 DEF Minimize, WritePackage, AtBundle, JobShape, NextStep, PipelineSteps
<1>5. CASE EndIngest
  BY <1>1, <1>5 DEF EndIngest, EndJob, Report
<1>6. CASE StartPublishing
  BY <1>1, <1>6 DEF StartPublishing, EndJob, Report, JobShape, PipelineSteps
<1>7. CASE PublishFile
  <2>1. registry # Absent => registry' = registry
    BY <1>7 DEF PublishFile, RegisterCall
  <2>2. report' = report /\ job'.step = "publish"
    BY <1>1, <1>7 DEF PublishFile, JobShape
  <2> QED BY <2>1, <2>2 DEF PipelineSteps
<1>8. CASE EndPublishing
  BY <1>1, <1>8 DEF EndPublishing, EndJob, Report, StepOfCommand
<1>9. CASE PublishOne
  <2> DEFINE package == IF Keeps THEN files["invariant_id"] ELSE GoldenPackage
  <2>1. PICK ok \in BOOLEAN :
          /\ RegisterCall(package, ok)
          /\ IF ok /\ job.command = "run-pipeline"
             THEN job' = [job EXCEPT !.step = "assess", !.registered = 1] /\ UNCHANGED report
             ELSE EndJob(IF ok THEN 0 ELSE 1)
    BY <1>9 DEF PublishOne
  <2>2. registry # Absent => registry' = registry
    BY <2>1 DEF RegisterCall
  <2>3. CASE ok /\ job.command = "run-pipeline"
    <3>1. package # Absent
      BY <2>3, GoldenIsPresent DEF Keeps
    <3>2. registry = Absent /\ registry' # Absent
      BY <2>1, <2>3, <3>1 DEF RegisterCall
    <3>3. job'.step = "assess" /\ report' = report
      BY <1>1, <2>1, <2>3 DEF JobShape
    <3> QED BY <2>3, <3>2, <3>3
  <2>4. CASE ~ (ok /\ job.command = "run-pipeline")
    BY <2>1, <2>2, <2>4 DEF EndJob, Report
  <2> QED BY <2>3, <2>4
<1> QED BY <1>3, <1>4, <1>5, <1>6, <1>7, <1>8, <1>9 DEF JobStep

\* No step changes what the registry has.
LEMMA RegistryStays ==
  ASSUME JobInv, [Next]_vars, registry # Absent PROVE registry' = registry
<1>1. CASE UNCHANGED vars
  BY <1>1 DEF vars
<1>2. CASE JobStep
  BY <1>2, JobStepReports
<1>3. CASE Crash \/ ReadReport \/ OtherContributor
  BY <1>3 DEF Crash, ReadReport, OtherContributor
<1>4. CASE PipelineStep
  BY <1>4, PipelineStepMoves
<1>5. CASE StartJobs
  BY <1>5 DEF StartJobs, ingest_corpus_local, ingest_publish_corpus, extract_from_incident,
              publish_remote, run_pipeline_remote, StartJob, Command, Answer
<1>6. ASSUME NEW f \in Files, FileCommands(f) PROVE registry' = registry
  BY <1>6 DEF FileCommands, package_cfi, PackageLibraryCFI, run_release_gate, register_remote,
              fetch_remote, pull_and_compile, compile_local, mitigate_local, evaluate_local,
              FetchFails, RegisterCall, Command, Answer
<1>7. ASSUME NEW domain \in RecipientDomains, assess_remote(domain) \/ contribute_federation(domain)
      PROVE  registry' = registry
  BY <1>7 DEF assess_remote, contribute_federation, Command, Answer
<1>8. CASE \/ remote_cfi_status \/ probe_hooks
           \/ RunInProcess \/ remote_consortium_round \/ run_consortium_pilot \/ simulate_aggregate
  BY <1>8 DEF remote_cfi_status, probe_hooks, RunInProcess, remote_consortium_round,
              run_consortium_pilot, simulate_aggregate, Round, Command, Answer
<1>9. CASE Evaluations
  BY <1>9 DEF Evaluations, FieldStudyRuns, RunHarness, RunBenchmarks, golden_path,
              verify_pipeline_matrix, consortium_pilot, RunRedTeam, verify_cross_boundary,
              verify_end_to_end, verify_federation_workflow, Verification, FieldMitigation,
              Round, Command, Answer
<1> QED BY <1>1, <1>2, <1>3, <1>4, <1>5, <1>6, <1>7, <1>8, <1>9 DEF Next, Commands

LEMMA ChargeInit == ASSUME Init PROVE ChargeInv
BY EpsilonAssumption DEF Init, ContributorInit, ChargeInv, NoReport

LEMMA StartJobsReport ==
  ASSUME JobInv, StartJobs
  PROVE  /\ report' = report \/ \E command \in JobCommands : report' = Report(command, 1)
         /\ job' # Idle => job'.step = "bundles"
         /\ UNCHANGED <<corpus, files, registry>>
<1>1. PICK command \in JobCommands, services \in ByProfile \cup ByUrlOrProfile \cup {{"structural"}},
           extract \in BOOLEAN : StartJob(command, services, extract)
  BY DEF StartJobs, ingest_corpus_local, ingest_publish_corpus, extract_from_incident,
         publish_remote, run_pipeline_remote, JobCommands
<1> QED BY <1>1 DEF StartJob, Command, Answer, AtPrompt

LEMMA ChargeStep ==
  ASSUME JobInv, JobInv', ChargeInv, [Next]_vars PROVE ChargeInv'
<1>1. registry # Absent => registry' = registry
  BY RegistryStays
<1>2. CASE UNCHANGED vars
  BY <1>2 DEF vars, ChargeInv
<1>3. CASE JobStep /\ UNCHANGED charged
  <2>1. report'.command = "run-pipeline" /\ report'.exit = 0 => charged' = 1
    BY <1>3, JobStepReports DEF ChargeInv, Report
  <2>2. job' # Idle => job'.step \notin {"aggregate", "consortium", "hooks", "audit"}
    BY <1>3, JobStepReports DEF PipelineSteps
  <2>3. job' # Idle /\ job'.step = "assess" => charged' = 0 /\ registry' # Absent
    BY <1>3, JobStepReports DEF PipelineSteps, ChargeInv
  <2> QED BY <1>1, <1>3, <2>1, <2>2, <2>3 DEF ChargeInv
<1>4. CASE Crash /\ UNCHANGED charged
  BY <1>1, <1>4 DEF Crash, ChargeInv
<1>5. CASE (ReadReport \/ OtherContributor) /\ UNCHANGED charged
  BY <1>1, <1>5 DEF ReadReport, OtherContributor, NoReport, ChargeInv
<1>6. CASE StartJobs /\ UNCHANGED charged
  BY <1>1, <1>6, StartJobsReport DEF ChargeInv, Report
<1>7. CASE Instant /\ Told(report') /\ UNCHANGED charged
  BY <1>1, <1>7 DEF Instant, Told, ChargeInv
<1>8. CASE PipelineStep
  <2>1. job # Idle /\ JobShape /\ StepOfCommand /\ registry' = registry
    BY <1>8, PipelineStepMoves DEF JobInv
  <2>2. CASE PipelineAssesses
    BY <2>1, <2>2 DEF PipelineAssesses, PipelineReads, PipelineIn, Goes, Raises, EndJob, Report,
                      JobShape, ChargeInv
  <2>3. CASE PipelineAggregates
    BY <2>1, <2>3 DEF PipelineAggregates, Serves, Chargeable, PipelineIn, Goes, Raises, EndJob,
                      Report, JobShape, ChargeInv
  <2>4. CASE PipelineRunsConsortium \/ PipelineProbesHooks
    BY <2>1, <2>4 DEF PipelineRunsConsortium, PipelineProbesHooks, PipelineReads, PipelineIn,
                      Goes, Raises, EndJob, Report, JobShape, ChargeInv
  <2>5. CASE PipelineSummarizes
    BY <2>1, <2>5 DEF PipelineSummarizes, PipelineIn, EndJob, Report, JobShape, ChargeInv
  <2> QED BY <1>8, <2>2, <2>3, <2>4, <2>5 DEF PipelineStep
<1> QED BY <1>2, <1>3, <1>4, <1>5, <1>6, <1>7, <1>8, CommandsAreTold DEF Next

LEMMA ChargeHolds == Spec => []ChargeInv
<1>1. Init => ChargeInv
  BY ChargeInit
<1>2. JobInv /\ JobInv' /\ ChargeInv /\ [Next]_vars => ChargeInv'
  BY ChargeStep
<1> QED BY <1>1, <1>2, JobsStayInOrder, PTL DEF Spec

\* However often a pipeline is tried again, whoever else registered first and
\* wherever it fails, the aggregation service is charged at most once, and a
\* pipeline that ends well was charged and has its package in the registry
\* (run_remote_full_pipeline).
THEOREM PipelineAlwaysChargesOnce == Spec => []PipelineChargesOnce
<1>1. ChargeInv => PipelineChargesOnce
  BY DEF ChargeInv, PipelineChargesOnce, Report
<1> QED BY <1>1, ChargeHolds, PTL

\* Nobody replaces what the registry has: a failed call, a crash, a second
\* publication of the id and every other command leave it.
THEOREM RegistryNeverReplaces == Spec => [][registry # Absent => registry' = registry]_vars
<1>1. JobInv /\ [Next]_vars => [registry # Absent => registry' = registry]_vars
  BY RegistryStays
<1> QED BY <1>1, JobsStayInOrder, PTL DEF Spec

-----------------------------------------------------------------------------
(* Invariants, and what canonicalisation keeps of one.                     *)

Golden(attested) == [build_exception_precedence_cfi EXCEPT !.attested = attested]

LEMMA GoldenIsShaped == CFIShape(build_exception_precedence_cfi)
<1>1. \A k \in DOMAIN GoldenNodes : DOMAIN GoldenNodes[k] = {"id", "type", "role", "extensions"}
  BY DEF GoldenNodes, CFINode
<1>2. \A k \in DOMAIN GoldenEdges :
        DOMAIN GoldenEdges[k] = {"source", "edge_type", "target", "status"}
  BY DEF GoldenEdges, CFIEdge
<1>3. GoldenNodes \in Seq(ToSet(GoldenNodes))
  BY DEF GoldenNodes, ToSet
<1> QED BY <1>1, <1>2, <1>3 DEF CFIShape, build_exception_precedence_cfi

LEMMA GoldenIsValid == model_validate(build_exception_precedence_cfi)
<1>1. \A m \in ToSet(GoldenNodes) : m.type \in NodeType /\ m.role \notin TokenNouns
  BY DEF ToSet, GoldenNodes, CFINode, NodeType, TokenNouns
<1>2. {m.id : m \in ToSet(GoldenNodes)} = {C(0), C(1), R(0), R(1), V0, A0, O0}
  BY DEF ToSet, GoldenNodes, CFINode
<1>3. \A e \in ToSet(GoldenEdges) :
        /\ e.edge_type \in EdgeType /\ e.status \in EdgeStatus
        /\ {e.source, e.target} \subseteq {C(0), C(1), R(0), R(1), V0, A0, O0}
  BY DEF ToSet, GoldenEdges, CFIEdge, EdgeType, EdgeStatus
<1> QED BY <1>1, <1>2, <1>3
        DEF model_validate, ValidEdge, NodesOf, EdgesOf, build_exception_precedence_cfi, DisclosureTier

LEMMA GoldenIsClean ==
  lint_for_release(build_exception_precedence_cfi) = {}
<1>1. \A m \in ToSet(GoldenNodes) : m.role \notin RoleNouns
  BY DEF ToSet, GoldenNodes, CFINode, RoleNouns, TokenNouns
<1> QED BY <1>1 DEF lint_for_release, NodesOf, build_exception_precedence_cfi

\* Another text or attestation changes nothing the linter's nodes or the
\* validator's edges are about.
LEMMA VariantIsValid ==
  ASSUME NEW cfi, DOMAIN cfi = DOMAIN build_exception_precedence_cfi,
         cfi.nodes = build_exception_precedence_cfi.nodes,
         cfi.edges = build_exception_precedence_cfi.edges,
         cfi.tier = "member-only", cfi.text \subseteq Content,
         ~ cfi.free_text, ~ cfi.exact_literals
  PROVE  CFIShape(cfi) /\ model_validate(cfi)
BY GoldenIsShaped, GoldenIsValid DEF CFIShape, model_validate, NodesOf, EdgesOf, DisclosureTier

LEMMA AttestedIsValid ==
  ASSUME NEW attested
  PROVE  /\ CFIShape(Golden(attested)) /\ model_validate(Golden(attested))
         /\ lint_for_release(Golden(attested)) = {} /\ Golden(attested).tier = "member-only"
         /\ Golden(attested).text = {}
<1>1. /\ DOMAIN Golden(attested) = DOMAIN build_exception_precedence_cfi
      /\ Golden(attested).nodes = build_exception_precedence_cfi.nodes
      /\ Golden(attested).edges = build_exception_precedence_cfi.edges
      /\ Golden(attested).tier = "member-only"
      /\ Golden(attested).text = build_exception_precedence_cfi.text
      /\ build_exception_precedence_cfi.text = {}
      /\ ~ Golden(attested).free_text /\ ~ Golden(attested).exact_literals
  BY DEF Golden, build_exception_precedence_cfi
<1>2. lint_for_release(Golden(attested)) = {}
  BY <1>1, GoldenIsClean DEF lint_for_release, NodesOf
<1> HIDE DEF Golden
<1> QED BY <1>1, <1>2, VariantIsValid

LEMMA SmuggledIsValid ==
  ASSUME NEW text \in SUBSET Content
  PROVE  LET cfi == [build_exception_precedence_cfi EXCEPT !.text = @ \cup text]
         IN CFIShape(cfi) /\ model_validate(cfi)
<1> DEFINE cfi == [build_exception_precedence_cfi EXCEPT !.text = @ \cup text]
<1>1. /\ DOMAIN cfi = DOMAIN build_exception_precedence_cfi
      /\ cfi.nodes = build_exception_precedence_cfi.nodes
      /\ cfi.edges = build_exception_precedence_cfi.edges
      /\ cfi.tier = "member-only" /\ ~ cfi.free_text /\ ~ cfi.exact_literals
      /\ cfi.text = {} \cup text
  BY DEF build_exception_precedence_cfi
<1> HIDE DEF cfi
<1> QED BY <1>1, VariantIsValid DEF cfi

LEMMA NodeExcept ==
  ASSUME NEW r, NEW v, DOMAIN r = {"id", "type", "role", "extensions"}
  PROVE  /\ LET q == [r EXCEPT !.id = v]
            IN /\ DOMAIN q = DOMAIN r /\ q.id = v /\ q.type = r.type /\ q.role = r.role
               /\ q.extensions = r.extensions
         /\ LET q == [r EXCEPT !.extensions = v]
            IN q.id = r.id /\ q.type = r.type /\ q.role = r.role /\ q.extensions = v
OBVIOUS

LEMMA EdgeExcept ==
  ASSUME NEW r, NEW v, NEW u, DOMAIN r = {"source", "edge_type", "target", "status"}
  PROVE  LET q == [r EXCEPT !.source = v, !.target = u]
         IN q.source = v /\ q.target = u /\ q.edge_type = r.edge_type /\ q.status = r.status
OBVIOUS

\* What renaming and projecting do to each field.
LEMMA CanonicalFields ==
  ASSUME NEW cfi, CFIShape(cfi)
  PROVE  LET c == canonicalize(cfi)
             map == IdMap(cfi.nodes)
         IN /\ DOMAIN c = DOMAIN cfi
            /\ c.text = cfi.text /\ c.tier = cfi.tier /\ c.free_text = cfi.free_text
            /\ c.controls = cfi.controls /\ c.temporal_constraints = cfi.temporal_constraints
            /\ c.cardinality_constraints = cfi.cardinality_constraints
            /\ c.oracle = cfi.oracle /\ c.exact_literals = cfi.exact_literals
            /\ DOMAIN c.nodes = DOMAIN cfi.nodes /\ DOMAIN c.edges = DOMAIN cfi.edges
            /\ \A k \in DOMAIN cfi.nodes :
                 /\ c.nodes[k].id = Fresh(cfi.nodes, k) /\ c.nodes[k].type = cfi.nodes[k].type
                 /\ c.nodes[k].role = cfi.nodes[k].role
                 /\ c.nodes[k].extensions = cfi.nodes[k].extensions \ {"noun"}
            /\ \A k \in DOMAIN cfi.edges :
                 /\ c.edges[k].source = map[cfi.edges[k].source]
                 /\ c.edges[k].target = map[cfi.edges[k].target]
                 /\ c.edges[k].edge_type = cfi.edges[k].edge_type
                 /\ c.edges[k].status = cfi.edges[k].status
<1> DEFINE map == IdMap(cfi.nodes)
           a == alpha_rename(cfi)
           c == canonicalize(cfi)
           nodes == Renamed(cfi.nodes)
           edges == [k \in DOMAIN cfi.edges |->
                       [cfi.edges[k] EXCEPT !.source = map[@], !.target = map[@]]]
           clean == [k \in DOMAIN a.nodes |-> [a.nodes[k] EXCEPT !.extensions = @ \ {"noun"}]]
<1>1. /\ {"nodes", "edges", "text", "tier", "free_text", "controls", "temporal_constraints",
          "cardinality_constraints", "oracle", "exact_literals"} \subseteq DOMAIN cfi
      /\ \A k \in DOMAIN cfi.nodes : DOMAIN cfi.nodes[k] = {"id", "type", "role", "extensions"}
      /\ \A k \in DOMAIN cfi.edges :
           DOMAIN cfi.edges[k] = {"source", "edge_type", "target", "status"}
  BY DEF CFIShape, build_exception_precedence_cfi
<1>2. a = [cfi EXCEPT !.nodes = nodes, !.edges = edges]
  BY DEF alpha_rename
<1>3. c = [a EXCEPT !.nodes = clean]
  BY DEF canonicalize, vocabulary_project
<1> HIDE DEF map, a, c, nodes, edges, clean
<1>4. /\ DOMAIN a = DOMAIN cfi /\ a.nodes = nodes /\ a.edges = edges
      /\ a.text = cfi.text /\ a.tier = cfi.tier /\ a.free_text = cfi.free_text
      /\ a.controls = cfi.controls /\ a.temporal_constraints = cfi.temporal_constraints
      /\ a.cardinality_constraints = cfi.cardinality_constraints
      /\ a.oracle = cfi.oracle /\ a.exact_literals = cfi.exact_literals
  BY <1>1, <1>2
<1>5. /\ DOMAIN nodes = DOMAIN cfi.nodes
      /\ \A k \in DOMAIN cfi.nodes :
           nodes[k] = [cfi.nodes[k] EXCEPT !.id = Fresh(cfi.nodes, k)]
  BY DEF nodes, Renamed
<1>6. \A k \in DOMAIN cfi.nodes :
        /\ DOMAIN nodes[k] = {"id", "type", "role", "extensions"}
        /\ nodes[k].id = Fresh(cfi.nodes, k) /\ nodes[k].type = cfi.nodes[k].type
        /\ nodes[k].role = cfi.nodes[k].role /\ nodes[k].extensions = cfi.nodes[k].extensions
  BY <1>1, <1>5
<1>7. /\ DOMAIN edges = DOMAIN cfi.edges
      /\ \A k \in DOMAIN cfi.edges :
           edges[k] = [cfi.edges[k] EXCEPT !.source = map[cfi.edges[k].source],
                                           !.target = map[cfi.edges[k].target]]
  BY DEF edges
<1>8. \A k \in DOMAIN cfi.edges :
        /\ edges[k].source = map[cfi.edges[k].source] /\ edges[k].target = map[cfi.edges[k].target]
        /\ edges[k].edge_type = cfi.edges[k].edge_type /\ edges[k].status = cfi.edges[k].status
  <2> SUFFICES ASSUME NEW k \in DOMAIN cfi.edges
               PROVE  /\ edges[k].source = map[cfi.edges[k].source]
                      /\ edges[k].target = map[cfi.edges[k].target]
                      /\ edges[k].edge_type = cfi.edges[k].edge_type
                      /\ edges[k].status = cfi.edges[k].status
    OBVIOUS
  <2>1. edges[k] = [cfi.edges[k] EXCEPT !.source = map[cfi.edges[k].source],
                                        !.target = map[cfi.edges[k].target]]
    BY <1>7
  <2>2. DOMAIN cfi.edges[k] = {"source", "edge_type", "target", "status"}
    BY <1>1
  <2> QED BY <2>1, <2>2, EdgeExcept
<1>9. /\ DOMAIN c = DOMAIN cfi /\ c.edges = edges
      /\ c.text = cfi.text /\ c.tier = cfi.tier /\ c.free_text = cfi.free_text
      /\ c.controls = cfi.controls /\ c.temporal_constraints = cfi.temporal_constraints
      /\ c.cardinality_constraints = cfi.cardinality_constraints
      /\ c.oracle = cfi.oracle /\ c.exact_literals = cfi.exact_literals
      /\ DOMAIN c.nodes = DOMAIN cfi.nodes
      /\ \A k \in DOMAIN cfi.nodes :
           c.nodes[k] = [nodes[k] EXCEPT !.extensions = nodes[k].extensions \ {"noun"}]
  BY <1>1, <1>3, <1>4, <1>5 DEF clean
<1>10. \A k \in DOMAIN cfi.nodes :
         /\ c.nodes[k].id = Fresh(cfi.nodes, k) /\ c.nodes[k].type = cfi.nodes[k].type
         /\ c.nodes[k].role = cfi.nodes[k].role
         /\ c.nodes[k].extensions = cfi.nodes[k].extensions \ {"noun"}
  <2> SUFFICES ASSUME NEW k \in DOMAIN cfi.nodes
               PROVE  /\ c.nodes[k].id = Fresh(cfi.nodes, k)
                      /\ c.nodes[k].type = cfi.nodes[k].type
                      /\ c.nodes[k].role = cfi.nodes[k].role
                      /\ c.nodes[k].extensions = cfi.nodes[k].extensions \ {"noun"}
    OBVIOUS
  <2>1. c.nodes[k] = [nodes[k] EXCEPT !.extensions = nodes[k].extensions \ {"noun"}]
    BY <1>9
  <2>2. /\ DOMAIN nodes[k] = {"id", "type", "role", "extensions"}
        /\ nodes[k].id = Fresh(cfi.nodes, k) /\ nodes[k].type = cfi.nodes[k].type
        /\ nodes[k].role = cfi.nodes[k].role /\ nodes[k].extensions = cfi.nodes[k].extensions
    BY <1>6
  <2> QED BY <2>1, <2>2, NodeExcept
<1> QED BY <1>7, <1>8, <1>9, <1>10 DEF c, map

\* The linter finds in a canonical invariant what it finds in the author's.
LEMMA CanonicalIsLinted ==
  ASSUME NEW cfi, CFIShape(cfi)
  PROVE  /\ lint_for_release(canonicalize(cfi)) = lint_for_release(cfi)
         /\ \A m \in NodesOf(canonicalize(cfi)) : "noun" \notin m.extensions
<1> DEFINE c == canonicalize(cfi)
<1>1. /\ c.text = cfi.text /\ DOMAIN c.nodes = DOMAIN cfi.nodes
      /\ \A k \in DOMAIN cfi.nodes :
           /\ c.nodes[k].type = cfi.nodes[k].type /\ c.nodes[k].role = cfi.nodes[k].role
           /\ c.nodes[k].extensions = cfi.nodes[k].extensions \ {"noun"}
  BY CanonicalFields
<1> HIDE DEF c
<1>2. \A m \in NodesOf(c) : "noun" \notin m.extensions
  BY <1>1 DEF NodesOf, ToSet
<1>3. (\E m \in NodesOf(c) : m.type = "Outcome" /\ m.role \in RoleNouns) <=>
      (\E m \in NodesOf(cfi) : m.type = "Outcome" /\ m.role \in RoleNouns)
  BY <1>1 DEF NodesOf, ToSet
<1>4. {"outcome_role" : m \in {m \in NodesOf(c) : m.type = "Outcome" /\ m.role \in RoleNouns}}
      = {"outcome_role" : m \in {m \in NodesOf(cfi) : m.type = "Outcome" /\ m.role \in RoleNouns}}
  BY <1>3
<1>5. lint_for_release(c) = lint_for_release(cfi)
  BY <1>1, <1>4 DEF lint_for_release
<1> QED BY <1>2, <1>5 DEF c

\* A set of numbers has a least, and one of numbers up to some size a greatest.
LEMMA SmallestOf ==
  ASSUME NEW S \in SUBSET Nat, S # {}
  PROVE  \E m \in S : \A e \in S : m =< e
<1>1. PICK m \in S : \A y \in S : ~ (<<y, m>> \in OpToRel(<, Nat))
  BY NatLessThanWellFounded, WFMin
<1>2. \A y \in S : ~ (y < m)
  BY <1>1 DEF OpToRel
<1> QED BY <1>2

LEMMA GreatestOf ==
  ASSUME NEW size \in Nat, NEW S \in SUBSET (1 .. size), S # {}
  PROVE  Max(S) \in S /\ \A e \in S : e =< Max(S)
<1> DEFINE T == {size - e : e \in S}
<1>1. T \subseteq Nat /\ T # {}
  <2>1. \A e \in S : size - e \in Nat
    OBVIOUS
  <2> QED BY <2>1
<1>2. PICK t \in T : \A u \in T : t =< u
  BY <1>1, SmallestOf
<1>3. PICK m \in S : t = size - m
  BY <1>2
<1>4. \A e \in S : t =< size - e
  BY <1>2
<1>5. \A e \in S : m >= e
  BY <1>3, <1>4
<1> QED BY <1>3, <1>5 DEF Max

\* A canonical invariant validates if the author's does: every edge still
\* names nodes of the graph.
LEMMA CanonicalIsValid ==
  ASSUME NEW cfi, CFIShape(cfi), model_validate(cfi)
  PROVE  model_validate(canonicalize(cfi))
<1> DEFINE c == canonicalize(cfi)
           map == IdMap(cfi.nodes)
           ids == {m.id : m \in NodesOf(cfi)}
           renamed == {m.id : m \in NodesOf(c)}
<1>1. /\ c.text = cfi.text /\ c.tier = cfi.tier /\ c.free_text = cfi.free_text
      /\ c.exact_literals = cfi.exact_literals
      /\ DOMAIN c.nodes = DOMAIN cfi.nodes /\ DOMAIN c.edges = DOMAIN cfi.edges
      /\ \A k \in DOMAIN cfi.nodes :
           /\ c.nodes[k].id = Fresh(cfi.nodes, k) /\ c.nodes[k].type = cfi.nodes[k].type
           /\ c.nodes[k].role = cfi.nodes[k].role
      /\ \A k \in DOMAIN cfi.edges :
           /\ c.edges[k].source = map[cfi.edges[k].source]
           /\ c.edges[k].target = map[cfi.edges[k].target]
           /\ c.edges[k].edge_type = cfi.edges[k].edge_type
           /\ c.edges[k].status = cfi.edges[k].status
  BY CanonicalFields
<1>2. /\ \A m \in NodesOf(cfi) : m.type \in NodeType /\ m.role \notin TokenNouns
      /\ \A e \in EdgesOf(cfi) : ValidEdge(e) /\ {e.source, e.target} \subseteq ids
      /\ cfi.tier \in DisclosureTier /\ cfi.text \subseteq Content
      /\ ~ cfi.free_text /\ ~ cfi.exact_literals
  BY DEF model_validate
<1> HIDE DEF c
<1>3. ASSUME NEW id \in ids PROVE map[id] \in renamed
  <2> DEFINE places == {k \in DOMAIN cfi.nodes : cfi.nodes[k].id = id}
             last == Max(places)
  <2>1. places \in SUBSET (1 .. Len(cfi.nodes)) /\ places # {} /\ Len(cfi.nodes) \in Nat
    BY LenProperties DEF CFIShape, NodesOf, ToSet
  <2>2. map[id] = Fresh(cfi.nodes, last)
    BY DEF IdMap, NodesOf, ToSet
  <2>3. last \in DOMAIN cfi.nodes
    <3> HIDE DEF places
    <3>1. last \in places
      BY <2>1, GreatestOf
    <3> QED BY <3>1 DEF places
  <2> HIDE DEF map, last
  <2> QED BY <1>1, <2>2, <2>3 DEF NodesOf, ToSet
<1> HIDE DEF map
<1>4. \A m \in NodesOf(c) : m.type \in NodeType /\ m.role \notin TokenNouns
  BY <1>1, <1>2 DEF NodesOf, ToSet
<1>5. \A k \in DOMAIN cfi.edges :
        ValidEdge(cfi.edges[k]) /\ cfi.edges[k].source \in ids /\ cfi.edges[k].target \in ids
  BY <1>2 DEF EdgesOf, ToSet
<1>6. \A e \in EdgesOf(c) : ValidEdge(e) /\ {e.source, e.target} \subseteq renamed
  BY <1>1, <1>3, <1>5 DEF EdgesOf, ToSet, ValidEdge
<1> QED BY <1>1, <1>2, <1>4, <1>6 DEF model_validate, c

-----------------------------------------------------------------------------
(* What leaves a contributor.                                              *)

\* A releasable package is canonical, signed as it is and clean.
Released(p) ==
  /\ Verify(p) /\ lint_for_release(p.cfi) = {} /\ p.cfi.tier # "non-shareable"
  /\ \A m \in NodesOf(p.cfi) : "noun" \notin m.extensions
  /\ model_validate(p.cfi)
  /\ p \notin {Absent, Torn}

LEMMA PackageIsReleased ==
  ASSUME NEW cfi, CFIShape(cfi), model_validate(cfi), NEW outcome,
         NEW p \in PackagesFrom(cfi, outcome)
  PROVE  Released(p)
<1>1. /\ p = Package(canonicalize(cfi), canonicalize(cfi))
      /\ cfi.tier # "non-shareable" /\ lint_for_release(cfi) = {}
  BY DEF PackagesFrom, sign_package
<1>2. p.cfi = canonicalize(cfi) /\ p.signed = p.cfi /\ DOMAIN p = {"cfi", "signed"}
  BY <1>1 DEF Package
<1>3. p \notin {Absent, Torn}
  BY <1>2 DEF Absent, Torn
<1>4. DOMAIN canonicalize(cfi) = DOMAIN cfi /\ canonicalize(cfi).tier = cfi.tier
  BY CanonicalFields
<1>5. canonicalize(cfi) # Unsigned
  <2>1. "nodes" \in DOMAIN cfi
    BY DEF CFIShape, build_exception_precedence_cfi
  <2>2. "nodes" \notin DOMAIN Unsigned
    BY DEF Unsigned
  <2> QED BY <1>4, <2>1, <2>2
<1> QED BY <1>1, <1>2, <1>3, <1>4, <1>5, CanonicalIsLinted, CanonicalIsValid DEF Released, Verify

LEMMA ReleasableIsReleased ==
  ASSUME NEW p \in ReleasablePackages PROVE Released(p)
<1>1. ASSUME NEW cfi \in LibraryCFIs, p \in PackagesFrom(cfi, "approve") PROVE Released(p)
  BY <1>1, LibraryAssumption, PackageIsReleased
<1>2. ASSUME NEW attested \in BOOLEAN, p \in PackagesFrom(Golden(attested), "approve")
      PROVE  Released(p)
  BY <1>2, AttestedIsValid, PackageIsReleased
<1>3. ASSUME NEW cfi \in LibraryCFIs, p \in attempt_smuggle(build_exception_precedence_cfi, cfi.text)
      PROVE  Released(p)
  <2> DEFINE smuggled == [build_exception_precedence_cfi EXCEPT !.text = @ \cup cfi.text]
  <2>1. cfi.text \in SUBSET Content
    BY LibraryAssumption DEF model_validate
  <2>2. CFIShape(smuggled) /\ model_validate(smuggled)
    BY <2>1, SmuggledIsValid
  <2>3. p \in PackagesFrom(smuggled, "approve")
    BY <1>3 DEF attempt_smuggle
  <2> HIDE DEF smuggled
  <2> QED BY <2>2, <2>3, PackageIsReleased
<1>4. CASE \E cfi \in LibraryCFIs \cup {Golden(attested) : attested \in BOOLEAN} :
              p \in PackagesFrom(cfi, "approve")
  BY <1>1, <1>2, <1>4
<1>5. CASE \E cfi \in LibraryCFIs : p \in attempt_smuggle(build_exception_precedence_cfi, cfi.text)
  BY <1>3, <1>5
<1> QED BY <1>4, <1>5 DEF ReleasablePackages, SmuggledPackages, Golden

\* Every way to a package is an approval of a releasable invariant.
LEMMA ApprovedPackage ==
  ASSUME NEW cfi, NEW outcome
  PROVE  PackagesFrom(cfi, outcome) \subseteq PackagesFrom(cfi, "approve")
BY DEF PackagesFrom, Approved

LEMMA ExtractionIsReleasable ==
  ASSUME NEW attested \in BOOLEAN PROVE Extractions[attested] \subseteq ReleasablePackages
<1>1. Extractions[attested] = Extracted(attested)
  BY DEF Extractions
<1>2. ASSUME NEW p \in Extracted(attested) PROVE p \in PackagesFrom(Golden(attested), "approve")
  <2>1. PICK trained \in TrainedScores :
          p \in PackagesFrom(Golden(attested), Overridden(
                  GateRun(Golden(attested), TRUE, score_cfi(Golden(attested), FALSE, trained))))
    BY <1>2 DEF Extracted, Golden
  <2> QED BY <2>1, ApprovedPackage
<1> QED BY <1>1, <1>2 DEF ReleasablePackages, Golden

LEMMA GoldenIsAttestedOrNot == build_exception_precedence_cfi = Golden(FALSE)
<1> DEFINE g == build_exception_precedence_cfi
<1>1. g.attested = FALSE /\ "attested" \in DOMAIN g /\ g = [x \in DOMAIN g |-> g[x]]
  BY DEF build_exception_precedence_cfi
<1> HIDE DEF g
<1>2. g = [g EXCEPT !.attested = FALSE]
  BY <1>1
<1> QED BY <1>2 DEF g, Golden

\* A package of the golden invariant, however it was attested, is releasable.
LEMMA GoldenIsReleasable ==
  ASSUME NEW attested \in BOOLEAN
  PROVE  sign_package(canonicalize(Golden(attested))) \in ReleasablePackages
<1>1. sign_package(canonicalize(Golden(attested))) \in PackagesFrom(Golden(attested), "approve")
  BY AttestedIsValid DEF PackagesFrom, Approved
<1> QED BY <1>1 DEF ReleasablePackages, Golden

LEMMA LibraryIsReleasable ==
  ASSUME NEW packages \in LibraryOutcomes PROVE packages \subseteq ReleasablePackages
<1>1. ASSUME NEW cfi \in LibraryCFIs, NEW complete, NEW trained,
             packages = Gated(cfi, complete, trained)
      PROVE  packages \subseteq ReleasablePackages
  <2>1. packages \subseteq PackagesFrom(cfi, "approve")
    BY <1>1, ApprovedPackage DEF Gated, package_with_gate
  <2> QED BY <2>1 DEF ReleasablePackages
<1>2. ASSUME NEW cfi \in LibraryCFIs,
             packages = attempt_smuggle(build_exception_precedence_cfi, cfi.text)
      PROVE  packages \subseteq ReleasablePackages
  BY <1>2 DEF ReleasablePackages, SmuggledPackages
<1>3. \/ \E cfi \in LibraryCFIs, complete \in BOOLEAN, trained \in TrainedScores :
           packages = Gated(cfi, complete, trained)
      \/ \E cfi \in LibraryCFIs :
           packages = attempt_smuggle(build_exception_precedence_cfi, cfi.text)
  BY DEF LibraryOutcomes
<1> QED BY <1>1, <1>2, <1>3

-----------------------------------------------------------------------------
(* Files and the registry.                                                 *)

\* The registry's package; a job that is about to register its file has one.
InRegistry(p) == p \in ReleasablePackages /\ "prompt" \notin p.cfi.text
PackagesInv ==
  /\ DOMAIN files = Files
  /\ \A f \in Files : files[f] \in {Absent, Torn} \cup ReleasablePackages
  /\ registry # Absent => InRegistry(registry)
  /\ job # Idle /\ job.step = "register" /\ job.command = "publish" =>
       files["invariant_id"] \in ReleasablePackages

LEMMA FilesByName == Files = {"invariant_id", "operators_copy"}
BY DEF Files, FileNames, ToSet

LEMMA ReleasableIsPackage ==
  Absent \notin ReleasablePackages /\ Torn \notin ReleasablePackages
BY ReleasableIsReleased DEF Released

\* What a file may be written with.
LEMMA FileWritten ==
  ASSUME PackagesInv, NEW f \in Files, NEW p \in {Absent, Torn} \cup ReleasablePackages,
         files' = [files EXCEPT ![f] = p]
  PROVE  /\ DOMAIN files' = Files
         /\ \A g \in Files : files'[g] \in {Absent, Torn} \cup ReleasablePackages
         /\ files'[f] = p
BY DEF PackagesInv

\* A call of the registry leaves it, or gives it the package.
LEMMA RegisterCallKeeps ==
  ASSUME PackagesInv, NEW package \in ReleasablePackages, NEW ok \in BOOLEAN,
         RegisterCall(package, ok)
  PROVE  registry' # Absent => InRegistry(registry')
BY DEF RegisterCall, validate_and_parse_package, InRegistry, PackagesInv

LEMMA PackageOfFile ==
  ASSUME PackagesInv, NEW f \in Files, IsPackage(f) PROVE files[f] \in ReleasablePackages
BY DEF PackagesInv, IsPackage

\* The registry's step, where neither the files nor the job matter.
LEMMA PackagesOf ==
  ASSUME PackagesInv, UNCHANGED <<files, registry>>,
         job' # Idle /\ job'.step = "register" /\ job'.command = "publish" =>
           files["invariant_id"] \in ReleasablePackages
  PROVE  PackagesInv'
BY DEF PackagesInv, InRegistry

LEMMA WritePackagePackages == ASSUME JobInv, PackagesInv, WritePackage PROVE PackagesInv'
<1>1. PICK p \in Extractions[log \cup refused # {}] :
        /\ files' = Written(p)
        /\ job' = [job EXCEPT !.extracted = @ + 1, !.at = @ + 1, !.step = NextStep,
                                !.candidates = <<>>]
  BY DEF WritePackage
<1>2. registry' = registry
  BY DEF WritePackage
<1>3. p \in ReleasablePackages
  <2> DEFINE attested == log \cup refused # {}
  <2>1. attested \in BOOLEAN
    OBVIOUS
  <2> HIDE DEF attested
  <2>2. Extractions[attested] \subseteq ReleasablePackages
    BY <2>1, ExtractionIsReleasable
  <2> QED BY <1>1, <2>2 DEF attested
<1>4. job'.command = job.command
  BY <1>1 DEF WritePackage, AtBundle, JobInv, JobShape
<1>5. CASE Keeps
  <2>1. files' = [files EXCEPT !["invariant_id"] = p]
    BY <1>1, <1>5 DEF Written
  <2> QED BY <1>2, <1>3, <2>1, FileWritten, FilesByName DEF PackagesInv, InRegistry
<1>6. CASE ~ Keeps
  <2>1. files' = files
    BY <1>1, <1>6 DEF Written
  <2>2. job'.command # "publish"
    BY <1>4, <1>6 DEF Keeps
  <2> QED BY <1>2, <2>1, <2>2, PackagesOf
<1> QED BY <1>5, <1>6

LEMMA CrashPackages == ASSUME PackagesInv, Crash PROVE PackagesInv'
<1>1. job' = Idle /\ registry' = registry
      /\ (files' = files \/ files' = Written(Torn))
  BY DEF Crash
<1>2. CASE files' = files
  BY <1>1, <1>2, PackagesOf
<1>3. CASE files' = [files EXCEPT !["invariant_id"] = Torn]
  BY <1>1, <1>3, FileWritten, FilesByName DEF PackagesInv, InRegistry
<1> QED BY <1>1, <1>2, <1>3 DEF Written

LEMMA PublishPackages ==
  ASSUME JobInv, PackagesInv, PublishFile \/ PublishOne PROVE PackagesInv'
<1>1. files' = files /\ job # Idle /\ JobShape
  BY DEF PublishFile, PublishOne, JobInv
<1>2. CASE PublishFile
  <2> DEFINE f == FileNames[job.at]
  <2>1. f \in Files
    BY <1>2 DEF PublishFile, Files, ToSet
  <2>2. job'.step = "publish"
    BY <1>1, <1>2 DEF PublishFile, JobShape
  <2>3. registry' # Absent => InRegistry(registry')
    <3>1. CASE UNCHANGED registry
      BY <3>1 DEF PackagesInv, InRegistry
    <3>2. CASE ~ UNCHANGED registry
      BY <1>2, <2>1, <3>2, PackageOfFile, RegisterCallKeeps DEF PublishFile
    <3> QED BY <3>1, <3>2
  <2> QED BY <1>1, <2>2, <2>3 DEF PackagesInv
<1>3. CASE PublishOne
  <2> DEFINE package == IF Keeps THEN files["invariant_id"] ELSE GoldenPackage
  <2>1. PICK ok \in BOOLEAN :
          /\ RegisterCall(package, ok)
          /\ IF ok /\ job.command = "run-pipeline"
             THEN job' = [job EXCEPT !.step = "assess", !.registered = 1] /\ UNCHANGED report
             ELSE EndJob(IF ok THEN 0 ELSE 1)
    BY <1>3 DEF PublishOne
  <2>2. package \in ReleasablePackages
    <3>1. CASE Keeps
      BY <1>1, <1>3, <3>1 DEF PublishOne, Keeps, JobInv, StepOfCommand, PackagesInv
    <3>2. CASE ~ Keeps
      BY <3>2, GoldenIsAttestedOrNot, GoldenIsReleasable DEF GoldenPackage
    <3> QED BY <3>1, <3>2
  <2>3. registry' # Absent => InRegistry(registry')
    BY <2>1, <2>2, RegisterCallKeeps
  <2>4. job' = Idle \/ job'.step = "assess"
    BY <1>1, <2>1 DEF EndJob, JobShape
  <2> QED BY <1>1, <2>3, <2>4 DEF PackagesInv
<1> QED BY <1>2, <1>3

\* The other steps of a job touch neither.
LEMMA JobStepPackages == ASSUME JobInv, PackagesInv, JobStep PROVE PackagesInv'
<1>1. /\ job # Idle /\ JobShape /\ StepOfCommand
      /\ sweep # "idle" => job.step = "bundles"
  BY DEF JobStep, LoadBundle, ScoreCandidates, ReplayRaises, Minimize, WritePackage, EndIngest,
         StartPublishing, PublishFile, EndPublishing, PublishOne, AtBundle, BundlesDone, JobInv
<1>2. ASSUME Fail, job.step \in {"bundles", "score"}
      PROVE  UNCHANGED <<files, registry>> /\ (job' = Idle \/ job'.step = "bundles")
  BY <1>1, <1>2 DEF Fail, EndJob, JobShape
<1>3. CASE LoadBundle \/ ScoreCandidates \/ ReplayRaises
  <2>1. job.step \in {"bundles", "score"}
    BY <1>3 DEF LoadBundle, ScoreCandidates, ReplayRaises, AtBundle
  <2>2. Fail \/ (UNCHANGED <<files, registry>> /\ job'.step \in {"bundles", "score"})
    BY <1>1, <1>3 DEF LoadBundle, ScoreCandidates, ReplayRaises, AtBundle, JobShape
  <2> QED BY <1>2, <2>1, <2>2, PackagesOf
<1>4. CASE Minimize
  BY <1>1, <1>4, PackagesOf DEF Minimize, AtBundle
<1>5. CASE EndIngest \/ StartPublishing \/ EndPublishing
  <2>1. UNCHANGED <<files, registry>> /\ (job' = Idle \/ job'.step = "publish")
    BY <1>1, <1>5 DEF EndIngest, StartPublishing, EndPublishing, EndJob, JobShape
  <2> QED BY <2>1, PackagesOf
<1> QED BY <1>3, <1>4, <1>5, WritePackagePackages, PublishPackages DEF JobStep

\* A command of one step that writes a file writes a package, or a copy of
\* the registry's.
LEMMA FileCommandsPackages ==
  ASSUME PackagesInv, NEW f \in Files, FileCommands(f) PROVE PackagesInv'
<1>1. job = Idle /\ job' = Idle
  BY FileCommandsAreInstant DEF Instant, FileCommands, package_cfi, PackageLibraryCFI,
     run_release_gate, register_remote, fetch_remote, pull_and_compile, compile_local,
     mitigate_local, evaluate_local, FetchFails, Command, Answer, AtPrompt
<1>2. ASSUME NEW p \in ReleasablePackages, files' = [files EXCEPT ![f] = p], registry' = registry
      PROVE  PackagesInv'
  BY <1>1, <1>2, FileWritten DEF PackagesInv, InRegistry
<1>3. ASSUME UNCHANGED <<files, registry>> PROVE PackagesInv'
  BY <1>1, <1>3, PackagesOf
<1>4. CASE package_cfi(f)
  <2> DEFINE scores == [linkability |-> 0, source_attribution |-> 7, reconstruction |-> 10]
             outcome == Overridden(GateRun(build_exception_precedence_cfi, TRUE, scores))
  <2>1. PICK p \in PackagesFrom(build_exception_precedence_cfi, outcome) :
          files' = [files EXCEPT ![f] = p]
    BY <1>4 DEF package_cfi
  <2>2. p \in PackagesFrom(Golden(FALSE), "approve")
    BY <2>1, ApprovedPackage, GoldenIsAttestedOrNot
  <2>3. p \in ReleasablePackages
    BY <2>2 DEF ReleasablePackages, Golden
  <2>4. registry' = registry
    BY <1>4 DEF package_cfi, Command, Answer
  <2> QED BY <1>2, <2>1, <2>3, <2>4
<1>5. CASE PackageLibraryCFI(f)
  <2>1. registry' = registry
    BY <1>5 DEF PackageLibraryCFI, Command, Answer
  <2>2. files' = files \/ \E packages \in LibraryOutcomes : \E p \in packages : files' = [files EXCEPT ![f] = p]
    BY <1>5 DEF PackageLibraryCFI
  <2> QED BY <1>2, <1>3, <2>1, <2>2, LibraryIsReleasable
<1>6. CASE register_remote(f)
  <2>1. files' = files /\ IsPackage(f)
    BY <1>6 DEF register_remote
  <2>2. PICK ok \in BOOLEAN : RegisterCall(files[f], ok)
    BY <1>6 DEF register_remote
  <2>3. registry' # Absent => InRegistry(registry')
    BY <2>1, <2>2, PackageOfFile, RegisterCallKeeps
  <2> QED BY <1>1, <2>1, <2>3 DEF PackagesInv
<1>7. CASE fetch_remote(f)
  <2>1. registry' = registry
    BY <1>7 DEF fetch_remote, FetchFails, Command, Answer
  <2>2. files' = files \/ (registry # Absent /\ files' = [files EXCEPT ![f] = registry])
    BY <1>7 DEF fetch_remote, FetchFails
  <2> QED BY <1>2, <1>3, <2>1, <2>2 DEF PackagesInv, InRegistry
<1>8. ASSUME NEW domain \in RecipientDomains, pull_and_compile(f, domain) PROVE PackagesInv'
  <2>1. registry' = registry
    BY <1>8 DEF pull_and_compile, FetchFails, Command, Answer
  <2>2. files' = files \/ (registry # Absent /\ files' = [files EXCEPT ![f] = registry])
    BY <1>8 DEF pull_and_compile, FetchFails
  <2> QED BY <1>2, <1>3, <2>1, <2>2 DEF PackagesInv, InRegistry
<1>9. ASSUME NEW domain \in RecipientDomains,
             compile_local(f, domain) \/ mitigate_local(f, domain) \/ evaluate_local(f, domain)
      PROVE  PackagesInv'
  BY <1>3, <1>9 DEF compile_local, mitigate_local, evaluate_local, Command, Answer
<1>10. CASE run_release_gate(f)
  BY <1>3, <1>10 DEF run_release_gate, Command, Answer
<1> QED BY <1>4, <1>5, <1>6, <1>7, <1>8, <1>9, <1>10 DEF FileCommands

LEMMA PackagesStep == ASSUME JobInv, PackagesInv, [Next]_vars PROVE PackagesInv'
<1>1. CASE UNCHANGED vars
  BY <1>1, PackagesOf DEF vars, PackagesInv
<1>2. CASE JobStep
  BY <1>2, JobStepPackages
<1>3. CASE Crash
  BY <1>3, CrashPackages
<1>4. CASE ReadReport
  BY <1>4, PackagesOf DEF ReadReport, PackagesInv
<1>5. CASE OtherContributor
  <2>1. PICK attested \in BOOLEAN : registry' = sign_package(canonicalize(Golden(attested)))
    BY <1>5 DEF OtherContributor, Golden
  <2>2. registry' \in ReleasablePackages
    BY <2>1, GoldenIsReleasable
  <2>3. registry'.cfi.text = Golden(attested).text
    BY <2>1, CanonicalFields, AttestedIsValid DEF sign_package, Package
  <2>4. Golden(attested).text = {}
    BY DEF Golden, build_exception_precedence_cfi
  <2> QED BY <1>5, <2>2, <2>3, <2>4 DEF OtherContributor, PackagesInv, InRegistry
<1>6. CASE PipelineStep
  <2>1. JobShape
    BY <1>6, PipelineStepMoves DEF JobInv
  <2>2. UNCHANGED <<files, registry>> /\ (job' = Idle \/ job'.step \in PipelineSteps)
    BY <1>6, <2>1, PipelineStepMoves DEF JobShape
  <2> QED BY <2>2, PackagesOf DEF PipelineSteps
<1>7. CASE StartJobs
  BY <1>7, StartJobsReport, PackagesOf
<1>8. ASSUME NEW f \in Files, FileCommands(f) PROVE PackagesInv'
  BY <1>8, FileCommandsPackages
<1>9. CASE \/ remote_cfi_status \/ probe_hooks \/ RunInProcess \/ remote_consortium_round
           \/ run_consortium_pilot \/ simulate_aggregate
  BY <1>9, PackagesOf DEF remote_cfi_status, probe_hooks, RunInProcess, remote_consortium_round,
     run_consortium_pilot, simulate_aggregate, Round, Command, Answer, PackagesInv
<1>10. ASSUME NEW domain \in RecipientDomains, assess_remote(domain) \/ contribute_federation(domain)
       PROVE  PackagesInv'
  BY <1>10, PackagesOf DEF assess_remote, contribute_federation, Command, Answer, PackagesInv
<1>11. CASE Evaluations
  BY <1>11, PackagesOf DEF Evaluations, FieldStudyRuns, RunHarness, RunBenchmarks, golden_path,
     verify_pipeline_matrix, consortium_pilot, RunRedTeam, verify_cross_boundary,
     verify_end_to_end, verify_federation_workflow, Verification, FieldMitigation, Round,
     Command, Answer, PackagesInv
<1> QED BY <1>1, <1>2, <1>3, <1>4, <1>5, <1>6, <1>7, <1>8, <1>9, <1>10, <1>11 DEF Next, Commands

LEMMA PackagesHold == Spec => []PackagesInv
<1>1. Init => PackagesInv
  <2> SUFFICES ASSUME Init PROVE PackagesInv
    OBVIOUS
  <2>1. files = [f \in Files |-> Absent] /\ registry = Absent /\ job = Idle
    BY DEF Init, ContributorInit
  <2> QED BY <2>1 DEF PackagesInv
<1>2. JobInv /\ PackagesInv /\ [Next]_vars => PackagesInv'
  BY PackagesStep
<1> QED BY <1>1, <1>2, JobsStayInOrder, PTL DEF Spec

LEMMA PackagesAreReleasable == ASSUME PackagesInv PROVE Packages \subseteq ReleasablePackages
BY DEF PackagesInv, InRegistry, Packages, IsPackage

\* Everything that has left a contributor, in any file, of any run, crash or
\* copy, or in the registry, is signed as it is, passes the linter and may be
\* shared; and what the registry has mentions no prompt (Packager.package,
\* validate_and_parse_package).
THEOREM ReleasedStaysClean == Spec => []ReleasedIsClean
<1>1. ASSUME PackagesInv PROVE ReleasedIsClean
  BY <1>1, PackagesAreReleasable, ReleasableIsReleased DEF Released, ReleasedIsClean, PackagesInv, InRegistry
<1> QED BY <1>1, PackagesHold, PTL

\* A package is one the packager may make, and no other ever appears.
THEOREM OnlyPackagedLeaves == Spec => [](Packages \subseteq ReleasablePackages)
<1>1. PackagesInv => Packages \subseteq ReleasablePackages
  BY PackagesAreReleasable
<1> QED BY <1>1, PackagesHold, PTL

-----------------------------------------------------------------------------
(* What a report says of the files and the registry.                       *)

Whole == IsPackage("invariant_id")
InFile == registry \in {files[f] : f \in {f \in Files : IsPackage(f)}}

\* A job has told nothing yet.  It comes past a bundle of its own incident,
\* to registration or to publication only with a package in its place, and
\* what it registered from the directory is a file's.
JobTells ==
  /\ report = NoReport
  /\ job.command # "ingest-corpus" => job.extract = TRUE
  /\ job.command \notin Ingests /\ (job.at > 1 \/ job.step = "register") => job.extracted > 0
  /\ job.step = "publish" => job.extracted > 0
  /\ job.extracted > 0 /\ Keeps => Whole
  /\ job.step \in {"bundles", "score", "register"} => job.registered = 0
  /\ job.step = "publish" /\ job.registered = 1 => InFile

ReportedInv == (job # Idle => JobTells) /\ ReportedIsThere

\* The commands whose success says something of a file or the registry.
TellsOfFiles == {"extract", "publish", "ingest-publish", "register", "fetch", "pull"}

LEMMA SameFiles ==
  ASSUME UNCHANGED <<files, registry>> PROVE Whole' = Whole /\ InFile' = InFile
BY DEF Whole, InFile, IsPackage

\* A command that failed, or is none of them, tells nothing.
LEMMA TellsNothing ==
  ASSUME job' = Idle, report'.command \notin TellsOfFiles \/ report'.exit = 1
  PROVE  ReportedInv'
BY DEF ReportedInv, ReportedIsThere, TellsOfFiles

\* A job that goes on tells nothing yet.
LEMMA StillTellsNothing ==
  ASSUME JobTells' PROVE ReportedInv'
BY DEF ReportedInv, JobTells, ReportedIsThere, NoReport

LEMMA JobEndsFailing ==
  ASSUME EndJob(1) PROVE ReportedInv'
BY TellsNothing DEF EndJob, Report

LEMMA FailReported ==
  ASSUME JobInv, ReportedInv, job # Idle, job.step \in {"bundles", "score"}, Fail
  PROVE  ReportedInv'
<1>1. JobShape /\ JobTells
  BY DEF JobInv, ReportedInv
<1>2. CASE job.command \in Ingests
  <2>1. /\ job' = [job EXCEPT !.at = @ + 1, !.step = "bundles", !.candidates = <<>>]
        /\ UNCHANGED <<files, registry, report>>
    BY <1>2 DEF Fail
  <2>2. /\ job'.command = job.command /\ job'.extract = job.extract /\ job'.step = "bundles"
        /\ job'.extracted = job.extracted /\ job'.registered = job.registered
    BY <1>1, <2>1 DEF JobShape
  <2>3. Whole' = Whole
    BY <2>1, SameFiles
  <2>4. JobTells'
    BY <1>1, <1>2, <2>1, <2>2, <2>3 DEF JobTells, Keeps
  <2> QED BY <2>4, StillTellsNothing
<1>3. CASE job.command \notin Ingests
  BY <1>3, JobEndsFailing DEF Fail
<1> QED BY <1>2, <1>3

LEMMA BundleStepReported ==
  ASSUME JobInv, ReportedInv, LoadBundle \/ ScoreCandidates \/ ReplayRaises \/ Minimize
  PROVE  ReportedInv'
<1>1. job # Idle /\ job.step \in {"bundles", "score"} /\ JobShape /\ JobTells
  BY DEF LoadBundle, ScoreCandidates, ReplayRaises, Minimize, AtBundle, JobInv, ReportedInv
<1>2. CASE Fail
  BY <1>1, <1>2, FailReported
<1>3. CASE ~ Fail
  <2>1. /\ UNCHANGED <<files, registry, report>>
        /\ job'.command = job.command /\ job'.extract = job.extract
        /\ job'.extracted = job.extracted /\ job'.registered = job.registered
        /\ job'.step \in {"bundles", "score"}
        /\ job'.at = job.at \/ job.extract # TRUE
    <3>1. CASE LoadBundle
      BY <1>1, <1>3, <3>1 DEF LoadBundle, AtBundle, JobShape
    <3>2. CASE ScoreCandidates
      BY <1>1, <1>3, <3>2 DEF ScoreCandidates, JobShape
    <3>3. CASE Minimize
      BY <1>1, <3>3 DEF Minimize
    <3> QED BY <1>3, <3>1, <3>2, <3>3 DEF ReplayRaises
  <2>2. Whole' = Whole
    BY <2>1, SameFiles
  <2>3. JobTells'
    BY <1>1, <2>1, <2>2 DEF JobTells, Keeps, Ingests
  <2> QED BY <2>3, StillTellsNothing
<1> QED BY <1>2, <1>3

LEMMA WritePackageReported ==
  ASSUME JobInv, PackagesInv, ReportedInv, WritePackage PROVE ReportedInv'
<1>1. /\ job # Idle /\ job.step = "bundles" /\ JobShape /\ JobTells /\ UNCHANGED report
      /\ job' = [job EXCEPT !.extracted = @ + 1, !.at = @ + 1, !.step = NextStep, !.candidates = <<>>]
  BY DEF WritePackage, AtBundle, JobInv, ReportedInv
<1>2. /\ job'.command = job.command /\ job'.extract = job.extract /\ job'.step = NextStep
      /\ job'.extracted = job.extracted + 1 /\ job'.registered = job.registered
  BY <1>1 DEF JobShape
<1>3. NextStep \in {"register", "bundles"} /\ job.extracted + 1 > 0
  BY <1>1 DEF NextStep, JobShape
<1>4. Keeps => Whole'
  <2> SUFFICES ASSUME Keeps PROVE Whole'
    OBVIOUS
  <2> DEFINE attested == log \cup refused # {}
  <2>1. attested \in BOOLEAN
    OBVIOUS
  <2>2. PICK p \in Extractions[attested] : files' = [files EXCEPT !["invariant_id"] = p]
    BY DEF WritePackage, Written
  <2> HIDE DEF attested
  <2>3. p \in ReleasablePackages
    BY <2>1, <2>2, ExtractionIsReleasable
  <2>4. files'["invariant_id"] = p
    BY <2>2, <2>3, FileWritten, FilesByName
  <2> QED BY <2>3, <2>4, ReleasableIsPackage DEF Whole, IsPackage
<1>5. JobTells'
  BY <1>1, <1>2, <1>3, <1>4 DEF JobTells, Keeps
<1> QED BY <1>5, StillTellsNothing

\* A job whose bundle is its own incident has extracted it when it is done.
LEMMA EndIngestReported ==
  ASSUME JobInv, ReportedInv, EndIngest PROVE ReportedInv'
<1>1. job # Idle /\ JobShape /\ JobTells /\ UNCHANGED <<files, registry>> /\ job' = Idle
  BY DEF EndIngest, BundlesDone, EndJob, JobInv, ReportedInv
<1>2. PICK exit : report' = Report(job.command, exit)
  BY DEF EndIngest, EndJob
<1>3. CASE job.command = "extract"
  <2>1. job.at = 2
    BY <1>3 DEF EndIngest, BundlesDone, Bundles, Ingests
  <2>2. Whole'
    BY <1>1, <1>3, <2>1, SameFiles DEF JobTells, Keeps, Ingests
  <2> QED BY <1>1, <1>2, <1>3, <2>2 DEF ReportedInv, ReportedIsThere, Report, Whole
<1>4. CASE job.command = "ingest-corpus"
  BY <1>1, <1>2, <1>4, TellsNothing DEF Report, TellsOfFiles
<1> QED BY <1>3, <1>4 DEF EndIngest

LEMMA StartPublishingReported ==
  ASSUME JobInv, ReportedInv, StartPublishing PROVE ReportedInv'
<1>1. /\ job # Idle /\ JobShape /\ JobTells /\ UNCHANGED <<files, registry>>
      /\ job.step = "bundles" /\ job.command = "ingest-publish"
  BY DEF StartPublishing, BundlesDone, JobInv, ReportedInv
<1>2. CASE job.extracted = 0
  BY <1>2, JobEndsFailing DEF StartPublishing
<1>3. CASE job.extracted # 0
  <2>1. job' = [job EXCEPT !.step = "publish", !.at = 1] /\ UNCHANGED report
    BY <1>3 DEF StartPublishing
  <2>2. /\ job'.command = job.command /\ job'.extract = job.extract /\ job'.step = "publish"
        /\ job'.extracted = job.extracted /\ job'.registered = job.registered
        /\ job.extracted > 0
    BY <1>1, <1>3, <2>1 DEF JobShape
  <2>3. Whole' = Whole
    BY <1>1, SameFiles
  <2>4. JobTells'
    BY <1>1, <2>1, <2>2, <2>3 DEF JobTells, Keeps, Ingests
  <2> QED BY <2>4, StillTellsNothing
<1> QED BY <1>2, <1>3

LEMMA PublishFileReported ==
  ASSUME JobInv, ReportedInv, PublishFile PROVE ReportedInv'
<1>1. /\ job # Idle /\ JobShape /\ StepOfCommand /\ JobTells /\ UNCHANGED <<files, report>>
      /\ job.step = "publish" /\ job.command = "ingest-publish"
  BY DEF PublishFile, JobInv, ReportedInv, StepOfCommand
<1> DEFINE f == FileNames[job.at]
<1>2. f \in Files
  BY DEF PublishFile, Files, ToSet
<1>3. \/ job' = [job EXCEPT !.at = @ + 1] /\ UNCHANGED registry
      \/ /\ IsPackage(f) /\ job.registered = 0
         /\ \E ok \in BOOLEAN :
              /\ RegisterCall(files[f], ok)
              /\ job' = [job EXCEPT !.at = @ + 1, !.registered = IF ok THEN 1 ELSE @]
  BY DEF PublishFile
<1> HIDE DEF f
<1>4. /\ job'.command = job.command /\ job'.extract = job.extract /\ job'.step = "publish"
      /\ job'.extracted = job.extracted
  BY <1>1, <1>3 DEF JobShape
<1>5. Whole' = Whole
  BY <1>1 DEF Whole, IsPackage
<1>6. job'.registered = 1 => InFile'
  <2>1. CASE job' = [job EXCEPT !.at = @ + 1] /\ UNCHANGED registry
    <3>1. job'.registered = job.registered
      BY <1>1, <2>1 DEF JobShape
    <3> QED BY <1>1, <2>1, <3>1, SameFiles DEF JobTells
  <2>2. ASSUME IsPackage(f), job.registered = 0, NEW ok \in BOOLEAN, RegisterCall(files[f], ok),
               job' = [job EXCEPT !.at = @ + 1, !.registered = IF ok THEN 1 ELSE @]
        PROVE  job'.registered = 1 => InFile'
    <3>1. job'.registered = IF ok THEN 1 ELSE 0
      BY <1>1, <2>2 DEF JobShape
    <3>2. ok => registry' = files[f]
      BY <2>2 DEF RegisterCall
    <3> QED BY <1>1, <1>2, <2>2, <3>1, <3>2 DEF InFile, IsPackage
  <2> QED BY <1>3, <2>1, <2>2
<1>7. JobTells'
  BY <1>1, <1>4, <1>5, <1>6 DEF JobTells, Keeps, Ingests
<1> QED BY <1>7, StillTellsNothing

LEMMA EndPublishingReported ==
  ASSUME JobInv, ReportedInv, EndPublishing PROVE ReportedInv'
<1>1. /\ job # Idle /\ JobShape /\ JobTells /\ UNCHANGED <<files, registry>> /\ job' = Idle
      /\ job.step = "publish" /\ job.command = "ingest-publish"
  BY DEF EndPublishing, EndJob, JobInv, ReportedInv, StepOfCommand
<1>2. CASE job.registered = 0
  BY <1>2, JobEndsFailing DEF EndPublishing
<1>3. CASE job.registered # 0
  <2>1. report' = Report("ingest-publish", 0) /\ Whole /\ InFile
    BY <1>1, <1>3 DEF EndPublishing, EndJob, JobTells, Keeps, JobShape
  <2>2. Whole' /\ InFile'
    BY <1>1, <2>1, SameFiles
  <2> QED BY <1>1, <2>1, <2>2 DEF ReportedInv, ReportedIsThere, Report, Whole, InFile
<1> QED BY <1>2, <1>3

LEMMA PublishOneReported ==
  ASSUME JobInv, ReportedInv, PublishOne PROVE ReportedInv'
<1>1. /\ job # Idle /\ JobShape /\ StepOfCommand /\ JobTells /\ files' = files
      /\ job.step = "register" /\ job.command \in {"publish", "run-pipeline"}
  BY DEF PublishOne, JobInv, ReportedInv, StepOfCommand
<1>2. PICK ok \in BOOLEAN :
        /\ RegisterCall(IF Keeps THEN files["invariant_id"] ELSE GoldenPackage, ok)
        /\ IF ok /\ job.command = "run-pipeline"
           THEN job' = [job EXCEPT !.step = "assess", !.registered = 1] /\ UNCHANGED report
           ELSE EndJob(IF ok THEN 0 ELSE 1)
  BY DEF PublishOne
<1>3. CASE ok /\ job.command = "run-pipeline"
  <2>1. /\ job'.command = job.command /\ job'.extract = job.extract /\ job'.step = "assess"
        /\ job'.extracted = job.extracted /\ job'.at = job.at /\ report' = report
    BY <1>1, <1>2, <1>3 DEF JobShape
  <2>2. JobTells'
    BY <1>1, <1>3, <2>1 DEF JobTells, Keeps, Ingests
  <2> QED BY <2>2, StillTellsNothing
<1>4. CASE ~ ok
  BY <1>2, <1>4, JobEndsFailing
<1>5. CASE ok /\ job.command = "publish"
  <2>1. report' = Report("publish", 0) /\ job' = Idle
    BY <1>2, <1>5 DEF EndJob
  <2>2. registry' = files["invariant_id"] /\ Whole
    BY <1>1, <1>2, <1>5 DEF RegisterCall, Keeps, JobTells, Ingests
  <2>3. Whole' /\ InFile'
    BY <1>1, <2>2, FilesByName DEF Whole, InFile, IsPackage
  <2> QED BY <2>1, <2>3 DEF ReportedInv, ReportedIsThere, Report, Whole, InFile
<1> QED BY <1>1, <1>3, <1>4, <1>5

LEMMA PipelineStepReported ==
  ASSUME JobInv, ReportedInv, PipelineStep PROVE ReportedInv'
<1>1. /\ job # Idle /\ JobShape /\ StepOfCommand /\ JobTells /\ job.command = "run-pipeline"
      /\ job.step \in PipelineSteps
  BY PipelineStepMoves DEF JobInv, ReportedInv, StepOfCommand
<1>2. \/ \E exit : EndJob(exit)
      \/ \E s \in PipelineSteps : Goes(s)
  BY DEF PipelineStep, PipelineAssesses, PipelineAggregates, PipelineRunsConsortium,
         PipelineProbesHooks, PipelineSummarizes, PipelineReads, Raises, PipelineSteps
<1>3. CASE \E exit : EndJob(exit)
  BY <1>1, <1>3, TellsNothing DEF EndJob, Report, TellsOfFiles
<1>4. ASSUME NEW s \in PipelineSteps, Goes(s) PROVE ReportedInv'
  <2>1. /\ job'.command = job.command /\ job'.extract = job.extract /\ job'.step = s
        /\ job'.extracted = job.extracted /\ job'.at = job.at /\ report' = report
    BY <1>1, <1>4 DEF Goes, JobShape
  <2>2. job.extracted > 0 \/ job.at =< 1
    BY <1>1 DEF JobTells, Ingests, JobShape
  <2>3. JobTells'
    BY <1>1, <1>4, <2>1, <2>2 DEF JobTells, Keeps, Ingests, PipelineSteps, JobShape
  <2> QED BY <2>3, StillTellsNothing
<1> QED BY <1>2, <1>3, <1>4

LEMMA StartJobReported ==
  ASSUME JobInv, ReportedInv, StartJobs PROVE ReportedInv'
<1>1. PICK command, services, extract :
        /\ command \in JobCommands /\ StartJob(command, services, extract)
        /\ extract = TRUE \/ command = "ingest-corpus"
  BY DEF StartJobs, ingest_corpus_local, ingest_publish_corpus, extract_from_incident,
         publish_remote, run_pipeline_remote, JobCommands
<1>2. CASE Command(command, 1)
  BY <1>2, TellsNothing DEF Command, Answer, AtPrompt, Report
<1>3. ASSUME NEW replay \in services, AtPrompt, UNCHANGED report,
             job' = [command |-> command, replay |-> replay, extract |-> extract, step |-> "bundles",
                     at |-> 1, validated |-> 0, extracted |-> 0, registered |-> 0, candidates |-> <<>>]
      PROVE  ReportedInv'
  <2>1. JobTells'
    BY <1>1, <1>3 DEF JobTells, AtPrompt
  <2> QED BY <2>1, StillTellsNothing
<1> QED BY <1>1, <1>2, <1>3 DEF StartJob

\* A command that writes the registry's package to a file, where it tells so.
LEMMA CopyReported ==
  ASSUME PackagesInv, NEW f \in Files, registry # Absent, files' = [files EXCEPT ![f] = registry],
         registry' = registry, job' = Idle, report'.command \in {"fetch", "pull"}
  PROVE  ReportedInv'
<1>1. registry \in ReleasablePackages
  BY DEF PackagesInv, InRegistry
<1>2. files'[f] = registry
  BY <1>1, FileWritten
<1>3. registry \notin {Absent, Torn}
  BY <1>1, ReleasableIsPackage
<1>4. InFile'
  BY <1>2, <1>3 DEF InFile, IsPackage
<1> QED BY <1>4 DEF ReportedInv, ReportedIsThere, InFile

LEMMA FileCommandsReported ==
  ASSUME PackagesInv, NEW f \in Files, FileCommands(f) PROVE ReportedInv'
<1>1. job' = Idle
  BY FileCommandsAreInstant DEF Instant
<1>2. CASE package_cfi(f) \/ PackageLibraryCFI(f) \/ run_release_gate(f)
  <2>1. \E command \in {"package", "library", "gate"} : \E exit : report' = Report(command, exit)
    BY <1>2 DEF package_cfi, PackageLibraryCFI, run_release_gate, Command, Answer
  <2> QED BY <1>1, <2>1, TellsNothing DEF Report, TellsOfFiles
<1>3. CASE register_remote(f)
  <2>1. PICK ok \in BOOLEAN : /\ RegisterCall(files[f], ok) /\ IsPackage(f) /\ files' = files
                              /\ report' = Report("register", IF ok THEN 0 ELSE 1)
    BY <1>3 DEF register_remote
  <2>2. CASE ok
    <3>1. registry' = files[f]
      BY <2>1, <2>2 DEF RegisterCall
    <3>2. InFile'
      BY <2>1, <3>1 DEF InFile, IsPackage
    <3> QED BY <1>1, <2>1, <3>2 DEF ReportedInv, ReportedIsThere, Report, InFile
  <2>3. CASE ~ ok
    BY <1>1, <2>1, <2>3, TellsNothing DEF Report
  <2> QED BY <2>2, <2>3
<1>4. ASSUME FetchFails("fetch") \/ FetchFails("pull") PROVE ReportedInv'
  BY <1>1, <1>4, TellsNothing DEF FetchFails, Command, Answer, Report
<1>5. CASE fetch_remote(f)
  <2>1. \/ FetchFails("fetch")
        \/ /\ registry # Absent /\ files' = [files EXCEPT ![f] = registry] /\ registry' = registry
           /\ report'.command = "fetch"
    BY <1>5 DEF fetch_remote, Command, Answer, Report
  <2> QED BY <1>1, <1>4, <2>1, CopyReported
<1>6. ASSUME NEW domain \in RecipientDomains, pull_and_compile(f, domain) PROVE ReportedInv'
  <2>1. \/ FetchFails("pull")
        \/ /\ registry # Absent /\ files' = [files EXCEPT ![f] = registry] /\ registry' = registry
           /\ report'.command = "pull"
    BY <1>6 DEF pull_and_compile, Command, Answer, Report
  <2> QED BY <1>1, <1>4, <2>1, CopyReported
<1>7. ASSUME NEW domain \in RecipientDomains,
             compile_local(f, domain) \/ mitigate_local(f, domain) \/ evaluate_local(f, domain)
      PROVE  ReportedInv'
  <2>1. \E command \in {"compile", "mitigate", "evaluate"} : \E exit : report' = Report(command, exit)
    BY <1>7 DEF compile_local, mitigate_local, evaluate_local, Command, Answer
  <2> QED BY <1>1, <2>1, TellsNothing DEF Report, TellsOfFiles
<1> QED BY <1>2, <1>3, <1>5, <1>6, <1>7 DEF FileCommands

LEMMA EvaluationsTellNothing ==
  ASSUME Evaluations PROVE report'.command \notin TellsOfFiles
<1>1. CASE FieldStudyRuns \/ RunHarness \/ RunBenchmarks \/ RunRedTeam
  BY <1>1 DEF FieldStudyRuns, RunHarness, RunBenchmarks, RunRedTeam, Command, Report, Answer, TellsOfFiles
<1>2. CASE golden_path \/ verify_pipeline_matrix \/ consortium_pilot
  BY <1>2 DEF golden_path, verify_pipeline_matrix, consortium_pilot, Round, Command, Report, Answer,
              TellsOfFiles
<1>3. CASE verify_cross_boundary \/ verify_end_to_end \/ verify_federation_workflow
  BY <1>3 DEF verify_cross_boundary, verify_end_to_end, verify_federation_workflow,
              Verification, Command, Report, Answer, TellsOfFiles
<1>4. ASSUME NEW domain \in RecipientDomains, FieldMitigation(domain)
      PROVE  report'.command \notin TellsOfFiles
  BY <1>4 DEF FieldMitigation, Answer, TellsOfFiles
<1> QED BY <1>1, <1>2, <1>3, <1>4 DEF Evaluations

LEMMA CommandsReported ==
  ASSUME JobInv, PackagesInv, ReportedInv, Commands PROVE ReportedInv'
<1>1. CASE StartJobs
  BY <1>1, StartJobReported
<1>2. ASSUME NEW f \in Files, FileCommands(f) PROVE ReportedInv'
  BY <1>2, FileCommandsReported
<1>3. ASSUME Instant, report'.command \notin TellsOfFiles PROVE ReportedInv'
  BY <1>3, TellsNothing DEF Instant
<1>4. CASE \/ remote_cfi_status \/ probe_hooks \/ RunInProcess \/ remote_consortium_round
           \/ run_consortium_pilot \/ simulate_aggregate
  <2>1. report'.command \notin TellsOfFiles
    BY <1>4 DEF remote_cfi_status, probe_hooks, RunInProcess, remote_consortium_round,
       run_consortium_pilot, simulate_aggregate, Round, Command, Report, Answer, TellsOfFiles
  <2>2. job' = Idle
    BY <1>4 DEF remote_cfi_status, probe_hooks, RunInProcess, remote_consortium_round,
       run_consortium_pilot, simulate_aggregate, Round, Command, Answer, AtPrompt
  <2> QED BY <2>1, <2>2, TellsNothing
<1>5. ASSUME NEW domain \in RecipientDomains, assess_remote(domain) \/ contribute_federation(domain)
      PROVE  ReportedInv'
  <2>1. report'.command \notin TellsOfFiles /\ job' = Idle
    BY <1>5 DEF assess_remote, contribute_federation, Command, Report, Answer, AtPrompt, TellsOfFiles
  <2> QED BY <2>1, TellsNothing
<1>6. CASE Evaluations
  BY <1>3, <1>6, EvaluationsTellNothing, EvaluationsAreInstant
<1> QED BY <1>1, <1>2, <1>4, <1>5, <1>6 DEF Commands

LEMMA ReportedStep ==
  ASSUME JobInv, PackagesInv, ReportedInv, [Next]_vars PROVE ReportedInv'
<1>1. CASE UNCHANGED vars
  <2>1. UNCHANGED <<job, files, registry, report>>
    BY <1>1 DEF vars
  <2>2. Whole' = Whole /\ InFile' = InFile
    BY <2>1, SameFiles
  <2> QED BY <2>1, <2>2 DEF ReportedInv, JobTells, ReportedIsThere, Keeps, Whole, InFile
<1>2. CASE JobStep
  BY <1>2, BundleStepReported, WritePackageReported, EndIngestReported, StartPublishingReported,
     PublishFileReported, EndPublishingReported, PublishOneReported DEF JobStep
<1>3. CASE Crash
  BY <1>3, TellsNothing DEF Crash, ReportedInv, JobTells, NoReport, TellsOfFiles
<1>4. CASE ReadReport
  <2>1. report' = NoReport /\ job' = Idle
    BY <1>4 DEF ReadReport, ReportedInv, JobTells
  <2> QED BY <2>1, TellsNothing DEF NoReport, TellsOfFiles
<1>5. CASE OtherContributor
  <2>1. registry = Absent /\ UNCHANGED <<job, files, report>>
    BY <1>5 DEF OtherContributor
  <2>2. Whole' = Whole /\ ~ InFile
    BY <2>1 DEF Whole, InFile, IsPackage
  <2> QED BY <2>1, <2>2 DEF ReportedInv, JobTells, ReportedIsThere, Keeps, Whole, InFile
<1>6. CASE PipelineStep
  BY <1>6, PipelineStepReported
<1> QED BY <1>1, <1>2, <1>3, <1>4, <1>5, <1>6, CommandsReported DEF Next

\* What a command reports is so, whatever file an earlier crash cut off,
\* whoever else registers and whichever answers were lost: the package it
\* extracted is a whole one in its place, and the one it registered or
\* fetched is the registry's, and a file's (cmd_ingest_publish,
\* publish_packages, publish_remote, register_remote).
THEOREM ReportedStaysThere == Spec => []ReportedIsThere
<1>1. Init => ReportedInv
  <2> SUFFICES ASSUME Init PROVE ReportedInv
    OBVIOUS
  <2>1. job = Idle /\ report = NoReport
    BY DEF Init, ContributorInit
  <2> QED BY <2>1 DEF ReportedInv, ReportedIsThere, NoReport
<1>2. JobInv /\ PackagesInv /\ ReportedInv /\ [Next]_vars => ReportedInv'
  BY ReportedStep
<1>3. ReportedInv => ReportedIsThere
  BY DEF ReportedInv
<1> QED BY <1>1, <1>2, <1>3, JobsStayInOrder, PackagesHold, PTL DEF Spec

-----------------------------------------------------------------------------
(* What was reported.                                                      *)

ReportInv ==
  report.command # "none" =>
    /\ report.exit \in {0, 1}
    /\ report.command = "harness" => report.result \in HarnessResults
    /\ report.command = "redteam" => report.results \in RedTeamReports
    /\ report.command = "contribute" /\ report.exit = 0 =>
         \E package, domain :
           /\ report.contribution = recipient_evaluate_and_contribute(package, domain,
                CohortManifest(package.cfi.id, 1), required_mapping_roles(package.cfi))
           /\ ~ report.contribution.abstained
    /\ report.command = "cross-boundary" /\ CrossBoundaryGoes => report.exit = 0
    /\ report.command = "end-to-end" /\ EndToEndGoes => report.exit = 0
    /\ report.command = "federation-workflow" /\ FederationGoes => report.exit = 0

\* A job reports no more than how it ended.
LEMMA JobReported ==
  ASSUME NEW command \in JobCommands, NEW exit \in {0, 1}, report' = Report(command, exit)
  PROVE  ReportInv'
BY DEF ReportInv, Report, JobCommands

LEMMA ReportStep == ASSUME JobInv, ReportInv, [Next]_vars PROVE ReportInv'
<1>1. CASE report' = report
  BY <1>1 DEF ReportInv
<1>2. CASE JobStep
  <2>1. job.command \in JobCommands
    BY <1>2 DEF JobStep, LoadBundle, ScoreCandidates, ReplayRaises, Minimize, WritePackage,
       EndIngest, StartPublishing, PublishFile, EndPublishing, PublishOne, AtBundle, BundlesDone,
       JobInv, JobShape
  <2> QED BY <1>1, <1>2, <2>1, JobStepReports, JobReported
<1>3. CASE Crash \/ OtherContributor
  BY <1>1, <1>3 DEF Crash, OtherContributor
<1>4. CASE ReadReport
  BY <1>4 DEF ReadReport, ReportInv, NoReport
<1>5. CASE StartJobs
  BY <1>1, <1>5, StartJobsReport, JobReported
<1>6. CASE Told(report')
  BY <1>6 DEF Told, ReportInv
<1>7. CASE PipelineStep
  <2>1. job.command \in JobCommands
    BY <1>7, PipelineStepMoves DEF JobInv, JobShape
  <2>2. report' = report \/ \E exit \in {0, 1} : report' = Report(job.command, exit)
    BY <1>7 DEF PipelineStep, PipelineAssesses, PipelineAggregates, PipelineRunsConsortium,
       PipelineProbesHooks, PipelineSummarizes, PipelineReads, PipelineIn, Goes, Raises, EndJob
  <2> QED BY <1>1, <2>1, <2>2, JobReported
<1>8. CASE UNCHANGED vars
  BY <1>1, <1>8 DEF vars
<1> QED BY <1>2, <1>3, <1>4, <1>5, <1>6, <1>7, <1>8, CommandsAreTold DEF Next

LEMMA ReportsHold == Spec => []ReportInv
<1>1. Init => ReportInv
  BY DEF Init, ContributorInit, ReportInv, NoReport
<1>2. JobInv /\ ReportInv /\ [Next]_vars => ReportInv'
  BY ReportStep
<1> QED BY <1>1, <1>2, JobsStayInOrder, PTL DEF Spec

-----------------------------------------------------------------------------
(* The candidates of a bundle.                                             *)

\* A relation that puts any two of a set in order, and only one way.
StrictOrder(S, before) ==
  /\ \A a, b \in S : a # b => <<a, b>> \in before \/ <<b, a>> \in before
  /\ \A a, b, c \in S : <<a, b>> \in before /\ <<b, c>> \in before => <<a, c>> \in before
  /\ \A a \in S : <<a, a>> \notin before

Sorted(o, before) == \A j, k \in DOMAIN o : j < k => <<o[j], o[k]>> \in before

\* The rank of an element is how many are not after it.
LEMMA SortedListExists ==
  ASSUME NEW S, IsFiniteSet(S), NEW before, StrictOrder(S, before)
  PROVE  \E o \in [1 .. Cardinality(S) -> S] : Sorted(o, before)
<1> DEFINE Below(x) == {y \in S : <<y, x>> \in before}
           rank == [x \in S |-> Cardinality(Below(x)) + 1]
           N == Cardinality(S)
<1>1. N \in Nat
  BY FS_CardinalityType
<1>2. \A x \in S : IsFiniteSet(Below(x)) /\ Cardinality(Below(x)) \in Nat
  BY FS_Subset, FS_CardinalityType
<1>3. ASSUME NEW x \in S, NEW y \in S, <<x, y>> \in before PROVE rank[x] < rank[y]
  <2>1. Below(x) \in SUBSET Below(y) /\ x \in Below(y) /\ x \notin Below(x)
    BY <1>3 DEF StrictOrder
  <2>2. Cardinality(Below(x)) =< Cardinality(Below(y)) /\ Cardinality(Below(x)) # Cardinality(Below(y))
    BY <1>2, <2>1, FS_Subset
  <2> QED BY <1>2, <2>2
<1>4. rank \in [S -> 1 .. N]
  <2> SUFFICES ASSUME NEW x \in S PROVE rank[x] \in 1 .. N
    OBVIOUS
  <2>1. Below(x) \in SUBSET S /\ x \notin Below(x)
    BY DEF StrictOrder
  <2>2. Cardinality(Below(x)) =< N /\ Cardinality(Below(x)) # N
    BY <2>1, FS_Subset
  <2> QED BY <1>1, <1>2, <2>2
<1> HIDE DEF rank
<1>5. \A x, y \in S : rank[x] = rank[y] => x = y
  <2> SUFFICES ASSUME NEW x \in S, NEW y \in S, x # y PROVE rank[x] # rank[y]
    OBVIOUS
  <2>1. rank[x] \in Int /\ rank[y] \in Int
    BY <1>1, <1>4
  <2>2. rank[x] < rank[y] \/ rank[y] < rank[x]
    <3>1. CASE <<x, y>> \in before
      BY <1>3, <3>1
    <3>2. CASE <<y, x>> \in before
      BY <1>3, <3>2
    <3> QED BY <3>1, <3>2 DEF StrictOrder
  <2> QED BY <2>1, <2>2
<1>6. rank \in Injection(S, 1 .. N)
  BY <1>4, <1>5, Fun_IsInj
<1>7. IsFiniteSet(1 .. N) /\ Cardinality(1 .. N) = N
  BY <1>1, UpTo
<1>8. rank \in Surjection(S, 1 .. N)
  BY <1>6, <1>7, FS_Injection
<1>9. \A k \in 1 .. N : \E x \in S : rank[x] = k
  BY <1>8, Fun_SurjectionProperties
<1> DEFINE o == [k \in 1 .. N |-> CHOOSE x \in S : rank[x] = k]
<1>10. \A k \in 1 .. N : o[k] \in S /\ rank[o[k]] = k
  BY <1>9
<1>11. Sorted(o, before)
  <2> SUFFICES ASSUME NEW j \in 1 .. N, NEW k \in 1 .. N, j < k PROVE <<o[j], o[k]>> \in before
    BY DEF Sorted
  <2>1. o[j] \in S /\ o[k] \in S /\ rank[o[j]] = j /\ rank[o[k]] = k
    BY <1>10
  <2> HIDE DEF o
  <2>2. ~ (<<o[k], o[j]>> \in before)
    BY <1>3, <2>1
  <2> QED BY <2>1, <2>2 DEF StrictOrder
<1> QED BY <1>10, <1>11

\* A sorted list of a set's size has each element.
LEMMA SortedListIsComplete ==
  ASSUME NEW S, IsFiniteSet(S), NEW before, StrictOrder(S, before),
         NEW o \in [1 .. Cardinality(S) -> S], Sorted(o, before)
  PROVE  \A x \in S : \E k \in 1 .. Cardinality(S) : o[k] = x
<1> DEFINE N == Cardinality(S)
<1>1. N \in Nat
  BY FS_CardinalityType
<1>2. IsFiniteSet(1 .. N) /\ Cardinality(1 .. N) = N
  BY <1>1, UpTo
<1>3. \A j, k \in 1 .. N : o[j] = o[k] => j = k
  <2> SUFFICES ASSUME NEW j \in 1 .. N, NEW k \in 1 .. N, j < k PROVE o[j] # o[k]
    BY <1>1
  <2> QED BY DEF Sorted, StrictOrder
<1>4. o \in Injection(1 .. N, S)
  BY <1>3, Fun_IsInj
<1>5. o \in Surjection(1 .. N, S)
  BY <1>2, <1>4, FS_Injection
<1>6. \A x \in S : \E k \in 1 .. N : o[k] = x
  BY <1>5 DEF Surjection
<1> QED BY <1>6

LEMMA OracleIsInt ==
  ASSUME NEW replay \in {"structural", "stub"}, NEW graph PROVE oracle(replay, graph) \in Int
<1>1. CASE replay = "structural"
  BY <1>1 DEF oracle, Estimate
<1>2. CASE replay = "stub"
  <2> DEFINE rate == compute_failure_rate(graph)
             a == [failure_rate |-> rate]
             failing == {k \in DOMAIN <<a, a, a>> : \E r \in HttpRate(<<a, a, a>>[k]) : r >= 50}
  <2>1. Answers("stub", graph) = {a}
    BY DEF Answers
  <2>2. Estimate("stub", graph) = HttpEstimate(<<a, a, a>>)
    BY <2>1 DEF Estimate
  <2>3. HttpRate(a) = {rate}
    BY DEF HttpRate
  <2> HIDE DEF a
  <2>4. DOMAIN <<a, a, a>> = 1 .. 3 /\ Len(<<a, a, a>>) = 3 /\ \A k \in 1 .. 3 : <<a, a, a>>[k] = a
    OBVIOUS
  <2>5. HttpEstimate(<<a, a, a>>) = {(100 * Cardinality(failing)) \div 3}
    BY <2>3, <2>4 DEF HttpEstimate
  <2>6. failing \subseteq 1 .. 3
    BY <2>4
  <2> HIDE DEF failing
  <2>7. Cardinality(failing) \in Nat
    <3>1. \A size \in Nat : IsFiniteSet(1 .. size)
      BY UpTo
    <3> QED BY <2>6, <3>1, FS_Subset, FS_CardinalityType
  <2>8. (100 * Cardinality(failing)) \div 3 \in Int
    BY <2>7
  <2> QED BY <1>2, <2>2, <2>5, <2>8 DEF oracle
<1> QED BY <1>1, <1>2

\* The candidates are the graph's nodes, each once, the greatest delta first.
LEMMA CandidatesInOrder ==
  ASSUME NEW replay \in {"structural", "stub"}, NEW graph, IsFiniteSet(graph.nodes),
         graph.nodes \subseteq Int,
         NEW found, found = counterfactual_candidate_scoring(graph, replay)
  PROVE  /\ {c.component : c \in ToSet(found)} = graph.nodes
         /\ Len(found) = Cardinality(graph.nodes)
         /\ \A j, k \in DOMAIN found : j < k => found[j].delta >= found[k].delta
<1> DEFINE S == graph.nodes
           N == Cardinality(S)
           base == oracle(replay, graph)
           delta == [z \in S |->
             base - Min({oracle(replay, apply_intervention(graph, z)) : j \in default_intervention_generator})]
           before(a, b) == delta[a] > delta[b] \/ (delta[a] = delta[b] /\ a < b)
           precedes == {ab \in S \X S : before(ab[1], ab[2])}
           order == CHOOSE o \in [1 .. N -> S] : \A j, k \in DOMAIN o : j < k => before(o[j], o[k])
<1>1. found = [k \in DOMAIN order |-> [component |-> order[k], delta |-> delta[order[k]]]]
  BY DEF counterfactual_candidate_scoring
<1>2. \A z \in S : delta[z] \in Int
  <2> SUFFICES ASSUME NEW z \in S PROVE delta[z] \in Int
    OBVIOUS
  <2> DEFINE rate == oracle(replay, apply_intervention(graph, z))
  <2>1. base \in Int /\ rate \in Int
    BY OracleIsInt
  <2> HIDE DEF rate, base
  <2>2. {rate : j \in default_intervention_generator} = {rate}
    BY DEF default_intervention_generator
  <2>3. Min({rate}) = rate
    BY <2>1 DEF Min
  <2> QED BY <2>1, <2>2, <2>3 DEF rate
<1> HIDE DEF delta, base
<1>3. \A a, b \in S : <<a, b>> \in precedes <=> before(a, b)
  OBVIOUS
<1>4. StrictOrder(S, precedes)
  <2> HIDE DEF precedes
  <2> QED BY <1>2, <1>3 DEF StrictOrder
<1> HIDE DEF precedes
<1>5. \A o \in [1 .. N -> S] : Sorted(o, precedes) <=> (\A j, k \in DOMAIN o : j < k => before(o[j], o[k]))
  BY <1>3 DEF Sorted
<1>6. PICK o \in [1 .. N -> S] : Sorted(o, precedes)
  BY <1>4, SortedListExists
<1>7. order \in [1 .. N -> S] /\ \A j, k \in DOMAIN order : j < k => before(order[j], order[k])
  BY <1>5, <1>6
<1>8. Sorted(order, precedes)
  BY <1>5, <1>7
<1> HIDE DEF order
<1>9. \A x \in S : \E k \in 1 .. N : order[k] = x
  <2>1. IsFiniteSet(S) /\ order \in [1 .. Cardinality(S) -> S]
    BY <1>7
  <2> HIDE DEF S
  <2> QED BY <1>4, <1>8, <2>1, SortedListIsComplete
<1>10. N \in Nat
  BY FS_CardinalityType
<1> HIDE DEF N
<1>11. DOMAIN order = 1 .. N /\ DOMAIN found = 1 .. N
  BY <1>1, <1>7
<1>12. \A k \in 1 .. N : found[k].component = order[k] /\ found[k].delta = delta[order[k]]
                         /\ order[k] \in S
  BY <1>1, <1>7, <1>11
<1>13. Len(found) = N
  <2> DEFINE range == {found[k] : k \in 1 .. N}
  <2>1. found \in Seq(range)
    BY <1>1, <1>10, <1>11, SeqDef
  <2>2. Len(found) \in Nat /\ 1 .. Len(found) = 1 .. N
    BY <1>11, <2>1, LenProperties
  <2> QED BY <1>10, <2>2
<1>14. {c.component : c \in ToSet(found)} = S
  BY <1>9, <1>11, <1>12 DEF ToSet
<1>15. \A j, k \in 1 .. N : j < k => found[j].delta >= found[k].delta
  BY <1>2, <1>7, <1>11, <1>12
<1> QED BY <1>11, <1>13, <1>14, <1>15 DEF N

-----------------------------------------------------------------------------
(* Compilation.                                                            *)

\* What a compilation may come to, whatever it is given.
LEMMA CompilesToOneCase ==
  ASSUME NEW package, NEW context, NEW manifest,
         NEW result, result = fail_closed_compile(package, context, manifest)
  PROVE  \/ result.abstained = TRUE
         \/ /\ result.abstained = FALSE /\ result.positives = 1
            /\ result.controls = SubSeq(package.cfi.controls, 1, 3)
<1> DEFINE cfi == package.cfi
           valid == {mu \in enumerate_typed_embeddings(cfi, context) :
                       preserves(mu, cfi, build_scenario_from_context(cfi, mu))}
           cases == {mu \in valid : static_validate(cfi, mu)}
<1>1. \E mu : enumerate_typed_embeddings(cfi, context) \subseteq {mu}
  BY DEF enumerate_typed_embeddings
<1>2. PICK mu : cases \subseteq {mu}
  BY <1>1
<1>3. \A reason : Abstain(reason).abstained = TRUE
  BY DEF Abstain
<1>4. cases = {} \/ cases = {mu}
  BY <1>2
<1>5. Cardinality({mu}) = 1
  BY FS_Singleton
<1>6. \/ result.abstained = TRUE \/ result = CasesOf(cfi, valid)
  BY <1>3 DEF fail_closed_compile
<1> HIDE DEF cfi, valid
<1>7. \/ CasesOf(cfi, valid).abstained = TRUE
      \/ /\ CasesOf(cfi, valid).abstained = FALSE /\ CasesOf(cfi, valid).positives = 1
         /\ CasesOf(cfi, valid).controls = SubSeq(cfi.controls, 1, 3)
  <2>1. CASE cases = {}
    <3>1. \E reason : CasesOf(cfi, valid) = Abstain(reason)
      BY <2>1 DEF CasesOf
    <3> QED BY <1>3, <3>1
  <2>2. CASE cases = {mu}
    <3>1. valid # {}
      BY <2>2
    <3>2. CasesOf(cfi, valid) = [abstained |-> FALSE, positives |-> Cardinality(cases),
                                 controls |-> SubSeq(cfi.controls, 1, 3)]
      BY <2>2, <3>1 DEF CasesOf
    <3> QED BY <1>5, <2>2, <3>2
  <2> QED BY <1>4, <2>1, <2>2
<1> QED BY <1>6, <1>7 DEF cfi

\* An invariant whose nodes have ids of their own, whose mapped nodes have
\* roles of their own, and that counts no nodes.
Mappable(cfi) ==
  /\ model_validate(cfi)
  /\ \E size \in Nat : DOMAIN cfi.nodes = 1 .. size
  /\ \A j, k \in DOMAIN cfi.nodes : cfi.nodes[j].id = cfi.nodes[k].id => j = k
  /\ \A j, k \in Mapped(cfi) : cfi.nodes[j].role = cfi.nodes[k].role => j = k
  /\ cfi.cardinality_constraints = {}

\* Where a context takes a node.
EntityOf(cfi, context, k) == context.mappings[cfi.nodes[k].role].entity

\* Nodes that share an entity have one type.
KeepsTypes(cfi, context) ==
  \A j, k \in Mapped(cfi) :
    EntityOf(cfi, context, j) = EntityOf(cfi, context, k) => cfi.nodes[j].type = cfi.nodes[k].type

\* The node of a role is the last of those that share its entity.
Stays(cfi, context, role) ==
  \E k \in Mapped(cfi) :
    /\ cfi.nodes[k].role = role
    /\ \A j \in Mapped(cfi) : EntityOf(cfi, context, j) = EntityOf(cfi, context, k) => j =< k

KeepsOrder(cfi, context) ==
  \A c \in cfi.temporal_constraints : Stays(cfi, context, c[1]) /\ Stays(cfi, context, c[2])

\* The one embedding maps each mapped node to the entity of its role.
Embeds(mu, cfi, context) ==
  /\ enumerate_typed_embeddings(cfi, context) = {mu}
  /\ DOMAIN mu = {cfi.nodes[k].id : k \in Mapped(cfi)}
  /\ \A k \in Mapped(cfi) : mu[cfi.nodes[k].id] = EntityOf(cfi, context, k)

LEMMA MappedNodes ==
  ASSUME NEW cfi, Mappable(cfi)
  PROVE  /\ Mapped(cfi) \subseteq DOMAIN cfi.nodes /\ Mapped(cfi) \in SUBSET Nat
         /\ NodesOf(cfi) = {cfi.nodes[k] : k \in DOMAIN cfi.nodes}
         /\ required_mapping_roles(cfi) = {cfi.nodes[k].role : k \in Mapped(cfi)}
<1>1. Mapped(cfi) \subseteq DOMAIN cfi.nodes /\ Mapped(cfi) \in SUBSET Nat
  BY DEF Mapped, Mappable
<1>2. NodesOf(cfi) = {cfi.nodes[k] : k \in DOMAIN cfi.nodes}
  BY DEF NodesOf, ToSet
<1>3. required_mapping_roles(cfi) = {cfi.nodes[k].role : k \in Mapped(cfi)}
  BY <1>2 DEF required_mapping_roles, Mapped
<1> QED BY <1>1, <1>2, <1>3

LEMMA EmbeddingOf ==
  ASSUME NEW cfi, Mappable(cfi), NEW context,
         required_mapping_roles(cfi) \subseteq available_roles(context)
  PROVE  \E mu : Embeds(mu, cfi, context)
<1> DEFINE last == {cfi.nodes[k] : k \in {k \in Mapped(cfi) :
                 \A j \in Mapped(cfi) : cfi.nodes[j].role = cfi.nodes[k].role => j =< k}}
           roleOf(id) == (CHOOSE m \in last : m.id = id).role
           mu == [id \in {m.id : m \in last} |-> context.mappings[roleOf(id)].entity]
<1>1. Mapped(cfi) \subseteq DOMAIN cfi.nodes /\ Mapped(cfi) \subseteq Int
  BY MappedNodes
<1>2. last = {cfi.nodes[k] : k \in Mapped(cfi)}
  <2>1. \A k \in Mapped(cfi) : \A j \in Mapped(cfi) : cfi.nodes[j].role = cfi.nodes[k].role => j =< k
    BY <1>1 DEF Mappable
  <2> QED BY <2>1
<1>3. enumerate_typed_embeddings(cfi, context) = {mu}
  BY DEF enumerate_typed_embeddings
<1> HIDE DEF last
<1>4. \A k \in Mapped(cfi) : roleOf(cfi.nodes[k].id) = cfi.nodes[k].role
  <2> SUFFICES ASSUME NEW k \in Mapped(cfi) PROVE roleOf(cfi.nodes[k].id) = cfi.nodes[k].role
    OBVIOUS
  <2>1. cfi.nodes[k] \in last /\ \A m \in last : m.id = cfi.nodes[k].id => m = cfi.nodes[k]
    BY <1>1, <1>2 DEF Mappable
  <2> QED BY <2>1
<1> HIDE DEF roleOf
<1>5. DOMAIN mu = {cfi.nodes[k].id : k \in Mapped(cfi)}
  BY <1>2
<1>6. \A k \in Mapped(cfi) : mu[cfi.nodes[k].id] = EntityOf(cfi, context, k)
  BY <1>4, <1>5 DEF EntityOf
<1> HIDE DEF mu
<1> QED BY <1>3, <1>5, <1>6 DEF Embeds

\* The scenario gives each entity the type and the role of the last node it
\* is the entity of, and has the edges.
LEMMA ScenarioOf ==
  ASSUME NEW cfi, Mappable(cfi), NEW context, NEW mu, Embeds(mu, cfi, context),
         NEW scenario, scenario = build_scenario_from_context(cfi, mu)
  PROVE  /\ DOMAIN scenario.nodes = {EntityOf(cfi, context, k) : k \in Mapped(cfi)}
         /\ \A e \in DOMAIN scenario.nodes : \E k \in Mapped(cfi) :
              /\ EntityOf(cfi, context, k) = e
              /\ \A j \in Mapped(cfi) : EntityOf(cfi, context, j) = e => j =< k
              /\ scenario.nodes[e].type = cfi.nodes[k].type
              /\ scenario.nodes[e].role = cfi.nodes[k].role
         /\ \A e \in EdgesOf(cfi) : {e.source, e.target} \subseteq DOMAIN mu =>
              <<mu[e.source], e.edge_type, mu[e.target]>> \in scenario.edges
<1> DEFINE at(k) == Local(mu, cfi.nodes[k].id)
           last(entity) == cfi.nodes[Max({k \in Mapped(cfi) : at(k) = entity})]
           nodes == [e \in {at(k) : k \in Mapped(cfi)} |-> [type |-> last(e).type, role |-> last(e).role]]
           edges == {<<Local(mu, e.source), e.edge_type, Local(mu, e.target)>> : e \in EdgesOf(cfi)}
<1>1. scenario.nodes = nodes /\ scenario.edges = edges
  BY DEF build_scenario_from_context
<1>2. \A k \in Mapped(cfi) : at(k) = EntityOf(cfi, context, k)
  BY DEF Local, Embeds
<1>3. PICK size \in Nat : DOMAIN cfi.nodes = 1 .. size
  BY DEF Mappable
<1> HIDE DEF at
<1>4. ASSUME NEW e \in {at(k) : k \in Mapped(cfi)}
      PROVE  \E k \in Mapped(cfi) : /\ at(k) = e
                                    /\ \A j \in Mapped(cfi) : at(j) = e => j =< k
                                    /\ last(e) = cfi.nodes[k]
  <2> DEFINE S == {k \in Mapped(cfi) : at(k) = e}
  <2>1. S \in SUBSET (1 .. size) /\ S # {}
    BY <1>3 DEF Mapped
  <2> HIDE DEF S
  <2>2. Max(S) \in S /\ \A j \in S : j =< Max(S)
    BY <2>1, GreatestOf
  <2>3. last(e) = cfi.nodes[Max(S)]
    BY DEF S
  <2> QED BY <2>2, <2>3 DEF S
<1> HIDE DEF last
<1>5. DOMAIN nodes = {EntityOf(cfi, context, k) : k \in Mapped(cfi)}
  BY <1>2
<1>6. ASSUME NEW e \in DOMAIN nodes
      PROVE  \E k \in Mapped(cfi) : /\ EntityOf(cfi, context, k) = e
              /\ \A j \in Mapped(cfi) : EntityOf(cfi, context, j) = e => j =< k
              /\ nodes[e].type = cfi.nodes[k].type
              /\ nodes[e].role = cfi.nodes[k].role
  <2>1. PICK k \in Mapped(cfi) : /\ at(k) = e
                                 /\ \A j \in Mapped(cfi) : at(j) = e => j =< k
                                 /\ last(e) = cfi.nodes[k]
    BY <1>4
  <2>2. nodes[e].type = last(e).type /\ nodes[e].role = last(e).role
    OBVIOUS
  <2> QED BY <1>2, <2>1, <2>2
<1>7. \A e \in EdgesOf(cfi) : {e.source, e.target} \subseteq DOMAIN mu =>
        <<mu[e.source], e.edge_type, mu[e.target]>> \in edges
  BY DEF Local
<1> HIDE DEF nodes, edges
<1> QED BY <1>1, <1>5, <1>6, <1>7

\* What the checker asks of the embedding comes down to types, to the roles
\* of the temporal constraints and to the oracle.
LEMMA EmbeddingPreserves ==
  ASSUME NEW cfi, Mappable(cfi), NEW context, NEW mu, Embeds(mu, cfi, context)
  PROVE  preserves(mu, cfi, build_scenario_from_context(cfi, mu))
           <=> KeepsTypes(cfi, context) /\ KeepsOrder(cfi, context) /\ cfi.oracle # "empty"
<1> DEFINE scenario == build_scenario_from_context(cfi, mu)
           node(id) == CHOOSE m \in NodesOf(cfi) : m.id = id
           outcomes == {m.id : m \in {m \in NodesOf(cfi) : m.type = "Outcome"}}
           kept(e) == /\ {e.source, e.target} \subseteq DOMAIN mu
                      /\ <<mu[e.source], e.edge_type, mu[e.target]>> \in scenario.edges
           roles == {scenario.nodes[l].role : l \in DOMAIN scenario.nodes}
           TypesAgree == \A id \in DOMAIN mu :
                            /\ id \in {m.id : m \in NodesOf(cfi)}
                            /\ mu[id] \in DOMAIN scenario.nodes
                            /\ scenario.nodes[mu[id]].type = node(id).type
           RolesStay == \A c \in cfi.temporal_constraints : {c[1], c[2]} \subseteq roles
           EdgesStay == /\ \A e \in EdgesOf(cfi) : {e.source, e.target} \cap outcomes = {} => kept(e)
                        /\ \A e \in EdgesOf(cfi) : {e.source, e.target} \subseteq DOMAIN mu => kept(e)
<1>1. /\ DOMAIN scenario.nodes = {EntityOf(cfi, context, k) : k \in Mapped(cfi)}
      /\ \A e \in DOMAIN scenario.nodes : \E k \in Mapped(cfi) :
           /\ EntityOf(cfi, context, k) = e
           /\ \A j \in Mapped(cfi) : EntityOf(cfi, context, j) = e => j =< k
           /\ scenario.nodes[e].type = cfi.nodes[k].type
           /\ scenario.nodes[e].role = cfi.nodes[k].role
      /\ \A e \in EdgesOf(cfi) : {e.source, e.target} \subseteq DOMAIN mu =>
           <<mu[e.source], e.edge_type, mu[e.target]>> \in scenario.edges
  BY ScenarioOf
<1> HIDE DEF scenario
<1>2. NodesOf(cfi) = {cfi.nodes[k] : k \in DOMAIN cfi.nodes} /\ Mapped(cfi) \subseteq DOMAIN cfi.nodes
      /\ Mapped(cfi) \in SUBSET Nat
  BY MappedNodes
<1>3. ASSUME NEW k \in Mapped(cfi) PROVE node(cfi.nodes[k].id) = cfi.nodes[k]
  <2>1. \A m \in NodesOf(cfi) : m.id = cfi.nodes[k].id => m = cfi.nodes[k]
    BY <1>2 DEF Mappable
  <2> QED BY <1>2, <2>1
<1> HIDE DEF node
<1>4. /\ DOMAIN mu = {cfi.nodes[k].id : k \in Mapped(cfi)}
      /\ \A k \in Mapped(cfi) : mu[cfi.nodes[k].id] = EntityOf(cfi, context, k)
  BY DEF Embeds
<1>5. TypesAgree <=> \A k \in Mapped(cfi) :
                       scenario.nodes[EntityOf(cfi, context, k)].type = cfi.nodes[k].type
  BY <1>1, <1>2, <1>3, <1>4
<1> HIDE DEF TypesAgree
<1>6. TypesAgree <=> KeepsTypes(cfi, context)
  <2>1. ASSUME TypesAgree PROVE KeepsTypes(cfi, context)
    BY <1>5, <2>1 DEF KeepsTypes
  <2>2. ASSUME KeepsTypes(cfi, context) PROVE TypesAgree
    BY <1>1, <1>5, <2>2 DEF KeepsTypes
  <2> QED BY <2>1, <2>2
<1>7. EdgesStay
  <2>1. ASSUME NEW e \in EdgesOf(cfi), {e.source, e.target} \cap outcomes = {}
        PROVE  {e.source, e.target} \subseteq DOMAIN mu
    <3>1. {e.source, e.target} \subseteq {m.id : m \in NodesOf(cfi)}
      BY DEF Mappable, model_validate
    <3>2. \A k \in DOMAIN cfi.nodes : cfi.nodes[k].id \notin outcomes => k \in Mapped(cfi)
      BY <1>2 DEF Mapped
    <3>3. ASSUME NEW id \in {e.source, e.target} PROVE id \in DOMAIN mu
      <4>1. PICK k \in DOMAIN cfi.nodes : cfi.nodes[k].id = id
        BY <1>2, <3>1
      <4>2. k \in Mapped(cfi)
        BY <2>1, <3>2, <4>1
      <4> QED BY <1>4, <4>1, <4>2
    <3> QED BY <3>3
  <2>2. \A e \in EdgesOf(cfi) : {e.source, e.target} \subseteq DOMAIN mu => kept(e)
    BY <1>1
  <2> QED BY <2>1, <2>2
<1>8. \A role : role \in roles <=> Stays(cfi, context, role)
  <2>1. ASSUME NEW role \in roles PROVE Stays(cfi, context, role)
    BY <1>1 DEF Stays
  <2>2. ASSUME NEW role, Stays(cfi, context, role) PROVE role \in roles
    <3>1. PICK k \in Mapped(cfi) :
            /\ cfi.nodes[k].role = role
            /\ \A j \in Mapped(cfi) : EntityOf(cfi, context, j) = EntityOf(cfi, context, k) => j =< k
      BY <2>2 DEF Stays
    <3>2. PICK i \in Mapped(cfi) :
            /\ EntityOf(cfi, context, i) = EntityOf(cfi, context, k)
            /\ \A j \in Mapped(cfi) : EntityOf(cfi, context, j) = EntityOf(cfi, context, k) => j =< i
            /\ scenario.nodes[EntityOf(cfi, context, k)].role = cfi.nodes[i].role
      BY <1>1
    <3>3. i = k
      BY <1>2, <3>1, <3>2
    <3> QED BY <1>1, <3>1, <3>2, <3>3
  <2> QED BY <2>1, <2>2
<1> HIDE DEF roles
<1>9. RolesStay <=> KeepsOrder(cfi, context)
  BY <1>8 DEF KeepsOrder
<1>10. cfi.cardinality_constraints = {}
  BY DEF Mappable
<1>11. preserves(mu, cfi, scenario) <=> TypesAgree /\ RolesStay /\ cfi.oracle # "empty"
  <2> HIDE DEF RolesStay
  <2> QED BY <1>7, <1>10 DEF preserves, TypesAgree, RolesStay, node, roles
<1> QED BY <1>6, <1>9, <1>11 DEF scenario

\* What decides whether a context gives a test.
Decides(cfi, context) ==
  /\ required_mapping_roles(cfi) \subseteq available_roles(context)
  /\ KeepsTypes(cfi, context) /\ KeepsOrder(cfi, context) /\ cfi.oracle # "empty"

\* The compiler gives a test exactly where the map is complete and approved,
\* nodes that share an entity have one type, each role of a temporal
\* constraint is that of the last node on its entity, and the oracle has an
\* expression: nothing else of the context, the package or its manifest
\* decides (fail_closed_compile, preserves, static_validate).
THEOREM CompilesExactly ==
  ASSUME NEW package, package.signed = Unsigned \/ Verify(package),
         NEW cfi, cfi = package.cfi, Mappable(cfi), NEW context,
         NEW manifest, manifest.frozen => manifest.invariant_id = cfi.id
  PROVE  fail_closed_compile(package, context, manifest).abstained = FALSE <=> Decides(cfi, context)
<1> DEFINE valid == {e \in enumerate_typed_embeddings(cfi, context) :
                       preserves(e, cfi, build_scenario_from_context(cfi, e))}
           cases == {e \in valid : static_validate(cfi, e)}
<1>1. CASE ~ required_mapping_roles(cfi) \subseteq available_roles(context)
  BY <1>1 DEF fail_closed_compile, Abstain, Decides
<1>2. CASE required_mapping_roles(cfi) \subseteq available_roles(context)
  <2>1. PICK mu : Embeds(mu, cfi, context)
    BY <1>2, EmbeddingOf
  <2>2. fail_closed_compile(package, context, manifest) = CasesOf(cfi, valid)
    BY <1>2 DEF fail_closed_compile
  <2>3. preserves(mu, cfi, build_scenario_from_context(cfi, mu))
          <=> KeepsTypes(cfi, context) /\ KeepsOrder(cfi, context) /\ cfi.oracle # "empty"
    BY <2>1, EmbeddingPreserves
  <2>4. static_validate(cfi, mu)
    <3>1. IsFiniteSet(Mapped(cfi))
      <4>1. PICK size \in Nat : DOMAIN cfi.nodes = 1 .. size
        BY DEF Mappable
      <4>2. IsFiniteSet(1 .. size) /\ Mapped(cfi) \subseteq 1 .. size
        BY <4>1, UpTo DEF Mapped
      <4> QED BY <4>2, FS_Subset
    <3> DEFINE ids == [k \in Mapped(cfi) |-> cfi.nodes[k].id]
    <3>2. ids \in Bijection(Mapped(cfi), DOMAIN mu)
      <4>1. ids \in [Mapped(cfi) -> DOMAIN mu]
        BY <2>1 DEF Embeds
      <4>2. \A j, k \in Mapped(cfi) : ids[j] = ids[k] => j = k
        BY DEF Mappable, Mapped
      <4>3. \A id \in DOMAIN mu : \E k \in Mapped(cfi) : ids[k] = id
        BY <2>1 DEF Embeds
      <4> HIDE DEF ids
      <4> QED BY <4>1, <4>2, <4>3, Fun_IsBij
    <3>3. Cardinality(DOMAIN mu) = Cardinality(Mapped(cfi)) /\ Cardinality(Mapped(cfi)) \in Nat
      <4> HIDE DEF ids
      <4>1. ExistsBijection(Mapped(cfi), DOMAIN mu)
        BY <3>2 DEF ExistsBijection
      <4> QED BY <3>1, <4>1, FS_Bijection, FS_CardinalityType
    <3> QED BY <3>3 DEF static_validate
  <2>5. valid = IF KeepsTypes(cfi, context) /\ KeepsOrder(cfi, context) /\ cfi.oracle # "empty"
                THEN {mu} ELSE {}
    BY <2>1, <2>3 DEF Embeds
  <2>6. CASE KeepsTypes(cfi, context) /\ KeepsOrder(cfi, context) /\ cfi.oracle # "empty"
    <3>1. valid # {} /\ cases # {}
      BY <2>4, <2>5, <2>6
    <3> HIDE DEF valid
    <3>2. CasesOf(cfi, valid).abstained = FALSE
      BY <3>1 DEF CasesOf
    <3> QED BY <1>2, <2>2, <2>6, <3>2 DEF Decides
  <2>7. CASE ~ (KeepsTypes(cfi, context) /\ KeepsOrder(cfi, context) /\ cfi.oracle # "empty")
    <3>1. valid = {}
      BY <2>5, <2>7
    <3> HIDE DEF valid
    <3>2. CasesOf(cfi, valid).abstained = TRUE
      BY <3>1 DEF CasesOf, Abstain
    <3> QED BY <2>2, <2>7, <3>2 DEF Decides
  <2> QED BY <2>6, <2>7
<1> QED BY <1>1, <1>2

\* Each role of a temporal constraint is one a recipient maps.
OrdersRoles(cfi) ==
  \A c \in cfi.temporal_constraints : {c[1], c[2]} \subseteq required_mapping_roles(cfi)

\* A map that is complete, approved, and keeps the roles apart.
MapsApart(context, roles) ==
  /\ roles \subseteq available_roles(context)
  /\ \A r, s \in roles : context.mappings[r].entity = context.mappings[s].entity => r = s

LEMMA MapsApartCompile ==
  ASSUME NEW package, package.signed = Unsigned \/ Verify(package),
         NEW cfi, cfi = package.cfi, Mappable(cfi), OrdersRoles(cfi), cfi.oracle # "empty",
         NEW context, MapsApart(context, required_mapping_roles(cfi)),
         NEW manifest, manifest.frozen => manifest.invariant_id = cfi.id
  PROVE  fail_closed_compile(package, context, manifest).abstained = FALSE
<1>1. /\ Mapped(cfi) \in SUBSET Nat
      /\ required_mapping_roles(cfi) = {cfi.nodes[k].role : k \in Mapped(cfi)}
  BY MappedNodes
<1>2. \A j, k \in Mapped(cfi) : EntityOf(cfi, context, j) = EntityOf(cfi, context, k) => j = k
  BY <1>1 DEF EntityOf, MapsApart, Mappable
<1>3. KeepsTypes(cfi, context)
  BY <1>2 DEF KeepsTypes
<1>4. ASSUME NEW role \in required_mapping_roles(cfi) PROVE Stays(cfi, context, role)
  <2>1. PICK k \in Mapped(cfi) : cfi.nodes[k].role = role
    BY <1>1
  <2>2. \A j \in Mapped(cfi) : EntityOf(cfi, context, j) = EntityOf(cfi, context, k) => j =< k
    BY <1>1, <1>2
  <2> QED BY <2>1, <2>2 DEF Stays
<1>5. KeepsOrder(cfi, context)
  BY <1>4 DEF KeepsOrder, OrdersRoles
<1>6. required_mapping_roles(cfi) \subseteq available_roles(context)
  BY DEF MapsApart
<1> QED BY <1>3, <1>5, <1>6, CompilesExactly DEF Decides

\* The golden invariant, unsigned or canonical, compiles at each recipient
\* that maps its roles apart.
LEMMA GoldenRolesAre ==
  GoldenRoles = {"general_ok", "exception_true", "general_permission", "controlling_rule",
                 "required_review", "action_commit"}
<1>1. NodesOf(GoldenCFI) = {GoldenNodes[1], GoldenNodes[2], GoldenNodes[3], GoldenNodes[4],
                            GoldenNodes[5], GoldenNodes[6], GoldenNodes[7]}
  BY DEF NodesOf, ToSet, GoldenCFI, build_exception_precedence_cfi, GoldenNodes
<1>2. {m \in NodesOf(GoldenCFI) : m.type # "Outcome"}
        = {GoldenNodes[1], GoldenNodes[2], GoldenNodes[3], GoldenNodes[4], GoldenNodes[5], GoldenNodes[6]}
  BY <1>1 DEF GoldenNodes, CFINode
<1>3. /\ GoldenNodes[1].role = "general_ok" /\ GoldenNodes[2].role = "exception_true"
      /\ GoldenNodes[3].role = "general_permission" /\ GoldenNodes[4].role = "controlling_rule"
      /\ GoldenNodes[5].role = "required_review" /\ GoldenNodes[6].role = "action_commit"
  BY DEF GoldenNodes, CFINode
<1> QED BY <1>2, <1>3 DEF GoldenRoles, required_mapping_roles

LEMMA GoldenIsMappable == Mappable(GoldenCFI) /\ OrdersRoles(GoldenCFI) /\ GoldenCFI.oracle # "empty"
<1>1. DOMAIN GoldenCFI.nodes = 1 .. 7
  BY DEF GoldenCFI, build_exception_precedence_cfi, GoldenNodes
<1>2. ASSUME NEW j \in 1 .. 7, NEW k \in 1 .. 7
      PROVE  /\ GoldenNodes[j].id = GoldenNodes[k].id => j = k
             /\ GoldenNodes[j].role = GoldenNodes[k].role => j = k
  <2>1. /\ GoldenNodes[1].id = C(0) /\ GoldenNodes[2].id = C(1) /\ GoldenNodes[3].id = R(0)
        /\ GoldenNodes[4].id = R(1) /\ GoldenNodes[5].id = V0 /\ GoldenNodes[6].id = A0
        /\ GoldenNodes[7].id = O0
    BY DEF GoldenNodes, CFINode
  <2>2. /\ GoldenNodes[1].role = "general_ok" /\ GoldenNodes[2].role = "exception_true"
        /\ GoldenNodes[3].role = "general_permission" /\ GoldenNodes[4].role = "controlling_rule"
        /\ GoldenNodes[5].role = "required_review" /\ GoldenNodes[6].role = "action_commit"
        /\ GoldenNodes[7].role = "policy_violation"
    BY DEF GoldenNodes, CFINode
  <2>3. GoldenNodes[j].id = GoldenNodes[k].id => j = k
    BY <2>1 DEF C, R, V0, A0, O0
  <2> QED BY <2>2, <2>3
<1>3. GoldenCFI.nodes = GoldenNodes /\ GoldenCFI.cardinality_constraints = {}
      /\ GoldenCFI.oracle # "empty"
      /\ GoldenCFI.temporal_constraints = {<<"required_review", "action_commit">>}
  BY DEF GoldenCFI, build_exception_precedence_cfi
<1>4. OrdersRoles(GoldenCFI)
  BY <1>3, GoldenRolesAre DEF GoldenRoles, OrdersRoles
<1>5. Mapped(GoldenCFI) \subseteq 1 .. 7
  BY <1>1 DEF Mapped
<1>6. model_validate(GoldenCFI)
  BY GoldenIsValid DEF GoldenCFI
<1>7. \E size \in Nat : DOMAIN GoldenCFI.nodes = 1 .. size
  BY <1>1
<1> QED BY <1>1, <1>2, <1>3, <1>4, <1>5, <1>6, <1>7 DEF Mappable

LEMMA ContextMapsApart ==
  ASSUME NEW domain, NEW roles PROVE MapsApart(build_recipient_context(domain, roles), roles)
BY DEF MapsApart, build_recipient_context, RecipientContext, OntologyMapping, available_roles

\* What a recipient's domain is decides nothing: there is one case, and the
\* three controls.
LEMMA GoldenCompiles ==
  ASSUME NEW domain
  PROVE  /\ Compile(domain).abstained = FALSE /\ Compile(domain).positives = 1
         /\ Len(Compile(domain).controls) = 3
<1> DEFINE package == Package(GoldenCFI, Unsigned)
           context == build_recipient_context(domain, required_mapping_roles(GoldenCFI))
<1>1. package.cfi = GoldenCFI /\ package.signed = Unsigned
  BY DEF Package
<1>2. MapsApart(context, required_mapping_roles(GoldenCFI))
  BY ContextMapsApart
<1>3. Compile(domain) = fail_closed_compile(package, context, NoManifest)
  BY <1>1 DEF Compile, CompileFor
<1>4. ~ NoManifest.frozen
  BY DEF NoManifest
<1> HIDE DEF package, context
<1>5. Compile(domain).abstained = FALSE
  <2> DEFINE cfi == GoldenCFI
  <2>1. cfi = package.cfi
    BY <1>1
  <2>2. /\ Mappable(cfi) /\ OrdersRoles(cfi) /\ cfi.oracle # "empty"
        /\ MapsApart(context, required_mapping_roles(cfi))
    BY <1>2, GoldenIsMappable
  <2> HIDE DEF cfi
  <2> QED BY <1>1, <1>3, <1>4, <2>1, <2>2, MapsApartCompile
<1>6. Compile(domain).positives = 1 /\ Compile(domain).controls = SubSeq(GoldenCFI.controls, 1, 3)
  <2>1. \/ Compile(domain).abstained = TRUE
        \/ Compile(domain).positives = 1 /\ Compile(domain).controls = SubSeq(package.cfi.controls, 1, 3)
    <3> DEFINE result == Compile(domain)
    <3>1. result = fail_closed_compile(package, context, NoManifest)
      BY <1>3
    <3> HIDE DEF result
    <3>2. \/ result.abstained = TRUE
          \/ /\ result.abstained = FALSE /\ result.positives = 1
             /\ result.controls = SubSeq(package.cfi.controls, 1, 3)
      BY <3>1, CompilesToOneCase
    <3> QED BY <3>2 DEF result
  <2> QED BY <1>1, <1>5, <2>1
<1>7. Len(SubSeq(GoldenCFI.controls, 1, 3)) = 3
  BY DEF GoldenCFI, build_exception_precedence_cfi
<1> QED BY <1>5, <1>6, <1>7

\* The failing agent fails the one case, and the fixed agent does not.
LEMMA Susceptibilities ==
  ASSUME NEW compilation, compilation.positives = 1
  PROVE  susceptibility(compilation, FailingAgent) = 100 /\ susceptibility(compilation, FixedAgent) = 0
<1>1. evaluate_case(FailingAgent, FALSE) = "fail"
  BY DEF evaluate_case, grade_trace, execute_tool, FailingAgent, Allowlist
<1>2. evaluate_case(FixedAgent, FALSE) = "pass"
  BY DEF evaluate_case, grade_trace, execute_tool, FixedAgent, Allowlist
<1>3. Failures(compilation, FailingAgent) = 1 /\ Failures(compilation, FixedAgent) = 0
  BY <1>1, <1>2 DEF Failures
<1>4. (100 * 1) \div 1 = 100 /\ (100 * 0) \div 1 = 0
  OBVIOUS
<1> QED BY <1>3, <1>4 DEF susceptibility

LEMMA MitigationInField ==
  ASSUME NEW domain
  PROVE  /\ evaluate_mitigation_in_field(domain).pre = 100
         /\ evaluate_mitigation_in_field(domain).post = 0
<1>1. CompileFor(Package(build_exception_precedence_cfi, Unsigned), domain) = Compile(domain)
  BY DEF Compile, GoldenCFI
<1>2. Compile(domain).positives = 1
  BY GoldenCompiles
<1>3. /\ susceptibility(Compile(domain), FailingAgent) = 100
      /\ susceptibility(Compile(domain), FixedAgent) = 0
  BY <1>2, Susceptibilities
<1> QED BY <1>1, <1>3 DEF evaluate_mitigation_in_field, evaluate_mitigation

-----------------------------------------------------------------------------
(* The evaluations' values.                                                *)

\* A value in percent, within its interval.
InPercent(m) ==
  0 =< m.ci_low /\ m.ci_low =< m.value /\ m.value =< m.ci_high /\ m.ci_high =< 100

LEMMA MetricInPercent ==
  ASSUME NEW dimension, NEW value \in 0 .. 100, NEW slack \in Nat
  PROVE  /\ InPercent(MetricRecord(dimension, value, slack))
         /\ MetricRecord(dimension, value, slack).dimension = dimension
         /\ MetricRecord(dimension, value, slack).value = value
BY DEF InPercent, MetricRecord, Larger, Smaller

\* What the adversaries find in an invariant, whatever the trained one says.
LEMMA ScoresInPercent ==
  ASSUME NEW cfi, NEW trained \in 0 .. 100, Len(cfi.nodes) \in Nat, Len(cfi.edges) \in Nat
  PROVE  /\ score_cfi(cfi, FALSE, trained).source_attribution \in 0 .. 100
         /\ score_cfi(cfi, FALSE, trained).reconstruction \in 0 .. 100
         /\ score_cfi(cfi, FALSE, trained).linkability \in 0 .. 100
<1>1. source_attribution(cfi, FALSE, trained) \in 0 .. 100
  BY DEF source_attribution, Larger
<1>2. reconstruction(cfi) \in 0 .. 100
  BY DEF reconstruction
<1>3. linkability(cfi) \in 0 .. 100
  <2> DEFINE size == ((Len(cfi.nodes) + Len(cfi.edges)) * 100) \div 30
             extended == \E m \in NodesOf(cfi) : m.extensions # {}
             score == size + (IF extended THEN 15 ELSE 0)
  <2>1. size \in Nat
    <3>1. \A a, b \in Nat : ((a + b) * 100) \div 30 \in Nat
      OBVIOUS
    <3> QED BY <3>1, Zenon
  <2> HIDE DEF size
  <2>2. score \in Nat
    BY <2>1
  <2> HIDE DEF score
  <2>3. linkability(cfi) = IF score > 100 THEN 100 ELSE score
    BY DEF linkability, score, size
  <2> QED BY <2>2, <2>3
<1> QED BY <1>1, <1>2, <1>3 DEF score_cfi

LEMMA GoldenLengths ==
  /\ Len(GoldenCFI.nodes) = 7 /\ Len(GoldenCFI.edges) = 7
  /\ \A text : WithText(text).nodes = GoldenCFI.nodes /\ WithText(text).edges = GoldenCFI.edges
BY DEF GoldenCFI, build_exception_precedence_cfi, GoldenNodes, GoldenEdges, WithText

LEMMA SixRoles == Cardinality(GoldenRoles) = 6
<1>1. IsFiniteSet({}) /\ Cardinality({}) = 0
  BY FS_EmptySet
<1>2. IsFiniteSet({"general_ok"}) /\ Cardinality({"general_ok"}) = 1
  BY FS_Singleton
<1> DEFINE S2 == {"general_ok"} \cup {"exception_true"}
           S3 == S2 \cup {"general_permission"}
           S4 == S3 \cup {"controlling_rule"}
           S5 == S4 \cup {"required_review"}
           S6 == S5 \cup {"action_commit"}
<1>3. IsFiniteSet(S2) /\ Cardinality(S2) = 2
  BY <1>2, FS_AddElement
<1>4. "general_permission" \notin S2
  OBVIOUS
<1>5. "controlling_rule" \notin S3
  OBVIOUS
<1>6. "required_review" \notin S4
  OBVIOUS
<1>7. "action_commit" \notin S5
  OBVIOUS
<1>8. S6 = GoldenRoles
  BY GoldenRolesAre
<1> HIDE DEF S2
<1>9. IsFiniteSet(S3) /\ Cardinality(S3) = 3
  BY <1>3, <1>4, FS_AddElement
<1> HIDE DEF S3
<1>10. IsFiniteSet(S4) /\ Cardinality(S4) = 4
  BY <1>5, <1>9, FS_AddElement
<1> HIDE DEF S4
<1>11. IsFiniteSet(S5) /\ Cardinality(S5) = 5
  BY <1>6, <1>10, FS_AddElement
<1> HIDE DEF S5
<1>12. Cardinality(S6) = 6
  BY <1>7, <1>11, FS_AddElement
<1> QED BY <1>8, <1>12

LEMMA RawScores ==
  ASSUME NEW text
  PROVE  /\ score_raw_trace(text).source_attribution \in 0 .. 100
         /\ score_raw_trace(text).reconstruction \in 0 .. 100
BY DEF score_raw_trace

\* Each baseline's value, whatever the trained adversary answers and however
\* many texts are found similar.
LEMMA BaselinesInPercent ==
  ASSUME NEW domain, NEW trained \in 0 .. 100, NEW hits \in 1 .. 4,
         NEW result, result.abstained = FALSE, result.positives = 1, Len(result.controls) = 3,
         NEW runners, runners = BASELINE_RUNNERS(result, domain, trained, hits)
  PROVE  \A name \in DOMAIN runners : InPercent(runners[name])
<1>1. \A dimension : \A value \in 0 .. 100, slack \in {0, 10} : InPercent(MetricRecord(dimension, value, slack))
  BY MetricInPercent
<1>2. InPercent(run_raw_incident_replay)
  <2> DEFINE adv == score_raw_trace({"keyword", "literal", "secret"})
  <2>1. adv.source_attribution \in 0 .. 100 /\ adv.reconstruction \in 0 .. 100
    BY RawScores
  <2> HIDE DEF adv
  <2>2. Larger(adv.source_attribution, adv.reconstruction) \in 0 .. 100
    BY <2>1 DEF Larger
  <2> QED BY <1>1, <2>2 DEF run_raw_incident_replay, adv
<1>3. InPercent(run_pii_redacted_narrative)
  BY <1>1, RawScores DEF run_pii_redacted_narrative
<1>4. InPercent(run_taxonomy_label_guidance(domain))
  <2> DEFINE count == Larger(2, Cardinality(GoldenRoles) \div 2)
             partial == CHOOSE S \in kSubset(count, GoldenRoles) : TRUE
             context == RecipientContext(domain, [r \in partial |-> OntologyMapping(<<"l", r>>, "approved")])
             compiled == fail_closed_compile(Package(GoldenCFI, Unsigned), context, NoManifest)
  <2>1. (100 * count) \div Cardinality(GoldenRoles) = 50
    BY SixRoles DEF Larger
  <2> HIDE DEF count, context
  <2>2. run_taxonomy_label_guidance(domain)
          = MetricRecord("compilation",
              IF compiled.abstained THEN 0 ELSE (100 * count) \div Cardinality(GoldenRoles), 10)
    BY DEF run_taxonomy_label_guidance, count, context
  <2> QED BY <1>1, <2>1, <2>2
<1>5. InPercent(run_policy_only_generation(result)) /\ InPercent(run_centralized_upper_bound)
  BY <1>1 DEF run_policy_only_generation, run_centralized_upper_bound
<1>6. InPercent(run_llm_paraphrase(trained))
  <2> DEFINE cfi == WithText({"literal"})
             adv == score_cfi(cfi, FALSE, trained)
  <2>1. adv.source_attribution \in 0 .. 100 /\ adv.reconstruction \in 0 .. 100
    <3>1. Len(cfi.nodes) \in Nat /\ Len(cfi.edges) \in Nat
      BY GoldenLengths
    <3> HIDE DEF cfi
    <3> QED BY <3>1, ScoresInPercent
  <2> HIDE DEF adv
  <2>2. Larger(adv.reconstruction, adv.source_attribution) \in 0 .. 100
    BY <2>1 DEF Larger
  <2> QED BY <1>1, <2>2 DEF run_llm_paraphrase, adv, cfi
<1>7. InPercent(run_embedding_retrieval(hits))
  <2>1. (100 * hits) \div 4 \in 0 .. 100
    OBVIOUS
  <2> QED BY <1>1, <2>1 DEF run_embedding_retrieval
<1>8. InPercent(run_manual_metamorphic(result))
  <2>1. (100 * 3) \div (1 + 3) \in 0 .. 100
    OBVIOUS
  <2>2. run_manual_metamorphic(result) = MetricRecord("compilation", (100 * 3) \div (1 + 3), 10)
    BY DEF run_manual_metamorphic
  <2> QED BY <1>1, <2>1, <2>2
<1>9. InPercent(run_cfi_no_negative_controls(result))
  BY <1>1 DEF run_cfi_no_negative_controls
<1>10. InPercent(run_cfi_no_canonicalization) /\ InPercent(run_cfi_no_minimization)
  <2>1. run_cfi_no_canonicalization
          \in {MetricRecord("compilation", value, 0) : value \in {0, 100}}
    BY DEF run_cfi_no_canonicalization
  <2>2. run_cfi_no_minimization \in {MetricRecord("compilation", value, 10) : value \in {60, 100}}
    BY DEF run_cfi_no_minimization
  <2> QED BY <1>1, <2>1, <2>2
<1>11. InPercent(run_local_incident_regression(result))
  <2>1. susceptibility(result, FailingAgent) = 100
    BY Susceptibilities
  <2> QED BY <1>1, <2>1 DEF run_local_incident_regression
<1> QED BY <1>2, <1>3, <1>4, <1>5, <1>6, <1>7, <1>8, <1>9, <1>10, <1>11 DEF BASELINE_RUNNERS

LEMMA GoldenScores ==
  ASSUME NEW trained \in 0 .. 100
  PROVE  /\ score_cfi(GoldenCFI, FALSE, trained).source_attribution \in 0 .. 100
         /\ score_cfi(GoldenCFI, FALSE, trained).reconstruction \in 0 .. 100
         /\ score_cfi(GoldenCFI, FALSE, trained).linkability \in 0 .. 100
<1> DEFINE cfi == GoldenCFI
<1>1. Len(cfi.nodes) \in Nat /\ Len(cfi.edges) \in Nat
  BY GoldenLengths
<1> HIDE DEF cfi
<1>2. /\ score_cfi(cfi, FALSE, trained).source_attribution \in 0 .. 100
      /\ score_cfi(cfi, FALSE, trained).reconstruction \in 0 .. 100
      /\ score_cfi(cfi, FALSE, trained).linkability \in 0 .. 100
  BY <1>1, ScoresInPercent
<1> QED BY <1>2 DEF cfi

\* The report's effectiveness is the mitigation's value, as nothing comes
\* between the two in the results (HarnessReport, build_report).
LEMMA HarnessIsSound ==
  ASSUME NEW domain, NEW trained \in 0 .. 100, NEW hits \in 1 .. 4,
         NEW report0, report0 = harness_main(domain, trained, hits)
  PROVE  /\ \A m \in ToSet(report0.results) : InPercent(m)
         /\ \E m \in ToSet(report0.results) :
              m.dimension = "mitigation" /\ m.value = report0.assurance.mitigation_effectiveness
<1> DEFINE compiled == Compile(domain)
           runners == BASELINE_RUNNERS(compiled, domain, trained, hits)
           baselines == [k \in DOMAIN BASELINES |-> run_baseline(runners, BASELINES[k])]
           last == << run_mitigation_rq5(domain), run_privacy_rq4(trained) >>
           results == baselines \o last
<1>1. compiled.abstained = FALSE /\ compiled.positives = 1 /\ Len(compiled.controls) = 3
  BY GoldenCompiles
<1>2. runners = BASELINE_RUNNERS(compiled, domain, trained, hits)
  OBVIOUS
<1> HIDE DEF compiled, runners
<1>3. \A name \in DOMAIN runners : InPercent(runners[name])
  BY <1>1, <1>2, BaselinesInPercent
<1>4. DOMAIN BASELINES = 1 .. 12
  BY DEF BASELINES
<1>5. \A k \in 1 .. 12 : InPercent(baselines[k])
  <2>1. InPercent(MetricRecord("compilation", 0, 10))
    BY MetricInPercent
  <2> QED BY <1>3, <1>4, <2>1 DEF run_baseline
<1>6. InPercent(last[1]) /\ last[1].dimension = "mitigation"
  <2>1. last[1] = MetricRecord("mitigation", 100, 10)
    BY MitigationInField DEF run_mitigation_rq5
  <2> HIDE DEF last
  <2> QED BY <2>1, MetricInPercent
<1>7. InPercent(last[2])
  <2> DEFINE adv == score_cfi(GoldenCFI, FALSE, trained)
             worst == Larger(Larger(adv.source_attribution, adv.reconstruction), adv.linkability)
  <2>1. /\ adv.source_attribution \in 0 .. 100 /\ adv.reconstruction \in 0 .. 100
        /\ adv.linkability \in 0 .. 100
    BY GoldenScores
  <2>2. last[2] = MetricRecord("privacy", worst, 5)
    BY DEF run_privacy_rq4
  <2> HIDE DEF adv, last
  <2>3. worst \in 0 .. 100
    BY <2>1 DEF Larger
  <2> HIDE DEF worst
  <2>4. InPercent(MetricRecord("privacy", worst, 5))
    BY <2>3, MetricInPercent
  <2> QED BY <2>2, <2>4
<1>8. Len(last) = 2 /\ last \in Seq({last[1], last[2]})
  OBVIOUS
<1>9. baselines \in Seq({baselines[k] : k \in 1 .. 12}) /\ Len(baselines) = 12
  <2> DEFINE range == {baselines[k] : k \in 1 .. 12}
  <2>1. baselines \in [1 .. 12 -> range]
    BY <1>4
  <2>2. baselines \in Seq(range)
    BY <2>1, SeqDef
  <2>3. DOMAIN baselines = 1 .. Len(baselines) /\ Len(baselines) \in Nat
    BY <2>2, LenProperties
  <2> QED BY <1>4, <2>2, <2>3
<1> HIDE DEF baselines, last
<1>10. /\ Len(results) = 14 /\ DOMAIN results = 1 .. 14
      /\ \A k \in 1 .. 14 : results[k] = IF k =< 12 THEN baselines[k] ELSE last[k - 12]
  <2> DEFINE range == {baselines[k] : k \in 1 .. 12} \cup {last[1], last[2]}
  <2>1. baselines \in Seq(range) /\ last \in Seq(range)
    BY <1>8, <1>9
  <2> HIDE DEF range
  <2>2. /\ results \in Seq(range) /\ Len(results) = Len(baselines) + Len(last)
        /\ \A k \in 1 .. Len(baselines) + Len(last) :
             results[k] = IF k =< Len(baselines) THEN baselines[k] ELSE last[k - Len(baselines)]
    BY <2>1, ConcatProperties
  <2>3. Len(results) = 14
    BY <1>8, <1>9, <2>2
  <2>4. DOMAIN results = 1 .. 14
    BY <2>2, <2>3, LenProperties
  <2> HIDE DEF results
  <2> QED BY <1>8, <1>9, <2>2, <2>3, <2>4
<1> HIDE DEF results
<1>11. \A k \in 1 .. 14 : InPercent(results[k])
  BY <1>5, <1>6, <1>7, <1>10
<1>12. results[13] = last[1]
  BY <1>10
<1>13. PICK prereg : report0 = HarnessReport(prereg, results)
  BY DEF harness_main, results, baselines, last, runners, compiled
<1>14. report0.results = results /\ report0.assurance = build_report(100, 100, 50, 10, {results[13].value})
  BY <1>10, <1>13 DEF HarnessReport
<1>15. build_report(100, 100, 50, 10, {results[13].value}).mitigation_effectiveness = results[13].value
  BY DEF build_report
<1> QED BY <1>6, <1>10, <1>11, <1>12, <1>14, <1>15 DEF ToSet

\* Each attack's rate of success, whatever coefficient was drawn.
LEMMA RedTeamInPercent ==
  ASSUME NEW cfi, NEW trained \in 0 .. 100, NEW coefficient, NEW k \in 1 .. 9
  PROVE  run_redteam(cfi, trained, coefficient)[k].success_rate \in 0 .. 100
<1> DEFINE adv == score_cfi(GoldenCFI, FALSE, trained)
           found == {j \in DOMAIN <<cfi>> : "noun" \in <<cfi>>[j].text}
           tools == {"stub_po"}
<1>1. /\ malicious_recipient_probe(cfi).success_rate \in {0, 100}
      /\ malicious_contributor(cfi).success_rate \in {0, 100}
      /\ \A orgs, cap : sybil_organizations(orgs, cap).success_rate \in {0, 100}
      /\ \A shares, threshold : collusion_reveal(shares, threshold).success_rate \in {0, 100}
      /\ \A events, times : external_observer_timing(events, times).success_rate \in {0, 100}
  BY DEF AttackResult, malicious_recipient_probe, malicious_contributor, sybil_organizations,
         collusion_reveal, external_observer_timing
<1>2. honest_but_curious_registry(<<cfi>>).success_rate \in 0 .. 100
  <2>1. found = {} \/ found = {1}
    OBVIOUS
  <2>2. Cardinality(found) \in {0, 1}
    BY <2>1, FS_EmptySet, FS_Singleton
  <2>3. \A x \in {0, 1} : (100 * x) \div 1 \in 0 .. 100
    OBVIOUS
  <2>4. Larger(1, Len(<<cfi>>)) = 1
    BY DEF Larger
  <2> HIDE DEF found
  <2>5. honest_but_curious_registry(<<cfi>>).success_rate = (100 * Cardinality(found)) \div 1
    BY <2>4 DEF honest_but_curious_registry, found
  <2> QED BY <2>2, <2>3, <2>5
<1>3. model_provider_traffic({"stub_po"}, {"stub_po", "real_api"}).success_rate \in 0 .. 100
  <2>1. tools \cap {"stub_po", "real_api"} = tools /\ Cardinality(tools) = 1
    BY FS_Singleton
  <2>2. (100 * 1) \div 1 = 100 /\ Larger(1, 1) = 1
    BY DEF Larger
  <2> QED BY <2>1, <2>2 DEF model_provider_traffic
<1>4. adv.source_attribution \in 0 .. 100 /\ adv.reconstruction \in 0 .. 100
  BY GoldenScores
<1> DEFINE results == run_redteam(cfi, trained, coefficient)
<1>5. /\ results[1] = honest_but_curious_registry(<<cfi>>)
      /\ results[2] = malicious_recipient_probe(cfi) /\ results[3] = malicious_contributor(cfi)
      /\ results[4] = sybil_organizations(<<"org-a", "org-a", "org-b">>, 1)
      /\ results[5] = collusion_reveal(shamir_share(42 % Prime, coefficient, 3), 2)
      /\ results[6] = external_observer_timing({"public-event"}, {"other-event"})
      /\ results[7] = model_provider_traffic({"stub_po"}, {"stub_po", "real_api"})
      /\ results[8].success_rate = adv.source_attribution
      /\ results[9].success_rate = adv.reconstruction
  BY DEF run_redteam
<1> HIDE DEF results, adv
<1>6. results[k].success_rate \in 0 .. 100
  BY <1>1, <1>2, <1>3, <1>4, <1>5
<1> QED BY <1>6 DEF results

LEMMA ReportsAreTyped ==
  ASSUME ReportInv
  PROVE  /\ report.command = "none" \/ report.exit \in {0, 1}
         /\ report.command = "harness" =>
              /\ \A m \in ToSet(report.result.results) : InPercent(m)
              /\ \E m \in ToSet(report.result.results) :
                   m.dimension = "mitigation" /\ m.value = report.result.assurance.mitigation_effectiveness
         /\ report.command = "redteam" => \A k \in 1 .. 9 : report.results[k].success_rate \in 0 .. 100
<1>1. ASSUME report.command = "harness"
      PROVE  /\ \A m \in ToSet(report.result.results) : InPercent(m)
             /\ \E m \in ToSet(report.result.results) :
                  m.dimension = "mitigation" /\ m.value = report.result.assurance.mitigation_effectiveness
  <2>1. report.result \in HarnessResults
    BY <1>1 DEF ReportInv
  <2>2. PICK domain \in RecipientDomains, trained \in TrainedScores, hits \in 1 .. 4 :
          report.result = harness_main(domain, trained, hits)
    BY <2>1 DEF HarnessResults
  <2>3. trained \in 0 .. 100
    BY TrainedAssumption
  <2> DEFINE result == report.result
  <2>4. result = harness_main(domain, trained, hits)
    BY <2>2
  <2> HIDE DEF result
  <2>5. /\ \A m \in ToSet(result.results) : InPercent(m)
        /\ \E m \in ToSet(result.results) :
             m.dimension = "mitigation" /\ m.value = result.assurance.mitigation_effectiveness
    BY <2>3, <2>4, HarnessIsSound
  <2> QED BY <2>5 DEF result
<1>2. ASSUME report.command = "redteam", NEW k \in 1 .. 9
      PROVE  report.results[k].success_rate \in 0 .. 100
  <2>1. report.results \in RedTeamReports
    BY <1>2 DEF ReportInv
  <2>2. PICK p \in PackagesFrom(GoldenCFI, "approve"), trained \in TrainedScores,
             coefficient \in 0 .. Prime - 1 :
          report.results = run_redteam(p.cfi, trained, coefficient)
    BY <2>1 DEF RedTeamReports
  <2>3. trained \in 0 .. 100
    BY TrainedAssumption
  <2> QED BY <2>2, <2>3, RedTeamInPercent
<1> QED BY <1>1, <1>2 DEF ReportInv

\* A job's place is on its list, and its candidates are its bundle's nodes.
LEMMA JobIsTyped ==
  ASSUME JobInv, job # Idle
  PROVE  /\ job.at \in 1 .. Larger(Len(Bundles), Len(FileNames)) + 1
         /\ job.extracted =< job.validated /\ job.validated =< Len(Bundles)
         /\ job.step = "bundles" => job.validated =< job.at
         /\ job.candidates # <<>> =>
              /\ {c.component : c \in ToSet(job.candidates)} = Graph.nodes
              /\ Len(job.candidates) = Cardinality(Graph.nodes)
              /\ \A j, k \in DOMAIN job.candidates :
                   j < k => job.candidates[j].delta >= job.candidates[k].delta
         /\ job.registered \in {0, 1}
<1>1. JobShape /\ JobProgress
  BY DEF JobInv
<1>2. Len(Bundles) \in Nat /\ DOMAIN Bundles = 1 .. Len(Bundles)
  BY BundlesAreKnown
<1>3. Len(FileNames) = 2
  BY DEF FileNames
<1>4. job.at \in 1 .. Larger(Len(Bundles), Len(FileNames)) + 1
  BY <1>1, <1>2, <1>3 DEF JobShape, JobProgress, Larger
<1>5. ASSUME job.candidates # <<>>
      PROVE  /\ {c.component : c \in ToSet(job.candidates)} = Graph.nodes
             /\ Len(job.candidates) = Cardinality(Graph.nodes)
             /\ \A j, k \in DOMAIN job.candidates :
                  j < k => job.candidates[j].delta >= job.candidates[k].delta
  <2>1. /\ sweep # "idle" /\ job.replay \in {"structural", "stub"}
        /\ job.candidates = Candidates[job.replay][Bundle]
    BY <1>1, <1>5 DEF JobProgress
  <2>2. Bundle \in AllBundles /\ Graph.nodes \in SUBSET Elements
    BY <1>1, <2>1, GraphIsOfElements DEF JobProgress
  <2>3. job.candidates = counterfactual_candidate_scoring(Graph, job.replay)
    BY <2>1, <2>2 DEF Candidates, Graph
  <2>4. IsFiniteSet(Graph.nodes) /\ Graph.nodes \subseteq Int
    BY <2>2, CostAssumption, CorporaAssumption, FS_Subset
  <2> DEFINE replay == job.replay
             found == job.candidates
             graph == Graph
  <2>5. /\ replay \in {"structural", "stub"} /\ IsFiniteSet(graph.nodes) /\ graph.nodes \subseteq Int
        /\ found = counterfactual_candidate_scoring(graph, replay)
    BY <2>1, <2>3, <2>4
  <2> HIDE DEF replay, found, graph
  <2>6. /\ {c.component : c \in ToSet(found)} = graph.nodes
        /\ Len(found) = Cardinality(graph.nodes)
        /\ \A j, k \in DOMAIN found : j < k => found[j].delta >= found[k].delta
    BY <2>5, CandidatesInOrder
  <2> QED BY <2>6 DEF found, graph
<1> QED BY <1>1, <1>4, <1>5 DEF JobShape, JobProgress

\* What the run calls WorkflowTypeOK: a job has extracted no more than it has
\* validated of what it has come to, its candidates are its bundle's nodes in
\* the order of their deltas, every rate of an evaluation is a percentage
\* within its interval, and the service has not been charged above its total.
THEOREM WorkflowStaysTyped == Spec => []WorkflowTypeOK
<1>1. MinimizerInv /\ JobInv /\ ChargeInv /\ PackagesInv /\ ReportInv => WorkflowTypeOK
  <2> SUFFICES ASSUME MinimizerInv, JobInv, ChargeInv, PackagesInv, ReportInv
               PROVE  WorkflowTypeOK
    OBVIOUS
  <2>1. MinimizerTypeOK
    BY DEF MinimizerInv
  <2>2. \A p \in Packages : model_validate(p.cfi)
    BY PackagesAreReleasable, ReleasableIsReleased DEF Released
  <2>3. charged \in 0 .. TotalEpsilon
    BY EpsilonAssumption DEF ChargeInv
  <2>4. job # Idle =>
          /\ job.at \in 1 .. Larger(Len(Bundles), Len(FileNames)) + 1
          /\ job.extracted =< job.validated /\ job.validated =< Len(Bundles)
          /\ job.step = "bundles" => job.validated =< job.at
          /\ job.candidates # <<>> =>
               /\ {c.component : c \in ToSet(job.candidates)} = Graph.nodes
               /\ Len(job.candidates) = Cardinality(Graph.nodes)
               /\ \A j, k \in DOMAIN job.candidates :
                    j < k => job.candidates[j].delta >= job.candidates[k].delta
          /\ job.registered \in {0, 1}
    BY JobIsTyped
  <2>5. /\ report.command = "none" \/ report.exit \in {0, 1}
        /\ report.command = "harness" =>
             /\ \A m \in ToSet(report.result.results) :
                  0 =< m.ci_low /\ m.ci_low =< m.value /\ m.value =< m.ci_high /\ m.ci_high =< 100
             /\ \E m \in ToSet(report.result.results) :
                  m.dimension = "mitigation" /\ m.value = report.result.assurance.mitigation_effectiveness
        /\ report.command = "redteam" => \A k \in 1 .. 9 : report.results[k].success_rate \in 0 .. 100
    BY ReportsAreTyped DEF InPercent
  <2> QED BY <2>1, <2>2, <2>3, <2>4, <2>5 DEF WorkflowTypeOK
<1> QED BY <1>1, JobsKeepMinimizerInv, JobsStayInOrder, ChargeHolds, PackagesHold, ReportsHold, PTL

-----------------------------------------------------------------------------
(* Secret sharing.                                                         *)

LEMMA Division ==
  ASSUME NEW d \in Int, d > 0, NEW x \in Int
  PROVE  /\ \E q \in Int : x = d * q + (x % d)
         /\ x % d \in 0 .. d - 1
<1>1. x % d = x - d * (x \div d) /\ x \div d \in Int
  OBVIOUS
<1>2. x % d \in 0 .. d - 1
  OBVIOUS
<1> DEFINE q == x \div d
<1>3. x % d = x - d * q /\ q \in Int /\ d * q \in Int
  BY <1>1
<1> HIDE DEF q
<1>4. x = d * q + (x % d)
  BY <1>2, <1>3
<1> QED BY <1>2, <1>3, <1>4

LEMMA MultipleIsFar ==
  ASSUME NEW d \in Int, d > 0, NEW m \in Int, m # 0
  PROVE  d * m >= d \/ d * m =< -d
<1>1. CASE m >= 1
  <2>1. PICK j \in Nat : m = j + 1
    BY <1>1
  <2>2. d * j \in Nat /\ d * m = d * j + d
    BY <2>1
  <2> QED BY <2>2
<1>2. CASE m =< -1
  <2>1. PICK j \in Nat : m = -1 - j
    BY <1>2
  <2>2. d * j \in Nat /\ d * m = -d - d * j
    BY <2>1
  <2> QED BY <2>2
<1> QED BY <1>1, <1>2

\* A remainder is told by any quotient.
LEMMA Remainder ==
  ASSUME NEW d \in Int, d > 0, NEW q \in Int, NEW r \in 0 .. d - 1, NEW x, x = d * q + r
  PROVE  x % d = r
<1>1. d * q \in Int /\ x \in Int
  OBVIOUS
<1> DEFINE rest == x % d
<1>2. PICK k \in Int : x = d * k + rest
  BY <1>1, Division
<1>3. rest \in 0 .. d - 1
  BY <1>1, Division
<1> HIDE DEF rest
<1>4. d * (q - k) = rest - r
  BY <1>1, <1>2, <1>3
<1>5. q - k = 0
  BY <1>3, <1>4, MultipleIsFar
<1>6. q = k
  BY <1>5
<1>7. rest = r
  BY <1>1, <1>2, <1>3, <1>6
<1> QED BY <1>7 DEF rest

FieldInverse(d) == CHOOSE z \in 1 .. Prime - 1 : (z * d) % Prime = 1

LEMMA InverseIs ==
  ASSUME NEW d, NEW w \in 1 .. Prime - 1, (w * d) % Prime = 1,
         \A z \in 1 .. Prime - 1 : (z * d) % Prime = 1 => z = w
  PROVE  FieldInverse(d) = w
BY DEF FieldInverse

\* An odd number's half, rounded up.
LEMMA PrimeIsOdd == \E h \in Int : h >= 3 /\ Prime = 2 * h - 1
<1>1. PICK q \in Int : Prime = 2 * q + (Prime % 2)
  BY PrimeAssumption, Division
<1>2. Prime = 2 * (q + 1) - 1 /\ q + 1 >= 3
  BY <1>1, PrimeAssumption
<1> QED BY <1>2

\* The inverses that two shares of three ask for.
LEMMA InverseOfOne == FieldInverse(1) = 1
<1>1. \A z \in 1 .. Prime - 1 : (z * 1) % Prime = z
  BY PrimeAssumption
<1> QED BY <1>1, PrimeAssumption DEF FieldInverse

LEMMA InverseOfMinusOne == FieldInverse(Prime - 1) = Prime - 1
<1> DEFINE P == Prime
<1>1. P \in Int /\ P > 3
  BY PrimeAssumption
<1> HIDE DEF P
<1>2. ((P - 1) * (P - 1)) % P = 1
  <2> DEFINE x == (P - 1) * (P - 1)
             q == P - 2
  <2>1. x = P * q + 1 /\ q \in Int /\ 1 \in 0 .. P - 1 /\ P > 0
    BY <1>1
  <2> HIDE DEF x, q
  <2>2. x % P = 1
    BY <1>1, <2>1, Remainder
  <2> QED BY <2>2 DEF x
<1>3. ASSUME NEW z \in 1 .. P - 1, (z * (P - 1)) % P = 1 PROVE z = P - 1
  <2>1. z * (P - 1) \in Int
    BY <1>1
  <2>2. PICK q \in Int : z * (P - 1) = P * q + 1
    BY <1>1, <1>3, <2>1, Division
  <2>3. P * (z - q - 1) = z - P + 1
    BY <1>1, <2>2
  <2>4. z - q - 1 = 0
    BY <1>1, <2>3, MultipleIsFar
  <2> QED BY <1>1, <2>3, <2>4
<1> QED BY <1>1, <1>2, <1>3 DEF FieldInverse, P

LEMMA InverseOfTwo ==
  ASSUME NEW h \in Int, h >= 3, Prime = 2 * h - 1
  PROVE  FieldInverse(2) = h
<1>1. (h * 2) % Prime = 1
  <2>1. h * 2 = Prime * 1 + 1
    OBVIOUS
  <2> QED BY <2>1, Remainder
<1>2. ASSUME NEW z \in 1 .. Prime - 1, (z * 2) % Prime = 1 PROVE z = h
  <2>1. PICK q \in Int : z * 2 = Prime * q + 1
    BY <1>2, Division
  <2>2. Prime * (q - 1) = 2 * z - 2 * h
    BY <2>1
  <2>3. q - 1 = 0
    <3>1. 2 * z - 2 * h < Prime /\ 2 * z - 2 * h > - Prime
      OBVIOUS
    <3> QED BY <2>2, <3>1, MultipleIsFar
  <2> QED BY <2>2, <2>3
<1> QED BY <1>1, <1>2 DEF FieldInverse

LEMMA InverseOfMinusTwo ==
  ASSUME NEW h \in Int, h >= 3, Prime = 2 * h - 1
  PROVE  FieldInverse(Prime - 2) = h - 1
<1>1. ((h - 1) * (Prime - 2)) % Prime = 1
  <2> DEFINE x == (h - 1) * (Prime - 2)
             q == h - 2
  <2>1. x = Prime * q + 1 /\ q \in Int /\ 1 \in 0 .. Prime - 1
    OBVIOUS
  <2> HIDE DEF x, q
  <2>2. x % Prime = 1
    BY <2>1, Remainder
  <2> QED BY <2>2 DEF x
<1>2. ASSUME NEW z \in 1 .. Prime - 1, (z * (Prime - 2)) % Prime = 1 PROVE z = h - 1
  <2>1. z * (Prime - 2) \in Int
    OBVIOUS
  <2>2. PICK q \in Int : z * (Prime - 2) = Prime * q + 1
    BY <1>2, <2>1, Division
  <2>3. Prime * (z - q - 1) = 2 * z + 1 - Prime
    BY <2>2
  <2>4. z - q - 1 = 0
    <3>1. 2 * z + 1 - Prime < Prime /\ 2 * z + 1 - Prime > - Prime
      OBVIOUS
    <3> QED BY <2>3, <3>1, MultipleIsFar
  <2> QED BY <2>3, <2>4
<1> QED BY <1>1, <1>2 DEF FieldInverse

Chosen(s) == CHOOSE x \in s : TRUE

\* The table of the products, and of the sums of the shares' terms, over the
\* subsets of a set.
ProductsOf(S, table) ==
  table = [s \in SUBSET S |-> IF s = {} THEN 1 ELSE Chosen(s) * table[s \ {Chosen(s)}]]

Places(shares, s) == {t[1] : t \in shares \ {s}}
Numerator(shares, s) == ProductSet({(Prime - x) % Prime : x \in Places(shares, s)})
Denominator(shares, s) == ProductSet({(Prime + s[1] - x) % Prime : x \in Places(shares, s)})
Term(shares, s) == s[2] * Numerator(shares, s) * FieldInverse(Denominator(shares, s))

TermsOf(shares, table) ==
  table = [s \in SUBSET shares |->
             IF s = {} THEN 0 ELSE Term(shares, Chosen(s)) + table[s \ {Chosen(s)}]]

LEMMA ProductOfOne ==
  ASSUME NEW a \in Int PROVE ProductSet({a}) = a
<1> DEFINE S == {a}
           chosen == CHOOSE table : ProductsOf(S, table)
           table == [s \in SUBSET S |-> IF s = {} THEN 1 ELSE a]
<1>1. ProductSet(S) = chosen[S]
  BY DEF ProductSet, FoldSet, MapThenFoldSet, ProductsOf, Chosen
<1>2. SUBSET S = {{}, S} /\ Chosen(S) = a /\ S \ {a} = {} /\ S # {}
  BY DEF Chosen
<1> HIDE DEF S
<1>3. ProductsOf(S, table)
  <2>1. \A s \in SUBSET S : table[s] = IF s = {} THEN 1 ELSE Chosen(s) * table[s \ {Chosen(s)}]
    BY <1>2
  <2> QED BY <2>1 DEF ProductsOf
<1> HIDE DEF table
<1>4. ProductsOf(S, chosen)
  BY <1>3
<1> HIDE DEF chosen
<1>5. chosen[{}] = 1
  BY <1>2, <1>4 DEF ProductsOf
<1>6. chosen[S] = a * chosen[{}]
  BY <1>2, <1>4 DEF ProductsOf
<1>7. chosen[S] = a
  BY <1>5, <1>6
<1> QED BY <1>1, <1>7 DEF S

LEMMA RecoverOfTwo ==
  ASSUME NEW shares, NEW s, NEW t, s # t, shares = {s, t},
         Term(shares, s) \in Int, Term(shares, t) \in Int
  PROVE  shamir_recover(shares) = (Term(shares, s) + Term(shares, t)) % Prime
<1> DEFINE a == Term(shares, s)
           b == Term(shares, t)
           chosen == CHOOSE table : TermsOf(shares, table)
           table == [u \in SUBSET shares |->
                       IF u = {} THEN 0 ELSE IF u = {s} THEN a ELSE IF u = {t} THEN b ELSE a + b]
<1>1. shamir_recover(shares) = chosen[shares] % Prime
  BY DEF shamir_recover, MapThenSumSet, MapThenFoldSet, TermsOf, Chosen, Term, Numerator, Denominator,
         Places, FieldInverse
<1>2. /\ SUBSET shares = {{}, {s}, {t}, shares} /\ Chosen({s}) = s /\ Chosen({t}) = t
      /\ Chosen(shares) \in {s, t} /\ shares \ {s} = {t} /\ shares \ {t} = {s}
      /\ shares \notin {{}, {s}, {t}} /\ {s} \ {s} = {} /\ {t} \ {t} = {} /\ {s} # {t}
  BY DEF Chosen
<1>3. a = Term(shares, s) /\ b = Term(shares, t) /\ a \in Int /\ b \in Int
  OBVIOUS
<1> HIDE DEF a, b
<1>4. TermsOf(shares, table)
  <2>1. table[{}] = 0 /\ table[{s}] = a /\ table[{t}] = b /\ table[shares] = a + b
    BY <1>2
  <2>2. table = [u \in SUBSET shares |-> table[u]]
    OBVIOUS
  <2> HIDE DEF table
  <2>3. table[shares] = Term(shares, Chosen(shares)) + table[shares \ {Chosen(shares)}]
    <3>1. CASE Chosen(shares) = s
      <4>1. shares \ {Chosen(shares)} = {t} /\ Term(shares, Chosen(shares)) = a
        BY <1>2, <1>3, <3>1
      <4> QED BY <2>1, <4>1
    <3>2. CASE Chosen(shares) = t
      <4>1. shares \ {Chosen(shares)} = {s} /\ Term(shares, Chosen(shares)) = b
        BY <1>2, <1>3, <3>2
      <4>2. a + b = b + a
        BY <1>3
      <4> QED BY <2>1, <4>1, <4>2
    <3> QED BY <1>2, <3>1, <3>2
  <2>4. ASSUME NEW u \in SUBSET shares
        PROVE  table[u] = IF u = {} THEN 0 ELSE Term(shares, Chosen(u)) + table[u \ {Chosen(u)}]
    <3>1. CASE u = {}
      BY <2>1, <3>1
    <3>2. CASE u = {s} \/ u = {t}
      <4>1. Term(shares, Chosen(u)) = table[u] /\ u \ {Chosen(u)} = {} /\ table[u] \in Int /\ u # {}
        BY <1>2, <1>3, <2>1, <3>2
      <4>2. table[u] = table[u] + 0
        BY <4>1
      <4> QED BY <2>1, <4>1, <4>2
    <3>3. CASE u = shares
      BY <1>2, <2>3, <3>3
    <3> QED BY <1>2, <3>1, <3>2, <3>3
  <2> QED BY <2>2, <2>4 DEF TermsOf
<1> HIDE DEF table
<1>5. TermsOf(shares, chosen)
  BY <1>4
<1> HIDE DEF chosen
<1>6. chosen[{}] = 0
  BY <1>2, <1>5 DEF TermsOf
<1>7. chosen[{s}] = a + chosen[{}] /\ chosen[{t}] = b + chosen[{}]
  BY <1>2, <1>3, <1>5 DEF TermsOf
<1>8. chosen[shares] = a + chosen[{t}] \/ chosen[shares] = b + chosen[{s}]
  BY <1>2, <1>3, <1>5 DEF TermsOf
<1>9. chosen[shares] = a + b
  BY <1>3, <1>6, <1>7, <1>8
<1> QED BY <1>1, <1>9 DEF a, b

\* A share's term: its value, with the weight its place and the other's give.
LEMMA TermOf ==
  ASSUME NEW i \in 1 .. 3, NEW j \in 1 .. 3, i # j, NEW y \in Int, NEW z \in Int,
         NEW shares, shares = {<<i, y>>, <<j, z>>}
  PROVE  Term(shares, <<i, y>>) = y * (Prime - j) * FieldInverse((Prime + i - j) % Prime)
<1> DEFINE s == <<i, y>>
           t == <<j, z>>
<1>1. s[1] = i /\ s[2] = y /\ t[1] = j /\ s # t
  OBVIOUS
<1>2. shares \ {s} = {t}
  BY <1>1
<1> HIDE DEF s, t
<1>3. Places(shares, s) = {j}
  BY <1>1, <1>2 DEF Places
<1>4. (Prime - j) % Prime = Prime - j /\ Prime - j \in Int
  <2>1. Prime - j \in 0 .. Prime - 1 /\ Prime \in Nat
    BY PrimeAssumption
  <2> QED BY <2>1, SmallRemainder
<1>5. Numerator(shares, s) = Prime - j
  <2>1. {(Prime - x) % Prime : x \in Places(shares, s)} = {Prime - j}
    BY <1>3, <1>4
  <2> QED BY <1>4, <2>1, ProductOfOne DEF Numerator
<1>6. Denominator(shares, s) = (Prime + i - j) % Prime
  <2>1. {(Prime + s[1] - x) % Prime : x \in Places(shares, s)} = {(Prime + i - j) % Prime}
    BY <1>1, <1>3
  <2>2. (Prime + i - j) % Prime \in Int
    BY PrimeAssumption
  <2> QED BY <2>1, <2>2, ProductOfOne DEF Denominator
<1>7. Term(shares, s) = y * (Prime - j) * FieldInverse((Prime + i - j) % Prime)
  BY <1>1, <1>5, <1>6 DEF Term
<1> QED BY <1>7 DEF s

\* The differences of the places, as the field has them.
LEMMA PlacesApart ==
  /\ (Prime + 1 - 2) % Prime = Prime - 1 /\ (Prime + 2 - 1) % Prime = 1
  /\ (Prime + 2 - 3) % Prime = Prime - 1 /\ (Prime + 3 - 2) % Prime = 1
  /\ (Prime + 1 - 3) % Prime = Prime - 2 /\ (Prime + 3 - 1) % Prime = 2
<1> DEFINE P == Prime
<1>1. P \in Nat /\ P > 3
  BY PrimeAssumption
<1> HIDE DEF P
<1>2. P - 1 \in 0 .. P - 1 /\ P - 2 \in 0 .. P - 1
  BY <1>1
<1>3. (P - 1) % P = P - 1 /\ (P - 2) % P = P - 2
  BY <1>1, <1>2, SmallRemainder
<1>4. P + 1 - 2 = P - 1 /\ P + 2 - 3 = P - 1 /\ P + 1 - 3 = P - 2
      /\ P + 2 - 1 = P * 1 + 1 /\ P + 3 - 2 = P * 1 + 1 /\ P + 3 - 1 = P * 1 + 2
  BY <1>1
<1>5. \A r \in 0 .. P - 1 : (P * 1 + r) % P = r
  BY <1>1, Remainder
<1>6. 1 \in 0 .. P - 1 /\ 2 \in 0 .. P - 1
  BY <1>1
<1>7. (P * 1 + 1) % P = 1 /\ (P * 1 + 2) % P = 2
  BY <1>5, <1>6
<1> QED BY <1>3, <1>4, <1>7 DEF P

\* Two shares of a line through value, at any two of the three places.
LEMMA ShareOf ==
  ASSUME NEW v \in Int, NEW y, y = v % Prime
  PROVE  y \in Int /\ \E k \in Int : v = Prime * k + y
<1>1. Prime \in Int /\ Prime > 0
  BY PrimeAssumption
<1>2. (\E k \in Int : v = Prime * k + (v % Prime)) /\ v % Prime \in 0 .. Prime - 1
  BY <1>1, Division
<1> QED BY <1>1, <1>2

LEMMA AddUp ==
  ASSUME NEW a \in Int, NEW A \in Int, NEW B \in Int, NEW D \in Int, NEW E \in Int,
         NEW F \in Int, NEW G \in Int, F - G = a - D + E,
         NEW p, p = A + F, NEW q, q = B - G, NEW r, r = A + B - D + E
  PROVE  p + q = r + a /\ p \in Int /\ q \in Int
OBVIOUS

LEMMA TwoSharesRecover ==
  ASSUME NEW a \in 0 .. Prime - 1, NEW c \in Int, NEW i \in 1 .. 3, NEW j \in 1 .. 3, i < j
  PROVE  shamir_recover({<<i, (a + c * i) % Prime>>, <<j, (a + c * j) % Prime>>}) = a
<1> DEFINE P == Prime
           y == (a + c * i) % Prime
           z == (a + c * j) % Prime
           shares == {<<i, y>>, <<j, z>>}
<1>0. y = (a + c * i) % Prime /\ z = (a + c * j) % Prime /\ shares = {<<i, y>>, <<j, z>>}
  OBVIOUS
<1> HIDE DEF y, z, shares
<1>1. P \in Int /\ P > 3 /\ P > 0 /\ a \in Int
  BY PrimeAssumption
<1>2. PICK h \in Int : h >= 3 /\ P = 2 * h - 1
  BY PrimeIsOdd
<1> DEFINE v == a + c * i
           w == a + c * j
<1>3. v \in Int /\ w \in Int /\ y = v % Prime /\ z = w % Prime
  BY <1>0, <1>1
<1> HIDE DEF v, w
<1>4. y \in Int /\ z \in Int
  BY <1>3, ShareOf
<1>k. PICK k \in Int : v = P * k + y
  BY <1>3, ShareOf
<1>l. PICK l \in Int : w = P * l + z
  BY <1>3, ShareOf
<1> DEFINE s == <<i, y>>
           t == <<j, z>>
           p == y * (P - j) * FieldInverse((P + i - j) % P)
           q == z * (P - i) * FieldInverse((P + j - i) % P)
<1>5. Term(shares, s) = p /\ Term(shares, t) = q
  <2>1. shares = {<<j, z>>, <<i, y>>}
    BY <1>0
  <2> QED BY <1>0, <1>4, <2>1, TermOf
<1>6. s # t /\ shares = {s, t}
  BY <1>0
<1> HIDE DEF P
<1>7. p \in Int /\ q \in Int /\ \E m \in Int : p + q = P * m + a
  <2>1. CASE i = 1 /\ j = 2
    <3>1. p = y * (P - 2) * (P - 1) /\ q = z * (P - 1) * 1
      BY <2>1, PlacesApart, InverseOfOne, InverseOfMinusOne DEF P
    <3> DEFINE m == y * (P - 3) + z - 2 * k + l
    <3>2. 2 * y - z = a - 2 * (P * k) + P * l
      BY <1>1, <1>4, <1>k, <1>l, <2>1 DEF v, w
    <3>3. p = P * (y * (P - 3)) + 2 * y /\ q = P * z - z
      BY <1>1, <1>4, <3>1
    <3>4. P * m = P * (y * (P - 3)) + P * z - 2 * (P * k) + P * l
      BY <1>1, <1>4
    <3>5. m \in Int
      BY <1>1, <1>4
    <3> DEFINE A == P * (y * (P - 3))
               B == P * z
               D == 2 * (P * k)
               E == P * l
               F == 2 * y
               G == z
               r == P * m
    <3>6. /\ A \in Int /\ B \in Int /\ D \in Int /\ E \in Int /\ F \in Int /\ G \in Int
      BY <1>1, <1>4
    <3>7. F - G = a - D + E /\ p = A + F /\ q = B - G /\ r = A + B - D + E
      BY <3>2, <3>3, <3>4
    <3> HIDE DEF p, q, A, B, D, E, F, G, r
    <3>8. p + q = r + a /\ p \in Int /\ q \in Int
      BY <1>1, <3>6, <3>7, AddUp
    <3> QED BY <3>5, <3>8 DEF r
  <2>2. CASE i = 2 /\ j = 3
    <3>1. p = y * (P - 3) * (P - 1) /\ q = z * (P - 2) * 1
      BY <2>2, PlacesApart, InverseOfOne, InverseOfMinusOne DEF P
    <3> DEFINE m == y * (P - 4) + z - 3 * k + 2 * l
    <3>2. 3 * y - 2 * z = a - 3 * (P * k) + 2 * (P * l)
      BY <1>1, <1>4, <1>k, <1>l, <2>2 DEF v, w
    <3>3. p = P * (y * (P - 4)) + 3 * y /\ q = P * z - 2 * z
      BY <1>1, <1>4, <3>1
    <3>4. P * m = P * (y * (P - 4)) + P * z - 3 * (P * k) + 2 * (P * l)
      BY <1>1, <1>4
    <3>5. m \in Int
      BY <1>1, <1>4
    <3> DEFINE A == P * (y * (P - 4))
               B == P * z
               D == 3 * (P * k)
               E == 2 * (P * l)
               F == 3 * y
               G == 2 * z
               r == P * m
    <3>6. /\ A \in Int /\ B \in Int /\ D \in Int /\ E \in Int /\ F \in Int /\ G \in Int
      BY <1>1, <1>4
    <3>7. F - G = a - D + E /\ p = A + F /\ q = B - G /\ r = A + B - D + E
      BY <3>2, <3>3, <3>4
    <3> HIDE DEF p, q, A, B, D, E, F, G, r
    <3>8. p + q = r + a /\ p \in Int /\ q \in Int
      BY <1>1, <3>6, <3>7, AddUp
    <3> QED BY <3>5, <3>8 DEF r
  <2>3. CASE i = 1 /\ j = 3
    <3>1. p = y * (P - 3) * (h - 1) /\ q = z * (P - 1) * h
      BY <1>2, <2>3, PlacesApart, InverseOfTwo, InverseOfMinusTwo DEF P
    <3> DEFINE m == y * (h - 4) + z * h + h * (l - 3 * k) + a
    <3>2. 3 * y - z = 2 * a - 3 * (P * k) + P * l
      BY <1>1, <1>4, <1>k, <1>l, <2>3 DEF v, w
    <3>3. (P - 3) * (h - 1) = P * (h - 4) + 3 * h /\ (P - 1) * h = P * h - h
      BY <1>2
    <3>4. p + q = P * (y * (h - 4)) + P * (z * h) + h * (3 * y - z)
      BY <1>1, <1>2, <1>4, <3>1, <3>3
    <3>5. h * (3 * y - z) = 2 * h * a - 3 * (P * (h * k)) + P * (h * l)
      BY <1>1, <1>2, <1>4, <3>2
    <3>6. P * m = P * (y * (h - 4)) + P * (z * h) + P * (h * l) - 3 * (P * (h * k)) + P * a
      BY <1>1, <1>2, <1>4
    <3>7. m \in Int /\ 2 * h * a = P * a + a
      BY <1>1, <1>2, <1>4
    <3>8. p \in Int /\ q \in Int
      BY <1>1, <1>2, <1>4, <3>1
    <3> HIDE DEF m, p, q
    <3>9. p + q = P * m + a
      BY <1>1, <1>2, <1>4, <3>4, <3>5, <3>6, <3>7
    <3> QED BY <3>7, <3>8, <3>9
  <2> QED BY <2>1, <2>2, <2>3
<1> HIDE DEF p, q, s, t
<1>8. shamir_recover(shares) = (p + q) % P
  BY <1>5, <1>6, <1>7, RecoverOfTwo DEF P
<1>9. PICK m \in Int : p + q = P * m + a
  BY <1>7
<1> DEFINE x == p + q
<1>10. x = P * m + a /\ a \in 0 .. P - 1
  BY <1>9 DEF P
<1> HIDE DEF x
<1>11. x % P = a
  BY <1>1, <1>10, Remainder
<1> QED BY <1>8, <1>11 DEF x, P, shares, y, z

\* A recipient's counts are those of one case.
LEMMA ContributionsAreSmall ==
  ASSUME NEW package, NEW domain, NEW id, NEW minimum_k, NEW roles,
         NEW contribution,
         contribution = recipient_evaluate_and_contribute(package, domain,
                          CohortManifest(id, minimum_k), roles),
         ~ contribution.abstained
  PROVE  contribution.failures \in {0, 1} /\ contribution.trials \in {0, 1}
<1> DEFINE manifest == CohortManifest(id, minimum_k)
           context == RecipientContext(domain, [r \in roles |-> OntologyMapping(<<"local", r>>, "approved")])
           compilation == fail_closed_compile(package, context, manifest)
           failed == Failures(compilation, FailingAgent)
           clipped == clip_contribution(failed, compilation.positives, manifest.clipping_f,
                                        manifest.clipping_n)
<1>1. manifest.clipping_f = 10 /\ manifest.clipping_n = 100
  BY DEF CohortManifest
<1>2. contribution = IF compilation.abstained THEN compilation
                     ELSE [abstained |-> FALSE, failures |-> clipped[1], trials |-> clipped[2]]
  BY DEF recipient_evaluate_and_contribute, Contribution
<1>3. compilation = fail_closed_compile(package, context, manifest)
  OBVIOUS
<1> HIDE DEF compilation, context, manifest
<1>4. \/ compilation.abstained = TRUE
      \/ /\ compilation.abstained = FALSE /\ compilation.positives = 1
         /\ compilation.controls = SubSeq(package.cfi.controls, 1, 3)
  BY <1>3, CompilesToOneCase
<1>5. compilation.abstained = FALSE /\ compilation.positives = 1
  BY <1>2, <1>4
<1>6. failed \in {0, 1}
  BY <1>5 DEF Failures
<1> HIDE DEF failed
<1>7. clipped[1] \in {0, 1} /\ clipped[2] = 1
  BY <1>1, <1>5, <1>6 DEF clip_contribution, Smaller
<1> QED BY <1>2, <1>5, <1>7

\* Any two of the three shares of a value give it again, whatever coefficient
\* was drawn (shamir_share, shamir_recover).
THEOREM SharesRecover ==
  ASSUME NEW value \in 0 .. Prime - 1, NEW coefficient \in Int,
         NEW S \in kSubset(Threshold, shamir_share(value, coefficient, Shares))
  PROVE  shamir_recover(S) = value
<1> DEFINE share(x) == <<x, (value + coefficient * x) % Prime>>
<1>1. S \subseteq {share(x) : x \in 1 .. 3} /\ Cardinality(S) = 2
  BY DEF kSubset, shamir_share, Threshold, Shares
<1>2. IsFiniteSet(S)
  <2> DEFINE s1 == share(1)
             s2 == share(2)
             s3 == share(3)
  <2>1. {share(x) : x \in 1 .. 3} = ({s1} \cup {s2}) \cup {s3}
    OBVIOUS
  <2> HIDE DEF s1, s2, s3
  <2>2. IsFiniteSet({s1} \cup {s2})
    BY FS_Singleton, FS_AddElement
  <2>3. IsFiniteSet(({s1} \cup {s2}) \cup {s3})
    BY <2>2, FS_AddElement
  <2> QED BY <1>1, <2>1, <2>3, FS_Subset
<1>3. \A x, z \in 1 .. 3 : share(x) = share(z) => x = z
  OBVIOUS
<1> HIDE DEF share
<1>4. PICK i \in 1 .. 3, j \in 1 .. 3 : i # j /\ S = {share(i), share(j)}
  <2>1. S # {}
    BY <1>1, FS_EmptySet
  <2>2. PICK s \in S : TRUE
    BY <2>1
  <2>3. Cardinality(S \ {s}) = 1 /\ IsFiniteSet(S \ {s})
    BY <1>1, <1>2, FS_RemoveElement
  <2>4. PICK t : S \ {s} = {t}
    BY <2>3, FS_Singleton
  <2>5. S = {s, t} /\ s # t
    BY <2>2, <2>4
  <2>6. PICK i \in 1 .. 3 : s = share(i)
    BY <1>1, <2>2
  <2>7. PICK j \in 1 .. 3 : t = share(j)
    BY <1>1, <2>5
  <2> QED BY <2>5, <2>6, <2>7
<1>5. ASSUME NEW x \in 1 .. 3, NEW z \in 1 .. 3, x < z
      PROVE  shamir_recover({share(x), share(z)}) = value
  BY <1>5, TwoSharesRecover DEF share
<1>6. CASE i < j
  BY <1>4, <1>5, <1>6
<1>7. CASE j < i
  <2>1. S = {share(j), share(i)}
    BY <1>4
  <2> QED BY <1>5, <1>7, <2>1
<1> QED BY <1>4, <1>6, <1>7

\* However the coefficients are drawn, any two shares of a recipient's
\* envelope give the clipped counts of what it contributed, which are at most
\* one failure of one trial (recipient_evaluate_and_contribute,
\* build_share_envelope).
THEOREM ContributionsAlwaysRecover == Spec => []ContributionsRecover
<1>1. ReportInv => ContributionsRecover
  <2> SUFFICES ASSUME ReportInv, report.command = "contribute", report.exit = 0,
                      NEW f \in 0 .. Prime - 1, NEW t \in 0 .. Prime - 1,
                      NEW failures, failures = report.contribution.failures,
                      NEW trials, trials = report.contribution.trials,
                      NEW envelope, envelope = build_share_envelope(failures, trials, 10, 100, f, t)
               PROVE  /\ \A S \in kSubset(Threshold, envelope.shares_f) : shamir_recover(S) = failures
                      /\ \A S \in kSubset(Threshold, envelope.shares_n) : shamir_recover(S) = trials
    BY DEF ContributionsRecover
  <2>1. PICK package, domain :
          /\ report.contribution = recipient_evaluate_and_contribute(package, domain,
               CohortManifest(package.cfi.id, 1), required_mapping_roles(package.cfi))
          /\ ~ report.contribution.abstained
    BY DEF ReportInv
  <2>2. failures \in {0, 1} /\ trials \in {0, 1}
    BY <2>1, ContributionsAreSmall
  <2>3. 0 \in 0 .. Prime - 1 /\ 1 \in 0 .. Prime - 1 /\ Prime \in Nat
    BY PrimeAssumption
  <2>4. /\ envelope.shares_f = shamir_share(failures, f, Shares)
        /\ envelope.shares_n = shamir_share(trials, t, Shares)
    <3>1. Smaller(failures, 10) = failures /\ Smaller(trials, 100) = trials
      BY <2>2 DEF Smaller
    <3> QED BY <3>1 DEF build_share_envelope, clip_contribution
  <2>5. failures \in 0 .. Prime - 1 /\ trials \in 0 .. Prime - 1 /\ f \in Int /\ t \in Int
    BY <2>2, <2>3
  <2> QED BY <2>4, <2>5, SharesRecover
<1> QED BY <1>1, ReportsHold, PTL

-----------------------------------------------------------------------------
(* What is released compiles.                                              *)

\* Each node has an id of its own, as packaging makes it.
OwnIds(cfi) == \A j, k \in DOMAIN cfi.nodes : cfi.nodes[j].id = cfi.nodes[k].id => j = k

LEMMA MapsLikeGoldenIsMappable ==
  ASSUME NEW cfi, model_validate(cfi), MapsLikeGolden(cfi), OwnIds(cfi)
  PROVE  Mappable(cfi)
<1>1. DOMAIN cfi.nodes = 1 .. Len(cfi.nodes) /\ Len(cfi.nodes) \in Nat
  BY LenProperties DEF MapsLikeGolden
<1> QED BY <1>1 DEF Mappable, MapsLikeGolden, OwnIds

\* The numbering of the nodes of one type gives each node an id of its own.
LEMMA RenamingIsInjective ==
  ASSUME NEW nodes, NEW size \in Nat, NEW i \in 1 .. size, NEW l \in 1 .. size,
         Fresh(nodes, i) = Fresh(nodes, l)
  PROVE  i = l
<1> DEFINE before(k) == {j \in 1 .. k - 1 : nodes[j].type = nodes[k].type}
<1>1. \A k \in 1 .. size : Fresh(nodes, k) = <<nodes[k].type, Cardinality(before(k))>>
  BY DEF Fresh
<1>2. ASSUME NEW j \in 1 .. size, NEW k \in 1 .. size, j < k, nodes[j].type = nodes[k].type
      PROVE  Cardinality(before(j)) # Cardinality(before(k))
  <2>1. IsFiniteSet(1 .. k - 1) /\ before(k) \in SUBSET (1 .. k - 1)
    BY UpTo
  <2>2. IsFiniteSet(before(k))
    <3> HIDE DEF before
    <3> QED BY <2>1, FS_Subset
  <2>3. before(j) \in SUBSET before(k) /\ j \in before(k) /\ j \notin before(j)
    BY <1>2
  <2> HIDE DEF before
  <2>4. Cardinality(before(j)) = Cardinality(before(k)) => before(j) = before(k)
    BY <2>2, <2>3, FS_Subset
  <2> QED BY <2>3, <2>4
<1>3. nodes[i].type = nodes[l].type /\ Cardinality(before(i)) = Cardinality(before(l))
  <2> HIDE DEF before
  <2>1. <<nodes[i].type, Cardinality(before(i))>> = <<nodes[l].type, Cardinality(before(l))>>
    BY <1>1
  <2> QED BY <2>1
<1>4. ~ (i < l) /\ ~ (l < i)
  <2> HIDE DEF before
  <2> QED BY <1>2, <1>3
<1> QED BY <1>4

\* Renaming and projecting keep what compilation depends on, and tell apart
\* nodes the author gave one id.
LEMMA CanonicalMapsLikeGolden ==
  ASSUME NEW cfi, CFIShape(cfi), MapsLikeGolden(cfi)
  PROVE  MapsLikeGolden(canonicalize(cfi)) /\ OwnIds(canonicalize(cfi))
<1> DEFINE c == canonicalize(cfi)
<1>1. /\ c.controls = cfi.controls /\ c.temporal_constraints = cfi.temporal_constraints
      /\ c.cardinality_constraints = cfi.cardinality_constraints
      /\ DOMAIN c.nodes = DOMAIN cfi.nodes
      /\ \A k \in DOMAIN cfi.nodes :
           /\ c.nodes[k].id = Fresh(cfi.nodes, k) /\ c.nodes[k].type = cfi.nodes[k].type
           /\ c.nodes[k].role = cfi.nodes[k].role
  BY CanonicalFields
<1>2. PICK size \in Nat : DOMAIN cfi.nodes = 1 .. size
  BY LenProperties DEF MapsLikeGolden
<1>3. \A j, k \in DOMAIN cfi.nodes : c.nodes[j].id = c.nodes[k].id => j = k
  <2> SUFFICES ASSUME NEW j \in 1 .. size, NEW k \in 1 .. size, c.nodes[j].id = c.nodes[k].id
               PROVE  j = k
    BY <1>2
  <2>1. Fresh(cfi.nodes, j) = Fresh(cfi.nodes, k)
    BY <1>1, <1>2
  <2> HIDE DEF c
  <2> QED BY <1>2, <2>1, RenamingIsInjective
<1>4. NodesOf(c) = {c.nodes[k] : k \in DOMAIN cfi.nodes}
      /\ NodesOf(cfi) = {cfi.nodes[k] : k \in DOMAIN cfi.nodes}
  BY <1>1 DEF NodesOf, ToSet
<1>5. c.nodes \in Seq(NodesOf(c))
  <2>1. c.nodes \in [1 .. size -> NodesOf(c)]
    <3>1. c.nodes = [k \in DOMAIN c.nodes |-> c.nodes[k]]
      BY DEF canonicalize, vocabulary_project, CFIShape
    <3> HIDE DEF c
    <3> QED BY <1>1, <1>2, <1>4, <3>1
  <2> HIDE DEF c
  <2> QED BY <2>1, SeqDef
<1> HIDE DEF c
<1>6. Mapped(c) = Mapped(cfi) /\ Mapped(cfi) \subseteq DOMAIN cfi.nodes
  BY <1>1 DEF Mapped
<1>7. required_mapping_roles(c) = required_mapping_roles(cfi)
  <2>1. required_mapping_roles(c) = {c.nodes[k].role : k \in Mapped(c)}
    BY <1>1, <1>4 DEF required_mapping_roles, Mapped
  <2>2. required_mapping_roles(cfi) = {cfi.nodes[k].role : k \in Mapped(cfi)}
    BY <1>4 DEF required_mapping_roles, Mapped
  <2> QED BY <1>1, <1>6, <2>1, <2>2
<1>8. \A role : AloneOfType(c, role) <=> AloneOfType(cfi, role)
  BY <1>1, <1>6 DEF AloneOfType
<1>9. ASSUME NEW m \in NodesOf(c), m.type = "Outcome" PROVE m.role \notin required_mapping_roles(c)
  <2>1. PICK k \in DOMAIN cfi.nodes : m = c.nodes[k]
    BY <1>4
  <2>2. cfi.nodes[k] \in NodesOf(cfi) /\ cfi.nodes[k].type = "Outcome" /\ m.role = cfi.nodes[k].role
    BY <1>1, <1>4, <1>9, <2>1
  <2> QED BY <1>7, <2>2 DEF MapsLikeGolden
<1>10. \A j, k \in Mapped(c) : c.nodes[j].role = c.nodes[k].role => j = k
  BY <1>1, <1>6 DEF MapsLikeGolden
<1>11. \A d \in c.temporal_constraints : AloneOfType(c, d[1]) /\ AloneOfType(c, d[2])
  BY <1>1, <1>8 DEF MapsLikeGolden
<1>12. /\ c.controls \in Seq(ToSet(c.controls)) /\ Len(c.controls) >= 3 /\ c.cardinality_constraints = {}
       /\ required_mapping_roles(c) = required_mapping_roles(build_exception_precedence_cfi)
  BY <1>1, <1>7 DEF MapsLikeGolden
<1>13. OwnIds(c)
  BY <1>1, <1>3 DEF OwnIds
<1>14. MapsLikeGolden(c)
  BY <1>5, <1>9, <1>10, <1>11, <1>12 DEF MapsLikeGolden
<1> QED BY <1>13, <1>14 DEF c

\* Of an invariant like the golden one, the types of the roles that share an
\* entity decide.
LEMMA SharedTypes ==
  ASSUME NEW cfi, model_validate(cfi), MapsLikeGolden(cfi), OwnIds(cfi),
         NEW shared, shared \in SUBSET required_mapping_roles(cfi),
         NEW types, types = {m.type : m \in {m \in NodesOf(cfi) : m.role \in shared}}
  PROVE  Cardinality(types) =< 1
           <=> \A j, k \in Mapped(cfi) :
                 cfi.nodes[j].role \in shared /\ cfi.nodes[k].role \in shared
                   => cfi.nodes[j].type = cfi.nodes[k].type
<1>1. /\ Mapped(cfi) \subseteq DOMAIN cfi.nodes
      /\ NodesOf(cfi) = {cfi.nodes[k] : k \in DOMAIN cfi.nodes}
  BY MapsLikeGoldenIsMappable, MappedNodes
<1>2. types = {cfi.nodes[k].type : k \in {k \in Mapped(cfi) : cfi.nodes[k].role \in shared}}
  <2>1. \A k \in DOMAIN cfi.nodes : cfi.nodes[k].role \in shared => k \in Mapped(cfi)
    BY <1>1 DEF MapsLikeGolden, Mapped
  <2> QED BY <1>1, <2>1
<1>3. (\A s, t \in types : s = t)
        <=> \A j, k \in Mapped(cfi) :
              cfi.nodes[j].role \in shared /\ cfi.nodes[k].role \in shared
                => cfi.nodes[j].type = cfi.nodes[k].type
  BY <1>2
<1>4. IsFiniteSet(types)
  <2> DEFINE places == {k \in Mapped(cfi) : cfi.nodes[k].role \in shared}
             typeAt == [k \in places |-> cfi.nodes[k].type]
  <2>1. PICK size \in Nat : DOMAIN cfi.nodes = 1 .. size
    BY LenProperties DEF MapsLikeGolden
  <2>2. IsFiniteSet(1 .. size) /\ places \in SUBSET (1 .. size)
    BY <1>1, <2>1, UpTo
  <2>3. IsFiniteSet(places)
    <3> HIDE DEF places
    <3> QED BY <2>2, FS_Subset
  <2>4. typeAt \in Surjection(places, types)
    <3>1. typeAt \in [places -> types]
      BY <1>2
    <3>2. \A t \in types : \E k \in places : typeAt[k] = t
      BY <1>2
    <3> HIDE DEF places, typeAt
    <3> QED BY <3>1, <3>2, Fun_IsSurj
  <2> HIDE DEF places, typeAt
  <2> QED BY <2>3, <2>4, FS_Surjection
<1>5. Cardinality(types) =< 1 <=> \A s, t \in types : s = t
  <2>1. CASE types = {}
    BY <2>1, FS_EmptySet
  <2>2. CASE types # {}
    <3>1. PICK t \in types : TRUE
      BY <2>2
    <3>2. IsFiniteSet(types \ {t}) /\ Cardinality(types \ {t}) = Cardinality(types) - 1
          /\ Cardinality(types \ {t}) \in Nat /\ Cardinality(types) \in Nat
      BY <1>4, FS_RemoveElement, FS_CardinalityType
    <3>3. Cardinality(types) =< 1 <=> Cardinality(types \ {t}) = 0
      BY <3>2
    <3>4. Cardinality(types \ {t}) = 0 <=> types \ {t} = {}
      BY <3>2, FS_EmptySet
    <3> QED BY <3>1, <3>3, <3>4
  <2> QED BY <2>1, <2>2
<1> QED BY <1>3, <1>5

\* Whether roles share an entity and whether one is not approved is all that
\* tells the contexts apart.
LEMMA LikeGoldenCompiles ==
  ASSUME NEW package, Verify(package), model_validate(package.cfi), MapsLikeGolden(package.cfi),
         OwnIds(package.cfi)
  PROVE  CompilesWhereItShould(package)
<1> DEFINE cfi == package.cfi
           roles == required_mapping_roles(build_exception_precedence_cfi)
           TypesOf(shared) == {m.type : m \in {m \in NodesOf(cfi) : m.role \in shared}}
<1>1. required_mapping_roles(cfi) = roles /\ "shared" \notin roles
  BY GoldenRolesAre DEF MapsLikeGolden, GoldenRoles, GoldenCFI
<1>2. Mappable(cfi)
  BY MapsLikeGoldenIsMappable
<1>3. /\ Mapped(cfi) \in SUBSET Nat
      /\ required_mapping_roles(cfi) = {cfi.nodes[k].role : k \in Mapped(cfi)}
  BY <1>2, MappedNodes
<1>4. ASSUME NEW c \in Contexts
      PROVE  LET result == fail_closed_compile(package, c.context, NoManifest)
             IN IF c.open = {} /\ Cardinality(TypesOf(c.shared)) =< 1 /\ cfi.oracle # "empty"
                THEN ~ result.abstained /\ result.positives = 1 /\ Len(result.controls) = 3
                ELSE result.abstained
  <2> DEFINE result == fail_closed_compile(package, c.context, NoManifest)
             context == c.context
             entity(r) == <<"local", IF r \in c.shared THEN "shared" ELSE r>>
  <2>1. /\ c.shared \in SUBSET roles
        /\ c.open = {} \/ \E r \in roles : c.open = {r}
        /\ DOMAIN context.mappings = roles
        /\ \A r \in roles : /\ context.mappings[r].entity = entity(r)
                            /\ context.mappings[r].status = IF r \in c.open THEN "proposed" ELSE "approved"
    BY DEF Contexts, RecipientContext, OntologyMapping
  <2> HIDE DEF context, roles
  <2>2. required_mapping_roles(cfi) \subseteq available_roles(context) <=> c.open = {}
    BY <1>1, <2>1 DEF available_roles
  <2>3. ASSUME NEW j \in Mapped(cfi), NEW k \in Mapped(cfi)
        PROVE  EntityOf(cfi, context, j) = EntityOf(cfi, context, k)
                 <=> j = k \/ (cfi.nodes[j].role \in c.shared /\ cfi.nodes[k].role \in c.shared)
    <3>1. cfi.nodes[j].role \in roles /\ cfi.nodes[k].role \in roles
      BY <1>1, <1>3
    <3>2. cfi.nodes[j].role = cfi.nodes[k].role <=> j = k
      BY <1>2 DEF Mappable
    <3>3. EntityOf(cfi, context, j) = entity(cfi.nodes[j].role)
          /\ EntityOf(cfi, context, k) = entity(cfi.nodes[k].role)
      BY <2>1, <3>1 DEF EntityOf
    <3>4. \A r, s \in roles : entity(r) = entity(s) <=> r = s \/ (r \in c.shared /\ s \in c.shared)
      BY <1>1, <2>1
    <3> HIDE DEF entity
    <3> QED BY <3>1, <3>2, <3>3, <3>4
  <2>4. KeepsTypes(cfi, context) <=> Cardinality(TypesOf(c.shared)) =< 1
    <3> DEFINE types == TypesOf(c.shared)
               shared == c.shared
    <3>1. shared \in SUBSET required_mapping_roles(cfi)
      BY <1>1, <2>1
    <3>2. types = {m.type : m \in {m \in NodesOf(cfi) : m.role \in shared}}
      OBVIOUS
    <3>3. KeepsTypes(cfi, context) <=>
            \A j, k \in Mapped(cfi) : cfi.nodes[j].role \in shared /\ cfi.nodes[k].role \in shared
                                        => cfi.nodes[j].type = cfi.nodes[k].type
      BY <2>3 DEF KeepsTypes
    <3> HIDE DEF types, shared
    <3>4. Cardinality(types) =< 1 <=>
            \A j, k \in Mapped(cfi) : cfi.nodes[j].role \in shared /\ cfi.nodes[k].role \in shared
                                        => cfi.nodes[j].type = cfi.nodes[k].type
      BY <3>1, <3>2, SharedTypes
    <3> QED BY <3>3, <3>4 DEF types
  <2>5. KeepsTypes(cfi, context) => KeepsOrder(cfi, context)
    <3> SUFFICES ASSUME KeepsTypes(cfi, context), NEW role, AloneOfType(cfi, role)
                 PROVE  Stays(cfi, context, role)
      BY DEF KeepsOrder, MapsLikeGolden
    <3>1. PICK k \in Mapped(cfi) :
            /\ cfi.nodes[k].role = role
            /\ \A j \in Mapped(cfi) : cfi.nodes[j].type = cfi.nodes[k].type => j = k
      BY DEF AloneOfType
    <3>2. \A j \in Mapped(cfi) : EntityOf(cfi, context, j) = EntityOf(cfi, context, k) => j =< k
      BY <1>3, <3>1 DEF KeepsTypes
    <3> QED BY <3>1, <3>2 DEF Stays
  <2>6. result.abstained = FALSE
          <=> c.open = {} /\ Cardinality(TypesOf(c.shared)) =< 1 /\ cfi.oracle # "empty"
    <3>1. result.abstained = FALSE
            <=> /\ required_mapping_roles(cfi) \subseteq available_roles(context)
                /\ KeepsTypes(cfi, context) /\ KeepsOrder(cfi, context) /\ cfi.oracle # "empty"
      <4> HIDE DEF cfi, result, TypesOf, entity
      <4>1. cfi = package.cfi
        BY DEF cfi
      <4>2. ~ NoManifest.frozen
        BY DEF NoManifest
      <4>3. fail_closed_compile(package, context, NoManifest).abstained = FALSE
              <=> Decides(cfi, context)
        BY <1>2, <4>1, <4>2, CompilesExactly
      <4> QED BY <4>3 DEF result, context, Decides
    <3> QED BY <2>2, <2>4, <2>5, <3>1
  <2>7. \/ result.abstained = TRUE
        \/ /\ result.abstained = FALSE /\ result.positives = 1
           /\ result.controls = SubSeq(package.cfi.controls, 1, 3)
    <3> HIDE DEF result
    <3>1. result = fail_closed_compile(package, c.context, NoManifest)
      BY DEF result
    <3> QED BY <3>1, CompilesToOneCase
  <2>8. Len(SubSeq(cfi.controls, 1, 3)) = 3
    <3>1. cfi.controls \in Seq(ToSet(cfi.controls)) /\ Len(cfi.controls) >= 3
      BY DEF MapsLikeGolden
    <3> HIDE DEF cfi
    <3> QED BY <3>1, SubSeqProperties
  <2> HIDE DEF result
  <2> QED BY <2>6, <2>7, <2>8 DEF result
<1> QED BY <1>4 DEF CompilesWhereItShould

\* The golden invariant, with whatever text and attestation.
LEMMA GoldenMapsLikeGolden ==
  ASSUME NEW cfi, cfi.nodes = GoldenCFI.nodes, cfi.controls = GoldenCFI.controls,
         cfi.temporal_constraints = GoldenCFI.temporal_constraints,
         cfi.cardinality_constraints = GoldenCFI.cardinality_constraints
  PROVE  MapsLikeGolden(cfi)
<1>1. /\ cfi.nodes = GoldenNodes /\ cfi.cardinality_constraints = {}
      /\ cfi.temporal_constraints = {<<"required_review", "action_commit">>}
      /\ cfi.controls = <<"exception_false", "review_complete_before_action", "action_capability_removed">>
  BY DEF GoldenCFI, build_exception_precedence_cfi
<1>2. DOMAIN GoldenNodes = 1 .. 7 /\ Len(GoldenNodes) = 7
  BY DEF GoldenNodes
<1>3. /\ GoldenNodes[1].role = "general_ok" /\ GoldenNodes[2].role = "exception_true"
      /\ GoldenNodes[3].role = "general_permission" /\ GoldenNodes[4].role = "controlling_rule"
      /\ GoldenNodes[5].role = "required_review" /\ GoldenNodes[6].role = "action_commit"
      /\ GoldenNodes[7].role = "policy_violation"
      /\ GoldenNodes[1].type = "Condition" /\ GoldenNodes[2].type = "Condition"
      /\ GoldenNodes[3].type = "Rule" /\ GoldenNodes[4].type = "Exception"
      /\ GoldenNodes[5].type = "Verification" /\ GoldenNodes[6].type = "Action"
      /\ GoldenNodes[7].type = "Outcome"
  BY DEF GoldenNodes, CFINode
<1>4. NodesOf(cfi) = NodesOf(GoldenCFI) /\ Mapped(cfi) = Mapped(GoldenCFI)
      /\ required_mapping_roles(cfi) = required_mapping_roles(GoldenCFI)
  BY DEF NodesOf, Mapped, required_mapping_roles
<1>5. \A j, k \in Mapped(cfi) : cfi.nodes[j].role = cfi.nodes[k].role => j = k
  BY <1>4, GoldenIsMappable DEF Mappable
<1>6. Mapped(cfi) = 1 .. 6
  <2>1. \A k \in 1 .. 7 : GoldenNodes[k].type # "Outcome" <=> k \in 1 .. 6
    BY <1>3
  <2> QED BY <1>1, <1>2, <2>1 DEF Mapped
<1>7. AloneOfType(cfi, "required_review")
  <2>1. \A j \in 1 .. 6 : GoldenNodes[j].type = GoldenNodes[5].type => j = 5
    BY <1>3
  <2> QED BY <1>1, <1>3, <1>6, <2>1 DEF AloneOfType
<1>8. AloneOfType(cfi, "action_commit")
  <2>1. \A j \in 1 .. 6 : GoldenNodes[j].type = GoldenNodes[6].type => j = 6
    BY <1>3
  <2> QED BY <1>1, <1>3, <1>6, <2>1 DEF AloneOfType
<1>9. \A m \in NodesOf(cfi) : m.type = "Outcome" => m.role \notin required_mapping_roles(cfi)
  <2> SUFFICES ASSUME NEW k \in 1 .. 7, GoldenNodes[k].type = "Outcome"
               PROVE  GoldenNodes[k].role \notin required_mapping_roles(cfi)
    BY <1>1, <1>2 DEF NodesOf, ToSet
  <2>1. GoldenNodes[k].role = "policy_violation"
    BY <1>3
  <2> QED BY <1>4, <2>1, GoldenRolesAre DEF GoldenRoles
<1>10. cfi.nodes \in Seq(NodesOf(cfi))
  <2>1. GoldenNodes \in Seq(ToSet(GoldenNodes))
    BY DEF GoldenNodes, ToSet
  <2> QED BY <1>1, <2>1 DEF NodesOf
<1>11. cfi.controls \in Seq(ToSet(cfi.controls)) /\ Len(cfi.controls) >= 3
  BY <1>1 DEF ToSet
<1>12. required_mapping_roles(cfi) = required_mapping_roles(build_exception_precedence_cfi)
  BY <1>4 DEF GoldenCFI
<1>13. \A c \in cfi.temporal_constraints : AloneOfType(cfi, c[1]) /\ AloneOfType(cfi, c[2])
  BY <1>1, <1>7, <1>8
<1> QED BY <1>1, <1>5, <1>9, <1>10, <1>11, <1>12, <1>13 DEF MapsLikeGolden

\* What the packager makes of an invariant like the golden one compiles.
LEMMA PackagedCompiles ==
  ASSUME NEW cfi, CFIShape(cfi), model_validate(cfi), MapsLikeGolden(cfi), NEW outcome,
         NEW p \in PackagesFrom(cfi, outcome)
  PROVE  CompilesWhereItShould(p) /\ MapsLikeGolden(p.cfi) /\ OwnIds(p.cfi)
<1>1. p.cfi = canonicalize(cfi)
  BY DEF PackagesFrom, sign_package, Package
<1>2. Verify(p) /\ model_validate(p.cfi)
  BY PackageIsReleased DEF Released
<1>3. MapsLikeGolden(p.cfi) /\ OwnIds(p.cfi)
  BY <1>1, CanonicalMapsLikeGolden
<1> QED BY <1>2, <1>3, LikeGoldenCompiles

LEMMA ReleasableCompiles ==
  ASSUME \A cfi \in LibraryCFIs : MapsLikeGolden(cfi), NEW p \in ReleasablePackages
  PROVE  CompilesWhereItShould(p)
<1>1. ASSUME NEW cfi \in LibraryCFIs, p \in PackagesFrom(cfi, "approve")
      PROVE  CompilesWhereItShould(p)
  BY <1>1, LibraryAssumption, PackagedCompiles
<1>2. ASSUME NEW attested \in BOOLEAN, p \in PackagesFrom(Golden(attested), "approve")
      PROVE  CompilesWhereItShould(p)
  <2>1. MapsLikeGolden(Golden(attested))
    <3>1. /\ Golden(attested).nodes = GoldenCFI.nodes /\ Golden(attested).controls = GoldenCFI.controls
          /\ Golden(attested).temporal_constraints = GoldenCFI.temporal_constraints
          /\ Golden(attested).cardinality_constraints = GoldenCFI.cardinality_constraints
      BY DEF Golden, GoldenCFI, build_exception_precedence_cfi
    <3> QED BY <3>1, GoldenMapsLikeGolden
  <2> QED BY <1>2, <2>1, AttestedIsValid, PackagedCompiles
<1>3. ASSUME NEW cfi \in LibraryCFIs, p \in attempt_smuggle(build_exception_precedence_cfi, cfi.text)
      PROVE  CompilesWhereItShould(p)
  <2> DEFINE smuggled == [build_exception_precedence_cfi EXCEPT !.text = @ \cup cfi.text]
  <2>1. cfi.text \in SUBSET Content
    BY LibraryAssumption DEF model_validate
  <2>2. CFIShape(smuggled) /\ model_validate(smuggled)
    BY <2>1, SmuggledIsValid
  <2>3. p \in PackagesFrom(smuggled, "approve")
    BY <1>3 DEF attempt_smuggle
  <2>4. /\ smuggled.nodes = GoldenCFI.nodes /\ smuggled.controls = GoldenCFI.controls
        /\ smuggled.temporal_constraints = GoldenCFI.temporal_constraints
        /\ smuggled.cardinality_constraints = GoldenCFI.cardinality_constraints
    BY DEF GoldenCFI, build_exception_precedence_cfi
  <2> HIDE DEF smuggled
  <2>5. MapsLikeGolden(smuggled)
    BY <2>4, GoldenMapsLikeGolden
  <2> QED BY <2>2, <2>3, <2>5, PackagedCompiles
<1>4. CASE \E cfi \in LibraryCFIs \cup {Golden(attested) : attested \in BOOLEAN} :
              p \in PackagesFrom(cfi, "approve")
  BY <1>1, <1>2, <1>4
<1>5. CASE \E cfi \in LibraryCFIs : p \in attempt_smuggle(build_exception_precedence_cfi, cfi.text)
  BY <1>3, <1>5
<1> QED BY <1>4, <1>5 DEF ReleasablePackages, SmuggledPackages, Golden

\* The package of the verifications: the trained adversary answers something,
\* and whatever the gate makes of it is approved.
LEMMA GoldenIsPublished ==
  ASSUME NEW p, p = sign_package(canonicalize(Golden(FALSE)))
  PROVE  /\ p \in Published /\ Verify(p) /\ Mappable(p.cfi) /\ OrdersRoles(p.cfi)
         /\ p.cfi.oracle # "empty"
         /\ required_mapping_roles(p.cfi) = required_mapping_roles(build_exception_precedence_cfi)
<1>1. PICK trained \in TrainedScores : TRUE
  BY TrainedAssumption
<1> DEFINE outcome == GateRun(Golden(FALSE), TRUE, score_cfi(Golden(FALSE), FALSE, trained))
<1>2. Approved(Overridden(outcome))
  BY DEF Overridden, Approved
<1>3. p \in PackagesFrom(Golden(FALSE), Overridden(outcome))
  <2> HIDE DEF outcome
  <2> QED BY <1>2, AttestedIsValid DEF PackagesFrom
<1>4. p \in Extractions[FALSE]
  BY <1>3 DEF Extractions, Extracted, Golden
<1> HIDE DEF outcome
<1>5. Verify(p) /\ model_validate(p.cfi)
  BY <1>3, AttestedIsValid, PackageIsReleased DEF Released
<1>6. p.cfi = canonicalize(Golden(FALSE)) /\ p.cfi.text = {} /\ p.cfi.oracle # "empty"
  <2>1. p.cfi = canonicalize(Golden(FALSE))
    BY DEF sign_package, Package
  <2>2. CFIShape(Golden(FALSE)) /\ Golden(FALSE).text = {}
    BY AttestedIsValid
  <2>3. /\ canonicalize(Golden(FALSE)).text = Golden(FALSE).text
        /\ canonicalize(Golden(FALSE)).oracle = Golden(FALSE).oracle
    BY <2>2, CanonicalFields
  <2>4. Golden(FALSE).oracle # "empty"
    BY DEF Golden, build_exception_precedence_cfi
  <2> QED BY <2>1, <2>2, <2>3, <2>4
<1>7. MapsLikeGolden(p.cfi) /\ OwnIds(p.cfi)
  <2>1. /\ Golden(FALSE).nodes = GoldenCFI.nodes /\ Golden(FALSE).controls = GoldenCFI.controls
        /\ Golden(FALSE).temporal_constraints = GoldenCFI.temporal_constraints
        /\ Golden(FALSE).cardinality_constraints = GoldenCFI.cardinality_constraints
    BY DEF Golden, GoldenCFI, build_exception_precedence_cfi
  <2>2. MapsLikeGolden(Golden(FALSE))
    BY <2>1, GoldenMapsLikeGolden
  <2> QED BY <1>3, <2>2, AttestedIsValid, PackagedCompiles
<1>8. Mappable(p.cfi)
  BY <1>5, <1>7, MapsLikeGoldenIsMappable
<1>9. OrdersRoles(p.cfi)
  <2>1. required_mapping_roles(p.cfi) = {p.cfi.nodes[k].role : k \in Mapped(p.cfi)}
    BY <1>8, MappedNodes
  <2>2. \A role : AloneOfType(p.cfi, role) => role \in required_mapping_roles(p.cfi)
    BY <2>1 DEF AloneOfType
  <2>3. \A c \in p.cfi.temporal_constraints : AloneOfType(p.cfi, c[1]) /\ AloneOfType(p.cfi, c[2])
    BY <1>7 DEF MapsLikeGolden
  <2> QED BY <2>2, <2>3 DEF OrdersRoles
<1>10. p \in Published
  BY <1>4, <1>5, <1>6 DEF Published, validate_and_parse_package
<1> QED BY <1>5, <1>6, <1>7, <1>8, <1>9, <1>10 DEF MapsLikeGolden

LEMMA VerificationsGo == CrossBoundaryGoes /\ EndToEndGoes /\ FederationGoes
<1> DEFINE p == sign_package(canonicalize(Golden(FALSE)))
           roles == required_mapping_roles(p.cfi)
           compilation == CompileFor(p, "procurement")
<1>1. /\ p \in Published /\ Verify(p) /\ Mappable(p.cfi) /\ OrdersRoles(p.cfi)
      /\ p.cfi.oracle # "empty"
      /\ roles = required_mapping_roles(build_exception_precedence_cfi)
  BY GoldenIsPublished
<1>2. NoManifest.frozen => NoManifest.invariant_id = p.cfi.id
  BY DEF NoManifest
<1> HIDE DEF p
<1>3. compilation.abstained = FALSE
  <2> DEFINE context == build_recipient_context("procurement", roles)
             cfi == p.cfi
  <2>1. MapsApart(context, required_mapping_roles(cfi))
    BY ContextMapsApart
  <2>2. compilation = fail_closed_compile(p, context, NoManifest)
    BY DEF CompileFor
  <2>3. cfi = p.cfi
    OBVIOUS
  <2> HIDE DEF compilation, context, cfi
  <2> QED BY <1>1, <1>2, <2>1, <2>2, <2>3, MapsApartCompile
<1>4. CrossBoundaryGoes
  BY <1>1, <1>3 DEF CrossBoundaryGoes
<1>5. EndToEndGoes
  <2> DEFINE assessed == Assessment(p, "procurement")
  <2>1. assessed = Assessed(compilation, roles)
    BY DEF Assessment
  <2> HIDE DEF compilation, roles
  <2>2. assessed.abstained = FALSE /\ "agent_susceptibility" \in DOMAIN assessed.metrics
    BY <1>3, <2>1 DEF Assessed, build_report
  <2> HIDE DEF assessed
  <2> QED BY <1>1, <2>2 DEF EndToEndGoes, assessed
<1>6. FederationGoes
  <2> DEFINE contributions == PipelineContributions(p)
             manifest == CohortManifest(invariant_id, 5)
             sent(domain) == recipient_evaluate_and_contribute(p, domain, manifest,
                               required_mapping_roles(build_exception_precedence_cfi))
  <2>1. contributions = [k \in 1 .. 5 |-> sent(PipelineDomains[k])]
    <3>1. DOMAIN PipelineDomains = 1 .. 5
      BY DEF PipelineDomains
    <3> QED BY <3>1 DEF PipelineContributions
  <2>2. ASSUME NEW domain PROVE ~ sent(domain).abstained
    <3> DEFINE context == RecipientContext(domain, [r \in roles |-> OntologyMapping(<<"local", r>>, "approved")])
               cfi == p.cfi
               answer == fail_closed_compile(p, context, manifest)
    <3>1. MapsApart(context, roles)
      BY DEF MapsApart, RecipientContext, OntologyMapping, available_roles
    <3>2. manifest.frozen => manifest.invariant_id = cfi.id
      BY DEF CohortManifest
    <3>3. sent(domain) = Contribution(answer, manifest)
      BY <1>1 DEF recipient_evaluate_and_contribute
    <3>4. cfi = p.cfi /\ roles = required_mapping_roles(cfi)
      OBVIOUS
    <3>5. answer.abstained = FALSE
      <4> HIDE DEF context, cfi, roles, manifest
      <4> QED BY <1>1, <3>1, <3>2, <3>4, MapsApartCompile
    <3> HIDE DEF answer, manifest, sent
    <3> QED BY <3>3, <3>5 DEF Contribution
  <2>3. Len(contributions) = 5
    <3> HIDE DEF sent
    <3> QED BY <2>1
  <2>4. \A k \in DOMAIN contributions : ~ contributions[k].abstained
    <3> HIDE DEF sent
    <3> QED BY <2>1, <2>2
  <2>5. Len(contributions) >= MinSlice /\ secure_aggregate(contributions, 5) # {}
    <3> HIDE DEF contributions
    <3> QED BY <2>3 DEF MinSlice, secure_aggregate
  <2> HIDE DEF contributions
  <2> QED BY <1>1, <2>4, <2>5 DEF FederationGoes, contributions
<1> QED BY <1>4, <1>5, <1>6

\* What was released compiles at every recipient whose map is complete and
\* keeps roles of different types apart, and nowhere else, if the library's
\* invariants name and type their nodes as the golden one does; and the
\* verification scripts go well (alpha_rename, preserves,
\* fail_closed_compile, verify_cross_boundary).
THEOREM ReleasesCompile ==
  ASSUME \A cfi \in LibraryCFIs : MapsLikeGolden(cfi)
  PROVE  Spec => []ReleasedCompiles
<1>1. \A p \in ReleasablePackages : CompilesWhereItShould(p)
  BY ReleasableCompiles
<1>2. PackagesInv /\ ReportInv => ReleasedCompiles
  <2> SUFFICES ASSUME PackagesInv, ReportInv PROVE ReleasedCompiles
    OBVIOUS
  <2>1. Packages \subseteq CompilingPackages
    BY <1>1, PackagesAreReleasable DEF CompilingPackages
  <2>2. report.command \in {"cross-boundary", "end-to-end", "federation-workflow"} => report.exit = 0
    BY VerificationsGo DEF ReportInv
  <2> QED BY <2>1, <2>2 DEF ReleasedCompiles
<1> QED BY <1>2, PackagesHold, ReportsHold, PTL

=============================================================================
