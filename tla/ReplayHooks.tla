----------------------------- MODULE ReplayHooks -----------------------------
(***************************************************************************)
(* Replaying an incident: the providers (structural, or a service over     *)
(* HTTP), the named profiles and the environment that gives each its url,  *)
(* the sandbox services, the counterfactual scores (Algorithm 1), and the  *)
(* probes of the hooks.                                                    *)
(*                                                                         *)
(* Rates are in percent.  An outcome that may not come is a set: empty     *)
(* where the code raises.                                                  *)
(***************************************************************************)
EXTENDS IncidentEvidence

REPLAY_PROFILES == {"agentrx", "causalflow", "mock"}
LIVE_HOOK_ENV == {"agentrx", "causalflow"}  \* profiles whose variable live mode asks for

\* What the environment holds for each profile's variable.  An empty string
\* is a value: the default does not replace it.
Environments == [REPLAY_PROFILES -> {"unset", "empty", "url"}]

resolve_profile_replay_url(env, profile) == IF env[profile] = "unset" THEN "default" ELSE env[profile]

\* An url goes before a profile; of neither, the structural provider is
\* taken.  A name that is no profile's raises.
resolve_replay_provider(replay_url, replay_profile, env) ==
  CASE replay_url # "empty" -> {replay_url}
    [] replay_url = "empty" /\ replay_profile = "none" -> {"structural"}
    [] replay_url = "empty" /\ replay_profile \in REPLAY_PROFILES
         -> {resolve_profile_replay_url(env, replay_profile)}
    [] OTHER -> {}

-----------------------------------------------------------------------------
(* Services: stub is one of the three sandboxes, agent anything that       *)
(* speaks the protocol, odd answers neither field, down does not answer,   *)
(* unhealthy replays and fails its health check.                           *)

Services == {"stub", "agent", "odd", "down", "unhealthy"}

\* The sandboxes: an unmarked graph without policy fails by half.
compute_failure_rate(graph) ==
  IF graph.marked # {} THEN 0 ELSE IF StructuralFailure(graph) THEN 100 ELSE 50

\* What a service may answer to a replay.
Answers(service, graph) ==
  CASE service \in {"stub", "unhealthy"} -> {[failure_rate |-> compute_failure_rate(graph)]}
    [] service = "agent" -> {[failure_rate |-> 49], [fail |-> TRUE], [fail |-> FALSE]}
    [] service = "odd" -> {[detail |-> "not a rate"]}
    [] OTHER -> {}

\* failure_rate goes before fail.
HttpRate(answer) ==
  IF "failure_rate" \in DOMAIN answer THEN {answer.failure_rate}
  ELSE IF "fail" \in DOMAIN answer THEN {IF answer.fail THEN 100 ELSE 0} ELSE {}

\* The share of the trials that fail by half or more; one answer that is no
\* rate raises.
HttpEstimate(answers) ==
  LET failing == {k \in DOMAIN answers : \E rate \in HttpRate(answers[k]) : rate >= 50}
  IN IF \E k \in DOMAIN answers : HttpRate(answers[k]) = {} THEN {}
     ELSE {(100 * Cardinality(failing)) \div Len(answers)}

\* estimate_failure_rate of a provider whose services answer by the graph.
Estimate(provider, graph) ==
  IF provider = "structural" THEN {IF StructuralFailure(graph) THEN 100 ELSE 0}
  ELSE UNION {HttpEstimate(<<a, a, a>>) : a \in Answers(provider, graph)}

-----------------------------------------------------------------------------
(* Algorithm 1.                                                            *)

apply_intervention(graph, component) ==
  [graph EXCEPT !.marked = @ \cup ({component} \cap graph.nodes)]

default_intervention_generator ==
  {"enforce_precedence", "insert_verification", "remove_unauthorized_capability", "noop"}

\* Of a provider that answers by the graph alone.
oracle(provider, graph) == CHOOSE rate \in Estimate(provider, graph) : TRUE

\* The kind of an intervention is only a mark's value.
counterfactual_candidate_scoring(graph, provider) ==
  LET baseline == oracle(provider, graph)
      delta == [z \in graph.nodes |->
        baseline - Min({oracle(provider, apply_intervention(graph, z)) : j \in default_intervention_generator})]
      before(a, b) == delta[a] > delta[b] \/ (delta[a] = delta[b] /\ a < b)
      order == CHOOSE o \in [1 .. Cardinality(graph.nodes) -> graph.nodes] :
                 \A j, k \in DOMAIN o : j < k => before(o[j], o[k])
  IN [k \in DOMAIN order |-> [component |-> order[k], delta |-> delta[order[k]]]]

-----------------------------------------------------------------------------
(* Probes.                                                                 *)

require_live_hook_env(live, env) == live => \A p \in LIVE_HOOK_ENV : env[p] = "url"

EmptyGraph == [nodes |-> {}, edges |-> {}, marked |-> {}]

\* The health check, then two trials of an empty graph.
probe_replay_profile(url, service) ==
  IF url = "empty" \/ service = "down" THEN {}
  ELSE {[healthy |-> service # "unhealthy", replay_ok |-> rate \in 0 .. 100] :
          rate \in UNION {HttpEstimate(<<a, b>>) : a, b \in Answers(service, EmptyGraph)}}

\* Whether a probe of the profiles asked may go well.
ProbesGoWell(asked, live, env, services) ==
  /\ require_live_hook_env(live, env)
  /\ \A p \in asked : \E result \in probe_replay_profile(resolve_profile_replay_url(env, p), services[p]) :
       result.healthy /\ result.replay_ok

\* Exits of a probe of one profile, of all, and of a name that is none's.
ProbeExits ==
  {1} \cup {IF ProbesGoWell(asked, live, env, services) THEN 0 ELSE 1 :
     asked \in {REPLAY_PROFILES} \cup {{p} : p \in REPLAY_PROFILES}, live \in BOOLEAN,
     env \in Environments, services \in [REPLAY_PROFILES -> Services]}
=============================================================================
