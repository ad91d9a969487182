------------------------------ MODULE CfiPackage ------------------------------
(***************************************************************************)
(* Causal failure invariants and what is done to one before it leaves its  *)
(* contributor: validation, canonicalisation, the linter, the release      *)
(* gate, the packager and the signature.                                   *)
(*                                                                         *)
(* A text is the set of the kinds of content found in it, which is all any *)
(* pattern asks of it.  A node's id is a pair, so that the ids alpha       *)
(* renaming allocates differ from the author's.  A signature is the body   *)
(* it was made over; nothing else verifies with it.                        *)
(***************************************************************************)
EXTENDS Integers, SequencesExt

NodeType == {"Observation", "Condition", "Rule", "Exception", "Authority", "Decision",
             "Verification", "Action", "ExternalEffect", "Obligation", "Outcome"}
EdgeType == {"precedes", "depends_on", "enables", "forbids", "overrides", "requires",
             "observed_as", "commits", "causes", "compensates", "violates", "core.ext/supports"}
EdgeStatus == {"present", "required_but_absent"}
DisclosureTier == {"public", "member-only", "restricted-bilateral", "embargoed", "non-shareable"}

\* The kinds of content the linter's, the adversaries' and the registry's
\* patterns look for in a text.
Content == {"keyword", "noun", "secret", "literal", "prompt", "exploit"}

-----------------------------------------------------------------------------
(* The golden invariant of Appendix A, and packages.                       *)

CFINode(id, type, role) == [id |-> id, type |-> type, role |-> role, extensions |-> {}]
CFIEdge(source, type, target, status) ==
  [source |-> source, edge_type |-> type, target |-> target, status |-> status]

C(k) == <<"c", k>>    \* the author's ids
R(k) == <<"r", k>>
V0 == <<"v", 0>>
A0 == <<"a", 0>>
O0 == <<"o", 0>>

GoldenNodes ==
  << CFINode(C(0), "Condition", "general_ok"), CFINode(C(1), "Condition", "exception_true"),
     CFINode(R(0), "Rule", "general_permission"), CFINode(R(1), "Exception", "controlling_rule"),
     CFINode(V0, "Verification", "required_review"), CFINode(A0, "Action", "action_commit"),
     CFINode(O0, "Outcome", "policy_violation") >>

GoldenEdges ==
  << CFIEdge(C(0), "enables", R(0), "present"), CFIEdge(C(1), "enables", R(1), "present"),
     CFIEdge(R(1), "overrides", R(0), "present"), CFIEdge(R(1), "requires", V0, "present"),
     CFIEdge(R(0), "core.ext/supports", A0, "present"),
     CFIEdge(V0, "precedes", A0, "required_but_absent"), CFIEdge(A0, "causes", O0, "present") >>

build_exception_precedence_cfi ==
  [id |-> "CFI-EXCEPTION-PRECEDENCE-0001", nodes |-> GoldenNodes, edges |-> GoldenEdges,
   temporal_constraints |-> {<<"required_review", "action_commit">>},
   cardinality_constraints |-> {},
   controls |-> <<"exception_false", "review_complete_before_action", "action_capability_removed">>,
   oracle |-> "predicate", text |-> {}, tier |-> "member-only",
   free_text |-> FALSE, exact_literals |-> FALSE, attested |-> FALSE]

\* The schema's fields, of those something here reads.
CFIShape(cfi) ==
  /\ DOMAIN cfi = DOMAIN build_exception_precedence_cfi
  /\ cfi.nodes \in Seq(ToSet(cfi.nodes))
  /\ \A k \in DOMAIN cfi.nodes : DOMAIN cfi.nodes[k] = {"id", "type", "role", "extensions"}
  /\ \A k \in DOMAIN cfi.edges : DOMAIN cfi.edges[k] = {"source", "edge_type", "target", "status"}

Unsigned == [unsigned |-> TRUE]
Package(cfi, signed) == [cfi |-> cfi, signed |-> signed]
sign_package(cfi) == Package(cfi, cfi)
Verify(package) == package.signed # Unsigned /\ package.signed = package.cfi

-----------------------------------------------------------------------------
(* Validation.                                                             *)

NodesOf(cfi) == ToSet(cfi.nodes)
EdgesOf(cfi) == ToSet(cfi.edges)

\* Every edge here is observed, and such an edge needs no further evidence.
ValidEdge(edge) == edge.edge_type \in EdgeType /\ edge.status \in EdgeStatus

\* Roles with a domain noun: "refund_lost" stands for one whose tokens have it,
\* "refunds_lost" for one that has it within a word.  Every node has a role.
TokenNouns == {"refund_lost"}
RoleNouns == TokenNouns \cup {"refunds_lost"}

\* Each field has its type, no role has a noun for a token, each edge names
\* nodes of the graph, and neither free text nor exact literals are declared.
model_validate(cfi) ==
  LET ids == {m.id : m \in NodesOf(cfi)}
  IN /\ cfi.tier \in DisclosureTier /\ cfi.text \subseteq Content
     /\ \A m \in NodesOf(cfi) : m.type \in NodeType /\ m.role \notin TokenNouns
     /\ \A e \in EdgesOf(cfi) : ValidEdge(e) /\ {e.source, e.target} \subseteq ids
     /\ ~ cfi.free_text /\ ~ cfi.exact_literals

\* Roles a recipient maps; the outcome is derived.
required_mapping_roles(cfi) == {m.role : m \in {m \in NodesOf(cfi) : m.type # "Outcome"}}

-----------------------------------------------------------------------------
(* Canonicalisation.  Every caller makes a packager for its package, so    *)
(* the counters of the roles start at zero.                                *)

\* _allocate_role: the nodes of one type are numbered in their order.
Fresh(nodes, k) == <<nodes[k].type, Cardinality({j \in 1 .. k - 1 : nodes[j].type = nodes[k].type})>>

\* Of the nodes with one id, the edges follow the last.
IdMap(nodes) ==
  [id \in {nodes[k].id : k \in DOMAIN nodes} |->
     Fresh(nodes, Max({k \in DOMAIN nodes : nodes[k].id = id}))]

Renamed(nodes) == [k \in DOMAIN nodes |-> [nodes[k] EXCEPT !.id = Fresh(nodes, k)]]

\* A bug: the edges keep the author's targets.
alpha_rename_EdgeTargets(cfi) ==
  LET id_map == IdMap(cfi.nodes)
      edges == [k \in DOMAIN cfi.edges |-> [cfi.edges[k] EXCEPT !.source = id_map[@]]]
  IN [cfi EXCEPT !.nodes = Renamed(cfi.nodes), !.edges = edges]

alpha_rename(cfi) ==
  LET id_map == IdMap(cfi.nodes)
      edges == [k \in DOMAIN cfi.edges |->
                  [cfi.edges[k] EXCEPT !.source = id_map[@], !.target = id_map[@]]]
  IN [cfi EXCEPT !.nodes = Renamed(cfi.nodes), !.edges = edges]

\* An extension with a domain noun is dropped.
vocabulary_project(cfi) ==
  LET nodes == [k \in DOMAIN cfi.nodes |-> [cfi.nodes[k] EXCEPT !.extensions = @ \ {"noun"}]]
  IN [cfi EXCEPT !.nodes = nodes]

\* literal_bucket_scan only warns, and graph_normalize and the digest of
\* semantic_dedup only report: none of them changes the package.
canonicalize(cfi) == vocabulary_project(alpha_rename(cfi))

\* The hard linter.  It finds a noun anywhere in an outcome's role.
lint_for_release(cfi) ==
  (cfi.text \cap {"noun", "secret", "literal"}) \cup
  {"outcome_role" : m \in {m \in NodesOf(cfi) : m.type = "Outcome" /\ m.role \in RoleNouns}}

-----------------------------------------------------------------------------
(* The release gate.  Scores are in percent.                               *)

Larger(a, b) == IF a > b THEN a ELSE b

linkability(cfi) ==
  LET size == ((Len(cfi.nodes) + Len(cfi.edges)) * 100) \div 30
      extended == \E m \in NodesOf(cfi) : m.extensions # {}
      score == size + (IF extended THEN 15 ELSE 0)
  IN IF score > 100 THEN 100 ELSE score

\* trained: what the trained adversary answers.  One of the five domains'
\* vocabularies is found, or the source is named, or the model is sure.
source_attribution(cfi, source_domain, trained) ==
  Larger(IF source_domain THEN 90 ELSE IF "keyword" \in cfi.text THEN 20 ELSE 0, trained)

reconstruction(cfi) ==
  IF "secret" \in cfi.text THEN 100
  ELSE IF "literal" \in cfi.text THEN 60
  ELSE IF lint_for_release(cfi) # {} THEN 50 ELSE 0

score_cfi(cfi, source_domain, trained) ==
  [linkability |-> linkability(cfi), reconstruction |-> reconstruction(cfi),
   source_attribution |-> source_attribution(cfi, source_domain, trained)]

\* complete: each of the checklist's twelve questions has an answer.
GateRun(cfi, complete, scores) ==
  LET violations == lint_for_release(cfi)
      residual == Larger(scores.linkability, Larger(scores.source_attribution, scores.reconstruction))
  IN IF ~ complete \/ violations # {} THEN "reject"
     ELSE IF scores.source_attribution >= 30 \/ scores.reconstruction >= 30
          THEN "require_further_generalization"
     ELSE IF cfi.tier = "non-shareable" THEN "non_shareable"
     ELSE IF residual > 40 THEN "restrict_distribution"
     ELSE "approve"

Approved(outcome) == outcome \in {"approve", "restrict_distribution"}

-----------------------------------------------------------------------------
(* The packager.  It yields the package, or none.                          *)

\* A bug: the linter's answer is left to the gate.
PackagesFrom_Unlinted(cfi, outcome) ==
  IF Approved(outcome) /\ cfi.tier # "non-shareable" THEN {sign_package(canonicalize(cfi))} ELSE {}

PackagesFrom(cfi, outcome) ==
  IF Approved(outcome) /\ cfi.tier # "non-shareable" /\ lint_for_release(cfi) = {}
  THEN {sign_package(canonicalize(cfi))} ELSE {}

\* The pipeline and the commands make an approval of every refusal.
Overridden(outcome) == IF Approved(outcome) THEN outcome ELSE "approve"

package_with_gate(cfi, complete, source_domain, trained) ==
  PackagesFrom(cfi, GateRun(cfi, complete, score_cfi(cfi, source_domain, trained)))

\* The text goes into the failure predicate, and the gate is not asked.
attempt_smuggle(cfi, text) == PackagesFrom([cfi EXCEPT !.text = @ \cup text], "approve")
=============================================================================
