------------------------------ MODULE MCWorkflow ------------------------------
(***************************************************************************)
(* The command line over small directories: a bundle of three events with  *)
(* a lookup of the policy, one whose events share an index and look up     *)
(* none, one the schema refuses.                                           *)
(***************************************************************************)
EXTENDS Workflow

MCElements == 0 .. 2
MCCost == [e \in MCElements |-> 1]  \* privacy_cost

Lookup == << IncidentEvent("policy_lookup", NoIndex), IncidentEvent("tool_call", NoIndex),
             IncidentEvent("state_mutation", NoIndex) >>
Merged == << IncidentEvent("action", 1), IncidentEvent("decision", 0), IncidentEvent("approval", 1) >>
Invalid == << IncidentEvent("unknown", NoIndex) >>

MCCorpora == { << Lookup >>, << Invalid, Merged >> }

Golden == build_exception_precedence_cfi
MCLibraryCFIs ==
  { [Golden EXCEPT !.text = {"literal"}], [Golden EXCEPT !.text = {"prompt"}],
    [Golden EXCEPT !.tier = "non-shareable"],
    [Golden EXCEPT !.nodes = Append([@ EXCEPT ![1].extensions = {"noun"}],
                                    CFINode(A0, "Outcome", "policy_violation"))],
    [Golden EXCEPT !.nodes[7].role = "refunds_lost"] }

\* The hypothesis under which what they become is proved to compile.
ASSUME LibraryMapsLikeGolden == \A cfi \in LibraryCFIs : MapsLikeGolden(cfi)

\* An invariant whose oracle has no expression may be released; kept out of
\* the library, where it would only multiply the states.
ASSUME NoOracleNoTest ==
  \A p \in PackagesFrom([Golden EXCEPT !.oracle = "empty"], "approve") :
    CompilesWhereItShould(p) /\ CompileFor(p, "procurement").abstained
=============================================================================
