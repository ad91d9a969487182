--------------------------- MODULE IncidentEvidence ---------------------------
(***************************************************************************)
(* What a contributor makes of an incident's evidence: the adapters that   *)
(* normalise a trace, the incident graph, the structural replay, and the   *)
(* schema and conversions of an incident bundle.                           *)
(*                                                                         *)
(* An event is its type and its index; actors, states and digests are not  *)
(* read by anything that decides.                                          *)
(***************************************************************************)
EXTENDS Integers, SequencesExt

EventType == {"observation", "policy_lookup", "decision", "tool_call", "approval", "action",
              "state_mutation", "compensation", "termination"}

NoIndex == -1  \* an event of a bundle need not say its sequence_index

IncidentEvent(type, index) == [event_type |-> type, sequence_index |-> index]

\* What the incident-bundle schema asks of the events.
ValidBundle(bundle) == \A k \in DOMAIN bundle : bundle[k].event_type \in EventType

\* event.get("sequence_index", idx).
bundle_raw_trace(bundle) ==
  [k \in DOMAIN bundle |->
     [bundle[k] EXCEPT !.sequence_index = IF @ = NoIndex THEN k - 1 ELSE @]]

\* The adapter's own default; a type it does not know is an error.
JsonTraceAdapter(raw) ==
  [k \in DOMAIN raw |-> IncidentEvent(raw[k].event_type,
     IF raw[k].sequence_index = NoIndex THEN k - 1 ELSE raw[k].sequence_index)]

\* sorted by the index, events of one index in the order of the trace.
ordered_events(trace) ==
  LET before(i, j) == \/ trace[i].sequence_index < trace[j].sequence_index
                      \/ trace[i].sequence_index = trace[j].sequence_index /\ i < j
      order == SetToSortSeq(DOMAIN trace, before)
  IN [k \in DOMAIN order |-> trace[order[k]]]

PolicyNode == -2       \* policy:<digest>; no event's node
StateExternal == -3    \* state_external

GraphEdge(source, target, relation) == [source |-> source, target |-> target, relation |-> relation]

\* A node is an index: events of one index are one node, and the edge from
\* one to the next of them is a loop.
GraphOf(raw) ==
  LET events == ordered_events(JsonTraceAdapter(raw))
      index(k) == events[k].sequence_index
      EventsOf(type) == {k \in DOMAIN events : events[k].event_type = type}
  IN [nodes |-> {index(k) : k \in DOMAIN events}, marked |-> {},
      edges |-> {GraphEdge(index(k), index(k + 1), "control_flow") : k \in DOMAIN events \ {Len(events)}}
                \cup {GraphEdge(index(k), PolicyNode, "policy_flow") : k \in EventsOf("policy_lookup")}
                \cup {GraphEdge(index(k), StateExternal, "state_flow") : k \in EventsOf("state_mutation")}]

\* StructuralReplayProvider: one rate for a graph, whatever its nodes.
StructuralFailure(graph) == \E e \in graph.edges : e.relation = "policy_flow"
=============================================================================
