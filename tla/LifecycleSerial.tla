--------------------------- MODULE LifecycleSerial ---------------------------
(***************************************************************************)
(* What the registry promises a client that is alone: each artifact is one *)
(* record that is published once and from then on moves, in one step at a  *)
(* time, along the lifecycle graph, its history and chain growing with it. *)
(***************************************************************************)
EXTENDS LifecycleRules

VARIABLE artifacts

Init == artifacts = [i \in Ids |-> NoRecord]

Publish(i) ==
  /\ artifacts[i] = NoRecord
  /\ artifacts' = [artifacts EXCEPT ![i] = NewRecord]

Move(i) ==
  /\ artifacts[i] # NoRecord
  /\ \E to_state \in VALID_TRANSITIONS[artifacts[i].state] :
       artifacts' = [artifacts EXCEPT ![i] = Transition(@, to_state)]

Succeed(i) ==
  /\ artifacts[i].state = "active"
  /\ \E successor \in Ids : artifacts' = [artifacts EXCEPT ![i] = Supersede(@, successor)]

Next == \E i \in Ids : Publish(i) \/ Move(i) \/ Succeed(i)

Spec == Init /\ [][Next]_artifacts
=============================================================================
